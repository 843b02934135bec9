SPECIFICATION Spec
CONSTANTS
    ByteBits = 4
    CharBits = 3
    IDLen = 2
    Newline = Newline
    Alien = Alien
    Error = Error
    Nil = Nil
    Requests <- MCRequests
    MaxLen = 4
INVARIANTS
    AcceptedTextFits
    OneTextPerID
\* A request ends with its answer.
CHECK_DEADLOCK FALSE
