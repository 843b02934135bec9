SPECIFICATION Spec
CONSTANTS
    Ids = {i1}
    Tokens = {t1, t2}
    Procs = {p1, p2}
    Nil = Nil
    TicketTimeout = 1
    TicketClockSkew = 0
    MinNoteLifetime = 1
    MaxNoteLifetime = 1
    Lifetimes = {1, 2}
    Bodies = {"wrongMedia", "badToken", "largeNote", "ok"}
    Capacity = 2
    MaxTime = 3
    MaxFaults = 1
    MaxCrashes = 1
    MaxSetBacks = 1
SYMMETRY Symmetry
INVARIANTS
    TypeOK
    OneDeliveryPerNote
    StoredNotesOpenable
    MarkerOutlivesTicket
PROPERTIES
    NoteLeavesBurnedOrExpired
    NoReuseWhileValid
    ImplementsOneTimeNote
