SPECIFICATION Spec
CONSTANTS
    Ids = {i1, i2}
    Tokens = {t1, t2}
    Procs = {p1, p2}
    Nil = Nil
    TicketTimeout = 1
    TicketClockSkew = 0
    MinNoteLifetime = 1
    MaxNoteLifetime = 1
    Lifetimes = {0, 1}
    Bodies = {"malformed", "oversized", "emptyNote", "ok"}
    Capacity = 1
    MaxTime = 3
    MaxFaults = 1
    MaxCrashes = 0
    MaxSetBacks = 0
SYMMETRY Symmetry
PROPERTIES
    ConflictMeansUsed
    NoteLeavesBurnedOrExpired
