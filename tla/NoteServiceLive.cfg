SPECIFICATION FairSpec
CONSTANTS
    Ids = {i1, i2}
    Tokens = {t1, t2}
    Procs = {p1}
    Nil = Nil
    TicketTimeout = 1
    TicketClockSkew = 0
    MinNoteLifetime = 1
    MaxNoteLifetime = 1
    Lifetimes = {1}
    Bodies = {"ok"}
    Capacity = 1
    MaxTime = 3
    MaxFaults = 1
    MaxCrashes = 1
    MaxSetBacks = 0
PROPERTIES
    ExpiredRecordsRemoved
    RequestsEnd
