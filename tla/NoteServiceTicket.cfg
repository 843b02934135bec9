SPECIFICATION Spec
CONSTANTS
    Ids = {i1}
    Tokens = {t1, t2}
    Procs = {p1, p2}
    Nil = Nil
    TicketTimeout = 1
    TicketClockSkew = 0
    MinNoteLifetime = 2
    MaxNoteLifetime = 2
    Lifetimes = {2}
    Bodies = {"ok"}
    Capacity = 1
    MaxTime = 3
    MaxFaults = 0
    MaxCrashes = 0
    MaxSetBacks = 0
INVARIANT
    TicketUsedOnce
