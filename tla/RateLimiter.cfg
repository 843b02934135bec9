SPECIFICATION Spec
CONSTANTS
    Clients = {c1, c2, c3}
    Nil = Nil
    Requests = 1
    Window = 4
    Burst = 3
    SweepInterval = 3
    MinBucketTTL = 4
    IdleAge = 2
    MaxBuckets = 2
    Second = 2
    MaxTime = 9
SYMMETRY Symmetry
INVARIANTS
    BucketsBounded
PROPERTIES
    ImplementsTokenBuckets
    RetryAfterHonoured
