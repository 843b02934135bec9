SPECIFICATION Spec
CONSTANT
    Handlers = {h1, h2}
CHECK_DEADLOCK FALSE
INVARIANTS
    DatabaseOutlivesUsers
    ErrorIffServingFailed
PROPERTY
    ProcessEnds
