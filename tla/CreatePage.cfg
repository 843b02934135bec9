SPECIFICATION Spec
CONSTANTS
    Texts = {"first", "second", "large"}
    LargeTexts = {"large"}
    MaxAttempts = 2
    Empty = Empty
INVARIANTS
    HiddenPageEmpty
    LinkIsSaved
PROPERTIES
    OutcomeReported
    NoAttemptAfterLink
    AttemptsEnd
