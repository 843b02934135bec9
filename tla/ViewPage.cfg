SPECIFICATION Spec
CONSTANTS
    Tabs = {t1, t2}
    Links = {"good", "badKey", "badToken", "malformed", "none"}
INVARIANTS
    HiddenPageEmpty
    FragmentUntilChoice
    OutcomeVisible
PROPERTIES
    ReadAtMostOnce
    OpeningEnds
