\* One ask with a countdown and one without, one session, one tab.
SPECIFICATION Spec
CONSTANTS
    Asks = {a1, a2}
    StatusLess = {a2}
    Nothing = Nothing
    MaxFaults = 1
CHECK_DEADLOCK FALSE
INVARIANTS
    NeverRevives
    AnswersFollowTheHost
PROPERTIES
    PanelCloses
