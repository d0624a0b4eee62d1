SPECIFICATION CardSpec
CONSTANTS
    Cards <- MCCards
    CardKeys <- MCCardKeys
    ReviewCard = "review"
    KeptByReset <- MCKept
    TopKeys <- MCTop
    HostOnly <- MCHostOnly
    Optional <- MCOptional
    Base = "base"
    Invalid = "invalid"
    Typed = {"own"}
    Foreign = {"other"}
    Legacy <- MCLegacy
    InitialDocs <- MCInitialDocs
    NoDraft = NoDraft
    NoUndo = NoUndo
    NoAnswer = NoAnswer
    MaxClicks = 2
    MaxEdits = 2
    MaxForeign = 1
CHECK_DEADLOCK FALSE
INVARIANT EditsSurvive
PROPERTY SavesAreOwn
