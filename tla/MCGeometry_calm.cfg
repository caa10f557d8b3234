SPECIFICATION Spec
CONSTANTS
    small = small
    big = big
    large = large
    left = left
    inner = inner
    right = right
    middle = middle
    deep = deep
    None = None
    IsPip = TRUE
    Sizes = {small, big}
    PeekSize = large
    OverlaySize = small
    PipSize = small
    Spots = {left, right}
    Shifted <- BackAndForth
    PeekSpot = middle
    OverlaySpot = right
    PipSpot = right
    FloatSpot = left
    OtherSpots = {inner, deep}
    Placed <- Bars
    RestoreLayout = TRUE
    Patient = TRUE
    Mishaps = {}
    MaxRequests = 4
    MaxUser = 2
    MaxBreaks = 2
    InitialLayouts <- Anyhow
\* The system rests when the bounds are used up.
CHECK_DEADLOCK FALSE
INVARIANTS
    TypeOK
    LearnedIsReal
    PeekNeverLearned
    LockHolds
    Restored
