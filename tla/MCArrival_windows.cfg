SPECIFICATION Spec
CONSTANTS
    w = w
    p = p
    q = q
    Windows = {w, p, q}
    NoWin = NoWin
    Stages <- MCStages
    Detectors <- MCDetectors
    Threshold = 100
    Browsers <- MCBrowsers
    Beginnings <- MCBeginnings
    Limits <- MCLimits
    MaxHappenings = 5
CHECK_DEADLOCK FALSE
INVARIANTS
    TypeOK
    FocusComesBack
    GivenBackOnce
    ManagedLikeAfterRestart
