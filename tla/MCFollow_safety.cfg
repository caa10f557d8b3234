SPECIFICATION Spec
CONSTANTS
    p = p
    w = w
    s1 = s1
    s2 = s2
    s3 = s3
    Windows = {p, w}
    Workspaces = {s1, s2, s3}
    Names = {}
    NoWin = NoWin
    NoWs = NoWs
    NoName = NoName
    Gone = Gone
    Pips = {p}
    Output <- TwoOutputs
    Policy <- Following
    OverlayPolicy <- Staying
    RestoreLayout = TRUE
    Workers = {k1, k2}
    MaxHappenings = 4
    Patient = FALSE
    Limits <- Everything
    InitialNiri <- Beginnings
SYMMETRY Tasks
\* The system rests when the bounds are used up.
CHECK_DEADLOCK FALSE
INVARIANTS
    TypeOK
    IgnoredNotTracked
    TrackedAreOpen
    CacheIsCurrent
