SPECIFICATION Spec
CONSTANTS
    w1 = w1
    w2 = w2
    s1 = s1
    s2 = s2
    s3 = s3
    Windows = {w1, w2}
    Workspaces = {s1, s2, s3}
    Names = {pad}
    NoWin = NoWin
    NoWs = NoWs
    NoName = NoName
    Gone = Gone
    Tasks = {t1, t2, t3}
    Output <- OneOutput
    Floating <- OnlyTheSecond
    RestoreFocus = TRUE
    MaxInFlight = 1
    MaxMoves = 1
    ClientsWait = FALSE
    Limits <- Nothing
    MaxHappenings = 0
    InitialNiri <- Apart
SYMMETRY Requests
\* The system rests when no client asks for anything and the bounds are used up.
CHECK_DEADLOCK FALSE
INVARIANT
    RestoredToOrigin
