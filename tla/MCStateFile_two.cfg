SPECIFICATION Spec
CONSTANTS
    Savers = {k1, k2}
    MaxChanges = 2
    MaxFaults = 0
    MaxEnds = 0
    NoFile = NoFile
    Empty = Empty
    Torn = Torn
\* The system rests when the bounds are used up.
CHECK_DEADLOCK FALSE
SYMMETRY Saves
INVARIANT
    FileIsWhole
