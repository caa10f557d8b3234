SPECIFICATION FairSpec
CONSTANTS
    Savers = {k1, k2}
    MaxChanges = 3
    MaxFaults = 1
    MaxEnds = 2
    NoFile = NoFile
    Empty = Empty
    Torn = Torn
\* The system rests when the bounds are used up.
CHECK_DEADLOCK FALSE
INVARIANT
    TypeOK
PROPERTIES
    StopKeepsState
    ChangesAreSaved
    WritesAreAtomic
