SPECIFICATION FairSpec
CONSTANTS
    Service = Service
    Manual = {manual}
    Windows = {w}
    MaxSessions = 2
    MaxEnds = 2
    MaxStarts = 1
    MaxHides = 2
    MaxFaults = 1
CHECK_DEADLOCK FALSE
INVARIANTS
    TypeOK
    Reachable
    NoStaleIds
    HiddenKept
PROPERTIES
    Joined
