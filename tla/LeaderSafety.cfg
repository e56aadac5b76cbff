SPECIFICATION MCSpec
CHECK_DEADLOCK FALSE
CONSTANTS
    A = A
    B = B
    NoOne = NoOne
    None = None
    Replicas = {A, B}
    Duration = 5
    Deadline = 4
    Retry = 1
    MaxGet = 1
    MaxPut = 1
    Lag = 0
    MaxTime = 11
    ShortTime = 6
    SlowestPut = 0
    MaxCrashes = 1
    MaxLosses = 1
    MaxReleases = 1
    Offset <- MCOffset
INVARIANTS
    StrayIsBrief
    TypeOK
    AtMostOneLeader
    LeaderHoldsLease
    OutageIsBounded
PROPERTIES
    TakenOnlyFromTheSilent
