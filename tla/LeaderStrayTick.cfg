SPECIFICATION Spec
CHECK_DEADLOCK FALSE
CONSTANTS
    A = A
    B = B
    NoOne = NoOne
    None = None
    Replicas = {A, B}
    Duration = 6
    Deadline = 4
    Retry = 1
    MaxGet = 2
    MaxPut = 2
    Lag = 0
    MaxTime = 12
    MaxCrashes = 0
    MaxLosses = 0
    MaxReleases = 1
    Offset <- MCOffset
INVARIANTS
    StaysReleased
