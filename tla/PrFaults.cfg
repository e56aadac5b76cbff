SPECIFICATION MCSpec
CHECK_DEADLOCK FALSE
CONSTANTS
    A = A
    B = B
    h1 = h1
    h2 = h2
    h3 = h3
    h4 = h4
    Apps = {"a", "b"}
    Limit = 1
    None = None
    Pods = {A, B}
    Heads = {h1, h2, h3, h4}
    Bases = {1, 2}
    Charts = {1, 2, 3}
    Truth <- MCPartsTruth
    Faults = {"unsent", "unheard", "refused", "unread", "flaky", "raised", "slow", "young"}
    MaxFaults = 3
    MaxPushes = 1
    MaxAborts = 1
    MaxCrashes = 1
    MaxHandovers = 1
    MaxDelay = 2
INVARIANTS
    TypeOK
    GreenWasRendered
    SettledIsTrue
    VerdictIsOne
PROPERTIES
    RecoveryNeverUnblocks
    RepublishIsRendered
    KeepsThePromise
