SPECIFICATION MCSpec
CHECK_DEADLOCK FALSE
CONSTANTS
    A = A
    B = B
    w1 = w1
    w2 = w2
    None = None
    Pods = {A, B}
    Web = {w1}
    MaxCommit = 2
    MaxSaves = 2
    MaxLosses = 1
    MaxUpsets = 1
    Callers = {1, 2}
    Kinds = {"rest", "file", "argocd"}
    GateTries = 3
    Slices = 2
    MaxPause = 2
    Fallback = 1
    Hints = {5}
    Slots = 1
    Readers = {"r1", "r2", "l1"}
    RenderReaders = {"r1", "r2"}
    Keys = {"f"}
    KeyOf <- MCKeyOf
    CommentTries = 2
    MaxComments = 5
    MaxPasses = 3
    MaxLost = 1
    MaxMeddling = 2
    Poll = "poll"
    Refreshers = {"j1"}
    Fleet <- MCFleet
    MaxExpiries = 2
    Budget = 60
    LoginTimes = {1, 30}
    StaleAfter = 4
    Patience = 360
    MaxPushes = 2
    MaxRepeats = 1
    MaxMoves = 1
    HookWorkers = 2
    DiffWorkers = {"w1", "w2"}
    MaxBuild = 2
    Values = {"v"}
    MaxHelm = 2
    Retries = 1
    MaxStale = 1
INVARIANTS
    PageIsNoOlder
    ServicesTypeOK
    NothingGuessed
    NoNeedlessDuplicate
    MapsAreWhole
    StartupEndsItself
    PushIsHeardOnce
    ServedIsRight
PROPERTIES
    HealsUndisturbed
    BrakesTogether
    WaitsEnd
