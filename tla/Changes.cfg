SPECIFICATION MCSpec
CHECK_DEADLOCK FALSE
CONSTANTS
    q1 = q1
    q2 = q2
    c1 = c1
    c2 = c2
    None = None
    Prs = {q1, q2}
    Commits = {c1, c2}
    Tips = {1, 2, 3}
    MaxStreak = 2
    MaxMoves = 3
    Places = {"x", "y", "z", "v", "w"}
    Public = {"w"}
    CohortOf <- MCCohortOf
    SpokeOf <- MCSpokeOf
    TeardownName <- MCTeardownName
    Names = {"n", "m"}
    EnvSuffixes = {"b"}
    EnvEdits = 2
    MaxStray = 1
    EnvMains <- MCEnvMains
    Cells = {"a", "b"}
    MaxPRs = 4
    Hold = 2
    MaxDay = 3
    DownMerges = 4
    Folders = {"p", "k1", "k2"}
    Clones = {"k1", "k2"}
    ConfigOf <- MCConfigOf
    Contents <- MCContents
    Configs <- MCConfigs
    FleetEdits = 2
    MaxGreen = 2
    Members = {"m", "n"}
    DiskSuffixes = {"a", "b"}
    Charts = {"old", "v1", "v2"}
    Attempts = {1, 2}
    VmMerges = 3
    Tiers = {"x", "y"}
    ChartVersions = {"1", "2"}
    RevisionMerges = 1
    NewFolders = {"e1", "e2"}
    Shapes <- MCShapes
    NewVersions = {"v1", "v2"}
    NewEdits = 1
    MaxLost = 1
    MaxFlakes = 1
    Mains = {1, 2, 3}
    Heads = {1, 2}
    MaxDropped = 1
    Owners = {"a", "b"}
    Customers = {"k", "l"}
    UcSuffixes = {"s", "t"}
    SharedMerges = 3
    MaxUnread = 1
INVARIANTS
    NoWakeLost
    AbortsArePaidFor
    ChangesTypeOK
    NoEnvVanishes
    MovesAreChecked
    TeardownIsServed
    FleetIsSafe
    MigrationsFinish
    PreviewHasTheCharts
    GreenIsCreated
    SharedIsShown
    MergeIsShown
PROPERTIES
    RecordIsKept
    ChangesSettle
