SPECIFICATION RevisionSpec
CHECK_DEADLOCK FALSE
CONSTANTS
    Tiers = {"x", "y"}
    Versions = {"1", "2"}
    MaxMerges = 1
INVARIANTS
    NoBumpIsMissed
