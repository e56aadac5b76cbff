SPECIFICATION EnvSpec
CONSTANTS
  Places = {"api", "app"}
  Public = {"api", "app"}
  CohortOf <- MCCohortOf
  SpokeOf <- MCSpokeOf
  TeardownName <- MCTeardownName
  Names = {"n"}
  Suffixes = {"b"}
  MaxEdits = 2
  MaxStray = 0
  Mains <- MCMains
INVARIANT KeptBlockIsRendered
CHECK_DEADLOCK FALSE
