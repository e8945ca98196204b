SPECIFICATION FairSpec
CONSTANTS
  NumPackages = 2
  Stages <- ThreeJobs
  T2Debug = 0
  NoBrokenDeps = FALSE
  CreateCache = FALSE
  Interrupts = FALSE
  Kills = TRUE
  ContinueOnErrorAfter = 4
  RetryBroken = TRUE
  PkgFiles = TRUE
  JobMode = TRUE
  MaxRuns = 3
  MaxCrashes = 1
INVARIANTS
  DoneIsComplete
PROPERTIES
  ImplementsPlan
CHECK_DEADLOCK FALSE
