SPECIFICATION FairSpec
CONSTANTS
  NumPackages = 2
  Stages <- FewStages
  T2Debug = 0
  NoBrokenDeps = FALSE
  CreateCache = FALSE
  Interrupts = FALSE
  Kills = FALSE
  ContinueOnErrorAfter = 1
  RetryBroken = FALSE
  PkgFiles = TRUE
  JobMode = TRUE
  MaxRuns = 2
  MaxCrashes = 0
INVARIANTS
  LogErrExclusive
CHECK_DEADLOCK FALSE
