SPECIFICATION FairSpec
CONSTANTS
  NumPackages = 2
  Stages <- FewStages
  T2Debug = 0
  NoBrokenDeps = TRUE
  CreateCache = FALSE
  Interrupts = FALSE
  Kills = FALSE
  ContinueOnErrorAfter = 1
  RetryBroken = FALSE
  PkgFiles = TRUE
  JobMode = FALSE
  MaxRuns = 1
  MaxCrashes = 0
INVARIANTS
  HeldBackByBroken
CHECK_DEADLOCK FALSE
