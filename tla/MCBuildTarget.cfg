SPECIFICATION FairSpec
CONSTANTS
  NumPackages = 3
  Stages <- MCStages
  T2Debug = 3
  NoBrokenDeps = TRUE
  CreateCache = TRUE
  Interrupts = FALSE
  Kills = FALSE
  ContinueOnErrorAfter = 0
  RetryBroken = FALSE
  PkgFiles = TRUE
  JobMode = FALSE
  MaxRuns = 3
  MaxCrashes = 0
INVARIANTS
  TypeOK
  InOrder
  NoErrorPassed
  LogErrExclusive
  DoneIsComplete
  LogMeansComplete
  PkgFilesCurrent
PROPERTIES
  VerdictStands
  RunEnds
  ImplementsPlan
CHECK_DEADLOCK FALSE
