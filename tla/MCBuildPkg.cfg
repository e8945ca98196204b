SPECIFICATION BuildPkgFairSpec
CONSTANTS
  NumPackages = 1
  Stages <- MCStages
  T2Debug = 0
  NoBrokenDeps = FALSE
  CreateCache = TRUE
  Interrupts = TRUE
  Kills = TRUE
INVARIANTS
  BuildPkgTypeOK
  AbortIsFailure
  LoneLogIsComplete
  CacheErrorIsCurrent
PROPERTIES
  BuildEnds
CHECK_DEADLOCK FALSE
