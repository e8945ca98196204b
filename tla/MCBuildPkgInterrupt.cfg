SPECIFICATION BuildPkgSpec
CONSTANTS
  NumPackages = 1
  Stages <- MCStages
  T2Debug = 0
  NoBrokenDeps = FALSE
  CreateCache = TRUE
  Interrupts = TRUE
  Kills = TRUE
INVARIANTS
  InterruptIsFailure
CHECK_DEADLOCK FALSE
