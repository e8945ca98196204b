SPECIFICATION Spec
CONSTANTS
  NumPackages = 3
  Stages <- MCStages
  T2Debug = 3
  NoBrokenDeps = TRUE
INVARIANTS
  TypeOK
  QueueCorrect
CHECK_DEADLOCK FALSE
