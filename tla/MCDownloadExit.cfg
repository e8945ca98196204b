SPECIFICATION Spec
CONSTANTS
  p1 = p1
  p2 = p2
  Procs <- TwoProcs
  NumFiles = 2
  Converted <- OneFile
  Sums <- AllFiles
  Questionable <- NoFile
  Mirror = TRUE
  MaxRuns = 1
  MaxFaults = 0
INVARIANTS
  ExitTellsFailure
CHECK_DEADLOCK FALSE
