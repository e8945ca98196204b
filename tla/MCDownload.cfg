SPECIFICATION FairSpec
CONSTANTS
  p1 = p1
  p2 = p2
  Procs <- TwoProcs
  NumFiles = 1
  Converted <- OneFile
  Sums <- OneFile
  Questionable <- NoFile
  Mirror = TRUE
  MaxRuns = 2
  MaxFaults = 1
INVARIANTS
  TypeOK
  OverlapOnlyByRace
  LockReleased
  FinalIsVerified
PROPERTIES
  GoodFileStays
  DownloadEnds
CHECK_DEADLOCK FALSE
