SPECIFICATION FairSpec
CONSTANTS
  d1 = d1
  d2 = d2
  Daemons <- TwoDaemons
  NumJobs = 2
  MaxOffers = 2
  MaxDeaths = 1
INVARIANTS
  TypeOK
  MutualExclusion
  BuiltOncePerOffer
PROPERTIES
  JobsFinish
CHECK_DEADLOCK FALSE
