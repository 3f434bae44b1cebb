SPECIFICATION FairSpec
CONSTANTS
  BoardFast = TRUE
  Settings = {1000, 4000, 8000}
  Breaches = 2
  Permille = 10
  Windows <- SomeWindows
  Count = 3
INVARIANT ProvenRate
PROPERTY RateSteps
PROPERTY OverloadReachesFloor
