SPECIFICATION FairSpec
CONSTANTS
  Queue = 2
  Ring = 3
  SectorLen = 2
  Meta = 2
  Rate = 2
  FloorHz = 1
  MaxSamples = 3
INVARIANT NothingLost
INVARIANT WholeLog
PROPERTY StopEnds
