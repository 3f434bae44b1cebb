SPECIFICATION FairSpec
CONSTANTS
  SectorBytes = 2
  FatEntries = 8
  MinClusters = 3
  MaxFileBytes = 8
  RootScanSectors = 4
  Eoc = 8
  Cards <- MCCards
  None = None
  MaxEvents = 2
INVARIANT SavedWhole
INVARIANT OneSdUser
INVARIANT SnapshotFresh
PROPERTY NoSaveAfterCancel
PROPERTY OperationEnds
CHECK_DEADLOCK FALSE
