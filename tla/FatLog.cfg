SPECIFICATION FairSpec
CONSTANTS
  NumFats = 2
  Backup = TRUE
  Last = 4
  PerSec = 3
  SPC = 2
  SlotsPerSec = 2
  MaxName = 2
  MaxSectors = 5
INVARIANT Preserved
INVARIANT CleanMeansWhole
PROPERTY Refines
PROPERTY Settles
