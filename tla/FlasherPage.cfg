CONSTANTS
  Base <- MCBase
  Sizes <- MCSizes
  ProgramEnd = 7
  Segment = 4
  MaxSpan = 6
  MaxAddress = 10
  Devices = {"kakute", "other"}
  Layout <- MCLayout
  Files <- MCFiles
  Transfer = 2
  MaxFaults = 1
  None = None
  Ports <- MCPorts
  NoOne = None
  MaxPortFaults = 1
  Boards <- MCBoards
  Unknown = "unknown"
  MaxEvents = 4
SPECIFICATION MCSpec
INVARIANT DoneMeansWritten
INVARIANT FlashedAsConfirmed
 
INVARIANT Released
PROPERTY OnlyFaultsFail
CHECK_DEADLOCK FALSE
