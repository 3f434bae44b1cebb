SPECIFICATION ConnectionSpec
CONSTANTS
  Usb <- Controllers
  Mock <- Demo
  NoOne = NoOne
  MaxOps = 2
  MaxPolls = 2
  MaxEvents = 4
INVARIANT MockNeverLive
CHECK_DEADLOCK FALSE
