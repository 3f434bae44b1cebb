SPECIFICATION ConnectionSpec
CONSTANTS
  Usb <- Controllers
  Mock <- Demo
  NoOne = NoOne
  MaxOps = 2
  MaxPolls = 2
  MaxEvents = 8
PROPERTY GateOpensVerified
PROPERTY LockKept
CHECK_DEADLOCK FALSE
