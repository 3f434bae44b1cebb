SPECIFICATION Spec
CONSTANTS
  Wrap = 6
  RX_TIMEOUT = 1
  STATS_STALE = 2
  FS_ACTION = "DROP"
  HOLD_MS = 0
  LAND_MS = 2
  WATCHDOG = 1
  Setups = {{"usb"}, {"stats"}}
INVARIANT LinkLossBound
PROPERTY NoArmOnLappedLink
PROPERTY FailsafeDisarmsOnlyLostLink
PROPERTY NoAutoRearm
