SPECIFICATION FairSpec
CONSTANTS
  Wrap = 8
  PULSE = 2
  STEP = 3
  RUN = 3
  SESSION = 5
  MIXER_GAP = 1
  MOTORS = 2
  WATCHDOG = 2
PROPERTY DriveBounded
PROPERTY BenchEnds
