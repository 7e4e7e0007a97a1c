SPECIFICATION Spec
CONSTANTS
  NumNodes = 2
  NodeWeight <- TwoEqual
  MaxNodeWeight = 1
  LeaderSwitchPeriod = 3
  MaxSeal = 1
  MaxIndex = 2
  MaxView = 1
  MaxRestart = 0
  WaterMarkLimit = 2
  Running = {0, 1}
  Sealers = {0}
  Crashers = {}
  Slow = {}
CHECK_DEADLOCK FALSE
PROPERTIES
  LockKept
