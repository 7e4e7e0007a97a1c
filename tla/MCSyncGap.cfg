SPECIFICATION Spec
CONSTANTS
  NumNodes = 2
  NodeWeight <- TwoEqual
  MaxNodeWeight = 1
  LeaderSwitchPeriod = 1
  Me = 0
  MaxIndex = 3
  WaterMarkLimit = 3
  Reserved = 1
  FaultLimits <- OneSync
CHECK_DEADLOCK FALSE
INVARIANTS
  NoGap
