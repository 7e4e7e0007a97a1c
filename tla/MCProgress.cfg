SPECIFICATION FairSpec
CONSTANTS
  NumNodes = 2
  NodeWeight <- TwoEqual
  MaxNodeWeight = 1
  LeaderSwitchPeriod = 1
  Me = 0
  MaxIndex = 2
  WaterMarkLimit = 2
  Reserved = 1
  FaultLimits <- LiveFaults
CHECK_DEADLOCK FALSE
PROPERTIES
  BlocksGetCommitted
