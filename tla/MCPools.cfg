SPECIFICATION FairSpec
CONSTANTS
  NumNodes = 2
  NodeWeight <- TwoEqual
  MaxNodeWeight = 1
  LeaderSwitchPeriod = 2
  Me = 1
  MaxIndex = 3
  MaxView = 0
  WaterMarkLimit = 2
  System = {2}
  QueueLimit = 2
  FaultLimits <- PoolFaults
CHECK_DEADLOCK FALSE
INVARIANTS
  ResettingIsTracked
  LeaderIsToldUnlessLost
PROPERTIES
  SealsOwnNumbers
  MarkedBeforeSealingUnlessFailed
  MarkingEnds
