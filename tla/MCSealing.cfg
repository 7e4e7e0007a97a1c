SPECIFICATION Spec
CONSTANTS
  NumNodes = 2
  NodeWeight <- TwoEqual
  MaxNodeWeight = 1
  LeaderSwitchPeriod = 1
  Me = 0
  MaxIndex = 3
  MaxView = 1
  WaterMarkLimit = 2
  System = {}
  QueueLimit = 2
  FaultLimits <- ViewFaults
CHECK_DEADLOCK FALSE
INVARIANTS
  TypeOK
  LeaderIsToldUnlessLost
PROPERTIES
  SealsOpenUnlessDelayed
