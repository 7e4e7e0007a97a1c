SPECIFICATION Spec
CONSTANTS
  NumNodes = 2
  NodeWeight <- OneDominant
  MaxNodeWeight = 4
  LeaderSwitchPeriod = 1
  MaxSeal = 1
  MaxIndex = 0
  MaxView = 4
  MaxRestart = 0
  WaterMarkLimit = 2
  Running = {0, 1}
  Sealers = {}
  Crashers = {}
  Slow = {}
CHECK_DEADLOCK FALSE
INVARIANTS
  ViewBackedByQuorum
PROPERTIES
  ViewMonotonic
