SPECIFICATION FairSpec
CONSTANTS
  NumNodes = 3
  NodeWeight <- ThreeEqual
  MaxNodeWeight = 1
  LeaderSwitchPeriod = 1
  Me = 1
  MaxIndex = 2
  MaxView = 1
  MaxChangeCycle = 2
  WaterMarkLimit = 2
  FaultLimits <- TimerFaults
CHECK_DEADLOCK FALSE
INVARIANTS
  TypeOK
  ProposalIsTimed
  TransactionsAreTimedUnlessRaced
  BacksOffUntilNewView
PROPERTIES
  KeepsTryingUnlessLate
