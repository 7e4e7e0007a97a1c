SPECIFICATION Spec
CONSTANTS
  NumNodes = 3
  NodeWeight <- OneHeavy
  MaxNodeWeight = 2
  LeaderSwitchPeriod = 1
  MaxSeal = 1
  MaxIndex = 1
  MaxView = 1
  MaxRestart = 1
  WaterMarkLimit = 2
  Running = {1, 2}
  Sealers = {1, 2}
  Crashers = {1}
  Slow <- SlowLeader
CHECK_DEADLOCK FALSE
INVARIANTS
  TypeOK
  Agreement
  OrderedByQuorum
  LockedProposal
  OneCommitVote
  OrderingInv
  CommittedIsClosed
PROPERTIES
  ImplementsDecision
  QuietInTimeoutUnlessTaken
