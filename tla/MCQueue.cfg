SPECIFICATION FairSpec
CONSTANTS
  MaxIndex = 2
  MaxView = 1
  MaxSync = 1
  WaterMarkLimit = 2
  System = {1}
  Reported = {1}
CHECK_DEADLOCK FALSE
INVARIANTS
  TypeOK
  NothingLost
PROPERTIES
  EveryMessageHandled
