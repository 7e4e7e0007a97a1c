SPECIFICATION FairSpec
CONSTANTS
  Me = 3
  MaxIndex = 2
  MaxNodes = 4
  MaxWeight = 2
  WaterMarkLimit = 2
  Conf <- Leaving
  Voters = {2, 4}
  Offered <- Ledger
CHECK_DEADLOCK FALSE
INVARIANTS
  TypeOK
  StableByOwnListUnlessEarly
  AcceptedIsSignedUnlessRepeated
PROPERTIES
  CatchesUp
