SPECIFICATION FairSpec
CONSTANTS
  MaxOrders = 2
  Volume = 2
  Side <- BidThenAsk
  AuditSkip = 0
  Env = {"lost", "signal"}
  Tolerance = 0
  WrapperHasLog = FALSE
  AuditTick = 2
  IsTarget = FALSE
  MaxCrashes = 0
INVARIANTS
  PositionFollowsTrades
PROPERTIES
  EveryFillBooked
  NeverStuck
