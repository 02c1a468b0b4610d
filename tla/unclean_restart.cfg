SPECIFICATION FairSpec
CONSTANTS
  MaxOrders = 1
  Volume = 2
  Side <- BidThenAsk
  AuditSkip = 0
  Env = {"crash"}
  Tolerance = 0
  WrapperHasLog = FALSE
  AuditTick = 2
  IsTarget = TRUE
  MaxCrashes = 1
PROPERTIES
  RestartCatchesUp
