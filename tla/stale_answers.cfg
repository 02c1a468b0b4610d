SPECIFICATION Spec
CONSTANTS
  MaxOrders = 2
  Volume = 2
  Side <- BidThenAsk
  AuditSkip = 0
  Env = {"lag", "age", "api", "crash"}
  Tolerance = 1
  WrapperHasLog = TRUE
  AuditTick = 2
  IsTarget = FALSE
  MaxCrashes = 1
INVARIANTS
  NoPhantomTrades
  OneOrderPerCrash
