SPECIFICATION Spec
CONSTANTS
  MaxOrders = 2
  Volume = 2
  Side <- BidThenAsk
  AuditSkip = 1
  Env = {"api", "lost", "commit", "crash", "signal"}
  Tolerance = 0
  WrapperHasLog = FALSE
  AuditTick = 2
  IsTarget = TRUE
  MaxCrashes = 1
INVARIANTS
  TypeOK
  SettledOrdersExact
  WarmShutdownComplete
PROPERTIES
  AuditMeansBooksClosed
  BookSpec
