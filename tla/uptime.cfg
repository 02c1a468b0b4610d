SPECIFICATION Spec
CONSTANTS
  MaxOrders = 3
  Volume = 1
  Side <- BidThenAsk
  AuditSkip = 2
  Env = {"api", "lost"}
  Tolerance = 1
  WrapperHasLog = FALSE
  AuditTick = 2
  IsTarget = FALSE
  MaxCrashes = 0
INVARIANTS
  OpenOrdersStayWatched
  DriftIsLostOrders
