SPECIFICATION FairSpec
CONSTANTS
  MaxTrades = 3
  Window = 2
  MaxAttempts = 1
  MaxTroubles = 2
  Envs = {
    {"crash", "consumer", "db", "redis"},
    {"close", "nack", "crash", "consumer", "db", "redis", "stale"} }
CHECK_DEADLOCK FALSE
INVARIANTS
  SeenIsPublishedSafely
  ConfirmationsExpected
PROPERTIES
  QueuedUntilStored
  StoredInOrder
  EveryTradeStored
