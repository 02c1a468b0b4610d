SPECIFICATION Spec
CONSTANTS
  MaxTrades = 2
  Window = 2
  MaxAttempts = 1
  MaxTroubles = 1
  Envs = {{"close"}}
CHECK_DEADLOCK FALSE
INVARIANT
  SeenIsPublished
