SPECIFICATION WrappersSpec
CONSTANTS
  Venues = {"BITSTAMP", "COINBASE", "GEMINI", "ITBIT", "KRAKEN", "QUADRIGA"}
  MaxOrders = 3
  Volume = 2
  MaxOpen = 2
  Page = 3
  Chunk = 1
  MaxAsked = 2
  MaxClock = 3
  MaxUnderWay = 3
  MaxAttempts = 2
  Sleep = 1
  Backoff = 1
CHECK_DEADLOCK FALSE
INVARIANTS
  AuditDataExact
  AnswersOfTheMoment
  SentAsRecorded
  OvertakenOnly
