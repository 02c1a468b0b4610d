SPECIFICATION ServiceSpec
CONSTANTS
  Orders = {o1, o2}
  MaxLog = 5
  MaxGaps = 1
  MaxChains = 2
  MaxSoft = 1
  MaxIncomplete = 2
  MaxFetches = 4
  MaxTime = 7
  MaxWait = 2
  MaxPending = 2
  Levels = {l1, l2}
  MessageBuffer = 1
  MaxTicks = 3
  MaxSkew = 1
  MaxChanges = 3
  Day = 4
  Hour = 2
  Delay5 = 3
  Recent = 1
  EarliestTicker = 0
  EarliestTrade = 2
  Listed = {"kraken"}
  Unlisted = {"quadriga"}
  Ids = {7, 8, 9, 10, 11}
  Seconds = {1, 2, 3}
  CommitEvery = 2
  MaxRuns = 3
  Processes = {"engine", "dashboard"}
  RateThreshold = 2
  CacheTime = 2
  MaxRateTime = 7
SYMMETRY Symmetry
CHECK_DEADLOCK FALSE
INVARIANTS
  BookFollowsStream
  StopsForCause
  UsedIsRecent
  LevelsFollow
  RecordedAsTraded
  BackfillComplete
  RateNotOld
PROPERTIES
  NeverBackwards
