SPECIFICATION Spec
CONSTANTS
  BaseVolume = 2
  MaxPosition = 3
  Multiplier = 2
  MaxLost = 2
  FeeUnit = 10
  SpreadUnit = 10
  WeightUnit = 2
  DeepDepth = 3
  Minute = 2
  Bucket = 4
  Prices = {3, 4, 6}
  PageHour = 2
  PageDay = 4
  PageWeek = 2
  Rounding = 2
  Threshold = 2
  Lookback = 2
  Infinitesimal = 1
  Infinity = 1000
  Width = 40
  BurnThreshold = 3
  MaxVolume = 2
  MaxTrades = 4
  Accounts = {"Venue", "Coinbase"}
  Coinbase = "Coinbase"
  FirstAccount = "Venue"
  MaxBookTime = 2
  MaxBookOrders = 2
  MaxBookTrades = 2
  MaxEntries = 4
  ExchangeKeys = {"bitstamp_btc_usd"}
CHECK_DEADLOCK FALSE
INVARIANTS
  LevelsGiveIt
  QuotesStayApart
  ReportsFit
  PositionBounded
  NetAssetsExplained
  StatementsExact
  SeriesNumbersDistinct
  SettingsComeThrough
