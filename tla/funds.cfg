SPECIFICATION FairSpec
CONSTANTS
  X = X  Y = Y  Coins = Coins  Dollars = Dollars
  Accounts = {X, Y}
  Engines = {X}
  Tool = Tool
  Transfers = {Coins, Dollars}
  From <- ThereAndBack
  To <- Receivers
  Amount <- Amounts
  Fiat = {Dollars}
  WithdrawalFee <- Fees
  DepositFee <- Fees
  Tolerance = 1
  MaxFills = 1
  MaxTools = 3
  MaxFailures = 1
INVARIANTS
  LedgerAgrees
PROPERTIES
  DepositsFollowCoins
  RecoveryHearsTheTool
