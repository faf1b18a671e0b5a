SPECIFICATION Spec
CONSTANTS
  d1 = d1
  d2 = d2
  cn = cn
  us = us
  NoBook = NoBook
  NoDep = NoDep
  Deployments = {d1, d2}
  Markets = {cn, us}
  MarketOf <- TwoMarkets
  LastDay = 3
  TradingDays <- FirstDayIsHoliday
  MaxConsecutiveErrors = 2
  Approvers = 1
  MaxCrashes = 0
  MaxTrades = 1
  Env = {"execute", "save", "record", "liquidate"}
INVARIANTS
  ProcessedNotAhead
  TickCoversBatch
  ErrorsEscalate
CHECK_DEADLOCK FALSE
