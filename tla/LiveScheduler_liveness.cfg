SPECIFICATION FairSpec
CONSTANTS
  d1 = d1
  d2 = d2
  cn = cn
  us = us
  NoBook = NoBook
  NoDep = NoDep
  Deployments = {d1, d2}
  Markets = {cn}
  MarketOf <- OneMarket
  LastDay = 2
  TradingDays <- EveryDay
  MaxConsecutiveErrors = 2
  Approvers = 1
  MaxCrashes = 1
  MaxTrades = 1
  Env = {"build", "execute", "save", "after", "detach", "crash"}
PROPERTIES
  DaysAreProcessed
  LockIsReleased
CHECK_DEADLOCK FALSE
