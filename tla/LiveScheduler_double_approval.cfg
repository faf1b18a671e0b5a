SPECIFICATION Spec
CONSTANTS
  d1 = d1
  d2 = d2
  cn = cn
  us = us
  NoBook = NoBook
  NoDep = NoDep
  Deployments = {d1}
  Markets = {cn}
  MarketOf <- OneDeployment
  LastDay = 2
  TradingDays <- EveryDay
  MaxConsecutiveErrors = 2
  Approvers = 2
  MaxCrashes = 0
  MaxTrades = 2
  Env = {}
PROPERTIES
  ApprovedFromPending
CHECK_DEADLOCK FALSE
