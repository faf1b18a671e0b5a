SPECIFICATION PartsSpec
CONSTANTS
  o1 = o1
  InitialCash = 10
  Fee = 1
  MaxShares = 2
  LastTick = 3
  r1 = r1
  r2 = r2
  MaxCallbacks = 3
  MaxSessions = 2
  NoSeq <- NoSequence
  BrokerOrders = {o1}
  LastTime = 3
  MaxLost = 2
  Symbols = {"s1", "s2"}
  MatchGap = 2
  MaxOrders = 3
  ClockEnd = 4
  MaxBundle = 2
  MaxRepeats = 1
  MixedBundles = FALSE
  LastDay = 2
  OrdersPerDay = 2
  RecordFails = FALSE
  MaxCrashes = 1
  Runs = {r1, r2}
  Deployments = {0, 1, 2}
  Old = 0
  Requests <- FewRequests
  Watched = {o1}
  LateIds = FALSE
  MissingRemarks = TRUE
  MaxClock = 2
  MaxReports = 3
  MaxGap = 1
INVARIANTS
  LogRecoversTheTick
  PullKeepsUp
  OpenOrdersAreShown
  OrderDriftIsReal
  OneOrderPerRow
  GivenBehindGates
  EngineTradesAsTested
SYMMETRY RunSymmetry
CHECK_DEADLOCK FALSE
