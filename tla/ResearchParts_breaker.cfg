SPECIFICATION Spec
CONSTANTS
  Parts = {"portfolio"}
  Engines = {"live"}
  f1 = f1
  f2 = f2
  v1 = v1
  Files = {f1, f2}
  Good = {v1}
  NoVersion = NoVersion
  None = None
  Hold = Hold
  Specs = {"s1", "s2"}
  Batches <- SmallBatches
  Requests = {"r1"}
  Tasks = {"t1"}
  MaxIterations = 3
  MaxSpecs = 3
  MaxCalls = 16
  NoImproveLimit = 2
  Hypotheses = 3
  MaxRuns = 3
  MaxDeletes = 1
  Symbols = {"a", "b"}
  HistoryEnd = 9
  Dates = {5, 6, 8, 9}
  Callers = {"engine", "diagnostics"}
  Histories <- AlphaHistories
  Horizon = 2
  PurgeBars = 2
  TrainWindow = 3
  RetrainFreq = 3
  MinRows = 2
  ShortWindow = 4
  LongWindow = 6
  FirstDay = 2
  LastDay = 4
  Weekend = {3}
  Slack = 1
  ShortRange = 1
  SparseRange = 2
  BarsPerYear = 5
  DaysPerYear = 6
  Providers = 2
  Periods = {"daily", "weekly"}
  Daily = "daily"
  AnyEnd = FALSE
  Jobs <- WalkJobs
  Scale = 10
  MinTest = 3
  Warmup = 1
  MinBars = 2
  Capital = 9000
  BarPrices = {900, 1000, 1100}
  Weights = {0, 1, 2, 4}
  Lot = 2
  LeastFee = 20
  Slip = 1
  Tax = 1
  NoBar = 0
  Matchers = {"rules", "plain", "binary"}
  LastBar = 4
  Universe <- TwoStocks
  StockPrices = {100000, 110000, 120000}
  TargetWeights <- HalfOrAll
  InitialCash = 500000
  MinFee = 5000
  PeriodOf <- TwoPeriods
  Basket <- TwoStocks
  MarketPrices = {1, 2}
  Wishes <- AllOrSome
  StartingAccounts <- OneAccount
  RiskConfigs <- CappedOrStaged
  MaxRebalances = 2
  Broker = "paper"
PROPERTIES
  RestartKeepsBreaker
CHECK_DEADLOCK FALSE
