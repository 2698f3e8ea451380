SPECIFICATION ResearchSpec
CONSTANTS
  Benches = {"sizing", "contracts", "signals", "labels", "training", "audit", "lab", "structures", "archive", "features", "maturity"}
  RateTable <- MCRateTable
  TradeDays = {2, 4}
  Premiums <- MCPremiums
  LotSizes = {20, 65}
  Equities = {3000000, 5000000}
  FreezeQtys = {0, 1, 40}
  MlMultipliers = {50, 100}
  MaxLoss = 70000
  TargetMultiple = 10
  StopPct = 20
  TargetPct = 20
  StopPoints = 700
  TargetPoints = 1500
  LockPct = 15
  LockBufferPct = 5
  RiskPct = 5
  PositionPct = 50
  EdgePct = 120
  MaxLots = 2
  ThrottlePct = 50
  Underlyings = {"nifty", "sensex"}
  Weekday <- MCWeekday
  OptionExpiries <- MCExpiries
  MonthEnds = {1, 8, 15}
  LastDay = 2
  BrokerLots <- MCLots
  SeedLot = 65
  SeedActive = {"nifty"}
  Strategies = {"orb", "control"}
  Tradeable = {"orb"}
  SeedEnabled = {"orb"}
  Strikes = {1}
  Quotes <- MCQuotes
  MinPremium = 500
  MaxSpreadPct = 1
  Shapes <- MCShapes
  LastMinute = 6
  Unit = 64
  Yesterdays <- MCYesterdays
  ExpiryToday = "yes"
  MaxTrouble = 1
  RangeMinutes = 3
  MinBars = 3
  TrendBars = 3
  WidthPct = 25
  Window = 2
  BandStdev = 1
  BurstMultiple = 1
  FastSpan = 1
  SlowSpan = 3
  SignalSpan = 3
  TrendPeriod = 2
  TrendMultiple = 1
  GapPct = 3
  ActAfter = 1
  StretchSigma = 1
  Period = 2
  LowReading = 30
  HighReading = 70
  Start = 2
  Stop = 3
  EnterAt = 5
  Coin <- MCCoin
  Closing = 4
  Hold = 3
  Staleness = 1
  Minutes <- MCMinutes
  Evaluations <- MCEvaluations
  Snapshot <- MCSnapshot
  EraCost <- MCEraCost
  Era = 2
  PathStopPct = 20
  PathTargetPct = 30
  ListedStrikes <- MCListed
  MaxDays = 2
  MaxFirings = 2
  MaxOverdue = 1
  MaxRuns = 1
  MinSamples = 4
  OuterSplits = 3
  InnerSplits = 2
  Grids <- MCGrids
  TabIclRows = 2
  NextRows <- MCRows
  MaxRows = 5
  MaxNights = 2
  MaxCalls = 3
  Instruments = {nifty, sensex, bankex}
  Nets <- MCTradeNets
  MaxTrades = 2
  MaxPerUnderlying = 1
  MaxPositions = 2
  MaxLosses = 1
  MaxDailyLoss = 4
  Marks <- MCMarks
  ClosingMinute = 2
  LastAuditDay = 2
  MaxBook = 3
  MaxClears = 1
  MaxMishaps = 1
  LabDays = 2
  DayLength = 4
  LastEntry = 3
  MaxEntries = 2
  Outcomes <- MCOutcomes
  Capital = 10
  LotCap = 3
  LossLimit = 8
  StreakLimit = 2
  DropPct = 60
  MinTrades = 1
  Sharpes <- MCSharpes
  MaxTrials = 1
  Chains <- MCChains
  IndexLevels = {7, 8, 10}
  Wing = 4
  LeastDays = 1
  MostDays = 2
  StopFractions = {0, 50}
  TakeHundredth = 50
  SpreadStop = 200
  LegQuotes <- MCLegQuotes
  Prints <- MCPrints
  LegCharge = 1
  MaxMinutes = 3
  MaxSessions = 2
  Inner <- MCInner
  Cutoff = 3
  LastLive = 3
  Month = 2
  Index = "nifty"
  MaxLoads = 3
  MaxBackfills = 1
  TradingDays = {1, 2, 4, 5}
  LastFeatureDay = 5
  CloseOf <- MCCloseOf
  RankDays = 2
  VolDays = 3
  Cushion = 1
  Expiries = {2, 6}
  ExpiryCalendar <- MCExpiryCalendar
  FetchStarts = {1}
  MaxFetches = 2
  MaxRestarts = 1
  MaxBuilt = 2
  Probabilities = {40, 70, 100}
  SizedLots = {2}
  MostLots = 2
  ElevatedPct = 50
  Callers = {c1, c2}
  HandStages = {"shadow", "gating", "live-gating"}
  MaxPredictions = 1
  MaxPromotions = 2
INVARIANTS
  EntryKeepsItsWord
  TradedIsConfirmed
  SignalsAreCausal
  LabelsAreHonest
  FeaturesAreOfTheMoment
  TrainingIsHonest
  InfluenceIsEarned
  AuditIsIndependent
  LabIsHonest
  StructuresAreHonest
  ArchiveIsSound
SYMMETRY InstrumentsAreAlike
CHECK_DEADLOCK FALSE
