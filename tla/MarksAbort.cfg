SPECIFICATION DeskSpec
CONSTANTS
  Desks = {"marks"}
  Capitals = {60, 100}
  LossLimits = {4, 7}
  Nets <- MCNets
  Marks <- MCMarks
  SeedCapital = 100
  SeedLoss = 15
  DrawdownPct = 20
  MaxTrades = 2
  MaxSaves = 2
  NeedPositive = 1
  NeedGating = 2
  MaxGateDays = 3
  Ids = {a1, a2}
  Requests = {r1, r2}
  Ttl = 1
  MaxTime = 2
  Capacity = 2
  PollsPerToken = 2
  Stacks = {s1, s2}
  MaxPolls = 5
  MaxOrders = 6
  Results <- MCResults
  Drift = 0
  Slack = 1
  ThrottleAt = 4
  HaltAt = 6
  Divergences <- MCDivergences
  MinFills = 3
  Window = 3
  Drawdowns <- MCDrawdowns
  Envelope <- MCEnvelope
  MaxDays = 4
  MaxFills = 4
  Dates = {1, 2, 3, 4, 5}
  Weekdays = {3, 5}
  Sundays = {2, 4}
  Specials = {3, 4}
  YearOf <- MCYearOf
  December = {2, 3, 4}
  Exchanges = {"NSE", "BSE"}
  MaxBoots = 2
  Held = {k1, k2}
  Answers <- MCAnswers
  LatestBars = {0, 100}
  EntryPrice = 100
  JumpPct = 20
  ConfirmPct = 5
  MaxCycles = 3
  N = 6
  Minute <- MCMinute
  Total <- MCTotal
  Base <- MCBase
  Failures = TRUE
  MaxReplays = 2
  MaxRestarts = 1
INVARIANT
  ExitsAreManaged
CHECK_DEADLOCK FALSE
