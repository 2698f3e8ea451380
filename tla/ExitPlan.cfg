SPECIFICATION Spec
CONSTANTS
  Quotes <- MCQuotes
  Plans <- MCPlans
  JumpPct = 20
  ConfirmPct = 5
  MaxHold = 6
  HardExit = 5
  MaxTime = 7
  Failures = TRUE
CHECK_DEADLOCK FALSE
INVARIANTS
  HeldInsideBand
  PriceExitIsVouched
  PriceExitIsFresh
PROPERTIES
  StopIsARatchet
  DueExitsFire
