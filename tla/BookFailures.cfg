SPECIFICATION FairSpec
CONSTANTS
  p1 = p1
  p2 = p2
  p3 = p3
  p4 = p4
  u1 = u1
  u2 = u2
  u3 = u3
  r1 = r1
  NoPosition = NoPosition
  Positions <- MCPositions
  Underlyings <- MCUnderlyings
  UnderlyingOf <- MCUnderlyingOf
  Priceable <- NotAllPriceable
  MaxOpen = 1
  MaxTrades = 2
  MaxPerUnderlying = 1
  Requests <- OneRequest
  MaxFailures = 1
INVARIANTS
  WithinLimits
  TradesHaveSells
PROPERTIES
  PastHardExitCloses
