SPECIFICATION Spec
CONSTANTS
  p1 = p1
  p2 = p2
  p3 = p3
  p4 = p4
  u1 = u1
  u2 = u2
  u3 = u3
  r1 = r1
  NoPosition = NoPosition
  Positions <- ThreePositions
  Underlyings <- TwoUnderlyings
  UnderlyingOf <- ThreeUnderlyingOf
  Priceable <- AllPriceable
  MaxOpen = 2
  MaxTrades = 2
  MaxPerUnderlying = 2
  Requests <- OneRequest
  MaxFailures = 0
INVARIANTS
  NeverShort
