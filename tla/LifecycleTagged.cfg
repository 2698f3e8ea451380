SPECIFICATION Spec
CONSTANTS
  o1 = o1
  o2 = o2
  Orders <- MCOrders
  Qty <- MCQty
  Buys <- MCBuys
  ReduceOnly <- MCReduceOnly
  Alike <- OnlyItself
  TagLookup = TRUE
  Concurrent = FALSE
INVARIANTS
  NoOverfill
  LocalFillsAreReal
PROPERTIES
  ImplementsLedger
