SPECIFICATION Spec
CONSTANTS
  o1 = o1
  o2 = o2
  Orders <- MCOrders
  Qty <- MCLots
  Buys <- NoBuys
  ReduceOnly <- AllReduceOnly
  Alike <- AllAlike
  TagLookup = FALSE
  Concurrent = FALSE
INVARIANTS
  PersistedBeforeNetwork
  OnlyLostOrdersAreMistaken
