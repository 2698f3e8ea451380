SPECIFICATION FairSpec
CONSTANTS
  p1 = p1
  p2 = p2
  Positions <- MCPositions
  Misfires = TRUE
  MaxDays = 3
  MaxResets = 2
INVARIANTS
  OverdueBlocksEntries
