SPECIFICATION Spec
CONSTANTS
  m1 = m1
  m2 = m2
  Mover = {m1, m2}
  OldBins = 32
  SmallSize = 8
  LargeSize = 16
SYMMETRY Movers
INVARIANTS TransferNeverFails EndsApart
PROPERTY CapacityGrows
CHECK_DEADLOCK FALSE
