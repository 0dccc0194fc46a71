SPECIFICATION MergeFairSpec
CONSTANTS
  Imps = {i1, i2, i3}
  Bhvs = {b1, b2, b3}
  Bad = {b3}
  Workers = {w1}
  Cap0 = 2
  Cap1 = 1
  FlushAt = 1
  None = None
INVARIANTS
  LostAtMostOnePerFlush
PROPERTIES
  FlushEnds
