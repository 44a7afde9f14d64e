SPECIFICATION Spec
CONSTANTS
  Keys = {k1, k2}
  r1 = r1
  b1 = b1
  Requests = {r1}
  Batchers = {b1}
  None = None
  Plans <- GlobalPlans
  SegMax = 2
  ChanCap = 3
  BatchMax = 1
SYMMETRY WarmRecoverySymmetry
CHECK_DEADLOCK FALSE
INVARIANTS
  OwnRecord
