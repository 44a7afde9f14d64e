SPECIFICATION Spec
CONSTANTS
  Keys = {k1, k2}
  r1 = r1
  b1 = b1
  Requests = {r1}
  Batchers = {b1}
  None = None
  Plans <- WarmPlans
  SegMax = 2
  ChanCap = 2
  BatchMax = 2
SYMMETRY WarmRecoverySymmetry
VIEW WarmView
CHECK_DEADLOCK FALSE
INVARIANTS
  OwnRecord
  
  
