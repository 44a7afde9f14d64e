SPECIFICATION Spec
CONSTANTS
  v1 = v1
  v2 = v2
  v3 = v3
  Primary = Primary
  NoObj = NoObj
  Ops = {o1, o2, o3, o4}
  Variants = {v1, v2, v3}
  Owned = {Primary, v1, v2}
  MaxVariants = 2
  Grace = TRUE
  Modes <- SerialAndOverlapping
  MaxEvict = 1
  Anonymous = Anonymous
  NoWin = NoWin
  Idle = Idle
  Issuers = {i1, i2}
  Callers = {c1, c2}
  Window = 3
  TTL = 1
  MaxTrackers = 1
  MaxSeq = 5
  MaxClock = 2
  MaxCalls = 6
  Events = {1, 2, 3}
  Peers = {p1}
  Flushers = {f1, f2}
  None = None
  MaxFail = 1
  MaxAgain = 1
  MaxRestart = 1
VIEW PurgesView
INVARIANTS
  PurgesTypeOK
  VariantsPurged
  WindowsExact
  DeliveredOnce
PROPERTY
  ExactDedup
