\* Two targets and two callers of the pool, two peers at two addresses, four
\* calls of the broadcaster, two purged URLs, a fleet of two.
CONSTANTS
  NTargets = 2
  Fetchers = {"f1", "f2"}
  PoolPlans <- NetworkPools
  CountWindow = 1
  ProbeWindow = 2
  HealthyThreshold = 2
  UnhealthyThreshold = 2
  DefaultEjectFor = 2
  LongestEjectFor = 2
  Self = "self"
  Peers = {"p1", "p2"}
  Addrs = {"a1", "a2"}
  Positions <- NetworkPositions
  KeyHashes = {0, 2, 4, 6, 7}
  PeerFetchers = {"f1", "f2"}
  FetchSlots = 1
  PeerFailures = 2
  PeerPlans <- NetworkPeers
  Senders = {"c1", "c2", "c3", "c4"}
  CallPlans <- NetworkCalls
  LoopId = "loop"
  BatchSize = 2
  QueueCap = 1
  MayClose = TRUE
  Urls = {"a", "b"}
  Tasks = {"t1", "t2"}
  CFMaxRetries = 1
  QueueMax = 1
  QueueRetries = 2
  FailureThreshold = 2
  HalfOpenMax = 1
  BatchMax = 1
  PurgePlans <- NetworkPurges
  Fleet = {"n1", "n2"}
  HotSetsMax = 2
  EditsMax = 1
  HotPlans <- NetworkSettings
SPECIFICATION Spec
INVARIANTS
  NetworkTypeOK
  FaultsAreContained
  PurgesAccounted
  
PROPERTIES
  KeepsFanout
  StepsNotTaken
  NetworkSettles
CHECK_DEADLOCK FALSE
