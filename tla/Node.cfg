\* Two clients and a background task, two connections, two keys with one
\* refresher and one writer; four keys in two shards, slabs of two slots.
CONSTANTS
  LifePlans <- NodeLives
  Conns = {"a", "b"}
  BufCap = 4
  SpillCap = 6
  ConnPlans <- NodeListeners
  Clients = {"c1", "c2"}
  Spawned = {"b1"}
  LastVersion = 1
  Ttl = 1
  Swr = 1
  FlightPlans <- NodeFlights
  RefreshKeys = {"k1", "k2"}
  Refreshers = {"r1"}
  Writers = {"w1"}
  FreshFor = 3
  Margin = 1
  CompactAhead = 1
  PersistCycles = 1
  RefreshPlans <- NodeRefreshes
  HotKeys = {"x", "y", "w", "z"}
  Shards = {1, 2}
  ShardOf <- ShardsOf
  HotCallers = {"h1", "h2"}
  PerShardMax = 2000
  InlineEvictCap = 1
  MaxSweepProbes = 2
  MaxEvictSkips = 2
  MaxFreq = 2
  SlotsPerRegion = 1
  MaxRegions = 2
  ShardPlans <- NodeShards
SPECIFICATION Spec
VIEW NodeView
INVARIANTS
  ShardsInStep
  SharedAnswersAreRight
  RefreshesAreKept
  
  LifeInOrder
PROPERTIES
  
  WorkGetsDone
  StopsEnd
CHECK_DEADLOCK FALSE
