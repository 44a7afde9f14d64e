\* One Put under pressure, queues with room.
CONSTANTS
  c1 = c1
  c2 = c2
  k1 = k1
  k2 = k2
  tag = tag
  host = host
  glob = glob
  Keys = {k1, k2}
  Clients = {c1, c2}
  Syncer = syncer
  Reaper = reaper
  Nobody = nobody
  Patterns = {tag, host, glob}
  Class <- ClassOf
  TagsOf <- Tags
  Plans <- StrandedPlans
  BanCap = 2
  BanTTL = 2
  QueueCap = 2
  InlineEvictCap = 1
  FallbackEvery = 2
  ObjectTTL = 1
SPECIFICATION Spec
INVARIANT NoneStranded
