SPECIFICATION FairSpec
CONSTANTS
  r1 = r1
  r2 = r2
  r3 = r3
  v1 = v1
  v2 = v2
  Primary = Primary
  NoReq = NoReq
  NoObj = NoObj
  NoResp = NoResp
  NoFlight = NoFlight
  Reqs = {r1, r2, r3}
  Variants = {v1, v2}
  OriginVary <- OnlyTrue
  Method <- OneHead
  Variant <- TwoVariants
  Personal <- OnePersonal
  Declared = FALSE
  AllowSetCookie = FALSE
  BufferCapped = TRUE
  VariantCapped = TRUE
  Classes = {"ok", "nostore", "sse"}
  StreamModes <- OnlyTrue
  FetchSlots = 1
  RewarmSlots = 1
  MaxChurn = 0
INVARIANTS
  FlightsAccounted
  SettlementProtocol
  NoOrphanedFollower
  
PROPERTY
  FillsEnd
