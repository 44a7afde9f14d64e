SPECIFICATION Spec
CONSTANTS
  r1 = r1
  r2 = r2
  r3 = r3
  v1 = v1
  v2 = v2
  Primary = Primary
  NoReq = NoReq
  NoObj = NoObj
  NoResp = NoResp
  NoFlight = NoFlight
  Reqs = {r1, r2, r3}
  Variants = {v1, v2}
  OriginVary <- OnlyTrue
  Method <- OneHead
  Variant <- SameVariant
  Personal <- Anonymous
  Declared = TRUE
  AllowSetCookie = TRUE
  BufferCapped = FALSE
  VariantCapped = TRUE
  Classes = {"ok", "state", "nostore"}
  StreamModes <- OnlyTrue
  FetchSlots = 1
  RewarmSlots = 2
  MaxChurn = 1
INVARIANTS
  
  RefillOwed
PROPERTY
  KeepsPromise
