SPECIFICATION Spec
CONSTANTS
  r1 = r1
  r2 = r2
  r3 = r3
  v1 = v1
  v2 = v2
  Primary = Primary
  NoReq = NoReq
  NoObj = NoObj
  NoResp = NoResp
  NoFlight = NoFlight
  Reqs = {r1, r2, r3}
  Variants = {v1, v2}
  Method <- AllGet
  Variant <- SameVariant
  Personal <- Anonymous
  Declared = TRUE
  AllowSetCookie = FALSE
  BufferCapped = FALSE
  VariantCapped = FALSE
  Classes = {"ok"}
  OriginVary <- OnlyTrue
  StreamModes <- OnlyTrue
  FetchSlots = 1
  RewarmSlots = 0
  MaxChurn = 0
INVARIANT HandedBodiesWhole
