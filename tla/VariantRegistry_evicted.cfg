SPECIFICATION VarySpec
CONSTANTS
  v1 = v1
  v2 = v2
  v3 = v3
  Primary = Primary
  NoObj = NoObj
  Ops = {o1, o2, o3, o4, o5}
  Variants = {v1, v2}
  Owned = {Primary, v1, v2}
  MaxVariants = 2
  Grace = TRUE
  Modes <- SingleNode
  MaxEvict = 1
SYMMETRY CallSymmetry
INVARIANTS
  PurgedNeverServed
