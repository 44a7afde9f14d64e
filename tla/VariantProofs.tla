--------------------------- MODULE VariantProofs ---------------------------
(***************************************************************************)
(* A purge reaches every variant, a soft purge leaves none of them fresh,  *)
(* and local fills keep to max_variants, for any calls, variants, owners   *)
(* and cap.                                                                *)
(***************************************************************************)
EXTENDS MCPurges, DeliveryProofs

\* Most leaves are first-order reasoning: Zenon first, then SMT.
USE ZenonT(40), SMTT(40)

\* The steps of a fill or a peer's put up to its write.
Reserving == {"reserve", "probe", "wipe", "snapshot", "reconcile", "prune", "cap", "put"}

\* Where a call is tells what kind of call it is.
CallsFit ==
  \A o \in Ops :
    /\ pc[o] = "idle" => kind[o] = "get"
    /\ pc[o] \in Reserving => sel[o] \in Variants /\ kind[o] \in {"fill", "peer"}
    /\ pc[o] = "resolver" => kind[o] = "fill"
    /\ pc[o] \in {"check", "delete", "poststore"} => kind[o] \in {"purge", "post"}
    /\ pc[o] \in {"soften", "softput"} => kind[o] = "soft"
    /\ pc[o] = "softput" => held[o] # NoObj
    /\ pc[o] = "variant" => kind[o] = "get" /\ sel[o] \in Variants

Shaped == VaryTypeOK /\ CallsFit

\* The shape at first: nobody has called.
LEMMA InitShaped == VaryInit => Shaped
<1> SUFFICES ASSUME VaryInit PROVE Shaped
  OBVIOUS
<1>1. VaryTypeOK
  BY DEF VaryInit, VaryTypeOK, Kinds, Keys, Steps
<1>2. CallsFit
  BY DEF VaryInit, CallsFit, Reserving
<1> QED
  BY <1>1, <1>2 DEF Shaped

\* A step of a call changes the record of that call only.
LEMMA OwnStep ==
  ASSUME VaryTypeOK, NEW o \in Ops, Step(o)
  PROVE  /\ UNCHANGED mode /\ pc[o] # "done" /\ pc'[o] # "idle"
         /\ \A q \in Ops \ {o} :
              /\ pc'[q] = pc[q] /\ kind'[q] = kind[q] /\ sel'[q] = sel[q]
              /\ keys'[q] = keys[q] /\ dead'[q] = dead[q] /\ held'[q] = held[q]
              /\ target'[q] = target[q] /\ number'[q] = number[q]
<1> USE DEF Goto, asked, VaryTypeOK
<1>1. CASE StartFill(o)
  BY <1>1 DEF StartFill, Starts
<1>2. CASE StartPeerPut(o)
  BY <1>2 DEF StartPeerPut, Starts
<1>3. CASE ReserveVariantSlot(o)
  BY <1>3, SMTT(30) DEF ReserveVariantSlot, Register
<1>4. CASE ProbePrimary(o)
  BY <1>4 DEF ProbePrimary
<1>5. CASE KeepIncarnation(o)
  BY <1>5, SMTT(30) DEF KeepIncarnation, Register
<1>6. CASE WipeIncarnation(o)
  BY <1>6, SMTT(30) DEF WipeIncarnation, Register
<1>7. CASE ReconcileSnapshot(o)
  BY <1>7 DEF ReconcileSnapshot
<1>8. CASE ProbeVariant(o)
  BY <1>8 DEF ProbeVariant
<1>9. CASE PruneIncarnation(o)
  BY <1>9 DEF PruneIncarnation, Register
<1>10. CASE SweepAtCap(o)
  BY <1>10 DEF SweepAtCap
<1>11. CASE StoreVariant(o)
  BY <1>11 DEF StoreVariant
<1>12. CASE StoreResolver(o)
  BY <1>12 DEF StoreResolver
<1>13. CASE StartPurge(o)
  BY <1>13 DEF StartPurge, Starts
<1>14. CASE CheckOwned(o)
  BY <1>14 DEF CheckOwned, PurgeReturns
<1>15. CASE PurgeDelete(o)
  BY <1>15 DEF PurgeDelete, PurgeReturns
<1>16. CASE StorePostResponse(o)
  BY <1>16 DEF StorePostResponse
<1>17. CASE StartSoftPurge(o)
  BY <1>17 DEF StartSoftPurge, Starts
<1>18. CASE SoftGet(o)
  BY <1>18 DEF SoftGet
<1>19. CASE SoftPut(o)
  BY <1>19 DEF SoftPut
<1>20. CASE GetPrimary(o)
  BY <1>20 DEF GetPrimary, Starts
<1>21. CASE GetVariant(o)
  BY <1>21 DEF GetVariant
<1> QED
  BY <1>1, <1>2, <1>3, <1>4, <1>5, <1>6, <1>7, <1>8, <1>9, <1>10, <1>11, <1>12,
     <1>13, <1>14, <1>15, <1>16, <1>17, <1>18, <1>19, <1>20, <1>21 DEF Step

\* What registering does with a set.
LEMMA RegisterEffect ==
  ASSUME VaryTypeOK, NEW o \in Ops, NEW set \in SUBSET Variants,
         sel[o] \in Variants, Register(o, set)
  PROVE  \/ /\ Cardinality(set) < MaxVariants /\ tracked' = set \union {sel[o]}
            /\ pc'[o] = "put" /\ pc' = [pc EXCEPT ![o] = "put"]
            /\ UNCHANGED <<keys, dead>>
         \/ /\ tracked' = set
            /\ pc'[o] = "cap" /\ pc' = [pc EXCEPT ![o] = "cap"]
            /\ keys' = [keys EXCEPT ![o] = set] /\ keys'[o] = set
            /\ dead' = [dead EXCEPT ![o] = {}] /\ dead'[o] = {}
  BY DEF Register, Goto, VaryTypeOK

\* Registering keeps the shape.
LEMMA RegisterShaped ==
  ASSUME Shaped, NEW o \in Ops, NEW set \in SUBSET Variants,
         sel[o] \in Variants, kind[o] \in {"fill", "peer"}, Register(o, set),
         UNCHANGED <<asked, store, held, target, number, begun, ended, answer, evictions>>
  PROVE  Shaped'
<1>a. VaryTypeOK /\ CallsFit /\ Variants \subseteq Keys
  BY DEF Shaped, Keys
<1>1. VaryTypeOK'
  BY <1>a, RegisterEffect, SMTT(30) DEF VaryTypeOK, asked, Steps
<1>2. CallsFit'
  BY <1>a, RegisterEffect, SMTT(30) DEF VaryTypeOK, CallsFit, asked, Reserving
<1> QED
  BY <1>1, <1>2 DEF Shaped

\* The steps of a fill and of a peer's put keep the shape.
LEMMA FillShaped ==
  ASSUME Shaped, NEW o \in Ops,
         \/ StartFill(o) \/ StartPeerPut(o) \/ ReserveVariantSlot(o) \/ ProbePrimary(o)
         \/ KeepIncarnation(o) \/ WipeIncarnation(o) \/ ReconcileSnapshot(o)
         \/ ProbeVariant(o) \/ PruneIncarnation(o) \/ SweepAtCap(o)
         \/ StoreVariant(o) \/ StoreResolver(o)
  PROVE  Shaped'
<1>a. VaryTypeOK /\ CallsFit /\ Variants \subseteq Keys /\ Primary \in Keys
  BY DEF Shaped, Keys
<1>b. [at |-> begun, fresh |-> TRUE] \in Objects
  BY <1>a DEF VaryTypeOK, Objects
<1>c. pc[o] \in Reserving => sel[o] \in Variants /\ kind[o] \in {"fill", "peer"}
  BY <1>a DEF CallsFit
<1> USE DEF Goto, asked, Steps, Kinds
<1>1. CASE StartFill(o)
  <2>1. VaryTypeOK'
    BY <1>1, <1>a, SMTT(30) DEF StartFill, Starts, VaryTypeOK
  <2>2. CallsFit'
    BY <1>1, <1>a, SMTT(30) DEF StartFill, Starts, VaryTypeOK, CallsFit, Reserving
  <2> QED
    BY <2>1, <2>2 DEF Shaped
<1>2. CASE StartPeerPut(o)
  <2>0. sel'[o] \in Variants
    BY <1>2, <1>a DEF StartPeerPut, Starts, VaryTypeOK
  <2>1. VaryTypeOK'
    BY <1>2, <1>a, <1>b, <2>0, SMTT(30) DEF StartPeerPut, Starts, VaryTypeOK
  <2>2. CallsFit'
    BY <1>2, <1>a, SMTT(30) DEF StartPeerPut, Starts, VaryTypeOK, CallsFit, Reserving
  <2> QED
    BY <2>1, <2>2 DEF Shaped
<1>3. CASE ReserveVariantSlot(o)
  <2>1. sel[o] \in Variants /\ kind[o] \in {"fill", "peer"}
    BY <1>3, <1>c DEF ReserveVariantSlot, Reserving
  <2>2. CASE Register(o, tracked)
    BY <1>3, <1>a, <2>1, <2>2, RegisterShaped DEF ReserveVariantSlot, VaryTypeOK
  <2>3. CASE UNCHANGED <<tracked, keys, dead>> /\ \E s \in {"put", "probe"} : Goto(o, s)
    <3>1. VaryTypeOK'
      BY <1>3, <1>a, <2>3 DEF ReserveVariantSlot, VaryTypeOK
    <3>2. CallsFit'
      BY <1>3, <1>a, <2>1, <2>3 DEF ReserveVariantSlot, VaryTypeOK, CallsFit, Reserving
    <3> QED
      BY <3>1, <3>2 DEF Shaped
  <2> QED
    BY <1>3, <2>2, <2>3 DEF ReserveVariantSlot
<1>4. CASE ProbePrimary(o)
  <2>1. VaryTypeOK'
    BY <1>4, <1>a DEF ProbePrimary, VaryTypeOK
  <2>2. CallsFit'
    BY <1>4, <1>a DEF ProbePrimary, VaryTypeOK, CallsFit, Reserving
  <2> QED
    BY <2>1, <2>2 DEF Shaped
<1>5. CASE KeepIncarnation(o)
  BY <1>5, <1>a, <1>c, RegisterShaped DEF KeepIncarnation, VaryTypeOK, Reserving
<1>6. CASE WipeIncarnation(o)
  BY <1>6, <1>a, <1>c, RegisterShaped DEF WipeIncarnation, VaryTypeOK, Reserving
<1>7. CASE ReconcileSnapshot(o)
  <2>1. VaryTypeOK'
    BY <1>7, <1>a DEF ReconcileSnapshot, VaryTypeOK
  <2>2. CallsFit'
    BY <1>7, <1>a DEF ReconcileSnapshot, VaryTypeOK, CallsFit, Reserving
  <2> QED
    BY <2>1, <2>2 DEF Shaped
<1>8. CASE ProbeVariant(o)
  <2>1. VaryTypeOK'
    BY <1>8, <1>a, SMTT(30) DEF ProbeVariant, VaryTypeOK
  <2>2. CallsFit'
    BY <1>8, <1>a DEF ProbeVariant, VaryTypeOK, CallsFit, Reserving
  <2> QED
    BY <2>1, <2>2 DEF Shaped
<1>9. CASE PruneIncarnation(o)
  <2>1. tracked \ dead[o] \in SUBSET Variants
    BY <1>a DEF VaryTypeOK
  <2> QED
    BY <1>9, <1>a, <1>c, <2>1, RegisterShaped DEF PruneIncarnation, Reserving
<1>10. CASE SweepAtCap(o)
  <2>1. VaryTypeOK'
    BY <1>10, <1>a, <1>c DEF SweepAtCap, VaryTypeOK, Reserving
  <2>2. CallsFit'
    BY <1>10, <1>a, SMTT(30) DEF SweepAtCap, VaryTypeOK, CallsFit, Reserving
  <2> QED
    BY <2>1, <2>2 DEF Shaped
<1>11. CASE StoreVariant(o)
  <2>1. VaryTypeOK'
    <3>1. store' \in [Keys -> Objects \union {NoObj}]
      BY <1>11, <1>a, <1>b DEF StoreVariant, StoreObject, VaryTypeOK
    <3>2. pc' \in [Ops -> Steps]
      BY <1>11, <1>a DEF StoreVariant, VaryTypeOK
    <3> QED
      BY <1>11, <1>a, <3>1, <3>2 DEF StoreVariant, VaryTypeOK
  <2>2. CallsFit'
    BY <1>11, <1>a, SMTT(30) DEF StoreVariant, FromPeer, VaryTypeOK, CallsFit, Reserving
  <2> QED
    BY <2>1, <2>2 DEF Shaped
<1>12. CASE StoreResolver(o)
  <2>1. VaryTypeOK'
    BY <1>12, <1>a, <1>b DEF StoreResolver, StoreObject, VaryTypeOK
  <2>2. CallsFit'
    BY <1>12, <1>a DEF StoreResolver, VaryTypeOK, CallsFit, Reserving
  <2> QED
    BY <2>1, <2>2 DEF Shaped
<1> QED
  BY <1>1, <1>2, <1>3, <1>4, <1>5, <1>6, <1>7, <1>8, <1>9, <1>10, <1>11, <1>12

\* The steps of purges and lookups keep the shape.
LEMMA PurgeShaped ==
  ASSUME Shaped, NEW o \in Ops,
         \/ StartPurge(o) \/ CheckOwned(o) \/ PurgeDelete(o) \/ StorePostResponse(o)
         \/ StartSoftPurge(o) \/ SoftGet(o) \/ SoftPut(o)
         \/ GetPrimary(o) \/ GetVariant(o)
  PROVE  Shaped'
<1>a. VaryTypeOK /\ CallsFit /\ Variants \subseteq Keys /\ Primary \in Keys
  BY DEF Shaped, Keys
<1>b. [at |-> begun, fresh |-> TRUE] \in Objects
  BY <1>a DEF VaryTypeOK, Objects
<1> USE DEF Goto, asked, Steps, Kinds
<1>1. CASE StartPurge(o)
  <2>1. VaryTypeOK'
    BY <1>1, <1>a, SMTT(30) DEF StartPurge, Starts, VaryTypeOK
  <2>2. CallsFit'
    BY <1>1, <1>a DEF StartPurge, Starts, VaryTypeOK, CallsFit, Reserving
  <2> QED
    BY <2>1, <2>2 DEF Shaped
<1>2. CASE CheckOwned(o)
  <2>1. VaryTypeOK'
    BY <1>2, <1>a, SMTT(30) DEF CheckOwned, PurgeReturns, VaryTypeOK
  <2>2. CallsFit'
    BY <1>2, <1>a, SMTT(30) DEF CheckOwned, PurgeReturns, VaryTypeOK, CallsFit, Reserving
  <2> QED
    BY <2>1, <2>2 DEF Shaped
<1>3. CASE PurgeDelete(o)
  <2>1. VaryTypeOK'
    BY <1>3, <1>a, SMTT(30) DEF PurgeDelete, PurgeReturns, VaryTypeOK
  <2>2. CallsFit'
    BY <1>3, <1>a, SMTT(30) DEF PurgeDelete, PurgeReturns, VaryTypeOK, CallsFit, Reserving
  <2> QED
    BY <2>1, <2>2 DEF Shaped
<1>4. CASE StorePostResponse(o)
  <2>1. VaryTypeOK'
    BY <1>4, <1>a, <1>b DEF StorePostResponse, StoreObject, VaryTypeOK
  <2>2. CallsFit'
    BY <1>4, <1>a DEF StorePostResponse, VaryTypeOK, CallsFit, Reserving
  <2> QED
    BY <2>1, <2>2 DEF Shaped
<1>5. CASE StartSoftPurge(o)
  <2>1. VaryTypeOK'
    BY <1>5, <1>a, SMTT(30) DEF StartSoftPurge, Starts, VaryTypeOK
  <2>2. CallsFit'
    BY <1>5, <1>a, SMTT(30) DEF StartSoftPurge, Starts, VaryTypeOK, CallsFit, Reserving
  <2> QED
    BY <2>1, <2>2 DEF Shaped
<1>6. CASE SoftGet(o)
  <2>0. \/ /\ UNCHANGED <<keys, held, target>>
           /\ pc' = [pc EXCEPT ![o] = "done"]
        \/ \E k \in keys[o] :
             /\ keys' = [keys EXCEPT ![o] = keys[o] \ {k}]
             /\ held' = [held EXCEPT ![o] = store[k]]
             /\ target' = [target EXCEPT ![o] = k]
             /\ \/ pc' = [pc EXCEPT ![o] = "softput"] /\ store[k] # NoObj
                \/ pc' = [pc EXCEPT ![o] = "soften"]
    BY <1>6 DEF SoftGet
  <2>3. keys[o] \subseteq Keys /\ kind[o] = "soft"
    BY <1>6, <1>a DEF SoftGet, VaryTypeOK, CallsFit
  <2>1. VaryTypeOK'
    BY <1>6, <1>a, <2>0, <2>3, SMTT(30) DEF SoftGet, VaryTypeOK
  <2>2. CallsFit'
    BY <1>6, <1>a, <2>0, <2>3, SMTT(30) DEF SoftGet, VaryTypeOK, CallsFit, Reserving
  <2> QED
    BY <2>1, <2>2 DEF Shaped
<1>7. CASE SoftPut(o)
  <2>0. held[o] \in Objects /\ target[o] \in Keys
    BY <1>7, <1>a DEF SoftPut, VaryTypeOK, CallsFit
  <2>3. [held[o] EXCEPT !.fresh = FALSE] \in Objects
    BY <2>0 DEF Objects
  <2>1. VaryTypeOK'
    BY <1>7, <1>a, <2>0, <2>3 DEF SoftPut, VaryTypeOK
  <2>2. CallsFit'
    BY <1>7, <1>a DEF SoftPut, VaryTypeOK, CallsFit, Reserving
  <2> QED
    BY <2>1, <2>2 DEF Shaped
<1>8. CASE GetPrimary(o)
  <2>0. /\ kind' = [kind EXCEPT ![o] = "get"]
        /\ \E v \in Variants : sel' = [sel EXCEPT ![o] = v]
    BY <1>8 DEF GetPrimary, Starts
  <2>1. VaryTypeOK'
    BY <1>8, <1>a, <2>0, SMTT(30) DEF GetPrimary, Starts, VaryTypeOK
  <2>2. CallsFit'
    BY <1>8, <1>a, <2>0 DEF GetPrimary, Starts, VaryTypeOK, CallsFit, Reserving
  <2> QED
    BY <2>1, <2>2 DEF Shaped
<1>9. CASE GetVariant(o)
  <2>1. VaryTypeOK'
    BY <1>9, <1>a DEF GetVariant, VaryTypeOK, CallsFit
  <2>2. CallsFit'
    BY <1>9, <1>a DEF GetVariant, VaryTypeOK, CallsFit, Reserving
  <2> QED
    BY <2>1, <2>2 DEF Shaped
<1> QED
  BY <1>1, <1>2, <1>3, <1>4, <1>5, <1>6, <1>7, <1>8, <1>9

\* Evictions keep the shape too, and so the shape is always right.
LEMMA NextShaped == Shaped /\ [VaryNext]_varyVars => Shaped'
<1> SUFFICES ASSUME Shaped, [VaryNext]_varyVars PROVE Shaped'
  OBVIOUS
<1>1. CASE \E o \in Ops : Step(o)
  BY <1>1, FillShaped, PurgeShaped DEF Step
<1>2. CASE \E k \in Keys : Evict(k)
  BY <1>2, SMTT(30) DEF Evict, Shaped, VaryTypeOK, CallsFit, asked
<1>3. CASE UNCHANGED varyVars
  BY <1>3 DEF varyVars, asked, Shaped, VaryTypeOK, CallsFit
<1> QED
  BY <1>1, <1>2, <1>3 DEF VaryNext, Finished
-----------------------------------------------------------------------------
(* The cap.                                                                *)

\* A set that is registered in is not above the cap, and takes one more only
\* below it.
LEMMA RegisterCap ==
  ASSUME Shaped, NEW o \in Ops, NEW set \in SUBSET tracked,
         Cardinality(tracked) <= MaxVariants, Register(o, set)
  PROVE  Cardinality(tracked') <= MaxVariants
<1>a. IsFiniteSet(tracked) /\ MaxVariants \in Nat
  BY RegistryAssumption, FS_Subset DEF Shaped, VaryTypeOK
<1>b. /\ IsFiniteSet(set) /\ Cardinality(set) <= Cardinality(tracked)
      /\ Cardinality(set) \in Nat /\ Cardinality(tracked) \in Nat
  BY <1>a, FS_Subset, FS_CardinalityType
<1>1. CASE tracked' = set
  BY <1>a, <1>b, <1>1, SMTT(30)
<1>2. CASE Cardinality(set) < MaxVariants /\ tracked' = set \union {sel[o]}
  <2>1. CASE sel[o] \in set
    <3>1. tracked' = set
      BY <1>2, <2>1
    <3> QED
      BY <1>1, <3>1
  <2>2. CASE sel[o] \notin set
    <3>1. Cardinality(tracked') = Cardinality(set) + 1
      BY <1>b, <1>2, <2>2, FS_AddElement
    <3> QED
      BY <1>a, <1>b, <1>2, <3>1, SMTT(30)
  <2> QED
    BY <2>1, <2>2
<1> QED
  BY <1>1, <1>2 DEF Register

\* No step takes local fills over the cap, however many were between their
\* snapshot and their lock.
LEMMA StepCap ==
  ASSUME Shaped, CapHeld, NEW o \in Ops, Step(o)
  PROVE  CapHeld'
<1> SUFFICES ASSUME \A q \in Ops : kind'[q] # "peer"
             PROVE  Cardinality(tracked') <= MaxVariants
  BY DEF CapHeld
<1>a. VaryTypeOK /\ CallsFit
  BY DEF Shaped
<1>1. \A q \in Ops : kind[q] # "peer"
  <2>1. \A q \in Ops \ {o} : kind[q] # "peer"
    BY <1>a, OwnStep
  <2>2. kind'[o] = kind[o] \/ pc[o] = "idle"
    BY DEF Step, StartFill, StartPeerPut, ReserveVariantSlot, ProbePrimary,
       KeepIncarnation, WipeIncarnation, ReconcileSnapshot, ProbeVariant,
       PruneIncarnation, SweepAtCap, StoreVariant, StoreResolver, StartPurge,
       CheckOwned, PurgeDelete, StorePostResponse, StartSoftPurge, SoftGet,
       SoftPut, GetPrimary, GetVariant, Starts, asked
  <2>3. kind[o] # "peer"
    BY <1>a, <2>2 DEF CallsFit
  <2> QED
    BY <2>1, <2>3
<1>2. Cardinality(tracked) <= MaxVariants
  BY <1>1 DEF CapHeld
<1>b. IsFiniteSet(tracked) /\ MaxVariants \in Nat /\ Cardinality(tracked) \in Nat
  BY <1>a, RegistryAssumption, FS_Subset, FS_CardinalityType DEF VaryTypeOK
<1>3. CASE tracked' = tracked
  BY <1>2, <1>3
<1>4. CASE \E set \in {tracked, {}, tracked \ dead[o]} : Register(o, set)
  BY <1>2, <1>4, RegisterCap
<1>5. CASE StartPurge(o)
  BY <1>5, <1>b, FS_EmptySet, SMTT(30) DEF StartPurge
<1>6. CASE SweepAtCap(o)
  <2>1. PICK set \in SUBSET tracked :
          \/ tracked' = set
          \/ Cardinality(set) < MaxVariants /\ tracked' = set \union {sel[o]}
    BY <1>6, <1>1 DEF SweepAtCap, FromPeer
  <2>2. IsFiniteSet(set) /\ Cardinality(set) <= Cardinality(tracked) /\ Cardinality(set) \in Nat
    BY <1>b, FS_Subset, FS_CardinalityType
  <2>3. CASE tracked' = set
    BY <1>b, <1>2, <2>2, <2>3, SMTT(30)
  <2>4. CASE Cardinality(set) < MaxVariants /\ tracked' = set \union {sel[o]}
    <3>1. CASE sel[o] \in set
      <4>1. tracked' = set
        BY <2>4, <3>1
      <4> QED
        BY <2>3, <4>1
    <3>2. CASE sel[o] \notin set
      <4>1. Cardinality(tracked') = Cardinality(set) + 1
        BY <2>2, <2>4, <3>2, FS_AddElement
      <4> QED
        BY <1>b, <2>2, <2>4, <4>1, SMTT(30)
    <3> QED
      BY <3>1, <3>2
  <2> QED
    BY <2>1, <2>3, <2>4
<1> QED
  BY <1>3, <1>4, <1>5, <1>6 DEF Step, StartFill, StartPeerPut,
     ReserveVariantSlot, ProbePrimary, KeepIncarnation, WipeIncarnation,
     ReconcileSnapshot, ProbeVariant, PruneIncarnation, StoreVariant,
     StoreResolver, CheckOwned, PurgeDelete, StorePostResponse,
     StartSoftPurge, SoftGet, SoftPut, GetPrimary, GetVariant
-----------------------------------------------------------------------------
(* Purges on a node whose calls on the primary key do not overlap.         *)

Over == {"idle", "done"}
Ordered == mode.clustered /\ mode.serial

OneAtATime == \A o, q \in Ops : pc[o] \notin Over /\ pc[q] \notin Over => o = q

\* The variants a call answers for while the registry does not: those a purge
\* has taken and a peer's put has yet to register.
InHand(o) ==
  {v \in Variants :
     \/ pc[o] \in {"check", "delete"} /\ v \in keys[o]
     \/ kind[o] = "peer" /\ pc[o] \in {"reserve", "cap"} /\ v = sel[o]}

\* Every variant in the store is tracked, or in hand.
Accounted ==
  \A v \in Variants : store[v] # NoObj => v \in tracked \/ \E o \in Ops : v \in InHand(o)

\* What a call has read is still so when it acts on it.
SteadyAt(o) ==
  /\ pc[o] # "wipe"
  /\ pc[o] \in {"reconcile", "prune", "cap"} => \A k \in dead[o] : store[k] = NoObj
  /\ pc[o] = "put" => sel[o] \in tracked
  /\ pc[o] \in {"check", "delete"} => tracked = {} /\ number[o] = begun
  /\ pc[o] \in {"soften", "softput"} => keys[o] \subseteq tracked \union {Primary}
  /\ pc[o] = "softput" =>
       held[o].at >= ended /\ target[o] \in tracked \union {Primary}

\* Nothing in the store is older than the last purge that has returned.
Dated ==
  /\ ended <= begun
  /\ \A o \in Ops : number[o] <= begun
  /\ \A k \in Keys : store[k] # NoObj => store[k].at >= ended

\* A variant older than a soft purge is not fresh, or the purge has it ahead.
SoftenedBy(o) ==
  \A v \in Variants : store[v] # NoObj /\ store[v].fresh =>
    \/ store[v].at >= number[o]
    \/ pc[o] \in {"soften", "softput"} /\ v \in keys[o]
    \/ pc[o] = "softput" /\ v = target[o]
Softened == \A o \in Ops : kind[o] = "soft" /\ pc[o] # "idle" => SoftenedBy(o)

Orderly ==
  OneAtATime /\ Accounted /\ (\A o \in Ops : SteadyAt(o)) /\ Dated /\ Softened

RegistryInv == Shaped /\ CapHeld /\ (Ordered => Orderly)

Alone(o) == \A q \in Ops \ {o} : pc[q] \in Over
AccountedBy(o) ==
  \A v \in Variants : store[v] # NoObj => v \in tracked \/ v \in InHand(o)

\* The call that takes a step is the only one under way.
LEMMA StepsAlone ==
  ASSUME Shaped, Ordered, Orderly, NEW o \in Ops, Step(o)
  PROVE  Alone(o) /\ AccountedBy(o)
<1>1. Alone(o)
  <2>1. CASE pc[o] \in Over
    <3>1. mode.serial => \A q \in Ops : pc[q] \in {"idle", "done"}
      BY <2>1 DEF Step, StartFill, StartPeerPut, ReserveVariantSlot, ProbePrimary,
         KeepIncarnation, WipeIncarnation, ReconcileSnapshot, ProbeVariant,
         PruneIncarnation, SweepAtCap, StoreVariant, StoreResolver, StartPurge,
         CheckOwned, PurgeDelete, StorePostResponse, StartSoftPurge, SoftGet,
         SoftPut, GetPrimary, GetVariant, Starts, Over
    <3> QED
      BY <3>1 DEF Alone, Ordered, Over
  <2>2. CASE pc[o] \notin Over
    BY <2>2 DEF Orderly, OneAtATime, Alone
  <2> QED
    BY <2>1, <2>2
<1>2. \A q \in Ops \ {o} : InHand(q) = {}
  BY <1>1 DEF Alone, Over, InHand
<1> QED
  BY <1>1, <1>2 DEF Orderly, Accounted, AccountedBy

\* What the one call preserves is preserved.
LEMMA Gathered ==
  ASSUME Shaped, Ordered, Orderly, NEW o \in Ops, Step(o), Alone(o),
         AccountedBy(o)', SteadyAt(o)', Dated', Softened'
  PROVE  Orderly'
<1>a. \A q \in Ops \ {o} : pc'[q] = pc[q] /\ pc[q] \in Over
  BY OwnStep DEF Shaped, Alone
<1>1. OneAtATime'
  BY <1>a DEF OneAtATime
<1>2. \A q \in Ops \ {o} : SteadyAt(q)'
  BY <1>a DEF SteadyAt, Over
<1>3. Accounted'
  BY DEF Accounted, AccountedBy
<1> QED
  BY <1>1, <1>2, <1>3 DEF Orderly

\* Times stay in order when what is new in the store has the present time,
\* and soft purges do when the call is not one.
LEMMA TimesKept ==
  ASSUME Shaped, Orderly, NEW o \in Ops, Step(o),
         kind'[o] # "soft", UNCHANGED ended, begun' \in Nat, begun' >= begun,
         number'[o] \in Nat, number'[o] <= begun',
         \A k \in Keys : store'[k] # NoObj => store'[k] = store[k] \/ store'[k].at = begun'
  PROVE  Dated' /\ Softened'
<1>a. /\ begun \in Nat /\ ended \in Nat /\ number \in [Ops -> Nat]
      /\ \A k \in Keys : store[k] # NoObj => store[k].at \in Nat
      /\ Dated /\ Softened /\ VaryTypeOK /\ Variants \subseteq Keys
  BY DEF Shaped, VaryTypeOK, Orderly, Objects, Keys
<1>b. \A q \in Ops \ {o} : /\ number'[q] = number[q] /\ kind'[q] = kind[q]
                            /\ pc'[q] = pc[q] /\ keys'[q] = keys[q]
                            /\ target'[q] = target[q]
  BY <1>a, OwnStep
<1>1. \A q \in Ops : number'[q] <= begun'
  BY <1>a, <1>b, SMTT(30) DEF Dated
<1>2. \A k \in Keys : store'[k] # NoObj => store'[k].at >= ended'
  BY <1>a, SMTT(30) DEF Dated
<1>3. ended' <= begun'
  BY <1>a, SMTT(30) DEF Dated
<1>4. ASSUME NEW q \in Ops, kind'[q] = "soft", pc'[q] # "idle",
             NEW v \in Variants, store'[v] # NoObj, store'[v].fresh
      PROVE  \/ store'[v].at >= number'[q]
             \/ pc'[q] \in {"soften", "softput"} /\ v \in keys'[q]
             \/ pc'[q] = "softput" /\ v = target'[q]
  <2>1. q # o
    BY <1>4
  <2>2. CASE store'[v] = store[v]
    <3>1. kind[q] = "soft" /\ pc[q] # "idle" /\ store[v] # NoObj /\ store[v].fresh
      BY <1>4, <1>b, <2>1, <2>2
    <3>2. \/ store[v].at >= number[q]
          \/ pc[q] \in {"soften", "softput"} /\ v \in keys[q]
          \/ pc[q] = "softput" /\ v = target[q]
      BY <1>a, <3>1 DEF Softened, SoftenedBy
    <3> QED
      BY <1>b, <2>1, <2>2, <3>2
  <2>3. CASE store'[v].at = begun'
    BY <1>1, <1>a, <1>b, <2>1, <2>3
  <2> QED
    BY <1>4, <1>a, <2>2, <2>3
<1>5. Softened'
  BY <1>4 DEF Softened, SoftenedBy
<1> QED
  BY <1>1, <1>2, <1>3, <1>5 DEF Dated

\* The same when the call begins and ends no purge.
LEMMA TimesStill ==
  ASSUME Shaped, Orderly, NEW o \in Ops, Step(o),
         kind'[o] # "soft", UNCHANGED <<number, begun, ended>>,
         \A k \in Keys : store'[k] # NoObj => store'[k] = store[k] \/ store'[k].at = begun
  PROVE  Dated' /\ Softened'
<1>1. /\ begun' \in Nat /\ begun' >= begun
      /\ number'[o] \in Nat /\ number'[o] <= begun'
  BY SMTT(30) DEF Shaped, VaryTypeOK, Orderly, Dated
<1> QED
  BY <1>1, TimesKept

\* Registering keeps account of every variant, when the set holds those in
\* the store that the call does not answer for.
LEMMA RegisterOrderly ==
  ASSUME Shaped, Ordered, Orderly, NEW o \in Ops, Step(o),
         NEW set \in SUBSET Variants, Register(o, set),
         sel[o] \in Variants, kind[o] \in {"fill", "peer"},
         UNCHANGED <<asked, store, held, target, number, begun, ended>>,
         \A v \in Variants : store[v] # NoObj =>
           v \in set \/ (kind[o] = "peer" /\ v = sel[o])
  PROVE  Orderly'
<1>a. VaryTypeOK /\ Alone(o)
  BY StepsAlone DEF Shaped
<1>b. UNCHANGED <<kind, sel>>
  BY DEF asked
<1>1. AccountedBy(o)'
  BY <1>a, <1>b, RegisterEffect DEF AccountedBy, InHand
<1>2. SteadyAt(o)'
  BY <1>a, <1>b, RegisterEffect DEF SteadyAt
<1>3. Dated' /\ Softened'
  BY <1>b, TimesStill
<1> QED
  BY <1>a, <1>1, <1>2, <1>3, Gathered

\* The steps of a fill and of a peer's put keep account of every variant.
LEMMA FillOrderly ==
  ASSUME Shaped, Ordered, Orderly, NEW o \in Ops,
         \/ StartFill(o) \/ StartPeerPut(o) \/ ReserveVariantSlot(o) \/ ProbePrimary(o)
         \/ KeepIncarnation(o) \/ WipeIncarnation(o) \/ ReconcileSnapshot(o)
         \/ ProbeVariant(o) \/ PruneIncarnation(o) \/ SweepAtCap(o)
         \/ StoreVariant(o) \/ StoreResolver(o)
  PROVE  Orderly'
<1>a. Step(o)
  BY DEF Step
<1>b. /\ VaryTypeOK /\ CallsFit /\ Variants \subseteq Keys /\ Primary \notin Variants
      /\ Alone(o) /\ AccountedBy(o) /\ SteadyAt(o)
  BY <1>a, StepsAlone, RegistryAssumption DEF Shaped, Keys, Orderly
<1>c. pc[o] \in Reserving => sel[o] \in Variants /\ kind[o] \in {"fill", "peer"}
  BY <1>b DEF CallsFit
<1>d. ASSUME pc[o] \notin {"check", "delete"},
             NEW v \in Variants, store[v] # NoObj
      PROVE  \/ v \in tracked
             \/ kind[o] = "peer" /\ pc[o] \in {"reserve", "cap"} /\ v = sel[o]
  BY <1>b, <1>d DEF AccountedBy, InHand
<1> USE DEF Goto, asked
<1>1. CASE StartFill(o)
  <2>0. kind'[o] = "fill" /\ pc'[o] = "reserve" /\ pc[o] = "idle"
    BY <1>1, <1>b DEF StartFill, Starts, VaryTypeOK
  <2>1. AccountedBy(o)'
    BY <1>1, <1>d, <2>0 DEF StartFill, AccountedBy
  <2>2. SteadyAt(o)'
    BY <2>0 DEF SteadyAt
  <2>3. Dated' /\ Softened'
    BY <1>1, <1>a, <2>0, TimesStill DEF StartFill
  <2> QED
    BY <1>a, <1>b, <2>1, <2>2, <2>3, Gathered
<1>2. CASE StartPeerPut(o)
  <2>0. /\ kind'[o] = "peer" /\ pc'[o] = "reserve" /\ pc[o] = "idle"
        /\ sel'[o] \in Variants
    BY <1>2, <1>b DEF StartPeerPut, Starts, VaryTypeOK
  <2>4. \A k \in Keys \ {sel'[o]} : store'[k] = store[k]
    BY <1>2, <1>b DEF StartPeerPut, VaryTypeOK
  <2>5. store'[sel'[o]].at = begun
    BY <1>2, <1>b, <2>0 DEF StartPeerPut, VaryTypeOK
  <2>1. AccountedBy(o)'
    BY <1>2, <1>b, <1>d, <2>0, <2>4 DEF StartPeerPut, AccountedBy, InHand
  <2>2. SteadyAt(o)'
    BY <2>0 DEF SteadyAt
  <2>3. Dated' /\ Softened'
    BY <1>2, <1>a, <2>0, <2>4, <2>5, TimesStill DEF StartPeerPut
  <2> QED
    BY <1>a, <1>b, <2>1, <2>2, <2>3, Gathered
<1>3. CASE ReserveVariantSlot(o)
  <2>0. sel[o] \in Variants /\ kind[o] \in {"fill", "peer"} /\ pc[o] = "reserve"
    BY <1>3, <1>c DEF ReserveVariantSlot, Reserving
  <2>1. CASE Register(o, tracked)
    <3>1. \A v \in Variants : store[v] # NoObj => v \in tracked \/ (kind[o] = "peer" /\ v = sel[o])
      BY <1>d, <2>0
    <3> QED
      BY <1>3, <1>a, <1>b, <2>0, <2>1, <3>1, RegisterOrderly DEF ReserveVariantSlot, VaryTypeOK
  <2>2. CASE /\ UNCHANGED <<tracked, keys, dead>>
             /\ \/ Goto(o, "put") /\ sel[o] \in tracked
                \/ Goto(o, "probe") /\ ~FromPeer(o)
    <3>1. \/ pc'[o] = "put" /\ sel[o] \in tracked
          \/ pc'[o] = "probe" /\ kind[o] # "peer"
      BY <1>b, <2>2 DEF FromPeer, VaryTypeOK
    <3>2. UNCHANGED <<kind, sel, tracked, store, number, begun, ended>>
      BY <1>3, <2>2 DEF ReserveVariantSlot
    <3>3. AccountedBy(o)'
      BY <1>d, <2>0, <3>1, <3>2 DEF AccountedBy
    <3>4. SteadyAt(o)'
      BY <3>1, <3>2 DEF SteadyAt
    <3>5. Dated' /\ Softened'
      BY <1>a, <2>0, <3>2, TimesStill
    <3> QED
      BY <1>a, <1>b, <3>3, <3>4, <3>5, Gathered
  <2> QED
    BY <1>3, <2>1, <2>2 DEF ReserveVariantSlot
<1>4. CASE ProbePrimary(o)
  <2>0. /\ pc'[o] \in {"snapshot", "reconcile"} /\ dead'[o] = {}
        /\ pc[o] = "probe" /\ kind[o] # "soft"
    BY <1>4, <1>b, <1>c DEF ProbePrimary, Ordered, VaryTypeOK, Reserving
  <2>1. AccountedBy(o)'
    BY <1>4, <1>d, <2>0 DEF ProbePrimary, AccountedBy
  <2>2. SteadyAt(o)'
    BY <2>0 DEF SteadyAt
  <2>3. Dated' /\ Softened'
    BY <1>4, <1>a, <2>0, TimesStill DEF ProbePrimary
  <2> QED
    BY <1>a, <1>b, <2>1, <2>2, <2>3, Gathered
<1>5. CASE KeepIncarnation(o)
  <2>1. /\ \A v \in Variants : store[v] # NoObj => v \in tracked
        /\ sel[o] \in Variants /\ kind[o] \in {"fill", "peer"}
    BY <1>5, <1>c, <1>d DEF KeepIncarnation, Reserving
  <2> QED
    BY <1>5, <1>a, <1>b, <2>1, RegisterOrderly DEF KeepIncarnation, VaryTypeOK
<1>6. CASE WipeIncarnation(o)
  BY <1>6, <1>b DEF WipeIncarnation, SteadyAt
<1>7. CASE ReconcileSnapshot(o)
  <2>0. pc'[o] = "prune" /\ pc[o] = "reconcile" /\ kind[o] # "soft"
    BY <1>7, <1>b, <1>c DEF ReconcileSnapshot, VaryTypeOK, Reserving
  <2>1. AccountedBy(o)'
    BY <1>7, <1>d, <2>0 DEF ReconcileSnapshot, AccountedBy
  <2>2. SteadyAt(o)'
    BY <1>7, <1>b, <2>0 DEF SteadyAt, ReconcileSnapshot
  <2>3. Dated' /\ Softened'
    BY <1>7, <1>a, <2>0, TimesStill DEF ReconcileSnapshot
  <2> QED
    BY <1>a, <1>b, <2>1, <2>2, <2>3, Gathered
<1>8. CASE ProbeVariant(o)
  <2>0. pc[o] \in {"prune", "cap"} /\ kind[o] # "soft" /\ UNCHANGED <<kind, sel, pc, store, tracked>>
    BY <1>8, <1>c DEF ProbeVariant, Reserving
  <2>4. \A k \in dead'[o] : store[k] = NoObj
    BY <1>8, <1>b, <2>0, SMTT(30) DEF ProbeVariant, SteadyAt, VaryTypeOK
  <2>1. AccountedBy(o)'
    BY <1>d, <2>0 DEF AccountedBy, InHand
  <2>2. SteadyAt(o)'
    BY <2>0, <2>4 DEF SteadyAt
  <2>3. Dated' /\ Softened'
    BY <1>8, <1>a, <2>0, TimesStill DEF ProbeVariant
  <2> QED
    BY <1>a, <1>b, <2>1, <2>2, <2>3, Gathered
<1>9. CASE PruneIncarnation(o)
  <2>1. /\ \A v \in Variants : store[v] # NoObj => v \in tracked \ dead[o]
        /\ sel[o] \in Variants /\ kind[o] \in {"fill", "peer"}
    BY <1>9, <1>b, <1>c, <1>d DEF PruneIncarnation, Reserving, SteadyAt
  <2>2. tracked \ dead[o] \in SUBSET Variants
    BY <1>b DEF VaryTypeOK
  <2> QED
    BY <1>9, <1>a, <2>1, <2>2, RegisterOrderly DEF PruneIncarnation
<1>10. CASE SweepAtCap(o)
  <2>0. /\ pc[o] = "cap" /\ kind[o] # "soft" /\ UNCHANGED <<kind, sel, store, dead>>
        /\ \/ pc'[o] = "put" /\ tracked' = (tracked \ dead[o]) \union {sel[o]}
           \/ pc'[o] = "done" /\ tracked' = tracked \ dead[o] /\ kind[o] # "peer"
    BY <1>10, <1>b, <1>c DEF SweepAtCap, FromPeer, VaryTypeOK, Reserving
  <2>4. \A k \in dead[o] : store[k] = NoObj
    BY <1>b, <2>0 DEF SteadyAt
  <2>1. AccountedBy(o)'
    BY <1>d, <2>0, <2>4 DEF AccountedBy
  <2>2. SteadyAt(o)'
    BY <2>0 DEF SteadyAt
  <2>3. Dated' /\ Softened'
    BY <1>10, <1>a, <2>0, TimesStill DEF SweepAtCap
  <2> QED
    BY <1>a, <1>b, <2>1, <2>2, <2>3, Gathered
<1>11. CASE StoreVariant(o)
  <2>0. /\ pc[o] = "put" /\ pc'[o] \in {"done", "resolver"}
        /\ kind[o] # "soft" /\ sel[o] \in Keys /\ UNCHANGED <<kind, sel, tracked>>
    BY <1>11, <1>b, <1>c DEF StoreVariant, VaryTypeOK, Reserving
  <2>4. /\ \A k \in Keys \ {sel[o]} : store'[k] = store[k]
        /\ store'[sel[o]] = store[sel[o]] \/ store'[sel[o]].at = begun
    BY <1>11, <1>b, <2>0, SMTT(30) DEF StoreVariant, StoreObject, VaryTypeOK
  <2>1. AccountedBy(o)'
    BY <1>b, <1>d, <2>0, <2>4 DEF AccountedBy, SteadyAt
  <2>2. SteadyAt(o)'
    BY <2>0 DEF SteadyAt
  <2>3. Dated' /\ Softened'
    BY <1>11, <1>a, <2>0, <2>4, TimesStill DEF StoreVariant
  <2> QED
    BY <1>a, <1>b, <2>1, <2>2, <2>3, Gathered
<1>12. CASE StoreResolver(o)
  <2>0. /\ pc[o] = "resolver" /\ pc'[o] = "done"
        /\ kind[o] # "soft" /\ UNCHANGED <<kind, sel, tracked>>
    BY <1>12, <1>b DEF StoreResolver, VaryTypeOK, CallsFit
  <2>4. /\ \A k \in Keys \ {Primary} : store'[k] = store[k]
        /\ store'[Primary] = store[Primary] \/ store'[Primary].at = begun
    BY <1>12, <1>b DEF StoreResolver, StoreObject, VaryTypeOK
  <2>1. AccountedBy(o)'
    BY <1>b, <1>d, <2>0, <2>4 DEF AccountedBy
  <2>2. SteadyAt(o)'
    BY <2>0 DEF SteadyAt
  <2>3. Dated' /\ Softened'
    BY <1>12, <1>a, <2>0, <2>4, TimesStill DEF StoreResolver
  <2> QED
    BY <1>a, <1>b, <2>1, <2>2, <2>3, Gathered
<1> QED
  BY <1>1, <1>2, <1>3, <1>4, <1>5, <1>6, <1>7, <1>8, <1>9, <1>10, <1>11, <1>12

\* A purge takes the whole registry with it: when it returns, what it has not
\* deleted is not there.
LEMMA PurgeOrderly ==
  ASSUME Shaped, Ordered, Orderly, NEW o \in Ops,
         StartPurge(o) \/ CheckOwned(o) \/ PurgeDelete(o) \/ StorePostResponse(o)
  PROVE  Orderly'
<1>a. Step(o)
  BY DEF Step
<1>b. /\ VaryTypeOK /\ CallsFit /\ Variants \subseteq Keys /\ Primary \notin Variants
      /\ Primary \in Keys /\ Keys = {Primary} \union Variants
      /\ Alone(o) /\ AccountedBy(o) /\ SteadyAt(o) /\ Dated
      /\ begun \in Nat /\ ended \in Nat /\ number \in [Ops -> Nat]
  BY <1>a, StepsAlone, RegistryAssumption DEF Shaped, VaryTypeOK, Keys, Orderly
<1>c. pc[o] \in {"check", "delete", "poststore"} => kind[o] \in {"purge", "post"}
  BY <1>b DEF CallsFit
<1>d. ASSUME NEW v \in Variants, store[v] # NoObj, pc[o] \in {"check", "delete"}
      PROVE  v \in keys[o]
  BY <1>b, <1>d DEF AccountedBy, InHand, SteadyAt
<1>e. \A q \in Ops : number[q] <= begun
  BY <1>b DEF Dated
<1> USE DEF Goto, asked
\* Purge returns with nothing in the store.
<1>r. ASSUME pc[o] \in {"check", "delete"}, keys[o] = {}, PurgeReturns(o),
             UNCHANGED <<kind, number, begun, tracked>>,
             \A k \in Keys : store'[k] = NoObj
      PROVE  Orderly'
  <2>1. pc'[o] \in {"poststore", "done"}
    BY <1>r, <1>b DEF PurgeReturns, VaryTypeOK
  <2>2. ended' <= begun'
    BY <1>r, <1>b, <1>e DEF PurgeReturns, Dated
  <2>3. Dated'
    BY <1>r, <1>e, <2>2 DEF Dated
  <2>4. Softened' /\ AccountedBy(o)'
    BY <1>r, <1>b DEF Softened, SoftenedBy, AccountedBy
  <2>5. SteadyAt(o)'
    BY <2>1 DEF SteadyAt
  <2> QED
    BY <1>a, <1>b, <2>3, <2>4, <2>5, Gathered
<1>1. CASE StartPurge(o)
  <2>0. /\ kind'[o] \in {"purge", "post"} /\ pc'[o] = "check" /\ pc[o] = "idle"
        /\ keys'[o] = tracked /\ tracked' = {} /\ number'[o] = begun'
        /\ begun' = begun + 1 /\ UNCHANGED <<store, ended>>
    BY <1>1, <1>b DEF StartPurge, Starts, VaryTypeOK
  <2>1. AccountedBy(o)'
    BY <1>b, <2>0 DEF AccountedBy, InHand
  <2>2. SteadyAt(o)'
    BY <2>0 DEF SteadyAt
  <2>3. Dated' /\ Softened'
    <3>1. begun' \in Nat /\ begun' >= begun /\ number'[o] \in Nat /\ number'[o] <= begun'
      BY <1>b, <2>0, SMTT(30)
    <3>2. kind'[o] # "soft" /\ \A k \in Keys : store'[k] = store[k]
      BY <2>0
    <3> QED
      BY <1>a, <2>0, <3>1, <3>2, TimesKept
  <2> QED
    BY <1>a, <1>b, <2>1, <2>2, <2>3, Gathered
<1>2. CASE CheckOwned(o)
  <2>1. CASE keys[o] = {} /\ store[Primary] = NoObj /\ PurgeReturns(o)
    <3>1. \A k \in Keys : store'[k] = NoObj
      BY <1>2, <1>b, <1>d, <2>1 DEF CheckOwned
    <3> QED
      BY <1>2, <1>r, <2>1, <3>1 DEF CheckOwned
  <2>2. CASE Goto(o, "delete") /\ UNCHANGED ended
    <3>0. /\ pc'[o] = "delete" /\ pc[o] = "check" /\ kind[o] # "soft"
          /\ UNCHANGED <<kind, sel, store, tracked, keys, number, begun, ended>>
      BY <1>2, <1>b, <1>c, <2>2 DEF CheckOwned, VaryTypeOK
    <3>1. AccountedBy(o)'
      BY <1>d, <3>0 DEF AccountedBy, InHand
    <3>2. SteadyAt(o)'
      BY <1>b, <3>0 DEF SteadyAt
    <3>3. Dated' /\ Softened'
      BY <1>a, <3>0, TimesStill
    <3> QED
      BY <1>a, <1>b, <3>1, <3>2, <3>3, Gathered
  <2> QED
    BY <1>2, <2>1, <2>2 DEF CheckOwned
<1>3. CASE PurgeDelete(o)
  <2>1. CASE /\ keys[o] = {} /\ PurgeReturns(o)
             /\ store' = [store EXCEPT ![Primary] = NoObj]
    <3>1. \A k \in Keys : store'[k] = NoObj
      BY <1>3, <1>b, <1>d, <2>1 DEF PurgeDelete, VaryTypeOK
    <3> QED
      BY <1>3, <1>r, <2>1, <3>1 DEF PurgeDelete
  <2>2. ASSUME NEW k \in keys[o], store' = [store EXCEPT ![k] = NoObj],
               keys' = [keys EXCEPT ![o] = @ \ {k}], UNCHANGED <<pc, ended>>
        PROVE  Orderly'
    <3>0. /\ pc[o] = "delete" /\ kind[o] # "soft" /\ keys'[o] = keys[o] \ {k}
          /\ UNCHANGED <<kind, sel, pc, tracked, number, begun, ended>>
          /\ \A j \in Keys : store'[j] # NoObj => store'[j] = store[j] /\ j # k
      BY <1>3, <1>b, <1>c, <2>2 DEF PurgeDelete, VaryTypeOK
    <3>1. AccountedBy(o)'
      BY <1>b, <1>d, <3>0 DEF AccountedBy, InHand
    <3>2. SteadyAt(o)'
      BY <1>b, <3>0 DEF SteadyAt
    <3>3. Dated' /\ Softened'
      BY <1>a, <3>0, TimesStill
    <3> QED
      BY <1>a, <1>b, <3>1, <3>2, <3>3, Gathered
  <2> QED
    BY <1>3, <2>1, <2>2 DEF PurgeDelete
<1>4. CASE StorePostResponse(o)
  <2>0. /\ pc[o] = "poststore" /\ pc'[o] = "done"
        /\ kind[o] # "soft" /\ UNCHANGED <<kind, sel, tracked, number, begun, ended>>
    BY <1>4, <1>b, <1>c DEF StorePostResponse, VaryTypeOK
  <2>4. /\ \A k \in Keys \ {Primary} : store'[k] = store[k]
        /\ store'[Primary] = store[Primary] \/ store'[Primary].at = begun
    BY <1>4, <1>b, SMTT(30) DEF StorePostResponse, StoreObject, VaryTypeOK
  <2>1. AccountedBy(o)'
    BY <1>b, <2>0, <2>4 DEF AccountedBy, InHand
  <2>2. SteadyAt(o)'
    BY <2>0 DEF SteadyAt
  <2>3. Dated' /\ Softened'
    BY <1>a, <2>0, <2>4, TimesStill
  <2> QED
    BY <1>a, <1>b, <2>1, <2>2, <2>3, Gathered
<1> QED
  BY <1>1, <1>2, <1>3, <1>4

\* A soft purge has every older variant ahead of it until it has put back a
\* stale copy; the copy is as old as what was read.
LEMMA SoftOrderly ==
  ASSUME Shaped, Ordered, Orderly, NEW o \in Ops,
         StartSoftPurge(o) \/ SoftGet(o) \/ SoftPut(o)
  PROVE  Orderly'
<1>a. Step(o)
  BY DEF Step
<1>b. /\ VaryTypeOK /\ CallsFit /\ Variants \subseteq Keys /\ Primary \notin Variants
      /\ Primary \in Keys /\ Keys = {Primary} \union Variants
      /\ Alone(o) /\ AccountedBy(o) /\ SteadyAt(o) /\ Dated /\ Softened
      /\ begun \in Nat /\ ended \in Nat /\ number \in [Ops -> Nat]
  BY <1>a, StepsAlone, RegistryAssumption DEF Shaped, VaryTypeOK, Keys, Orderly
<1>c. \A q \in Ops \ {o} : /\ pc'[q] = pc[q] /\ pc[q] \in Over /\ kind'[q] = kind[q]
                            /\ number'[q] = number[q]
  BY <1>a, <1>b, OwnStep DEF Alone
<1>d. ASSUME pc[o] \notin {"check", "delete"}, kind[o] # "peer",
             NEW v \in Variants, store[v] # NoObj
      PROVE  v \in tracked
  BY <1>b, <1>d DEF AccountedBy, InHand
\* The other soft purges are over.
<1>e. ASSUME NEW q \in Ops \ {o}, kind[q] = "soft", pc[q] # "idle",
             NEW v \in Variants, store[v] # NoObj, store[v].fresh
      PROVE  store[v].at >= number[q]
  BY <1>b, <1>c, <1>e DEF Softened, SoftenedBy, Over
<1>f. \A k \in Keys : store[k] # NoObj => store[k].at \in Nat /\ store[k].at >= ended
  BY <1>b DEF Dated, VaryTypeOK, Objects
<1>g. \A q \in Ops : number[q] <= begun
  BY <1>b DEF Dated
<1> USE DEF Goto, asked
<1>1. CASE StartSoftPurge(o)
  <2>0. /\ pc'[o] = "soften" /\ pc[o] = "idle" /\ kind[o] # "peer"
        /\ keys'[o] = {Primary} \union tracked /\ number'[o] = begun'
        /\ begun' = begun + 1 /\ UNCHANGED <<store, ended, tracked>>
    BY <1>1, <1>b DEF StartSoftPurge, Starts, VaryTypeOK, CallsFit
  <2>1. AccountedBy(o)'
    BY <1>d, <2>0 DEF AccountedBy
  <2>2. SteadyAt(o)'
    BY <2>0 DEF SteadyAt
  <2>3. Dated'
    BY <1>b, <1>c, <1>g, <2>0, SMTT(30) DEF Dated
  <2>4. SoftenedBy(o)'
    BY <1>d, <2>0 DEF SoftenedBy
  <2>5. \A q \in Ops \ {o} : kind'[q] = "soft" /\ pc'[q] # "idle" => SoftenedBy(q)'
    BY <1>c, <1>e, <2>0 DEF SoftenedBy
  <2>6. Softened'
    BY <2>4, <2>5 DEF Softened
  <2> QED
    BY <1>a, <1>b, <2>1, <2>2, <2>3, <2>6, Gathered
<1>2. CASE SoftGet(o)
  <2>0. /\ pc[o] = "soften" /\ kind[o] = "soft" /\ keys[o] \subseteq Keys
        /\ UNCHANGED <<kind, sel, tracked, store, number, begun, ended>>
    BY <1>2, <1>b DEF SoftGet, CallsFit, VaryTypeOK
  <2>1. PICK k \in Keys :
          \/ pc'[o] = "done" /\ keys[o] = {}
          \/ /\ k \in keys[o] /\ keys'[o] = keys[o] \ {k}
             /\ \/ pc'[o] = "soften" /\ store[k] = NoObj
                \/ /\ pc'[o] = "softput" /\ store[k] # NoObj
                   /\ held'[o] = store[k] /\ target'[o] = k
    <3>1. CASE keys[o] = {}
      <4>1. pc'[o] = "done"
        BY <1>2, <1>b, <3>1 DEF SoftGet, VaryTypeOK
      <4> QED
        BY <1>b, <3>1, <4>1
    <3>2. ASSUME NEW k \in keys[o],
                 keys' = [keys EXCEPT ![o] = @ \ {k}],
                 held' = [held EXCEPT ![o] = store[k]],
                 target' = [target EXCEPT ![o] = k],
                 pc' = [pc EXCEPT ![o] = IF store[k] = NoObj THEN "soften" ELSE "softput"]
          PROVE  /\ keys'[o] = keys[o] \ {k}
                 /\ \/ pc'[o] = "soften" /\ store[k] = NoObj
                    \/ /\ pc'[o] = "softput" /\ store[k] # NoObj
                       /\ held'[o] = store[k] /\ target'[o] = k
      BY <1>b, <3>2 DEF VaryTypeOK
    <3> QED
      BY <1>2, <2>0, <3>1, <3>2 DEF SoftGet
  <2>2. AccountedBy(o)'
    BY <1>d, <2>0 DEF AccountedBy
  <2>3. SteadyAt(o)'
    BY <1>b, <1>f, <2>0, <2>1 DEF SteadyAt
  <2>4. Dated'
    BY <1>b, <2>0 DEF Dated
  <2>5. SoftenedBy(o)
    BY <1>b, <2>0 DEF Softened
  <2>6. SoftenedBy(o)'
    BY <2>0, <2>1, <2>5 DEF SoftenedBy
  <2>7. \A q \in Ops \ {o} : kind'[q] = "soft" /\ pc'[q] # "idle" => SoftenedBy(q)'
    BY <1>c, <1>e, <2>0 DEF SoftenedBy
  <2>8. Softened'
    BY <2>6, <2>7 DEF Softened
  <2> QED
    BY <1>a, <1>b, <2>2, <2>3, <2>4, <2>8, Gathered
<1>3. CASE SoftPut(o)
  <2>0. /\ pc[o] = "softput" /\ kind[o] = "soft" /\ pc'[o] = "soften"
        /\ UNCHANGED <<kind, sel, tracked, keys, number, begun, ended>>
        /\ held[o] # NoObj /\ held[o] \in Objects /\ target[o] \in Keys
    BY <1>3, <1>b DEF SoftPut, CallsFit, VaryTypeOK
  <2>1. /\ held[o].at >= ended /\ target[o] \in tracked \union {Primary}
        /\ keys[o] \subseteq tracked \union {Primary}
    BY <1>b, <2>0 DEF SteadyAt
  <2>2. /\ \A k \in Keys \ {target[o]} : store'[k] = store[k]
        /\ \/ store'[target[o]] = NoObj
           \/ store'[target[o]] = [held[o] EXCEPT !.fresh = FALSE]
    BY <1>3, <1>b, <2>0 DEF SoftPut, VaryTypeOK
  <2>3. store'[target[o]] # NoObj => /\ store'[target[o]].at = held[o].at
                                     /\ ~store'[target[o]].fresh
    BY <2>0, <2>2 DEF Objects
  <2>4. AccountedBy(o)'
    BY <1>b, <1>d, <2>0, <2>1, <2>2 DEF AccountedBy
  <2>5. SteadyAt(o)'
    BY <2>0, <2>1 DEF SteadyAt
  <2>6. \A k \in Keys : store'[k] # NoObj => store'[k].at >= ended
    BY <1>f, <2>1, <2>2, <2>3
  <2>7. Dated'
    BY <1>b, <2>0, <2>6 DEF Dated
  <2>8. SoftenedBy(o)
    BY <1>b, <2>0 DEF Softened
  <2>9. SoftenedBy(o)'
    BY <1>b, <2>0, <2>2, <2>3, <2>8 DEF SoftenedBy
  <2>10. \A q \in Ops \ {o} : kind'[q] = "soft" /\ pc'[q] # "idle" => SoftenedBy(q)'
    BY <1>b, <1>c, <1>e, <2>0, <2>2, <2>3 DEF SoftenedBy
  <2>11. Softened'
    BY <2>9, <2>10 DEF Softened
  <2> QED
    BY <1>a, <1>b, <2>4, <2>5, <2>7, <2>11, Gathered
<1> QED
  BY <1>1, <1>2, <1>3

\* Lookups change nothing that a purge relies on.
LEMMA GetOrderly ==
  ASSUME Shaped, Ordered, Orderly, NEW o \in Ops, GetPrimary(o) \/ GetVariant(o)
  PROVE  Orderly'
<1>a. Step(o)
  BY DEF Step
<1>b. /\ VaryTypeOK /\ CallsFit /\ Alone(o) /\ AccountedBy(o) /\ SteadyAt(o) /\ Dated
      /\ begun \in Nat /\ ended \in Nat
  BY <1>a, StepsAlone DEF Shaped, VaryTypeOK, Orderly
<1>1. /\ pc[o] \in {"idle", "variant"} /\ pc'[o] \in {"variant", "done"}
      /\ kind'[o] = "get" /\ kind[o] # "peer"
      /\ UNCHANGED <<store, tracked, begun, ended>>
      /\ number'[o] = ended \/ UNCHANGED number
  BY <1>b DEF GetPrimary, GetVariant, Starts, Goto, asked, VaryTypeOK, CallsFit
<1>2. AccountedBy(o)'
  BY <1>b, <1>1 DEF AccountedBy, InHand
<1>3. SteadyAt(o)'
  BY <1>1 DEF SteadyAt
<1>4. number'[o] \in Nat /\ number'[o] <= begun'
  BY <1>b, <1>1 DEF Dated, VaryTypeOK
<1>5. Dated' /\ Softened'
  <2>1. begun' \in Nat /\ begun' >= begun
    BY <1>b, <1>1, SMTT(30)
  <2>2. kind'[o] # "soft" /\ \A k \in Keys : store'[k] = store[k]
    BY <1>1
  <2> QED
    BY <1>a, <1>1, <1>4, <2>1, <2>2, TimesKept
<1> QED
  BY <1>a, <1>b, <1>2, <1>3, <1>5, Gathered

\* An eviction only takes away.
LEMMA EvictOrderly ==
  ASSUME Shaped, Orderly, NEW k \in Keys, Evict(k)
  PROVE  Orderly'
<1>a. /\ UNCHANGED <<mode, kind, sel, pc, tracked, keys, dead, held, target, number, begun, ended>>
      /\ \A j \in Keys : store'[j] = store[j] \/ store'[j] = NoObj
      /\ \A j \in Keys : store[j] = NoObj => store'[j] = NoObj
      /\ Variants \subseteq Keys
  BY DEF Evict, asked, Shaped, VaryTypeOK, Keys
<1>1. OneAtATime'
  BY <1>a DEF Orderly, OneAtATime
<1>2. Accounted'
  BY <1>a DEF Orderly, Accounted, InHand
<1>3. ASSUME NEW o \in Ops PROVE SteadyAt(o)'
  <2>1. dead[o] \subseteq Keys /\ SteadyAt(o)
    BY DEF Shaped, VaryTypeOK, Orderly
  <2> QED
    BY <1>a, <2>1 DEF SteadyAt
<1>4. Dated'
  BY <1>a DEF Orderly, Dated
<1>5. Softened'
  BY <1>a DEF Orderly, Softened, SoftenedBy
<1> QED
  BY <1>1, <1>2, <1>3, <1>4, <1>5 DEF Orderly

\* No step breaks the account of the registry.
LEMMA NextRegistry == RegistryInv /\ [VaryNext]_varyVars => RegistryInv'
<1> SUFFICES ASSUME RegistryInv, [VaryNext]_varyVars PROVE RegistryInv'
  OBVIOUS
<1>a. Shaped /\ CapHeld /\ (Ordered => Orderly) /\ Shaped'
  BY NextShaped DEF RegistryInv
<1>1. ASSUME NEW o \in Ops, Step(o) PROVE RegistryInv'
  <2>1. CapHeld'
    BY <1>1, <1>a, StepCap
  <2>2. Ordered' => Ordered
    BY <1>1, <1>a, OwnStep DEF Ordered, Shaped
  <2>3. ASSUME Ordered PROVE Orderly'
    BY <1>1, <1>a, <2>3, FillOrderly, PurgeOrderly, SoftOrderly, GetOrderly DEF Step
  <2> QED
    BY <1>a, <2>1, <2>2, <2>3 DEF RegistryInv
<1>2. ASSUME NEW k \in Keys, Evict(k) PROVE RegistryInv'
  <2>1. CapHeld' /\ (Ordered' => Ordered)
    BY <1>2, <1>a DEF Evict, asked, CapHeld, Ordered
  <2> QED
    BY <1>2, <1>a, <2>1, EvictOrderly DEF RegistryInv
<1>3. CASE UNCHANGED varyVars
  <2>1. CapHeld' /\ (Ordered' => Ordered)
    BY <1>3, <1>a DEF varyVars, asked, CapHeld, Ordered
  <2>2. Orderly => Orderly'
    BY <1>3 DEF varyVars, asked, Orderly, OneAtATime, Accounted, InHand, SteadyAt,
       Dated, Softened, SoftenedBy
  <2> QED
    BY <1>a, <2>1, <2>2 DEF RegistryInv
<1> QED
  BY <1>1, <1>2, <1>3 DEF VaryNext, Finished

\* In a cluster, a purge that overlaps no other call leaves no variant stored
\* before it began and a soft purge leaves none of them fresh, whatever was
\* stored, put by peers or evicted before; and local fills never track more
\* than max_variants, however they overlap (Purge, SoftPurge,
\* reserveVariantSlotMode).
THEOREM PurgesReach == VarySpec => []VariantsPurged
<1>1. VaryInit => RegistryInv
  <2> SUFFICES ASSUME VaryInit PROVE RegistryInv
    OBVIOUS
  <2>1. Shaped
    BY InitShaped
  <2>2. CapHeld
    BY RegistryAssumption, FS_EmptySet, SMTT(30) DEF VaryInit, CapHeld
  <2>3. Orderly
    BY SMTT(30) DEF VaryInit, Orderly, OneAtATime, Over, Accounted, SteadyAt, Dated,
       Softened, SoftenedBy, Keys
  <2> QED
    BY <2>1, <2>2, <2>3 DEF RegistryInv
<1>2. RegistryInv => VariantsPurged
  <2> SUFFICES ASSUME RegistryInv PROVE VariantsPurged
    OBVIOUS
  <2>1. CapHeld
    BY DEF RegistryInv
  <2>2. PurgeReachesEveryVariant
    BY DEF RegistryInv, Ordered, Orderly, Dated, PurgeReachesEveryVariant, Keys
  <2>3. SoftPurgeReachesEveryVariant
    BY DEF RegistryInv, Ordered, Orderly, Softened, SoftenedBy, SoftPurgeReachesEveryVariant
  <2> QED
    BY <2>1, <2>2, <2>3 DEF VariantsPurged
<1> QED
  BY <1>1, <1>2, NextRegistry, PTL DEF VarySpec
-----------------------------------------------------------------------------
(* What an invalidation goes through, together.                            *)

\* Every part runs as it does by itself.
LEMMA PartsRun == Spec => VarySpec /\ TrackSpec /\ InvalSpec
<1>1. Init => VaryInit /\ TrackInit /\ InvalInit
  BY DEF Init
<1>2. [Next]_<<part, varyVars, trackVars, invalVars>>
      => [VaryNext]_varyVars /\ [TrackNext]_trackVars /\ [InvalNext]_invalVars
  BY DEF Next
<1>. QED  BY <1>1, <1>2, PTL DEF Spec, VarySpec, TrackSpec, InvalSpec

\* Types of the registry, the dedup and the delivery.
THEOREM PurgesTyped == Spec => []PurgesTypeOK
<1>1. Shaped /\ TrackInv /\ DeliveryInv => PurgesTypeOK
  BY DEF Shaped, TrackInv, DeliveryInv, Base, PurgesTypeOK
<1>. QED  BY <1>1, PartsRun, InitShaped, NextShaped, TrackInitially, TrackKept,
             DeliveryInitially, DeliveryKept, PTL DEF VarySpec, TrackSpec, InvalSpec
=============================================================================
