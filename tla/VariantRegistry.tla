--------------------------- MODULE VariantRegistry ---------------------------
(***************************************************************************)
(* The variants tracked for one primary key (Handler.variantSets), the     *)
(* fills, peer puts and unsafe requests that register and store them, and  *)
(* the purges that must reach every one of them (RFC 9111 section 4.4).    *)
(*                                                                         *)
(* Sources: internal/cache/handler.go, internal/cluster/peerfetch.go.      *)
(*                                                                         *)
(* variantMu is held within an action and never across two: the code       *)
(* releases it around every store probe.  Each store call is a step.       *)
(***************************************************************************)
EXTENDS Naturals, FiniteSets

CONSTANTS
  Ops,          \* requests and calls on the primary key
  Variants,     \* variant keys
  Primary,      \* the primary key
  NoObj,
  Owned,        \* the keys whose ring owner is this node
  MaxVariants,  \* max_variants
  Grace,        \* do objects have an SWR or SIE window
  Modes,        \* what is explored, see AllModes
  MaxEvict      \* bound: evictions

Kinds == {"fill", "peer", "post", "purge", "soft", "get"}
Keys == {Primary} \union Variants

\* Is ownerFn set, do the calls on the primary key never overlap, and which
\* calls are there.
AllModes == [clustered : BOOLEAN, serial : BOOLEAN, calls : SUBSET Kinds]

ASSUME RegistryAssumption ==
  /\ Primary \notin Variants /\ Owned \subseteq Keys
  /\ IsFiniteSet(Variants) /\ MaxVariants \in Nat \ {0} /\ MaxEvict \in Nat
  /\ Modes \subseteq AllModes /\ Grace \in BOOLEAN

VARIABLES
  mode,
  kind,      \* the kind of each call
  sel,       \* the variant a fill, a put or a get selects
  pc,        \* where the call is
  tracked,   \* variantSets[primary]; an absent set is empty
  store,     \* what the store holds, with the purges begun when it was put
  keys,      \* the call's snapshot of keys still to probe, delete or soften
  dead,      \* snapshot keys the probe found gone
  held,      \* the object SoftPurge has read
  target,    \* and its key
  number,    \* how many purges had begun with this one; for a get, ended
  begun,     \* purges begun
  ended,     \* the last of the purges that have returned
  answer,    \* what a get was served
  evictions

asked == <<mode, kind, sel>>
varyVars == <<asked, pc, tracked, store, keys, dead, held, target, number, begun, ended, answer, evictions>>

Objects == [at : Nat, fresh : BOOLEAN]
Steps == {"idle", "reserve", "probe", "wipe", "snapshot", "reconcile", "prune",
          "cap", "put", "resolver", "check", "delete", "poststore", "soften",
          "softput", "variant", "done"}

VaryInit ==
  /\ mode \in Modes
  /\ kind = [o \in Ops |-> "get"]
  /\ sel = [o \in Ops |-> Primary]
  /\ pc = [o \in Ops |-> "idle"]
  /\ tracked = {}
  /\ store = [k \in Keys |-> NoObj]
  /\ keys = [o \in Ops |-> {}]
  /\ dead = [o \in Ops |-> {}]
  /\ held = [o \in Ops |-> NoObj]
  /\ target = [o \in Ops |-> Primary]
  /\ number = [o \in Ops |-> 0]
  /\ begun = 0
  /\ ended = 0
  /\ answer = [o \in Ops |-> NoObj]
  /\ evictions = 0

Goto(o, step) == pc' = [pc EXCEPT ![o] = step]

\* A call starts when it may overlap the others or all others are over.
Starts(o, kinds, selected) ==
  /\ pc[o] = "idle"
  /\ \E k \in kinds \intersect mode.calls : kind' = [kind EXCEPT ![o] = k]
  /\ \E v \in selected : sel' = [sel EXCEPT ![o] = v]
  /\ mode.serial => \A q \in Ops : pc[q] \in {"idle", "done"}
  /\ UNCHANGED mode

\* storeObject: only the owner of a key stores it.
StoreObject(k) ==
  store' = IF k \in Owned THEN [store EXCEPT ![k] = [at |-> begun, fresh |-> TRUE]] ELSE store
-----------------------------------------------------------------------------
(* reserveVariantSlotMode.                                                 *)

FromPeer(o) == kind[o] = "peer"

\* Mutant: the primary key is registered in place of the store key.
RegisterPrimary(o, set) ==
  /\ tracked' = set \union {Primary}
  /\ Goto(o, "put") /\ UNCHANGED <<keys, dead>>

\* A set below the cap takes the variant; otherwise its keys are snapshot
\* for the sweep of dead variants.
Register(o, set) ==
  IF Cardinality(set) < MaxVariants
  THEN /\ tracked' = set \union {sel[o]}
       /\ Goto(o, "put") /\ UNCHANGED <<keys, dead>>
  ELSE /\ tracked' = set
       /\ keys' = [keys EXCEPT ![o] = set]
       /\ dead' = [dead EXCEPT ![o] = {}]
       /\ Goto(o, "cap")

\* A fill reserves its slot while the response headers are at hand.
StartFill(o) ==
  /\ Starts(o, {"fill"}, Variants)
  /\ Goto(o, "reserve")
  /\ UNCHANGED <<tracked, store, keys, dead, held, target, number, begun, ended, answer, evictions>>

\* PeerPutHandler.Handle stores the object before it calls StoreFromPeer.
StartPeerPut(o) ==
  /\ Starts(o, {"peer"}, Variants)
  /\ store' = [store EXCEPT ![sel'[o]] = [at |-> begun, fresh |-> TRUE]]
  /\ Goto(o, "reserve")
  /\ UNCHANGED <<tracked, keys, dead, held, target, number, begun, ended, answer, evictions>>

ReserveVariantSlot(o) ==
  /\ pc[o] = "reserve"
  /\ \/ sel[o] \in tracked /\ Goto(o, "put") /\ UNCHANGED <<tracked, keys, dead>>
     \/ /\ sel[o] \notin tracked
        /\ tracked # {} /\ ~FromPeer(o)
        /\ Goto(o, "probe") /\ UNCHANGED <<tracked, keys, dead>>
     \/ /\ sel[o] \notin tracked
        /\ tracked = {} \/ FromPeer(o)
        /\ Register(o, tracked)
  /\ UNCHANGED <<asked, store, held, target, number, begun, ended, answer, evictions>>

\* reconcileStaleIncarnation looks for the primary without the lock.
ProbePrimary(o) ==
  /\ pc[o] = "probe"
  /\ Goto(o, IF store[Primary] # NoObj THEN "snapshot" ELSE
             IF mode.clustered THEN "reconcile" ELSE "wipe")
  /\ keys' = [keys EXCEPT ![o] = {}]
  /\ dead' = [dead EXCEPT ![o] = {}]
  /\ UNCHANGED <<asked, tracked, store, held, target, number, begun, ended, answer, evictions>>

\* The primary is there: the set as it is now.
KeepIncarnation(o) ==
  /\ pc[o] = "snapshot"
  /\ Register(o, tracked)
  /\ UNCHANGED <<asked, store, held, target, number, begun, ended, answer, evictions>>

\* Single node: the primary was absent, so the whole set is replaced.
WipeIncarnation(o) ==
  /\ pc[o] = "wipe"
  /\ Register(o, {})
  /\ UNCHANGED <<asked, store, held, target, number, begun, ended, answer, evictions>>

\* Mutant: the set is wiped in a cluster too.
ReconcileWipes(o) ==
  /\ pc[o] = "reconcile"
  /\ Register(o, {})
  /\ UNCHANGED <<asked, store, held, target, number, begun, ended, answer, evictions>>

\* Cluster: the tracked keys are snapshot under the lock.
ReconcileSnapshot(o) ==
  /\ pc[o] = "reconcile"
  /\ keys' = [keys EXCEPT ![o] = tracked]
  /\ Goto(o, "prune")
  /\ UNCHANGED <<asked, tracked, store, dead, held, target, number, begun, ended, answer, evictions>>

\* pruneDeadVariants probes the snapshot one store.Get at a time.
ProbeVariant(o) ==
  /\ pc[o] \in {"prune", "cap"}
  /\ \E k \in keys[o] :
       /\ keys' = [keys EXCEPT ![o] = @ \ {k}]
       /\ dead' = [dead EXCEPT ![o] = IF store[k] = NoObj THEN @ \union {k} ELSE @]
  /\ UNCHANGED <<asked, pc, tracked, store, held, target, number, begun, ended, answer, evictions>>

\* Then it locks and drops the dead ones from the set as it is now.
PruneIncarnation(o) ==
  /\ pc[o] = "prune" /\ keys[o] = {}
  /\ Register(o, tracked \ dead[o])
  /\ UNCHANGED <<asked, store, held, target, number, begun, ended, answer, evictions>>

\* The sweep at the cap: a local fill may be refused, a peer's object is in
\* the store already and is tracked past the cap.
SweepAtCap(o) ==
  /\ pc[o] = "cap" /\ keys[o] = {}
  /\ LET set == tracked \ dead[o]
     IN \/ /\ Cardinality(set) < MaxVariants \/ FromPeer(o)
           /\ tracked' = set \union {sel[o]}
           /\ Goto(o, "put")
        \/ /\ Cardinality(set) >= MaxVariants /\ ~FromPeer(o)
           /\ tracked' = set
           /\ Goto(o, "done")
  /\ UNCHANGED <<asked, store, keys, dead, held, target, number, begun, ended, answer, evictions>>
-----------------------------------------------------------------------------
(* Storing.                                                                *)

\* The body is complete and the variant is stored, or the fill is dropped.
StoreVariant(o) ==
  /\ pc[o] = "put"
  /\ \/ /\ StoreObject(sel[o])
        /\ Goto(o, IF FromPeer(o) THEN "done" ELSE "resolver")
     \/ /\ ~FromPeer(o) /\ Goto(o, "done") /\ UNCHANGED store
  /\ UNCHANGED <<asked, tracked, keys, dead, held, target, number, begun, ended, answer, evictions>>

StoreResolver(o) ==
  /\ pc[o] = "resolver"
  /\ StoreObject(Primary)
  /\ Goto(o, "done")
  /\ UNCHANGED <<asked, tracked, keys, dead, held, target, number, begun, ended, answer, evictions>>
-----------------------------------------------------------------------------
(* Purge, and the unsafe requests that purge (invalidateAndProxy).         *)

\* The set is taken and deleted under the lock.
StartPurge(o) ==
  /\ Starts(o, {"purge", "post"}, {Primary})
  /\ keys' = [keys EXCEPT ![o] = tracked]
  /\ tracked' = {}
  /\ begun' = begun + 1
  /\ number' = [number EXCEPT ![o] = begun + 1]
  /\ Goto(o, "check")
  /\ UNCHANGED <<store, dead, held, target, ended, answer, evictions>>

\* Purge has returned; an unsafe request goes on.
PurgeReturns(o) ==
  /\ ended' = IF number[o] > ended THEN number[o] ELSE ended
  /\ Goto(o, IF kind[o] = "post" THEN "poststore" ELSE "done")

\* Nothing tracked and no primary: not owned, nothing is touched.
CheckOwned(o) ==
  /\ pc[o] = "check"
  /\ \/ /\ keys[o] = {} /\ store[Primary] = NoObj
        /\ PurgeReturns(o)
     \/ /\ keys[o] # {} \/ store[Primary] # NoObj
        /\ Goto(o, "delete") /\ UNCHANGED ended
  /\ UNCHANGED <<asked, tracked, store, keys, dead, held, target, number, begun, answer, evictions>>

\* The taken variants are deleted one by one, the primary last.
PurgeDelete(o) ==
  /\ pc[o] = "delete"
  /\ \/ \E k \in keys[o] :
          /\ store' = [store EXCEPT ![k] = NoObj]
          /\ keys' = [keys EXCEPT ![o] = @ \ {k}]
          /\ UNCHANGED <<pc, ended>>
     \/ /\ keys[o] = {}
        /\ store' = [store EXCEPT ![Primary] = NoObj]
        /\ PurgeReturns(o)
        /\ UNCHANGED keys
  /\ UNCHANGED <<asked, tracked, dead, held, target, number, begun, answer, evictions>>

\* maybeStorePostResponseFast: under the GET key, or not at all.
StorePostResponse(o) ==
  /\ pc[o] = "poststore"
  /\ StoreObject(Primary) \/ UNCHANGED store
  /\ Goto(o, "done")
  /\ UNCHANGED <<asked, tracked, keys, dead, held, target, number, begun, ended, answer, evictions>>
-----------------------------------------------------------------------------
(* SoftPurge.                                                              *)

StartSoftPurge(o) ==
  /\ Starts(o, {"soft"}, {Primary})
  /\ keys' = [keys EXCEPT ![o] = {Primary} \union tracked]
  /\ begun' = begun + 1
  /\ number' = [number EXCEPT ![o] = begun + 1]
  /\ Goto(o, "soften")
  /\ UNCHANGED <<tracked, store, dead, held, target, ended, answer, evictions>>

\* The next key, the primary first, is read; the call ends after the last.
SoftGet(o) ==
  /\ pc[o] = "soften"
  /\ \/ \E k \in keys[o] :
          /\ Primary \in keys[o] => k = Primary
          /\ keys' = [keys EXCEPT ![o] = @ \ {k}]
          /\ held' = [held EXCEPT ![o] = store[k]]
          /\ target' = [target EXCEPT ![o] = k]
          /\ Goto(o, IF store[k] = NoObj THEN "soften" ELSE "softput")
     \/ keys[o] = {} /\ Goto(o, "done") /\ UNCHANGED <<keys, held, target>>
  /\ UNCHANGED <<asked, tracked, store, dead, number, begun, ended, answer, evictions>>

\* A clone without freshness replaces it, or without a grace window it goes.
SoftPut(o) ==
  /\ pc[o] = "softput"
  /\ store' = [store EXCEPT ![target[o]] =
                 IF Grace THEN [held[o] EXCEPT !.fresh = FALSE] ELSE NoObj]
  /\ Goto(o, "soften")
  /\ UNCHANGED <<asked, tracked, keys, dead, held, target, number, begun, ended, answer, evictions>>
-----------------------------------------------------------------------------
(* Lookups and evictions.                                                  *)

\* lookup reads the primary, then the variant it resolves to.
GetPrimary(o) ==
  /\ Starts(o, {"get"}, Variants)
  /\ number' = [number EXCEPT ![o] = ended]
  /\ Goto(o, IF store[Primary] = NoObj THEN "done" ELSE "variant")
  /\ UNCHANGED <<tracked, store, keys, dead, held, target, begun, ended, answer, evictions>>

GetVariant(o) ==
  /\ pc[o] = "variant"
  /\ answer' = [answer EXCEPT ![o] = store[sel[o]]]
  /\ Goto(o, "done")
  /\ UNCHANGED <<asked, tracked, store, keys, dead, held, target, number, begun, ended, evictions>>

Evict(k) ==
  /\ evictions < MaxEvict /\ store[k] # NoObj
  /\ store' = [store EXCEPT ![k] = NoObj]
  /\ evictions' = evictions + 1
  /\ UNCHANGED <<asked, pc, tracked, keys, dead, held, target, number, begun, ended, answer>>

Step(o) ==
  \/ StartFill(o) \/ StartPeerPut(o) \/ ReserveVariantSlot(o) \/ ProbePrimary(o)
  \/ KeepIncarnation(o) \/ WipeIncarnation(o) \/ ReconcileSnapshot(o)
  \/ ProbeVariant(o) \/ PruneIncarnation(o) \/ SweepAtCap(o)
  \/ StoreVariant(o) \/ StoreResolver(o)
  \/ StartPurge(o) \/ CheckOwned(o) \/ PurgeDelete(o) \/ StorePostResponse(o)
  \/ StartSoftPurge(o) \/ SoftGet(o) \/ SoftPut(o)
  \/ GetPrimary(o) \/ GetVariant(o)

Finished ==
  /\ \A o \in Ops : pc[o] = "done"
  /\ UNCHANGED varyVars

VaryNext ==
  \/ \E o \in Ops : Step(o)
  \/ \E k \in Keys : Evict(k)
  \/ Finished

VarySpec == VaryInit /\ [][VaryNext]_varyVars
-----------------------------------------------------------------------------
(* Properties.                                                             *)

\* Every variable has the shape of the Go state it stands for.
VaryTypeOK ==
  /\ mode \in Modes /\ kind \in [Ops -> Kinds] /\ sel \in [Ops -> Keys]
  /\ pc \in [Ops -> Steps]
  /\ tracked \subseteq Variants
  /\ store \in [Keys -> Objects \union {NoObj}]
  /\ keys \in [Ops -> SUBSET Keys] /\ dead \in [Ops -> SUBSET Keys]
  /\ held \in [Ops -> Objects \union {NoObj}] /\ target \in [Ops -> Keys]
  /\ number \in [Ops -> Nat] /\ begun \in Nat /\ ended \in Nat
  /\ answer \in [Ops -> Objects \union {NoObj}]
  /\ evictions \in Nat

\* Local fills never track more variants than max_variants, whatever other
\* fills register while the lock is released for the probes.
CapHeld ==
  (\A o \in Ops : kind[o] # "peer") => Cardinality(tracked) <= MaxVariants

\* In a cluster, when a purge that overlapped no other call has returned, no
\* variant that was stored before it began is in the store (RFC 9111 section
\* 4.4: all stored variants are invalidated), whatever was evicted between.
PurgeReachesEveryVariant ==
  mode.clustered /\ mode.serial =>
    \A v \in Variants : store[v] # NoObj => store[v].at >= ended

\* When such a soft purge has returned, none of them is fresh.
SoftPurgeReachesEveryVariant ==
  mode.clustered /\ mode.serial =>
    \A o \in Ops : kind[o] = "soft" /\ pc[o] = "done" =>
      \A v \in Variants : store[v] # NoObj /\ store[v].fresh => store[v].at >= number[o]

\* A purge and a soft purge reach every variant there is, and the registry
\* never tracks more than max_variants of them.
VariantsPurged ==
  CapHeld /\ PurgeReachesEveryVariant /\ SoftPurgeReachesEveryVariant

\* A client that asks after a purge has returned is not served what was
\* stored before the purge began.
PurgedNeverServed ==
  \A o \in Ops : answer[o] # NoObj => answer[o].at >= number[o]
=============================================================================
