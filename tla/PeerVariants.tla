---------------------------- MODULE PeerVariants ----------------------------
(***************************************************************************)
(* A local miss asks the key's owner before the origin: the blank ask of   *)
(* the fast path and the hints it leaves for the full handler, the ask for *)
(* the variant the key policy alone determines, the bare ask that may be   *)
(* answered with the Vary list only, the ask for the variant derived from  *)
(* that list, and the fill that stores or forwards what the origin gave,   *)
(* while the owner's store changes between two asks.                       *)
(*                                                                         *)
(* Source: tryPeerFetch of internal/cache/fastpath.go, handleCacheMiss and *)
(* servePeerHit of handler.go, resolver.go, the variant keys of vary.go    *)
(* and the assertions of key.go, varydrift.go, the owner's side in         *)
(* internal/cluster/peerfetch.go, transferOwnerMissHint of the parser.     *)
(*                                                                         *)
(* One URL.  Two request fields can select a variant: "L" is compared      *)
(* alike in keys and assertions; of "X" the spellings 1 and 3 give one     *)
(* variant key, but an assertion compares it verbatim.                     *)
(***************************************************************************)
EXTENDS Naturals, FiniteSets

CONSTANTS
  Asking,       \* requests: [L : Nat, X : Nat]
  VariantPlans  \* [policied, include, exclude, declares, owned, moves, legacy, faults,
                \* asks, turns]: turns, the changes by the other nodes and by time

VARIABLES
  variantPlan,
  declared,     \* the Vary list the origin sends
  owned,        \* keys the ring gives to this node
  mine,         \* this node's store
  theirs,       \* the other nodes' stores
  raw,          \* the hints in the connection's parsed request
  memoed,       \* the URL's last fill here may not be stored by anyone
  ask,          \* the request under way
  turn,
  served        \* number of requests begun

variantVars == <<variantPlan, declared, owned, mine, theirs, raw, memoed, ask, turn, served>>

Fields == {"L", "X"}

\* varyHeaderValue: how a value enters a variant key.
KeyValue(f, v) == IF f = "X" /\ v = 3 THEN 1 ELSE v

\* variantKeyCore: the excluded fields do not count, and with no field left
\* the key is the primary key.
VariantKey(vary, r) ==
  LET fields == vary \ variantPlan.exclude
  IN [fields |-> fields, at |-> [f \in Fields |-> IF f \in fields THEN KeyValue(f, r[f]) ELSE 0]]
PrimaryKey == [fields |-> {}, at |-> [f \in Fields |-> 0]]

\* BuildVaryKey: blank only without a Vary list.
BlankKey == [f \in Fields |-> 9]
BuildVaryKey(vary, r) ==
  IF vary = {} THEN BlankKey
  ELSE [f \in Fields |-> IF f \in vary \ variantPlan.exclude THEN r[f] ELSE 0]

\* effectiveVary: what the origin declares and what the policy includes.
EffectiveVary == declared \union variantPlan.include
ConfigDerivedVary == variantPlan.include

VariantKeys ==
  {PrimaryKey} \union {VariantKey(v, r) : v \in SUBSET Fields, r \in Asking}

NoEntry == [kind |-> "none"]
ResolverOf(vary, bodied) == [kind |-> "resolver", vary |-> vary, bodied |-> bodied]
ObjectFor(vary, r) == [kind |-> "object", vary |-> vary, mark |-> BuildVaryKey(vary, r), for |-> r,
                       age |-> 0]

NoHints == [miss |-> FALSE, reject |-> FALSE, shed |-> FALSE, resolver |-> NoEntry]
NoAsk == [at |-> "idle"]

VariantInit ==
  /\ variantPlan \in VariantPlans
  /\ declared \in variantPlan.declares
  /\ owned \in variantPlan.owned
  /\ mine = [k \in VariantKeys |-> NoEntry]
  /\ theirs = [k \in VariantKeys |->
       IF k = PrimaryKey /\ variantPlan.legacy THEN ResolverOf({"L"}, TRUE) ELSE NoEntry]
  /\ raw = NoHints
  /\ memoed = FALSE
  /\ ask = NoAsk
  /\ turn = 0
  /\ served = 0

\* An age is 0 (fresh), 1 (in the stale window) or 2.
FreshEnough(e) == e.kind = "object" /\ e.age < 2

-----------------------------------------------------------------------------
(* The owner's side.                                                       *)

VaryKeyOf(e) == IF e.kind = "object" THEN e.mark ELSE BlankKey

\* PeerFetchHandler.Handle: a miss when the entry is another variant's, or a
\* resolver that carries a body.
Answer(k, assertion) ==
  LET e == theirs[k]
  IN IF \/ e = NoEntry
        \/ assertion # BlankKey /\ VaryKeyOf(e) # assertion
        \/ e.kind = "resolver" /\ e.bodied
     THEN NoEntry ELSE e

\* What a peer RPC may come to: its answer, an error, or no slot for it.
Outcomes(k, assertion) ==
  {[kind |-> "answer", got |-> Answer(k, assertion)]}
    \union {[kind |-> f, got |-> NoEntry] : f \in variantPlan.faults}

IsPeerResolverMetadata(e) == e.kind = "resolver" /\ ~e.bodied

\* Mutant: any object of the URL will do.
AnyVariant(o, r) == TRUE

\* varyKeyMatches, the gate of both paths on what a peer sent.
VariantGate(o, r) == o.vary = {} \/ BuildVaryKey(o.vary, r) = o.mark

-----------------------------------------------------------------------------
(* The request.                                                            *)

Begun(r) == [at |-> "fast", r |-> r, key |-> PrimaryKey, assertion |-> BlankKey, list |-> {},
             tried |-> {}, settled |-> {}, asks |-> 0, again |-> FALSE, got |-> NoEntry,
             via |-> "none", skipped |-> FALSE, memo |-> FALSE]

\* parseBuffer: the connection's parsed request is used again.
ParseResets == raw' = NoHints

Begin(r) ==
  /\ ask.at = "idle"
  /\ served < variantPlan.asks
  /\ ask' = Begun(r)
  /\ served' = served + 1
  /\ ParseResets
  /\ UNCHANGED <<variantPlan, declared, owned, mine, theirs, memoed, turn>>

Finish ==
  /\ ask.at = "done"
  /\ ask' = NoAsk
  /\ UNCHANGED <<variantPlan, declared, owned, mine, theirs, raw, memoed, turn, served>>

Done(a, o, via) == [a EXCEPT !.at = "done", !.got = o, !.via = via]

\* lookup: the key asked for, the object it has, the resolver it has instead.
LookUpHere(r) ==
  LET p == mine[PrimaryKey]
      vk == VariantKey(p.vary, r)
  IN IF p = NoEntry \/ p.vary = {} \/ vk = PrimaryKey
     THEN [key |-> PrimaryKey, obj |-> p, resolver |-> NoEntry]
     ELSE [key |-> vk, obj |-> mine[vk], resolver |-> IF mine[vk] = NoEntry THEN p ELSE NoEntry]

\* TryHit: a hit is served; a plain miss of another node's key asks.
FastTry ==
  /\ ask.at = "fast"
  /\ LET l == LookUpHere(ask.r)
         plain == l.obj = NoEntry /\ l.resolver = NoEntry
     IN \/ /\ FreshEnough(l.obj)
           /\ ask' = Done(ask, l.obj, "local")
           /\ UNCHANGED raw
        \/ /\ plain /\ PrimaryKey \notin owned /\ memoed
           /\ raw' = [raw EXCEPT !.miss = TRUE]
           /\ ask' = [ask EXCEPT !.at = "slow", !.memo = TRUE]
        \/ /\ plain /\ PrimaryKey \notin owned /\ ~memoed /\ ConfigDerivedVary = {}
           /\ ask' = [ask EXCEPT !.at = "fastask"]
           /\ UNCHANGED raw
        \/ /\ ~FreshEnough(l.obj)
           /\ ~plain \/ PrimaryKey \in owned \/ (~memoed /\ ConfigDerivedVary # {})
           /\ ask' = [ask EXCEPT !.at = "slow"]
           /\ UNCHANGED raw
  /\ UNCHANGED <<variantPlan, declared, owned, mine, theirs, memoed, turn, served>>

\* A question put to a peer.  One that failed, or was answered with this
\* request's own variant, too old to serve, may be put again.
Put(a, k, assertion, outcome) ==
  LET q == [key |-> k, assertion |-> assertion]
      open == \/ outcome.kind = "error"
              \/ outcome.got.kind = "object" /\ VariantGate(outcome.got, a.r)
  IN [a EXCEPT !.asks = @ + 1,
               !.again = @ \/ q \in a.settled,
               !.settled = IF open THEN @ ELSE @ \union {q}]

\* tryPeerFetch from the blank ask on: what came back is served or leaves its
\* hint; an error leaves none.
FastAsk ==
  /\ ask.at = "fastask"
  /\ \E o \in Outcomes(PrimaryKey, BlankKey) :
       LET a == Put(ask, PrimaryKey, BlankKey, o)
           slow == [a EXCEPT !.at = "slow"]
           gated == o.got.kind = "object" /\ VariantGate(o.got, ask.r)
       IN \/ /\ IsPeerResolverMetadata(o.got)
             /\ raw' = [raw EXCEPT !.resolver = o.got] /\ ask' = slow
          \/ /\ o.kind = "answer" /\ o.got = NoEntry
             /\ raw' = [raw EXCEPT !.miss = TRUE] /\ ask' = slow
          \/ /\ o.kind = "shed"
             /\ raw' = [raw EXCEPT !.shed = TRUE] /\ ask' = slow
          \/ /\ o.got.kind = "object" /\ ~gated
             /\ raw' = [raw EXCEPT !.reject = TRUE] /\ ask' = slow
          \/ /\ gated /\ FreshEnough(o.got)
             /\ ask' = Done(a, o.got, "peer") /\ UNCHANGED raw
          \/ /\ o.kind = "error" \/ (gated /\ ~FreshEnough(o.got))
             /\ ask' = slow /\ UNCHANGED raw
  /\ UNCHANGED <<variantPlan, declared, owned, mine, theirs, memoed, turn, served>>

\* peerHintsApply: only when the two paths' questions are the same one.
PeerHintsApply(obj) ==
  /\ obj = NoEntry
  /\ ~variantPlan.policied
  /\ raw.miss \/ raw.reject \/ raw.shed

\* transferredResolver: the fast path's ask was for this key.
TransferredResolver(obj, key) ==
  IF obj = NoEntry /\ key = PrimaryKey THEN raw.resolver ELSE NoEntry

\* handleCacheMiss up to its first ask.
SlowLookup ==
  /\ ask.at = "slow"
  /\ LET l == LookUpHere(ask.r)
         a == [ask EXCEPT !.key = l.key, !.assertion = VaryKeyOf(l.obj)]
         xfer == TransferredResolver(l.obj, l.key)
     IN ask' =
          IF FreshEnough(l.obj) THEN Done(a, l.obj, "local")
          ELSE IF PeerHintsApply(l.obj) THEN [a EXCEPT !.at = "origin", !.skipped = TRUE]
          ELSE IF memoed /\ l.key = PrimaryKey THEN [a EXCEPT !.at = "origin"]
          ELSE IF l.key \in owned THEN [a EXCEPT !.at = "origin"]
          ELSE IF xfer # NoEntry THEN [a EXCEPT !.at = "two", !.list = xfer.vary]
          ELSE IF l.obj = NoEntry /\ l.resolver = NoEntry /\ ConfigDerivedVary # {}
               THEN [a EXCEPT !.at = "derived", !.list = ConfigDerivedVary, !.tried = ConfigDerivedVary]
          ELSE [a EXCEPT !.at = "bare"]
  /\ UNCHANGED <<variantPlan, declared, owned, mine, theirs, raw, memoed, turn, served>>

\* serveDerivedPeerVariant: the variant of this request under a Vary list is
\* read here or asked of its owner, and served when it is this request's.
AskVariant(from, otherwise) ==
  /\ ask.at = from
  /\ LET vk == VariantKey(ask.list, ask.r)
         assertion == BuildVaryKey(ask.list, ask.r)
         After(a, e) == IF FreshEnough(e) /\ VariantGate(e, ask.r) THEN Done(a, e, "peer")
                        ELSE [a EXCEPT !.at = otherwise]
     IN \/ vk = PrimaryKey /\ ask' = [ask EXCEPT !.at = otherwise]
        \/ vk # PrimaryKey /\ vk \in owned /\ ask' = After(ask, mine[vk])
        \/ /\ vk # PrimaryKey /\ vk \notin owned
           /\ \E o \in Outcomes(vk, assertion) : ask' = After(Put(ask, vk, assertion, o), o.got)
  /\ UNCHANGED <<variantPlan, declared, owned, mine, theirs, raw, memoed, turn, served>>

DerivedAsk == AskVariant("derived", "bare")
TwoStepAsk == AskVariant("two", "origin")

\* A Vary list came back: nothing more to ask when it is the one tried.
Followed(a, list) ==
  IF list = a.tried THEN [a EXCEPT !.at = "origin"] ELSE [a EXCEPT !.at = "two", !.list = list]

\* The bare ask of handleCacheMiss, and servePeerHit.
BareAsk ==
  /\ ask.at = "bare"
  /\ \E o \in Outcomes(ask.key, ask.assertion) :
       LET a == Put(ask, ask.key, ask.assertion, o)
       IN ask' = IF IsPeerResolverMetadata(o.got) THEN Followed(a, o.got.vary)
                 ELSE IF FreshEnough(o.got) /\ VariantGate(o.got, ask.r) THEN Done(a, o.got, "peer")
                 ELSE [a EXCEPT !.at = "origin"]
  /\ UNCHANGED <<variantPlan, declared, owned, mine, theirs, raw, memoed, turn, served>>

-----------------------------------------------------------------------------
(* Fills and the other nodes.                                              *)

\* What a fill for r leaves to store: the object under its variant key, and
\* under the primary key the Vary list without a body.
Entries(r) ==
  LET vk == VariantKey(EffectiveVary, r)
  IN [k \in {PrimaryKey, vk} |->
        IF k = vk THEN ObjectFor(EffectiveVary, r) ELSE ResolverOf(EffectiveVary, FALSE)]

\* storeObject and forwardToOwnerIfRemote: only the owner stores.
StoreAtOwners(here, there) ==
  /\ mine' = [k \in VariantKeys |-> IF k \in DOMAIN here \intersect owned THEN here[k] ELSE mine[k]]
  /\ theirs' = [k \in VariantKeys |-> IF k \in DOMAIN there \ owned THEN there[k] ELSE theirs[k]]

Only(f, S) == [k \in DOMAIN f \intersect S |-> f[k]]

\* writeAndMaybeStore; an object sent to its owner may not arrive.
FillHere ==
  /\ ask.at = "origin"
  /\ LET all == Entries(ask.r)
     IN \E arrive \in SUBSET DOMAIN all : StoreAtOwners(all, Only(all, arrive))
  /\ ask' = Done(ask, ObjectFor(EffectiveVary, ask.r), "origin")
  /\ UNCHANGED <<variantPlan, declared, owned, raw, memoed, turn, served>>

\* The response may not be stored by a shared cache.
FillUnstorable ==
  /\ ask.at = "origin"
  /\ "private" \in variantPlan.faults
  /\ memoed' = TRUE
  /\ ask' = Done(ask, ObjectFor(EffectiveVary, ask.r), "origin")
  /\ UNCHANGED <<variantPlan, declared, owned, mine, theirs, raw, turn, served>>

Elsewhere ==
  /\ turn < variantPlan.turns
  /\ turn' = turn + 1
  /\ UNCHANGED <<variantPlan, raw, ask, served>>

\* A fill of another node; what this node owns is put here.
FillElsewhere(r) ==
  /\ LET all == Entries(r)
     IN \E arrive \in SUBSET DOMAIN all : StoreAtOwners(Only(all, arrive), all)
  /\ UNCHANGED <<declared, owned, memoed>>

\* detectVaryDrift: a Vary list that changed purges the URL, on the node that
\* saw it change.
AfterDrift(store, o) ==
  IF o.vary # {} /\ o.vary # EffectiveVary THEN [k \in VariantKeys |-> NoEntry] ELSE store

\* doBackgroundRevalidate of the object at a key, for a request the key is
\* of: the origin's Vary list is taken over, the key stays.  It runs on the
\* owner, or on a node that was sent a stale copy and forwards the fresh one.
Revalidate(k, r) ==
  /\ \/ /\ mine[k].kind = "object" /\ VariantKey(mine[k].vary, r) = k
        /\ \E store \in {AfterDrift(mine, mine[k]), mine} :
             mine' = [store EXCEPT ![k] = ObjectFor(EffectiveVary, r)]
        /\ UNCHANGED theirs
     \/ /\ theirs[k].kind = "object" /\ VariantKey(theirs[k].vary, r) = k
        /\ \/ /\ theirs' = [AfterDrift(theirs, theirs[k]) EXCEPT ![k] = ObjectFor(EffectiveVary, r)]
              /\ UNCHANGED mine
           \/ /\ theirs' = [theirs EXCEPT ![k] = ObjectFor(EffectiveVary, r)]
              /\ mine' = AfterDrift(mine, theirs[k])
  /\ UNCHANGED <<declared, owned, memoed>>

Older(e) == IF e.kind = "object" /\ e.age < 2 THEN [e EXCEPT !.age = @ + 1] ELSE e

TimePasses ==
  /\ mine' = [k \in VariantKeys |-> Older(mine[k])]
  /\ theirs' = [k \in VariantKeys |-> Older(theirs[k])]
  /\ memoed' = FALSE
  /\ UNCHANGED <<declared, owned>>

Evicted(k) ==
  /\ \/ mine' = [mine EXCEPT ![k] = NoEntry] /\ UNCHANGED theirs
     \/ theirs' = [theirs EXCEPT ![k] = NoEntry] /\ UNCHANGED mine
  /\ UNCHANGED <<declared, owned, memoed>>

Redeclare ==
  /\ declared' \in variantPlan.declares \ {declared}
  /\ UNCHANGED <<owned, mine, theirs, memoed>>

RingMoves ==
  /\ variantPlan.moves
  /\ owned' \in variantPlan.owned \ {owned}
  /\ UNCHANGED <<declared, mine, theirs, memoed>>

VariantNext ==
  \/ \E r \in Asking : Begin(r)
  \/ FastTry \/ FastAsk \/ SlowLookup \/ DerivedAsk \/ BareAsk \/ TwoStepAsk
  \/ FillHere \/ FillUnstorable \/ Finish
  \/ /\ Elsewhere
     /\ \/ \E r \in Asking : FillElsewhere(r)
        \/ \E k \in VariantKeys, r \in Asking : Revalidate(k, r)
        \/ \E k \in VariantKeys : Evicted(k)
        \/ TimePasses \/ Redeclare \/ RingMoves

-----------------------------------------------------------------------------

Kept == {NoEntry} \union {mine[k] : k \in VariantKeys} \union {theirs[k] : k \in VariantKeys}

VariantTypeOK ==
  /\ declared \subseteq Fields
  /\ owned \subseteq VariantKeys
  /\ DOMAIN mine = VariantKeys /\ DOMAIN theirs = VariantKeys
  /\ \A e \in Kept : e.kind \in {"none", "resolver", "object"}
  /\ raw.resolver.kind \in {"none", "resolver"}
  /\ ask.at \in {"idle", "fast", "fastask", "slow", "derived", "bare", "two", "origin", "done"}
  /\ memoed \in BOOLEAN /\ turn \in 0..variantPlan.turns

\* What a peer sent is served only to a request that selects it: on every
\* field of the object's own Vary list, up to the excluded ones, the request
\* agrees verbatim with the request the object was filled for (servePeerHit
\* and peerGateMatchesVary), whatever list the question was derived from and
\* whatever the owner stored since.
PeerVariantIsOurs ==
  ask.at = "done" /\ ask.via = "peer" =>
    \A f \in ask.got.vary \ variantPlan.exclude : ask.got.for[f] = ask.r[f]

\* A question a peer has settled (a miss, a Vary list, another variant, no
\* slot) is not put again by the same request, and no request asks more than three times (the hints of
\* transferOwnerMissHint, transferredResolver, derivedTried); routes with a
\* key policy that derives no list do ask again, by design.
AsksOnce ==
  ask.at # "idle" =>
    /\ ask.asks <= 3
    /\ ~variantPlan.policied \/ variantPlan.include # {} => ~ask.again

\* A request that skips its owner because of a hint put the question itself,
\* or found the URL unstorable: a hint never outlives its request in the
\* connection's reused parsed request.
HintsAreEarned ==
  ask.at # "idle" /\ ask.skipped => ask.asks > 0 \/ ask.memo

\* What this node stored is served only to a request that selects it, up to
\* the spellings a variant key takes as one (lookup, getVariantForResolution).
\* It does not hold: a background revalidation stores a response whose Vary
\* has changed under the old variant key.
LocalVariantIsOurs ==
  ask.at = "done" /\ ask.via = "local" =>
    \A f \in ask.got.vary \ variantPlan.exclude : KeyValue(f, ask.got.for[f]) = KeyValue(f, ask.r[f])
=============================================================================
