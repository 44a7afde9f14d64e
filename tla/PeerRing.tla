------------------------------ MODULE PeerRing ------------------------------
(***************************************************************************)
(* One node's picture of its peers and what it fetches from them: the      *)
(* consistent-hash ring kept from memberlist's events, the push/pull merge *)
(* and the reconcile loop; the addresses it retires; and the peer fetches  *)
(* with their slots, their breaker and their pipeline clients.             *)
(*                                                                         *)
(* Source: internal/cluster/cluster.go (membership, ring) and              *)
(* peerfetch.go.                                                           *)
(*                                                                         *)
(* memberlist is external: view is the members it reports, and it calls    *)
(* the event delegate while it holds the lock its Members takes, so no     *)
(* snapshot of the members is taken while an event is being handled.  An   *)
(* event may be lost, as reconcileOnce says.  The ring has the virtual     *)
(* nodes of the names in peers and is kept under the same mutex, so peers  *)
(* stands for both.  Callbacks run after the mutex is released.            *)
(***************************************************************************)
EXTENDS Naturals, FiniteSets, FiniteSetsExt

CONSTANTS
  Self, Peers,        \* this node and the others
  Addrs,              \* addresses of the others
  Positions,          \* of each name, the hashes of its virtual nodes
  KeyHashes,          \* hashes of keys
  PeerFetchers,           \* fetches that may be in flight
  FetchSlots,         \* capacity of fetchSem
  PeerFailures,       \* consecutive failures that blacklist an address
  PeerPlans           \* [names, changes, lossy, passes, merges, fetches]

Names == Peers \union {Self}
PeerGone == "gone"
Places == Addrs \union {PeerGone}

\* Every name has virtual nodes, and no two names share one: 64-bit hashes
\* do not collide.
ASSUME PeerAssumption ==
  /\ Self \notin Peers /\ PeerGone \notin Addrs
  /\ \A n \in Names : Positions[n] # {} /\ Positions[n] \subseteq Nat
  /\ \A m, n \in Names : m # n => Positions[m] \intersect Positions[n] = {}
  /\ KeyHashes \subseteq Nat
  /\ IsFiniteSet(PeerFetchers) /\ FetchSlots \in Nat /\ PeerFailures \in Nat \ {0}
  /\ \A p \in PeerPlans : p.names \subseteq Peers /\ p.changes \in Nat

VARIABLES
  peerPlan,
  view,        \* memberlist's members: peer -> its address, or PeerGone
  changes,     \* membership changes left
  peers,       \* the peer table and the ring: peer -> address, or PeerGone
  retired,     \* retiredAddrs
  job,         \* what the three goroutines that change the table are doing
  breaker,     \* address -> its failure state
  slots,       \* slots of fetchSem taken
  fetch        \* fetch -> its progress

memberVars == <<view, changes, peers, retired, job>>
fetcherVars == <<breaker, slots, fetch>>
peerVars == <<peerPlan, memberVars, fetcherVars>>

Jobs == {"event", "reconcile", "merge"}
AtRest == [at |-> "rest", snap |-> [n \in Peers |-> PeerGone], drop |-> {}, look |-> {},
           name |-> Self, addr |-> PeerGone, old |-> PeerGone]
Healthy == [fails |-> 0, state |-> "closed"]
NotFetching == [at |-> "idle", addr |-> PeerGone]
Progress ==
  [at : {"rest", "add", "unretire", "retire", "remove", "collect", "drop", "look"},
   snap : [Peers -> Places], drop : SUBSET Peers, look : SUBSET Peers,
   name : Names, addr : Places, old : Places]
Records == [fails : 0..PeerFailures, state : {"closed", "tripped", "lapsed"}]
Fetches == [at : {"idle", "gate", "slot", "client", "rpc", "parked"}, addr : Places]

PeerInit ==
  /\ peerPlan \in PeerPlans
  /\ view = [n \in Peers |-> PeerGone] /\ changes = peerPlan.changes
  /\ peers = view /\ retired = {}
  /\ job = [j \in Jobs |-> AtRest]
  /\ breaker = [a \in Addrs |-> Healthy]
  /\ slots = 0 /\ fetch = [f \in PeerFetchers |-> NotFetching]

LiveIn(v) == {n \in Peers : v[n] # PeerGone}

-----------------------------------------------------------------------------
(* The ring.                                                               *)

\* Mutant: the key's hash picks by the number of nodes.
RingByCount(names, h) ==
  CHOOSE n \in names :
    Cardinality({m \in names : Min(Positions[m]) < Min(Positions[n])}) = h % Cardinality(names)

\* ring.get over the virtual nodes of a set of names: the first position at
\* or after the key's hash, or the first of all.
RingGet(names, h) ==
  LET all == UNION {Positions[n] : n \in names}
      after == {p \in all : p >= h}
      p == Min(IF after # {} THEN after ELSE all)
  IN CHOOSE n \in names : p \in Positions[n]

RingNames == LiveIn(peers) \union {Self}

\* Owner: the local node's own entry never leaves the table.
Owner(h) == RingGet(RingNames, h)

-----------------------------------------------------------------------------
(* memberlist, and the goroutines that keep the table.                     *)

SetJob(j, r) == job' = [job EXCEPT ![j] = r]

\* A peer joins, leaves or restarts elsewhere; the event reaches the delegate
\* or is lost.
Change(n, a) ==
  /\ n \in peerPlan.names /\ changes > 0 /\ job["event"].at = "rest" /\ view[n] # a
  /\ a # PeerGone => \A m \in Peers \ {n} : view[m] # a
  /\ view' = [view EXCEPT ![n] = a]
  /\ changes' = changes - 1
  /\ \/ /\ SetJob("event", [AtRest EXCEPT !.at = IF a = PeerGone THEN "remove" ELSE "add",
                                           !.name = n, !.addr = a])
     \/ peerPlan.lossy /\ UNCHANGED job
  /\ UNCHANGED <<peerPlan, peers, retired, fetcherVars>>

\* addPeer, under the mutex: the table and the ring at once.
AddPeer(j) ==
  /\ job[j].at = "add"
  /\ peers' = [peers EXCEPT ![job[j].name] = job[j].addr]
  /\ SetJob(j, [job[j] EXCEPT !.at = "unretire", !.old = peers[job[j].name]])
  /\ UNCHANGED <<peerPlan, view, changes, retired, fetcherVars>>

\* What a goroutine does after it has added or removed a peer.
After(j) ==
  IF j = "event" THEN AtRest
  ELSE [job[j] EXCEPT !.at = IF @ = "remove" \/ job[j].addr = PeerGone THEN "drop" ELSE "look",
                      !.name = Self, !.addr = PeerGone, !.old = PeerGone]

\* addPeer, after it: the address is current, and the old one is not.
Unretire(j) ==
  /\ job[j].at = "unretire"
  /\ retired' = retired \ {job[j].addr}
  /\ IF job[j].old \notin {PeerGone, job[j].addr}
     THEN SetJob(j, [job[j] EXCEPT !.at = "retire"]) ELSE SetJob(j, After(j))
  /\ UNCHANGED <<peerPlan, view, changes, peers, fetcherVars>>

\* RetireAddress: the mark, which also takes the cached client away.
Retire(j) ==
  /\ job[j].at = "retire"
  /\ retired' = retired \union {job[j].old}
  /\ SetJob(j, After(j))
  /\ UNCHANGED <<peerPlan, view, changes, peers, fetcherVars>>

\* removePeer, under the mutex.
RemovePeer(j) ==
  /\ job[j].at = "remove"
  /\ peers' = [peers EXCEPT ![job[j].name] = PeerGone]
  /\ IF peers[job[j].name] = PeerGone THEN SetJob(j, After(j))
     ELSE SetJob(j, [job[j] EXCEPT !.at = "retire", !.old = peers[job[j].name]])
  /\ UNCHANGED <<peerPlan, view, changes, retired, fetcherVars>>

\* reconcileOnce takes the members, removes the entries that are not among
\* them and looks at each member.
BeginReconcile ==
  /\ peerPlan.passes /\ job["reconcile"].at = "rest" /\ job["event"].at = "rest"
  /\ SetJob("reconcile", [AtRest EXCEPT !.at = "collect", !.snap = view, !.look = LiveIn(view)])
  /\ UNCHANGED <<peerPlan, view, changes, peers, retired, fetcherVars>>

\* MergeRemoteState takes the members, adds those the table lacks if the
\* remote digest differs, and then removes the entries that are not among
\* them.
BeginMerge ==
  /\ peerPlan.merges
  /\ job["merge"].at = "rest" /\ job["event"].at = "rest"
  /\ \E differs \in BOOLEAN :
       SetJob("merge", [AtRest EXCEPT !.at = IF differs THEN "look" ELSE "collect",
                                      !.snap = view,
                                      !.look = IF differs THEN LiveIn(view) ELSE {}])
  /\ UNCHANGED <<peerPlan, view, changes, peers, retired, fetcherVars>>

\* pruneStalePeers collects under the read lock and removes after it.
Collect(j) ==
  /\ job[j].at = "collect"
  /\ SetJob(j, [job[j] EXCEPT !.at = "drop", !.drop = LiveIn(peers) \ LiveIn(job[j].snap)])
  /\ UNCHANGED <<peerPlan, view, changes, peers, retired, fetcherVars>>

NextDrop(j) ==
  /\ job[j].at = "drop"
  /\ \/ \E n \in job[j].drop :
          SetJob(j, [job[j] EXCEPT !.at = "remove", !.name = n, !.drop = @ \ {n}])
     \/ /\ job[j].drop = {}
        /\ SetJob(j, IF job[j].look # {} THEN [job[j] EXCEPT !.at = "look"] ELSE AtRest)
  /\ UNCHANGED <<peerPlan, view, changes, peers, retired, fetcherVars>>

\* A member is added if the table lacks it and, by the reconcile pass, if its
\* address differs.
Needs(j, n) ==
  IF j = "merge" THEN peers[n] = PeerGone ELSE peers[n] # job[j].snap[n]

NextLook(j) ==
  /\ job[j].at = "look"
  /\ \/ \E n \in job[j].look :
          SetJob(j, IF Needs(j, n)
                    THEN [job[j] EXCEPT !.at = "add", !.name = n, !.addr = job[j].snap[n],
                                        !.look = @ \ {n}]
                    ELSE [job[j] EXCEPT !.look = @ \ {n}])
     \/ /\ job[j].look = {}
        /\ SetJob(j, IF j = "merge" THEN [job[j] EXCEPT !.at = "collect"] ELSE AtRest)
  /\ UNCHANGED <<peerPlan, view, changes, peers, retired, fetcherVars>>

JobStep(j) ==
  \/ AddPeer(j) \/ Unretire(j) \/ Retire(j) \/ RemovePeer(j)
  \/ Collect(j) \/ NextDrop(j) \/ NextLook(j)

-----------------------------------------------------------------------------
(* Fetches.                                                                *)

SetFetch(f, r) == fetch' = [fetch EXCEPT ![f] = r]
Holding == {f \in PeerFetchers : fetch[f].at \in {"client", "rpc", "parked"}}

\* The owner of some key is a peer: ask it.
BeginFetch(f) ==
  /\ peerPlan.fetches /\ fetch[f].at = "idle"
  /\ \E h \in KeyHashes :
       /\ Owner(h) # Self
       /\ SetFetch(f, [at |-> "gate", addr |-> peers[Owner(h)]])
  /\ UNCHANGED <<peerPlan, memberVars, breaker, slots>>

\* breakerAllowed: a cooldown that has lapsed is cleared, its count is kept.
PeerGate(f) ==
  LET b == breaker[fetch[f].addr] IN
  /\ fetch[f].at = "gate"
  /\ \/ /\ b.state = "tripped"
        /\ SetFetch(f, NotFetching) /\ UNCHANGED breaker
     \/ /\ b.state # "tripped"
        /\ SetFetch(f, [fetch[f] EXCEPT !.at = "slot"])
        /\ breaker' = [breaker EXCEPT ![fetch[f].addr].state = "closed"]
  /\ UNCHANGED <<peerPlan, memberVars, slots>>

\* acquireSlot: a slot, or the wait ends (its timer, the caller's context).
AcquireSlot(f) ==
  /\ fetch[f].at = "slot" /\ slots < FetchSlots
  /\ slots' = slots + 1
  /\ SetFetch(f, [fetch[f] EXCEPT !.at = "client"])
  /\ UNCHANGED <<peerPlan, memberVars, breaker>>

\* Mutant: the wait for a slot has no bound.
WaitOn(f) ==
  /\ fetch[f].at = "slot" /\ slots = FetchSlots
  /\ UNCHANGED peerVars

Shed(f) ==
  /\ fetch[f].at = "slot" /\ slots = FetchSlots
  /\ SetFetch(f, NotFetching)
  /\ UNCHANGED <<peerPlan, memberVars, breaker, slots>>

\* getPipelineClient and its Dial: a client of a retired address is never one
\* from the cache, and its dial is parked until the call times out.
GetClient(f) ==
  /\ fetch[f].at = "client"
  /\ SetFetch(f, [fetch[f] EXCEPT !.at = IF fetch[f].addr \in retired THEN "parked" ELSE "rpc"])
  /\ UNCHANGED <<peerPlan, memberVars, breaker, slots>>

\* recordPeerFailure: the count is capped here at the threshold.
RecordPeerFailure(a) ==
  LET n == Min({PeerFailures, breaker[a].fails + 1}) IN
  [breaker EXCEPT ![a] =
     [fails |-> n,
      state |-> IF n >= PeerFailures /\ @.state = "closed" THEN "tripped" ELSE @.state]]

\* recordPeerSuccess.
RecordPeerSuccess(a) == [breaker EXCEPT ![a] = Healthy]

\* A call is answered if it was dialed and a peer lives at the address.
PeerAnswered(f) == fetch[f].at = "rpc" /\ \E n \in Peers : view[n] = fetch[f].addr

\* pipelineDo returns: an answer, a failure, or the caller's own end.
RpcEnds(f) ==
  LET a == fetch[f].addr IN
  /\ fetch[f].at \in {"rpc", "parked"}
  /\ \/ PeerAnswered(f) /\ breaker' = RecordPeerSuccess(a)
     \/ ~PeerAnswered(f) /\ breaker' = RecordPeerFailure(a)
     \/ UNCHANGED breaker
  /\ slots' = slots - 1
  /\ SetFetch(f, NotFetching)
  /\ UNCHANGED <<peerPlan, memberVars>>

\* The cooldown of an address lapses.
Lapse(a) ==
  /\ breaker[a].state = "tripped"
  /\ breaker' = [breaker EXCEPT ![a].state = "lapsed"]
  /\ UNCHANGED <<peerPlan, memberVars, slots, fetch>>

FetchStep(f) == PeerGate(f) \/ AcquireSlot(f) \/ Shed(f) \/ GetClient(f) \/ RpcEnds(f)

-----------------------------------------------------------------------------
PeerNext ==
  \/ \E n \in Peers, a \in Places : Change(n, a)
  \/ \E j \in Jobs : JobStep(j)
  \/ BeginReconcile \/ BeginMerge
  \/ \E f \in PeerFetchers : BeginFetch(f) \/ FetchStep(f)
  \/ \E a \in Addrs : Lapse(a)

PeerSpec == PeerInit /\ [][PeerNext]_peerVars

\* Goroutines run, the reconcile ticker ticks, every wait has a timer.
PeerFairness ==
  /\ \A j \in Jobs : WF_peerVars(JobStep(j))
  /\ WF_peerVars(BeginReconcile)
  /\ \A f \in PeerFetchers : WF_peerVars(FetchStep(f))
  /\ \A a \in Addrs : WF_peerVars(Lapse(a))

-----------------------------------------------------------------------------
(* Properties.                                                             *)

PeerTypeOK ==
  /\ peerPlan \in PeerPlans /\ changes \in Nat
  /\ view \in [Peers -> Places] /\ peers \in [Peers -> Places]
  /\ retired \subseteq Addrs
  /\ job \in [Jobs -> Progress]
  /\ breaker \in [Addrs -> Records]
  /\ slots \in 0..FetchSlots
  /\ fetch \in [PeerFetchers -> Fetches]

\* However memberlist's events are lost, delayed or overtaken by a merge or a
\* reconcile pass that works from an older snapshot, the ring becomes
\* memberlist's view and stays so once membership is quiet (reconcileOnce:
\* "self-heals the local peer set from memberlist's live member view"): in
\* the end it holds for ever.
RingConverged == peers = view

\* The ring is consistent: when its names change, a key moves only to a node
\* that came or from a node that went.
MinimalMovement ==
  [][\A h \in KeyHashes :
       Owner(h) # Owner(h)' => \/ Owner(h)' \notin RingNames
                               \/ Owner(h) \notin RingNames']_peerVars

\* The slots taken are those of the fetches that hold one, on every way out
\* of Fetch.
SlotsAreHeld == slots = Cardinality(Holding)

\* A dead address keeps its record: neither a cooldown that lapses nor a
\* probe that is shed or abandoned clears it, only an answer from the address
\* does, so the next failure blacklists it again at once (breakerAllowed:
\* "the retained consecutive count re-trips the breaker immediately").
OnlyAnswersHeal ==
  [][\A a \in Addrs :
       (breaker[a] # Healthy /\ breaker'[a] = Healthy)
          => \E f \in PeerFetchers : PeerAnswered(f) /\ fetch[f].addr = a]_peerVars

\* Every fetch ends, whatever the peer does.  It holds again and again.
FetchOver(f) == fetch[f].at = "idle"

\* The address of a peer that is in the ring and alive is dialed in the end:
\* it is not retired for good ("a peer that comes back at the same address
\* keeps working", addPeer).  It does not hold: pruning a peer retires an
\* address that another live peer has taken over.
CurrentIsDialed ==
  \A n \in Peers : []<>(peers[n] = PeerGone \/ peers[n] \notin retired)
=============================================================================
