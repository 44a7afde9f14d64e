---------------------------- MODULE TieredStore -----------------------------
(***************************************************************************)
(* The store as its callers see it: the hot tier in memory over the warm   *)
(* tier on disk, the queues through which a removal from the one reaches   *)
(* the other, the sync loop that copies hot entries down, the promotion    *)
(* that copies them up, and the bans both tiers obey.                      *)
(*                                                                         *)
(* Sources: internal/storage/tiered.go, hot.go and, through BanList,       *)
(* bans.go; warm/warm.go as an index of keys (its files, the log and       *)
(* recovery are WarmRecovery's).                                           *)
(*                                                                         *)
(* Every action is one critical section: of the hot shard's lock, of the   *)
(* warm index's, or of the ban list's.  Sizes are left out, so under       *)
(* pressure any entries may be the victims that make room.  Keys share one *)
(* shard.  The object a key holds is known by the instant it was stored at.*)
(***************************************************************************)
EXTENDS BanList, FiniteSets

CONSTANTS
  Keys,
  Clients,          \* goroutines that call the store
  Syncer,           \* warmSyncLoop
  Reaper,           \* reaperLoop
  Nobody,
  TagsOf,           \* the patterns the objects of a key match
  Plans,            \* what may happen in a run, see below
  QueueCap,         \* keys a queue holds
  InlineEvictCap,   \* victims a Put evicts under the shard's lock
  FallbackEvery,    \* the sync cycles between two full scans
  ObjectTTL         \* how long an object may be served

Threads == Clients \union {Syncer}

\* A plan bounds the calls of each operation and the passes of the reaper;
\* names the callers, the keys they use and the patterns they ban, with a
\* CreatedAt or without; and says whether the tiers are short of room, whether
\* the sync loop is configured, and which keys the warm tier holds from before
\* the start, readable or not.
AllPlans ==
  [puts : Nat, gets : Nat, deletes : Nat, bans : Nat, reaps : Nat,
   callers : SUBSET Clients, keys : SUBSET Keys, patterns : SUBSET Patterns, dated : BOOLEAN,
   tight : BOOLEAN, syncs : BOOLEAN, loaded : SUBSET Keys, legacy : SUBSET Keys]

ASSUME TieredStoreAssumption ==
  /\ Syncer \notin Clients /\ Nobody # Reaper /\ {Nobody, Reaper} \intersect Threads = {}
  /\ TagsOf \in [Keys -> SUBSET Patterns]
  /\ Plans \subseteq AllPlans
  /\ {QueueCap, InlineEvictCap, FallbackEvery, ObjectTTL} \subseteq Nat \ {0}

VARIABLES
  plan,
  calls,        \* the calls and the passes the plan still allows
  hot,          \* key -> entry, or NoEntry
  warm,         \* key -> entry of the warm index, or NoCopy
  tombstones,   \* tombstoneQueue
  demotions,    \* warmUnprotectQueue
  overshoot,    \* the sweeper has a signal pending
  banMu,        \* the holder of the ban list's mutex
  op,           \* what each goroutine is doing
  cycle,        \* warmSyncCycleCount
  reaper,       \* where the reaper's pass is
  reapAt,       \* the instant its pass began
  scanned,      \* lastBanScan is set
  excused       \* ghost: keys whose copy may stay protected for ever

tiers == <<hot, warm>>
queues == <<tombstones, demotions, overshoot, excused>>
vars == <<now, banVars, plan, calls, tiers, queues, banMu, op, cycle, reaper, reapAt, scanned>>

\* An entry's ptr is the address of its object: an address is used again
\* only when nothing refers to it.
Addresses == 1..(Cardinality(Keys) + Cardinality(Threads))
NoEntry == [ptr |-> 0, at |-> 0, backed |-> FALSE]
Entries == [ptr : Addresses, at : Nat, backed : BOOLEAN]
NoCopy == [at |-> 0, prot |-> FALSE, readable |-> FALSE]
Copies == [at : Nat, prot : BOOLEAN, readable : BOOLEAN]

Steps ==
  {"idle", "store", "fit", "insert", "mark", "protect",
   "lookup", "load", "decide", "rebuild", "reload", "evict", "read", "promote", "undo", "served",
   "removeHot", "removeWarm", "lock", "register", "scan"}

\* What a goroutine holds: its key, or the pattern and the instants of its
\* ban; an object and its address, the tier it came from, the snapshot it
\* loaded, the keys left to sync; and, ghosts of a Get, the bans listed since
\* it began, whether they were compiled then, and whether nobody else has had
\* the mutex since.
Idle ==
  [step |-> "idle", key |-> Nobody, pat |-> Nobody, big |-> FALSE, at |-> 0, created |-> 0, ptr |-> 0,
   tier |-> "none", view |-> {}, todo |-> {}, since |-> {}, compiled |-> FALSE, alone |-> FALSE]

TypeOK ==
  /\ BansTypeOK
  /\ plan \in Plans
  /\ calls \in [{"puts", "gets", "deletes", "bans", "reaps"} -> Nat]
  /\ hot \in [Keys -> Entries \union {NoEntry}]
  /\ warm \in [Keys -> Copies \union {NoCopy}]
  /\ tombstones \in Seq(Keys) /\ Len(tombstones) <= QueueCap
  /\ demotions \in Seq(Keys) /\ Len(demotions) <= QueueCap
  /\ {overshoot, scanned} \subseteq BOOLEAN
  /\ reaper \in {"idle", "bans", "shard"} /\ reapAt \in Nat
  /\ banMu \in Threads \union {Reaper, Nobody}
  /\ \A t \in Threads :
       /\ DOMAIN op[t] = DOMAIN Idle
       /\ op[t].step \in Steps
       /\ op[t].key \in Keys \union {Nobody} /\ op[t].pat \in Patterns \union {Nobody}
       /\ op[t].at \in Nat /\ op[t].ptr \in Addresses \union {0}
       /\ op[t].todo \subseteq Keys
  /\ cycle \in 0..(FallbackEvery - 1)
  /\ excused \subseteq Keys

\* Objects of the warm tier from before the start carry the first instant.
Init ==
  /\ BansInit
  /\ plan \in Plans
  /\ calls = [c \in {"puts", "gets", "deletes", "bans", "reaps"} |-> plan[c]]
  /\ hot = [k \in Keys |-> NoEntry]
  /\ warm = [k \in Keys |->
               IF k \in plan.loaded \union plan.legacy
               THEN [at |-> 1, prot |-> FALSE, readable |-> k \in plan.loaded]
               ELSE NoCopy]
  /\ tombstones = <<>> /\ demotions = <<>> /\ overshoot = FALSE /\ excused = {}
  /\ banMu = Nobody /\ scanned = FALSE
  /\ op = [t \in Threads |-> Idle]
  /\ cycle = 0
  /\ reaper = "idle" /\ reapAt = 0

InHot == {k \in Keys : hot[k] # NoEntry}
InWarm == {k \in Keys : warm[k] # NoCopy}

FreshPtr ==
  CHOOSE a \in Addresses :
    a \notin {hot[k].ptr : k \in Keys} \union {op[t].ptr : t \in Threads}

Spend(c) == calls[c] > 0 /\ calls' = [calls EXCEPT ![c] = @ - 1]
Set(t, r) == op' = [op EXCEPT ![t] = r]
Goto(t, s) == Set(t, [op[t] EXCEPT !.step = s])
\* The end of a call, or of a key of the sync cycle.
Done(t) == Set(t, [Idle EXCEPT !.todo = op[t].todo])

\* Non-blocking sends to a queue: what there is room for, and the rest.
Sent(q, s) ==
  SubSeq(q \o s, 1, IF Len(q) + Len(s) < QueueCap THEN Len(q) + Len(s) ELSE QueueCap)
Unsent(q, s) == SubSeq(s, QueueCap - Len(q) + 1, Len(s))

\* A goroutine is about to back k: it has an object of k that is or was hot,
\* and has yet to protect the warm copy.
Backing(k) ==
  \E t \in Threads :
    /\ op[t].key = k
    /\ op[t].step \in {"fit", "insert", "mark", "protect"} \/ (t = Syncer /\ op[t].tier = "hot")

\* notifyEvict, for the entries the eviction policy takes out of the shard
\* and for those removed for another reason, and the callbacks it makes: only
\* a backed entry's key is sent, a policy victim's to the demotions, or to
\* the tombstones if these are full.  (Of hot, the primed value is given.)
NotifyEvict(sieved, dropped) ==
  \E s \in SetToSeqs({k \in sieved : hot[k].backed}),
     d \in SetToSeqs({k \in dropped : hot[k].backed}) :
    LET sent == Unsent(demotions, s) \o d
    IN /\ demotions' = Sent(demotions, s)
       /\ tombstones' = Sent(tombstones, sent)
       /\ excused' = excused \union Range(Unsent(tombstones, sent))
            \union {k \in InHot : hot'[k] # hot[k] /\ Backing(k)}

Drop(gone) ==
  /\ hot' = [k \in Keys |-> IF k \in gone THEN NoEntry ELSE hot[k]]
  /\ NotifyEvict({}, gone)
  /\ UNCHANGED <<warm, overshoot>>

bans == <<now, banVars, banMu, scanned>>
loops == <<plan, cycle, reaper, reapAt>>

-----------------------------------------------------------------------------
(* Put, and the backing of a hot entry by the sync cycle.                  *)

\* An object is built, and stored later.
BeginPut(t) ==
  /\ op[t] = Idle
  /\ Spend("puts")
  /\ now' = now + 1
  /\ \E k \in plan.keys, big \in BOOLEAN :
       Set(t, [Idle EXCEPT !.step = "store", !.key = k, !.big = big, !.at = now + 1])
  /\ UNCHANGED <<banVars, banMu, scanned, tiers, queues, loops>>

\* putStored, for a Put and for the promotion of a Get.  The victims may
\* include the key's own old entry.
HotPut(t) ==
  /\ op[t].step \in {"store", "promote"}
  /\ \E victims \in SUBSET InHot, over \in BOOLEAN :
       /\ Cardinality(victims) <= InlineEvictCap
       /\ plan.tight \/ (victims = {} /\ ~over)
       /\ hot' = [k \in Keys |->
                    IF k = op[t].key THEN [ptr |-> FreshPtr, at |-> op[t].at, backed |-> FALSE]
                    ELSE IF k \in victims THEN NoEntry ELSE hot[k]]
       /\ NotifyEvict(victims, {op[t].key} \ victims)
       /\ overshoot' = (overshoot \/ over)
  /\ IF op[t].step = "promote" THEN Goto(t, "load")
     ELSE IF op[t].big THEN Goto(t, "fit") ELSE Done(t)
  /\ UNCHANGED <<bans, calls, warm, loops>>

\* ensureBudgetLocked: unprotected victims make room, each losing its flag in
\* the hot tier under the same lock, or the write is given up, and with it
\* the rest of a sync cycle.
WarmFit(t) ==
  /\ op[t].step = "fit"
  /\ \E victims \in SUBSET {k \in InWarm : ~warm[k].prot} :
       /\ plan.tight \/ victims = {}
       /\ warm' = [k \in Keys |-> IF k \in victims THEN NoCopy ELSE warm[k]]
       /\ hot' = [k \in Keys |-> IF k \in victims THEN [hot[k] EXCEPT !.backed = FALSE] ELSE hot[k]]
  /\ Goto(t, "insert") \/ (plan.tight /\ Set(t, Idle))
  /\ UNCHANGED <<bans, calls, queues, loops>>

\* An overwritten copy is no longer protected.
WarmInsert(t) ==
  /\ op[t].step = "insert"
  /\ warm' = [warm EXCEPT ![op[t].key] = [at |-> op[t].at, prot |-> FALSE, readable |-> TRUE]]
  /\ Goto(t, "mark")
  /\ UNCHANGED <<bans, calls, hot, queues, loops>>

SetBacked(t) ==
  /\ op[t].step = "mark"
  /\ hot' = [hot EXCEPT ![op[t].key].backed = op[t].key \in InHot]
  /\ Goto(t, "protect")
  /\ UNCHANGED <<bans, calls, warm, queues, loops>>

Protect(t) ==
  /\ op[t].step = "protect"
  /\ warm' = [warm EXCEPT ![op[t].key].prot = op[t].key \in InWarm]
  /\ Done(t)
  /\ UNCHANGED <<bans, calls, hot, queues, loops>>

-----------------------------------------------------------------------------
(* Get, and the read of a hot entry by the sync cycle.                     *)

BeginGet(t) ==
  /\ op[t] = Idle
  /\ Spend("gets")
  /\ \E k \in plan.keys :
       Set(t, [Idle EXCEPT !.step = "lookup", !.key = k, !.since = Compile(list, ban, now),
                           !.compiled = ~dirty, !.alone = (banMu = Nobody)])
  /\ UNCHANGED <<bans, tiers, queues, loops>>

\* The entry is read under the shard's lock, judged after it.
HotLookup(t) ==
  LET e == hot[op[t].key]
  IN /\ op[t].step = "lookup"
     /\ IF e # NoEntry
        THEN Set(t, [op[t] EXCEPT !.step = "load", !.at = e.at, !.ptr = e.ptr, !.tier = "hot"])
        ELSE IF t = Syncer THEN Done(t) ELSE Goto(t, "read")
     /\ UNCHANGED <<bans, calls, tiers, queues, loops>>

\* Mutant: a copy promoted from the warm tier is served without asking.
VerdictOnHot(t, view) ==
  LET tags == TagsOf[op[t].key]
      banned == SnapMatches(view, tags, op[t].at) \/ SurrMatches(tags, op[t].at)
  IN Goto(t, IF banned /\ op[t].tier = "hot" THEN "evict" ELSE IF t = Syncer THEN "fit" ELSE "served")

\* banListState.matches with the snapshot in hand, and where it leads.
Verdict(t, view) ==
  LET tags == TagsOf[op[t].key]
      banned == SnapMatches(view, tags, op[t].at) \/ SurrMatches(tags, op[t].at)
  IN Goto(t, CASE banned /\ op[t].tier = "hot" -> "evict"
               [] banned /\ op[t].tier = "warm" -> "undo"
               [] ~banned /\ t = Syncer -> "fit"
               [] OTHER -> "served")

\* snapshot: the published one is loaded first, the dirty flag after it.
LoadSnapshot(t) ==
  /\ op[t].step = "load"
  /\ Set(t, [op[t] EXCEPT !.step = "decide", !.view = snap])
  /\ UNCHANGED <<bans, calls, tiers, queues, loops>>

\* t takes the mutex of the bans, and is not alone with them any more.
Take(t, s) ==
  /\ banMu = Nobody /\ banMu' = t
  /\ op' = [u \in Threads |-> IF u = t THEN [op[u] EXCEPT !.step = s]
                                       ELSE [op[u] EXCEPT !.alone = FALSE]]

\* A clean snapshot is used; of those that find it dirty one rebuilds it, and
\* the others (TryLock) do not wait.
CheckDirty(t) ==
  /\ op[t].step = "decide"
  /\ \/ ~dirty /\ Verdict(t, op[t].view) /\ UNCHANGED banMu
     \/ dirty /\ banMu # Nobody /\ Goto(t, "reload") /\ UNCHANGED banMu
     \/ dirty /\ Take(t, "rebuild")
  /\ UNCHANGED <<now, banVars, scanned, calls, tiers, queues, loops>>

Rebuild(t) ==
  /\ op[t].step = "rebuild"
  /\ RebuildIfDirty
  /\ banMu' = Nobody
  /\ Goto(t, "reload")
  /\ UNCHANGED <<now, scanned, calls, tiers, queues, loops>>

ReloadSnapshot(t) ==
  /\ op[t].step = "reload"
  /\ Verdict(t, snap)
  /\ UNCHANGED <<bans, calls, tiers, queues, loops>>

\* evictBanned: only the entry that was judged is removed.  To TieredStore.Get
\* it is a miss of the hot tier.
EvictBanned(t) ==
  LET k == op[t].key
  IN /\ op[t].step = "evict"
     /\ Drop(IF hot[k].ptr = op[t].ptr THEN {k} ELSE {})
     /\ IF t = Syncer THEN Done(t) ELSE Goto(t, "read")
     /\ UNCHANGED <<bans, calls, loops>>

\* A blob that cannot be decoded is deleted by its key, a later step.
WarmRead(t) ==
  LET c == warm[op[t].key]
  IN /\ op[t].step = "read"
     /\ \/ c = NoCopy /\ Done(t)
        \/ c # NoCopy /\ ~c.readable /\ Goto(t, "removeWarm")
        \/ c.readable /\ Set(t, [op[t] EXCEPT !.step = "promote", !.at = c.at, !.tier = "warm"])
     /\ UNCHANGED <<bans, calls, tiers, queues, loops>>

\* The promoted object turns out to be banned: Delete of the hot tier.
UndoPromotion(t) ==
  /\ op[t].step = "undo"
  /\ Drop({op[t].key})
  /\ Done(t)
  /\ UNCHANGED <<bans, calls, loops>>

ReturnHit(t) ==
  /\ op[t].step = "served"
  /\ Done(t)
  /\ UNCHANGED <<bans, calls, tiers, queues, loops>>

-----------------------------------------------------------------------------
(* Delete and Ban.                                                         *)

BeginDelete(t) ==
  /\ op[t] = Idle
  /\ Spend("deletes")
  /\ \E k \in plan.keys : Set(t, [Idle EXCEPT !.step = "removeHot", !.key = k])
  /\ UNCHANGED <<bans, tiers, queues, loops>>

HotDelete(t) ==
  /\ op[t].step = "removeHot"
  /\ Drop({op[t].key})
  /\ Goto(t, "removeWarm")
  /\ UNCHANGED <<bans, calls, loops>>

WarmDelete(t) ==
  /\ op[t].step = "removeWarm"
  /\ warm' = [warm EXCEPT ![op[t].key] = NoCopy]
  /\ Done(t)
  /\ UNCHANGED <<bans, calls, hot, queues, loops>>

\* registerBan: without a CreatedAt, the instant is read before the mutex.
BeginBan(t) ==
  /\ op[t] = Idle
  /\ Spend("bans")
  /\ \E p \in plan.patterns, at \in {Unset} \union (IF plan.dated THEN 1..now ELSE {}) :
       Set(t, [Idle EXCEPT !.step = "lock", !.pat = p, !.at = at,
                           !.created = IF at = Unset THEN now ELSE at])
  /\ UNCHANGED <<bans, tiers, queues, loops>>

BanLock(t) ==
  /\ op[t].step = "lock"
  /\ Take(t, "register")
  /\ UNCHANGED <<now, banVars, scanned, calls, tiers, queues, loops>>

\* Ghost: a ban that left the list or was issued again is owed to no Get.
StillListed(o) ==
  [o EXCEPT !.since = {b \in @ : ban'[b.pat] = [created |-> b.exempt, predAt |-> b.predAt]}]

\* A surrogate ban needs no scan.
BanRegister(t) ==
  /\ op[t].step = "register"
  /\ Register(op[t].pat, op[t].at, op[t].created)
  /\ banMu' = Nobody
  /\ op' = [u \in Threads |->
              IF u # t THEN StillListed(op[u])
              ELSE IF IsSurrogate(op[t].pat) THEN Idle ELSE [op[t] EXCEPT !.step = "scan"]]
  /\ UNCHANGED <<now, scanned, calls, tiers, queues, loops>>

\* The eager scan (of the one shard), unless there was one a moment ago.
BanScan(t) ==
  /\ op[t].step = "scan"
  /\ \/ scanned /\ UNCHANGED <<tiers, queues, scanned>>
     \/ /\ Drop({k \in InHot : op[t].pat \in TagsOf[k] /\ PredHolds(op[t].at, hot[k].at)})
        /\ scanned' = TRUE
  /\ Done(t)
  /\ UNCHANGED <<now, banVars, banMu, calls, loops>>

-----------------------------------------------------------------------------
(* The background goroutines.                                              *)

\* drainTombstones, drainWarmUnprotects: of the drain loop and of every sync
\* cycle, a key at a time.
DrainTombstone ==
  /\ tombstones # <<>>
  /\ warm' = [warm EXCEPT ![Head(tombstones)] = NoCopy]
  /\ tombstones' = Tail(tombstones)
  /\ UNCHANGED <<bans, calls, hot, demotions, overshoot, excused, op, loops>>

DrainUnprotect ==
  /\ demotions # <<>>
  /\ warm' = [warm EXCEPT ![Head(demotions)].prot = FALSE]
  /\ demotions' = Tail(demotions)
  /\ UNCHANGED <<bans, calls, hot, tombstones, overshoot, excused, op, loops>>

\* Mutant: every cycle trusts the flags of the hot entries.
CollectUnbacked ==
  /\ plan.syncs /\ op[Syncer] = Idle
  /\ cycle' = (cycle + 1) % FallbackEvery
  /\ Set(Syncer, [Idle EXCEPT !.todo = {k \in InHot : ~hot[k].backed}])
  /\ UNCHANGED <<bans, calls, tiers, queues, plan, reaper, reapAt>>

\* collectHotOnlyKeys of a cycle the warm tier has room for.  The batch holds
\* all the keys.
CollectHotOnlyKeys ==
  /\ plan.syncs /\ op[Syncer] = Idle
  /\ cycle' = (cycle + 1) % FallbackEvery
  /\ Set(Syncer, [Idle EXCEPT !.todo = IF cycle' = 0 THEN InHot \ InWarm
                                       ELSE {k \in InHot : ~hot[k].backed}])
  /\ UNCHANGED <<bans, calls, tiers, queues, plan, reaper, reapAt>>

\* writeHotOnlyToWarm takes the next key.
SyncNextKey ==
  /\ op[Syncer].step = "idle"
  /\ \E k \in op[Syncer].todo :
       Set(Syncer, [op[Syncer] EXCEPT !.step = "lookup", !.key = k, !.todo = @ \ {k}])
  /\ UNCHANGED <<bans, calls, tiers, queues, loops>>

Sweep ==
  /\ overshoot /\ overshoot' = FALSE
  /\ \E victims \in SUBSET InHot :
       /\ hot' = [k \in Keys |-> IF k \in victims THEN NoEntry ELSE hot[k]]
       /\ NotifyEvict(victims, {})
  /\ UNCHANGED <<bans, calls, warm, op, loops>>

\* reapExpired: the bans, under their mutex, and then the shard.  Time passes
\* between two passes.
BeginReap ==
  /\ reaper = "idle" /\ reaper' = "bans"
  /\ Spend("reaps")
  /\ banMu = Nobody /\ banMu' = Reaper
  /\ now' = now + 1 /\ reapAt' = now + 1
  /\ op' = [u \in Threads |-> [op[u] EXCEPT !.alone = FALSE]]
  /\ UNCHANGED <<banVars, scanned, tiers, queues, plan, cycle>>

ReapBans ==
  /\ reaper = "bans" /\ reaper' = "shard"
  /\ PruneExpired(reapAt)
  /\ banMu' = Nobody
  /\ op' = [u \in Threads |-> StillListed(op[u])]
  /\ UNCHANGED <<now, scanned, calls, tiers, queues, plan, cycle, reapAt>>

\* The scan's time may run out, and the grace gate may hold an entry.
ReapShard ==
  /\ reaper = "shard" /\ reaper' = "idle" /\ reapAt' = 0
  /\ \E gone \in SUBSET {k \in InHot : reapAt > hot[k].at + ObjectTTL} : Drop(gone)
  /\ UNCHANGED <<bans, calls, op, plan, cycle>>

-----------------------------------------------------------------------------

\* A store that nobody calls, and that has no sync loop, is at rest once every
\* call has returned and the queues are empty: anything else that stops is
\* stuck.
AtRest ==
  /\ ~plan.syncs /\ reaper = "idle" /\ ~overshoot
  /\ tombstones = <<>> /\ demotions = <<>>
  /\ \A t \in Threads : op[t] = Idle
  /\ UNCHANGED vars

Begin(t) == BeginPut(t) \/ BeginGet(t) \/ BeginDelete(t) \/ BeginBan(t)

Step(t) ==
  \/ HotPut(t) \/ WarmFit(t) \/ WarmInsert(t) \/ SetBacked(t) \/ Protect(t)
  \/ HotLookup(t) \/ LoadSnapshot(t) \/ CheckDirty(t) \/ Rebuild(t) \/ ReloadSnapshot(t)
  \/ EvictBanned(t) \/ WarmRead(t) \/ UndoPromotion(t) \/ ReturnHit(t)
  \/ HotDelete(t) \/ WarmDelete(t) \/ BanLock(t) \/ BanRegister(t) \/ BanScan(t)

Sync == CollectHotOnlyKeys \/ SyncNextKey
Reap == ReapBans \/ ReapShard

Next ==
  \/ \E t \in plan.callers : Begin(t)
  \/ \E t \in Threads : Step(t)
  \/ DrainTombstone \/ DrainUnprotect \/ Sync \/ Sweep \/ BeginReap \/ Reap
  \/ AtRest

\* Goroutines run, and the tickers of the drain and sync loops fire.  Nobody
\* has to call the store.
Fairness ==
  /\ \A t \in Threads : WF_vars(Step(t))
  /\ WF_vars(DrainTombstone) /\ WF_vars(DrainUnprotect)
  /\ WF_vars(Sync) /\ WF_vars(Sweep) /\ WF_vars(Reap)

Spec == Init /\ [][Next]_vars /\ Fairness

-----------------------------------------------------------------------------

\* No Get serves, from either tier, an object that a ban listed when the call
\* began invalidates, whatever Puts, promotions, prunes and bans race with it
\* (HotStore.Get, TieredStore.Get).  Bans of the surrogate set are owed to
\* every Get; those of the snapshot to every Get that began when it was clean
\* (a later rebuild never loses one), and to every Get that had the mutex to
\* itself: only the loser of a race for it may read what was there before.
BannedNeverServed ==
  \A t \in Clients :
    op[t].step = "served" =>
      LET owed == {b \in op[t].since :
                     /\ now < b.exempt + BanTTL
                     /\ IsSurrogate(b.pat) \/ op[t].compiled \/ op[t].alone}
      IN ~SnapMatches(owed, TagsOf[op[t].key], op[t].at)

\* A copy that warm eviction must skip has its hot entry, or a queue will
\* release it (notifyEvict, onEvict, onEvictDemoted), unless both queues were
\* full or the entry left while somebody was still backing it.
ProtectedAccounted ==
  \A k \in Keys :
    warm[k].prot =>
      k \in InHot \union Range(tombstones) \union Range(demotions) \union excused

\* What the comment of Protect says of every copy: protected, it has a live
\* hot entry; when that goes it is released, so none is stranded.
NoneStranded ==
  \A k \in Keys :
    warm[k].prot =>
      \/ k \in InHot \union Range(tombstones) \union Range(demotions)
      \/ \E t \in Threads : op[t].key = k

\* With a sync loop and room in both tiers every hot object reaches the warm tier in the end
\* and stays there, although an entry's flag may be wrong: a tombstone of the
\* version before deletes the copy of the version after, and leaves it marked.
\* The scan of every tenth cycle repairs that.
EventuallyMirrored == plan.syncs /\ ~plan.tight => <>[](InHot \subseteq InWarm)
=============================================================================
