------------------------------ MODULE HotShard ------------------------------
(***************************************************************************)
(* Inside the hot tier: shards of entries under a byte budget, the         *)
(* eviction list of each with its hand, the sweeper that finishes what a   *)
(* Put left over, and the slab the bodies live in.  TieredStore has what   *)
(* the tiers do to each other; here is what a shard keeps in step under    *)
(* its lock, and what happens to a body once that lock is released.        *)
(*                                                                         *)
(* Source: internal/storage/hot.go, sieve/sieve.go, cachaner/cachaner.go.  *)
(*                                                                         *)
(* An object is known by its version, the number of the Put that brought   *)
(* it.  What is done under one hold of a shard's lock is one step.  Which  *)
(* objects have expired at a pass of the reaper, and which of them it has  *)
(* the time for, is left open.  The two eviction policies are one list:    *)
(* under SIEVE the frequencies stay 0.                                     *)
(***************************************************************************)
EXTENDS SlabAllocator

CONSTANTS
  HotKeys,
  Shards,
  ShardOf,          \* the shard of each key
  HotCallers,
  PerShardMax,      \* maxBytes over the number of shards
  InlineEvictCap,
  MaxSweepProbes,
  MaxEvictSkips,
  MaxFreq,
  ShardPlans        \* what is configured and how often each call is made

ObjectOverhead == 504     \* of objSize, beyond the body
Workers == {"sweeper", "reaper"}
NilKey == "none"
NoEntry == [ver |-> 0, size |-> 0, body |-> [at |-> Heap, cap |-> 0], backed |-> FALSE]
NoBody == [at |-> Heap, bytes |-> 0]
Idle ==
  [pc |-> "idle", key |-> NilKey, obj |-> NoEntry, body |-> NoBody, frees |-> <<>>, over |-> FALSE]

ASSUME ShardAssumption ==
  /\ ShardOf \in [HotKeys -> Shards]
  /\ {PerShardMax, InlineEvictCap, MaxSweepProbes, MaxEvictSkips, MaxFreq} \subseteq Nat \ {0}
  /\ NilKey \notin HotKeys /\ HotCallers \intersect Workers = {}

VARIABLES
  hotPlan,
  callsLeft,        \* how many of the plan's calls are still to come
  shard,            \* entries, eviction list and counters of each shard
  signal,           \* evictSignal, a channel of shards
  call,             \* where each caller and each loop is
  bannedTo,         \* per key, the last version its lazy ban is about
  excused           \* shards over budget the sweeper was not told of, or gave up on

shardVars == <<slab, hotPlan, callsLeft, shard, signal, call, bannedTo, excused>>

\* list runs from its head to its tail, hand is NilKey for nil.
EmptyShard ==
  [ent |-> [k \in HotKeys |-> NoEntry], list |-> <<>>, hand |-> NilKey, visited |-> {},
   freq |-> [k \in HotKeys |-> 0], bytes |-> 0, backedCount |-> 0]

ShardTypeOK ==
  /\ SlabTypeOK
  /\ \A s \in Shards :
       /\ shard[s].list \in Seq(HotKeys)
       /\ shard[s].hand \in HotKeys \union {NilKey}
       /\ shard[s].visited \subseteq HotKeys
       /\ shard[s].freq \in [HotKeys -> 0..MaxFreq]
       /\ {shard[s].bytes, shard[s].backedCount} \subseteq Nat
  /\ signal \in Seq(Shards) /\ Len(signal) <= Cardinality(Shards)
  /\ \A c \in HotCallers \union Workers :
       call[c].pc \in {"idle", "store", "free", "signal", "slow", "check", "evict", "serve", "scan"}
  /\ bannedTo \in [HotKeys -> Nat] /\ excused \subseteq Shards

ShardInit ==
  /\ SlabInit
  /\ hotPlan \in ShardPlans
  /\ callsLeft = hotPlan.calls
  /\ shard = [s \in Shards |-> EmptyShard]
  /\ signal = <<>>
  /\ call = [c \in HotCallers \union Workers |-> Idle]
  /\ bannedTo = [k \in HotKeys |-> 0]
  /\ excused = {}

-----------------------------------------------------------------------------
(* The eviction list.                                                      *)

\* Prev, towards the head.
Before(s, k) ==
  LET i == SelectInSeq(s.list, LAMBDA x : x = k) IN IF i <= 1 THEN NilKey ELSE s.list[i - 1]

\* Remove, with the hand moved off the entry.
Unlink(s, k) ==
  [s EXCEPT !.hand = IF @ = k THEN Before(s, k) ELSE @, !.list = SelectSeq(@, LAMBDA x : x # k),
            !.visited = @ \ {k}, !.freq[k] = 0]

\* Access, of a key that is not in the list and of one that is.
PushHead(s, k) == [s EXCEPT !.list = <<k>> \o @]
MarkVisited(s, k) == [s EXCEPT !.visited = @ \union {k}]
Touch(s, k) ==
  LET up == IF hotPlan.policy = "cachaner" THEN Min({s.freq[k] + 1, MaxFreq}) ELSE s.freq[k]
  IN [MarkVisited(s, k) EXCEPT !.freq[k] = up]

\* EvictBounded: the hand goes towards the head, and from there to the tail.
\* A visited entry, and one with frequency left, is passed over once for it.
RECURSIVE EvictBounded(_, _)
EvictBounded(s, probes) ==
  LET cur == IF s.hand = NilKey THEN Last(s.list) ELSE s.hand
      prev == Before(s, cur)
      onward == IF prev = NilKey THEN Last(s.list) ELSE prev
  IN IF s.list = <<>> \/ probes = 0 THEN [s |-> s, key |-> NilKey]
     ELSE IF cur \in s.visited
          THEN EvictBounded([s EXCEPT !.visited = @ \ {cur}, !.hand = onward], probes - 1)
     ELSE IF s.freq[cur] > 0
          THEN EvictBounded([s EXCEPT !.freq[cur] = @ - 1, !.hand = onward], probes - 1)
     ELSE [s |-> Unlink([s EXCEPT !.hand = cur], cur), key |-> cur]

\* evictPreferBacked: an entry without a backup goes back to the head,
\* visited, as often as skips says; after that any entry will do.
RECURSIVE EvictPreferBacked(_, _)
EvictPreferBacked(s, skips) ==
  LET r == EvictBounded(s, MaxSweepProbes)
      held == r.key # NilKey /\ s.ent[r.key] # NoEntry
  IN IF s.backedCount = 0 \/ skips = 0 \/ r.key = NilKey THEN r
     ELSE IF held /\ s.ent[r.key].backed
          THEN [r EXCEPT !.s.backedCount = @ - 1]
     ELSE EvictPreferBacked(IF held THEN MarkVisited(PushHead(r.s, r.key), r.key) ELSE r.s, skips - 1)

-----------------------------------------------------------------------------
(* Entries.                                                                *)

\* objSize.
ObjSize(body) == body + ObjectOverhead

\* The entry leaves the map, its bytes the count, and notifyEvict collects
\* its body, if there is a slab to give it back to.
DropEntry(x, k) ==
  IF x.s.ent[k] = NoEntry THEN x
  ELSE [s     |-> [x.s EXCEPT !.ent[k] = NoEntry, !.bytes = @ - x.s.ent[k].size],
        frees |-> IF hotPlan.slab THEN Append(x.frees, x.s.ent[k].body) ELSE x.frees]

\* What Delete, banShard, reapShard and evictBanned do to an entry: they leave
\* backedCount as it is.
RemoveEntry(x, k) ==
  LET d == DropEntry(x, k)
  IN IF x.s.ent[k] = NoEntry THEN x ELSE [d EXCEPT !.s = Unlink(@, k)]

\* The loop of putStored and, without a cap and with nothing to add, of the
\* sweeper.
RECURSIVE EvictWhileOver(_, _, _)
EvictWhileOver(x, size, cap) ==
  LET r == EvictPreferBacked(x.s, MaxEvictSkips)
  IN IF cap = 0 \/ x.s.bytes + size <= PerShardMax \/ x.s.list = <<>> THEN x
     ELSE IF r.key = NilKey THEN [x EXCEPT !.s = r.s]
     ELSE EvictWhileOver(DropEntry([x EXCEPT !.s = r.s], r.key), size, cap - 1)

\* The overwrite and the insertion of putStored.
Replaced(x, k) ==
  LET r == RemoveEntry(x, k)
  IN [r EXCEPT !.s.backedCount = IF x.s.ent[k].backed THEN @ - 1 ELSE @]
Inserted(s, k, obj) ==
  MarkVisited(PushHead([s EXCEPT !.ent[k] = obj, !.bytes = @ + obj.size], k), k)

\* detachBody, under the lock: a body in a slot is copied to the heap.
BytesOf(at, ver) == IF at = Heap THEN ver ELSE BytesAt(at)
\* Mutant: the slot itself is handed out.
DetachAliased(obj) == [at |-> obj.body.at, bytes |-> obj.ver]
DetachBody(obj) == [at |-> Heap, bytes |-> BytesOf(obj.body.at, obj.ver)]

-----------------------------------------------------------------------------
(* The steps of a call.                                                    *)

ShardOfKey(k) == shard[ShardOf[k]]
Made(op) == callsLeft[op] > 0 /\ callsLeft' = [callsLeft EXCEPT ![op] = @ - 1]
Goto(c, rec) == call' = [call EXCEPT ![c] = rec]

\* What follows the hold of the lock: FreeBatch, then the signal.
Release(c, frees, over) ==
  LET next == [Idle EXCEPT !.key = call[c].key, !.frees = frees, !.over = over]
  IN Goto(c, IF frees # <<>> THEN [next EXCEPT !.pc = "free"]
             ELSE IF over THEN [next EXCEPT !.pc = "signal"] ELSE Idle)

\* A shard within its budget needs no excuse.
Excuse(s, new) ==
  excused' = IF shard'[s].bytes > PerShardMax THEN excused \union {x \in {s} : new} ELSE excused \ {s}

\* Put and PutOwned: the body goes to a slot, or stays on the heap.
HotPut(c, k, size, mapped) ==
  LET ver == hotPlan.calls.puts - callsLeft.puts + 1
      got == IF hotPlan.slab THEN Alloc(size, ver, mapped)
             ELSE [slab |-> slab, body |-> [at |-> Heap, cap |-> size]]
  IN /\ call[c] = Idle
     /\ Made("puts")
     /\ mapped \/ hotPlan.slab
     /\ slab' = got.slab
     /\ Goto(c, [Idle EXCEPT !.pc = "store", !.key = k,
                   !.obj = [ver |-> ver, size |-> ObjSize(size), body |-> got.body, backed |-> FALSE]])
     /\ UNCHANGED <<hotPlan, shard, signal, bannedTo, excused>>

\* putStored: room is made, at most InlineEvictCap entries' worth; the sweeper
\* is to finish what is still over, counted before the overwrite.
PutStored(c) ==
  LET k == call[c].key
  IN /\ call[c].pc = "store"
     /\ \E x \in {EvictWhileOver([s |-> ShardOfKey(k), frees |-> <<>>], call[c].obj.size, InlineEvictCap)} :
        \E y \in {Replaced(x, k)} :
          /\ shard' = [shard EXCEPT ![ShardOf[k]] = Inserted(y.s, k, call[c].obj)]
          /\ Release(c, y.frees, x.s.bytes + call[c].obj.size > PerShardMax)
     /\ Excuse(ShardOf[k], FALSE)
     /\ UNCHANGED <<slab, hotPlan, callsLeft, signal, bannedTo>>

\* FreeBatch, one class at a time, in ascending order.
FlushSlabFrees(c) ==
  LET groups == Classified(call[c].frees)
      used == {class \in SlabClasses : groups[class] # <<>>}
      class == Min(used)
      rest == SelectSeq(call[c].frees, LAMBDA b : ClassFromCap(b.cap) > class)
  IN /\ call[c].pc = "free"
     /\ IF used = {} THEN slab' = slab /\ Release(c, <<>>, call[c].over)
        ELSE slab' = [slab EXCEPT ![class] = FreeGroup(class, call[c].frees)]
             /\ Release(c, rest, call[c].over)
     /\ UNCHANGED <<hotPlan, callsLeft, shard, signal, bannedTo, excused>>

\* The send that never blocks.
SignalSweeper(c) ==
  LET s == ShardOf[call[c].key]
      full == Len(signal) = Cardinality(Shards)
  IN /\ call[c].pc = "signal"
     /\ signal' = IF full THEN signal ELSE Append(signal, s)
     /\ Goto(c, Idle)
     /\ excused' = IF full /\ shard[s].bytes > PerShardMax THEN excused \union {s} ELSE excused
     /\ UNCHANGED <<slab, hotPlan, callsLeft, shard, bannedTo>>

\* The answer to a Get, once the lock is released: the stored object, and the
\* body the caller may write from.
Reading(k, e) ==
  [Idle EXCEPT !.pc = "check", !.key = k, !.obj = e, !.body = DetachBody(e)]

\* Get under the read lock: an entry that is visited is answered from here.
HotGet(c, k) ==
  LET s == ShardOfKey(k)
  IN /\ call[c] = Idle
     /\ Made("gets")
     /\ Goto(c, IF s.ent[k] = NoEntry THEN Idle
                ELSE IF k \in s.visited THEN Reading(k, s.ent[k])
                ELSE [Idle EXCEPT !.pc = "slow", !.key = k])
     /\ UNCHANGED <<slab, hotPlan, shard, signal, bannedTo, excused>>

\* The rest of Get under the write lock, with the entry looked up again.
HotGetSlow(c) ==
  LET k == call[c].key
      e == ShardOfKey(k).ent[k]
  IN /\ call[c].pc = "slow"
     /\ IF e = NoEntry THEN UNCHANGED shard /\ Goto(c, Idle)
        ELSE /\ shard' = [shard EXCEPT ![ShardOf[k]] = Touch(@, k)]
             /\ Goto(c, Reading(k, e))
     /\ UNCHANGED <<slab, hotPlan, callsLeft, signal, bannedTo, excused>>

\* matchesActiveBan, with no lock held; then the response is written.
CheckBan(c) ==
  /\ call[c].pc = "check"
  /\ Goto(c, [call[c] EXCEPT !.pc = IF call[c].obj.ver <= bannedTo[call[c].key] THEN "evict" ELSE "serve"])
  /\ UNCHANGED <<slab, hotPlan, callsLeft, shard, signal, bannedTo, excused>>

Served(c) ==
  /\ call[c].pc = "serve"
  /\ Goto(c, Idle)
  /\ UNCHANGED <<slab, hotPlan, callsLeft, shard, signal, bannedTo, excused>>

\* One removal of the keys ks of a shard, under its lock.
RemoveKeys(c, s, ks) ==
  /\ \E x \in {FoldSet(LAMBDA k, y : RemoveEntry(y, k), [s |-> shard[s], frees |-> <<>>], ks)} :
       shard' = [shard EXCEPT ![s] = x.s] /\ Release(c, x.frees, FALSE)
  /\ Excuse(s, FALSE)
  /\ UNCHANGED <<slab, hotPlan, signal>>

\* evictBanned: only the object that was read, not one that replaced it.
EvictBanned(c) ==
  LET k == call[c].key
  IN /\ call[c].pc = "evict"
     /\ RemoveKeys(c, ShardOf[k], {x \in {k} : ShardOfKey(x).ent[x].ver = call[c].obj.ver})
     /\ UNCHANGED <<callsLeft, bannedTo>>

HotDelete(c, k) ==
  /\ call[c] = Idle
  /\ Made("deletes")
  /\ RemoveKeys(c, ShardOf[k], {k})
  /\ UNCHANGED bannedTo

\* Ban, of one key's objects: the lazy ban first.  The scan is left out for a
\* surrogate key's ban and soon after another scan.
HotBan(c, k) ==
  /\ call[c] = Idle
  /\ Made("bans")
  /\ bannedTo' = [bannedTo EXCEPT ![k] = hotPlan.calls.puts - callsLeft.puts]
  /\ \E scans \in BOOLEAN : Goto(c, IF scans THEN [Idle EXCEPT !.pc = "scan", !.key = k] ELSE Idle)
  /\ UNCHANGED <<slab, hotPlan, shard, signal, excused>>

BanShard(c) ==
  LET k == call[c].key
  IN /\ call[c].pc = "scan"
     /\ RemoveKeys(c, ShardOf[k], {x \in {k} : ShardOfKey(x).ent[x].ver <= bannedTo[x]})
     /\ UNCHANGED <<callsLeft, bannedTo>>

\* reapShard: some of the entries have expired.
ReapShard(s, dead) ==
  /\ call["reaper"] = Idle
  /\ Made("reaps")
  /\ dead # {} /\ \A k \in dead : ShardOf[k] = s /\ shard[s].ent[k] # NoEntry
  /\ RemoveKeys("reaper", s, dead)
  /\ UNCHANGED bannedTo

\* sweeper: until the shard is within its budget, or a sweep finds nothing.
Sweep ==
  /\ call["sweeper"] = Idle
  /\ signal # <<>>
  /\ signal' = Tail(signal)
  /\ \E x \in {EvictWhileOver([s |-> shard[Head(signal)], frees |-> <<>>], 0, Cardinality(HotKeys))} :
       shard' = [shard EXCEPT ![Head(signal)] = x.s] /\ Release("sweeper", x.frees, FALSE)
  /\ Excuse(Head(signal), TRUE)
  /\ UNCHANGED <<slab, hotPlan, callsLeft, bannedTo>>

\* SetBacked and ClearBacked, of the tier that has the copies.
SetBacked(k, has) ==
  LET s == ShardOf[k]
      e == shard[s].ent[k]
  IN /\ e # NoEntry /\ e.backed # has
     /\ Made("backs")
     /\ shard' = [shard EXCEPT ![s].ent[k].backed = has,
                               ![s].backedCount = IF has THEN @ + 1 ELSE @ - 1]
     /\ UNCHANGED <<slab, hotPlan, signal, call, bannedTo, excused>>

CallStep(c) ==
  \/ PutStored(c) \/ SignalSweeper(c) \/ HotGetSlow(c) \/ CheckBan(c) \/ Served(c) \/ EvictBanned(c) \/ BanShard(c)

ShardNext ==
  \/ \E c \in hotPlan.callers :
       \/ \E k \in hotPlan.keys :
            \/ \E size \in hotPlan.sizes, mapped \in BOOLEAN : HotPut(c, k, size, mapped)
            \/ HotGet(c, k) \/ HotDelete(c, k) \/ HotBan(c, k)
       \/ CallStep(c)
  \/ \E c \in HotCallers \union Workers : FlushSlabFrees(c)
  \/ \E s \in Shards, dead \in SUBSET hotPlan.keys : ReapShard(s, dead)
  \/ Sweep
  \/ \E k \in hotPlan.keys, has \in BOOLEAN : SetBacked(k, has)

-----------------------------------------------------------------------------
(* What a shard keeps in step.                                             *)

InShard(s) == {k \in HotKeys : shard[s].ent[k] # NoEntry}

\* The map and the eviction list of a shard have the same keys, each once, and
\* the hand is on one of them: an entry only the map had could never be
\* evicted, one only the list had would stand for bytes that are not there.
ListMatchesMap ==
  \A s \in Shards :
    /\ IsInjective(shard[s].list) /\ ToSet(shard[s].list) = InShard(s)
    /\ shard[s].hand = NilKey \/ shard[s].hand \in InShard(s)
    /\ shard[s].visited \subseteq InShard(s)

\* The bytes of a shard are those of its entries, through evictions,
\* overwrites and removals; and backedCount never falls below the entries with
\* a backup, so that one of those is looked for as long as there is one.
BytesCounted ==
  \A s \in Shards :
    /\ shard[s].bytes = FoldSet(LAMBDA k, n : n + shard[s].ent[k].size, 0, InShard(s))
    /\ shard[s].backedCount >= Cardinality({k \in InShard(s) : shard[s].ent[k].backed})

\* How many have a slot: the region's free list, the entries, the Puts about to
\* store and the callers about to free.
Times(seq, Test(_)) == Cardinality({i \in DOMAIN seq : Test(seq[i])})
InFree(slot) == Times(slab[slot[1]].regions[slot[2]].free, LAMBDA o : o = slot[3])
Claims(slot) ==
  InFree(slot)
  + Cardinality({k \in HotKeys : ShardOfKey(k).ent[k].body.at = slot})
  + Cardinality({c \in HotCallers : call[c].pc = "store" /\ call[c].obj.body.at = slot})
  + FoldSet(LAMBDA c, n : n + Times(call[c].frees, LAMBDA b : b.at = slot), 0, DOMAIN call)
HandedOut ==
  {slot \in Slots : /\ slot[2] \in DOMAIN slab[slot[1]].regions
                    /\ slot[3] <= slab[slot[1]].regions[slot[2]].bump}

\* A slot is never lost and never in two hands: each one handed out is in the
\* free list, in an entry, or with the one caller that is about to store or
\* free it, and its header says which.  The body goes back after the shard's
\* lock is released, so that any step may come between.
SlotsOwned ==
  \A slot \in HandedOut :
    /\ Claims(slot) = 1
    /\ slot[3] \in slab[slot[1]].regions[slot[2]].magic <=> InFree(slot) = 0

\* What is served is what was stored: the slot of an entry has that object's
\* bytes, and a response being written keeps its bytes whatever becomes of the
\* entry meanwhile (the "use-after-free" of detachBody's comment).
BodiesIntact ==
  /\ \A k \in HotKeys :
       LET e == ShardOfKey(k).ent[k] IN e # NoEntry => BytesOf(e.body.at, e.ver) = e.ver
  /\ \A c \in HotCallers :
       call[c].pc \in {"check", "serve"} => BytesOf(call[c].body.at, call[c].body.bytes) = call[c].obj.ver

\* A shard over its budget is known to be: its signal is in the channel, or a
\* Put is about to send it, or the send found the channel full or the sweep
\* found nothing to evict.
OvershootKnown ==
  \A s \in Shards :
    shard[s].bytes > PerShardMax =>
      \/ s \in ToSet(signal) \/ s \in excused
      \/ \E c \in HotCallers : call[c].over /\ ShardOf[call[c].key] = s

\* All of the above.
ShardInStep == ListMatchesMap /\ BytesCounted /\ SlotsOwned /\ BodiesIntact /\ OvershootKnown

\* "entries with a backup (cheap to evict)", the comment on backedCount
\* (hot.go:208).  It does not hold: Delete, bans and the reaper leave the
\* count as it is.
BackedCounted ==
  \A s \in Shards : shard[s].backedCount = Cardinality({k \in InShard(s) : shard[s].ent[k].backed})

\* "a full channel means a signal is already pending for this shard", the
\* comment on the send in putStored (hot.go:724-725).  It does not hold: the
\* channel may be full of another shard's signals.
FullMeansPending ==
  \A c \in HotCallers :
    call[c].pc = "signal" /\ Len(signal) = Cardinality(Shards) => ShardOf[call[c].key] \in ToSet(signal)
=============================================================================
