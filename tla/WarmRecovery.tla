---------------------------- MODULE WarmRecovery ----------------------------
(***************************************************************************)
(* The disk tier and what a restart makes of it: append-only segments, the *)
(* index over them, the write-ahead log (WAL) of index changes, the index  *)
(* snapshot, the checkpoint that trades the one for the other, and the two *)
(* compactions, under crashes at any point.                                *)
(*                                                                         *)
(* Sources: internal/storage/warm/warm.go, warm/snapshot.go, wal/wal.go    *)
(* and the parts of internal/storage/tiered.go that drive them.            *)
(*                                                                         *)
(* Records have one size, so an offset is a position in its segment.       *)
(* What a record holds is the number of the operation that wrote it.       *)
(* Eviction from the tier is a Delete by a batching goroutine.             *)
(***************************************************************************)
EXTENDS Integers, FiniteSets, SequencesExt

CONSTANTS
  Keys,
  Requests,     \* goroutines in Put and Delete
  Batchers,     \* the drain and sync loops, which log in batches
  None,
  Plans,        \* what may happen in a run, see below
  SegMax,       \* records in a full segment
  ChanCap,      \* entries the channel of the log holds
  BatchMax      \* bound: entries of a batch

\* A plan names the goroutines that write and the compactions that run, and
\* bounds the operations, the clean shutdowns, the crashes, and the crashes
\* that tear the write of the log.
AllPlans ==
  [threads : SUBSET (Requests \union Batchers), compactions : SUBSET {"segment", "global"},
   ops : Nat, closes : Nat, crashes : Nat, torn : Nat]

ASSUME WarmRecoveryAssumption ==
  /\ None \notin Keys /\ Requests \intersect Batchers = {}
  /\ Plans \subseteq AllPlans
  /\ {SegMax, ChanCap, BatchMax} \subseteq Nat \ {0}

VARIABLES
  plan,
  up,
  files,          \* on disk: id -> records of the segment
  walFile,        \* on disk: the log
  walTmp,         \* on disk: the log a rewrite prepares
  snap,           \* on disk: index.snap, or None
  segs,           \* ids in the order the store holds them, the active last
  nextID,
  index,          \* key -> place of its record, or None
  chan,           \* entries enqueued and not yet written to the log
  dirty,          \* walEntryCount > 0
  checkpointing,
  pc,             \* of a request or a batcher
  pending,        \* the entries it is about to enqueue
  stage,          \* of the checkpoint and of the compaction
  shot,           \* the snapshot each of them is writing
  staged,         \* what the compaction has scanned
  hist,           \* ghost: the operations in the order they took effect
  durable,        \* ghost: key -> newest operation written to the log
  closes,
  crashes,
  torn

disk == <<files, walFile, walTmp, snap>>
store == <<segs, nextID, index>>
log == <<chan, dirty, checkpointing>>
threads == <<pc, pending>>
loops == <<stage, shot, staged>>
stops == <<plan, closes, crashes, torn>>
ghosts == <<hist, durable, stops>>
vars == <<up, disk, store, log, threads, loops, ghosts>>

Threads == Requests \union Batchers
Writers == {"ckpt", "comp"}      \* the writers of snapshots
Places == [seg : Nat, off : Nat \ {0}]
Records == [key : Keys, n : Nat, tomb : BOOLEAN]
Entries == [op : {"put", "delete"}, key : Keys, place : Places, n : Nat]
Torn == [op |-> "torn"]          \* a record of the log cut short
Indexes == [Keys -> Places \union {None}]
NoIndex == [k \in Keys |-> None]
Idle == [w \in Writers |-> "idle"]

Init ==
  /\ plan \in Plans
  /\ up = TRUE
  /\ files = << >> /\ walFile = << >> /\ walTmp = << >> /\ snap = None
  /\ segs = << >> /\ nextID = 0 /\ index = NoIndex
  /\ chan = << >> /\ dirty = FALSE /\ checkpointing = FALSE
  /\ pc = [t \in Threads |-> "idle"] /\ pending = [t \in Threads |-> << >>]
  /\ stage = Idle /\ shot = [w \in Writers |-> None] /\ staged = None
  /\ hist = << >> /\ durable = [k \in Keys |-> 0]
  /\ closes = 0 /\ crashes = 0 /\ torn = 0
-----------------------------------------------------------------------------
(* Segments and index.                                                     *)

Move(w, s) == stage' = [stage EXCEPT ![w] = s]

\* s.mu is not held exclusively; walMu is not held.
SegsFree == stage["comp"] # "removed"
WalFree == stage["comp"] # "rewriting"

Holds(place) == place.seg \in Range(segs) /\ place.off <= Len(files[place.seg])
RecordAt(place) == files[place.seg][place.off]

\* readRecord finds a record for k, whoever wrote it.
Reads(k) == index[k] # None /\ Holds(index[k]) /\ ~RecordAt(index[k]).tomb

Live(s, r) == index[r.key] # None /\ index[r.key].seg = s /\ Reads(r.key) /\ RecordAt(index[r.key]) = r
LiveOf(s) == SelectSeq(files[s], LAMBDA r : Live(s, r))
HasDead(s) == Len(LiveOf(s)) < Len(files[s])
AllDead(s) == files[s] # << >> /\ LiveOf(s) = << >>

\* activeSegRLocked, or the segment newSegment creates.
ActiveFull == segs = << >> \/ Len(files[Last(segs)]) >= SegMax
ActiveID == IF ActiveFull THEN nextID ELSE Last(segs)

\* The record goes to the end of the active segment.
AppendRecord(r) ==
  /\ files' = (ActiveID :> Append(IF ActiveFull THEN << >> ELSE files[ActiveID], r)) @@ files
  /\ segs' = IF ActiveFull THEN Append(segs, nextID) ELSE segs
  /\ nextID' = IF ActiveFull THEN nextID + 1 ELSE nextID

NextPlace == [seg |-> ActiveID, off |-> IF ActiveFull THEN 1 ELSE Len(files[ActiveID]) + 1]

\* Store.Put and Store.Delete, called by a request, or by a batcher that
\* collects its entries for one EnqueueBatch.
Submit(t, k, op) ==
  /\ up /\ SegsFree /\ t \in plan.threads /\ Len(hist) < plan.ops
  /\ \/ pc[t] = "idle"
     \/ t \in Batchers /\ pc[t] = "sync" /\ Len(pending[t]) < BatchMax
  /\ LET n == Len(hist) + 1
     IN /\ AppendRecord([key |-> k, n |-> n, tomb |-> op = "delete"])
        /\ pending' = [pending EXCEPT ![t] = Append(@, [op |-> op, key |-> k, place |-> NextPlace, n |-> n])]
  /\ index' = [index EXCEPT ![k] = IF op = "put" THEN NextPlace ELSE None]
  /\ pc' = [pc EXCEPT ![t] = "sync"]
  /\ hist' = Append(hist, [key |-> k, op |-> op])
  /\ UNCHANGED <<up, walFile, walTmp, snap, log, loops, durable, stops>>

\* readRecord drops an entry whose segment or record is gone.
GetHeals(k) ==
  /\ up /\ SegsFree
  /\ index[k] # None /\ ~Holds(index[k])
  /\ index' = [index EXCEPT ![k] = None]
  /\ UNCHANGED <<up, disk, segs, nextID, log, threads, loops, ghosts>>
-----------------------------------------------------------------------------
(* The log.                                                                *)

Newest(es, k) == Max({durable[k]} \union {e.n : e \in {x \in Range(es) : x.key = k}})
Written(es) == durable' = [k \in Keys |-> Newest(es, k)]

\* SyncSegment gives up on a segment that compaction took away; the batch
\* paths sync whatever segments there are.
SyncSegment(t) ==
  /\ up /\ SegsFree /\ pc[t] = "sync"
  /\ IF t \in Batchers \/ Last(pending[t]).place.seg \in Range(segs)
     THEN /\ pc' = [pc EXCEPT ![t] = "spin"]
          /\ UNCHANGED pending
     ELSE /\ pc' = [pc EXCEPT ![t] = "idle"]
          /\ pending' = [pending EXCEPT ![t] = << >>]
  /\ UNCHANGED <<up, disk, store, log, loops, ghosts>>

\* walEnqueue waits for the checkpoint, and then for walMu.
Spin(t) ==
  /\ up /\ pc[t] = "spin" /\ ~checkpointing
  /\ pc' = [pc EXCEPT ![t] = "lock"]
  /\ UNCHANGED <<up, disk, store, log, pending, loops, ghosts>>

\* A send on the channel does not block: what it cannot hold is dropped.
Sent(es) == SubSeq(chan \o es, 1, Min({ChanCap, Len(chan) + Len(es)}))

\* Enqueue and EnqueueBatch.
Enqueue(t) ==
  /\ up /\ pc[t] = "lock" /\ WalFree
  /\ chan' = Sent(pending[t])
  /\ dirty' = TRUE
  /\ pc' = [pc EXCEPT ![t] = "idle"]
  /\ pending' = [pending EXCEPT ![t] = << >>]
  /\ UNCHANGED <<up, disk, store, checkpointing, loops, ghosts>>

\* drainAndSync.
Drain ==
  /\ walFile' = walFile \o chan
  /\ chan' = << >>
  /\ Written(chan)

\* walSyncLoop, on its tick.
WalSync ==
  /\ up /\ chan # << >>
  /\ Drain
  /\ UNCHANGED <<up, files, walTmp, snap, store, dirty, checkpointing, threads, loops,
                 hist, stops>>
-----------------------------------------------------------------------------
(* Snapshots and the checkpoint.                                           *)

\* The segment table names the segments the entries need, if they are there.
SizesFor(idx) ==
  [s \in {idx[k].seg : k \in {j \in Keys : idx[j] # None}} \intersect Range(segs) |-> Len(files[s])]

\* WriteSnapshot: a copy of the index, then the table, then the file.
SnapCopy(w) ==
  /\ up /\ stage[w] = "copy"
  /\ shot' = [shot EXCEPT ![w] = [idx |-> index, sizes |-> << >>]]
  /\ Move(w, "table")
  /\ UNCHANGED <<up, disk, store, log, threads, staged, ghosts>>

SnapTable(w) ==
  /\ up /\ SegsFree /\ stage[w] = "table"
  /\ shot' = [shot EXCEPT ![w].sizes = SizesFor(shot[w].idx)]
  /\ Move(w, "rename")
  /\ UNCHANGED <<up, disk, store, log, threads, staged, ghosts>>

\* The end of the checkpoint's snapshot, and of runPostCompaction.
SnapRename(w) ==
  /\ up /\ stage[w] = "rename"
  /\ snap' = shot[w]
  /\ shot' = [shot EXCEPT ![w] = None]
  /\ Move(w, IF w = "ckpt" THEN "truncate" ELSE "idle")
  /\ dirty' = IF w = "ckpt" THEN dirty ELSE FALSE
  /\ UNCHANGED <<up, files, walFile, walTmp, store, chan, checkpointing, threads, staged, ghosts>>

\* WriteSnapshot returns an error.
SnapFails(w) ==
  /\ up /\ stage[w] = "rename"
  /\ shot' = [shot EXCEPT ![w] = None]
  /\ Move(w, "idle")
  /\ checkpointing' = IF w = "ckpt" THEN FALSE ELSE checkpointing
  /\ UNCHANGED <<up, disk, store, chan, dirty, threads, staged, ghosts>>

\* checkpoint, steps 1 and 3: wal.Sync under walMu.
CkFlush ==
  /\ up /\ WalFree
  /\ \/ stage["ckpt"] = "idle" /\ dirty
     \/ stage["ckpt"] = "flush"
  /\ Drain
  /\ Move("ckpt", IF stage["ckpt"] = "idle" THEN "block" ELSE "copy")
  /\ UNCHANGED <<up, files, walTmp, snap, store, dirty, checkpointing, threads, shot, staged,
                 hist, stops>>

\* Step 2.
CkBlock ==
  /\ up /\ stage["ckpt"] = "block"
  /\ checkpointing' = TRUE
  /\ Move("ckpt", "flush")
  /\ UNCHANGED <<up, disk, store, chan, dirty, threads, shot, staged, ghosts>>

\* Steps 5 and 6.
CkTruncate ==
  /\ up /\ WalFree /\ stage["ckpt"] = "truncate"
  /\ walFile' = << >>
  /\ dirty' = FALSE /\ checkpointing' = FALSE
  /\ Move("ckpt", "idle")
  /\ UNCHANGED <<up, files, walTmp, snap, store, chan, threads, shot, staged, ghosts>>
-----------------------------------------------------------------------------
(* Compaction.                                                             *)

\* NeedsSegmentCompaction takes the first segment but the active one with
\* too many dead bytes: certainly one without live records, perhaps one
\* with some.
NeedsCompaction(i) ==
  /\ i < Len(segs) /\ HasDead(segs[i])
  /\ \A j \in 1..(i - 1) : ~AllDead(segs[j])

\* CompactSegment: scan, and write the live records to a temporary file.
CompactScan(i) ==
  /\ up /\ "segment" \in plan.compactions /\ stage["comp"] \in {"idle", "loop"}
  /\ NeedsCompaction(i)
  /\ staged' = [from |-> segs[i], to |-> nextID, recs |-> LiveOf(segs[i])]
  /\ nextID' = nextID + 1
  /\ Move("comp", "swap")
  /\ UNCHANGED <<up, disk, segs, index, log, threads, shot, ghosts>>

Position(recs, k) == CHOOSE i \in 1..Len(recs) : recs[i].key = k
HasKey(recs, k) == \E i \in 1..Len(recs) : recs[i].key = k

\* Mutant: an entry that changed since the scan is replaced as well.
MovedBlindly(k) ==
  IF index[k] # None /\ HasKey(staged.recs, k)
  THEN [seg |-> staged.to, off |-> Position(staged.recs, k)]
  ELSE index[k]

\* Only entries that still point at the old segment follow their record.
Moved(k) ==
  IF index[k] # None /\ index[k].seg = staged.from /\ HasKey(staged.recs, k)
  THEN [seg |-> staged.to, off |-> Position(staged.recs, k)]
  ELSE index[k]

\* swapCompactSegment: the new file takes the place of the old one.
CompactSwap ==
  /\ up /\ stage["comp"] = "swap"
  /\ files' = [s \in (DOMAIN files \ {staged.from}) \union {staged.to} |->
                 IF s = staged.to THEN staged.recs ELSE files[s]]
  /\ segs' = [i \in 1..Len(segs) |-> IF segs[i] = staged.from THEN staged.to ELSE segs[i]]
  /\ index' = [k \in Keys |-> Moved(k)]
  /\ staged' = None
  /\ Move("comp", "loop")
  /\ UNCHANGED <<up, walFile, walTmp, snap, nextID, log, threads, shot, ghosts>>

\* compactLoop finds no further segment.
CompactDone ==
  /\ up /\ stage["comp"] = "loop"
  /\ \A i \in 1..(Len(segs) - 1) : ~AllDead(segs[i])
  /\ Move("comp", "post")
  /\ UNCHANGED <<up, disk, store, log, threads, shot, staged, ghosts>>

AllLive == FoldLeft(LAMBDA recs, s : recs \o LiveOf(s), << >>, segs)

\* Compact: the live records are in another directory and the segments
\* are removed, all under s.mu; without live records nothing is done.  A
\* disk over its budget forces it whatever NeedsCompaction says.
CompactAll ==
  /\ up /\ "global" \in plan.compactions /\ stage["comp"] = "idle"
  /\ \E s \in Range(segs) : HasDead(s)
  /\ IF AllLive = << >>
     THEN /\ Move("comp", "post")
          /\ UNCHANGED <<files, staged>>
     ELSE /\ staged' = [recs |-> AllLive]
          /\ files' = << >>
          /\ Move("comp", "removed")
  /\ UNCHANGED <<up, walFile, walTmp, snap, store, log, threads, shot, ghosts>>

\* The records in fresh segments, numbered from 0.
Packed(recs) ==
  [s \in 0..((Len(recs) - 1) \div SegMax) |->
     SubSeq(recs, s * SegMax + 1, Min({Len(recs), (s + 1) * SegMax}))]
PlaceIn(recs, k) ==
  IF HasKey(recs, k)
  THEN [seg |-> (Position(recs, k) - 1) \div SegMax, off |-> ((Position(recs, k) - 1) % SegMax) + 1]
  ELSE None

\* swapSegmentFiles moves them in, with the snapshot that the temporary
\* store wrote on Close.
CompactAllSwap ==
  /\ up /\ stage["comp"] = "removed"
  /\ LET fresh == Packed(staged.recs)
         idx == [k \in Keys |-> PlaceIn(staged.recs, k)]
     IN /\ files' = fresh
        /\ segs' = [i \in 1..Cardinality(DOMAIN fresh) |-> i - 1]
        /\ index' = idx
        /\ snap' = [idx |-> idx, sizes |-> [s \in DOMAIN fresh |-> Len(fresh[s])]]
  /\ staged' = None
  /\ Move("comp", "post")
  /\ UNCHANGED <<up, walFile, walTmp, nextID, log, threads, shot, ghosts>>

Indexed == {k \in Keys : index[k] # None}

Orders(S) == {s \in [1..Cardinality(S) -> S] : Range(s) = S}

\* rewriteWAL: an entry for each key, in the order the map gives, appended
\* to the temporary log.
RewriteTmp ==
  /\ up /\ stage["comp"] = "post"
  /\ \E ks \in Orders(Indexed) :
       walTmp' = walTmp \o [i \in DOMAIN ks |->
                              [op |-> "put", key |-> ks[i], place |-> index[ks[i]], n |-> 0]]
  /\ Move("comp", "rewriting")
  /\ UNCHANGED <<up, files, walFile, snap, store, log, threads, shot, staged, ghosts>>

\* The old log is closed, which drains it, and the new one takes its place.
RewriteRename ==
  /\ up /\ stage["comp"] = "rewriting"
  /\ walFile' = walTmp /\ walTmp' = << >>
  /\ chan' = << >> /\ Written(chan)
  /\ Move("comp", "copy")
  /\ UNCHANGED <<up, files, snap, store, dirty, checkpointing, threads, shot, staged,
                 hist, stops>>

RewriteFails ==
  /\ up /\ stage["comp"] = "rewriting"
  /\ walTmp' = << >>
  /\ Move("comp", "idle")
  /\ UNCHANGED <<up, files, walFile, snap, store, log, threads, shot, staged, ghosts>>
-----------------------------------------------------------------------------
(* Shutdown, crash and restart.                                            *)

Down ==
  /\ up' = FALSE
  /\ segs' = << >> /\ nextID' = 0 /\ index' = NoIndex
  /\ chan' = << >> /\ dirty' = FALSE /\ checkpointing' = FALSE
  /\ pc' = [t \in Threads |-> "idle"] /\ pending' = [t \in Threads |-> << >>]
  /\ stage' = Idle /\ shot' = [w \in Writers |-> None] /\ staged' = None

\* Close: the loops have stopped and the requests are over.
Close ==
  /\ up /\ stage = Idle /\ pc = [t \in Threads |-> "idle"]
  /\ closes < plan.closes /\ closes' = closes + 1
  /\ Down
  /\ snap' = [idx |-> index, sizes |-> SizesFor(index)]
  /\ walFile' = IF dirty THEN << >> ELSE walFile \o chan
  /\ Written(chan)
  /\ UNCHANGED <<plan, files, walTmp, hist, crashes, torn>>

\* What has been written stays, what is in memory is lost; the batch that
\* drainAndSync is writing may be cut anywhere.
Crash ==
  /\ up /\ crashes < plan.crashes
  /\ Down
  /\ crashes' = crashes + 1
  /\ \/ UNCHANGED <<walFile, durable, torn>>
     \/ \E i \in 0..(Len(chan) - 1) :
          /\ torn < plan.torn /\ torn' = torn + 1
          /\ walFile' = Append(walFile \o SubSeq(chan, 1, i), Torn)
          /\ Written(SubSeq(chan, 1, i))
  /\ UNCHANGED <<plan, files, walTmp, snap, hist, closes>>

\* Mutant: the highest id on disk is taken for free.
NextFreeTaken(ids) == IF ids = {} THEN 0 ELSE Max(ids)

\* openExisting: past the highest id on disk.
NextFree(ids) == IF ids = {} THEN 0 ELSE Max(ids) + 1

\* validateSegmentTable.
SnapValid ==
  /\ snap # None
  /\ \A s \in DOMAIN snap.sizes : s \in DOMAIN files /\ Len(files[s]) >= snap.sizes[s]

\* Replay stops at the first record that is not whole.
Whole ==
  IF \E i \in 1..Len(walFile) : walFile[i] = Torn
  THEN SubSeq(walFile, 1, (CHOOSE i \in 1..Len(walFile) :
                             walFile[i] = Torn /\ \A j \in 1..(i - 1) : walFile[j] # Torn) - 1)
  ELSE walFile

\* Mutant: the operation of an entry is not looked at.
ReplayRemoves(idx, e) == [idx EXCEPT ![e.key] = None]

\* SetIndexWithSize for a put, DelIndex for a delete.
Replay(idx, e) == [idx EXCEPT ![e.key] = IF e.op = "put" THEN e.place ELSE None]

\* rebuildIndexFromScan: the records of every segment, by id.
Scan(ids) ==
  FoldLeft(LAMBDA idx, s :
             FoldLeft(LAMBDA x, i :
                        [x EXCEPT ![files[s][i].key] =
                           IF files[s][i].tomb THEN None ELSE [seg |-> s, off |-> i]],
                      idx, [i \in 1..Len(files[s]) |-> i]),
           NoIndex, ids)

\* NewStore and initWAL: the snapshot if it is valid, the log on top of it,
\* and the segments if both leave the index empty.
Recover ==
  /\ ~up
  /\ up' = TRUE
  /\ segs' = SetToSortSeq(DOMAIN files, <)
  /\ nextID' = NextFree(DOMAIN files)
  /\ LET replayed == FoldLeft(Replay, IF SnapValid THEN snap.idx ELSE NoIndex, Whole)
     IN index' = IF ~SnapValid /\ replayed = NoIndex THEN Scan(segs') ELSE replayed
  /\ UNCHANGED <<disk, log, threads, loops, ghosts>>

Next ==
  \/ \E t \in Threads, k \in Keys, op \in {"put", "delete"} : Submit(t, k, op)
  \/ \E k \in Keys : GetHeals(k)
  \/ \E t \in Threads : SyncSegment(t) \/ Spin(t) \/ Enqueue(t)
  \/ WalSync
  \/ \E w \in Writers : SnapCopy(w) \/ SnapTable(w) \/ SnapRename(w) \/ SnapFails(w)
  \/ CkFlush \/ CkBlock \/ CkTruncate
  \/ \E i \in 1..Len(segs) : CompactScan(i)
  \/ CompactSwap \/ CompactDone \/ CompactAll \/ CompactAllSwap
  \/ RewriteTmp \/ RewriteRename \/ RewriteFails
  \/ Close \/ Crash \/ Recover

Spec == Init /\ [][Next]_vars
-----------------------------------------------------------------------------
(* Properties.                                                             *)

\* Types; a segment is never longer than it may be, and the ids held in
\* memory name files.
TypeOK ==
  /\ up \in BOOLEAN /\ dirty \in BOOLEAN /\ checkpointing \in BOOLEAN
  /\ DOMAIN files \subseteq Nat
  /\ \A s \in DOMAIN files : files[s] \in Seq(Records) /\ Len(files[s]) <= SegMax
  /\ walFile \in Seq(Entries \union {Torn}) /\ walTmp \in Seq(Entries) /\ chan \in Seq(Entries)
  /\ Len(chan) <= ChanCap
  /\ segs \in Seq(Nat) /\ (up /\ SegsFree => Range(segs) = DOMAIN files)
  /\ nextID \in Nat /\ index \in Indexes
  /\ pc \in [Threads -> {"idle", "sync", "spin", "lock"}]
  /\ pending \in [Threads -> Seq(Entries)]

\* What a read of a key returns was stored under that key: readRecord takes
\* whatever record is at the place the index gives.
OwnRecord == up /\ SegsFree => \A k \in Keys : Reads(k) => RecordAt(index[k]).key = k

Restarted == closes + crashes > 0

\* Without compaction the index never goes back behind what the log has taken:
\* once the entry of an operation is written, no restart brings back the
\* record of an earlier one, deleted or replaced.
NotStale ==
  up /\ SegsFree /\ (Restarted => plan.compactions = {}) =>
    \A k \in Keys : Reads(k) /\ RecordAt(index[k]).key = k => RecordAt(index[k]).n >= durable[k]

\* Without compaction a Put whose entry was written is readable until a later
\* operation on its key: a checkpoint gives the log up only for a snapshot
\* that has it.
DurableKept ==
  up /\ SegsFree /\ (Restarted => plan.compactions = {}) =>
    \A k \in Keys :
      \/ durable[k] = 0 \/ hist[durable[k]].op = "delete"
      \/ Reads(k)
      \/ \E n \in (durable[k] + 1)..Len(hist) : hist[n].key = k

Last0(k) == Max({0} \union {n \in 1..Len(hist) : hist[n].key = k})

\* Until the store is restarted, a read of a key returns what the last
\* operation on it stored, whatever either compaction moves meanwhile.
IndexIsNewest ==
  up /\ SegsFree /\ ~Restarted =>
    \A k \in Keys :
      IF Last0(k) = 0 \/ hist[Last0(k)].op = "delete"
      THEN index[k] = None
      ELSE Reads(k) /\ RecordAt(index[k]).n = Last0(k)

\* A read is of the newest record there is to read: the last stored before a
\* restart, and none older than the log's after one; the state it is read
\* from is of its type.
ReadsAreCurrent == TypeOK /\ NotStale /\ IndexIsNewest
=============================================================================
