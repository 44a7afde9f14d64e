------------------------- MODULE InvalidationBatcher -------------------------
(***************************************************************************)
(* The sending side of cluster invalidation: Broadcaster's entry points,   *)
(* the batcher that coalesces purge and refresh events, its flush loop and *)
(* Close.                                                                  *)
(*                                                                         *)
(* Sources: internal/cluster/batcher.go, internal/cluster/broadcast.go.    *)
(*                                                                         *)
(* Purges and refreshes have a queue, a lock and a flush window each, with *)
(* the same code: they are the two classes.  A queue is a set; receivers   *)
(* do not depend on its order.  A flush is a step of its own, since the    *)
(* lock is not held while the peers are posted to.                         *)
(***************************************************************************)
EXTENDS Naturals, FiniteSets

CONSTANTS
  Senders,     \* calls of the broadcaster
  CallPlans,   \* Senders -> [kind : CallKinds, class : Classes]
  LoopId,      \* the flush loop goroutine
  BatchSize,   \* broadcastBatchSize
  QueueCap,    \* broadcastQueueCap
  MayClose     \* is the broadcaster closed in the run

\* "sync": BroadcastPurge, BroadcastRefresh; "async": BroadcastPurgeAsync;
\* "direct": BroadcastPurges, BroadcastBan.
CallKinds == {"sync", "async", "direct"}
Classes == {"purge", "refresh"}

ASSUME BatcherAssumption ==
  /\ CallPlans \subseteq [Senders -> [kind : CallKinds, class : Classes]]
  /\ LoopId \notin Senders /\ IsFiniteSet(Senders)
  /\ BatchSize \in Nat \ {0} /\ QueueCap \in Nat \ {0}
  /\ MayClose \in BOOLEAN

VARIABLES
  call,       \* the kind and the class of each call
  pc,         \* where a call is; the event of call c is c
  queued,     \* purgeQueue, refreshQueue
  flushing,   \* purgeFlushing, refreshFlushing
  wakeup,     \* a wakeup is pending
  closed,     \* done is closed
  loop,       \* where the flush loop is
  batch,      \* what a goroutine has taken and not yet flushed or put back
  fanned,     \* events fanned out
  late        \* ghost: events of calls that began after Close

batchVars == <<call, pc, queued, flushing, wakeup, closed, loop, batch, fanned, late>>

Holders == Senders \union {LoopId}
CallSteps == {"idle", "flush", "send", "clear", "returned"}
LoopSteps == {"unborn", "select", "due", "drain", "final", "exited"}

BatchInit ==
  /\ call \in CallPlans
  /\ pc = [c \in Senders |-> "idle"]
  /\ queued = [k \in Classes |-> {}]
  /\ flushing = [k \in Classes |-> FALSE]
  /\ wakeup = FALSE
  /\ closed = FALSE
  /\ loop = [step |-> "unborn", class |-> "purge"]
  /\ batch = [a \in Holders |-> {}]
  /\ fanned = {} /\ late = {}

\* newInvalidationBatcher starts the loop; no call comes before it.
NewBatcher ==
  /\ loop.step = "unborn"
  /\ loop' = [loop EXCEPT !.step = "select"]
  /\ UNCHANGED <<pc, queued, flushing, wakeup, closed, batch, fanned, late>>

QueueOf(c) == queued[call[c].class]
-----------------------------------------------------------------------------
(* The calls.                                                              *)

\* The event is kept for the loop, which is signalled.
EnqueueEvent(c) ==
  /\ queued' = [queued EXCEPT ![call[c].class] = @ \union {c}]
  /\ wakeup' = TRUE
  /\ pc' = [pc EXCEPT ![c] = "returned"]
  /\ UNCHANGED <<flushing, batch>>

\* The caller flushes its event itself, within the flush window ("flush") or
\* whatever the window is ("send").
FlushAlone(c, step) ==
  /\ batch' = [batch EXCEPT ![c] = {c}]
  /\ pc' = [pc EXCEPT ![c] = step]
  /\ UNCHANGED <<queued, wakeup>>

\* The full queue overflows into an unbatched send.
OverflowCall(c) ==
  /\ pc[c] = "idle" /\ call[c].kind # "direct"
  /\ Cardinality(QueueOf(c)) >= QueueCap
  /\ FlushAlone(c, "send")
  /\ UNCHANGED <<flushing, closed, loop, fanned>>

\* enqueuePurge, enqueueRefresh: behind a queue or a flush the event waits,
\* otherwise the caller opens the flush window.
EnqueueSync(c) ==
  /\ pc[c] = "idle" /\ call[c].kind = "sync"
  /\ Cardinality(QueueOf(c)) < QueueCap
  /\ \/ (QueueOf(c) # {} \/ flushing[call[c].class]) /\ EnqueueEvent(c)
     \/ /\ QueueOf(c) = {} /\ ~flushing[call[c].class]
        /\ FlushAlone(c, "flush")
        /\ flushing' = [flushing EXCEPT ![call[c].class] = TRUE]
  /\ UNCHANGED <<closed, loop, fanned>>

\* enqueuePurgeAsync: the caller never waits for the peers.
EnqueueAsync(c) ==
  /\ pc[c] = "idle" /\ call[c].kind = "async"
  /\ Cardinality(QueueOf(c)) < QueueCap
  /\ EnqueueEvent(c)
  /\ UNCHANGED <<closed, loop, fanned>>

\* BroadcastPurges sends its keys in one frame, past the batcher, and so does
\* BroadcastBan its predicate.
SendDirect(c) ==
  /\ pc[c] = "idle" /\ call[c].kind = "direct"
  /\ FlushAlone(c, "send")
  /\ UNCHANGED <<flushing, closed, loop, fanned>>

\* Mutant: the flush is recorded for the goroutine, not for its batch.
FlushRecordsActor(a) ==
  /\ fanned' = fanned \union {a}
  /\ batch' = [batch EXCEPT ![a] = {}]

\* flushBatch returns: every peer has been posted to and gossip is queued.
FlushReturns(a) ==
  /\ fanned' = fanned \union batch[a]
  /\ batch' = [batch EXCEPT ![a] = {}]

CallerFlush(c) ==
  /\ pc[c] \in {"flush", "send"}
  /\ FlushReturns(c)
  /\ pc' = [pc EXCEPT ![c] = IF call[c].kind = "direct" THEN "returned" ELSE "clear"]
  /\ UNCHANGED <<queued, flushing, wakeup, closed, loop>>

\* donePurgeFlush, doneRefreshFlush.
DoneFlush(c) ==
  /\ pc[c] = "clear"
  /\ flushing' = [flushing EXCEPT ![call[c].class] = FALSE]
  /\ pc' = [pc EXCEPT ![c] = "returned"]
  /\ UNCHANGED <<queued, wakeup, closed, loop, batch, fanned>>
-----------------------------------------------------------------------------
(* The flush loop.                                                         *)

\* select: the closed channel, the wakeup or the interval tick.
LoopSelect ==
  /\ loop.step = "select"
  /\ \/ closed /\ loop' = [step |-> "final", class |-> "purge"] /\ UNCHANGED wakeup
     \/ wakeup /\ loop' = [step |-> "due", class |-> "purge"] /\ wakeup' = FALSE
     \/ loop' = [step |-> "drain", class |-> "purge"] /\ UNCHANGED wakeup
  /\ UNCHANGED <<pc, queued, flushing, closed, batch, fanned>>

\* On to the refreshes, then back to the select or out.
LoopGoesOn ==
  loop' = IF loop.class = "purge" THEN [loop EXCEPT !.class = "refresh"] ELSE
          IF loop.step = "final" THEN [loop EXCEPT !.step = "exited"]
                                 ELSE [loop EXCEPT !.step = "select"]

\* takePurgeBatch, takeRefreshBatch.
TakeBatch ==
  /\ loop.step \in {"due", "drain", "final"} /\ batch[LoopId] = {}
  /\ batch' = [batch EXCEPT ![LoopId] = queued[loop.class]]
  /\ queued' = [queued EXCEPT ![loop.class] = {}]
  /\ IF queued[loop.class] = {} THEN LoopGoesOn ELSE UNCHANGED loop
  /\ UNCHANGED <<pc, flushing, wakeup, closed, fanned>>

\* drainFlush flushes what it took, flushDue only a full batch.
LoopFlush ==
  /\ batch[LoopId] # {}
  /\ loop.step = "due" => Cardinality(batch[LoopId]) >= BatchSize
  /\ FlushReturns(LoopId)
  /\ LoopGoesOn
  /\ UNCHANGED <<pc, queued, flushing, wakeup, closed>>

\* Mutant: the batch replaces what was queued since it was taken.
RequeueReplaces ==
  /\ batch[LoopId] # {} /\ loop.step = "due" /\ Cardinality(batch[LoopId]) < BatchSize
  /\ queued' = [queued EXCEPT ![loop.class] = batch[LoopId]]
  /\ batch' = [batch EXCEPT ![LoopId] = {}]
  /\ LoopGoesOn
  /\ UNCHANGED <<pc, flushing, wakeup, closed, fanned>>

\* flushDue puts a smaller one back for the tick.
RequeueBatch ==
  /\ batch[LoopId] # {} /\ loop.step = "due" /\ Cardinality(batch[LoopId]) < BatchSize
  /\ queued' = [queued EXCEPT ![loop.class] = batch[LoopId] \union @]
  /\ batch' = [batch EXCEPT ![LoopId] = {}]
  /\ LoopGoesOn
  /\ UNCHANGED <<pc, flushing, wakeup, closed, fanned>>

\* close; the shutdown sequence calls it before the listeners are stopped.
CloseBatcher ==
  /\ MayClose /\ ~closed
  /\ closed' = TRUE
  /\ UNCHANGED <<pc, queued, flushing, wakeup, loop, batch, fanned, late>>

Broadcast(c) ==
  /\ \/ OverflowCall(c) \/ EnqueueSync(c) \/ EnqueueAsync(c) \/ SendDirect(c)
  /\ late' = IF closed THEN late \union {c} ELSE late

BroadcastReturns(c) == (CallerFlush(c) \/ DoneFlush(c)) /\ UNCHANGED late

LoopStep ==
  /\ LoopSelect \/ TakeBatch \/ LoopFlush \/ RequeueBatch
  /\ UNCHANGED late

Running == loop.step # "unborn"

BatchNext ==
  /\ \/ NewBatcher
     \/ Running /\ CloseBatcher
     \/ Running /\ \E c \in Senders : Broadcast(c) \/ BroadcastReturns(c)
     \/ LoopStep
  /\ UNCHANGED call

\* A goroutine that can go on does: posts time out, and the loop ticks.
BatchFairness ==
  /\ \A c \in Senders : WF_batchVars(BroadcastReturns(c) /\ UNCHANGED call)
  /\ WF_batchVars(LoopStep /\ UNCHANGED call)

BatchSpec == BatchInit /\ [][BatchNext]_batchVars
-----------------------------------------------------------------------------
(* Properties.                                                             *)

\* Every variable has the shape of the Go state it stands for.
BatchTypeOK ==
  /\ call \in CallPlans
  /\ pc \in [Senders -> CallSteps]
  /\ queued \in [Classes -> SUBSET Senders]
  /\ flushing \in [Classes -> BOOLEAN]
  /\ {wakeup, closed} \subseteq BOOLEAN
  /\ loop \in [step : LoopSteps, class : Classes]
  /\ batch \in [Holders -> SUBSET Senders]
  /\ fanned \subseteq Senders /\ late \subseteq Senders

Taken == UNION {batch[a] : a \in Holders}
InQueues == queued["purge"] \union queued["refresh"]

\* What flushDue puts back may push a queue over its cap, by less than a batch.
QueueBounded ==
  \A k \in Classes : Cardinality(queued[k]) < QueueCap + BatchSize

\* Every event handed over before Close is fanned out in the end: the caller
\* that opened the window, a tick, a full batch or Close's last drain sends it.
\* (It leaves the queues and the batches only by being fanned out: KeepsFanout.)
OutUnlessLate(c) == c \notin InQueues \union Taken \/ c \in late

Promise == INSTANCE EventFanout WITH
  Events <- Senders,
  pending <- InQueues \union Taken

\* The batcher implements the fan-out that EventFanout promises.
KeepsFanout == Promise!Spec
=============================================================================
