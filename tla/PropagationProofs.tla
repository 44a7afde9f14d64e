-------------------------- MODULE PropagationProofs -------------------------
(***************************************************************************)
(* Proofs about InvalidationBatcher, HotConfig and PurgePropagation: what  *)
(* a node passes on to its peers, to its fleet and to the CDN, for any     *)
(* calls, purges, settings and bounds.                                     *)
(***************************************************************************)
EXTENDS InvalidationBatcher, HotConfig, PurgePropagation, FiniteSetTheorems,
        SequenceTheorems, WellFoundedInduction, NaturalsInduction, TLAPS

\* Most leaves are first-order reasoning: Zenon first, then SMT.
USE ZenonT(40), SMTT(40)
-----------------------------------------------------------------------------
(* The sending side of invalidation.                                       *)

\* An event is in one place, and the step of its call says which: a queue of
\* its class or the loop's batch once the call has returned, the call's own
\* batch while the call flushes it, or fanned out.
Placed ==
  /\ BatchTypeOK
  /\ \A k \in Classes : \A c \in queued[k] :
       call[c].class = k /\ pc[c] = "returned" /\ c \notin fanned
  /\ \A c \in Senders : batch[c] = IF pc[c] \in {"flush", "send"} THEN {c} ELSE {}
  /\ \A c \in batch[LoopId] :
       /\ pc[c] = "returned" /\ c \notin fanned
       /\ call[c].class = loop.class /\ loop.step \in {"due", "drain", "final"}
       /\ c \notin queued[call[c].class]
  /\ \A c \in fanned : pc[c] \in {"clear", "returned"}

LEMMA InitPlaced == BatchInit => Placed
<1> SUFFICES ASSUME BatchInit PROVE Placed
  OBVIOUS
<1>1. BatchTypeOK
  BY DEF BatchInit, BatchTypeOK, Classes, CallSteps, LoopSteps
<1>2. \A a \in Holders : batch[a] = {}
  BY DEF BatchInit
<1> QED
  BY <1>1, <1>2 DEF BatchInit, Placed, Holders, Classes

\* A call that begins to flush its own event leaves the others in place.
LEMMA OwnFlush ==
  ASSUME Placed, NEW c \in Senders, NEW step \in {"flush", "send"},
         pc[c] = "idle", FlushAlone(c, step),
         flushing' \in [Classes -> BOOLEAN], late' \in SUBSET Senders,
         UNCHANGED <<call, closed, loop, fanned>>
  PROVE  Placed'
<1> USE BatcherAssumption DEF Placed, BatchTypeOK, Classes, CallSteps, Holders
<1>1. c # LoopId
  OBVIOUS
<1>2. /\ batch'[c] = {c} /\ \A a \in Holders \ {c} : batch'[a] = batch[a]
      /\ pc'[c] = step /\ \A d \in Senders \ {c} : pc'[d] = pc[d]
      /\ UNCHANGED <<queued, wakeup>>
  BY DEF FlushAlone
<1>3. BatchTypeOK'
  BY <1>1 DEF FlushAlone
<1> QED
  BY <1>1, <1>2, <1>3, SMTT(30)

\* Every step keeps the events in place.
LEMMA StepPlaced == Placed /\ [BatchNext]_batchVars => Placed'
<1> SUFFICES ASSUME Placed, [BatchNext]_batchVars PROVE Placed'
  OBVIOUS
<1> USE BatcherAssumption DEF Placed, BatchTypeOK, Classes, CallSteps, LoopSteps, Holders
<1>0. \A c \in Senders : c # LoopId /\ call[c].class \in Classes
  OBVIOUS
<1>1. CASE NewBatcher /\ UNCHANGED call
  BY <1>1 DEF NewBatcher
<1>2. CASE CloseBatcher /\ UNCHANGED call
  BY <1>2 DEF CloseBatcher
<1>3. ASSUME NEW c \in Senders, Broadcast(c), UNCHANGED call PROVE Placed'
  <2>1. CASE OverflowCall(c) \/ SendDirect(c)
    <3>1. /\ pc[c] = "idle" /\ FlushAlone(c, "send")
          /\ UNCHANGED <<flushing, closed, loop, fanned>>
      BY <2>1 DEF OverflowCall, SendDirect
    <3>2. late' \in SUBSET Senders
      BY <1>3 DEF Broadcast
    <3> QED
      BY <1>0, <1>3, <3>1, <3>2, OwnFlush
  <2>2. CASE EnqueueSync(c) /\ EnqueueEvent(c)
    BY <1>0, <1>3, <2>2, SMTT(30) DEF Broadcast, EnqueueSync, EnqueueEvent
  <2>3. CASE EnqueueSync(c) /\ FlushAlone(c, "flush")
    <3>0. \/ UNCHANGED flushing
          \/ flushing' = [flushing EXCEPT ![call[c].class] = TRUE]
      BY <2>3 DEF EnqueueSync, EnqueueEvent
    <3>1. pc[c] = "idle" /\ UNCHANGED <<closed, loop, fanned>>
      BY <2>3 DEF EnqueueSync
    <3>3. flushing' \in [Classes -> BOOLEAN]
      <4>1. CASE UNCHANGED flushing
        BY <4>1
      <4>2. CASE flushing' = [flushing EXCEPT ![call[c].class] = TRUE]
        BY <1>0, <4>2, Zenon
      <4> QED
        BY <3>0, <4>1, <4>2
    <3>2. late' \in SUBSET Senders
      BY <1>3 DEF Broadcast
    <3> QED
      BY <1>0, <1>3, <2>3, <3>1, <3>2, <3>3, OwnFlush
  <2>4. CASE EnqueueAsync(c)
    BY <1>0, <1>3, <2>4, SMTT(30) DEF Broadcast, EnqueueAsync, EnqueueEvent
  <2> QED
    BY <1>3, <2>1, <2>2, <2>3, <2>4 DEF Broadcast, EnqueueSync
<1>4. ASSUME NEW c \in Senders, BroadcastReturns(c), UNCHANGED call PROVE Placed'
  <2>1. CASE CallerFlush(c)
    <3>1. /\ batch[c] = {c} /\ pc[c] \in {"flush", "send"}
          /\ \/ pc' = [pc EXCEPT ![c] = "returned"]
             \/ pc' = [pc EXCEPT ![c] = "clear"]
          /\ batch' = [batch EXCEPT ![c] = {}] /\ fanned' = fanned \union {c}
          /\ UNCHANGED <<call, queued, flushing, wakeup, closed, loop, late>>
      BY <1>0, <1>4, <2>1 DEF BroadcastReturns, CallerFlush, FlushReturns
    <3>2. BatchTypeOK'
      BY <1>0, <3>1
    <3>3. c \notin batch[LoopId] /\ \A k \in Classes : c \notin queued[k]
      BY <1>0, <3>1
    <3>4. /\ pc'[c] \in {"returned", "clear"} /\ batch'[c] = {}
          /\ \A d \in Senders \ {c} : pc'[d] = pc[d]
          /\ \A a \in Holders \ {c} : batch'[a] = batch[a]
      BY <1>0, <3>1, SMTT(30)
    <3>5. \A k \in Classes : \A d \in queued'[k] :
            call'[d].class = k /\ pc'[d] = "returned" /\ d \notin fanned'
      BY <1>0, <3>1, <3>3, <3>4, SMTT(30)
    <3>6. \A d \in batch'[LoopId] :
            /\ pc'[d] = "returned" /\ d \notin fanned'
            /\ call'[d].class = loop'.class /\ loop'.step \in {"due", "drain", "final"}
            /\ d \notin queued'[call'[d].class]
      BY <1>0, <3>1, <3>3, <3>4, SMTT(30)
    <3>7. \A d \in Senders : batch'[d] = IF pc'[d] \in {"flush", "send"} THEN {d} ELSE {}
      BY <1>0, <3>1, <3>4
    <3>8. \A d \in fanned' : pc'[d] \in {"clear", "returned"}
      BY <1>0, <3>1, <3>4
    <3> QED
      BY <3>2, <3>5, <3>6, <3>7, <3>8
  <2>2. CASE DoneFlush(c)
    BY <1>0, <1>4, <2>2 DEF BroadcastReturns, DoneFlush
  <2> QED
    BY <1>4, <2>1, <2>2 DEF BroadcastReturns
<1>5. CASE LoopSelect /\ UNCHANGED <<late, call>>
  <2>1. batch[LoopId] = {}
    BY <1>5 DEF LoopSelect
  <2>2. UNCHANGED <<pc, queued, flushing, closed, batch, fanned>>
    BY <1>5 DEF LoopSelect
  <2>3. loop' \in [step : LoopSteps, class : Classes]
    BY <1>5, SMTT(30) DEF LoopSelect
  <2>4. wakeup' \in BOOLEAN
    BY <1>5, Zenon DEF LoopSelect
  <2> QED
    BY <1>5, <2>1, <2>2, <2>3, <2>4
<1>6. CASE TakeBatch /\ UNCHANGED <<late, call>>
  <2>1. /\ loop.step \in {"due", "drain", "final"} /\ batch[LoopId] = {}
        /\ batch' = [batch EXCEPT ![LoopId] = queued[loop.class]]
        /\ queued' = [queued EXCEPT ![loop.class] = {}]
        /\ UNCHANGED <<call, pc, flushing, wakeup, closed, fanned, late>>
    BY <1>6 DEF TakeBatch
  <2>2. /\ queued[loop.class] # {} => UNCHANGED loop
        /\ loop' \in [step : LoopSteps, class : Classes]
    BY <1>6 DEF TakeBatch, LoopGoesOn
  <2>3. BatchTypeOK'
    BY <2>1, <2>2
  <2>4. /\ batch'[LoopId] = queued[loop.class]
        /\ \A c \in Senders : batch'[c] = batch[c]
        /\ queued'[loop.class] = {}
        /\ \A k \in Classes : queued'[k] \subseteq queued[k]
    BY <1>0, <2>1
  <2>5. \A k \in Classes : \A d \in queued'[k] :
          call'[d].class = k /\ pc'[d] = "returned" /\ d \notin fanned'
    BY <2>1, <2>4
  <2>6. \A d \in batch'[LoopId] :
          /\ pc'[d] = "returned" /\ d \notin fanned'
          /\ call'[d].class = loop'.class /\ loop'.step \in {"due", "drain", "final"}
          /\ d \notin queued'[call'[d].class]
    BY <2>1, <2>2, <2>4, SMTT(30)
  <2>7. \A d \in Senders : batch'[d] = IF pc'[d] \in {"flush", "send"} THEN {d} ELSE {}
    <3> TAKE d \in Senders
    <3>1. pc'[d] = pc[d] /\ batch'[d] = batch[d]
      BY <2>1, <2>4
    <3> QED
      BY <3>1, Zenon
  <2>8. \A d \in fanned' : pc'[d] \in {"clear", "returned"}
    BY <2>1
  <2> QED
    BY <2>3, <2>5, <2>6, <2>7, <2>8
<1>7. CASE LoopFlush /\ UNCHANGED <<late, call>>
  BY <1>0, <1>7 DEF LoopFlush, FlushReturns, LoopGoesOn
<1>8. CASE RequeueBatch /\ UNCHANGED <<late, call>>
  BY <1>0, <1>8 DEF RequeueBatch, LoopGoesOn
<1>9. CASE UNCHANGED batchVars
  BY <1>9 DEF batchVars
<1> QED
  BY <1>1, <1>2, <1>3, <1>4, <1>5, <1>6, <1>7, <1>8, <1>9 DEF BatchNext, LoopStep

\* The events stay in place in every behaviour.
THEOREM EventsPlaced == BatchSpec => []Placed
  BY InitPlaced, StepPlaced, PTL DEF BatchSpec
-----------------------------------------------------------------------------
(* No event is lost or fanned out twice.                                   *)

\* What is pending stays so when the queues and the batches do.
LEMMA PendingKept ==
  ASSUME UNCHANGED <<queued, batch>>
  PROVE  UNCHANGED (InQueues \union Taken)
  BY DEF InQueues, Taken

\* A step of the batcher submits one event, fans a batch of pending events
\* out, or leaves both sets alone.
LEMMA StepFans ==
  Placed /\ [BatchNext]_batchVars =>
    [Promise!Next]_<<InQueues \union Taken, fanned>>
<1> DEFINE pend == InQueues \union Taken
<1> SUFFICES ASSUME Placed, [BatchNext]_batchVars
             PROVE  Promise!Next \/ UNCHANGED <<pend, fanned>>
  BY DEF pend
<1>a. BatchTypeOK /\ \A c \in Senders : c \in Holders /\ c # LoopId /\ call[c].class \in Classes
  BY BatcherAssumption, SMTT(30) DEF Placed, BatchTypeOK, Holders
<1>b. LoopId \in Holders
  BY DEF Holders
<1>c. \A e : e \in pend <=> \/ \E k \in Classes : e \in queued[k]
                           \/ \E a \in Holders : e \in batch[a]
  BY DEF InQueues, Taken, Classes
<1>d. \A e : e \in pend' <=> \/ \E k \in Classes : e \in queued'[k]
                            \/ \E a \in Holders : e \in batch'[a]
  BY DEF InQueues, Taken, Classes
<1>e. ASSUME NEW d \in Senders, NEW e, e \in batch[d]
      PROVE  e = d /\ pc[d] \in {"flush", "send"}
  <2>1. batch[d] = IF pc[d] \in {"flush", "send"} THEN {d} ELSE {}
    BY Zenon DEF Placed
  <2> QED
    BY <1>e, <2>1
<1> HIDE DEF pend
<1>1. CASE UNCHANGED <<queued, batch, fanned>>
  BY <1>1, PendingKept DEF pend
<1>2. ASSUME NEW c \in Senders, Broadcast(c), UNCHANGED call PROVE Promise!Submit(c)
  <2>1. pc[c] = "idle" /\ UNCHANGED fanned
    BY <1>2 DEF Broadcast, OverflowCall, EnqueueSync, EnqueueAsync, SendDirect
  <2>2. c \notin pend \union fanned
    <3>1. c \notin fanned /\ c \notin batch[LoopId] /\ \A k \in Classes : c \notin queued[k]
      BY <2>1 DEF Placed
    <3>2. \A d \in Senders : c \notin batch[d]
      BY <1>e, <2>1
    <3> QED
      BY <1>c, <3>1, <3>2 DEF Holders
  <2>3. \/ EnqueueEvent(c) \/ FlushAlone(c, "send") \/ FlushAlone(c, "flush")
    BY <1>2 DEF Broadcast, OverflowCall, EnqueueSync, EnqueueAsync, SendDirect
  <2>4. CASE EnqueueEvent(c)
    <3>1. \A k \in Classes : queued'[k] = IF k = call[c].class THEN queued[k] \union {c} ELSE queued[k]
      BY <1>a, <2>4 DEF EnqueueEvent, BatchTypeOK
    <3>2. batch' = batch
      BY <2>4 DEF EnqueueEvent
    <3>3. \A e : e \in pend' <=> e \in pend \/ e = c
      BY <1>a, <1>c, <1>d, <3>1, <3>2
    <3> QED
      BY <2>1, <2>2, <3>3 DEF Promise!Submit, pend
  <2>5. CASE FlushAlone(c, "send") \/ FlushAlone(c, "flush")
    <3>1. \A a \in Holders : batch'[a] = IF a = c THEN {c} ELSE batch[a]
      BY <1>a, <2>5 DEF FlushAlone, BatchTypeOK
    <3>2. queued' = queued
      BY <2>5 DEF FlushAlone
    <3>3. batch[c] = {}
      BY <2>1 DEF Placed
    <3>4. \A e : e \in pend' <=> e \in pend \/ e = c
      BY <1>a, <1>c, <1>d, <3>1, <3>2, <3>3
    <3> QED
      BY <2>1, <2>2, <3>4 DEF Promise!Submit, pend
  <2> QED
    BY <2>3, <2>4, <2>5
<1>3. ASSUME NEW a \in Holders, FlushReturns(a), UNCHANGED queued,
             batch[a] # {}, batch[a] \intersect fanned = {},
             \A k \in Classes : batch[a] \intersect queued[k] = {},
             \A b \in Holders \ {a} : batch[a] \intersect batch[b] = {}
      PROVE  Promise!Fan(batch[a])
  <2>1. \A b \in Holders : batch'[b] = IF b = a THEN {} ELSE batch[b]
    BY <1>a, <1>3 DEF FlushReturns, BatchTypeOK
  <2>2. \A e : e \in pend' <=> e \in pend /\ e \notin batch[a]
    BY <1>3, <1>c, <1>d, <2>1
  <2>3. batch[a] \subseteq pend
    BY <1>c
  <2>4. fanned' = fanned \union batch[a]
    BY <1>3 DEF FlushReturns
  <2> QED
    BY <1>3, <2>2, <2>3, <2>4 DEF Promise!Fan, pend
<1>4. ASSUME NEW c \in Senders, CallerFlush(c) PROVE Promise!Fan(batch[c])
  <2>1. batch[c] = {c} /\ pc[c] \in {"flush", "send"} /\ FlushReturns(c) /\ UNCHANGED queued
    BY <1>4 DEF CallerFlush, Placed
  <2>2. c \notin fanned /\ c \notin batch[LoopId] /\ \A k \in Classes : c \notin queued[k]
    BY <2>1 DEF Placed
  <2>3. \A b \in Holders \ {c} : batch[c] \intersect batch[b] = {}
    BY <1>e, <2>1, <2>2, SMTT(30) DEF Holders
  <2> QED
    BY <1>3, <1>a, <2>1, <2>2, <2>3
<1>5. ASSUME LoopFlush PROVE Promise!Fan(batch[LoopId])
  <2>1. batch[LoopId] # {} /\ FlushReturns(LoopId) /\ UNCHANGED queued
    BY <1>5 DEF LoopFlush
  <2>2. \A c \in batch[LoopId] :
          /\ c \in Senders /\ pc[c] = "returned" /\ c \notin fanned
          /\ c \notin queued[call[c].class]
    BY <1>a, <1>b DEF Placed, BatchTypeOK
  <2>3. \A c \in batch[LoopId], k \in Classes : c \notin queued[k]
    BY <2>2 DEF Placed
  <2>4. \A c \in batch[LoopId], d \in Senders : c \notin batch[d]
    BY <1>e, <2>2
  <2> QED
    BY <1>3, <1>b, <2>1, <2>2, <2>3, <2>4 DEF Holders
<1>6. ASSUME TakeBatch PROVE UNCHANGED <<pend, fanned>>
  <2>1. /\ batch[LoopId] = {} /\ loop.class \in Classes /\ UNCHANGED fanned
        /\ \A k \in Classes : queued'[k] = IF k = loop.class THEN {} ELSE queued[k]
        /\ \A a \in Holders : batch'[a] = IF a = LoopId THEN queued[loop.class] ELSE batch[a]
    BY <1>6, <1>a, <1>b DEF TakeBatch, BatchTypeOK
  <2>2. \A e : e \in pend' <=> e \in pend
    BY <1>b, <1>c, <1>d, <2>1
  <2> QED
    BY <2>1, <2>2 DEF pend
<1>7. ASSUME RequeueBatch PROVE UNCHANGED <<pend, fanned>>
  <2>1. /\ loop.class \in Classes /\ UNCHANGED fanned
        /\ \A k \in Classes :
             queued'[k] = IF k = loop.class THEN batch[LoopId] \union queued[k] ELSE queued[k]
        /\ \A a \in Holders : batch'[a] = IF a = LoopId THEN {} ELSE batch[a]
    BY <1>7, <1>a, <1>b DEF RequeueBatch, BatchTypeOK
  <2>2. \A e : e \in pend' <=> e \in pend
    BY <1>b, <1>c, <1>d, <2>1
  <2> QED
    BY <2>1, <2>2 DEF pend
<1>8. ASSUME NewBatcher \/ CloseBatcher \/ LoopSelect \/ (\E c \in Senders : DoneFlush(c))
                \/ UNCHANGED batchVars
      PROVE  UNCHANGED <<queued, batch, fanned>>
  BY <1>8 DEF NewBatcher, CloseBatcher, LoopSelect, DoneFlush, batchVars
<1>9. \A c \in Holders : batch[c] \in SUBSET Senders
  BY <1>a DEF BatchTypeOK
<1> QED
  BY <1>1, <1>2, <1>4, <1>5, <1>6, <1>7, <1>8, <1>9, <1>a, <1>b
     DEF BatchNext, LoopStep, BroadcastReturns, Promise!Next

\* KeepsFanout for any calls, queue cap and batch size: what enqueuePurge and
\* its siblings accept, flushDue takes and puts back, and drainFlush sends is
\* fanned out at most once and never dropped.
THEOREM FanoutKept == BatchSpec => KeepsFanout
<1>1. BatchInit => Promise!Init
  <2> SUFFICES ASSUME BatchInit PROVE Promise!Init
    OBVIOUS
  <2>1. \A a \in Holders : batch[a] = {}
    BY DEF BatchInit
  <2> QED
    BY <2>1 DEF BatchInit, Promise!Init, InQueues, Taken, Classes
<1> QED
  BY <1>1, EventsPlaced, StepFans, PTL DEF BatchSpec, KeepsFanout, Promise!Spec
-----------------------------------------------------------------------------
(* The queues are bounded.                                                 *)

\* QueueBounded is inductive together with this: the queue the loop's batch
\* came from has grown by calls alone since, and a call stops at the cap.
Room ==
  batch[LoopId] # {} => Cardinality(queued[loop.class]) <= QueueCap

\* A set of events is finite.
LEMMA EventsFinite ==
  ASSUME NEW S, S \subseteq Senders
  PROVE  IsFiniteSet(S) /\ Cardinality(S) \in Nat
  BY BatcherAssumption, FS_Subset, FS_CardinalityType

\* A set one element larger, and the union of two sets, are no larger than
\* the parts allow.
LEMMA AddBound ==
  ASSUME NEW S, IsFiniteSet(S), NEW e, NEW n \in Nat, Cardinality(S) < n
  PROVE  Cardinality(S \union {e}) \in Nat /\ Cardinality(S \union {e}) <= n
<1>1. Cardinality(S) \in Nat
  BY FS_CardinalityType
<1>2. Cardinality(S \union {e}) = IF e \in S THEN Cardinality(S) ELSE Cardinality(S) + 1
  BY FS_AddElement
<1> QED
  BY <1>1, <1>2, SMTT(30)

LEMMA UnionBound ==
  ASSUME NEW S, IsFiniteSet(S), NEW T, IsFiniteSet(T), NEW m \in Nat, NEW n \in Nat,
         Cardinality(S) < m, Cardinality(T) <= n
  PROVE  Cardinality(S \union T) < n + m
<1>1. Cardinality(S) \in Nat /\ Cardinality(T) \in Nat
  BY FS_CardinalityType
<1>2. IsFiniteSet(S \intersect T)
  BY FS_Intersection
<1>3. Cardinality(S \intersect T) \in Nat
  BY <1>2, FS_CardinalityType
<1>4. Cardinality(S \union T) = Cardinality(S) + Cardinality(T) - Cardinality(S \intersect T)
  BY FS_Union
<1> QED
  BY <1>1, <1>3, <1>4, SMTT(30)

\* Every step keeps the queues within bounds.
LEMMA StepBounded ==
  Placed /\ QueueBounded /\ Room /\ [BatchNext]_batchVars => QueueBounded' /\ Room'
<1> SUFFICES ASSUME Placed, QueueBounded, Room, [BatchNext]_batchVars
             PROVE  QueueBounded' /\ Room'
  OBVIOUS
<1>a. /\ BatchTypeOK /\ loop.class \in Classes /\ LoopId \in Holders
      /\ \A c \in Senders : c # LoopId /\ call[c].class \in Classes
  BY BatcherAssumption, SMTT(30) DEF Placed, BatchTypeOK, Holders
<1>b. /\ BatchSize \in Nat \ {0} /\ QueueCap \in Nat \ {0}
      /\ \A k \in Classes : queued[k] \subseteq Senders /\ Cardinality(queued[k]) \in Nat
  BY BatcherAssumption, <1>a, EventsFinite DEF BatchTypeOK
<1>1. ASSUME UNCHANGED queued, batch'[LoopId] # {} => UNCHANGED <<loop, batch>>
      PROVE  QueueBounded' /\ Room'
  BY <1>1 DEF QueueBounded, Room
<1>2. ASSUME NEW c \in Senders, Broadcast(c) PROVE QueueBounded' /\ Room'
  <2>1. CASE EnqueueEvent(c)
    <3>1. /\ Cardinality(QueueOf(c)) < QueueCap
          /\ UNCHANGED <<loop, batch>>
          /\ \A k \in Classes :
               queued'[k] = IF k = call[c].class THEN queued[k] \union {c} ELSE queued[k]
      BY <1>2, <1>a, <2>1
         DEF Broadcast, OverflowCall, EnqueueSync, EnqueueAsync, SendDirect,
             EnqueueEvent, FlushAlone, BatchTypeOK
    <3>2. /\ Cardinality(queued[call[c].class] \union {c}) <= QueueCap
          /\ Cardinality(queued[call[c].class] \union {c}) \in Nat
      <4>1. IsFiniteSet(queued[call[c].class]) /\ Cardinality(queued[call[c].class]) < QueueCap
        BY <1>a, <1>b, <3>1, EventsFinite DEF QueueOf
      <4> QED
        BY <1>b, <4>1, AddBound
    <3>3. QueueBounded'
      <4> SUFFICES ASSUME NEW k \in Classes
                   PROVE  Cardinality(queued'[k]) < QueueCap + BatchSize
        BY DEF QueueBounded
      <4>1. CASE k = call[c].class
        <5>1. queued'[k] = queued[call[c].class] \union {c}
          BY <3>1, <4>1
        <5> QED
          BY <1>b, <3>2, <5>1, SMTT(30)
      <4>2. CASE k # call[c].class
        BY <3>1, <4>2 DEF QueueBounded
      <4> QED
        BY <4>1, <4>2
    <3>4. Room'
      <4>1. \/ queued'[loop.class] = queued[loop.class]
            \/ Cardinality(queued'[loop.class]) <= QueueCap
        BY <1>a, <3>1, <3>2
      <4>2. batch' = batch /\ loop' = loop
        BY <3>1
      <4> QED
        BY <4>1, <4>2, Zenon DEF Room
    <3> QED
      BY <3>3, <3>4
  <2>2. CASE FlushAlone(c, "send") \/ FlushAlone(c, "flush")
    <3>1. UNCHANGED <<queued, loop>> /\ batch'[LoopId] = batch[LoopId]
      BY <1>2, <1>a, <2>2
         DEF Broadcast, OverflowCall, EnqueueSync, EnqueueAsync, SendDirect,
             FlushAlone, BatchTypeOK
    <3> QED
      BY <3>1 DEF QueueBounded, Room
  <2> QED
    BY <1>2, <2>1, <2>2 DEF Broadcast, OverflowCall, EnqueueSync, EnqueueAsync, SendDirect
<1>3. ASSUME NEW c \in Senders, BroadcastReturns(c) PROVE QueueBounded' /\ Room'
  <2>1. UNCHANGED <<queued, loop>> /\ batch'[LoopId] = batch[LoopId]
    BY <1>3, <1>a DEF BroadcastReturns, CallerFlush, DoneFlush, FlushReturns, BatchTypeOK
  <2> QED
    BY <2>1 DEF QueueBounded, Room
<1>4. ASSUME LoopSelect PROVE QueueBounded' /\ Room'
  <2>1. batch[LoopId] = {}
    BY <1>4 DEF LoopSelect, Placed
  <2> QED
    BY <1>1, <1>4, <2>1 DEF LoopSelect
<1>5. ASSUME TakeBatch PROVE QueueBounded' /\ Room'
  <2>1. /\ \A k \in Classes : queued'[k] = IF k = loop.class THEN {} ELSE queued[k]
        /\ batch'[LoopId] # {} => UNCHANGED loop
    BY <1>5, <1>a DEF TakeBatch, BatchTypeOK
  <2>2. Cardinality({}) = 0
    BY FS_EmptySet
  <2> QED
    BY <1>a, <1>b, <2>1, <2>2, SMTT(30) DEF QueueBounded, Room
<1>6. ASSUME LoopFlush PROVE QueueBounded' /\ Room'
  <2>1. UNCHANGED queued /\ batch'[LoopId] = {}
    BY <1>6, <1>a DEF LoopFlush, FlushReturns, BatchTypeOK
  <2> QED
    BY <1>1, <2>1
<1>7. ASSUME RequeueBatch PROVE QueueBounded' /\ Room'
  <2>1. /\ \A k \in Classes :
             queued'[k] = IF k = loop.class THEN batch[LoopId] \union queued[k] ELSE queued[k]
        /\ batch'[LoopId] = {}
        /\ Cardinality(batch[LoopId]) < BatchSize
        /\ Cardinality(queued[loop.class]) <= QueueCap
    BY <1>7, <1>a DEF RequeueBatch, Room, BatchTypeOK
  <2>2. /\ IsFiniteSet(batch[LoopId]) /\ Cardinality(batch[LoopId]) \in Nat
        /\ IsFiniteSet(queued[loop.class])
    BY <1>a, <1>b, EventsFinite DEF BatchTypeOK
  <2>3. Cardinality(batch[LoopId] \union queued[loop.class]) < QueueCap + BatchSize
    BY <1>b, <2>1, <2>2, UnionBound
  <2> QED
    BY <2>1, <2>3 DEF QueueBounded, Room
<1>8. ASSUME NewBatcher \/ CloseBatcher \/ UNCHANGED batchVars PROVE QueueBounded' /\ Room'
  <2>1. UNCHANGED <<queued, batch>> /\ (batch[LoopId] # {} => UNCHANGED loop)
    BY <1>8 DEF NewBatcher, CloseBatcher, batchVars, Placed
  <2> QED
    BY <1>1, <2>1
<1> QED
  BY <1>2, <1>3, <1>4, <1>5, <1>6, <1>7, <1>8 DEF BatchNext, LoopStep

\* QueueBounded for any calls, queue cap and batch size: flushDue puts a small
\* batch back without looking at broadcastQueueCap, and no sequence of puts
\* and calls takes a queue a whole batch over it.
THEOREM QueuesBounded == BatchSpec => []QueueBounded
<1>1. BatchInit => QueueBounded /\ Room
  <2> SUFFICES ASSUME BatchInit PROVE QueueBounded /\ Room
    OBVIOUS
  <2>1. Cardinality({}) = 0 /\ batch[LoopId] = {}
    BY FS_EmptySet DEF BatchInit, Holders
  <2>2. \A k \in Classes : queued[k] = {}
    BY DEF BatchInit
  <2>3. 0 < QueueCap + BatchSize
    BY BatcherAssumption, SMTT(30)
  <2> QED
    BY <2>1, <2>2, <2>3 DEF QueueBounded, Room
<1> QED
  BY <1>1, EventsPlaced, StepBounded, PTL DEF BatchSpec
-----------------------------------------------------------------------------
(* The settings.                                                           *)

\* A node started without a reaper keeps a window of zero.
Windowless(boot, run) == ~ReaperRuns(boot) => run["eject_for"] = 0

\* What a reload r lists, has applied and has still to apply, at a node
\* started with boot that runs the values run and answers against cur.
Tells(r, boot, cur, run) ==
  /\ r.at # "idle" =>
       /\ r.cfg.ok
       /\ r.todo \subseteq Registry(r.cfg)
       /\ "eject_for" \in r.todo => ReaperRuns(boot)
       /\ r.cfg.other # boot.other => "other" \in r.needs
       /\ ~r.cfg.pool => "pool" \in r.needs
       /\ \/ r.mixed
          \/ \A k \in Registry(r.cfg) \ (r.needs \union r.todo) : run[k] = FileValue(r.cfg, k)
  /\ r.at = "told" => r.todo = {} /\ cur = r.cfg

\* What was acknowledged of a set s and not written since, runs.
Acknowledged(s, runs) == \A n \in s.acked \ s.reset : s.knob \in Knobs /\ runs[n][s.knob] = s.value

\* A post carries what its set is about.
Carries ==
  /\ \A n \in Fleet : setting[n].nth <= setCount
  /\ \A p \in posts :
       /\ p.nth <= setCount
       /\ setting[p.from].nth = p.nth => setting[p.from].knob = p.knob /\ setting[p.from].value = p.value

NodesTell ==
  \A n \in Fleet :
    Windowless(bootCfg[n], live[n]) /\ Tells(reload[n], bootCfg[n], hotCfg[n], live[n])
Agreed == Acknowledged(lastSet, live) /\ \A n \in Fleet : Acknowledged(setting[n], live)

HotInv == HotTypeOK /\ NodesTell /\ Carries /\ Agreed

\* The files of a plan.
LEMMA FilesFit ==
  ASSUME HotTypeOK
  PROVE  /\ PlanFiles \subseteq Files
         /\ \A cfg \in hotPlan.boot : cfg.ok
         /\ hotPlan.issuers \subseteq Fleet /\ hotPlan.reloads \subseteq Fleet
         /\ \A n \in Fleet : file[n] \in Files /\ bootCfg[n] \in Files /\ hotCfg[n] \in Files
BY HotAssumption DEF HotTypeOK, PlanFiles

\* The values a node runs and falls back to are values.
LEMMA ValuesFit ==
  ASSUME NEW cfg \in Files
  PROVE  /\ AtBoot(cfg) \in [Knobs -> Values]
         /\ \A k \in Knobs : FileValue(cfg, k) \in Values
         /\ Registry(cfg) \subseteq Knobs
BY SMTT(30) DEF Files, AtBoot, Values, Default, FileValue, Registry, Knobs

LEMMA NoSetFits == NoSet \in HotSets /\ \A runs : Acknowledged(NoSet, runs)
BY HotAssumption, SMTT(30) DEF NoSet, HotSets, Acknowledged, Values, Default

LEMMA NoReloadFits ==
  ASSUME NEW cfg \in Files
  PROVE  NoReload(cfg) \in Reloads /\ \A boot, cur, run : Tells(NoReload(cfg), boot, cur, run)
BY DEF NoReload, Reloads, Tells

\* A set that is told of a write remains a set, and what it had acknowledged
\* elsewhere still runs.
LEMMA ResetFits ==
  ASSUME NEW s \in HotSets, NEW n \in Fleet, NEW written \in SUBSET Knobs
  PROVE  /\ ResetOf(s, n, written) \in HotSets
         /\ ResetOf(s, n, written).nth = s.nth
         /\ ResetOf(s, n, written).knob = s.knob
         /\ ResetOf(s, n, written).value = s.value
BY DEF ResetOf, HotSets

LEMMA WriteKeeps ==
  ASSUME NEW s \in HotSets, NEW n \in Fleet, NEW written \in SUBSET Knobs,
         Acknowledged(s, live),
         \A m \in Fleet, k \in Knobs : m # n \/ k \notin written => live'[m][k] = live[m][k]
  PROVE  Acknowledged(ResetOf(s, n, written), live')
BY SMTT(30) DEF Acknowledged, ResetOf, HotSets

LEMMA BootWindow == ASSUME NEW cfg \in Files PROVE Windowless(cfg, AtBoot(cfg))
BY SMTT(30) DEF Windowless, AtBoot, ReaperRuns, Files, Values, Knobs, Default

LEMMA HotStart == HotInit => HotInv
<1>. SUFFICES ASSUME HotInit PROVE HotInv
  OBVIOUS
<1>1. PICK cfg \in hotPlan.boot :
        /\ file = [n \in Fleet |-> cfg]
        /\ bootCfg = file /\ hotCfg = file
        /\ live = [n \in Fleet |-> AtBoot(cfg)]
        /\ reload = [n \in Fleet |-> NoReload(cfg)]
  BY DEF HotInit
<1>2. cfg \in Files /\ cfg.ok /\ hotPlan \in HotPlans
  BY HotAssumption DEF HotInit
<1>3. HotTypeOK
  <2>1. AtBoot(cfg) \in [Knobs -> Values] /\ NoReload(cfg) \in Reloads /\ NoReload(cfg).cfg = cfg
    BY <1>2, ValuesFit, NoReloadFits DEF NoReload
  <2>2. cfg \in PlanFiles
    BY DEF PlanFiles
  <2>3. live \in [Fleet -> [Knobs -> Values]] /\ reload \in [Fleet -> Reloads]
    BY <1>1, <2>1
  <2>4. setting \in [Fleet -> HotSets] /\ lastSet \in HotSets
    BY NoSetFits DEF HotInit
  <2>5. setCount \in 0..HotSetsMax /\ edits \in 0..EditsMax
    BY HotAssumption, SMTT(30) DEF HotInit
  <2>6. posts \subseteq [from : Fleet, to : Fleet, nth : 1..HotSetsMax, knob : Knobs, value : Values]
    BY DEF HotInit
  <2>7. \A n \in Fleet : bootCfg[n].ok /\ hotCfg[n].ok /\ reload[n].cfg \in PlanFiles
    BY <1>1, <1>2, <2>1, <2>2
  <2>. QED  BY <1>1, <1>2, <2>2, <2>3, <2>4, <2>5, <2>6, <2>7 DEF HotTypeOK
<1>4. Windowless(cfg, AtBoot(cfg))
  BY <1>2, BootWindow
<1>5. NodesTell
  BY <1>1, <1>2, <1>4, NoReloadFits DEF NodesTell
<1>6. Carries /\ Agreed
  BY NoSetFits, SMTT(30) DEF HotInit, Carries, Agreed, NoSet
<1>. QED  BY <1>3, <1>5, <1>6 DEF HotInv

\* What holds of the files, the reloads and the running values of the nodes
\* that a step leaves alone, holds after it.
LEMMA OthersTell ==
  ASSUME NodesTell, NEW n \in Fleet,
         \A m \in Fleet \ {n} :
           /\ reload'[m] = reload[m] /\ bootCfg'[m] = bootCfg[m]
           /\ hotCfg'[m] = hotCfg[m] /\ live'[m] = live[m],
         Windowless(bootCfg'[n], live'[n]),
         Tells(reload'[n], bootCfg'[n], hotCfg'[n], live'[n])
  PROVE  NodesTell'
BY DEF NodesTell

LEMMA EditKeeps ==
  ASSUME HotInv, NEW n \in hotPlan.reloads, Edit(n) PROVE HotInv'
<1>1. n \in Fleet
  BY FilesFit DEF HotInv
<1>2. HotTypeOK'
  BY <1>1, HotAssumption, SMTT(30) DEF HotInv, HotTypeOK, PlanFiles, Edit
<1>3. NodesTell' /\ Carries' /\ Agreed'
  BY DEF HotInv, NodesTell, Carries, Agreed, Edit
<1>. QED  BY <1>2, <1>3 DEF HotInv

LEMMA ReloadBeginsKeeps ==
  ASSUME HotInv, NEW n \in hotPlan.reloads, ReloadBegins(n) PROVE HotInv'
<1>1. n \in Fleet /\ file[n] \in Files /\ bootCfg[n] \in Files
  BY FilesFit DEF HotInv
<1>. DEFINE cfg == file[n]
            refused == {k \in Differing(n, cfg) : ~Settable(cfg, bootCfg[n], k)}
            r == [at |-> "applying", cfg |-> cfg, todo |-> Differing(n, cfg) \ refused,
                  needs |-> refused \union ColdRows(n, cfg), mixed |-> FALSE]
<1>2. /\ cfg.ok /\ reload' = [reload EXCEPT ![n] = r]
      /\ UNCHANGED <<hotPlan, file, bootCfg, hotCfg, live, setting, posts, lastSet, setCount, edits>>
  BY DEF ReloadBegins
<1>3. Differing(n, cfg) \subseteq Registry(cfg) /\ refused \subseteq Registry(cfg)
  BY DEF Differing
<1>4. Registry(cfg) \subseteq Knobs /\ Knobs \subseteq Rows
  BY <1>1, ValuesFit DEF Rows
<1>5. r \in Reloads
  BY <1>1, <1>3, <1>4 DEF Reloads, ColdRows
<1>6. HotTypeOK'
  BY <1>1, <1>2, <1>5 DEF HotInv, HotTypeOK, PlanFiles
<1>7. Tells(r, bootCfg[n], hotCfg[n], live[n])
  <2>1. "eject_for" \in r.todo => ReaperRuns(bootCfg[n])
    BY DEF Settable
  <2>2. cfg.other # bootCfg[n].other => "other" \in r.needs
    BY DEF ColdRows, Covered, Rows, Registry, Knobs, PoolKnobs
  <2>3. ~cfg.pool => "pool" \in r.needs
    BY DEF ColdRows, Covered, Rows, Registry, Knobs, PoolKnobs
  <2>4. \A k \in Registry(cfg) \ (r.needs \union r.todo) : live[n][k] = FileValue(cfg, k)
    BY DEF Differing
  <2>. QED  BY <1>2, <1>3, <2>1, <2>2, <2>3, <2>4 DEF Tells
<1>8. NodesTell'
  BY <1>1, <1>2, <1>7, OthersTell DEF HotInv, HotTypeOK, NodesTell
<1>9. Carries' /\ Agreed'
  BY <1>2 DEF HotInv, Carries, Agreed
<1>. QED  BY <1>6, <1>8, <1>9 DEF HotInv

\* The step writes v to knob k of n.
Writes(n, k, v) == live' = [live EXCEPT ![n][k] = v]

LEMMA OneWrite ==
  ASSUME HotTypeOK, NEW n \in Fleet, NEW k \in Knobs, NEW v \in Values, Writes(n, k, v)
  PROVE  /\ live' \in [Fleet -> [Knobs -> Values]]
         /\ live'[n] = [live[n] EXCEPT ![k] = v] /\ live'[n][k] = v
         /\ \A m \in Fleet \ {n} : live'[m] = live[m]
         /\ \A m \in Fleet, j \in Knobs : m # n \/ j \notin {k} => live'[m][j] = live[m][j]
BY DEF HotTypeOK, Writes

LEMMA WriteTakes ==
  ASSUME HotTypeOK, NEW n \in Fleet, NEW k \in Knobs, NEW v \in Values, Writes(n, k, v)
  PROVE  live'[n][k] = v
BY DEF HotTypeOK, Writes

LEMMA ReloadAppliesKeeps ==
  ASSUME HotInv, NEW n \in hotPlan.reloads, NEW k \in Knobs, ReloadApplies(n, k) PROVE HotInv'
<1>. DEFINE v == FileValue(reload[n].cfg, k)
<1>1. n \in Fleet /\ reload[n] \in Reloads /\ reload[n].cfg \in Files /\ v \in Values
  BY FilesFit, ValuesFit DEF HotInv, HotTypeOK, Reloads
<1>2. /\ reload[n].at = "applying" /\ k \in reload[n].todo
      /\ Writes(n, k, v)
      /\ reload' = [reload EXCEPT ![n] = [reload[n] EXCEPT !.todo = reload[n].todo \ {k}]]
      /\ setting' = [m \in Fleet |-> ResetOf(setting[m], n, {k})]
      /\ lastSet' = ResetOf(lastSet, n, {k})
      /\ UNCHANGED <<hotPlan, file, bootCfg, hotCfg, posts, setCount, edits>>
  BY DEF ReloadApplies, Overwritten, Writes
<1>3. HotTypeOK
  BY DEF HotInv
<1>. HIDE DEF v
<1>4. /\ live' \in [Fleet -> [Knobs -> Values]]
      /\ live'[n] = [live[n] EXCEPT ![k] = v] /\ live'[n][k] = v
      /\ \A m \in Fleet \ {n} : live'[m] = live[m]
      /\ \A m \in Fleet, j \in Knobs : m # n \/ j \notin {k} => live'[m][j] = live[m][j]
  BY <1>1, <1>2, <1>3, OneWrite
<1>5. /\ setting \in [Fleet -> HotSets] /\ lastSet \in HotSets /\ reload \in [Fleet -> Reloads]
      /\ {k} \in SUBSET Knobs
  BY <1>3 DEF HotTypeOK
<1>6. HotTypeOK'
  <2>1. setting' \in [Fleet -> HotSets] /\ lastSet' \in HotSets
    BY <1>1, <1>2, <1>5, ResetFits
  <2>2. reload' \in [Fleet -> Reloads] /\ \A m \in Fleet : reload'[m].cfg = reload[m].cfg
    BY <1>1, <1>2, <1>5 DEF Reloads
  <2>. QED  BY <1>2, <1>3, <1>4, <2>1, <2>2 DEF HotTypeOK, PlanFiles
<1>7. NodesTell'
  <2>1. reload'[n] = [reload[n] EXCEPT !.todo = reload[n].todo \ {k}]
    BY <1>1, <1>2, <1>5
  <2>2. Windowless(bootCfg[n], live[n]) /\ Tells(reload[n], bootCfg[n], hotCfg[n], live[n])
    BY <1>1 DEF HotInv, NodesTell
  <2>3. /\ reload'[n].at = "applying" /\ reload'[n].cfg = reload[n].cfg
        /\ reload'[n].needs = reload[n].needs /\ reload'[n].mixed = reload[n].mixed
        /\ reload'[n].todo = reload[n].todo \ {k}
    BY <1>1, <1>2, <2>1 DEF Reloads
  <2>4. \A j \in Knobs : j # k => live'[n][j] = live[n][j]
    BY <1>1, <1>4
  <2>5. Windowless(bootCfg[n], live'[n])
    BY <1>2, <2>2, <2>4 DEF Windowless, Tells, Knobs
  <2>6. Tells(reload'[n], bootCfg[n], hotCfg[n], live'[n])
    <3>1. \A j \in Registry(reload[n].cfg) : j \in Knobs
      BY <1>1, ValuesFit
    <3>2. live'[n][k] = FileValue(reload[n].cfg, k)
      BY <1>4 DEF v
    <3>3. reload[n].mixed \/ \A j \in Registry(reload[n].cfg) \ (reload[n].needs \union reload[n].todo) :
                               live[n][j] = FileValue(reload[n].cfg, j)
      BY <1>2, <2>2 DEF Tells
    <3>4. reload[n].mixed \/ \A j \in Registry(reload[n].cfg) \ (reload[n].needs \union (reload[n].todo \ {k})) :
                               live'[n][j] = FileValue(reload[n].cfg, j)
      BY <2>4, <3>1, <3>2, <3>3
    <3>. QED  BY <1>2, <2>2, <2>3, <3>4 DEF Tells
  <2>7. \A m \in Fleet \ {n} : reload'[m] = reload[m]
    BY <1>1, <1>2, <1>5
  <2>. QED  BY <1>1, <1>2, <1>4, <2>5, <2>6, <2>7, OthersTell DEF HotInv
<1>8. Carries'
  <2>1. \A m \in Fleet : /\ setting'[m].nth = setting[m].nth
                         /\ setting'[m].knob = setting[m].knob
                         /\ setting'[m].value = setting[m].value
    BY <1>1, <1>2, <1>5, ResetFits
  <2>2. \A p \in posts : p.from \in Fleet
    BY <1>3 DEF HotTypeOK
  <2>. QED  BY <1>2, <2>1, <2>2 DEF HotInv, Carries
<1>9. Agreed'
  <2>1. Acknowledged(lastSet, live) /\ \A m \in Fleet : Acknowledged(setting[m], live)
    BY DEF HotInv, Agreed
  <2>2. Acknowledged(lastSet', live')
    BY <1>1, <1>2, <1>4, <1>5, <2>1, WriteKeeps
  <2>3. ASSUME NEW m \in Fleet PROVE Acknowledged(setting'[m], live')
    <3>1. setting'[m] = ResetOf(setting[m], n, {k}) /\ setting[m] \in HotSets
      BY <1>2, <1>5
    <3>. QED  BY <1>1, <1>4, <1>5, <2>1, <3>1, WriteKeeps, SMTT(30)
  <2>. QED  BY <2>2, <2>3 DEF Agreed
<1>. QED  BY <1>6, <1>7, <1>8, <1>9 DEF HotInv

LEMMA ReloadEndsKeeps ==
  ASSUME HotInv, NEW n \in hotPlan.reloads, ReloadEnds(n) PROVE HotInv'
<1>1. n \in Fleet /\ reload[n] \in Reloads
  BY FilesFit DEF HotInv, HotTypeOK
<1>2. /\ reload[n].at = "applying" /\ reload[n].todo = {}
      /\ hotCfg' = [hotCfg EXCEPT ![n] = reload[n].cfg]
      /\ reload' = [reload EXCEPT ![n] = [reload[n] EXCEPT !.at = "told"]]
      /\ UNCHANGED <<hotPlan, file, bootCfg, live, setting, posts, lastSet, setCount, edits>>
  BY DEF ReloadEnds
<1>3. reload[n].cfg \in PlanFiles /\ reload[n].cfg.ok
  BY <1>1, <1>2 DEF HotInv, HotTypeOK, NodesTell, Tells
<1>4. HotTypeOK'
  <2>1. reload' \in [Fleet -> Reloads] /\ \A m \in Fleet : reload'[m].cfg = reload[m].cfg
    BY <1>1, <1>2 DEF HotInv, HotTypeOK, Reloads
  <2>2. hotCfg' \in [Fleet -> PlanFiles] /\ \A m \in Fleet : hotCfg'[m].ok
    BY <1>1, <1>2, <1>3 DEF HotInv, HotTypeOK
  <2>. QED  BY <1>2, <2>1, <2>2 DEF HotInv, HotTypeOK, PlanFiles
<1>5. NodesTell'
  <2>1. /\ reload'[n] = [reload[n] EXCEPT !.at = "told"] /\ hotCfg'[n] = reload[n].cfg
        /\ \A m \in Fleet \ {n} : reload'[m] = reload[m] /\ hotCfg'[m] = hotCfg[m]
    BY <1>1, <1>2 DEF HotInv, HotTypeOK
  <2>2. Windowless(bootCfg[n], live[n]) /\ Tells(reload[n], bootCfg[n], hotCfg[n], live[n])
    BY <1>1 DEF HotInv, NodesTell
  <2>3. Tells(reload'[n], bootCfg[n], hotCfg'[n], live[n])
    BY <1>1, <1>2, <2>1, <2>2, SMTT(30) DEF Tells, Reloads
  <2>. QED  BY <1>1, <1>2, <2>1, <2>2, <2>3, OthersTell DEF HotInv
<1>6. Carries' /\ Agreed'
  BY <1>2 DEF HotInv, Carries, Agreed
<1>. QED  BY <1>4, <1>5, <1>6 DEF HotInv

LEMMA MixedFits ==
  ASSUME NEW r \in Reloads
  PROVE  [r EXCEPT !.mixed = TRUE] \in Reloads /\ [r EXCEPT !.mixed = TRUE].cfg = r.cfg
<1>1. [r EXCEPT !.mixed = TRUE] \in Reloads
  BY DEF Reloads
<1>2. [r EXCEPT !.mixed = TRUE].cfg = r.cfg
  BY DEF Reloads
<1>. QED  BY <1>1, <1>2

\* A knob is set at n by somebody else than the reload of n.
LEMMA SetTells ==
  ASSUME HotInv, NEW n \in Fleet, NEW k \in Knobs, NEW v \in Values,
         Settable(hotCfg[n], bootCfg[n], k),
         Writes(n, k, v), reload' = Mixed(n),
         UNCHANGED <<bootCfg, hotCfg>>
  PROVE  /\ NodesTell' /\ reload' \in [Fleet -> Reloads]
         /\ \A m \in Fleet : reload'[m].cfg = reload[m].cfg
<1>1. /\ reload' = [reload EXCEPT ![n] = [reload[n] EXCEPT !.mixed = TRUE]]
      /\ reload \in [Fleet -> Reloads] /\ live \in [Fleet -> [Knobs -> Values]] /\ HotTypeOK
  BY DEF HotInv, HotTypeOK, Mixed
<1>2. /\ \A m \in Fleet \ {n} : live'[m] = live[m]
      /\ \A j \in Knobs : j # k => live'[n][j] = live[n][j]
  <2>1. HotTypeOK
    BY <1>1
  <2>2. \A m \in Fleet, j \in Knobs : m # n \/ j \notin {k} => live'[m][j] = live[m][j]
    BY <2>1, OneWrite
  <2>3. \A m \in Fleet \ {n} : live'[m] = live[m]
    BY <2>1, OneWrite
  <2>. QED  BY <2>2, <2>3
<1>3. reload'[n] = [reload[n] EXCEPT !.mixed = TRUE] /\ \A m \in Fleet \ {n} : reload'[m] = reload[m]
  BY <1>1
<1>4. Windowless(bootCfg[n], live[n]) /\ Tells(reload[n], bootCfg[n], hotCfg[n], live[n])
  BY DEF HotInv, NodesTell
<1>5. Windowless(bootCfg[n], live'[n])
  BY <1>2, <1>4 DEF Windowless, Settable, Knobs
<1>6. Tells(reload'[n], bootCfg[n], hotCfg[n], live'[n])
  BY <1>1, <1>3, <1>4, SMTT(30) DEF Tells, Reloads
<1>7. NodesTell'
  BY <1>2, <1>3, <1>5, <1>6, OthersTell DEF HotInv
<1>8. [reload[n] EXCEPT !.mixed = TRUE] \in Reloads /\ [reload[n] EXCEPT !.mixed = TRUE].cfg = reload[n].cfg
  BY <1>1, MixedFits
<1>9. reload' \in [Fleet -> Reloads] /\ \A m \in Fleet : reload'[m].cfg = reload[m].cfg
  BY <1>1, <1>3, <1>8
<1>. QED  BY <1>7, <1>9

LEMMA HotSetKeeps ==
  ASSUME HotInv, NEW n \in Fleet, NEW k \in Knobs, NEW v \in Values, HotSet(n, k, v) PROVE HotInv'
<1>. DEFINE to == IF hotPlan.strong THEN Fleet \ {n} ELSE {}
            new == [nth |-> setCount + 1, knob |-> k, value |-> v, waiting |-> to, acked |-> {},
                    reset |-> {}]
            sent == {[from |-> n, to |-> p, nth |-> setCount + 1, knob |-> k, value |-> v] : p \in to}
<1>1. /\ setCount < HotSetsMax /\ setCount' = setCount + 1
      /\ Settable(hotCfg[n], bootCfg[n], k)
      /\ Writes(n, k, v)
      /\ setting' = [[m \in Fleet |-> ResetOf(setting[m], n, {k})] EXCEPT ![n] = new]
      /\ posts' = posts \union sent
      /\ reload' = Mixed(n) /\ lastSet' = NoSet
      /\ UNCHANGED <<hotPlan, file, bootCfg, hotCfg, edits>>
  BY DEF HotSet, Overwritten, Writes
<1>2. v \in Values /\ HotTypeOK /\ setCount \in Nat /\ setCount + 1 \in 1..HotSetsMax
  BY <1>1, HotAssumption, SMTT(30) DEF HotInv, HotTypeOK, Values, Default
<1>3. /\ live' \in [Fleet -> [Knobs -> Values]]
      /\ \A m \in Fleet, j \in Knobs : m # n \/ j \notin {k} => live'[m][j] = live[m][j]
  <2>1. Writes(n, k, v) /\ HotTypeOK /\ v \in Values
    BY <1>1, <1>2
  <2>2. live' \in [Fleet -> [Knobs -> Values]]
    BY <2>1, OneWrite
  <2>3. \A m \in Fleet, j \in Knobs : m # n \/ j \notin {k} => live'[m][j] = live[m][j]
    BY <2>1, OneWrite
  <2>. QED  BY <2>2, <2>3
<1>4. /\ NodesTell' /\ reload' \in [Fleet -> Reloads]
      /\ \A m \in Fleet : reload'[m].cfg = reload[m].cfg
  BY <1>1, <1>2, SetTells
<1>5. new \in HotSets /\ to \in SUBSET Fleet
  BY <1>2, SMTT(30) DEF HotSets
<1>6. /\ setting \in [Fleet -> HotSets] /\ {k} \in SUBSET Knobs
      /\ \A m \in Fleet : ResetOf(setting[m], n, {k}) \in HotSets
  BY <1>2, ResetFits DEF HotTypeOK
<1>. HIDE DEF new
<1>7. /\ setting' \in [Fleet -> HotSets] /\ setting'[n] = new
      /\ \A m \in Fleet \ {n} : setting'[m] = ResetOf(setting[m], n, {k})
  BY <1>1, <1>5, <1>6
<1>8. HotTypeOK'
  <2>1. sent \subseteq [from : Fleet, to : Fleet, nth : 1..HotSetsMax, knob : Knobs, value : Values]
    BY <1>2, <1>5, SMTT(30)
  <2>2. lastSet' \in HotSets /\ setCount' \in 0..HotSetsMax
    BY <1>1, <1>2, NoSetFits, SMTT(30)
  <2>. QED  BY <1>1, <1>2, <1>3, <1>4, <1>7, <2>1, <2>2 DEF HotTypeOK, PlanFiles
<1>9. Carries'
  <2>1. new.nth = setCount + 1 /\ new.knob = k /\ new.value = v
    BY DEF new
  <2>2. \A m \in Fleet \ {n} : /\ setting'[m].nth = setting[m].nth
                               /\ setting'[m].knob = setting[m].knob
                               /\ setting'[m].value = setting[m].value
    BY <1>6, <1>7, ResetFits, SMTT(30)
  <2>3. /\ \A m \in Fleet : setting[m].nth \in Nat /\ setting[m].nth <= setCount
        /\ \A p \in posts : p.from \in Fleet /\ p.nth \in Nat /\ p.nth <= setCount
    BY <1>2, SMTT(30) DEF HotInv, HotTypeOK, Carries, HotSets
  <2>4. \A m \in Fleet : setting'[m].nth <= setCount'
    <3>1. \A i \in Nat : i <= setCount => i <= setCount + 1
      BY <1>2, SMTT(30)
    <3>2. setCount + 1 <= setCount + 1
      BY <1>2, SMTT(30)
    <3>. QED  BY <1>1, <1>7, <2>1, <2>2, <2>3, <3>1, <3>2
  <2>5. ASSUME NEW p \in posts'
        PROVE  /\ p.nth <= setCount'
               /\ setting'[p.from].nth = p.nth =>
                    setting'[p.from].knob = p.knob /\ setting'[p.from].value = p.value
    <3>1. CASE p \in sent
      BY <1>1, <1>2, <1>7, <2>1, <3>1, SMTT(30)
    <3>2. CASE p \in posts /\ p.from = n
      <4>1. \A i \in Nat : i <= setCount => i <= setCount + 1 /\ setCount + 1 # i
        BY <1>2, SMTT(30)
      <4>. QED  BY <1>1, <1>7, <2>1, <2>3, <3>2, <4>1
    <3>3. CASE p \in posts /\ p.from # n
      <4>1. \A i \in Nat : i <= setCount => i <= setCount + 1
        BY <1>2, SMTT(30)
      <4>2. p.nth <= setCount'
        BY <1>1, <2>3, <3>3, <4>1
      <4>3. setting[p.from].nth = p.nth => setting[p.from].knob = p.knob /\ setting[p.from].value = p.value
        BY <3>3 DEF HotInv, Carries
      <4>4. p.from \in Fleet \ {n}
        BY <2>3, <3>3
      <4>. QED  BY <2>2, <4>2, <4>3, <4>4
    <3>. QED  BY <1>1, <3>1, <3>2, <3>3
  <2>. QED  BY <2>4, <2>5 DEF Carries
<1>10. Agreed'
  <2>1. Acknowledged(setting'[n], live')
    BY <1>7, SMTT(30) DEF Acknowledged, new
  <2>2. ASSUME NEW m \in Fleet \ {n} PROVE Acknowledged(setting'[m], live')
    <3>1. Acknowledged(setting[m], live) /\ setting[m] \in HotSets
      BY <1>6 DEF HotInv, Agreed
    <3>. QED  BY <1>3, <1>6, <1>7, <3>1, WriteKeeps
  <2>. QED  BY <1>1, <2>1, <2>2, NoSetFits DEF Agreed
<1>. QED  BY <1>4, <1>8, <1>9, <1>10 DEF HotInv

\* A set that has the outcome of a post remains a set.
LEMMA ConcludedFits ==
  ASSUME NEW s \in HotSets, NEW peer, NEW acks \in SUBSET Fleet
  PROVE  /\ Concluded(s, peer, acks) \in HotSets
         /\ Concluded(s, peer, acks).nth = s.nth
         /\ Concluded(s, peer, acks).knob = s.knob
         /\ Concluded(s, peer, acks).value = s.value
         /\ Concluded(s, peer, acks).acked = s.acked \union acks
         /\ Concluded(s, peer, acks).reset = s.reset \ acks
BY DEF Concluded, HotSets

LEMMA UnconcludedFits ==
  ASSUME NEW s \in HotSets, NEW peer
  PROVE  /\ Concluded(s, peer, {}) \in HotSets
         /\ Concluded(s, peer, {}).nth = s.nth
         /\ Concluded(s, peer, {}).knob = s.knob
         /\ Concluded(s, peer, {}).value = s.value
         /\ Concluded(s, peer, {}).acked = s.acked
         /\ Concluded(s, peer, {}).reset = s.reset
<1>1. Concluded(s, peer, {}) \in HotSets
  BY DEF Concluded, HotSets
<1>2. /\ Concluded(s, peer, {}).nth = s.nth /\ Concluded(s, peer, {}).knob = s.knob
      /\ Concluded(s, peer, {}).value = s.value /\ Concluded(s, peer, {}).acked = s.acked \union {}
      /\ Concluded(s, peer, {}).reset = s.reset \ {}
  BY DEF Concluded, HotSets
<1>. QED  BY <1>1, <1>2

\* Nobody else's set is touched, and nothing but the outcome of this one.
LEMMA SettingsCarry ==
  ASSUME HotInv, \A m \in Fleet : /\ setting'[m].nth = setting[m].nth
                                 /\ setting'[m].knob = setting[m].knob
                                 /\ setting'[m].value = setting[m].value,
         posts' \subseteq posts, setCount' = setCount
  PROVE  Carries'
<1>1. \A p \in posts : p.from \in Fleet
  BY DEF HotInv, HotTypeOK
<1>2. ASSUME NEW p \in posts'
      PROVE  /\ p.nth <= setCount'
             /\ setting'[p.from].nth = p.nth =>
                  setting'[p.from].knob = p.knob /\ setting'[p.from].value = p.value
  <2>1. p \in posts /\ p.from \in Fleet
    BY <1>1, <1>2
  <2>. QED  BY <2>1 DEF HotInv, Carries
<1>3. \A n \in Fleet : setting'[n].nth <= setCount'
  BY DEF HotInv, Carries
<1>. QED  BY <1>2, <1>3 DEF Carries

\* A post without an acknowledgement changes nothing but who is waited for.
LEMMA GivenUpKeeps ==
  ASSUME HotInv, NEW p \in posts, setting' = Outcome(p, {}), posts' \subseteq posts,
         UNCHANGED <<hotPlan, file, bootCfg, hotCfg, live, reload, lastSet, setCount, edits>>
  PROVE  HotInv'
<1>0. HotTypeOK
  BY DEF HotInv
<1>1. setting \in [Fleet -> HotSets] /\ p.from \in Fleet /\ {} \in SUBSET Fleet
  BY <1>0 DEF HotTypeOK
<1>2. /\ DOMAIN setting' = Fleet
      /\ \A m \in Fleet : setting'[m] \in {setting[m], Concluded(setting[m], p.to, {})}
  BY <1>1 DEF Outcome
<1>3. ASSUME NEW m \in Fleet
      PROVE  /\ setting'[m] \in HotSets /\ setting'[m].nth = setting[m].nth
             /\ setting'[m].knob = setting[m].knob /\ setting'[m].value = setting[m].value
             /\ setting'[m].acked = setting[m].acked /\ setting'[m].reset = setting[m].reset
  <2>1. setting[m] \in HotSets
    BY <1>1
  <2>. QED  BY <1>2, <2>1, UnconcludedFits, SMTT(30)
<1>4. setting' \in [Fleet -> HotSets]
  <2>1. setting' = [m \in Fleet |-> setting'[m]]
    BY <1>1 DEF Outcome
  <2>. QED  BY <1>3, <2>1
<1>5. HotTypeOK'
  BY <1>0, <1>4 DEF HotTypeOK, PlanFiles
<1>6. Carries'
  BY <1>3, SettingsCarry
<1>7. NodesTell' /\ Agreed'
  BY <1>3 DEF HotInv, NodesTell, Agreed, Acknowledged
<1>. QED  BY <1>5, <1>6, <1>7 DEF HotInv

LEMMA DeliverSetKeeps ==
  ASSUME HotInv, NEW p \in posts, DeliverSet(p) PROVE HotInv'
<1>. DEFINE n == p.to
            k == p.knob
            s == setting[p.from]
<1>0. HotTypeOK
  BY DEF HotInv
<1>1. /\ p.from \in Fleet /\ n \in Fleet /\ k \in Knobs /\ p.value \in Values
      /\ setting \in [Fleet -> HotSets] /\ lastSet \in HotSets /\ {k} \in SUBSET Knobs
      /\ {n} \in SUBSET Fleet /\ {} \in SUBSET Fleet
  BY <1>0 DEF HotTypeOK
<1>2. posts' \subseteq posts /\ UNCHANGED <<hotPlan, file, bootCfg, hotCfg, setCount, edits>>
  BY DEF DeliverSet
<1>. HIDE DEF n, k, s
<1>3. CASE k \in Registry(hotCfg[n]) /\ Settable(hotCfg[n], bootCfg[n], k)
  <2>1. /\ Writes(n, k, p.value) /\ reload' = Mixed(n)
        /\ setting' = [m \in Fleet |-> IF m = p.from /\ Awaited(p) THEN Concluded(setting[m], n, {n})
                                       ELSE ResetOf(setting[m], n, {k})]
        /\ lastSet' = ResetOf(lastSet, n, {k})
    BY <1>3 DEF DeliverSet, Writes, n, k
  <2>2. live' \in [Fleet -> [Knobs -> Values]]
    BY <1>0, <1>1, <2>1, OneWrite
  <2>w. live'[n][k] = p.value
    BY <1>0, <1>1, <2>1, WriteTakes
  <2>3. \A m \in Fleet, j \in Knobs : m # n \/ j \notin {k} => live'[m][j] = live[m][j]
    BY <1>0, <1>1, <2>1, OneWrite
  <2>4. /\ NodesTell' /\ reload' \in [Fleet -> Reloads]
        /\ \A m \in Fleet : reload'[m].cfg = reload[m].cfg
    BY <1>1, <1>2, <1>3, <2>1, SetTells
  <2>5. ASSUME NEW m \in Fleet
        PROVE  /\ setting'[m] \in HotSets /\ setting'[m].nth = setting[m].nth
               /\ setting'[m].knob = setting[m].knob /\ setting'[m].value = setting[m].value
    <3>1. setting[m] \in HotSets
      BY <1>1
    <3>2. setting'[m] \in {Concluded(setting[m], n, {n}), ResetOf(setting[m], n, {k})}
      BY <2>1
    <3>. QED  BY <1>1, <3>1, <3>2, ConcludedFits, ResetFits, SMTT(30)
  <2>6. setting' \in [Fleet -> HotSets] /\ lastSet' \in HotSets
    BY <1>1, <2>1, <2>5, ResetFits
  <2>7. HotTypeOK'
    BY <1>0, <1>2, <2>2, <2>4, <2>6 DEF HotTypeOK, PlanFiles
  <2>8. Carries'
    BY <1>2, <2>5, SettingsCarry
  <2>9. Acknowledged(lastSet', live')
    BY <1>1, <2>1, <2>3, WriteKeeps DEF HotInv, Agreed
  <2>10. ASSUME NEW m \in Fleet PROVE Acknowledged(setting'[m], live')
    <3>1. setting[m] \in HotSets /\ Acknowledged(setting[m], live)
      BY <1>1 DEF HotInv, Agreed
    <3>2. CASE m = p.from /\ Awaited(p)
      <4>1. setting'[m] = Concluded(setting[m], n, {n})
        BY <2>1, <3>2
      <4>2. setting[m].knob = k /\ setting[m].value = p.value
        BY <3>2 DEF HotInv, Carries, Awaited, k
      <4>3. /\ setting'[m].knob = k /\ setting'[m].value = p.value
            /\ setting'[m].acked = setting[m].acked \union {n}
            /\ setting'[m].reset = setting[m].reset \ {n}
        BY <1>1, <3>1, <4>1, <4>2, ConcludedFits, SMTT(30)
      <4>4. setting[m].acked \subseteq Fleet
        BY <3>1 DEF HotSets
      <4>5. \A j \in setting[m].acked \ setting[m].reset : j # n => live'[j][k] = p.value
        BY <1>1, <2>3, <3>1, <4>2, <4>4 DEF Acknowledged
      <4>. QED  BY <1>1, <2>w, <4>3, <4>5 DEF Acknowledged
    <3>3. CASE ~(m = p.from /\ Awaited(p))
      <4>1. setting'[m] = ResetOf(setting[m], n, {k})
        BY <2>1, <3>3
      <4>. QED  BY <1>1, <2>3, <3>1, <4>1, WriteKeeps
    <3>. QED  BY <3>2, <3>3
  <2>. QED  BY <2>4, <2>7, <2>8, <2>9, <2>10 DEF HotInv, Agreed
<1>4. CASE ~(k \in Registry(hotCfg[n]) /\ Settable(hotCfg[n], bootCfg[n], k))
  <2>1. setting' = Outcome(p, {}) /\ UNCHANGED <<live, reload, lastSet>>
    BY <1>4 DEF DeliverSet, n, k
  <2>. QED  BY <1>2, <2>1, GivenUpKeeps
<1>. QED  BY <1>3, <1>4

LEMMA PostFailsKeeps ==
  ASSUME HotInv, NEW p \in posts, PostFails(p) PROVE HotInv'
BY GivenUpKeeps DEF PostFails, Acked

LEMMA SetReturnsKeeps ==
  ASSUME HotInv, NEW n \in Fleet, SetReturns(n) PROVE HotInv'
<1>1. /\ setting' = [setting EXCEPT ![n] = NoSet] /\ lastSet' = setting[n]
      /\ UNCHANGED <<hotPlan, file, bootCfg, hotCfg, live, reload, posts, setCount, edits>>
  BY DEF SetReturns
<1>2. HotTypeOK /\ setting \in [Fleet -> HotSets] /\ setCount \in Nat
  BY HotAssumption, SMTT(30) DEF HotInv, HotTypeOK
<1>3. /\ setting' \in [Fleet -> HotSets] /\ setting'[n] = NoSet /\ lastSet' \in HotSets
      /\ \A m \in Fleet \ {n} : setting'[m] = setting[m]
  BY <1>1, <1>2, NoSetFits
<1>4. HotTypeOK'
  BY <1>1, <1>2, <1>3 DEF HotTypeOK, PlanFiles
<1>5. Carries'
  <2>1. NoSet.nth = 0 /\ 0 <= setCount
    BY <1>2, SMTT(30) DEF NoSet
  <2>2. \A m \in Fleet : setting'[m].nth <= setCount'
    BY <1>1, <1>3, <2>1 DEF HotInv, Carries
  <2>3. \A p \in posts : p.nth \in 1..HotSetsMax /\ p.from \in Fleet
    BY <1>2 DEF HotTypeOK
  <2>4. \A i \in 1..HotSetsMax : i # 0
    BY HotAssumption, SMTT(30)
  <2>5. ASSUME NEW p \in posts
        PROVE  /\ p.nth <= setCount
               /\ setting'[p.from].nth = p.nth =>
                    setting'[p.from].knob = p.knob /\ setting'[p.from].value = p.value
    BY <1>3, <2>1, <2>3, <2>4 DEF HotInv, Carries
  <2>. QED  BY <1>1, <2>2, <2>5 DEF Carries
<1>6. NodesTell' /\ Agreed'
  BY <1>1, <1>3, NoSetFits DEF HotInv, NodesTell, Agreed
<1>. QED  BY <1>4, <1>5, <1>6 DEF HotInv

LEMMA RestartKeeps ==
  ASSUME HotInv, NEW n \in hotPlan.reloads, Restart(n) PROVE HotInv'
<1>. DEFINE cfg == file[n]
<1>0. HotTypeOK
  BY DEF HotInv
<1>1. n \in Fleet /\ cfg \in Files /\ cfg \in PlanFiles
  BY <1>0, FilesFit DEF HotTypeOK
<1>2. /\ cfg.ok
      /\ bootCfg' = [bootCfg EXCEPT ![n] = cfg] /\ hotCfg' = [hotCfg EXCEPT ![n] = cfg]
      /\ live' = [live EXCEPT ![n] = AtBoot(cfg)]
      /\ reload' = [reload EXCEPT ![n] = NoReload(cfg)]
      /\ setting' = [m \in Fleet |-> IF m = n THEN NoSet
                                     ELSE ResetOf(Concluded(setting[m], n, {}), n, Knobs)]
      /\ posts' = {p \in posts : n \notin {p.from, p.to}}
      /\ lastSet' = ResetOf(lastSet, n, Knobs)
      /\ UNCHANGED <<hotPlan, file, setCount, edits>>
  BY DEF Restart
<1>. HIDE DEF cfg
<1>3. /\ setting \in [Fleet -> HotSets] /\ lastSet \in HotSets /\ {} \in SUBSET Fleet
      /\ Knobs \in SUBSET Knobs
  BY <1>0 DEF HotTypeOK
<1>4. AtBoot(cfg) \in [Knobs -> Values] /\ NoReload(cfg) \in Reloads /\ NoReload(cfg).cfg = cfg
  BY <1>1, ValuesFit, NoReloadFits DEF NoReload
<1>5. /\ DOMAIN bootCfg = Fleet /\ DOMAIN hotCfg = Fleet /\ DOMAIN live = Fleet /\ DOMAIN reload = Fleet
  BY <1>0 DEF HotTypeOK
<1>6. /\ bootCfg'[n] = cfg /\ hotCfg'[n] = cfg /\ live'[n] = AtBoot(cfg) /\ reload'[n] = NoReload(cfg)
      /\ \A m \in Fleet \ {n} : /\ bootCfg'[m] = bootCfg[m] /\ hotCfg'[m] = hotCfg[m]
                                /\ live'[m] = live[m] /\ reload'[m] = reload[m]
  BY <1>1, <1>2, <1>5
<1>7. ASSUME NEW m \in Fleet \ {n}
      PROVE  /\ setting'[m] = ResetOf(Concluded(setting[m], n, {}), n, Knobs)
             /\ setting'[m] \in HotSets /\ setting'[m].nth = setting[m].nth
             /\ setting'[m].knob = setting[m].knob /\ setting'[m].value = setting[m].value
  <2>. DEFINE s == Concluded(setting[m], n, {})
  <2>1. setting'[m] = ResetOf(s, n, Knobs)
    BY <1>2
  <2>2. /\ s \in HotSets /\ s.nth = setting[m].nth /\ s.knob = setting[m].knob
        /\ s.value = setting[m].value
    BY <1>3, ConcludedFits, SMTT(30)
  <2>. HIDE DEF s
  <2>. QED  BY <1>1, <1>3, <2>1, <2>2, ResetFits, SMTT(30) DEF s
<1>8. setting'[n] = NoSet
  BY <1>1, <1>2
<1>9. HotTypeOK'
  <2>1. setting' \in [Fleet -> HotSets] /\ lastSet' \in HotSets
    BY <1>1, <1>2, <1>3, <1>7, <1>8, NoSetFits, ResetFits
  <2>2. live' \in [Fleet -> [Knobs -> Values]] /\ reload' \in [Fleet -> Reloads]
    BY <1>0, <1>1, <1>2, <1>4 DEF HotTypeOK
  <2>3. bootCfg' \in [Fleet -> PlanFiles] /\ hotCfg' \in [Fleet -> PlanFiles]
    BY <1>0, <1>1, <1>2 DEF HotTypeOK
  <2>4. \A m \in Fleet : bootCfg'[m].ok /\ hotCfg'[m].ok /\ reload'[m].cfg \in PlanFiles
    BY <1>0, <1>1, <1>2, <1>4, <1>6 DEF HotTypeOK
  <2>5. posts' \subseteq posts
    BY <1>2
  <2>. QED  BY <1>0, <1>2, <2>1, <2>2, <2>3, <2>4, <2>5 DEF HotTypeOK, PlanFiles
<1>10. NodesTell'
  <2>1. Windowless(cfg, AtBoot(cfg)) /\ Tells(NoReload(cfg), cfg, cfg, AtBoot(cfg))
    BY <1>1, BootWindow, NoReloadFits
  <2>. QED  BY <1>1, <1>6, <2>1, OthersTell DEF HotInv
<1>11. Carries'
  <2>1. NoSet.nth = 0 /\ \A i \in 0..HotSetsMax : 0 <= i
    BY HotAssumption, SMTT(30) DEF NoSet
  <2>2. \A m \in Fleet : setting'[m].nth <= setCount'
    BY <1>0, <1>2, <1>7, <1>8, <2>1 DEF HotInv, HotTypeOK, Carries
  <2>3. \A p \in posts' : p \in posts /\ p.from \in Fleet \ {n}
    BY <1>0, <1>2 DEF HotTypeOK
  <2>4. ASSUME NEW p \in posts'
        PROVE  /\ p.nth <= setCount
               /\ setting'[p.from].nth = p.nth =>
                    setting'[p.from].knob = p.knob /\ setting'[p.from].value = p.value
    BY <1>7, <2>3 DEF HotInv, Carries
  <2>. QED  BY <1>2, <2>2, <2>4 DEF Carries
<1>12. Agreed'
  <2>1. \A m \in Fleet, k \in Knobs : m # n \/ k \notin Knobs => live'[m][k] = live[m][k]
    BY <1>6
  <2>2. Acknowledged(lastSet', live')
    BY <1>1, <1>2, <1>3, <2>1, WriteKeeps DEF HotInv, Agreed
  <2>3. ASSUME NEW m \in Fleet \ {n} PROVE Acknowledged(setting'[m], live')
    <3>1. setting[m] \in HotSets /\ Acknowledged(setting[m], live)
      BY <1>3 DEF HotInv, Agreed
    <3>2. Concluded(setting[m], n, {}) \in HotSets /\ Acknowledged(Concluded(setting[m], n, {}), live)
      BY <1>3, <3>1, ConcludedFits, SMTT(30) DEF Acknowledged
    <3>. QED  BY <1>1, <1>3, <1>7, <2>1, <3>2, WriteKeeps
  <2>. QED  BY <1>8, <2>2, <2>3, NoSetFits DEF Agreed
<1>. QED  BY <1>9, <1>10, <1>11, <1>12 DEF HotInv

\* Every step of the fleet keeps it.
LEMMA HotKept == HotInv /\ [HotNext]_hotVars => HotInv'
<1>. SUFFICES ASSUME HotInv, [HotNext]_hotVars PROVE HotInv'
  OBVIOUS
<1>1. CASE UNCHANGED hotVars
  BY <1>1 DEF HotInv, HotTypeOK, PlanFiles, NodesTell, Carries, Agreed, hotVars
<1>2. CASE \E n \in hotPlan.reloads :
             \/ Edit(n) \/ ReloadBegins(n) \/ ReloadEnds(n) \/ Restart(n)
             \/ \E k \in Knobs : ReloadApplies(n, k)
  BY <1>2, EditKeeps, ReloadBeginsKeeps, ReloadEndsKeeps, RestartKeeps, ReloadAppliesKeeps
<1>3. CASE \E n \in Fleet : SetReturns(n) \/ \E k \in Knobs, v \in {0, 2} : HotSet(n, k, v)
  <2>1. {0, 2} \subseteq Values
    BY SMTT(30) DEF Values, Default
  <2>. QED  BY <1>3, <2>1, SetReturnsKeeps, HotSetKeeps
<1>4. CASE \E p \in posts : DeliverSet(p) \/ PostFails(p)
  BY <1>4, DeliverSetKeeps, PostFailsKeeps
<1>. QED  BY <1>1, <1>2, <1>3, <1>4 DEF HotNext

\* The report of a reload is complete.
LEMMA ReportComplete == HotInv => ReloadTellsAll
<1>. SUFFICES ASSUME HotInv, NEW n \in Fleet, reload[n].at = "told", ~reload[n].mixed
              PROVE  /\ reload[n].cfg.other # bootCfg[n].other => "other" \in reload[n].needs
                     /\ \A k \in Knobs :
                          \/ k \in reload[n].needs
                          \/ k \in PoolKnobs /\ "pool" \in reload[n].needs
                          \/ k = "eject_for" /\ WindowLeftOut(reload[n].cfg)
                          \/ Runs(k, live[n][k], bootCfg[n])
                              = Runs(k, AtBoot(reload[n].cfg)[k], reload[n].cfg)
  BY DEF ReloadTellsAll
<1>. DEFINE cfg == reload[n].cfg
            boot == bootCfg[n]
            run == live[n]
<1>1. Windowless(boot, run) /\ Tells(reload[n], boot, hotCfg[n], run) /\ cfg \in Files /\ boot \in Files
  BY FilesFit DEF HotInv, HotTypeOK, NodesTell, Reloads
<1>. HIDE DEF cfg, boot, run
<1>2. /\ cfg.other # boot.other => "other" \in reload[n].needs
      /\ ~cfg.pool => "pool" \in reload[n].needs
      /\ \A k \in Registry(cfg) \ reload[n].needs : run[k] = FileValue(cfg, k)
  BY <1>1 DEF Tells, cfg
<1>3. ASSUME NEW k \in Knobs, k \in Registry(cfg) \ reload[n].needs,
             ~(k = "eject_for" /\ WindowLeftOut(cfg))
      PROVE  Runs(k, run[k], boot) = Runs(k, AtBoot(cfg)[k], cfg)
  <2>1. run[k] = FileValue(cfg, k)
    BY <1>2, <1>3
  <2>2. CASE k # "eject_for"
    BY <2>1, <2>2 DEF Runs, FileValue, AtBoot
  <2>3. CASE k = "eject_for"
    <3>1. run[k] = cfg.knob["eject_for"] /\ cfg.knob["eject_for"] \in Nat /\ cfg.knob["consecutive_5xx"] \in Nat
      BY <1>1, <2>1, <2>3, SMTT(30) DEF FileValue, Files, Values, Default, Knobs
    <3>2. ~(cfg.knob["consecutive_5xx"] > 0 /\ cfg.knob["eject_for"] = 0)
      BY <1>3, <2>3 DEF WindowLeftOut
    <3>3. AtBoot(cfg)[k] = cfg.knob["eject_for"]
      BY <2>3, <3>2 DEF AtBoot
    <3>4. Runs(k, run[k], boot) = IF ReaperRuns(boot) THEN cfg.knob["eject_for"] ELSE 0
      BY <2>3, <3>1 DEF Runs
    <3>5. Runs(k, AtBoot(cfg)[k], cfg) = IF ReaperRuns(cfg) THEN cfg.knob["eject_for"] ELSE 0
      BY <2>3, <3>3 DEF Runs
    <3>6. ~ReaperRuns(cfg) => cfg.knob["eject_for"] = 0
      BY <3>1, SMTT(30) DEF ReaperRuns
    <3>7. ~ReaperRuns(boot) => cfg.knob["eject_for"] = 0
      BY <1>1, <2>3, <3>1 DEF Windowless
    <3>. QED  BY <3>4, <3>5, <3>6, <3>7, SMTT(30)
  <2>. QED  BY <2>2, <2>3
<1>4. \A k \in Knobs : k \notin Registry(cfg) => k \in PoolKnobs /\ ~cfg.pool
  BY DEF Registry
<1>. QED  BY <1>2, <1>3, <1>4 DEF cfg, boot, run

LEMMA DiffComplete == HotInv => DiffAfterReload
BY SMTT(30) DEF HotInv, NodesTell, Tells, DiffAfterReload, Source

LEMMA SetInForce == HotInv => FleetAgrees
BY DEF HotInv, Agreed, Acknowledged, FleetAgrees
-----------------------------------------------------------------------------
(* The purges of the CDN.                                                  *)

\* What a goroutine has, in every step of its way.
Working(w, at) ==
  /\ at.step = "idle" => at.rest = {}
  /\ w \notin Flushers => at.rest = {}
  /\ at.step \in {"gate", "call", "record", "enqueue"} => at.calls # <<>>
  /\ w \in Flushers /\ at.step \in {"gate", "call", "record"} => InCalls(at.calls) \subseteq at.label
  /\ at.step = "record" => at.res \in {"ok", "err"}
  /\ at.step \in {"gate", "call"} => at.res # "ok"

\* The breaker moves only where there is one, and opens in time.
Breaking ==
  /\ ~cfplan.circuit => circuit.state = "closed"
  /\ circuit.state = "closed" => circuit.failures < FailureThreshold

PurgeInv ==
  /\ PurgeTypeOK /\ IsFiniteSet(DOMAIN queue)
  /\ \A w \in Workers : Working(w, worker[w])
  /\ Breaking /\ HalfOpenIsProbed /\ NoSilentLoss

\* Where an item that is owed is accounted for.
Accounted(i) ==
  HeldByWorker(i) \/ i \in DOMAIN queue \/ i \in reported \/ i \in crossed \/ i \in mislabelled

CallSeqs == Seq(SUBSET CFItems)

-----------------------------------------------------------------------------
\* What the calls of a goroutine are for.
LEMMA OneCall == ASSUME NEW S PROVE InCalls(<<S>>) = S /\ <<S>> # <<>>
BY SMTT(30) DEF InCalls

LEMMA NoCall == InCalls(<<>>) = {}
BY SMTT(30) DEF InCalls

LEMMA CallsLeft ==
  ASSUME NEW s \in CallSeqs, Len(s) > 1
  PROVE  /\ Tail(s) \in CallSeqs /\ Tail(s) # <<>>
         /\ InCalls(s) \ Head(s) \subseteq InCalls(Tail(s)) /\ InCalls(Tail(s)) \subseteq InCalls(s)
<1>1. Tail(s) \in CallSeqs /\ Tail(s) # <<>> /\ Len(Tail(s)) = Len(s) - 1 /\ Head(s) = s[1]
  <2>1. s # <<>> /\ Len(s) \in Nat
    BY EmptySeq, LenProperties, SMTT(30) DEF CallSeqs
  <2>2. Tail(s) \in CallSeqs /\ Len(Tail(s)) = Len(s) - 1
    BY <2>1, HeadTailProperties DEF CallSeqs
  <2>3. Len(Tail(s)) # 0
    BY <2>1, <2>2, SMTT(30)
  <2>4. Tail(s) # <<>>
    BY <2>3, EmptySeq
  <2>5. Head(s) = s[1]
    BY SMTT(30) DEF CallSeqs
  <2>. QED  BY <2>2, <2>4, <2>5
<1>2. \A n \in 1..Len(Tail(s)) : Tail(s)[n] = s[n + 1] /\ n + 1 \in 1..Len(s)
  BY <1>1, SMTT(30) DEF CallSeqs
<1>3. \A n \in 1..Len(s) : n = 1 \/ (n - 1 \in 1..Len(Tail(s)) /\ Tail(s)[n - 1] = s[n])
  BY <1>1, SMTT(30) DEF CallSeqs
<1>4. InCalls(Tail(s)) \subseteq InCalls(s)
  BY <1>2 DEF InCalls
<1>5. InCalls(s) \ Head(s) \subseteq InCalls(Tail(s))
  <2>. SUFFICES ASSUME NEW n \in 1..Len(s), NEW x \in s[n], x \notin s[1] PROVE x \in InCalls(Tail(s))
    BY <1>1 DEF InCalls
  <2>. QED  BY <1>3 DEF InCalls
<1>. QED  BY <1>1, <1>4, <1>5

LEMMA LastCall == ASSUME NEW s \in CallSeqs, s # <<>>, ~(Len(s) > 1) PROVE InCalls(s) = Head(s)
<1>1. Len(s) = 1 /\ Head(s) = s[1]
  <2>1. Len(s) \in Nat \ {0}
    BY EmptySeq DEF CallSeqs
  <2>2. Len(s) = 1
    BY <2>1, SMTT(30)
  <2>3. Head(s) = s[1]
    BY SMTT(30) DEF CallSeqs
  <2>. QED  BY <2>2, <2>3
<1>2. 1..Len(s) = {1}
  BY <1>1, SMTT(30)
<1>. QED  BY <1>1, <1>2 DEF InCalls

LEMMA CallWithout ==
  ASSUME NEW s \in CallSeqs, s # <<>>, NEW i
  PROVE  /\ CallsWithout(s, i) \in CallSeqs /\ CallsWithout(s, i) # <<>>
         /\ InCalls(s) \ {i} \subseteq InCalls(CallsWithout(s, i))
<1>. DEFINE t == CallsWithout(s, i)
<1>1. /\ t \in CallSeqs /\ Len(t) = Len(s) /\ Len(s) > 0
      /\ t[1] = s[1] \ {i} /\ \A n \in 1..Len(s) : n # 1 => t[n] = s[n]
  BY SMTT(30) DEF CallSeqs, CallsWithout
<1>. HIDE DEF t
<1>2. t # <<>> /\ 1 \in 1..Len(s)
  BY <1>1, SMTT(30) DEF CallSeqs
<1>3. InCalls(s) \ {i} \subseteq InCalls(t)
  BY <1>1, <1>2, SMTT(30) DEF InCalls
<1>. QED  BY <1>1, <1>2, <1>3 DEF t

LEMMA CallsInTurn ==
  ASSUME NEW s \in CallSeqs, NEW t \in CallSeqs
  PROVE  s \o t \in CallSeqs /\ InCalls(s \o t) = InCalls(s) \union InCalls(t)
<1>1. /\ s \o t \in CallSeqs /\ Len(s \o t) = Len(s) + Len(t) /\ Len(s) \in Nat /\ Len(t) \in Nat
      /\ \A n \in 1..Len(s) : (s \o t)[n] = s[n]
      /\ \A n \in 1..Len(t) : (s \o t)[Len(s) + n] = t[n]
  BY SMTT(30) DEF CallSeqs
<1>2. \A n \in 1..(Len(s) + Len(t)) : n \in 1..Len(s) \/ (n - Len(s) \in 1..Len(t) /\ n = Len(s) + (n - Len(s)))
  BY <1>1, SMTT(30)
<1>3. /\ \A n \in 1..Len(s) : n \in 1..(Len(s) + Len(t))
      /\ \A n \in 1..Len(t) : Len(s) + n \in 1..(Len(s) + Len(t))
  BY <1>1, SMTT(30)
<1>4. InCalls(s \o t) \subseteq InCalls(s) \union InCalls(t)
  <2>. SUFFICES ASSUME NEW n \in 1..(Len(s) + Len(t)), NEW x \in (s \o t)[n]
                PROVE  x \in InCalls(s) \union InCalls(t)
    BY <1>1 DEF InCalls
  <2>1. CASE n \in 1..Len(s)
    BY <1>1, <2>1 DEF InCalls
  <2>2. CASE n \notin 1..Len(s)
    <3>1. PICK m \in 1..Len(t) : n = Len(s) + m
      BY <1>2, <2>2
    <3>. QED  BY <1>1, <3>1 DEF InCalls
  <2>. QED  BY <2>1, <2>2
<1>5. InCalls(s) \union InCalls(t) \subseteq InCalls(s \o t)
  BY <1>1, <1>3 DEF InCalls
<1>. QED  BY <1>1, <1>4, <1>5

\* A ban is mapped to items, and a passthrough ban calls for all of them.
LEMMA BanItems ==
  ASSUME NEW e PROVE MapBan(e).items \subseteq {Item("tags", "v"), Item("prefixes", "v"), Item("hosts", "v")}
BY DEF MapBan, MergeResults, MapPathRegex, MapHostRegex, Mapped, Skipped

LEMMA BanCalls ==
  ASSUME NEW S, S \subseteq {Item("tags", "v"), Item("prefixes", "v"), Item("hosts", "v")}
  PROVE  LET calls == CallFor(S, "tags") \o CallFor(S, "prefixes") \o CallFor(S, "hosts")
         IN calls \in CallSeqs /\ InCalls(calls) = S /\ S \subseteq CFItems
<1>1. S \subseteq CFItems
  BY DEF CFItems, Kinds
<1>2. ASSUME NEW k PROVE CallFor(S, k) \in CallSeqs /\ InCalls(CallFor(S, k)) = OfKind(S, k)
  <2>1. OfKind(S, k) \in SUBSET CFItems
    BY <1>1 DEF OfKind
  <2>2. <<OfKind(S, k)>> \in CallSeqs /\ <<>> \in CallSeqs
    BY <2>1, SMTT(30) DEF CallSeqs
  <2>. QED  BY <2>2, OneCall, NoCall DEF CallFor
<1>3. S = OfKind(S, "tags") \union OfKind(S, "prefixes") \union OfKind(S, "hosts")
  BY SMTT(30) DEF OfKind, Item
<1>4. /\ CallFor(S, "tags") \o CallFor(S, "prefixes") \in CallSeqs
      /\ InCalls(CallFor(S, "tags") \o CallFor(S, "prefixes")) = OfKind(S, "tags") \union OfKind(S, "prefixes")
  BY <1>2, CallsInTurn
<1>5. /\ CallFor(S, "tags") \o CallFor(S, "prefixes") \o CallFor(S, "hosts") \in CallSeqs
      /\ InCalls(CallFor(S, "tags") \o CallFor(S, "prefixes") \o CallFor(S, "hosts"))
         = OfKind(S, "tags") \union OfKind(S, "prefixes") \union OfKind(S, "hosts")
  BY <1>2, <1>4, CallsInTurn
<1>. QED  BY <1>1, <1>3, <1>5

-----------------------------------------------------------------------------
\* Steps keep an item accounted for where nothing that accounted for it goes,
\* but what one goroutine w held is accounted for in some way.
LEMMA LossKept ==
  ASSUME NoSilentLoss, NEW w \in Workers, cfClosing' = cfClosing,
         \A v \in Workers \ {w} : worker'[v] = worker[v],
         \A i \in owed' : i \in owed \/ Accounted(i)',
         \A i \in owed' \intersect owed :
           /\ i \in bucket => Accounted(i)'
           /\ w # Retrier /\ i \in Holds(w, worker[w]) => Accounted(i)'
           /\ i \in DOMAIN queue => Accounted(i)'
           /\ i \in reported \union crossed \union mislabelled => Accounted(i)'
  PROVE  NoSilentLoss'
<1>. SUFFICES ASSUME ~cfClosing, NEW i \in owed', i \in owed PROVE Accounted(i)'
  BY DEF NoSilentLoss, Accounted
<1>1. Accounted(i)
  BY DEF NoSilentLoss, Accounted
<1>2. CASE \E v \in Workers \ {Retrier, w} : i \in Holds(v, worker[v])
  BY <1>2 DEF Accounted, HeldByWorker
<1>. QED  BY <1>1, <1>2 DEF Accounted, HeldByWorker

LEMMA StartsAccounted == PurgeInit => PurgeInv
<1>. SUFFICES ASSUME PurgeInit PROVE PurgeInv
  OBVIOUS
<1>1. NoWork \in Works /\ Closed \in Circuits
  BY PurgeAssumption, SMTT(30) DEF NoWork, Work, Works, Closed, Circuits
<1>2. DOMAIN queue = {} /\ IsFiniteSet({}) /\ Cardinality({}) = 0
  BY FS_EmptySet, SMTT(30) DEF PurgeInit
<1>3. 0 <= QueueMax /\ cfplan.asks \in Nat /\ Closed.failures < FailureThreshold
  BY PurgeAssumption, SMTT(30) DEF PurgeInit, PurgeChoices, Closed
<1>4. PurgeTypeOK
  BY <1>1, <1>2, <1>3 DEF PurgeTypeOK, PurgeInit
<1>5. \A w \in Workers : Working(w, worker[w])
  BY DEF PurgeInit, Working, NoWork, Work
<1>6. Breaking /\ HalfOpenIsProbed /\ NoSilentLoss
  BY <1>3 DEF PurgeInit, Closed, Breaking, HalfOpenIsProbed, NoSilentLoss
<1>. QED  BY <1>2, <1>4, <1>5, <1>6 DEF PurgeInv

\* A worker goes on with at: it is one, and nobody else moves.
LEMMA WorkPut ==
  ASSUME PurgeInv, NEW w \in Workers, NEW at \in Works, Working(w, at), SetWork(w, at)
  PROVE  /\ worker' \in [Workers -> Works] /\ worker'[w] = at
         /\ \A v \in Workers \ {w} : worker'[v] = worker[v]
         /\ \A v \in Workers : Working(v, worker'[v])
<1>1. worker \in [Workers -> Works] /\ worker' = [worker EXCEPT ![w] = at]
  BY DEF PurgeInv, PurgeTypeOK, SetWork
<1>2. /\ worker' \in [Workers -> Works] /\ worker'[w] = at
      /\ \A v \in Workers \ {w} : worker'[v] = worker[v]
  BY <1>1
<1>. QED  BY <1>2 DEF PurgeInv

\* The circuit and its probes where only one goroutine moves, and it has no
\* call under way.
LEMMA CircuitKept ==
  ASSUME PurgeInv, NEW w \in Workers, worker[w].step \notin {"call", "record"},
         \A v \in Workers \ {w} : worker'[v] = worker[v], UNCHANGED <<cfplan, circuit>>
  PROVE  Breaking' /\ HalfOpenIsProbed'
BY DEF PurgeInv, Breaking, HalfOpenIsProbed

LEMMA NewWork ==
  ASSUME NEW step \in {"idle", "chunk", "gate", "forget"}, NEW calls \in CallSeqs,
         NEW label \in SUBSET CFItems, NEW rest \in SUBSET CFItems
  PROVE  /\ Work(step, calls, label, rest) \in Works
         /\ Work(step, calls, label, rest).step = step
         /\ Work(step, calls, label, rest).calls = calls
         /\ Work(step, calls, label, rest).label = label
         /\ Work(step, calls, label, rest).rest = rest
         /\ Work(step, calls, label, rest).res = "none"
BY PurgeAssumption, SMTT(30) DEF Work, Works, CallSeqs

\* What is asked for is taken up: by the batcher, or by a goroutine.
LEMMA AskKeeps ==
  ASSUME PurgeInv, NEW S \in SUBSET CFItems, NEW calls, NEW label \in SUBSET CFItems, Ask(S),
         \/ bucket' = bucket \union S /\ UNCHANGED worker
         \/ /\ Spawn(calls, label) /\ UNCHANGED bucket
            /\ calls \in CallSeqs /\ calls # <<>> /\ InCalls(calls) = S
  PROVE  PurgeInv'
<1>1. /\ asksLeft' = asksLeft - 1 /\ asksLeft > 0 /\ asksLeft \in Nat
      /\ owed' = owed \union S /\ reported' = reported \ S
      /\ crossed' = crossed \ S /\ mislabelled' = mislabelled \ S
      /\ UNCHANGED <<cfplan, queue, retrying, circuit, cfClosing>>
  BY DEF Ask, PurgeInv, PurgeTypeOK
<1>2. asksLeft' \in Nat
  BY <1>1, SMTT(30)
<1>3. CASE bucket' = bucket \union S /\ UNCHANGED worker
  <2>1. PurgeTypeOK'
    BY <1>1, <1>2, <1>3 DEF PurgeInv, PurgeTypeOK
  <2>2. \A i \in owed' : i \in owed \/ Accounted(i)'
    BY <1>1, <1>3 DEF Accounted, HeldByWorker
  <2>3. ASSUME NEW i \in owed PROVE Accounted(i) => Accounted(i)'
    BY <1>1, <1>3 DEF Accounted, HeldByWorker
  <2>4. NoSilentLoss'
    BY <1>1, <2>2, <2>3 DEF PurgeInv, NoSilentLoss, Accounted
  <2>. QED  BY <1>1, <1>3, <2>1, <2>4 DEF PurgeInv, Breaking, HalfOpenIsProbed
<1>4. CASE /\ Spawn(calls, label) /\ UNCHANGED bucket
           /\ calls \in CallSeqs /\ calls # <<>> /\ InCalls(calls) = S
  <2>. DEFINE at == Work("gate", calls, label, {})
  <2>1. PICK t \in Tasks : worker[t].step = "idle" /\ SetWork(t, at)
    BY <1>4 DEF Spawn, SetWork
  <2>2. t \in Workers /\ t # Retrier /\ t \notin Flushers
    BY PurgeAssumption DEF Workers, Retrier, Flushers
  <2>3. /\ at \in Works /\ at.step = "gate" /\ at.calls = calls /\ at.label = label
        /\ at.rest = {} /\ at.res = "none"
    BY <1>4, NewWork, SMTT(30)
  <2>. HIDE DEF at
  <2>4. Working(t, at)
    BY <1>4, <2>2, <2>3 DEF Working
  <2>5. /\ worker' \in [Workers -> Works] /\ worker'[t] = at
        /\ \A v \in Workers \ {t} : worker'[v] = worker[v]
        /\ \A v \in Workers : Working(v, worker'[v])
    BY <2>1, <2>2, <2>3, <2>4, WorkPut
  <2>6. PurgeTypeOK'
    BY <1>1, <1>2, <1>4, <2>5 DEF PurgeInv, PurgeTypeOK
  <2>7. Breaking' /\ HalfOpenIsProbed'
    BY <1>1, <2>1, <2>2, <2>5, CircuitKept
  <2>8. Holds(t, worker[t]) = {}
    BY <2>1, <2>2 DEF PurgeInv, Working, Holds
  <2>9. Holds(t, at) = S
    BY <1>4, <2>3 DEF Holds
  <2>10. \A i \in S : Accounted(i)'
    BY <2>2, <2>5, <2>9 DEF Accounted, HeldByWorker
  <2>11. \A i \in owed : i \in bucket \union DOMAIN queue \union reported \union crossed \union mislabelled => Accounted(i)'
    BY <1>1, <1>4, <2>10 DEF Accounted, HeldByWorker
  <2>12. NoSilentLoss'
    BY <1>1, <2>2, <2>5, <2>8, <2>10, <2>11, LossKept DEF PurgeInv
  <2>. QED  BY <1>1, <2>5, <2>6, <2>7, <2>12 DEF PurgeInv
<1>. QED  BY <1>3, <1>4

LEMMA PurgeAsked == ASSUME PurgeInv, NEW u \in Urls, PropagateForPurge(u) PROVE PurgeInv'
<1>. DEFINE S == {Item("urls", u)}
<1>1. S \in SUBSET CFItems
  BY DEF CFItems
<1>2. <<S>> \in CallSeqs /\ <<S>> # <<>> /\ InCalls(<<S>>) = S
  BY <1>1, OneCall, SMTT(30) DEF CallSeqs
<1>3. /\ Ask(S)
      /\ \/ bucket' = bucket \union S /\ UNCHANGED worker
         \/ Spawn(<<S>>, S) /\ UNCHANGED bucket
  BY DEF PropagateForPurge
<1>. QED  BY <1>1, <1>2, <1>3, AskKeeps

LEMMA BanAsked == ASSUME PurgeInv, NEW e, PropagateForBan(e) PROVE PurgeInv'
<1>. DEFINE S == IF MapBan(e).skipped THEN {} ELSE MapBan(e).items
            calls == CallFor(S, "tags") \o CallFor(S, "prefixes") \o CallFor(S, "hosts")
<1>1. S \subseteq {Item("tags", "v"), Item("prefixes", "v"), Item("hosts", "v")}
  BY BanItems
<1>2. /\ Ask(S)
      /\ \/ S = {} /\ UNCHANGED <<bucket, worker>>
         \/ bucket' = bucket \union S /\ UNCHANGED worker
         \/ S # {} /\ Spawn(calls, OfKind(S, "tags")) /\ UNCHANGED bucket
  BY DEF PropagateForBan
<1>. HIDE DEF S
<1>3. calls \in CallSeqs /\ InCalls(calls) = S /\ S \in SUBSET CFItems
  BY <1>1, BanCalls
<1>. HIDE DEF calls
<1>4. S # {} => calls # <<>>
  BY <1>3, NoCall
<1>5. S = {} => bucket = bucket \union S
  OBVIOUS
<1>6. OfKind(S, "tags") \in SUBSET CFItems
  BY <1>3 DEF OfKind
<1>. QED  BY <1>2, <1>3, <1>4, <1>5, <1>6, AskKeeps

LEMMA DrainKeeps == ASSUME PurgeInv, NEW k \in Flushers, Drain(k) PROVE PurgeInv'
<1>. DEFINE S == OfKind(bucket, k)
            at == Work("chunk", <<>>, {}, S)
<1>1. /\ worker[k].step = "idle" /\ SetWork(k, at) /\ bucket' = bucket \ S
      /\ UNCHANGED <<queue, retrying, circuit, owed, reported, crossed, mislabelled, cfplan, asksLeft, cfClosing>>
  BY DEF Drain, CFUnchanged
<1>2. k \in Workers /\ k # Retrier /\ S \subseteq bucket /\ S \in SUBSET CFItems
  BY DEF Workers, Flushers, Kinds, Retrier, OfKind, PurgeInv, PurgeTypeOK
<1>. HIDE DEF S
<1>3. at \in Works /\ at.step = "chunk" /\ at.rest = S /\ Working(k, at)
  <2>1. <<>> \in CallSeqs /\ {} \in SUBSET CFItems
    BY EmptySeq DEF CallSeqs
  <2>2. at \in Works /\ at.step = "chunk" /\ at.rest = S
    BY <1>2, <2>1, NewWork, SMTT(30)
  <2>. QED  BY <2>2 DEF Working
<1>. HIDE DEF at
<1>4. /\ worker' \in [Workers -> Works] /\ worker'[k] = at
      /\ \A v \in Workers \ {k} : worker'[v] = worker[v]
      /\ \A v \in Workers : Working(v, worker'[v])
  BY <1>1, <1>2, <1>3, WorkPut
<1>5. PurgeTypeOK'
  BY <1>1, <1>2, <1>4 DEF PurgeInv, PurgeTypeOK
<1>6. Breaking' /\ HalfOpenIsProbed'
  BY <1>1, <1>2, <1>4, CircuitKept
<1>7. Holds(k, worker[k]) = {} /\ Holds(k, at) = S
  BY <1>1, <1>2, <1>3 DEF PurgeInv, Working, Holds
<1>8. \A i \in bucket : Accounted(i)'
  BY <1>1, <1>2, <1>4, <1>7 DEF Accounted, HeldByWorker
<1>9. \A i : i \in DOMAIN queue \union reported \union crossed \union mislabelled => Accounted(i)'
  BY <1>1 DEF Accounted
<1>10. NoSilentLoss'
  BY <1>1, <1>2, <1>4, <1>7, <1>8, <1>9, LossKept DEF PurgeInv
<1>. QED  BY <1>1, <1>4, <1>5, <1>6, <1>10 DEF PurgeInv

\* A goroutine goes on, and keeps what it holds of what is owed.
LEMMA StepKeeps ==
  ASSUME PurgeInv, NEW w \in Workers, NEW at \in Works, Working(w, at), SetWork(w, at),
         circuit' \in Circuits, Breaking', HalfOpenIsProbed', owed' \subseteq owed,
         \A i \in owed' : w # Retrier /\ i \in Holds(w, worker[w]) => i \in Holds(w, at),
         UNCHANGED <<bucket, queue, retrying, reported, crossed, mislabelled, cfplan, asksLeft, cfClosing>>
  PROVE  PurgeInv'
<1>1. /\ worker' \in [Workers -> Works] /\ worker'[w] = at
      /\ \A v \in Workers \ {w} : worker'[v] = worker[v]
      /\ \A v \in Workers : Working(v, worker'[v])
  BY WorkPut
<1>2. PurgeTypeOK'
  BY <1>1 DEF PurgeInv, PurgeTypeOK
<1>3. \A i : i \in bucket \union DOMAIN queue \union reported \union crossed \union mislabelled => Accounted(i)'
  BY DEF Accounted, HeldByWorker
<1>4. \A i \in owed' : w # Retrier /\ i \in Holds(w, worker[w]) => Accounted(i)'
  BY <1>1 DEF Accounted, HeldByWorker
<1>5. NoSilentLoss'
  BY <1>1, <1>3, <1>4, LossKept DEF PurgeInv
<1>. QED  BY <1>1, <1>2, <1>5 DEF PurgeInv

LEMMA NextChunkKeeps == ASSUME PurgeInv, NEW k \in Flushers, NextChunk(k) PROVE PurgeInv'
<1>. DEFINE rest == worker[k].rest
<1>0. k \in Workers /\ k # Retrier /\ <<>> \in CallSeqs /\ {} \in SUBSET CFItems
  BY EmptySeq DEF Workers, Flushers, Kinds, Retrier, CallSeqs
<1>1. worker[k] \in Works /\ rest \in SUBSET CFItems
  BY <1>0 DEF PurgeInv, PurgeTypeOK, Works
<1>2. /\ worker[k].step = "chunk"
      /\ UNCHANGED <<bucket, queue, retrying, circuit, owed, reported, crossed, mislabelled, cfplan, asksLeft, cfClosing>>
      /\ \/ rest = {} /\ SetWork(k, NoWork)
         \/ \E chunk \in SUBSET rest : SetWork(k, Work("gate", <<chunk>>, chunk, rest \ chunk))
  BY DEF NextChunk, CFUnchanged
<1>3. Holds(k, worker[k]) = rest
  BY <1>2 DEF Holds
<1>4. circuit' \in Circuits
  BY <1>2 DEF PurgeInv, PurgeTypeOK
<1>. HIDE DEF rest
<1>5. CASE rest = {} /\ SetWork(k, NoWork)
  <2>1. NoWork \in Works /\ NoWork.rest = {} /\ NoWork.step = "idle"
    BY <1>0, NewWork, SMTT(30) DEF NoWork
  <2>2. Working(k, NoWork)
    BY <2>1 DEF Working
  <2>3. \A v \in Workers \ {k} : worker'[v] = worker[v]
    BY <1>0, <1>5, <2>1, <2>2, WorkPut
  <2>4. Breaking' /\ HalfOpenIsProbed'
    BY <1>0, <1>2, <2>3, CircuitKept
  <2>. QED  BY <1>0, <1>2, <1>3, <1>4, <1>5, <2>1, <2>2, <2>4, StepKeeps
<1>6. ASSUME NEW chunk \in SUBSET rest, SetWork(k, Work("gate", <<chunk>>, chunk, rest \ chunk))
      PROVE  PurgeInv'
  <2>. DEFINE at == Work("gate", <<chunk>>, chunk, rest \ chunk)
  <2>1. chunk \in SUBSET CFItems /\ rest \ chunk \in SUBSET CFItems
    BY <1>1
  <2>2. <<chunk>> \in CallSeqs /\ <<chunk>> # <<>> /\ InCalls(<<chunk>>) = chunk
    BY <2>1, OneCall, SMTT(30) DEF CallSeqs
  <2>3. /\ at \in Works /\ at.step = "gate" /\ at.calls = <<chunk>> /\ at.label = chunk
        /\ at.rest = rest \ chunk /\ at.res = "none"
    BY <2>1, <2>2, NewWork, SMTT(30)
  <2>. HIDE DEF at
  <2>4. Working(k, at)
    BY <2>2, <2>3 DEF Working
  <2>5. \A i \in rest : i \in Holds(k, at)
    BY <2>2, <2>3 DEF Holds
  <2>6. SetWork(k, at)
    BY <1>6 DEF at
  <2>7. \A v \in Workers \ {k} : worker'[v] = worker[v]
    BY <1>0, <2>3, <2>4, <2>6, WorkPut
  <2>8. Breaking' /\ HalfOpenIsProbed'
    BY <1>0, <1>2, <2>7, CircuitKept
  <2>. QED  BY <1>0, <1>2, <1>3, <1>4, <2>3, <2>4, <2>5, <2>6, <2>8, StepKeeps
<1>. QED  BY <1>2, <1>5, <1>6

-----------------------------------------------------------------------------
LEMMA Bounds ==
  /\ 0 \in 0..HalfOpenMax /\ 0 < HalfOpenMax /\ 0 < FailureThreshold /\ 0 \in 0..FailureThreshold
  /\ \A n \in 0..HalfOpenMax : n < HalfOpenMax => n + 1 \in 0..HalfOpenMax /\ n + 1 > 0
  /\ \A n \in 0..FailureThreshold : n < FailureThreshold => n + 1 \in 0..FailureThreshold
BY PurgeAssumption, SMTT(30)

LEMMA Probing ==
  ASSUME NEW c \in Circuits
  PROVE  LET p == [c EXCEPT !.state = "half_open", !.used = 0, !.ripe = FALSE]
         IN p \in Circuits /\ p.state = "half_open" /\ p.used = 0
BY Bounds DEF Circuits

LEMMA Admitted ==
  ASSUME NEW c \in Circuits, c.used < HalfOpenMax
  PROVE  LET p == [c EXCEPT !.used = @ + 1]
         IN p \in Circuits /\ p.state = c.state /\ p.used > 0
<1>1. c.used \in 0..HalfOpenMax
  BY DEF Circuits
<1>2. c.used + 1 \in 0..HalfOpenMax /\ c.used + 1 > 0
  BY <1>1, Bounds
<1>. QED  BY <1>2 DEF Circuits

LEMMA AllowKeeps ==
  ASSUME NEW c \in Circuits
  PROVE  /\ Allow(c).next \in Circuits
         /\ c.state = "closed" => Allow(c).next = c
         /\ c.state # "closed" => Allow(c).next.state # "closed"
         /\ Allow(c).next.state = "half_open" =>
              \/ Allow(c).ok /\ Allow(c).next.used > 0
              \/ c.state = "half_open" /\ Allow(c).next = c
<1>. DEFINE p == IF c.state = "open" /\ c.ripe THEN [c EXCEPT !.state = "half_open", !.used = 0, !.ripe = FALSE]
                 ELSE c
            spare == p.state = "half_open" /\ p.used < HalfOpenMax
            q == [p EXCEPT !.used = @ + 1]
<1>1. /\ Allow(c).ok = (c.state = "closed" \/ spare)
      /\ Allow(c).next = IF spare THEN q ELSE p
  BY DEF Allow
<1>2. p \in Circuits /\ (p = c \/ (c.state = "open" /\ p.state = "half_open" /\ p.used < HalfOpenMax))
  BY Probing, Bounds
<1>. HIDE DEF p
<1>3. spare => q \in Circuits /\ q.state = "half_open" /\ q.used > 0
  BY <1>2, Admitted
<1>. HIDE DEF q
<1>. QED  BY <1>1, <1>2, <1>3

LEMMA Reset ==
  ASSUME NEW c \in Circuits
  PROVE  /\ [c EXCEPT !.state = "closed", !.failures = 0] \in Circuits
         /\ [c EXCEPT !.state = "closed", !.failures = 0].state = "closed"
         /\ [c EXCEPT !.state = "closed", !.failures = 0].failures = 0
         /\ [c EXCEPT !.failures = 0] \in Circuits
         /\ [c EXCEPT !.failures = 0].state = c.state
         /\ [c EXCEPT !.failures = 0].failures = 0
<1>1. /\ [c EXCEPT !.state = "closed", !.failures = 0] \in Circuits
      /\ [c EXCEPT !.state = "closed", !.failures = 0].state = "closed"
      /\ [c EXCEPT !.state = "closed", !.failures = 0].failures = 0
  BY Bounds DEF Circuits
<1>2. /\ [c EXCEPT !.failures = 0] \in Circuits /\ [c EXCEPT !.failures = 0].state = c.state
      /\ [c EXCEPT !.failures = 0].failures = 0
  BY Bounds DEF Circuits
<1>. QED  BY <1>1, <1>2

LEMMA Opened ==
  ASSUME NEW c \in Circuits
  PROVE  /\ [c EXCEPT !.state = "open", !.used = 0, !.ripe = FALSE] \in Circuits
         /\ [c EXCEPT !.state = "open", !.used = 0, !.ripe = FALSE].state = "open"
BY Bounds DEF Circuits

\* One failure more.
Failing(c, n) == [c EXCEPT !.failures = n]

LEMMA Failed ==
  ASSUME NEW c \in Circuits, NEW n \in 0..FailureThreshold
  PROVE  /\ Failing(c, n) \in Circuits
         /\ Failing(c, n).state = c.state
         /\ Failing(c, n).failures = n
BY DEF Circuits, Failing

LEMMA RecordKeeps ==
  ASSUME NEW c \in Circuits, c.state = "closed" => c.failures < FailureThreshold
  PROVE  /\ RecordSuccess(c) \in Circuits /\ RecordFailure(c) \in Circuits
         /\ RecordSuccess(c).state # "half_open" /\ RecordFailure(c).state # "half_open"
         /\ RecordSuccess(c).state = "closed" => RecordSuccess(c).failures < FailureThreshold
         /\ RecordFailure(c).state = "closed" => RecordFailure(c).failures < FailureThreshold
<1>1. c.failures \in 0..FailureThreshold /\ c.state \in {"closed", "open", "half_open"}
  BY DEF Circuits
<1>2. /\ RecordSuccess(c) \in Circuits /\ RecordSuccess(c).state # "half_open"
      /\ RecordSuccess(c).state = "closed" => RecordSuccess(c).failures < FailureThreshold
  BY Reset, Bounds DEF RecordSuccess
<1>. DEFINE opened == [c EXCEPT !.state = "open", !.used = 0, !.ripe = FALSE]
<1>3. opened \in Circuits /\ opened.state = "open"
  BY <1>1, Opened
<1>4. CASE c.state = "closed"
  <2>1. c.failures + 1 \in 0..FailureThreshold
    BY <1>1, <1>4, Bounds
  <2>2. /\ c.failures + 1 >= FailureThreshold => RecordFailure(c) = Failing(opened, c.failures + 1)
        /\ c.failures + 1 < FailureThreshold => RecordFailure(c) = Failing(c, c.failures + 1)
        /\ c.failures + 1 >= FailureThreshold \/ c.failures + 1 < FailureThreshold
    <3>1. c.failures + 1 < FailureThreshold <=> ~(c.failures + 1 >= FailureThreshold)
      BY <2>1, PurgeAssumption, SMTT(30)
    <3>. QED  BY <1>4, <3>1 DEF RecordFailure, Failing
  <2>. HIDE DEF opened
  <2>3. CASE c.failures + 1 >= FailureThreshold
    <3>1. RecordFailure(c) \in Circuits /\ RecordFailure(c).state = "open"
      BY <1>3, <2>1, <2>2, <2>3, Failed, SMTT(30)
    <3>. QED  BY <1>2, <3>1
  <2>4. CASE c.failures + 1 < FailureThreshold
    <3>1. /\ RecordFailure(c) \in Circuits /\ RecordFailure(c).state = "closed"
          /\ RecordFailure(c).failures = c.failures + 1
      BY <1>4, <2>1, <2>2, <2>4, Failed, SMTT(30)
    <3>. QED  BY <1>2, <2>4, <3>1
  <2>. QED  BY <2>2, <2>3, <2>4
<1>5. CASE c.state = "half_open"
  BY <1>2, <1>3, <1>5 DEF RecordFailure
<1>6. CASE c.state = "open"
  BY <1>2, <1>6 DEF RecordFailure
<1>. QED  BY <1>1, <1>4, <1>5, <1>6

\* A goroutine takes another step of its way.
LEMMA Restepped ==
  ASSUME NEW at \in Works, NEW step \in {"call", "record", "enqueue", "forget", "backoff"}
  PROVE  /\ [at EXCEPT !.step = step] \in Works
         /\ [at EXCEPT !.step = step].step = step
         /\ [at EXCEPT !.step = step].calls = at.calls
         /\ [at EXCEPT !.step = step].label = at.label
         /\ [at EXCEPT !.step = step].rest = at.rest
         /\ [at EXCEPT !.step = step].res = at.res
<1>1. [at EXCEPT !.step = step] \in Works
  BY DEF Works
<1>2. /\ [at EXCEPT !.step = step].step = step
      /\ [at EXCEPT !.step = step].calls = at.calls
      /\ [at EXCEPT !.step = step].label = at.label
      /\ [at EXCEPT !.step = step].rest = at.rest
      /\ [at EXCEPT !.step = step].res = at.res
  BY DEF Works
<1>. QED  BY <1>1, <1>2

LEMMA Resulted ==
  ASSUME NEW at \in Works, NEW step \in {"record", "enqueue"}, NEW res \in {"ok", "err"}
  PROVE  /\ [at EXCEPT !.step = step, !.res = res] \in Works
         /\ [at EXCEPT !.step = step, !.res = res].step = step
         /\ [at EXCEPT !.step = step, !.res = res].calls = at.calls
         /\ [at EXCEPT !.step = step, !.res = res].label = at.label
         /\ [at EXCEPT !.step = step, !.res = res].rest = at.rest
         /\ [at EXCEPT !.step = step, !.res = res].res = res
<1>1. [at EXCEPT !.step = step, !.res = res] \in Works
  BY DEF Works
<1>2. /\ [at EXCEPT !.step = step, !.res = res].step = step
      /\ [at EXCEPT !.step = step, !.res = res].calls = at.calls
      /\ [at EXCEPT !.step = step, !.res = res].label = at.label
      /\ [at EXCEPT !.step = step, !.res = res].rest = at.rest
      /\ [at EXCEPT !.step = step, !.res = res].res = res
  BY DEF Works
<1>. QED  BY <1>1, <1>2

\* On the way to the queue nothing is let go of.
LEMMA ToTheQueue ==
  ASSUME NEW w \in Workers \ {Retrier}, NEW at \in Works, NEW rec \in Works, Working(w, at),
         at.step \in {"gate", "record"}, rec.step = "enqueue", rec.calls = at.calls,
         rec.label = at.label, rec.rest = at.rest
  PROVE  Holds(w, at) \subseteq Holds(w, rec) /\ Working(w, rec)
<1>1. w \in Tasks \/ w \in Flushers
  BY DEF Workers
<1>2. InCalls(at.calls) \subseteq at.label \union Unlabelled(w, rec)
  BY <1>1 DEF Unlabelled, Working
<1>3. Holds(w, rec) = at.rest \union (at.label \union Unlabelled(w, rec))
  BY DEF Holds
<1>4. Holds(w, at) \subseteq at.rest \union InCalls(at.calls)
  BY DEF Holds
<1>5. Working(w, rec)
  BY DEF Working
<1>. QED  BY <1>2, <1>3, <1>4, <1>5

LEMMA GatekeepKeeps == ASSUME PurgeInv, NEW w \in Workers, Gatekeep(w) PROVE PurgeInv'
<1>. DEFINE at == worker[w]
            a == IF cfplan.circuit THEN Allow(circuit) ELSE [ok |-> TRUE, next |-> circuit]
<1>1. /\ at.step = "gate" /\ circuit' = a.next
      /\ UNCHANGED <<bucket, queue, retrying, owed, reported, crossed, mislabelled, cfplan, asksLeft, cfClosing>>
      /\ SetWork(w, IF a.ok THEN [at EXCEPT !.step = "call"]
                    ELSE IF w = Retrier THEN [at EXCEPT !.step = "backoff"]
                    ELSE [at EXCEPT !.step = "enqueue", !.res = "err"])
  BY DEF Gatekeep, CFUnchanged
<1>2. at \in Works /\ Working(w, at) /\ circuit \in Circuits
  BY DEF PurgeInv, PurgeTypeOK
<1>3. /\ a.next \in Circuits
      /\ circuit.state = "closed" => a.next = circuit
      /\ circuit.state # "closed" => a.next.state # "closed"
      /\ a.next.state = "half_open" =>
           (a.ok /\ a.next.used > 0) \/ (circuit.state = "half_open" /\ a.next = circuit)
  <2>1. CASE cfplan.circuit
    BY <1>2, <2>1, AllowKeeps
  <2>2. CASE ~cfplan.circuit
    BY <1>2, <2>2 DEF PurgeInv, Breaking
  <2>. QED  BY <2>1, <2>2
<1>4. Breaking'
  BY <1>1, <1>3 DEF PurgeInv, Breaking
<1>. HIDE DEF at, a
<1>5. ASSUME NEW rec \in Works, SetWork(w, rec), Working(w, rec), a.ok => rec.step = "call",
             w # Retrier => Holds(w, at) \subseteq Holds(w, rec)
      PROVE  PurgeInv'
  <2>1. worker'[w] = rec /\ \A v \in Workers \ {w} : worker'[v] = worker[v]
    BY <1>5, WorkPut
  <2>2. HalfOpenIsProbed'
    BY <1>1, <1>3, <1>5, <2>1 DEF PurgeInv, HalfOpenIsProbed, at
  <2>. QED  BY <1>1, <1>3, <1>4, <1>5, <2>2, StepKeeps DEF at
<1>6. CASE a.ok
  <2>. DEFINE rec == [at EXCEPT !.step = "call"]
  <2>1. /\ rec \in Works /\ rec.step = "call" /\ rec.calls = at.calls /\ rec.label = at.label
        /\ rec.rest = at.rest /\ rec.res = at.res
    BY <1>2, Restepped
  <2>2. SetWork(w, rec)
    BY <1>1, <1>6
  <2>. HIDE DEF rec
  <2>3. Working(w, rec) /\ Holds(w, at) \subseteq Holds(w, rec)
    BY <1>1, <1>2, <2>1 DEF Working, Holds
  <2>. QED  BY <1>5, <2>1, <2>2, <2>3
<1>7. CASE ~a.ok /\ w = Retrier
  <2>. DEFINE rec == [at EXCEPT !.step = "backoff"]
  <2>1. rec \in Works /\ rec.step = "backoff" /\ rec.rest = at.rest
    BY <1>2, Restepped
  <2>2. SetWork(w, rec)
    BY <1>1, <1>7
  <2>. HIDE DEF rec
  <2>3. Working(w, rec)
    BY <1>2, <2>1 DEF Working
  <2>. QED  BY <1>5, <1>7, <2>1, <2>2, <2>3
<1>8. CASE ~a.ok /\ w # Retrier
  <2>. DEFINE rec == [at EXCEPT !.step = "enqueue", !.res = "err"]
  <2>1. /\ rec \in Works /\ rec.step = "enqueue" /\ rec.calls = at.calls /\ rec.label = at.label
        /\ rec.rest = at.rest
    BY <1>2, Resulted
  <2>2. SetWork(w, rec)
    BY <1>1, <1>8
  <2>. HIDE DEF rec
  <2>3. Working(w, rec) /\ Holds(w, at) \subseteq Holds(w, rec)
    BY <1>1, <1>2, <1>8, <2>1, ToTheQueue
  <2>. QED  BY <1>5, <1>8, <2>1, <2>2, <2>3
<1>. QED  BY <1>6, <1>7, <1>8

LEMMA CallAPIKeeps == ASSUME PurgeInv, NEW w \in Workers, CallAPI(w) PROVE PurgeInv'
<1>. DEFINE at == worker[w]
            more == [at EXCEPT !.calls = Tail(at.calls), !.tries = 0]
            done == [at EXCEPT !.step = "record", !.res = "ok"]
            again == [at EXCEPT !.tries = at.tries + 1]
            failed == [at EXCEPT !.step = "record", !.res = "err"]
<1>1. /\ at.step = "call"
      /\ UNCHANGED <<bucket, queue, retrying, circuit, reported, crossed, mislabelled, cfplan, asksLeft, cfClosing>>
      /\ \/ owed' = owed \ Head(at.calls) /\ Len(at.calls) > 1 /\ SetWork(w, more)
         \/ owed' = owed \ Head(at.calls) /\ ~(Len(at.calls) > 1) /\ SetWork(w, done)
         \/ UNCHANGED owed /\ at.tries < CFMaxRetries /\ SetWork(w, again)
         \/ UNCHANGED owed /\ SetWork(w, failed)
  BY DEF CallAPI, CFUnchanged, TryAgain
<1>2. at \in Works /\ Working(w, at) /\ at.calls \in CallSeqs /\ at.calls # <<>> /\ at.res # "ok"
  BY <1>1 DEF PurgeInv, PurgeTypeOK, Works, Working, CallSeqs
<1>3. circuit' \in Circuits /\ Breaking'
  BY <1>1 DEF PurgeInv, PurgeTypeOK, Breaking
<1>4. Holds(w, at) = at.rest \union InCalls(at.calls)
  BY <1>1, <1>2 DEF Holds
<1>. HIDE DEF at
<1>5. ASSUME NEW rec \in Works, SetWork(w, rec), Working(w, rec), rec.step \in {"call", "record"},
             owed' \subseteq owed, \A i \in owed' : i \in Holds(w, at) => i \in Holds(w, rec)
      PROVE  PurgeInv'
  <2>1. worker'[w] = rec /\ \A v \in Workers \ {w} : worker'[v] = worker[v]
    BY <1>5, WorkPut
  <2>2. HalfOpenIsProbed'
    BY <1>1, <1>5, <2>1 DEF PurgeInv, HalfOpenIsProbed
  <2>. QED  BY <1>1, <1>3, <1>5, <2>2, StepKeeps DEF at
<1>6. CASE owed' = owed \ Head(at.calls) /\ Len(at.calls) > 1 /\ SetWork(w, more)
  <2>1. /\ Tail(at.calls) \in CallSeqs /\ Tail(at.calls) # <<>>
        /\ InCalls(at.calls) \ Head(at.calls) \subseteq InCalls(Tail(at.calls))
        /\ InCalls(Tail(at.calls)) \subseteq InCalls(at.calls)
    BY <1>2, <1>6, CallsLeft
  <2>2. /\ more \in Works /\ more.step = at.step /\ more.calls = Tail(at.calls) /\ more.label = at.label
        /\ more.rest = at.rest /\ more.res = at.res
    <3>1. 0 \in 0..CFMaxRetries
      BY PurgeAssumption, SMTT(30)
    <3>. QED  BY <1>2, <2>1, <3>1 DEF Works, CallSeqs
  <2>. HIDE DEF more
  <2>3. Working(w, more)
    BY <1>1, <1>2, <2>1, <2>2 DEF Working
  <2>4. Holds(w, more) = at.rest \union InCalls(Tail(at.calls))
    BY <1>1, <1>2, <2>2 DEF Holds
  <2>. QED  BY <1>1, <1>4, <1>5, <1>6, <2>1, <2>2, <2>3, <2>4
<1>7. CASE owed' = owed \ Head(at.calls) /\ ~(Len(at.calls) > 1) /\ SetWork(w, done)
  <2>1. InCalls(at.calls) = Head(at.calls)
    BY <1>2, <1>7, LastCall
  <2>2. /\ done \in Works /\ done.step = "record" /\ done.calls = at.calls /\ done.label = at.label
        /\ done.rest = at.rest /\ done.res = "ok"
    BY <1>2, Resulted
  <2>. HIDE DEF done
  <2>3. Working(w, done)
    BY <1>1, <1>2, <2>2 DEF Working
  <2>4. Holds(w, done) = at.rest
    BY <2>2 DEF Holds
  <2>. QED  BY <1>4, <1>5, <1>7, <2>1, <2>2, <2>3, <2>4
<1>8. CASE UNCHANGED owed /\ at.tries < CFMaxRetries /\ SetWork(w, again)
  <2>1. /\ again \in Works /\ again.step = at.step /\ again.calls = at.calls /\ again.label = at.label
        /\ again.rest = at.rest /\ again.res = at.res
    <3>1. at.tries \in 0..CFMaxRetries
      BY <1>2 DEF Works
    <3>2. at.tries + 1 \in 0..CFMaxRetries
      BY <1>8, <3>1, PurgeAssumption, SMTT(30)
    <3>. QED  BY <1>2, <3>2 DEF Works
  <2>. HIDE DEF again
  <2>2. Working(w, again) /\ Holds(w, again) = at.rest \union InCalls(at.calls)
    BY <1>1, <1>2, <2>1 DEF Working, Holds
  <2>. QED  BY <1>1, <1>4, <1>5, <1>8, <2>1, <2>2
<1>9. CASE UNCHANGED owed /\ SetWork(w, failed)
  <2>1. /\ failed \in Works /\ failed.step = "record" /\ failed.calls = at.calls /\ failed.label = at.label
        /\ failed.rest = at.rest /\ failed.res = "err"
    BY <1>2, Resulted
  <2>. HIDE DEF failed
  <2>2. Working(w, failed) /\ Holds(w, failed) = at.rest \union InCalls(at.calls)
    BY <1>1, <1>2, <2>1 DEF Working, Holds
  <2>. QED  BY <1>4, <1>5, <1>9, <2>1, <2>2
<1>. QED  BY <1>1, <1>6, <1>7, <1>8, <1>9

\* A call that is over leaves a flusher with the rest of its chunks.
LEMMA AfterwardsKeeps ==
  ASSUME NEW w \in Workers, worker[w] \in Works, Working(w, worker[w])
  PROVE  /\ Afterwards(w) \in Works /\ Working(w, Afterwards(w))
         /\ Holds(w, Afterwards(w)) = worker[w].rest
<1>1. worker[w].rest \in SUBSET CFItems /\ <<>> \in CallSeqs /\ {} \in SUBSET CFItems
  BY EmptySeq DEF Works, CallSeqs
<1>2. CASE w \in Flushers
  <2>. DEFINE at == Work("chunk", <<>>, {}, worker[w].rest)
  <2>1. at \in Works /\ at.step = "chunk" /\ at.rest = worker[w].rest
    BY <1>1, NewWork, SMTT(30)
  <2>2. Afterwards(w) = at
    BY <1>2 DEF Afterwards
  <2>. HIDE DEF at
  <2>. QED  BY <1>2, <2>1, <2>2 DEF Working, Holds
<1>3. CASE w \notin Flushers
  <2>1. NoWork \in Works /\ NoWork.step = "idle" /\ NoWork.rest = {}
    BY <1>1, NewWork, SMTT(30) DEF NoWork
  <2>2. Afterwards(w) = NoWork /\ worker[w].rest = {}
    BY <1>3 DEF Afterwards, Working
  <2>. QED  BY <2>1, <2>2 DEF Working, Holds
<1>. QED  BY <1>2, <1>3

LEMMA RecordCallKeeps == ASSUME PurgeInv, NEW w \in Workers, RecordCall(w) PROVE PurgeInv'
<1>. DEFINE at == worker[w]
<1>1. /\ at.step = "record"
      /\ circuit' = IF ~cfplan.circuit THEN circuit
                    ELSE IF at.res = "ok" THEN RecordSuccess(circuit) ELSE RecordFailure(circuit)
      /\ UNCHANGED <<bucket, queue, retrying, owed, reported, crossed, mislabelled, cfplan, asksLeft, cfClosing>>
  BY DEF RecordCall, CFUnchanged
<1>2. /\ at \in Works /\ Working(w, at) /\ circuit \in Circuits /\ at.res \in {"ok", "err"}
      /\ at.rest \in SUBSET CFItems
  BY <1>1 DEF PurgeInv, PurgeTypeOK, Working, Works
<1>3. \/ w = Retrier /\ at.res = "ok" /\ SetWork(w, [at EXCEPT !.step = "forget"])
      \/ w = Retrier /\ at.res = "err" /\ SetWork(w, [at EXCEPT !.step = "backoff"])
      \/ w # Retrier /\ at.res = "err" /\ SetWork(w, [at EXCEPT !.step = "enqueue"])
      \/ w # Retrier /\ at.res = "ok" /\ SetWork(w, Afterwards(w))
  BY <1>2 DEF RecordCall
<1>4. circuit' \in Circuits /\ Breaking' /\ HalfOpenIsProbed'
  <2>1. CASE cfplan.circuit
    <3>1. circuit.state = "closed" => circuit.failures < FailureThreshold
      BY DEF PurgeInv, Breaking
    <3>2. /\ circuit' \in Circuits /\ circuit'.state # "half_open"
          /\ circuit'.state = "closed" => circuit'.failures < FailureThreshold
      BY <1>1, <1>2, <2>1, <3>1, RecordKeeps
    <3>. QED  BY <1>1, <2>1, <3>2 DEF Breaking, HalfOpenIsProbed
  <2>2. CASE ~cfplan.circuit
    BY <1>1, <1>2, <2>2 DEF PurgeInv, Breaking, HalfOpenIsProbed
  <2>. QED  BY <2>1, <2>2
<1>. HIDE DEF at
<1>5. ASSUME NEW rec \in Works, SetWork(w, rec), Working(w, rec),
             w # Retrier => Holds(w, at) \subseteq Holds(w, rec)
      PROVE  PurgeInv'
  BY <1>1, <1>4, <1>5, StepKeeps DEF at
<1>6. CASE w = Retrier
  <2>1. PICK step \in {"forget", "backoff"} : SetWork(w, [at EXCEPT !.step = step])
    BY <1>3, <1>6
  <2>. DEFINE rec == [at EXCEPT !.step = step]
  <2>2. rec \in Works /\ rec.step = step /\ rec.rest = at.rest
    <3>1. step \in {"call", "record", "enqueue", "forget", "backoff"}
      OBVIOUS
    <3>. HIDE <2>1
    <3>. QED  BY <1>2, <3>1, Restepped
  <2>. HIDE DEF rec
  <2>3. Working(w, rec)
    BY <1>2, <2>2 DEF Working
  <2>. QED  BY <1>5, <1>6, <2>1, <2>2, <2>3 DEF rec
<1>7. CASE w # Retrier /\ at.res = "err"
  <2>. DEFINE rec == [at EXCEPT !.step = "enqueue"]
  <2>1. /\ rec \in Works /\ rec.step = "enqueue" /\ rec.calls = at.calls /\ rec.label = at.label
        /\ rec.rest = at.rest
    BY <1>2, Restepped
  <2>2. SetWork(w, rec)
    BY <1>3, <1>7
  <2>. HIDE DEF rec
  <2>3. Working(w, rec) /\ Holds(w, at) \subseteq Holds(w, rec)
    BY <1>1, <1>2, <1>7, <2>1, ToTheQueue
  <2>. QED  BY <1>5, <2>1, <2>2, <2>3
<1>8. CASE w # Retrier /\ at.res = "ok"
  <2>1. SetWork(w, Afterwards(w)) /\ Holds(w, at) = at.rest
    BY <1>1, <1>3, <1>8 DEF Holds
  <2>2. /\ Afterwards(w) \in Works /\ Working(w, Afterwards(w))
        /\ Holds(w, Afterwards(w)) = at.rest
    BY <1>2, AfterwardsKeeps DEF at
  <2>. QED  BY <1>5, <2>1, <2>2
<1>. QED  BY <1>2, <1>6, <1>7, <1>8

-----------------------------------------------------------------------------
\* A queue that loses items only remains one.
LEMMA QueueLess ==
  ASSUME PurgeInv, NEW S, S \subseteq DOMAIN queue
  PROVE  IsFiniteSet(S) /\ Cardinality(S) <= QueueMax /\ S \subseteq CFItems
<1>1. IsFiniteSet(DOMAIN queue) /\ Cardinality(DOMAIN queue) <= QueueMax /\ DOMAIN queue \subseteq CFItems
  BY DEF PurgeInv, PurgeTypeOK
<1>2. IsFiniteSet(S) /\ Cardinality(S) <= Cardinality(DOMAIN queue)
  BY <1>1, FS_Subset
<1>3. Cardinality(S) \in Nat /\ Cardinality(DOMAIN queue) \in Nat /\ QueueMax \in Nat
  BY <1>1, <1>2, FS_CardinalityType, PurgeAssumption
<1>4. Cardinality(S) <= QueueMax
  BY <1>1, <1>2, <1>3, SMTT(30)
<1>. QED  BY <1>1, <1>2, <1>4

LEMMA Fits == Fresh \in Waits
BY PurgeAssumption, SMTT(30) DEF Fresh, Waits

\* An item more fits while there is room.
LEMMA QueueMore ==
  ASSUME PurgeInv, NEW i \in CFItems, i \notin DOMAIN queue, Cardinality(DOMAIN queue) < QueueMax,
         queue' = WithItem(i, Fresh)
  PROVE  /\ DOMAIN queue' = DOMAIN queue \union {i} /\ IsFiniteSet(DOMAIN queue')
         /\ Cardinality(DOMAIN queue') <= QueueMax
         /\ \A j \in DOMAIN queue' : queue'[j] \in Waits
<1>1. DOMAIN queue' = DOMAIN queue \union {i} /\ \A j \in DOMAIN queue' : queue'[j] \in Waits
  BY Fits DEF WithItem, PurgeInv, PurgeTypeOK
<1>2. IsFiniteSet(DOMAIN queue) /\ Cardinality(DOMAIN queue) \in Nat
  BY FS_CardinalityType DEF PurgeInv
<1>3. /\ IsFiniteSet(DOMAIN queue \union {i})
      /\ Cardinality(DOMAIN queue \union {i}) = Cardinality(DOMAIN queue) + 1
  BY <1>2, FS_AddElement
<1>4. Cardinality(DOMAIN queue) + 1 <= QueueMax
  BY <1>2, PurgeAssumption, SMTT(30)
<1>. QED  BY <1>1, <1>3, <1>4

LEMMA CalledFor == ASSUME NEW s \in CallSeqs PROVE InCalls(s) \subseteq CFItems
<1>1. \A n \in 1..Len(s) : s[n] \in SUBSET CFItems
  BY SMTT(30) DEF CallSeqs
<1>. QED  BY <1>1 DEF InCalls

\* A failed item leaves its goroutine for the queue, or is given up; what the
\* label does not name is passed over at the end.
LEMMA EnqueueFailedKeeps == ASSUME PurgeInv, NEW w \in Workers, EnqueueFailed(w) PROVE PurgeInv'
<1>. DEFINE at == worker[w]
<1>1. at.step = "enqueue" /\ UNCHANGED <<bucket, retrying, circuit, owed, crossed, cfplan, asksLeft, cfClosing>>
  BY DEF EnqueueFailed, CFUnchanged
<1>2. /\ at \in Works /\ Working(w, at) /\ at.calls \in CallSeqs /\ at.calls # <<>>
      /\ at.label \in SUBSET CFItems
  BY <1>1 DEF PurgeInv, PurgeTypeOK, Works, Working, CallSeqs
<1>3. Holds(w, at) = at.rest \union (at.label \union Unlabelled(w, at))
  BY <1>1 DEF Holds
<1>4. CASE /\ at.label = {} /\ SetWork(w, Afterwards(w))
           /\ mislabelled' = mislabelled \union Unlabelled(w, at)
           /\ UNCHANGED <<queue, reported>>
  <2>1. /\ Afterwards(w) \in Works /\ Working(w, Afterwards(w))
        /\ Holds(w, Afterwards(w)) = at.rest
    BY <1>2, AfterwardsKeeps
  <2>2. /\ worker' \in [Workers -> Works] /\ worker'[w] = Afterwards(w)
        /\ \A v \in Workers \ {w} : worker'[v] = worker[v]
        /\ \A v \in Workers : Working(v, worker'[v])
    BY <1>4, <2>1, WorkPut
  <2>3. Unlabelled(w, at) \subseteq CFItems
    BY <1>2, CalledFor DEF Unlabelled
  <2>4. PurgeTypeOK'
    BY <1>1, <1>4, <2>2, <2>3 DEF PurgeInv, PurgeTypeOK
  <2>5. Breaking' /\ HalfOpenIsProbed'
    BY <1>1, <2>2, CircuitKept
  <2>6. \A i : i \in bucket \union DOMAIN queue \union reported \union crossed \union mislabelled => Accounted(i)'
    BY <1>1, <1>4 DEF Accounted, HeldByWorker
  <2>7. \A i : w # Retrier /\ i \in Holds(w, at) => Accounted(i)'
    BY <1>3, <1>4, <2>1, <2>2 DEF Accounted, HeldByWorker
  <2>8. NoSilentLoss'
    BY <1>1, <2>2, <2>6, <2>7, LossKept DEF PurgeInv
  <2>. QED  BY <1>1, <1>4, <2>2, <2>4, <2>5, <2>8 DEF PurgeInv
<1>5. ASSUME NEW i \in at.label,
             SetWork(w, [at EXCEPT !.label = @ \ {i}, !.calls = CallsWithout(@, i)]),
             UNCHANGED mislabelled,
             \/ i \in DOMAIN queue /\ UNCHANGED <<queue, reported>>
             \/ /\ i \notin DOMAIN queue /\ Cardinality(DOMAIN queue) < QueueMax
                /\ queue' = WithItem(i, Fresh) /\ UNCHANGED reported
             \/ UNCHANGED queue /\ reported' = reported \union {i}
      PROVE  PurgeInv'
  <2>. DEFINE t == CallsWithout(at.calls, i)
              rec == [at EXCEPT !.label = at.label \ {i}, !.calls = t]
  <2>1. t \in CallSeqs /\ t # <<>> /\ InCalls(at.calls) \ {i} \subseteq InCalls(t)
    BY <1>2, CallWithout
  <2>2. SetWork(w, rec)
    BY <1>5
  <2>. HIDE DEF t
  <2>3. /\ rec \in Works /\ rec.step = at.step /\ rec.calls = t /\ rec.label = at.label \ {i}
        /\ rec.rest = at.rest /\ rec.res = at.res
    <3>1. at.label \ {i} \in SUBSET CFItems
      BY <1>2
    <3>. HIDE DEF at
    <3>. QED  BY <1>2, <2>1, <3>1 DEF Works, CallSeqs
  <2>. HIDE DEF rec
  <2>4. Working(w, rec)
    BY <1>1, <1>2, <2>1, <2>3 DEF Working
  <2>5. Holds(w, rec) = at.rest \union ((at.label \ {i}) \union Unlabelled(w, rec))
    BY <1>1, <2>3 DEF Holds
  <2>6. Unlabelled(w, at) \ {i} \subseteq Unlabelled(w, rec)
    BY <2>1, <2>3 DEF Unlabelled
  <2>7. Holds(w, at) \ {i} \subseteq Holds(w, rec)
    BY <1>3, <2>5, <2>6
  <2>8. /\ worker' \in [Workers -> Works] /\ worker'[w] = rec
        /\ \A v \in Workers \ {w} : worker'[v] = worker[v]
        /\ \A v \in Workers : Working(v, worker'[v])
    BY <2>2, <2>3, <2>4, WorkPut
  <2>9. /\ DOMAIN queue \subseteq DOMAIN queue' /\ reported \subseteq reported'
        /\ i \in DOMAIN queue' \union reported'
        /\ DOMAIN queue' \subseteq CFItems /\ reported' \subseteq CFItems
        /\ IsFiniteSet(DOMAIN queue') /\ Cardinality(DOMAIN queue') <= QueueMax
        /\ \A j \in DOMAIN queue' : queue'[j] \in Waits
    <3>1. /\ i \in CFItems /\ IsFiniteSet(DOMAIN queue) /\ Cardinality(DOMAIN queue) <= QueueMax
          /\ DOMAIN queue \subseteq CFItems /\ reported \subseteq CFItems
          /\ \A j \in DOMAIN queue : queue[j] \in Waits
      BY <1>2 DEF PurgeInv, PurgeTypeOK
    <3>2. CASE UNCHANGED queue /\ (i \in DOMAIN queue \/ i \in reported') /\ reported' \in {reported, reported \union {i}}
      BY <3>1, <3>2
    <3>3. CASE /\ i \notin DOMAIN queue /\ Cardinality(DOMAIN queue) < QueueMax
               /\ queue' = WithItem(i, Fresh) /\ UNCHANGED reported
      <4>1. /\ DOMAIN queue' = DOMAIN queue \union {i} /\ IsFiniteSet(DOMAIN queue')
            /\ Cardinality(DOMAIN queue') <= QueueMax
            /\ \A j \in DOMAIN queue' : queue'[j] \in Waits
        BY <3>1, <3>3, QueueMore
      <4>. QED  BY <3>1, <3>3, <4>1
    <3>. QED  BY <1>5, <3>2, <3>3
  <2>10. PurgeTypeOK'
    BY <1>1, <1>5, <2>8, <2>9 DEF PurgeInv, PurgeTypeOK
  <2>11. Breaking' /\ HalfOpenIsProbed'
    BY <1>1, <2>8, CircuitKept
  <2>12. \A j : j \in bucket \union DOMAIN queue \union reported \union crossed \union mislabelled => Accounted(j)'
    BY <1>1, <1>5, <2>9 DEF Accounted, HeldByWorker
  <2>13. \A j : w # Retrier /\ j \in Holds(w, at) => Accounted(j)'
    BY <2>7, <2>8, <2>9 DEF Accounted, HeldByWorker
  <2>14. NoSilentLoss'
    BY <1>1, <2>8, <2>12, <2>13, LossKept DEF PurgeInv
  <2>. QED  BY <2>8, <2>9, <2>10, <2>11, <2>14 DEF PurgeInv
<1>6. \/ /\ at.label = {} /\ SetWork(w, Afterwards(w))
         /\ mislabelled' = mislabelled \union Unlabelled(w, at)
         /\ UNCHANGED <<queue, reported>>
      \/ \E i \in at.label :
           /\ SetWork(w, [at EXCEPT !.label = @ \ {i}, !.calls = CallsWithout(@, i)])
           /\ UNCHANGED mislabelled
           /\ \/ i \in DOMAIN queue /\ UNCHANGED <<queue, reported>>
              \/ /\ i \notin DOMAIN queue /\ Cardinality(DOMAIN queue) < QueueMax
                 /\ queue' = WithItem(i, Fresh) /\ UNCHANGED reported
              \/ UNCHANGED queue /\ reported' = reported \union {i}
  BY DEF EnqueueFailed
<1>. QED  BY <1>4, <1>5, <1>6

-----------------------------------------------------------------------------
\* The retry loop's steps: the queue loses only what is accounted for.
LEMMA QueueStepKeeps ==
  ASSUME PurgeInv, worker' \in [Workers -> Works], \A v \in Workers : Working(v, worker'[v]),
         \A v \in Workers \ {Retrier} : worker'[v] = worker[v],
         UNCHANGED worker \/ worker[Retrier].step \notin {"call", "record"},
         bucket \subseteq bucket', bucket' \subseteq CFItems, retrying' \subseteq CFItems,
         DOMAIN queue' \subseteq DOMAIN queue, \A j \in DOMAIN queue' : queue'[j] \in Waits,
         reported \subseteq reported', reported' \subseteq CFItems,
         crossed \subseteq crossed', crossed' \subseteq CFItems,
         \A i \in owed \intersect DOMAIN queue : i \in DOMAIN queue' \/ Accounted(i)',
         UNCHANGED <<circuit, owed, mislabelled, cfplan, asksLeft, cfClosing>>
  PROVE  PurgeInv'
<1>1. Retrier \in Workers
  BY DEF Workers
<1>2. IsFiniteSet(DOMAIN queue') /\ Cardinality(DOMAIN queue') <= QueueMax /\ DOMAIN queue' \subseteq CFItems
  BY QueueLess
<1>3. PurgeTypeOK'
  BY <1>2 DEF PurgeInv, PurgeTypeOK
<1>4. Breaking' /\ HalfOpenIsProbed'
  <2>1. CASE UNCHANGED worker
    BY <2>1 DEF PurgeInv, Breaking, HalfOpenIsProbed
  <2>2. CASE worker[Retrier].step \notin {"call", "record"}
    BY <1>1, <2>2, CircuitKept
  <2>. QED  BY <2>1, <2>2
<1>5. \A i \in owed : i \in bucket \union DOMAIN queue \union reported \union crossed \union mislabelled => Accounted(i)'
  BY DEF Accounted, HeldByWorker
<1>6. NoSilentLoss'
  BY <1>1, <1>5, LossKept DEF PurgeInv
<1>. QED  BY <1>2, <1>3, <1>4, <1>6 DEF PurgeInv

LEMMA ItemDueKeeps == ASSUME PurgeInv, NEW i, ItemDue(i) PROVE PurgeInv'
<1>1. /\ i \in DOMAIN queue /\ queue' = [queue EXCEPT ![i].due = TRUE]
      /\ UNCHANGED <<bucket, worker, retrying, circuit, owed, reported, crossed, mislabelled, cfplan, asksLeft, cfClosing>>
  BY DEF ItemDue, CFUnchanged
<1>2. DOMAIN queue' = DOMAIN queue /\ \A j \in DOMAIN queue : queue'[j] \in {queue[j], [queue[j] EXCEPT !.due = TRUE]}
  BY <1>1
<1>3. \A j \in DOMAIN queue : queue[j] \in Waits
  BY DEF PurgeInv, PurgeTypeOK
<1>4. \A r \in Waits : [r EXCEPT !.due = TRUE] \in Waits
  BY DEF Waits
<1>5. \A j \in DOMAIN queue' : queue'[j] \in Waits
  BY <1>2, <1>3, <1>4
<1>6. /\ worker' \in [Workers -> Works] /\ bucket' \subseteq CFItems /\ retrying' \subseteq CFItems
      /\ reported' \subseteq CFItems /\ crossed' \subseteq CFItems
      /\ \A v \in Workers : Working(v, worker'[v])
  BY <1>1 DEF PurgeInv, PurgeTypeOK
<1>. QED  BY <1>1, <1>2, <1>5, <1>6, QueueStepKeeps

LEMMA ProcessReadyKeeps == ASSUME PurgeInv, ProcessReady PROVE PurgeInv'
<1>. DEFINE due == {i \in DOMAIN queue : queue[i].due}
            expired == {i \in due : queue[i].attempts >= QueueRetries}
<1>1. /\ queue' = [i \in DOMAIN queue \ expired |->
                     IF i \in due THEN [queue[i] EXCEPT !.attempts = @ + 1] ELSE queue[i]]
      /\ reported' = reported \union expired /\ retrying' = due \ expired
      /\ UNCHANGED <<bucket, worker, circuit, owed, crossed, mislabelled, cfplan, asksLeft, cfClosing>>
  BY DEF ProcessReady, CFUnchanged
<1>2. /\ \A j \in DOMAIN queue : queue[j] \in Waits
      /\ DOMAIN queue \subseteq CFItems
  BY DEF PurgeInv, PurgeTypeOK
<1>3. \A r \in Waits : ~(r.attempts >= QueueRetries) => [r EXCEPT !.attempts = @ + 1] \in Waits
  <2>. SUFFICES ASSUME NEW r \in Waits, ~(r.attempts >= QueueRetries)
                PROVE  [r EXCEPT !.attempts = @ + 1] \in Waits
    OBVIOUS
  <2>1. r.attempts \in 0..QueueRetries
    BY DEF Waits
  <2>2. r.attempts + 1 \in 0..QueueRetries
    BY <2>1, PurgeAssumption, SMTT(30)
  <2>. QED  BY <2>2 DEF Waits
<1>4. DOMAIN queue' = DOMAIN queue \ expired /\ expired \subseteq DOMAIN queue /\ due \subseteq DOMAIN queue
  BY <1>1
<1>5. ASSUME NEW j \in DOMAIN queue' PROVE queue'[j] \in Waits
  <2>1. j \in DOMAIN queue /\ (j \in due => ~(queue[j].attempts >= QueueRetries))
    BY <1>4
  <2>2. queue'[j] = IF j \in due THEN [queue[j] EXCEPT !.attempts = @ + 1] ELSE queue[j]
    BY <1>1, <1>4
  <2>. QED  BY <1>2, <1>3, <2>1, <2>2
<1>. HIDE DEF due, expired
<1>6. /\ worker' \in [Workers -> Works] /\ bucket' \subseteq CFItems /\ retrying' \subseteq CFItems
      /\ reported' \subseteq CFItems /\ crossed' \subseteq CFItems
      /\ \A v \in Workers : Working(v, worker'[v])
  BY <1>1, <1>2, <1>4 DEF PurgeInv, PurgeTypeOK
<1>7. \A i \in DOMAIN queue : i \in DOMAIN queue' \/ Accounted(i)'
  BY <1>1, <1>4 DEF Accounted
<1>. QED  BY <1>1, <1>4, <1>5, <1>6, <1>7, QueueStepKeeps

LEMMA RetryItemKeeps == ASSUME PurgeInv, NEW i, RetryItem(i) PROVE PurgeInv'
<1>1. /\ i \in retrying /\ worker[Retrier].step = "idle" /\ retrying' = retrying \ {i}
      /\ UNCHANGED <<queue, circuit, owed, reported, crossed, mislabelled, cfplan, asksLeft, cfClosing>>
      /\ \/ bucket' = bucket \union {i} /\ SetWork(Retrier, Work("forget", <<>>, {i}, {}))
         \/ UNCHANGED bucket /\ SetWork(Retrier, Work("gate", <<{i}>>, {i}, {}))
  BY DEF RetryItem, CFUnchanged
<1>2. i \in CFItems /\ Retrier \in Workers /\ Retrier \notin Flushers
  BY <1>1 DEF PurgeInv, PurgeTypeOK, Workers, Retrier, Flushers, Kinds
<1>3. /\ <<>> \in CallSeqs /\ {i} \in SUBSET CFItems /\ {} \in SUBSET CFItems
      /\ <<{i}>> \in CallSeqs /\ <<{i}>> # <<>>
  BY <1>2, SMTT(30) DEF CallSeqs
<1>4. PICK at \in Works : SetWork(Retrier, at) /\ Working(Retrier, at)
  <2>1. CASE SetWork(Retrier, Work("forget", <<>>, {i}, {}))
    <3>. DEFINE at == Work("forget", <<>>, {i}, {})
    <3>1. at \in Works /\ at.step = "forget" /\ at.rest = {}
      BY <1>3, NewWork, SMTT(30)
    <3>2. SetWork(Retrier, at)
      BY <2>1
    <3>. HIDE DEF at
    <3>3. Working(Retrier, at)
      BY <3>1 DEF Working
    <3>. QED  BY <3>1, <3>2, <3>3
  <2>2. CASE SetWork(Retrier, Work("gate", <<{i}>>, {i}, {}))
    <3>. DEFINE calls == <<{i}>>
                at == Work("gate", calls, {i}, {})
    <3>2. SetWork(Retrier, at)
      BY <2>2
    <3>0. calls \in CallSeqs /\ calls # <<>>
      BY <1>3
    <3>. HIDE DEF calls
    <3>1. at \in Works /\ at.step = "gate" /\ at.rest = {} /\ at.calls = calls /\ at.res = "none"
      BY <1>3, <3>0, NewWork, SMTT(30)
    <3>. HIDE DEF at
    <3>3. Working(Retrier, at)
      BY <1>2, <3>0, <3>1 DEF Working
    <3>. QED  BY <3>1, <3>2, <3>3
  <2>. QED  BY <1>1, <2>1, <2>2
<1>5. /\ worker' \in [Workers -> Works]
      /\ \A v \in Workers \ {Retrier} : worker'[v] = worker[v]
      /\ \A v \in Workers : Working(v, worker'[v])
  BY <1>2, <1>4, WorkPut
<1>6. /\ bucket \subseteq bucket' /\ bucket' \subseteq CFItems /\ retrying' \subseteq CFItems
      /\ reported' \subseteq CFItems /\ crossed' \subseteq CFItems
      /\ \A j \in DOMAIN queue' : queue'[j] \in Waits
  BY <1>1, <1>2 DEF PurgeInv, PurgeTypeOK
<1>. QED  BY <1>1, <1>5, <1>6, QueueStepKeeps

\* The retrier ends its turn with the item.
LEMMA RetrierIdles ==
  ASSUME PurgeInv, SetWork(Retrier, NoWork)
  PROVE  /\ worker' \in [Workers -> Works]
         /\ \A v \in Workers \ {Retrier} : worker'[v] = worker[v]
         /\ \A v \in Workers : Working(v, worker'[v])
<1>1. Retrier \in Workers /\ <<>> \in CallSeqs /\ {} \in SUBSET CFItems
  BY EmptySeq DEF Workers, CallSeqs
<1>2. NoWork \in Works /\ NoWork.step = "idle" /\ NoWork.rest = {}
  BY <1>1, NewWork, SMTT(30) DEF NoWork
<1>3. Working(Retrier, NoWork)
  BY <1>2 DEF Working
<1>. QED  BY <1>1, <1>2, <1>3, WorkPut

LEMMA ForgetItemKeeps == ASSUME PurgeInv, ForgetItem PROVE PurgeInv'
<1>. DEFINE S == worker[Retrier].label
<1>1. /\ worker[Retrier].step = "forget" /\ queue' = WithoutItems(S) /\ SetWork(Retrier, NoWork)
      /\ crossed' = crossed \union {i \in S \intersect owed : ~HeldByWorker(i)}
      /\ UNCHANGED <<bucket, retrying, circuit, owed, reported, mislabelled, cfplan, asksLeft, cfClosing>>
  BY DEF ForgetItem, CFUnchanged
<1>. HIDE DEF S
<1>2. /\ worker' \in [Workers -> Works]
      /\ \A v \in Workers \ {Retrier} : worker'[v] = worker[v]
      /\ \A v \in Workers : Working(v, worker'[v])
  BY <1>1, RetrierIdles
<1>3. DOMAIN queue' = DOMAIN queue \ S /\ \A j \in DOMAIN queue' : queue'[j] = queue[j]
  BY <1>1 DEF WithoutItems, Restrict
<1>4. /\ bucket' \subseteq CFItems /\ retrying' \subseteq CFItems
      /\ reported' \subseteq CFItems /\ crossed' \subseteq CFItems
      /\ \A j \in DOMAIN queue' : queue'[j] \in Waits
  BY <1>1, <1>3 DEF PurgeInv, PurgeTypeOK
<1>5. ASSUME NEW i \in owed \intersect DOMAIN queue PROVE i \in DOMAIN queue' \/ Accounted(i)'
  <2>1. CASE i \in S /\ HeldByWorker(i)
    BY <1>1, <1>2, <2>1 DEF Accounted, HeldByWorker
  <2>2. CASE i \in S /\ ~HeldByWorker(i)
    BY <1>1, <2>2 DEF Accounted
  <2>. QED  BY <1>3, <2>1, <2>2
<1>. QED  BY <1>1, <1>2, <1>3, <1>4, <1>5, QueueStepKeeps

LEMMA BackOffKeeps == ASSUME PurgeInv, BackOff PROVE PurgeInv'
<1>1. /\ worker[Retrier].step = "backoff" /\ SetWork(Retrier, NoWork)
      /\ queue' = [i \in DOMAIN queue |->
                     IF i \in worker[Retrier].label THEN [queue[i] EXCEPT !.due = FALSE] ELSE queue[i]]
      /\ UNCHANGED <<bucket, retrying, circuit, owed, reported, crossed, mislabelled, cfplan, asksLeft, cfClosing>>
  BY DEF BackOff, CFUnchanged
<1>2. /\ worker' \in [Workers -> Works]
      /\ \A v \in Workers \ {Retrier} : worker'[v] = worker[v]
      /\ \A v \in Workers : Working(v, worker'[v])
  BY <1>1, RetrierIdles
<1>3. DOMAIN queue' = DOMAIN queue /\ \A j \in DOMAIN queue : queue'[j] \in {queue[j], [queue[j] EXCEPT !.due = FALSE]}
  BY <1>1
<1>4. \A r \in Waits : [r EXCEPT !.due = FALSE] \in Waits
  BY DEF Waits
<1>5. /\ bucket' \subseteq CFItems /\ retrying' \subseteq CFItems
      /\ reported' \subseteq CFItems /\ crossed' \subseteq CFItems
      /\ \A j \in DOMAIN queue : queue[j] \in Waits
  BY <1>1 DEF PurgeInv, PurgeTypeOK
<1>6. \A j \in DOMAIN queue' : queue'[j] \in Waits
  BY <1>3, <1>4, <1>5
<1>. QED  BY <1>1, <1>2, <1>3, <1>5, <1>6, QueueStepKeeps

LEMMA OpenTimeoutKeeps == ASSUME PurgeInv, OpenTimeout PROVE PurgeInv'
<1>1. /\ circuit.state = "open" /\ circuit' = [circuit EXCEPT !.ripe = TRUE]
      /\ UNCHANGED <<bucket, worker, queue, retrying, owed, reported, crossed, mislabelled, cfplan, asksLeft, cfClosing>>
  BY DEF OpenTimeout, CFUnchanged
<1>2. circuit \in Circuits
  BY DEF PurgeInv, PurgeTypeOK
<1>3. circuit' \in Circuits /\ circuit'.state = circuit.state
  BY <1>1, <1>2 DEF Circuits
<1>4. Breaking' /\ HalfOpenIsProbed'
  BY <1>1, <1>3 DEF PurgeInv, Breaking, HalfOpenIsProbed
<1>5. PurgeTypeOK' /\ NoSilentLoss' /\ \A w \in Workers : Working(w, worker'[w])
  BY <1>1, <1>3 DEF PurgeInv, PurgeTypeOK, NoSilentLoss, HeldByWorker
<1>. QED  BY <1>1, <1>4, <1>5 DEF PurgeInv

LEMMA CloseKeeps == ASSUME PurgeInv, CloseCF PROVE PurgeInv'
<1>. USE DEF CloseCF
<1>1. PurgeTypeOK' /\ NoSilentLoss' /\ Breaking' /\ HalfOpenIsProbed'
  BY DEF PurgeInv, PurgeTypeOK, NoSilentLoss, Breaking, HalfOpenIsProbed
<1>. QED  BY <1>1 DEF PurgeInv

LEMMA PurgeStands == ASSUME PurgeInv, UNCHANGED cfVars PROVE PurgeInv'
<1>. USE DEF cfVars
<1>1. PurgeTypeOK' /\ Breaking' /\ HalfOpenIsProbed'
  BY DEF PurgeInv, PurgeTypeOK, Breaking, HalfOpenIsProbed
<1>2. NoSilentLoss'
  BY DEF PurgeInv, NoSilentLoss, HeldByWorker
<1>. QED  BY <1>1, <1>2 DEF PurgeInv

\* Every step of the propagator keeps the invariant.
LEMMA PurgeKept == PurgeInv /\ [PurgeNext]_cfVars => PurgeInv'
<1>. SUFFICES ASSUME PurgeInv, [PurgeNext]_cfVars PROVE PurgeInv'
  OBVIOUS
<1>1. CASE \E w \in Workers : Pipeline(w)
  BY <1>1, GatekeepKeeps, CallAPIKeeps, RecordCallKeeps, EnqueueFailedKeeps DEF Pipeline
<1>2. CASE RetryLoop
  BY <1>2, ProcessReadyKeeps, RetryItemKeeps, ForgetItemKeeps, BackOffKeeps DEF RetryLoop
<1>3. CASE \E k \in Flushers : FlushLoop(k)
  BY <1>3, DrainKeeps, NextChunkKeeps DEF FlushLoop
<1>4. CASE \/ \E u \in Urls : PropagateForPurge(u)
           \/ \E e \in cfplan.bans : PropagateForBan(e)
  BY <1>4, PurgeAsked, BanAsked
<1>. QED  BY <1>1, <1>2, <1>3, <1>4, ItemDueKeeps, OpenTimeoutKeeps, CloseKeeps, PurgeStands DEF PurgeNext

\* The breaker's half: a circuit that is half open has a call under way.
THEOREM CircuitProbed == PurgeSpec => []HalfOpenIsProbed
<1>1. PurgeInv => HalfOpenIsProbed
  BY DEF PurgeInv
<1>. QED  BY <1>1, StartsAccounted, PurgeKept, PTL DEF PurgeSpec
=============================================================================
