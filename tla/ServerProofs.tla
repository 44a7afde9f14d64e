---------------------------- MODULE ServerProofs ----------------------------
(***************************************************************************)
(* The process and its listeners, proved for any configuration, any faults *)
(* and any number of connections: the start and the shutdown in their order *)
(* (EngineLifecycle), and the connections of a listener, their limit and   *)
(* their drain (Connections).  The inductive invariants are LifeInv and    *)
(* ConnInv.                                                                *)
(***************************************************************************)
EXTENDS EngineLifecycle, Connections, FiniteSetTheorems, SequenceTheorems, TLAPS

\* Most leaves are first-order reasoning: Zenon first, then SMT.
USE ZenonT(40), SMTT(40)

-----------------------------------------------------------------------------
(* The life of the process: the shutdown steps.                            *)

\* The place of the flush, and the last step.
FlushAt == IF Has("cluster") THEN 6 ELSE 3
LastStep == FlushAt + IF Has("cloudflare") THEN 1 ELSE 0

\* Where the steps that matter stand among the shutdown steps: leaving the
\* cluster before the refreshes are drained, these before the store is
\* flushed.
LEMMA StepOrder ==
  /\ Len(ShutdownSteps) = LastStep
  /\ ShutdownSteps[FlushAt] = "flush-store"
  /\ ShutdownSteps[FlushAt - 1] = "drain-refresh-handlers"
  /\ \A i \in 1..LastStep :
       /\ ShutdownSteps[i] = "flush-store" => i = FlushAt
       /\ ShutdownSteps[i] = "drain-refresh-handlers" => i = FlushAt - 1
  /\ Has("cluster") => ShutdownSteps[3] = "cluster-leave"
<1>. DEFINE N == {"drain-peer-fetcher", "drain-broadcaster", "cluster-leave", "mark-not-ready",
                  "drain-refresh-handlers", "flush-store", "drain-cloudflare"}
            A == IF Has("cluster")
                 THEN <<"drain-peer-fetcher", "drain-broadcaster", "cluster-leave">> ELSE <<>>
            B == <<"mark-not-ready", "drain-refresh-handlers", "flush-store">>
            C == IF Has("cloudflare") THEN <<"drain-cloudflare">> ELSE <<>>
<1>1. /\ A \in Seq(N) /\ Len(A) = (IF Has("cluster") THEN 3 ELSE 0)
      /\ \A i \in 1..Len(A) : A[i] \notin {"flush-store", "drain-refresh-handlers"}
      /\ Has("cluster") => A[3] = "cluster-leave"
  <2>1. CASE Has("cluster")
    BY <2>1, SMTT(30)
  <2>2. CASE ~Has("cluster")
    BY <2>2, SMTT(30)
  <2>. QED  BY <2>1, <2>2
<1>2. /\ B \in Seq(N) /\ Len(B) = 3
      /\ B[1] = "mark-not-ready" /\ B[2] = "drain-refresh-handlers" /\ B[3] = "flush-store"
  BY SMTT(30)
<1>3. /\ C \in Seq(N) /\ Len(C) = (IF Has("cloudflare") THEN 1 ELSE 0)
      /\ \A i \in 1..Len(C) : C[i] \notin {"flush-store", "drain-refresh-handlers"}
  <2>1. CASE Has("cloudflare")
    BY <2>1, SMTT(30)
  <2>2. CASE ~Has("cloudflare")
    BY <2>2, SMTT(30)
  <2>. QED  BY <2>1, <2>2
<1>4. ShutdownSteps = (A \o B) \o C
  BY DEF ShutdownSteps
<1>. HIDE DEF A, B, C, N
<1>. DEFINE D == A \o B
<1>5. /\ D \in Seq(N) /\ Len(D) = Len(A) + 3
      /\ \A i \in 1..Len(D) : D[i] = IF i <= Len(A) THEN A[i] ELSE B[i - Len(A)]
  <2>1. A \in Seq(N) /\ B \in Seq(N) /\ Len(B) = 3
    BY <1>1, <1>2
  <2>2. /\ D \in Seq(N) /\ Len(D) = Len(A) + Len(B)
        /\ \A i \in 1..Len(A) + Len(B) : D[i] = IF i <= Len(A) THEN A[i] ELSE B[i - Len(A)]
    BY <2>1, ConcatProperties, Zenon
  <2>. HIDE DEF D
  <2>. QED  BY <2>1, <2>2
<1>6. /\ Len(ShutdownSteps) = Len(D) + Len(C)
      /\ \A i \in 1..Len(ShutdownSteps) :
           ShutdownSteps[i] = IF i <= Len(D) THEN D[i] ELSE C[i - Len(D)]
  <2>. HIDE DEF D
  <2>1. /\ Len(D \o C) = Len(D) + Len(C)
        /\ \A i \in 1..Len(D) + Len(C) : (D \o C)[i] = IF i <= Len(D) THEN D[i] ELSE C[i - Len(D)]
    BY <1>3, <1>5, ConcatProperties, Zenon
  <2>2. ShutdownSteps = D \o C
    BY <1>4 DEF D
  <2>. QED  BY <2>1, <2>2, Zenon
<1>. HIDE DEF D
<1>7. /\ Len(A) \in {0, 3} /\ Len(C) \in {0, 1}
      /\ FlushAt = Len(A) + 3 /\ LastStep = Len(D) + Len(C)
  BY <1>1, <1>3, <1>5, SMTT(30) DEF FlushAt, LastStep
<1>8. /\ ShutdownSteps[FlushAt] = "flush-store"
      /\ ShutdownSteps[FlushAt - 1] = "drain-refresh-handlers"
  BY <1>2, <1>5, <1>6, <1>7, SMTT(30)
<1>9. ASSUME NEW i \in 1..LastStep
      PROVE  /\ ShutdownSteps[i] = "flush-store" => i = FlushAt
             /\ ShutdownSteps[i] = "drain-refresh-handlers" => i = FlushAt - 1
  <2>1. CASE i <= Len(A)
    BY <1>1, <1>5, <1>6, <1>7, <2>1, SMTT(30)
  <2>2. CASE i > Len(A) /\ i <= Len(D)
    <3>1. i - Len(A) \in {1, 2, 3}
      BY <1>5, <1>7, <2>2, SMTT(30)
    <3>2. ShutdownSteps[i] = B[i - Len(A)]
      BY <1>5, <1>6, <1>7, <2>2, SMTT(30)
    <3>. QED  BY <1>2, <1>7, <3>1, <3>2, SMTT(30)
  <2>3. CASE i > Len(D)
    <3>1. i - Len(D) \in 1..Len(C)
      BY <1>5, <1>6, <1>7, <2>3, SMTT(30)
    <3>. QED  BY <1>3, <1>5, <1>6, <1>7, <2>3, <3>1, SMTT(30)
  <2>. QED  BY <1>5, <1>7, <2>1, <2>2, <2>3, SMTT(30)
<1>10. Has("cluster") => ShutdownSteps[3] = "cluster-leave"
  BY <1>1, <1>5, <1>6, <1>7, SMTT(30)
<1>. QED  BY <1>6, <1>7, <1>8, <1>9, <1>10

LEMMA StepFacts ==
  ASSUME step \in Nat
  PROVE  /\ Len(ShutdownSteps) = LastStep /\ LastStep \in Nat /\ FlushAt \in 3..LastStep
         /\ Executing <=> step \in 1..LastStep
         /\ At("flush-store") <=> step = FlushAt
         /\ At("drain-refresh-handlers") <=> step = FlushAt - 1
         /\ Past("drain-refresh-handlers") <=> step >= FlushAt
         /\ Has("cluster") => FlushAt = 6 /\ (step = 3 => At("cluster-leave"))
<1>1. /\ LastStep \in Nat /\ FlushAt \in 3..LastStep /\ (Has("cluster") => FlushAt = 6)
  BY SMTT(30) DEF LastStep, FlushAt
<1>2. Executing <=> step \in 1..LastStep
  BY StepOrder DEF Executing
<1>3. /\ At("flush-store") <=> step = FlushAt
      /\ At("drain-refresh-handlers") <=> step = FlushAt - 1
  BY <1>1, <1>2, StepOrder, SMTT(30) DEF At
<1>4. Past("drain-refresh-handlers") <=> step >= FlushAt
  BY <1>1, StepOrder, SMTT(30) DEF Past
<1>5. Has("cluster") => (step = 3 => At("cluster-leave"))
  BY <1>1, <1>2, StepOrder, SMTT(30) DEF At
<1>. QED  BY <1>1, <1>2, <1>3, <1>4, <1>5, StepOrder

-----------------------------------------------------------------------------
(* The life of the process: the invariant.                                 *)

\* run's order: the store and the routes are there before the last condition
\* is marked.
Booted ==
  /\ boot \notin {"admin", "init", "refused"} => cache # "none"
  /\ boot \notin {"admin", "init", "refused", "data"} => routes = "full"
  /\ "listeners-bound" \in marked => boot \in {"wait", "returned"}

\* The sequencer: what each step has done is done once the next one is
\* reached, readiness is gone before the first, and its goroutine ends after
\* the last.
Sequenced ==
  /\ serving => step = 0
  /\ cache = "closed" <=> step > FlushAt
  /\ Has("cluster") /\ step > 3 => left
  /\ refreshing /\ step >= FlushAt => overran # {}
  /\ member["sequencer"] # "failed"
  /\ member["sequencer"] = "done" => step > LastStep
  /\ boot \in {"mark", "wait", "returned"} <=> member["sequencer"] # "idle"
  /\ step > 0 => member["sequencer"] # "idle"

\* A socket is open only while its Serve runs, and only an open one has a
\* request.
Sockets ==
  \A l \in Listening :
    /\ sock[l] \in {"bound", "closing"} => Running(l)
    /\ l \in busy => sock[l] \in {"bound", "closing"}

NoneLeft == boot = "returned" => \A m \in Members : ~Running(m)

LifeInv == LifeTypeOK /\ Booted /\ Sequenced /\ Sockets /\ NoneLeft

LEMMA LifeImplies == LifeInv => LifeInOrder
<1>. SUFFICES ASSUME LifeInv PROVE LifeInOrder
  OBVIOUS
<1>0. step \in Nat /\ FlushAt \in 3..LastStep /\ LastStep \in Nat
  BY StepFacts DEF LifeInv, LifeTypeOK
<1>1. ReadyIsUsable
  BY <1>0, SMTT(30) DEF LifeInv, LifeTypeOK, Booted, Sequenced, ReadyIsUsable, IsReady, Conditions
<1>2. ReturnsFlushed
  <2>. SUFFICES ASSUME boot = "returned"
       PROVE  /\ cache = "closed" /\ busy = {}
              /\ \A l \in Listening : sock[l] \in {"none", "closed"}
              /\ Has("cluster") => left
    BY DEF ReturnsFlushed
  <2>1. step > LastStep
    BY DEF LifeInv, LifeTypeOK, Sequenced, NoneLeft, Running, Members
  <2>2. cache = "closed" /\ (Has("cluster") => left)
    BY <1>0, <2>1, SMTT(30) DEF LifeInv, Sequenced
  <2>3. \A l \in Listening : ~Running(l)
    BY DEF LifeInv, NoneLeft, Members
  <2>4. \A l \in Listening : sock[l] \in {"none", "closed"}
    BY <2>3 DEF LifeInv, LifeTypeOK, Sockets
  <2>5. busy = {}
    BY <2>4 DEF LifeInv, LifeTypeOK, Sockets
  <2>. QED  BY <2>2, <2>4, <2>5
<1>3. NoPutAfterFlush
  BY <1>0, SMTT(30) DEF LifeInv, Sequenced, NoPutAfterFlush
<1>. QED  BY <1>1, <1>2, <1>3 DEF LifeInOrder

LEMMA LifeStart == LifeInit => LifeInv
<1>. SUFFICES ASSUME LifeInit PROVE LifeInv
  OBVIOUS
<1>1. LifeTypeOK
  BY DEF LifeInit, LifeTypeOK
<1>2. Booted /\ Sockets /\ NoneLeft
  BY DEF LifeInit, Booted, Sockets, NoneLeft, Running
<1>3. Sequenced
  <2>1. FlushAt \in {3, 6} /\ "sequencer" \in Members
    BY DEF FlushAt, Members
  <2>. QED  BY <2>1, SMTT(30) DEF LifeInit, Sequenced
<1>. QED  BY <1>1, <1>2, <1>3 DEF LifeInv

-----------------------------------------------------------------------------
(* The life of the process: the steps.                                     *)

\* The plan is fixed, and with it the place of every shutdown step.
LEMMA PlanFixed ==
  ASSUME LifeNext
  PROVE  /\ lifePlan' = lifePlan /\ FlushAt' = FlushAt /\ LastStep' = LastStep
         /\ \A part : Has(part)' = Has(part)
<1>1. lifePlan' = lifePlan
  BY DEF LifeNext, RunSteps, StartAdmin, InitSubsystems, StartTasks, StartListeners, StartRest,
         RegisterShutdownSteps, MarkBound, Return, Signal, DrainNode, Execute, StepEnds,
         StepOverruns, RefreshStarts, RefreshEnds, SeedsChange, JoinSucceeds, JoinTimesOut,
         Fail, TaskEnds, Bind, CloseSocket, ServeReturns, AcceptRequest, Respond
<1>. QED  BY <1>1 DEF FlushAt, LastStep, Has

LEMMA RunStepsKeep ==
  ASSUME LifeInv, LifeNext, RunSteps
  PROVE  LifeInv'
<1>. USE DEF LifeInv
<1>0. /\ lifePlan' = lifePlan /\ FlushAt' = FlushAt /\ LastStep' = LastStep
      /\ \A part : Has(part)' = Has(part)
  BY PlanFixed
<1>1. CASE StartAdmin
  <2>1. LifeTypeOK'
    BY <1>0, <1>1 DEF StartAdmin, Start, LifeTypeOK, Members, Listening, Tasks, Conditions
  <2>2. Booted'
    BY <1>1 DEF StartAdmin, Start, Booted
  <2>3. Sequenced'
    BY <1>0, <1>1, StepFacts DEF StartAdmin, Start, Sequenced, LifeTypeOK, Booted, Members, Listening, Tasks
  <2>4. Sockets'
    BY <1>1 DEF StartAdmin, Start, Sockets, Running, LifeTypeOK, Members
  <2>5. NoneLeft'
    BY <1>1 DEF StartAdmin, Start, NoneLeft, Running
  <2>. QED  BY <2>1, <2>2, <2>3, <2>4, <2>5
<1>2. CASE InitSubsystems
  <2>1. LifeTypeOK'
    BY <1>0, <1>2 DEF InitSubsystems, LifeTypeOK, Members, Listening, Tasks, Conditions
  <2>2. Booted'
    BY <1>2, SMTT(30) DEF InitSubsystems, Booted
  <2>3. Sequenced'
    BY <1>0, <1>2, StepFacts, SMTT(30) DEF InitSubsystems, Sequenced, LifeTypeOK, Booted, Members, Listening, Tasks
  <2>4. Sockets'
    BY <1>2 DEF InitSubsystems, Sockets, Running, LifeTypeOK, Members
  <2>5. NoneLeft'
    BY <1>2 DEF InitSubsystems, NoneLeft, Running
  <2>. QED  BY <2>1, <2>2, <2>3, <2>4, <2>5
<1>3. CASE StartTasks
  <2>1. LifeTypeOK'
    BY <1>0, <1>3 DEF StartTasks, Start, LifeTypeOK, Members, Listening, Tasks, Conditions
  <2>2. Booted'
    BY <1>3 DEF StartTasks, Start, Booted
  <2>3. Sequenced'
    BY <1>0, <1>3, StepFacts DEF StartTasks, Start, Sequenced, LifeTypeOK, Booted, Members, Listening, Tasks
  <2>4. Sockets'
    BY <1>3 DEF StartTasks, Start, Sockets, Running, LifeTypeOK, Members
  <2>5. NoneLeft'
    BY <1>3 DEF StartTasks, Start, NoneLeft, Running
  <2>. QED  BY <2>1, <2>2, <2>3, <2>4, <2>5
<1>4. CASE StartListeners
  <2>1. LifeTypeOK'
    BY <1>0, <1>4 DEF StartListeners, Start, LifeTypeOK, Members, Listening, Tasks, Conditions
  <2>2. Booted'
    BY <1>4 DEF StartListeners, Start, Booted
  <2>3. Sequenced'
    BY <1>0, <1>4, StepFacts DEF StartListeners, Start, Sequenced, LifeTypeOK, Booted, Members, Listening, Tasks
  <2>4. Sockets'
    BY <1>4 DEF StartListeners, Start, Sockets, Running, LifeTypeOK, Members
  <2>5. NoneLeft'
    BY <1>4 DEF StartListeners, Start, NoneLeft, Running
  <2>. QED  BY <2>1, <2>2, <2>3, <2>4, <2>5
<1>5. CASE StartRest
  <2>1. LifeTypeOK'
    BY <1>0, <1>5 DEF StartRest, Start, LifeTypeOK, Members, Listening, Tasks, Conditions
  <2>2. Booted'
    BY <1>5 DEF StartRest, Start, Booted
  <2>3. Sequenced'
    BY <1>0, <1>5, StepFacts DEF StartRest, Start, Sequenced, LifeTypeOK, Booted, Members, Listening, Tasks
  <2>4. Sockets'
    BY <1>5 DEF StartRest, Start, Sockets, Running, LifeTypeOK, Members
  <2>5. NoneLeft'
    BY <1>5 DEF StartRest, Start, NoneLeft, Running
  <2>. QED  BY <2>1, <2>2, <2>3, <2>4, <2>5
<1>6. CASE RegisterShutdownSteps
  <2>1. LifeTypeOK'
    BY <1>0, <1>6 DEF RegisterShutdownSteps, Start, LifeTypeOK, Members, Listening, Tasks, Conditions
  <2>2. Booted'
    BY <1>6 DEF RegisterShutdownSteps, Start, Booted
  <2>3. Sequenced'
    BY <1>0, <1>6, StepFacts DEF RegisterShutdownSteps, Start, Sequenced, LifeTypeOK, Booted, Members, Listening, Tasks
  <2>4. Sockets'
    BY <1>6 DEF RegisterShutdownSteps, Start, Sockets, Running, LifeTypeOK, Members
  <2>5. NoneLeft'
    BY <1>6 DEF RegisterShutdownSteps, Start, NoneLeft, Running
  <2>. QED  BY <2>1, <2>2, <2>3, <2>4, <2>5
<1>7. CASE MarkBound
  <2>1. LifeTypeOK'
    BY <1>0, <1>7 DEF MarkBound, LifeTypeOK, Members, Listening, Tasks, Conditions
  <2>2. Booted'
    BY <1>7 DEF MarkBound, Booted
  <2>3. Sequenced'
    BY <1>0, <1>7, StepFacts DEF MarkBound, Sequenced, LifeTypeOK, Booted, Members, Listening, Tasks
  <2>4. Sockets'
    BY <1>7 DEF MarkBound, Sockets, Running, LifeTypeOK, Members
  <2>5. NoneLeft'
    BY <1>7 DEF MarkBound, NoneLeft, Running
  <2>. QED  BY <2>1, <2>2, <2>3, <2>4, <2>5
<1>8. CASE Return
  <2>1. LifeTypeOK'
    BY <1>0, <1>8 DEF Return, LifeTypeOK, Members, Listening, Tasks, Conditions
  <2>2. Booted'
    BY <1>8 DEF Return, Booted
  <2>3. Sequenced'
    BY <1>0, <1>8, StepFacts DEF Return, Sequenced, LifeTypeOK, Booted, Members, Listening, Tasks
  <2>4. Sockets'
    BY <1>8 DEF Return, Sockets, Running, LifeTypeOK, Members
  <2>5. NoneLeft'
    BY <1>8 DEF Return, NoneLeft, Running
  <2>. QED  BY <2>1, <2>2, <2>3, <2>4, <2>5
<1>. QED  BY <1>1, <1>2, <1>3, <1>4, <1>5, <1>6, <1>7, <1>8 DEF RunSteps

LEMMA MembersKeep ==
  ASSUME LifeInv, LifeNext,
         \/ Signal \/ DrainNode \/ RefreshStarts \/ RefreshEnds \/ SeedsChange
         \/ JoinSucceeds \/ JoinTimesOut \/ \E m \in Members : Fail(m) \/ TaskEnds(m)
  PROVE  LifeInv'
<1>. USE DEF LifeInv
<1>0. /\ lifePlan' = lifePlan /\ FlushAt' = FlushAt /\ LastStep' = LastStep
      /\ \A part : Has(part)' = Has(part)
  BY PlanFixed
<1>1. CASE Signal \/ SeedsChange \/ JoinTimesOut \/ DrainNode
  <2>1. LifeTypeOK'
    <3>1. CASE Signal
      BY <1>0, <3>1 DEF Signal, LifeTypeOK
    <3>2. CASE JoinTimesOut
      BY <1>0, <3>2 DEF JoinTimesOut, LifeTypeOK
    <3>3. CASE DrainNode
      BY <1>0, <3>3 DEF DrainNode, LifeTypeOK
    <3>4. CASE SeedsChange
      BY <1>0, <3>4 DEF SeedsChange, LifeTypeOK
    <3>. QED  BY <1>1, <3>1, <3>2, <3>3, <3>4
  <2>2. Booted' /\ Sockets' /\ NoneLeft'
    BY <1>1 DEF Signal, SeedsChange, JoinTimesOut, DrainNode, Booted, Sockets, NoneLeft, Running
  <2>3. Sequenced'
    BY <1>0, <1>1, SMTT(30) DEF Signal, SeedsChange, JoinTimesOut, DrainNode, Sequenced
  <2>. QED  BY <2>1, <2>2, <2>3
<1>2. CASE RefreshStarts
  <2>1. LifeTypeOK'
    BY <1>0, <1>2 DEF RefreshStarts, LifeTypeOK
  <2>2. Booted' /\ Sockets' /\ NoneLeft'
    BY <1>2 DEF RefreshStarts, Booted, Sockets, NoneLeft, Running
  <2>3. ~(step >= FlushAt)
    BY <1>2, StepFacts DEF RefreshStarts, LifeTypeOK
  <2>4. Sequenced'
    BY <1>0, <1>2, <2>3 DEF RefreshStarts, Sequenced
  <2>. QED  BY <2>1, <2>2, <2>4
<1>3. CASE RefreshEnds
  <2>1. LifeTypeOK'
    BY <1>0, <1>3 DEF RefreshEnds, LifeTypeOK
  <2>2. Booted' /\ Sockets' /\ NoneLeft'
    BY <1>3 DEF RefreshEnds, Booted, Sockets, NoneLeft, Running
  <2>3. Sequenced'
    BY <1>0, <1>3 DEF RefreshEnds, Sequenced
  <2>. QED  BY <2>1, <2>2, <2>3
<1>4. CASE JoinSucceeds
  <2>1. LifeTypeOK'
    BY <1>0, <1>4 DEF JoinSucceeds, LifeTypeOK
  <2>2. Booted' /\ NoneLeft'
    BY <1>4 DEF JoinSucceeds, Alive, Booted, NoneLeft
  <2>3. Sequenced'
    BY <1>0, <1>4 DEF JoinSucceeds, Sequenced, LifeTypeOK, Members
  <2>4. Sockets'
    BY <1>4 DEF JoinSucceeds, Sockets, Running, LifeTypeOK, Members, Listening
  <2>. QED  BY <2>1, <2>2, <2>3, <2>4
<1>5. ASSUME NEW m \in Members, Fail(m)
      PROVE  LifeInv'
  <2>0. m # "sequencer"
    BY <1>5, LifeAssumption DEF Fail, LifeTypeOK
  <2>1. LifeTypeOK'
    BY <1>0, <1>5 DEF Fail, LifeTypeOK
  <2>2. Booted' /\ NoneLeft'
    BY <1>5 DEF Fail, Alive, Booted, NoneLeft
  <2>3. Sequenced'
    BY <1>0, <1>5, <2>0 DEF Fail, Sequenced, LifeTypeOK, Members
  <2>4. Sockets'
    <3>. SUFFICES ASSUME NEW l \in Listening
         PROVE  /\ sock'[l] \in {"bound", "closing"} => Running(l)'
                /\ l \in busy' => sock'[l] \in {"bound", "closing"}
      BY DEF Sockets
    <3>1. l \in Members
      BY DEF Members
    <3>2. CASE l = m
      BY <1>5, <3>1, <3>2 DEF Fail, LifeTypeOK
    <3>3. CASE l # m
      <4>1. sock'[l] = sock[l] /\ member'[l] = member[l] /\ (l \in busy' => l \in busy)
        BY <1>5, <3>1, <3>3 DEF Fail, LifeTypeOK
      <4>. QED  BY <4>1 DEF Sockets, Running
    <3>. QED  BY <3>2, <3>3
  <2>. QED  BY <2>1, <2>2, <2>3, <2>4
<1>6. ASSUME NEW m \in Members, TaskEnds(m)
      PROVE  LifeInv'
  <2>0. m # "sequencer" /\ m \notin Listening
    BY <1>6 DEF TaskEnds, Tasks, Listening
  <2>1. LifeTypeOK'
    BY <1>0, <1>6 DEF TaskEnds, LifeTypeOK
  <2>2. Booted' /\ NoneLeft'
    BY <1>6 DEF TaskEnds, Alive, Booted, NoneLeft
  <2>3. Sequenced'
    BY <1>0, <1>6, <2>0 DEF TaskEnds, Sequenced, LifeTypeOK, Members
  <2>4. Sockets'
    BY <1>6, <2>0 DEF TaskEnds, Sockets, Running, LifeTypeOK, Members
  <2>. QED  BY <2>1, <2>2, <2>3, <2>4
<1>. QED  BY <1>1, <1>2, <1>3, <1>4, <1>5, <1>6

LEMMA ListenersKeep ==
  ASSUME LifeInv, LifeNext, NEW l \in Listening,
         Bind(l) \/ CloseSocket(l) \/ ServeReturns(l) \/ AcceptRequest(l) \/ Respond(l)
  PROVE  LifeInv'
<1>. USE DEF LifeInv
<1>0. /\ lifePlan' = lifePlan /\ FlushAt' = FlushAt /\ LastStep' = LastStep
      /\ \A part : Has(part)' = Has(part)
  BY PlanFixed
<1>1. l \in Members /\ l # "sequencer"
  BY DEF Members, Listening
<1>2. CASE Bind(l) \/ CloseSocket(l) \/ AcceptRequest(l) \/ Respond(l)
  <2>1. LifeTypeOK'
    <3>1. CASE Bind(l)
      BY <1>0, <3>1 DEF Bind, LifeTypeOK
    <3>2. CASE CloseSocket(l)
      BY <1>0, <3>2 DEF CloseSocket, LifeTypeOK
    <3>3. CASE AcceptRequest(l)
      BY <1>0, <3>3 DEF AcceptRequest, LifeTypeOK
    <3>4. CASE Respond(l)
      BY <1>0, <3>4 DEF Respond, LifeTypeOK
    <3>. QED  BY <1>2, <3>1, <3>2, <3>3, <3>4
  <2>2. Booted' /\ NoneLeft'
    BY <1>2 DEF Bind, CloseSocket, AcceptRequest, Respond, Alive, Booted, NoneLeft
  <2>3. Sequenced'
    BY <1>0, <1>2, SMTT(30) DEF Bind, CloseSocket, AcceptRequest, Respond, Sequenced
  <2>4. Sockets'
    BY <1>2 DEF Bind, CloseSocket, AcceptRequest, Respond, Sockets, Running, LifeTypeOK
  <2>. QED  BY <2>1, <2>2, <2>3, <2>4
<1>3. CASE ServeReturns(l)
  <2>1. LifeTypeOK'
    BY <1>0, <1>1, <1>3 DEF ServeReturns, LifeTypeOK
  <2>2. Booted' /\ NoneLeft'
    BY <1>3 DEF ServeReturns, Alive, Booted, NoneLeft
  <2>3. Sequenced'
    BY <1>0, <1>1, <1>3 DEF ServeReturns, Sequenced, LifeTypeOK, Members
  <2>4. Sockets'
    BY <1>1, <1>3 DEF ServeReturns, Sockets, Running, LifeTypeOK, Members
  <2>. QED  BY <2>1, <2>2, <2>3, <2>4
<1>. QED  BY <1>2, <1>3

LEMMA SequencerKeeps ==
  ASSUME LifeInv, LifeNext, Execute \/ StepEnds \/ StepOverruns
  PROVE  LifeInv'
<1>. USE DEF LifeInv
<1>0. /\ lifePlan' = lifePlan /\ FlushAt' = FlushAt /\ LastStep' = LastStep
      /\ \A part : Has(part)' = Has(part)
  BY PlanFixed
<1>1. step \in Nat /\ LastStep \in Nat /\ FlushAt \in 3..LastStep
  BY StepFacts DEF LifeTypeOK
<1>2. CASE Execute
  <2>1. LifeTypeOK'
    BY <1>0, <1>2 DEF Execute, LifeTypeOK
  <2>2. Booted' /\ Sockets' /\ NoneLeft'
    BY <1>2 DEF Execute, Booted, Sockets, NoneLeft, Running
  <2>3. Sequenced'
    BY <1>0, <1>1, <1>2, SMTT(30) DEF Execute, Sequenced, Running
  <2>. QED  BY <2>1, <2>2, <2>3
<1>3. CASE StepEnds
  <2>0. /\ step' = step + 1 /\ step \in 1..LastStep
        /\ member' = IF step' > LastStep THEN [member EXCEPT !["sequencer"] = "done"] ELSE member
    BY <1>0, <1>3, StepFacts DEF StepEnds, AfterStep, LifeTypeOK
  <2>1. LifeTypeOK'
    <3>1. left' \in BOOLEAN /\ cache' \in {"none", "open", "closed"}
      BY <1>3 DEF StepEnds, LifeTypeOK
    <3>2. member' \in [Members -> {"idle", "running", "done", "failed"}]
      BY <2>0 DEF LifeTypeOK
    <3>3. step' \in Nat
      BY <1>1, <2>0, SMTT(30)
    <3>. QED  BY <1>0, <1>3, <3>1, <3>2, <3>3 DEF StepEnds, LifeTypeOK
  <2>2. Booted' /\ NoneLeft'
    BY <1>3 DEF StepEnds, Alive, Booted, NoneLeft
  <2>3. Sockets'
    BY <1>3, <2>0 DEF StepEnds, Sockets, Running, LifeTypeOK, Members, Listening
  <2>4. /\ serving' => step' = 0
        /\ cache' = "closed" <=> step' > FlushAt'
    BY <1>0, <1>1, <1>3, <2>0, StepFacts, SMTT(30) DEF StepEnds, Sequenced
  <2>5. Has("cluster")' /\ step' > 3 => left'
    <3>. SUFFICES ASSUME Has("cluster"), step' > 3 PROVE left'
      BY <1>0
    <3>1. left \/ At("cluster-leave")
      <4>1. CASE step = 3
        BY <1>1, <4>1, StepFacts
      <4>2. CASE step > 3
        BY <4>2 DEF Sequenced
      <4>. QED  BY <1>1, <2>0, <4>1, <4>2, SMTT(30)
    <3>. QED  BY <1>3, <3>1, Zenon DEF StepEnds
  <2>6. refreshing' /\ step' >= FlushAt' => overran' # {}
    BY <1>0, <1>1, <1>3, <2>0, StepFacts, SMTT(30) DEF StepEnds, RefreshesOver, Sequenced
  <2>7. /\ member'["sequencer"] # "failed"
        /\ member'["sequencer"] = "done" => step' > LastStep'
        /\ boot' \in {"mark", "wait", "returned"} <=> member'["sequencer"] # "idle"
        /\ step' > 0 => member'["sequencer"] # "idle"
    BY <1>0, <1>1, <1>3, <2>0, SMTT(30) DEF StepEnds, Sequenced, LifeTypeOK, Members
  <2>. QED  BY <2>1, <2>2, <2>3, <2>4, <2>5, <2>6, <2>7 DEF Sequenced
<1>4. CASE StepOverruns
  <2>0. /\ step' = step + 1 /\ step = FlushAt - 1
        /\ member' = IF step' > LastStep THEN [member EXCEPT !["sequencer"] = "done"] ELSE member
    BY <1>0, <1>4, StepFacts DEF StepOverruns, AfterStep, LifeTypeOK
  <2>1. LifeTypeOK'
    BY <1>0, <1>1, <1>4, <2>0, SMTT(30) DEF StepOverruns, LifeTypeOK
  <2>2. Booted' /\ NoneLeft'
    BY <1>4 DEF StepOverruns, Alive, Booted, NoneLeft
  <2>3. Sockets'
    BY <1>4, <2>0 DEF StepOverruns, Sockets, Running, LifeTypeOK, Members, Listening
  <2>4. member' = member
    BY <1>1, <2>0, SMTT(30)
  <2>5. Has("cluster") => step > 3
    BY <2>0, StepFacts, <1>1, SMTT(30)
  <2>6. Sequenced'
    BY <1>0, <1>1, <1>4, <2>0, <2>4, <2>5, SMTT(30) DEF StepOverruns, Sequenced
  <2>. QED  BY <2>1, <2>2, <2>3, <2>6
<1>. QED  BY <1>2, <1>3, <1>4

LEMMA LifeKept == LifeInv /\ [LifeNext]_lifeVars => LifeInv'
<1>. SUFFICES ASSUME LifeInv, [LifeNext]_lifeVars PROVE LifeInv'
  OBVIOUS
<1>1. CASE LifeNext
  BY <1>1, RunStepsKeep, MembersKeep, ListenersKeep, SequencerKeeps DEF LifeNext
<1>2. CASE UNCHANGED lifeVars
  BY <1>2, SMTT(30) DEF lifeVars, LifeInv, LifeTypeOK, Booted, Sequenced, Sockets, NoneLeft, Running, FlushAt,
              LastStep, Has
<1>. QED  BY <1>1, <1>2

\* Whichever parts are configured and whichever goroutines fail: the node is
\* ready only with an open store and before its shutdown, run returns only
\* with the store flushed, the cluster left and no socket open, and no refresh
\* writes after the flush unless its drain ran out of time (run, IsReady,
\* registerShutdownSteps, Execute).
THEOREM LifeOrdered == LifeSpec => []LifeInOrder
BY LifeStart, LifeKept, LifeImplies, PTL DEF LifeSpec

\* Readiness is never given back (Execute and the drain hook of the admin
\* server).
THEOREM ReadyOnceOnly == LifeSpec => ReadyOnce
<1>1. [LifeNext]_lifeVars => [~serving => ~serving']_lifeVars
  BY DEF lifeVars, LifeNext, RunSteps, StartAdmin, InitSubsystems, StartTasks, StartListeners,
         StartRest, RegisterShutdownSteps, MarkBound, Return, Signal, DrainNode, Execute, StepEnds,
         StepOverruns, RefreshStarts, RefreshEnds, SeedsChange, JoinSucceeds, JoinTimesOut,
         Fail, TaskEnds, Bind, CloseSocket, ServeReturns, AcceptRequest, Respond
<1>. QED  BY <1>1, PTL DEF LifeSpec, ReadyOnce

-----------------------------------------------------------------------------
(* Connections: the invariant.                                             *)

Places ==
  {"new", "queued", "refused", "reading", "parsed", "active", "body", "answered", "marked", "gone"}
Busy == {"active", "body", "answered"}

\* The slots given out.
Slotted == {c \in Conns : conn[c].slot}

\* A connection's state has its fields; it has a slot while it is served and
\* open, if there is a limit; it is marked active from the parsed head to the
\* end of the answer; and until it is accepted it is open.
Kept(r) ==
  /\ DOMAIN r = DOMAIN New /\ r.at \in Places
  /\ r.open \in BOOLEAN /\ r.slot \in BOOLEAN /\ r.active \in BOOLEAN
  /\ r.slot <=> (connPlan.limit > 0 /\ r.open /\ r.at \notin {"new", "queued", "refused", "gone"})
  /\ r.at \in {"new", "queued"} => r.open
  /\ r.active <=> r.at \in Busy
  /\ r.at = "answered" => r.answered = r.req

\* The request a drain spared is being served, or is the last one answered and
\* the connection on its way to be closed.
SparedServed(r) ==
  r.spared # 0 /\ r.open /\ r.at \notin {"new", "queued", "refused", "gone"} =>
    /\ r.at \in {"active", "body", "answered", "marked"}
    /\ r.at = "marked" => r.answered = r.spared
    /\ r.at # "marked" => r.req = r.spared

ConnInv ==
  /\ connPlan \in ConnPlans
  /\ DOMAIN conn = Conns
  /\ \A c \in Conns : Kept(conn[c]) /\ SparedServed(conn[c])
  /\ taken = Cardinality(Slotted)
  /\ connPlan.limit > 0 => taken <= connPlan.limit
  /\ DOMAIN listen = {"made", "open", "started"}
  /\ stop \in {"serving", "cancelled", "unbound", "draining", "done"}
  /\ stop # "serving" => listen.started
  /\ stop \in {"unbound", "draining", "done"} => ~listen.open
  /\ stop = "done" => Tracked = {}
  /\ \A c \in Conns : conn[c].spared # 0 => stop \in {"draining", "done"}
  /\ DOMAIN drain = {"todo", "victim"}
  /\ drain.victim # NoVictim => stop = "draining"
  /\ \A c \in Conns :
       drain.victim = c /\ c # NoVictim /\ Serving(c) /\ conn[c].open /\ conn[c].spared # 0
         => conn[c].at = "marked"
  /\ drain.victim # NoVictim => drain.victim \in Conns

-----------------------------------------------------------------------------

\* A connection that moves and keeps its slot and its socket.
LEMMA MovesKeep ==
  ASSUME ConnInv, NEW c \in Conns, NEW r, conn' = [conn EXCEPT ![c] = r],
         Kept(r), SparedServed(r), r.slot = conn[c].slot, r.spared = conn[c].spared,
         r.at \notin {"new", "queued", "refused", "gone"} => Serving(c),
         conn[c].at = "marked" => r.at = "marked" \/ ~r.open \/ r.at = "gone" \/ stop # "draining",
         r.open => conn[c].open,
         UNCHANGED <<connPlan, listen, taken, stop, drain>>
  PROVE  ConnInv'
<1>. USE DEF ConnInv
<1>1. /\ DOMAIN conn' = Conns /\ conn'[c] = r
      /\ \A d \in Conns \ {c} : conn'[d] = conn[d]
  OBVIOUS
<1>2. \A d \in Conns : Kept(conn[d])' /\ SparedServed(conn[d])'
  BY <1>1 DEF Kept, SparedServed
<1>3. Slotted' = Slotted
  BY <1>1 DEF Slotted
<1>4. \A d \in Conns : Serving(d)' => Serving(d)
  BY <1>1 DEF Serving
<1>5. \A d \in Conns : drain.victim = d /\ d # NoVictim /\ Serving(d)' /\ conn'[d].open /\ conn'[d].spared # 0
         => conn'[d].at = "marked"
  <2>1. CASE \A d \in Conns : drain.victim = d /\ d # NoVictim => d # c
    BY <1>1, <2>1 DEF Serving
  <2>2. CASE drain.victim = c /\ c # NoVictim
    BY <1>1, <2>2 DEF Serving
  <2>. QED
    BY <2>1, <2>2
<1>6. stop = "done" => Tracked' = {}
  BY <1>4 DEF Tracked
<1>7. \A d \in Conns : conn'[d].spared # 0 => stop \in {"draining", "done"}
  BY <1>1
<1>. QED
  BY <1>1, <1>2, <1>3, <1>5, <1>6, <1>7

\* A connection whose socket is closed gives its slot back, once.
LEMMA ShutKeeps ==
  ASSUME ConnInv, NEW c \in Conns, NEW r, Shut(c, r),
         Kept([r EXCEPT !.open = FALSE, !.slot = FALSE]), DOMAIN r = DOMAIN New,
         r.spared = conn[c].spared,
         r.at \notin {"new", "queued", "refused", "gone"} => Serving(c),
         UNCHANGED <<connPlan, listen, stop>>, DOMAIN drain' = {"todo", "victim"},
         drain'.victim \in {drain.victim, NoVictim}
  PROVE  ConnInv'
<1>. USE DEF ConnInv
<1>. DEFINE q == [r EXCEPT !.open = FALSE, !.slot = FALSE]
<1>0. q.open = FALSE /\ q.slot = FALSE /\ q.spared = r.spared /\ q.at = r.at
  BY DEF New
<1>1. /\ DOMAIN conn' = Conns /\ conn'[c] = q
      /\ \A d \in Conns \ {c} : conn'[d] = conn[d]
  BY DEF Shut, Put
<1>a. Kept(q)
  OBVIOUS
<1>. HIDE DEF q
<1>2. \A d \in Conns : Kept(conn[d])' /\ SparedServed(conn[d])'
  BY <1>0, <1>1, <1>a, SMTT(30) DEF Kept, SparedServed
<1>3. taken' = Cardinality(Slotted') /\ (connPlan.limit > 0 => taken' <= connPlan.limit)
  <2>1. Slotted' = Slotted \ {c}
    BY <1>0, <1>1 DEF Slotted
  <2>2. IsFiniteSet(Slotted)
    BY ConnAssumption, FS_Subset DEF Slotted
  <2>3. /\ Cardinality(Slotted) \in Nat /\ Cardinality(Slotted \ {c}) =
           IF c \in Slotted THEN Cardinality(Slotted) - 1 ELSE Cardinality(Slotted)
    BY <2>2, FS_RemoveElement, FS_CardinalityType
  <2>4. taken' = IF c \in Slotted THEN taken - 1 ELSE taken
    BY DEF Shut, Slotted
  <2>. QED
    BY <2>1, <2>3, <2>4, ConnAssumption, SMTT(30)
<1>4. \A d \in Conns : Serving(d)' => Serving(d)
  BY <1>0, <1>1 DEF Serving
<1>5. \A d \in Conns : drain'.victim = d /\ d # NoVictim /\ Serving(d)' /\ conn'[d].open /\ conn'[d].spared # 0
         => conn'[d].at = "marked"
  BY <1>0, <1>1, SMTT(30) DEF Serving
<1>6. stop = "done" => Tracked' = {}
  BY <1>4 DEF Tracked
<1>7. \A d \in Conns : conn'[d].spared # 0 => stop \in {"draining", "done"}
  BY <1>0, <1>1
<1>. QED
  BY <1>1, <1>2, <1>3, <1>5, <1>6, <1>7

\* The connection's goroutine returns.
LEMMA EndKeeps ==
  ASSUME ConnInv, NEW c \in Conns, NEW r, End(c, r), r.spared = conn[c].spared,
         UNCHANGED <<connPlan, listen, stop, drain>>
  PROVE  ConnInv'
<1>1. /\ DOMAIN Ended(r) = DOMAIN New /\ Ended(r).spared = conn[c].spared
      /\ Ended(r).at = "gone"
  BY DEF Ended, New
<1>2. Kept([Ended(r) EXCEPT !.open = FALSE, !.slot = FALSE])
  BY DEF Ended, New, Kept, Places, Busy
<1>3. DOMAIN drain' = {"todo", "victim"} /\ drain'.victim \in {drain.victim, NoVictim}
  BY DEF ConnInv
<1>. QED
  BY <1>1, <1>2, <1>3, ShutKeeps DEF End

-----------------------------------------------------------------------------

LEMMA AcceptKeeps ==
  ASSUME ConnInv, NEW c \in Conns, Accept(c)
  PROVE  ConnInv'
<1>. USE DEF ConnInv
<1>1. conn[c].at = "queued" /\ listen.open /\ conn[c].slot = FALSE /\ conn[c].open = TRUE
      /\ DOMAIN conn[c] = DOMAIN New /\ stop \in {"serving", "cancelled"} /\ conn[c].spared = 0
      /\ drain.victim = NoVictim
  BY DEF Accept, Kept
<1>2. CASE connPlan.limit > 0 /\ taken >= connPlan.limit
  <2>. DEFINE r == [New EXCEPT !.at = "refused", !.open = FALSE]
  <2>1. conn' = [conn EXCEPT ![c] = r] /\ UNCHANGED <<connPlan, listen, taken, stop, drain>>
    BY <1>2 DEF Accept, Put
  <2>2. Kept(r) /\ SparedServed(r) /\ r.slot = FALSE /\ r.spared = 0 /\ r.at = "refused"
    BY DEF New, Kept, SparedServed, Places, Busy
  <2>. HIDE DEF r
  <2>. QED
    BY <1>1, <2>1, <2>2, MovesKeep
<1>3. CASE ~(connPlan.limit > 0 /\ taken >= connPlan.limit)
  <2>. DEFINE r == [conn[c] EXCEPT !.at = "reading", !.slot = connPlan.limit > 0]
  <2>1. /\ conn' = [conn EXCEPT ![c] = r] /\ UNCHANGED <<connPlan, listen, stop, drain>>
        /\ taken' = taken + IF connPlan.limit > 0 THEN 1 ELSE 0
    BY <1>3 DEF Accept, Put
  <2>2. /\ DOMAIN r = DOMAIN New /\ r.at = "reading" /\ r.open = conn[c].open
        /\ r.active = conn[c].active /\ r.spared = conn[c].spared
        /\ r.slot = (connPlan.limit > 0)
    BY <1>1 DEF New
  <2>. HIDE DEF r
  <2>3. /\ DOMAIN conn' = Conns /\ conn'[c] = r
        /\ \A d \in Conns \ {c} : conn'[d] = conn[d]
    BY <2>1
  <2>4. \A d \in Conns : Kept(conn[d])' /\ SparedServed(conn[d])'
    BY <1>1, <2>1, <2>2, <2>3, SMTT(30) DEF Kept, SparedServed, Places, Busy
  <2>5. IsFiniteSet(Slotted) /\ Cardinality(Slotted) \in Nat
    BY ConnAssumption, FS_Subset, FS_CardinalityType DEF Slotted
  <2>6. taken' = Cardinality(Slotted') /\ (connPlan.limit > 0 => taken' <= connPlan.limit)
    <3>1. CASE connPlan.limit > 0
      <4>1. Slotted' = Slotted \union {c} /\ c \notin Slotted
        BY <1>1, <2>2, <2>3, <3>1 DEF Slotted
      <4>2. Cardinality(Slotted \union {c}) = Cardinality(Slotted) + 1
        BY <2>5, <4>1, FS_AddElement
      <4>. QED
        BY <1>3, <2>1, <2>5, <3>1, <4>1, <4>2, ConnAssumption, SMTT(30)
    <3>2. CASE ~(connPlan.limit > 0)
      <4>1. Slotted' = Slotted
        BY <1>1, <2>2, <2>3, <3>2 DEF Slotted
      <4>. QED
        BY <2>1, <2>5, <3>2, <4>1, SMTT(30)
    <3>. QED
      BY <3>1, <3>2
  <2>7. \A d \in Conns : conn'[d].spared # 0 => stop \in {"draining", "done"}
    BY <1>1, <2>2, <2>3
  <2>. QED
    BY <1>1, <2>1, <2>3, <2>4, <2>6, <2>7
<1>. QED
  BY <1>2, <1>3

-----------------------------------------------------------------------------
(* Connections: the steps of one.                                          *)

\* What is written ends the connection or leaves it answered.
LEMMA WrittenKeeps ==
  ASSUME ConnInv, NEW c \in Conns, NEW r, NEW last, Written(c, r, last),
         conn[c].at \in {"active", "body"}, DOMAIN r = DOMAIN New,
         r.open = conn[c].open, r.slot = conn[c].slot, r.active = conn[c].active,
         r.spared = conn[c].spared, last \/ r.req = conn[c].req,
         UNCHANGED <<connPlan, listen, stop, drain>>
  PROVE  ConnInv'
<1>1. CASE ~conn[c].open
  BY <1>1, EndKeeps DEF Written
<1>2. CASE conn[c].open /\ last
  <2>1. [r EXCEPT !.answered = r.req].spared = conn[c].spared
    BY DEF New
  <2>. QED
    BY <1>2, <2>1, EndKeeps DEF Written
<1>3. CASE conn[c].open /\ ~last
  <2>. DEFINE q == [r EXCEPT !.at = "answered", !.answered = r.req]
  <2>1. conn' = [conn EXCEPT ![c] = q] /\ UNCHANGED <<connPlan, listen, taken, stop, drain>>
    BY <1>3 DEF Written, Put
  <2>2. /\ DOMAIN q = DOMAIN New /\ q.at = "answered" /\ q.answered = q.req /\ q.req = conn[c].req
        /\ q.open = conn[c].open /\ q.slot = conn[c].slot /\ q.active = conn[c].active
        /\ q.spared = conn[c].spared
    BY <1>3 DEF New
  <2>. HIDE DEF q
  <2>3. Kept(q) /\ SparedServed(q) /\ Serving(c)
    BY <2>2 DEF ConnInv, Kept, SparedServed, Places, Busy, Serving
  <2>. QED
    BY <2>1, <2>2, <2>3, MovesKeep
<1>. QED
  BY <1>1, <1>2, <1>3

\* A step that leaves slot, socket, request and answers alone, at the same
\* place or before the request is served.
LEMMA GoesOn ==
  ASSUME ConnInv, NEW c \in Conns, NEW r, conn' = [conn EXCEPT ![c] = r],
         UNCHANGED <<connPlan, listen, taken, stop, drain>>,
         DOMAIN r = DOMAIN New, r.open = conn[c].open, r.slot = conn[c].slot,
         r.spared = conn[c].spared, r.active = conn[c].active, r.answered = conn[c].answered,
         \/ r.at = conn[c].at /\ r.req = conn[c].req
         \/ conn[c].at = "reading" /\ r.at = "parsed"
         \/ conn[c].at = "active" /\ r.at = "body" /\ r.req = conn[c].req
         \/ conn[c].at = "new" /\ r.at = "queued"
  PROVE  ConnInv'
<1>1. Kept(r) /\ SparedServed(r)
  BY SMTT(30) DEF ConnInv, Kept, SparedServed, Places, Busy
<1>. QED
  BY <1>1, MovesKeep DEF Serving

LEMMA ClientsKeep ==
  ASSUME ConnInv, NEW c \in Conns, Connect(c) \/ SendNext(c) \/ HangUp(c)
  PROVE  ConnInv'
<1>0. DOMAIN conn[c] = DOMAIN New
  BY DEF ConnInv, Kept
<1>1. CASE Connect(c)
  <2>. DEFINE r == [conn[c] EXCEPT !.at = "queued"]
  <2>1. /\ DOMAIN r = DOMAIN New /\ r.open = conn[c].open /\ r.slot = conn[c].slot
        /\ r.spared = conn[c].spared /\ r.active = conn[c].active
        /\ r.answered = conn[c].answered /\ r.at = "queued"
    BY <1>0 DEF New
  <2>2. conn' = [conn EXCEPT ![c] = r] /\ UNCHANGED <<connPlan, listen, taken, stop, drain>>
    BY <1>1 DEF Connect, Put
  <2>. HIDE DEF r
  <2>. QED
    BY <1>1, <2>1, <2>2, GoesOn DEF Connect
<1>2. CASE SendNext(c)
  <2>. DEFINE r == [conn[c] EXCEPT !.sent = @ + 1]
  <2>1. /\ DOMAIN r = DOMAIN New /\ r.open = conn[c].open /\ r.slot = conn[c].slot
        /\ r.spared = conn[c].spared /\ r.active = conn[c].active
        /\ r.answered = conn[c].answered /\ r.at = conn[c].at /\ r.req = conn[c].req
    BY <1>0 DEF New
  <2>2. conn' = [conn EXCEPT ![c] = r] /\ UNCHANGED <<connPlan, listen, taken, stop, drain>>
    BY <1>2 DEF SendNext, Put
  <2>. HIDE DEF r
  <2>. QED
    BY <2>1, <2>2, GoesOn
<1>3. CASE HangUp(c)
  <2>. DEFINE r == [conn[c] EXCEPT !.eof = TRUE]
  <2>1. /\ DOMAIN r = DOMAIN New /\ r.open = conn[c].open /\ r.slot = conn[c].slot
        /\ r.spared = conn[c].spared /\ r.active = conn[c].active
        /\ r.answered = conn[c].answered /\ r.at = conn[c].at /\ r.req = conn[c].req
    BY <1>0 DEF New
  <2>2. conn' = [conn EXCEPT ![c] = r] /\ UNCHANGED <<connPlan, listen, taken, stop, drain>>
    BY <1>3 DEF HangUp, Put
  <2>. HIDE DEF r
  <2>. QED
    BY <2>1, <2>2, GoesOn
<1>. QED
  BY <1>1, <1>2, <1>3

LEMMA ParserKeeps ==
  ASSUME ConnInv, NEW c \in Conns,
         Read(c) \/ Parse(c) \/ ParsePart(c) \/ ReadFails(c) \/ MarkActive(c)
  PROVE  ConnInv'
<1>0. DOMAIN conn[c] = DOMAIN New
  BY DEF ConnInv, Kept
<1>1. CASE Read(c)
  <2>1. PICK k \in 1..Len(Unread(c)) :
          Put(c, [conn[c] EXCEPT !.buf = @ \o Upto(Unread(c), k), !.got = @ + k])
    BY <1>1 DEF Read
  <2>. DEFINE r == [conn[c] EXCEPT !.buf = @ \o Upto(Unread(c), k), !.got = @ + k]
  <2>2. /\ DOMAIN r = DOMAIN New /\ r.open = conn[c].open /\ r.slot = conn[c].slot
        /\ r.spared = conn[c].spared /\ r.active = conn[c].active
        /\ r.answered = conn[c].answered /\ r.at = conn[c].at /\ r.req = conn[c].req
    BY <1>0 DEF New
  <2>3. conn' = [conn EXCEPT ![c] = r] /\ UNCHANGED <<connPlan, listen, taken, stop, drain>>
    BY <1>1, <2>1 DEF Read, Put
  <2>. HIDE DEF r
  <2>. QED
    BY <2>2, <2>3, GoesOn
<1>2. CASE Parse(c)
  <2>1. PICK n, rest : \/ End(c, conn[c])
                       \/ Put(c, [conn[c] EXCEPT !.at = "parsed", !.req = n, !.buf = rest])
                          /\ UNCHANGED taken
    BY <1>2 DEF Parse
  <2>. DEFINE r == [conn[c] EXCEPT !.at = "parsed", !.req = n, !.buf = rest]
  <2>2. UNCHANGED <<connPlan, listen, stop, drain>> /\ conn[c].at = "reading"
    BY <1>2 DEF Parse
  <2>3. CASE Put(c, r) /\ UNCHANGED taken
    <3>1. /\ DOMAIN r = DOMAIN New /\ r.open = conn[c].open /\ r.slot = conn[c].slot
          /\ r.spared = conn[c].spared /\ r.active = conn[c].active
          /\ r.answered = conn[c].answered /\ r.at = "parsed"
      BY <1>0 DEF New
    <3>2. conn' = [conn EXCEPT ![c] = r]
      BY <2>3 DEF Put
    <3>. HIDE DEF r
    <3>. QED
      BY <2>2, <2>3, <3>1, <3>2, GoesOn
  <2>4. CASE End(c, conn[c])
    BY <2>2, <2>4, EndKeeps
  <2>. QED
    BY <2>1, <2>3, <2>4
<1>3. CASE ParsePart(c)
  <2>1. CASE Put(c, [conn[c] EXCEPT !.at = "parsed", !.req = 0])
    <3>. DEFINE r == [conn[c] EXCEPT !.at = "parsed", !.req = 0]
    <3>1. /\ DOMAIN r = DOMAIN New /\ r.open = conn[c].open /\ r.slot = conn[c].slot
          /\ r.spared = conn[c].spared /\ r.active = conn[c].active
          /\ r.answered = conn[c].answered /\ r.at = "parsed"
      BY <1>0 DEF New
    <3>2. conn' = [conn EXCEPT ![c] = r] /\ UNCHANGED <<connPlan, listen, taken, stop, drain>>
      BY <1>3, <2>1 DEF ParsePart, Put
    <3>. HIDE DEF r
    <3>. QED
      BY <1>3, <3>1, <3>2, GoesOn DEF ParsePart
  <2>2. CASE Put(c, [conn[c] EXCEPT !.at = "parsed", !.req = conn[c].buf[1][1], !.cut = TRUE,
                                    !.buf = <<>>])
    <3>. DEFINE r == [conn[c] EXCEPT !.at = "parsed", !.req = conn[c].buf[1][1], !.cut = TRUE,
                                     !.buf = <<>>]
    <3>1. /\ DOMAIN r = DOMAIN New /\ r.open = conn[c].open /\ r.slot = conn[c].slot
          /\ r.spared = conn[c].spared /\ r.active = conn[c].active
          /\ r.answered = conn[c].answered /\ r.at = "parsed"
      BY <1>0 DEF New
    <3>2. conn' = [conn EXCEPT ![c] = r] /\ UNCHANGED <<connPlan, listen, taken, stop, drain>>
      BY <1>3, <2>2 DEF ParsePart, Put
    <3>. HIDE DEF r
    <3>. QED
      BY <1>3, <3>1, <3>2, GoesOn DEF ParsePart
  <2>. QED
    BY <1>3, <2>1, <2>2 DEF ParsePart
<1>4. CASE ReadFails(c)
  BY <1>4, EndKeeps DEF ReadFails
<1>5. CASE MarkActive(c)
  <2>. DEFINE r == [conn[c] EXCEPT !.at = "active", !.active = TRUE]
  <2>1. /\ DOMAIN r = DOMAIN New /\ r.open = conn[c].open /\ r.slot = conn[c].slot
        /\ r.spared = conn[c].spared /\ r.active = TRUE /\ r.at = "active"
    BY <1>0 DEF New
  <2>2. conn' = [conn EXCEPT ![c] = r] /\ UNCHANGED <<connPlan, listen, taken, stop, drain>>
        /\ conn[c].at = "parsed"
    BY <1>5 DEF MarkActive, Put
  <2>. HIDE DEF r
  <2>3. Kept(r) /\ SparedServed(r) /\ Serving(c)
    BY <2>1, <2>2 DEF ConnInv, Kept, SparedServed, Places, Busy, Serving
  <2>. QED
    BY <2>1, <2>2, <2>3, MovesKeep
<1>. QED
  BY <1>1, <1>2, <1>3, <1>4, <1>5

LEMMA AnsweringKeeps ==
  ASSUME ConnInv, NEW c \in Conns,
         \/ Hit(c) \/ BadRequest(c) \/ Miss(c) \/ Continue(c) \/ ReadBody(c) \/ BodyFails(c)
         \/ Fallback(c) \/ Raw(c)
  PROVE  ConnInv'
<1>0. DOMAIN conn[c] = DOMAIN New
  BY DEF ConnInv, Kept
<1>1. CASE Hit(c)
  BY <1>0, <1>1, WrittenKeeps DEF Hit
<1>2. CASE BadRequest(c)
  BY <1>0, <1>2, WrittenKeeps DEF BadRequest
<1>3. CASE Miss(c)
  <2>1. PICK need, kept, rest :
          \/ End(c, conn[c])
          \/ /\ Put(c, [conn[c] EXCEPT !.at = "body", !.need = need, !.buf = kept, !.pre = rest])
             /\ UNCHANGED taken
    BY <1>3 DEF Miss
  <2>. DEFINE r == [conn[c] EXCEPT !.at = "body", !.need = need, !.buf = kept, !.pre = rest]
  <2>2. UNCHANGED <<connPlan, listen, stop, drain>> /\ conn[c].at = "active"
    BY <1>3 DEF Miss
  <2>3. CASE Put(c, r) /\ UNCHANGED taken
    <3>1. /\ DOMAIN r = DOMAIN New /\ r.open = conn[c].open /\ r.slot = conn[c].slot
          /\ r.spared = conn[c].spared /\ r.active = conn[c].active
          /\ r.answered = conn[c].answered /\ r.at = "body" /\ r.req = conn[c].req
      BY <1>0 DEF New
    <3>2. conn' = [conn EXCEPT ![c] = r]
      BY <2>3 DEF Put
    <3>. HIDE DEF r
    <3>. QED
      BY <2>2, <2>3, <3>1, <3>2, GoesOn
  <2>4. CASE End(c, conn[c])
    BY <2>2, <2>4, EndKeeps
  <2>. QED
    BY <2>1, <2>3, <2>4
<1>4. CASE Continue(c)
  <2>1. CASE conn[c].open
    <3>. DEFINE r == [conn[c] EXCEPT !.cont = conn[c].req]
    <3>1. /\ DOMAIN r = DOMAIN New /\ r.open = conn[c].open /\ r.slot = conn[c].slot
          /\ r.spared = conn[c].spared /\ r.active = conn[c].active
          /\ r.answered = conn[c].answered /\ r.at = conn[c].at /\ r.req = conn[c].req
      BY <1>0 DEF New
    <3>2. conn' = [conn EXCEPT ![c] = r] /\ UNCHANGED <<connPlan, listen, taken, stop, drain>>
      BY <1>4, <2>1 DEF Continue, Put
    <3>. HIDE DEF r
    <3>. QED
      BY <3>1, <3>2, GoesOn
  <2>2. CASE ~conn[c].open
    BY <1>4, <2>2, EndKeeps DEF Continue
  <2>. QED
    BY <2>1, <2>2
<1>5. CASE ReadBody(c)
  <2>0. UNCHANGED <<connPlan, listen, taken, stop, drain>>
    BY <1>5 DEF ReadBody
  <2>1. ASSUME NEW n, Put(c, [conn[c] EXCEPT !.buf = From(@, n), !.need = @ - n])
        PROVE  ConnInv'
    <3>. DEFINE r == [conn[c] EXCEPT !.buf = From(@, n), !.need = @ - n]
    <3>1. /\ DOMAIN r = DOMAIN New /\ r.open = conn[c].open /\ r.slot = conn[c].slot
          /\ r.spared = conn[c].spared /\ r.active = conn[c].active
          /\ r.answered = conn[c].answered /\ r.at = conn[c].at /\ r.req = conn[c].req
      BY <1>0 DEF New
    <3>2. conn' = [conn EXCEPT ![c] = r]
      BY <2>1 DEF Put
    <3>. HIDE DEF r
    <3>. QED
      BY <2>0, <3>1, <3>2, GoesOn
  <2>2. CASE Put(c, [conn[c] EXCEPT !.buf = Upto(conn[c].pre, BufCap), !.pre = From(@, BufCap)])
    <3>. DEFINE r == [conn[c] EXCEPT !.buf = Upto(conn[c].pre, BufCap), !.pre = From(@, BufCap)]
    <3>1. /\ DOMAIN r = DOMAIN New /\ r.open = conn[c].open /\ r.slot = conn[c].slot
          /\ r.spared = conn[c].spared /\ r.active = conn[c].active
          /\ r.answered = conn[c].answered /\ r.at = conn[c].at /\ r.req = conn[c].req
      BY <1>0 DEF New
    <3>2. conn' = [conn EXCEPT ![c] = r]
      BY <2>2 DEF Put
    <3>. HIDE DEF r
    <3>. QED
      BY <2>0, <3>1, <3>2, GoesOn
  <2>3. ASSUME NEW k, Put(c, [conn[c] EXCEPT !.buf = Upto(Unread(c), k), !.got = @ + k])
        PROVE  ConnInv'
    <3>. DEFINE r == [conn[c] EXCEPT !.buf = Upto(Unread(c), k), !.got = @ + k]
    <3>1. /\ DOMAIN r = DOMAIN New /\ r.open = conn[c].open /\ r.slot = conn[c].slot
          /\ r.spared = conn[c].spared /\ r.active = conn[c].active
          /\ r.answered = conn[c].answered /\ r.at = conn[c].at /\ r.req = conn[c].req
      BY <1>0 DEF New
    <3>2. conn' = [conn EXCEPT ![c] = r]
      BY <2>3 DEF Put
    <3>. HIDE DEF r
    <3>. QED
      BY <2>0, <3>1, <3>2, GoesOn
  <2>. QED
    BY <1>5, <2>1, <2>2, <2>3 DEF ReadBody
<1>6. CASE BodyFails(c)
  BY <1>6, EndKeeps DEF BodyFails
<1>7. CASE Fallback(c)
  <2>. DEFINE r == [conn[c] EXCEPT !.buf = Returned(c), !.pre = <<>>]
  <2>1. /\ DOMAIN r = DOMAIN New /\ r.open = conn[c].open /\ r.slot = conn[c].slot
        /\ r.spared = conn[c].spared /\ r.active = conn[c].active /\ r.req = conn[c].req
    BY <1>0 DEF New
  <2>2. PICK closes : Written(c, r, closes)
    BY <1>7 DEF Fallback
  <2>3. UNCHANGED <<connPlan, listen, stop, drain>> /\ conn[c].at = "body"
    BY <1>7 DEF Fallback
  <2>. HIDE DEF r
  <2>. QED
    BY <2>1, <2>2, <2>3, WrittenKeeps
<1>8. CASE Raw(c)
  <2>1. PICK n : Written(c, [conn[c] EXCEPT !.req = n], TRUE)
    BY <1>8 DEF Raw
  <2>. DEFINE r == [conn[c] EXCEPT !.req = n]
  <2>2. /\ DOMAIN r = DOMAIN New /\ r.open = conn[c].open /\ r.slot = conn[c].slot
        /\ r.spared = conn[c].spared /\ r.active = conn[c].active
    BY <1>0 DEF New
  <2>3. UNCHANGED <<connPlan, listen, stop, drain>> /\ conn[c].at = "active"
    BY <1>8 DEF Raw
  <2>. HIDE DEF r
  <2>4. Written(c, r, TRUE)
    BY <2>1 DEF r
  <2>. QED
    BY <2>2, <2>3, <2>4, WrittenKeeps
<1>. QED
  BY <1>1, <1>2, <1>3, <1>4, <1>5, <1>6, <1>7, <1>8

LEMMA ParkingKeeps ==
  ASSUME ConnInv, NEW c \in Conns, MarkIdle(c) \/ Park(c)
  PROVE  ConnInv'
<1>0. DOMAIN conn[c] = DOMAIN New
  BY DEF ConnInv, Kept
<1>1. CASE MarkIdle(c)
  <2>. DEFINE r == [conn[c] EXCEPT !.at = "marked", !.active = FALSE, !.req = 0, !.cut = FALSE]
  <2>1. /\ DOMAIN r = DOMAIN New /\ r.open = conn[c].open /\ r.slot = conn[c].slot
        /\ r.spared = conn[c].spared /\ r.active = FALSE
        /\ r.answered = conn[c].answered /\ r.at = "marked"
    BY <1>0 DEF New
  <2>2. conn' = [conn EXCEPT ![c] = r] /\ UNCHANGED <<connPlan, listen, taken, stop, drain>>
        /\ conn[c].at = "answered"
    BY <1>1 DEF MarkIdle, Put
  <2>. HIDE DEF r
  <2>3. Kept(r) /\ SparedServed(r) /\ Serving(c)
    BY <2>1, <2>2 DEF ConnInv, Kept, SparedServed, Places, Busy, Serving
  <2>. QED
    BY <2>1, <2>2, <2>3, MovesKeep
<1>2. CASE Park(c)
  <2>. DEFINE r == [conn[c] EXCEPT !.at = "reading"]
  <2>1. /\ DOMAIN r = DOMAIN New /\ r.open = conn[c].open /\ r.slot = conn[c].slot
        /\ r.spared = conn[c].spared /\ r.active = conn[c].active /\ r.at = "reading"
    BY <1>0 DEF New
  <2>2. conn[c].at = "marked" /\ Serving(c) /\ UNCHANGED <<connPlan, listen, stop, drain>>
    BY <1>2 DEF Park, Serving
  <2>3. CASE stop = "draining"
    <3>. DEFINE q == [r EXCEPT !.open = FALSE, !.slot = FALSE]
    <3>1. /\ DOMAIN q = DOMAIN New /\ q.open = FALSE /\ q.slot = FALSE
          /\ q.active = conn[c].active /\ q.at = "reading"
      BY <1>0 DEF New
    <3>2. Shut(c, r)
      BY <1>2, <2>3 DEF Park
    <3>a. DOMAIN drain' = {"todo", "victim"} /\ drain'.victim \in {drain.victim, NoVictim}
      BY <2>2 DEF ConnInv
    <3>b. Kept(conn[c])
      BY DEF ConnInv
    <3>. HIDE DEF r, q
    <3>3. Kept(q)
      BY <2>2, <3>1, <3>b DEF Kept, Places, Busy
    <3>4. Kept([r EXCEPT !.open = FALSE, !.slot = FALSE])
      BY <3>3 DEF q
    <3>. QED
      BY <2>1, <2>2, <3>2, <3>4, <3>a, ShutKeeps
  <2>4. CASE stop # "draining"
    <3>1. conn' = [conn EXCEPT ![c] = r] /\ UNCHANGED taken
      BY <1>2, <2>4 DEF Park, Put
    <3>. HIDE DEF r
    <3>2. conn[c].spared = 0 \/ ~conn[c].open
      BY <2>2, <2>4 DEF ConnInv, Tracked
    <3>3. Kept(r) /\ SparedServed(r)
      BY <2>1, <2>2, <3>2 DEF ConnInv, Kept, SparedServed, Places, Busy
    <3>. QED
      BY <2>1, <2>2, <2>4, <3>1, <3>3, MovesKeep
  <2>. QED
    BY <2>3, <2>4
<1>. QED
  BY <1>1, <1>2

-----------------------------------------------------------------------------
(* Connections: binding and draining.                                      *)

LEMMA BindingKeeps ==
  ASSUME ConnInv, Listen \/ ListenFails
  PROVE  ConnInv'
<1>1. stop = "serving"
  BY DEF ConnInv, Listen, ListenFails
<1>2. DOMAIN listen' = {"made", "open", "started"}
  BY DEF ConnInv, Listen, ListenFails
<1>3. UNCHANGED <<connPlan, conn, taken, stop, drain>>
  BY DEF Listen, ListenFails
<1>. QED
  BY <1>1, <1>2, <1>3 DEF ConnInv, Kept, SparedServed, Slotted, Tracked, Serving

LEMMA DrainingKeeps ==
  ASSUME ConnInv,
         \/ Cancel \/ CloseListener \/ BeginDrain \/ DrainClose \/ DrainOver
         \/ \E c \in Conns : DrainLook(c)
  PROVE  ConnInv'
<1>1. CASE Cancel
  BY <1>1 DEF ConnInv, Kept, SparedServed, Slotted, Tracked, Serving, Cancel
<1>2. CASE CloseListener
  <2>1. DOMAIN listen' = {"made", "open", "started"} /\ listen'.open = FALSE
        /\ listen'.started = listen.started
    BY <1>2 DEF ConnInv, CloseListener
  <2>. QED
    BY <1>2, <2>1 DEF ConnInv, Kept, SparedServed, Slotted, Tracked, Serving, CloseListener
<1>3. CASE BeginDrain
  <2>. DEFINE spare(c) == IF conn[c].active THEN conn[c].req ELSE 0
              r(c) == [conn[c] EXCEPT !.spared = spare(c)]
  <2>1. /\ DOMAIN conn' = Conns /\ \A c \in Conns : conn'[c] = r(c)
        /\ UNCHANGED <<connPlan, listen, taken>> /\ stop = "unbound" /\ stop' = "draining"
    BY <1>3 DEF BeginDrain
  <2>2. ASSUME NEW c \in Conns
        PROVE  /\ DOMAIN r(c) = DOMAIN New /\ r(c).open = conn[c].open /\ r(c).slot = conn[c].slot
               /\ r(c).spared = spare(c) /\ r(c).active = conn[c].active
               /\ r(c).answered = conn[c].answered /\ r(c).at = conn[c].at
               /\ r(c).req = conn[c].req
    <3>1. DOMAIN conn[c] = DOMAIN New
      BY DEF ConnInv, Kept
    <3>. QED
      BY <3>1 DEF New
  <2>. HIDE DEF r
  <2>3. \A c \in Conns : Kept(conn[c])' /\ SparedServed(conn[c])'
    <3>. SUFFICES ASSUME NEW c \in Conns PROVE Kept(conn[c])' /\ SparedServed(conn[c])'
      OBVIOUS
    <3>1. Kept(conn[c])
      BY DEF ConnInv
    <3>. QED
      BY <2>1, <2>2, <3>1, SMTT(30) DEF Kept, SparedServed, Busy
  <2>4. Slotted' = Slotted
    BY <2>1, <2>2 DEF Slotted
  <2>5. DOMAIN drain' = {"todo", "victim"} /\ drain'.victim = NoVictim
    BY <1>3, <2>1 DEF ConnInv, BeginDrain
  <2>. QED
    BY <2>1, <2>3, <2>4, <2>5 DEF ConnInv
<1>4. CASE DrainClose
  <2>. DEFINE c == drain.victim
  <2>0. c \in Conns /\ stop = "draining" /\ UNCHANGED <<connPlan, listen, stop>>
    BY <1>4 DEF ConnInv, DrainClose
  <2>1. DOMAIN drain' = {"todo", "victim"} /\ drain'.victim = NoVictim
    BY <1>4 DEF ConnInv, DrainClose
  <2>2. CASE Serving(c)
    <3>. DEFINE q == [conn[c] EXCEPT !.open = FALSE, !.slot = FALSE]
    <3>1. Kept(conn[c])
      BY <2>0 DEF ConnInv
    <3>2. DOMAIN conn[c] = DOMAIN New
      BY <3>1 DEF Kept
    <3>3. /\ DOMAIN q = DOMAIN New /\ q.open = FALSE /\ q.slot = FALSE
          /\ q.active = conn[c].active /\ q.at = conn[c].at /\ q.req = conn[c].req
          /\ q.answered = conn[c].answered
      BY <3>2 DEF New
    <3>4. Shut(c, conn[c])
      BY <1>4, <2>2 DEF DrainClose
    <3>. HIDE DEF q
    <3>5. Kept(q)
      BY <2>2, <3>1, <3>3 DEF Kept, Serving
    <3>6. Kept([conn[c] EXCEPT !.open = FALSE, !.slot = FALSE])
      BY <3>5 DEF q
    <3>. HIDE DEF c
    <3>. QED
      BY <2>0, <2>1, <2>2, <3>2, <3>4, <3>6, ShutKeeps
  <2>3. CASE ~Serving(c)
    <3>1. UNCHANGED <<conn, taken>>
      BY <1>4, <2>3 DEF DrainClose
    <3>. QED
      BY <2>0, <2>1, <3>1 DEF ConnInv, Kept, SparedServed, Slotted, Tracked, Serving
  <2>. QED
    BY <2>2, <2>3
<1>5. CASE DrainOver
  BY <1>5 DEF ConnInv, Kept, SparedServed, Slotted, Tracked, Serving, DrainOver
<1>6. ASSUME NEW c \in Conns, DrainLook(c)
      PROVE  ConnInv'
  <2>1. /\ UNCHANGED <<connPlan, listen, conn, taken, stop>> /\ stop = "draining"
        /\ DOMAIN drain' = {"todo", "victim"}
        /\ drain'.victim = IF Serving(c) /\ NotServing(c) THEN c ELSE NoVictim
    BY <1>6 DEF DrainLook
  <2>2. drain'.victim = c /\ c # NoVictim /\ conn[c].open /\ conn[c].spared # 0
          => conn[c].at = "marked"
    BY <2>1 DEF ConnInv, Kept, SparedServed, Serving, NotServing, Busy
  <2>. QED
    BY <2>1, <2>2 DEF ConnInv, Kept, SparedServed, Slotted, Tracked, Serving
<1>. QED
  BY <1>1, <1>2, <1>3, <1>4, <1>5, <1>6

-----------------------------------------------------------------------------

LEMMA ConnStart == ConnInit => ConnInv
<1>. SUFFICES ASSUME ConnInit PROVE ConnInv
  OBVIOUS
<1>1. \A c \in Conns : conn[c] = New
  BY DEF ConnInit
<1>2. Kept(New) /\ SparedServed(New) /\ New.spared = 0 /\ New.slot = FALSE
  BY DEF New, Kept, SparedServed, Places, Busy
<1>3. Slotted = {}
  BY <1>1, <1>2 DEF Slotted
<1>4. taken = Cardinality(Slotted) /\ (connPlan.limit > 0 => taken <= connPlan.limit)
  BY <1>3, FS_EmptySet, ConnAssumption, SMTT(30) DEF ConnInit
<1>. QED
  BY <1>1, <1>2, <1>4 DEF ConnInit, ConnInv

LEMMA ConnKept == ConnInv /\ [ConnNext]_connVars => ConnInv'
<1>. SUFFICES ASSUME ConnInv, [ConnNext]_connVars PROVE ConnInv'
  OBVIOUS
<1>1. CASE UNCHANGED connVars
  BY <1>1 DEF ConnInv, Kept, SparedServed, Slotted, Tracked, Serving, connVars
<1>2. CASE ConnNext
  <2>1. ASSUME NEW c \in Conns, ConnStep(c)
        PROVE  ConnInv'
    BY <2>1, AcceptKeeps, ParserKeeps, AnsweringKeeps, ParkingKeeps DEF ConnStep
  <2>. QED
    BY <1>2, <2>1, ClientsKeep, BindingKeeps, DrainingKeeps DEF ConnNext
<1>. QED
  BY <1>1, <1>2

\* The semaphore of the connection limit (connLimitListener, connLimitConn):
\* however many connections are accepted, refused, closed by their goroutine,
\* by stateChanged or by the drain, the slots taken are those of the
\* connections still open, and never more than the limit.
THEOREM SlotsMatch == ConnSpec => []SlotsMatchOpen
<1>1. ConnInv => SlotsMatchOpen
  <2>. SUFFICES ASSUME ConnInv, connPlan.limit > 0
                PROVE  taken = Cardinality({c \in Tracked : conn[c].open}) /\ taken <= connPlan.limit
    BY DEF SlotsMatchOpen
  <2>1. Slotted = {c \in Tracked : conn[c].open}
    BY DEF ConnInv, Slotted, Tracked, Serving, Kept
  <2>. QED
    BY <2>1 DEF ConnInv
<1>. QED
  BY <1>1, ConnStart, ConnKept, PTL DEF ConnSpec

\* A connection's own steps move it when they close it, and leave the others
\* alone.
LEMMA OwnSteps ==
  ASSUME ConnInv, NEW c \in Conns, Connect(c) \/ SendNext(c) \/ HangUp(c) \/ ConnStep(c)
  PROVE  /\ conn'[c].open = conn[c].open \/ conn'[c].at # conn[c].at
         /\ \A d \in Conns \ {c} : conn'[d] = conn[d]
<1>0. DOMAIN conn = Conns /\ DOMAIN conn[c] = DOMAIN New
  BY DEF ConnInv, Kept
<1>1. ASSUME NEW r, End(c, r), conn[c].at # "gone"
      PROVE  conn'[c].at # conn[c].at /\ \A d \in Conns \ {c} : conn'[d] = conn[d]
  <2>1. conn' = [conn EXCEPT ![c] = [Ended(r) EXCEPT !.open = FALSE, !.slot = FALSE]]
    BY <1>1 DEF End, Shut, Put
  <2>2. [Ended(r) EXCEPT !.open = FALSE, !.slot = FALSE].at = "gone"
    BY DEF Ended, New
  <2>. QED
    BY <1>0, <1>1, <2>1, <2>2
<1>2. ASSUME NEW r, NEW last, Written(c, r, last), conn[c].at \in {"active", "body"},
             DOMAIN r = DOMAIN New
      PROVE  conn'[c].at # conn[c].at /\ \A d \in Conns \ {c} : conn'[d] = conn[d]
  <2>1. CASE ~conn[c].open \/ last
    BY <1>1, <1>2, <2>1 DEF Written
  <2>2. CASE ~(~conn[c].open \/ last)
    <3>1. conn' = [conn EXCEPT ![c] = [r EXCEPT !.at = "answered", !.answered = r.req]]
      BY <1>2, <2>2 DEF Written, Put
    <3>2. [r EXCEPT !.at = "answered", !.answered = r.req].at = "answered"
      BY <1>2 DEF New
    <3>. QED
      BY <1>0, <1>2, <3>1, <3>2
  <2>. QED
    BY <2>1, <2>2
<1>3. CASE Connect(c) \/ SendNext(c) \/ HangUp(c)
  BY <1>0, <1>3 DEF Connect, SendNext, HangUp, Put, New
<1>4. CASE Accept(c)
  <2>1. [New EXCEPT !.at = "refused", !.open = FALSE].at = "refused"
    BY DEF New
  <2>2. [conn[c] EXCEPT !.at = "reading", !.slot = connPlan.limit > 0].at = "reading"
    BY <1>0 DEF New
  <2>. QED
    BY <1>0, <1>4, <2>1, <2>2 DEF Accept, Put
<1>5. CASE Read(c)
  BY <1>0, <1>5 DEF Read, Put, New
<1>6. CASE Parse(c)
  <2>1. PICK n, rest : \/ End(c, conn[c])
                       \/ Put(c, [conn[c] EXCEPT !.at = "parsed", !.req = n, !.buf = rest])
    BY <1>6 DEF Parse
  <2>. QED
    BY <1>0, <1>1, <1>6, <2>1 DEF Parse, Put, New
<1>7. CASE ParsePart(c)
  BY <1>0, <1>7 DEF ParsePart, Put, New
<1>8. CASE ReadFails(c)
  BY <1>1, <1>8 DEF ReadFails
<1>9. CASE MarkActive(c)
  BY <1>0, <1>9 DEF MarkActive, Put, New
<1>10. CASE Hit(c) \/ BadRequest(c)
  BY <1>0, <1>2, <1>10 DEF Hit, BadRequest
<1>11. CASE Miss(c)
  <2>1. PICK need, kept, rest :
          \/ End(c, conn[c])
          \/ Put(c, [conn[c] EXCEPT !.at = "body", !.need = need, !.buf = kept, !.pre = rest])
    BY <1>11 DEF Miss
  <2>. QED
    BY <1>0, <1>1, <1>11, <2>1 DEF Miss, Put, New
<1>12. CASE Continue(c)
  <2>1. End(c, conn[c]) \/ Put(c, [conn[c] EXCEPT !.cont = conn[c].req])
    BY <1>12 DEF Continue
  <2>. QED
    BY <1>0, <1>1, <1>12, <2>1 DEF Continue, Put, New
<1>13. CASE ReadBody(c)
  <2>1. PICK kept, rest, need, got :
          \/ Put(c, [conn[c] EXCEPT !.buf = kept, !.need = need])
          \/ Put(c, [conn[c] EXCEPT !.buf = kept, !.pre = rest])
          \/ Put(c, [conn[c] EXCEPT !.buf = kept, !.got = got])
    BY <1>13 DEF ReadBody
  <2>. QED
    BY <1>0, <2>1 DEF Put, New
<1>14. CASE BodyFails(c)
  BY <1>1, <1>14 DEF BodyFails, MayRead
<1>15. CASE Fallback(c)
  <2>. DEFINE r == [conn[c] EXCEPT !.buf = Returned(c), !.pre = <<>>]
  <2>1. PICK closes : Written(c, r, closes)
    BY <1>15 DEF Fallback
  <2>2. DOMAIN r = DOMAIN New /\ conn[c].at = "body"
    BY <1>0, <1>15 DEF Fallback
  <2>. HIDE DEF r
  <2>. QED
    BY <1>2, <2>1, <2>2
<1>16. CASE Raw(c)
  <2>1. PICK n : Written(c, [conn[c] EXCEPT !.req = n], TRUE)
    BY <1>16 DEF Raw
  <2>2. DOMAIN [conn[c] EXCEPT !.req = n] = DOMAIN New /\ conn[c].at = "active"
    BY <1>0, <1>16 DEF Raw
  <2>. QED
    BY <1>2, <2>1, <2>2
<1>17. CASE MarkIdle(c)
  BY <1>0, <1>17 DEF MarkIdle, Put, New
<1>18. CASE Park(c)
  BY <1>0, <1>18 DEF Park, Shut, Put, New
<1>. QED
  BY <1>3, <1>4, <1>5, <1>6, <1>7, <1>8, <1>9, <1>10, <1>11, <1>12, <1>13, <1>14, <1>15, <1>16,
     <1>17, <1>18 DEF ConnStep

\* trackedConns' drain: of the connections it closes itself, none is serving
\* the request it was serving when the drain began.
THEOREM DrainSpares == ConnSpec => InFlightFinishes
<1>. DEFINE Cut(c) == conn[c].open /\ ~conn'[c].open /\ conn'[c].at = conn[c].at
<1>1. ASSUME ConnInv, ConnNext, NEW c \in Conns, Cut(c)
      PROVE  conn[c].spared \in {0, conn[c].answered}
  <2>1. CASE DrainClose
    <3>1. drain.victim \in Conns /\ drain.victim # NoVictim /\ DOMAIN conn = Conns
      BY <1>1, <2>1 DEF DrainClose, ConnInv
    <3>2. CASE Serving(drain.victim) /\ drain.victim = c
      BY <1>1, <3>1, <3>2 DEF ConnInv, SparedServed, Serving
    <3>3. CASE ~(Serving(drain.victim) /\ drain.victim = c)
      <4>1. conn'[c] = conn[c]
        BY <2>1, <3>1, <3>3 DEF DrainClose, Shut, Put
      <4>. QED
        BY <1>1, <4>1
    <3>. QED
      BY <3>2, <3>3
  <2>2. CASE \E d \in Conns : Connect(d) \/ SendNext(d) \/ HangUp(d) \/ ConnStep(d)
    BY <1>1, <2>2, OwnSteps
  <2>3. CASE BeginDrain
    <3>1. DOMAIN conn[c] = DOMAIN New
      BY <1>1 DEF ConnInv, Kept
    <3>2. conn'[c].open = conn[c].open
      BY <2>3, <3>1 DEF BeginDrain, New
    <3>. QED
      BY <1>1, <3>2
  <2>4. CASE UNCHANGED conn
    BY <1>1, <2>4
  <2>. QED
    BY <1>1, <2>1, <2>2, <2>3, <2>4
       DEF ConnNext, Listen, ListenFails, DrainLook, Cancel, CloseListener, DrainOver
<1>2. ConnInv /\ [ConnNext]_connVars =>
        [\A c \in Conns : Cut(c) => conn[c].spared \in {0, conn[c].answered}]_connVars
  BY <1>1 DEF connVars
<1>. QED
  BY <1>2, ConnStart, ConnKept, PTL DEF ConnSpec, InFlightFinishes
=============================================================================
