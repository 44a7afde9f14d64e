---------------------------- MODULE FaultProofs -----------------------------
(***************************************************************************)
(* Proofs about OriginTargets and PeerRing, for any targets, callers,      *)
(* peers, thresholds and windows: faults of an origin or of a peer stay    *)
(* where they are, and every fault has a way back.                         *)
(***************************************************************************)
EXTENDS OriginTargets, PeerRing, FiniteSetTheorems, SequenceTheorems,
        WellFoundedInduction, NaturalsInduction, TLAPS

\* Most leaves are first-order reasoning: Zenon first, then SMT.
USE ZenonT(40), SMTT(40)
-----------------------------------------------------------------------------
(* Arithmetic of targets and ages.                                         *)

LEMMA TargetFacts ==
  /\ 0 \in Targets /\ Targets \subseteq Nat /\ NoTarget \notin Targets
  /\ \A n \in Nat : n % NTargets \in Targets
  /\ \A i \in Targets : i + 1 < NTargets => i + 1 \in Targets
  /\ \A i, j \in Targets : (i + j) % NTargets \in Targets
<1>1. NTargets \in Nat \ {0}
  BY OriginAssumption
<1>2. \A n \in Nat : n % NTargets \in 0..(NTargets - 1)
  BY <1>1, SMTT(30)
<1>. QED  BY <1>1, <1>2, SMTT(30) DEF Targets, NoTarget

LEMMA AtMostFits == ASSUME NEW n \in Nat, NEW b \in Nat PROVE AtMost(n, b) \in 0..b
BY SMTT(30) DEF AtMost

\* An age stays within its bound.
LEMMA OlderAge ==
  ASSUME NEW b \in Nat, NEW age \in [Targets -> 0..b]
  PROVE  Older(age, b) \in [Targets -> 0..b]
<1>1. \A t \in Targets : age[t] \in 0..b /\ age[t] # Unset /\ age[t] + 1 \in Nat
  BY SMTT(30) DEF Unset
<1>2. \A t \in Targets : AtMost(age[t] + 1, b) \in 0..b
  BY <1>1, AtMostFits
<1>. QED  BY <1>1, <1>2 DEF Older

\* An instant that is kept stays kept, and one that is not stays unset.
LEMMA OlderInstant ==
  ASSUME NEW b \in Nat, NEW age \in [Targets -> -1..b]
  PROVE  /\ Older(age, b) \in [Targets -> -1..b]
         /\ \A t \in Targets : Older(age, b)[t] = Unset <=> age[t] = Unset
<1>1. ASSUME NEW t \in Targets, age[t] # Unset
      PROVE  AtMost(age[t] + 1, b) \in -1..b /\ AtMost(age[t] + 1, b) # Unset
  <2>1. age[t] \in -1..b
    OBVIOUS
  <2>. QED  BY <1>1, <2>1, SMTT(30) DEF AtMost, Unset
<1>2. Unset \in -1..b
  BY SMTT(30) DEF Unset
<1>. QED  BY <1>1, <1>2 DEF Older
-----------------------------------------------------------------------------
(* Types.                                                                  *)

HealthOK ==
  /\ healthy \in [Targets -> BOOLEAN]
  /\ passive \in [Targets -> Nat]
  /\ probeErr \in [Targets -> 0..UnhealthyThreshold]
  /\ streak \in [Targets -> 0..HealthyThreshold]
  /\ sinceOK \in [Targets -> 0..CountWindow]
  /\ sinceProbe \in [Targets -> 0..ProbeWindow]
  /\ outSince \in [Targets -> -1..LongestEjectFor]
  /\ outFor \in [Targets -> 0..LongestEjectFor]
  /\ erased \subseteq Targets
CallsOK ==
  /\ fetcher \in [Fetchers -> Callers]
  /\ attempt \in [Attempts -> Tries]
  /\ \A a \in Attempts : attempt[a].step \notin {"idle", "pick", "scan"} => attempt[a].t \in Targets
RestOK ==
  /\ oplan \in PoolPlans
  /\ threshold \in Nat /\ ejectFor \in 0..LongestEjectFor
  /\ next \in Targets
  /\ mood \in [Targets -> Moods] /\ turns \in Nat /\ fetchesLeft \in Nat
  /\ probe \in [Targets -> {"idle", "out", "fail", "eject", "ok", "restore"}]
  /\ reap \in Reapers

LEMMA TypeParts == OriginTypeOK <=> HealthOK /\ CallsOK /\ RestOK
BY DEF OriginTypeOK, HealthOK, CallsOK, RestOK

LEMMA TypePartsNext == OriginTypeOK' <=> HealthOK' /\ CallsOK' /\ RestOK'
BY DEF OriginTypeOK, HealthOK, CallsOK, RestOK

LEMMA Constants ==
  /\ LongestEjectFor \in Nat /\ CountWindow \in Nat /\ ProbeWindow \in Nat
  /\ HealthyThreshold \in Nat /\ UnhealthyThreshold \in Nat /\ NTargets \in Nat \ {0}
BY OriginAssumption

LEMMA PlanFacts ==
  ASSUME NEW p \in PoolPlans
  PROVE  /\ p.threshold \in Nat /\ p.ejectFor \in 0..LongestEjectFor /\ BootEjectFor(p) \in 0..LongestEjectFor
         /\ p.fetches \in Nat /\ p.turns \in Nat /\ p.knobs \subseteq Nat
         /\ p.moods \subseteq Moods /\ p.kinds \subseteq FetchKinds
<1>1. p \in Plans /\ p.ejectFor <= LongestEjectFor
  BY OriginAssumption
<1>2. /\ p.threshold \in Nat /\ p.ejectFor \in Nat /\ p.fetches \in Nat /\ p.turns \in Nat
      /\ p.knobs \subseteq Nat /\ p.moods \subseteq Moods /\ p.kinds \subseteq FetchKinds
  BY <1>1 DEF Plans
<1>3. p.ejectFor \in 0..LongestEjectFor
  BY <1>1, <1>2, Constants, SMTT(30)
<1>4. DefaultEjectFor \in 0..LongestEjectFor
  BY OriginAssumption, SMTT(30)
<1>. QED  BY <1>2, <1>3, <1>4 DEF BootEjectFor

LEMMA NobodyFits ==
  /\ NoAttempt \in Tries /\ NoAttempt.step = "idle" /\ NoFetch \in Callers /\ ReaperIdle \in Reapers
  /\ NoFetch.results = <<>> /\ NoFetch.got = "none" /\ NoFetch.step = "idle" /\ ReaperIdle.step = "idle"
<1>1. NoAttempt \in Tries /\ NoAttempt.step = "idle"
  BY TargetFacts DEF NoAttempt, Tries, AttemptSteps, Outs
<1>2. <<>> \in Seq({"ok", "err"}) /\ 0 \in 0..2 /\ 0 \in 0..LongestEjectFor
  BY Constants, SMTT(30)
<1>3. NoFetch \in Callers /\ NoFetch.results = <<>> /\ NoFetch.got = "none" /\ NoFetch.step = "idle"
  BY <1>2 DEF NoFetch, Callers, FetcherSteps, FetchKinds
<1>4. ReaperIdle \in Reapers /\ ReaperIdle.step = "idle"
  BY <1>2, TargetFacts DEF ReaperIdle, Reapers
<1>. QED  BY <1>1, <1>3, <1>4

LEMMA OriginTypeStart == OriginInit => OriginTypeOK
<1>. SUFFICES ASSUME OriginInit PROVE OriginTypeOK
  OBVIOUS
<1>1. oplan \in PoolPlans
  BY DEF OriginInit
<1>2. 0 \in 0..UnhealthyThreshold /\ 0 \in 0..HealthyThreshold /\ Unset \in -1..LongestEjectFor
  BY Constants, SMTT(30) DEF Unset
<1>3. CountWindow \in 0..CountWindow /\ ProbeWindow \in 0..ProbeWindow /\ LongestEjectFor \in 0..LongestEjectFor
  BY Constants, SMTT(30)
<1>4. HealthOK
  BY <1>2, <1>3 DEF OriginInit, HealthOK
<1>5. CallsOK
  BY NobodyFits DEF OriginInit, CallsOK
<1>6. mood \in [Targets -> Moods]
  BY <1>1, PlanFacts DEF OriginInit
<1>7. RestOK
  BY <1>1, <1>6, PlanFacts, NobodyFits, TargetFacts DEF OriginInit, RestOK
<1>. QED  BY <1>4, <1>5, <1>7, TypeParts

-----------------------------------------------------------------------------
(* What a step of an attempt does to the attempts.                         *)

LEMMA AttemptParts ==
  ASSUME NEW a \in Attempts PROVE a[1] \in Fetchers
BY DEF Attempts

LEMMA StepSet ==
  ASSUME NEW r \in Tries, NEW s \in AttemptSteps
  PROVE  LET q == [r EXCEPT !.step = s] IN q \in Tries /\ q.step = s /\ q.t = r.t /\ q.out = r.out
BY DEF Tries

\* An attempt goes on as r.
LEMMA Becomes ==
  ASSUME CallsOK, NEW a \in Attempts, NEW r \in Tries,
         r.step \notin {"idle", "pick", "scan"} => r.t \in Targets, Become(a, r)
  PROVE  /\ attempt' \in [Attempts -> Tries] /\ attempt'[a] = r
         /\ \A b \in Attempts \ {a} : attempt'[b] = attempt[b]
         /\ \A b \in Attempts : attempt'[b].step \notin {"idle", "pick", "scan"} => attempt'[b].t \in Targets
<1>1. attempt' = [attempt EXCEPT ![a] = r] /\ attempt \in [Attempts -> Tries]
  BY DEF Become, CallsOK
<1>2. /\ attempt' \in [Attempts -> Tries] /\ attempt'[a] = r
      /\ \A b \in Attempts \ {a} : attempt'[b] = attempt[b]
  BY <1>1
<1>. QED  BY <1>2 DEF CallsOK

\* Every step of an attempt but the last: it is busy before and after, and is
\* about to write ejectedAt only if it has won the swap.
Goes(a, r) ==
  /\ Become(a, r) /\ r.step # "idle" /\ attempt[a].step # "idle"
  /\ r.step \notin {"pick", "scan"} => r.t \in Targets
  /\ r.step = "mark" => PassiveEject(a) /\ healthy[attempt[a].t] /\ r.t = attempt[a].t

LEMMA GotoGoes ==
  ASSUME CallsOK, NEW a \in Attempts, NEW s \in AttemptSteps \ {"idle", "mark"}, Goto(a, s),
         attempt[a].step \notin {"idle", "pick", "scan"}
  PROVE  \E r \in Tries : Goes(a, r)
<1>. DEFINE r == [attempt[a] EXCEPT !.step = s]
<1>1. attempt[a] \in Tries /\ attempt[a].t \in Targets
  BY DEF CallsOK
<1>2. r \in Tries /\ r.step = s /\ r.t = attempt[a].t
  BY <1>1, StepSet
<1>3. Become(a, r)
  BY DEF Goto
<1>. HIDE DEF r
<1>4. Goes(a, r)
  BY <1>1, <1>2, <1>3 DEF Goes
<1>. QED  BY <1>2, <1>4

LEMMA AttemptGoes ==
  ASSUME HealthOK, CallsOK, RestOK, NEW a \in Attempts, Attempt(a), ~DeliverResult(a)
  PROVE  \E r \in Tries : Goes(a, r)
<1>. DEFINE at == attempt[a]
<1>0. at \in Tries /\ a[1] \in Fetchers /\ fetcher[a[1]] \in Callers
  BY AttemptParts DEF CallsOK
<1>1. CASE PickStart(a)
  <2>. DEFINE n == (next + 1) % NTargets
              r == [at EXCEPT !.step = "scan", !.start = n, !.i = 0]
  <2>1. n \in Targets
    <3>1. next + 1 \in Nat
      BY TargetFacts, SMTT(30) DEF RestOK
    <3>. QED  BY <3>1, TargetFacts
  <2>2. Become(a, r) /\ at.step = "pick"
    BY <1>1 DEF PickStart
  <2>. HIDE DEF n
  <2>3. r \in Tries /\ r.step = "scan"
    BY <1>0, <2>1, TargetFacts DEF Tries, AttemptSteps
  <2>. HIDE DEF r
  <2>. QED  BY <2>2, <2>3 DEF Goes
<1>2. CASE PickScan(a)
  <2>. DEFINE t == (at.start + at.i) % NTargets
              r1 == [NoAttempt EXCEPT !.step = "send", !.t = t]
              r2 == [at EXCEPT !.i = at.i + 1]
              r3 == [NoAttempt EXCEPT !.step = "send", !.t = at.start]
  <2>1. at.start \in Targets /\ at.i \in Targets
    BY <1>0 DEF Tries
  <2>2. t \in Targets
    BY <2>1, TargetFacts
  <2>3. at.step = "scan" /\ (Become(a, r1) \/ (at.i + 1 < NTargets /\ Become(a, r2)) \/ Become(a, r3))
    BY <1>2 DEF PickScan
  <2>. HIDE DEF t
  <2>4. r1 \in Tries /\ r1.step = "send" /\ r1.t = t
    BY <2>2, NobodyFits DEF Tries, AttemptSteps
  <2>5. r3 \in Tries /\ r3.step = "send" /\ r3.t = at.start
    BY <2>1, NobodyFits DEF Tries, AttemptSteps
  <2>6. ASSUME at.i + 1 < NTargets PROVE r2 \in Tries /\ r2.step = "scan"
    <3>1. at.i + 1 \in Targets
      BY <2>1, <2>6, TargetFacts
    <3>. QED  BY <1>0, <2>3, <3>1 DEF Tries
  <2>. HIDE DEF r1, r2, r3
  <2>. QED  BY <2>1, <2>2, <2>3, <2>4, <2>5, <2>6 DEF Goes
<1>3. CASE Send(a)
  <2>. DEFINE r1 == [at EXCEPT !.step = "judge", !.out = "cancelled"]
              r2 == [at EXCEPT !.step = "fly"]
  <2>1. at.step = "send" /\ (Become(a, r1) \/ Become(a, r2))
    BY <1>3 DEF Send
  <2>2. at.t \in Targets
    BY <2>1 DEF CallsOK
  <2>3. r1 \in Tries /\ r1.step = "judge" /\ r1.t = at.t
    BY <1>0 DEF Tries, AttemptSteps, Outs
  <2>4. r2 \in Tries /\ r2.step = "fly" /\ r2.t = at.t
    BY <1>0 DEF Tries, AttemptSteps
  <2>. HIDE DEF r1, r2
  <2>. QED  BY <2>1, <2>2, <2>3, <2>4 DEF Goes
<1>4. CASE Land(a)
  <2>. DEFINE r == [at EXCEPT !.step = "judge", !.out = Answered(at.t)]
  <2>1. at.step = "fly" /\ Become(a, r)
    BY <1>4 DEF Land
  <2>2. at.t \in Targets
    BY <2>1 DEF CallsOK
  <2>3. Answered(at.t) \in Outs
    BY DEF Answered, Outs
  <2>4. r \in Tries /\ r.step = "judge" /\ r.t = at.t
    BY <1>0, <2>3 DEF Tries, AttemptSteps
  <2>. HIDE DEF r
  <2>. QED  BY <2>1, <2>2, <2>4 DEF Goes
<1>5. CASE Judge(a)
  <2>1. PICK thr \in Nat, s \in {"deliver", "reset", "gate", "count"} :
          Become(a, [at EXCEPT !.thr = thr, !.step = s])
    <3>1. oplan.threshold \in Nat /\ threshold \in Nat
      BY PlanFacts DEF RestOK
    <3>. DEFINE thr == IF fetcher[a[1]].kind = "proxy" THEN oplan.threshold ELSE threshold
                s == CASE thr = 0 -> "deliver" [] at.out = "ok" -> "reset" [] at.out = "5xx" -> "gate" [] OTHER -> "count"
    <3>2. thr \in Nat
      BY <3>1
    <3>3. Become(a, [at EXCEPT !.thr = thr, !.step = s])
      BY <1>5 DEF Judge
    <3>. HIDE DEF thr
    <3>4. s \in {"deliver", "reset", "gate", "count"}
      OBVIOUS
    <3>. HIDE DEF s
    <3>. QED  BY <3>2, <3>3, <3>4
  <2>. DEFINE r == [at EXCEPT !.thr = thr, !.step = s]
  <2>2. at.step = "judge" /\ at.t \in Targets
    BY <1>5 DEF Judge, CallsOK
  <2>3. r \in Tries /\ r.step = s /\ r.t = at.t
    BY <1>0, <2>1 DEF Tries, AttemptSteps
  <2>4. Become(a, r)
    BY <2>1
  <2>. HIDE DEF r
  <2>. QED  BY <2>1, <2>2, <2>3, <2>4 DEF Goes
<1>6. CASE Gate(a)
  <2>1. at.step = "gate" /\ (Goto(a, "deliver") \/ Goto(a, "count"))
    BY <1>6 DEF Gate
  <2>. QED  BY <1>6, <2>1, GotoGoes DEF Gate, AttemptSteps
<1>7. CASE CountError(a)
  <2>. DEFINE cnt == passive[at.t] + 1
              s == IF cnt < at.thr THEN "deliver" ELSE "eject"
              r == [at EXCEPT !.cnt = cnt, !.step = s]
  <2>1. at.step = "count" /\ Become(a, r)
    BY <1>7 DEF CountError
  <2>2. at.t \in Targets
    BY <2>1 DEF CallsOK
  <2>3. cnt \in Nat
    BY <2>2, SMTT(30) DEF HealthOK
  <2>4. s \in {"deliver", "eject"}
    OBVIOUS
  <2>. HIDE DEF cnt, s
  <2>5. r \in Tries /\ r.step = s /\ r.t = at.t
    BY <1>0, <2>3, <2>4 DEF Tries, AttemptSteps
  <2>. HIDE DEF r
  <2>. QED  BY <2>1, <2>2, <2>4, <2>5 DEF Goes
<1>8. CASE PassiveEject(a)
  <2>1. at.step = "eject" /\ at.t \in Targets
    BY <1>8 DEF PassiveEject, CallsOK
  <2>2. CASE healthy[at.t]
    <3>. DEFINE r == [at EXCEPT !.step = "mark"]
    <3>1. Become(a, r)
      BY <1>8, <2>2 DEF PassiveEject, Goto
    <3>2. r \in Tries /\ r.step = "mark" /\ r.t = at.t
      BY <1>0, StepSet DEF AttemptSteps
    <3>. HIDE DEF r
    <3>. QED  BY <1>8, <2>1, <2>2, <3>1, <3>2 DEF Goes
  <2>3. CASE ~healthy[at.t]
    <3>1. Goto(a, "deliver")
      BY <1>8, <2>3 DEF PassiveEject
    <3>. QED  BY <2>1, <3>1, GotoGoes DEF AttemptSteps
  <2>. QED  BY <2>2, <2>3
<1>9. CASE MarkEjected(a) \/ NoteStamp(a)
  <2>1. at.step \in {"mark", "stamp"} /\ Goto(a, "deliver")
    BY <1>9 DEF MarkEjected, NoteStamp
  <2>. QED  BY <2>1, GotoGoes DEF AttemptSteps
<1>10. CASE NoteReset(a)
  <2>1. at.step = "reset" /\ Goto(a, "stamp")
    BY <1>10 DEF NoteReset
  <2>. QED  BY <2>1, GotoGoes DEF AttemptSteps
<1>. QED  BY <1>1, <1>2, <1>3, <1>4, <1>5, <1>6, <1>7, <1>8, <1>9, <1>10 DEF Attempt

-----------------------------------------------------------------------------
(* Types, step by step.                                                    *)

\* The caller goes on as f.
LEMMA CallerSet ==
  ASSUME CallsOK, NEW c \in Fetchers, NEW f \in Callers, fetcher' = [fetcher EXCEPT ![c] = f]
  PROVE  /\ fetcher' \in [Fetchers -> Callers] /\ fetcher'[c] = f
         /\ \A d \in Fetchers \ {c} : fetcher'[d] = fetcher[d]
BY DEF CallsOK

\* What DeliverResult puts into the channel.
Verdict(out) == IF out \in {"ok", "5xx"} THEN "ok" ELSE "err"

LEMMA DeliverParts ==
  ASSUME CallsOK, NEW a \in Attempts, DeliverResult(a)
  PROVE  LET r == [NoAttempt EXCEPT !.out = attempt[a].out]
             f == [fetcher[a[1]] EXCEPT !.results = Append(fetcher[a[1]].results, Verdict(attempt[a].out))]
         IN /\ attempt[a].step = "deliver"
            /\ r \in Tries /\ r.step = "idle" /\ r.out = attempt[a].out /\ Become(a, r)
            /\ f \in Callers /\ f.step = fetcher[a[1]].step /\ f.fired = fetcher[a[1]].fired
            /\ f.results = Append(fetcher[a[1]].results, Verdict(attempt[a].out))
            /\ IF fetcher[a[1]].step = "idle" THEN UNCHANGED fetcher
               ELSE fetcher' = [fetcher EXCEPT ![a[1]] = f]
<1>. DEFINE r == [NoAttempt EXCEPT !.out = attempt[a].out]
            v == Verdict(attempt[a].out)
            s == Append(fetcher[a[1]].results, v)
            f == [fetcher[a[1]] EXCEPT !.results = s]
<1>1. /\ attempt[a].step = "deliver" /\ Become(a, r)
      /\ IF fetcher[a[1]].step = "idle" THEN UNCHANGED fetcher ELSE fetcher' = [fetcher EXCEPT ![a[1]] = f]
  BY DEF DeliverResult, Verdict
<1>2. attempt[a].out \in Outs /\ fetcher[a[1]] \in Callers
  BY AttemptParts DEF CallsOK, Tries
<1>3. r \in Tries /\ r.step = "idle" /\ r.out = attempt[a].out
  BY <1>2, NobodyFits DEF Tries
<1>4. v \in {"ok", "err"} /\ fetcher[a[1]].results \in Seq({"ok", "err"})
  BY <1>2 DEF Callers, Verdict
<1>. HIDE DEF v
<1>5. s \in Seq({"ok", "err"})
  BY <1>4, SMTT(30)
<1>. HIDE DEF s
<1>6. f \in Callers /\ f.step = fetcher[a[1]].step /\ f.fired = fetcher[a[1]].fired /\ f.results = s
  BY <1>2, <1>5 DEF Callers
<1>. QED  BY <1>1, <1>3, <1>6 DEF s, v

LEMMA AttemptCalls ==
  ASSUME HealthOK, CallsOK, RestOK, NEW a \in Attempts, Attempt(a)
  PROVE  CallsOK'
<1>1. CASE DeliverResult(a)
  <2>. DEFINE r == [NoAttempt EXCEPT !.out = attempt[a].out]
              f == [fetcher[a[1]] EXCEPT !.results = Append(fetcher[a[1]].results, Verdict(attempt[a].out))]
  <2>1. /\ r \in Tries /\ r.step = "idle" /\ Become(a, r) /\ f \in Callers
        /\ UNCHANGED fetcher \/ fetcher' = [fetcher EXCEPT ![a[1]] = f]
    BY <1>1, DeliverParts
  <2>. HIDE DEF r, f
  <2>2. fetcher' \in [Fetchers -> Callers]
    BY <2>1, AttemptParts, CallerSet DEF CallsOK
  <2>3. /\ attempt' \in [Attempts -> Tries]
        /\ \A b \in Attempts : attempt'[b].step \notin {"idle", "pick", "scan"} => attempt'[b].t \in Targets
    BY <2>1, Becomes
  <2>. QED  BY <2>2, <2>3 DEF CallsOK
<1>2. CASE ~DeliverResult(a)
  <2>1. PICK r \in Tries : Goes(a, r)
    BY <1>2, AttemptGoes
  <2>2. /\ attempt' \in [Attempts -> Tries]
        /\ \A b \in Attempts : attempt'[b].step \notin {"idle", "pick", "scan"} => attempt'[b].t \in Targets
    BY <2>1, Becomes DEF Goes
  <2>3. UNCHANGED fetcher
    BY <1>2 DEF Attempt, PickStart, PickScan, Send, Land, Judge, Gate, CountError, PassiveEject, MarkEjected,
                NoteReset, NoteStamp
  <2>. QED  BY <2>2, <2>3 DEF CallsOK
<1>. QED  BY <1>1, <1>2

LEMMA AttemptTyped ==
  ASSUME OriginTypeOK, NEW a \in Attempts, Attempt(a)
  PROVE  OriginTypeOK'
<1>. DEFINE t == attempt[a].t
<1>0. HealthOK /\ CallsOK /\ RestOK
  BY TypeParts
<1>1. CallsOK'
  BY <1>0, AttemptCalls
<1>2. /\ AttemptUnchanged
      /\ UNCHANGED next \/ next' = (next + 1) % NTargets
  BY DEF Attempt, PickStart, PickScan, Send, Land, Judge, Gate, CountError, PassiveEject, MarkEjected,
         NoteReset, NoteStamp, DeliverResult
<1>3. next' \in Targets
  <2>1. next + 1 \in Nat
    BY <1>0, TargetFacts, SMTT(30) DEF RestOK
  <2>. QED  BY <1>0, <1>2, <2>1, TargetFacts DEF RestOK
<1>4. RestOK'
  BY <1>0, <1>2, <1>3 DEF RestOK, AttemptUnchanged, knobVars, worldVars
<1>5. attempt[a].step \notin {"idle", "pick", "scan"} => t \in Targets
  BY <1>0 DEF CallsOK
<1>. HIDE DEF t
<1>6. HealthOK'
  <2>1. CASE UNCHANGED <<healthVars, outFor, erased>>
    BY <1>0, <2>1 DEF HealthOK, healthVars
  <2>2. CASE CountError(a)
    <3>1. t \in Targets /\ passive' = [passive EXCEPT ![t] = passive[t] + 1]
      BY <1>5, <2>2 DEF CountError, t
    <3>2. passive \in [Targets -> Nat] /\ passive[t] + 1 \in Nat
      BY <1>0, <3>1, SMTT(30) DEF HealthOK
    <3>3. passive' \in [Targets -> Nat]
      BY <3>1, <3>2
    <3>4. UNCHANGED <<healthy, probeErr, streak, sinceOK, sinceProbe, outSince, outFor, erased>>
      BY <2>2 DEF CountError
    <3>. QED  BY <1>0, <3>3, <3>4 DEF HealthOK
  <2>3. CASE PassiveEject(a)
    <3>1. /\ t \in Targets /\ healthy' = [healthy EXCEPT ![t] = FALSE]
          /\ outFor' = [outFor EXCEPT ![t] = IF healthy[t] THEN 0 ELSE outFor[t]]
      BY <1>5, <2>3 DEF PassiveEject, t
    <3>2. 0 \in 0..LongestEjectFor /\ healthy \in [Targets -> BOOLEAN] /\ outFor \in [Targets -> 0..LongestEjectFor]
      BY <1>0, Constants, SMTT(30) DEF HealthOK
    <3>3. healthy' \in [Targets -> BOOLEAN] /\ outFor' \in [Targets -> 0..LongestEjectFor]
      BY <3>1, <3>2
    <3>4. UNCHANGED <<passive, probeErr, streak, sinceOK, sinceProbe, outSince, erased>>
      BY <2>3 DEF PassiveEject
    <3>. QED  BY <1>0, <3>3, <3>4 DEF HealthOK
  <2>4. CASE MarkEjected(a)
    <3>1. /\ t \in Targets /\ outSince' = [outSince EXCEPT ![t] = 0] /\ erased' = erased \ {t}
      BY <1>5, <2>4 DEF MarkEjected, t
    <3>2. 0 \in -1..LongestEjectFor /\ outSince \in [Targets -> -1..LongestEjectFor]
      BY <1>0, Constants, SMTT(30) DEF HealthOK
    <3>3. outSince' \in [Targets -> -1..LongestEjectFor] /\ erased' \subseteq Targets
      BY <1>0, <3>1, <3>2 DEF HealthOK
    <3>4. UNCHANGED <<healthy, passive, probeErr, streak, sinceOK, sinceProbe, outFor>>
      BY <2>4 DEF MarkEjected
    <3>. QED  BY <1>0, <3>3, <3>4 DEF HealthOK
  <2>5. CASE NoteReset(a)
    <3>1. passive' \in [Targets -> Nat]
      BY <1>0, <2>5 DEF NoteReset, HealthOK
    <3>2. UNCHANGED <<healthy, probeErr, streak, sinceOK, sinceProbe, outSince, outFor, erased>>
      BY <2>5 DEF NoteReset
    <3>. QED  BY <1>0, <3>1, <3>2 DEF HealthOK
  <2>6. CASE NoteStamp(a)
    <3>1. 0 \in 0..CountWindow
      BY Constants, SMTT(30)
    <3>2. sinceOK' \in [Targets -> 0..CountWindow]
      BY <1>0, <2>6, <3>1 DEF NoteStamp, HealthOK
    <3>3. UNCHANGED <<healthy, passive, probeErr, streak, sinceProbe, outSince, outFor, erased>>
      BY <2>6 DEF NoteStamp
    <3>. QED  BY <1>0, <3>2, <3>3 DEF HealthOK
  <2>. QED  BY <2>1, <2>2, <2>3, <2>4, <2>5, <2>6
            DEF Attempt, PickStart, PickScan, Send, Land, Judge, Gate, DeliverResult
<1>. QED  BY <1>1, <1>4, <1>6, TypePartsNext

LEMMA FireFits ==
  LET r == [NoAttempt EXCEPT !.step = "pick"] IN r \in Tries /\ r.step = "pick"
BY NobodyFits, StepSet DEF AttemptSteps

\* What each step of a caller makes of its record.
LEMMA CallerParts ==
  ASSUME CallsOK, NEW c \in Fetchers
  PROVE  /\ \A kind \in FetchKinds :
              LET f == [NoFetch EXCEPT !.step = "first", !.kind = kind, !.fired = 1]
              IN f \in Callers /\ f.step = "first" /\ f.fired = 1 /\ f.results = <<>>
         /\ \A got \in {"ok", "err"} :
              LET f == [fetcher[c] EXCEPT !.step = "idle", !.got = got, !.cancelled = TRUE, !.results = <<>>]
              IN f \in Callers /\ f.step = "idle" /\ f.got = got /\ f.fired = fetcher[c].fired
         /\ LET f == [fetcher[c] EXCEPT !.step = "race", !.fired = 2]
            IN f \in Callers /\ f.step = "race" /\ f.fired = 2 /\ f.results = fetcher[c].results
         /\ fetcher[c].results # <<>> =>
              LET f == [fetcher[c] EXCEPT !.step = "second", !.cancelled = TRUE, !.results = Tail(fetcher[c].results)]
              IN f \in Callers /\ f.step = "second" /\ f.fired = fetcher[c].fired /\ f.results = Tail(fetcher[c].results)
<1>1. fetcher[c] \in Callers
  BY DEF CallsOK
<1>2. <<>> \in Seq({"ok", "err"}) /\ 1 \in 0..2 /\ 2 \in 0..2
  BY SMTT(30)
<1>3. \A kind \in FetchKinds :
        LET f == [NoFetch EXCEPT !.step = "first", !.kind = kind, !.fired = 1]
        IN f \in Callers /\ f.step = "first" /\ f.fired = 1 /\ f.results = <<>>
  BY <1>2, NobodyFits DEF Callers, FetcherSteps
<1>4. \A got \in {"ok", "err"} :
        LET f == [fetcher[c] EXCEPT !.step = "idle", !.got = got, !.cancelled = TRUE, !.results = <<>>]
        IN f \in Callers /\ f.step = "idle" /\ f.got = got /\ f.fired = fetcher[c].fired
  BY <1>1, <1>2 DEF Callers, FetcherSteps
<1>5. LET f == [fetcher[c] EXCEPT !.step = "race", !.fired = 2]
      IN f \in Callers /\ f.step = "race" /\ f.fired = 2 /\ f.results = fetcher[c].results
  BY <1>1, <1>2 DEF Callers, FetcherSteps
<1>6. ASSUME fetcher[c].results # <<>>
      PROVE  LET f == [fetcher[c] EXCEPT !.step = "second", !.cancelled = TRUE, !.results = Tail(fetcher[c].results)]
             IN f \in Callers /\ f.step = "second" /\ f.fired = fetcher[c].fired /\ f.results = Tail(fetcher[c].results)
  <2>. DEFINE s == Tail(fetcher[c].results)
  <2>1. fetcher[c].results \in Seq({"ok", "err"})
    BY <1>1 DEF Callers
  <2>2. s \in Seq({"ok", "err"})
    BY <1>6, <2>1, SMTT(30)
  <2>. HIDE DEF s
  <2>3. LET f == [fetcher[c] EXCEPT !.step = "second", !.cancelled = TRUE, !.results = s]
        IN f \in Callers /\ f.step = "second" /\ f.fired = fetcher[c].fired /\ f.results = s
    BY <1>1, <2>2 DEF Callers, FetcherSteps
  <2>. QED  BY <2>3 DEF s
<1>. QED  BY <1>3, <1>4, <1>5, <1>6

LEMMA HeadFits ==
  ASSUME CallsOK, NEW c \in Fetchers, fetcher[c].results # <<>>
  PROVE  Head(fetcher[c].results) \in {"ok", "err"}
<1>1. fetcher[c].results \in Seq({"ok", "err"})
  BY DEF CallsOK, Callers
<1>. QED  BY <1>1, SMTT(30)

LEMMA ReturnFits ==
  ASSUME CallsOK, NEW c \in Fetchers, NEW got \in {"ok", "err"}, ReturnWith(c, got)
  PROVE  \E f \in Callers :
           /\ fetcher' = [fetcher EXCEPT ![c] = f]
           /\ f.step = "idle" /\ f.got = got /\ f.fired = fetcher[c].fired
<1>. DEFINE f == [fetcher[c] EXCEPT !.step = "idle", !.got = got, !.cancelled = TRUE, !.results = <<>>]
<1>1. f \in Callers /\ f.step = "idle" /\ f.got = got /\ f.fired = fetcher[c].fired
  BY CallerParts
<1>2. fetcher' = [fetcher EXCEPT ![c] = f]
  BY DEF ReturnWith
<1>. HIDE DEF f
<1>. QED  BY <1>1, <1>2

LEMMA CallerTyped ==
  ASSUME OriginTypeOK, NEW c \in Fetchers, Caller(c)
  PROVE  OriginTypeOK'
<1>0. HealthOK /\ CallsOK /\ RestOK
  BY TypeParts
<1>1. CallerUnchanged
  BY DEF Caller, Dispatch, PrimaryReturns, HedgeTimer, FirstOfTwo, SecondOfTwo
<1>2. HealthOK'
  BY <1>0, <1>1 DEF HealthOK, CallerUnchanged, healthVars
<1>3. fetchesLeft' \in Nat
  <2>1. CASE Dispatch(c)
    BY <1>0, <2>1, SMTT(30) DEF Dispatch, RestOK
  <2>. QED  BY <1>0, <2>1 DEF Caller, PrimaryReturns, HedgeTimer, FirstOfTwo, SecondOfTwo, RestOK
<1>4. RestOK'
  BY <1>0, <1>1, <1>3 DEF RestOK, CallerUnchanged, knobVars, worldVars
<1>5. \A n \in {1, 2} : <<c, n>> \in Attempts
  BY DEF Attempts
<1>6. /\ attempt' \in [Attempts -> Tries]
      /\ \A b \in Attempts : attempt'[b].step \notin {"idle", "pick", "scan"} => attempt'[b].t \in Targets
  <2>1. CASE UNCHANGED attempt
    BY <1>0, <2>1 DEF CallsOK
  <2>2. ASSUME NEW a \in Attempts, Fire(a)
        PROVE  /\ attempt' \in [Attempts -> Tries]
               /\ \A b \in Attempts : attempt'[b].step \notin {"idle", "pick", "scan"} => attempt'[b].t \in Targets
    <3>. DEFINE r == [NoAttempt EXCEPT !.step = "pick"]
    <3>1. r \in Tries /\ r.step = "pick" /\ Become(a, r)
      BY <2>2, FireFits DEF Fire
    <3>. HIDE DEF r
    <3>. QED  BY <1>0, <3>1, Becomes
  <2>. QED  BY <1>5, <2>1, <2>2 DEF Caller, Dispatch, PrimaryReturns, HedgeTimer, FirstOfTwo, SecondOfTwo
<1>7. \E f \in Callers : fetcher' = [fetcher EXCEPT ![c] = f]
  <2>1. CASE Dispatch(c)
    <3>1. oplan.kinds \subseteq FetchKinds
      BY <1>0, PlanFacts DEF RestOK
    <3>. QED  BY <1>0, <2>1, <3>1, CallerParts DEF Dispatch
  <2>2. CASE HedgeTimer(c)
    BY <1>0, <2>2, CallerParts DEF HedgeTimer
  <2>3. CASE PrimaryReturns(c) \/ SecondOfTwo(c)
    BY <1>0, <2>3, HeadFits, ReturnFits DEF PrimaryReturns, SecondOfTwo
  <2>4. CASE FirstOfTwo(c)
    <3>1. CASE ReturnWith(c, "ok")
      BY <1>0, <3>1, ReturnFits
    <3>2. CASE fetcher' = [fetcher EXCEPT ![c] =
            [fetcher[c] EXCEPT !.step = "second", !.cancelled = TRUE, !.results = Tail(fetcher[c].results)]]
      BY <1>0, <2>4, <3>2, CallerParts DEF FirstOfTwo
    <3>. QED  BY <2>4, <3>1, <3>2 DEF FirstOfTwo
  <2>. QED  BY <2>1, <2>2, <2>3, <2>4 DEF Caller
<1>8. CallsOK'
  BY <1>0, <1>6, <1>7, CallerSet DEF CallsOK
<1>. QED  BY <1>2, <1>4, <1>8, TypePartsNext

LEMMA ProberTyped == ASSUME OriginTypeOK, Prober PROVE OriginTypeOK'
<1>0. HealthOK /\ CallsOK /\ RestOK
  BY TypeParts
<1>1. ProbeUnchanged
  BY DEF Prober, ProbeAll, ProbeOne, RecordProbeError, ActiveEject, RecordProbeSuccess, ActiveRestore
<1>2. CallsOK'
  BY <1>0, <1>1 DEF CallsOK, ProbeUnchanged
<1>3. probe' \in [Targets -> {"idle", "out", "fail", "eject", "ok", "restore"}]
  <2>1. CASE ProbeAll
    BY <2>1 DEF ProbeAll
  <2>2. ASSUME NEW t \in Targets, NEW s \in {"idle", "out", "fail", "eject", "ok", "restore"}, ProbeGoto(t, s)
        PROVE  probe' \in [Targets -> {"idle", "out", "fail", "eject", "ok", "restore"}]
    BY <1>0, <2>2 DEF RestOK, ProbeGoto
  <2>3. ASSUME NEW t \in Targets,
               ProbeOne(t) \/ RecordProbeError(t) \/ ActiveEject(t) \/ RecordProbeSuccess(t) \/ ActiveRestore(t)
        PROVE  \E s \in {"idle", "out", "fail", "eject", "ok", "restore"} : ProbeGoto(t, s)
    BY <2>3 DEF ProbeOne, RecordProbeError, ActiveEject, RecordProbeSuccess, ActiveRestore
  <2>. QED  BY <2>1, <2>2, <2>3 DEF Prober
<1>4. RestOK'
  BY <1>0, <1>1, <1>3 DEF RestOK, ProbeUnchanged, knobVars, worldVars
<1>5. /\ passive' \in [Targets -> Nat] /\ sinceOK' \in [Targets -> 0..CountWindow]
      /\ outSince' \in [Targets -> -1..LongestEjectFor] /\ erased' \subseteq Targets
  BY <1>0, <1>1 DEF HealthOK, ProbeUnchanged
<1>6. /\ 0 \in 0..UnhealthyThreshold /\ 0 \in 0..HealthyThreshold /\ 0 \in 0..LongestEjectFor /\ 0 \in 0..ProbeWindow
  BY Constants, SMTT(30)
<1>7. /\ healthy' \in [Targets -> BOOLEAN] /\ probeErr' \in [Targets -> 0..UnhealthyThreshold]
      /\ streak' \in [Targets -> 0..HealthyThreshold] /\ sinceProbe' \in [Targets -> 0..ProbeWindow]
      /\ outFor' \in [Targets -> 0..LongestEjectFor]
  <2>1. CASE UNCHANGED <<healthy, probeErr, streak, sinceProbe, outFor>>
    BY <1>0, <2>1 DEF HealthOK
  <2>2. ASSUME NEW t \in Targets, RecordProbeError(t)
        PROVE  /\ probeErr' \in [Targets -> 0..UnhealthyThreshold] /\ streak' \in [Targets -> 0..HealthyThreshold]
               /\ UNCHANGED <<healthy, sinceProbe, outFor>>
    <3>1. probeErr[t] \in 0..UnhealthyThreshold
      BY <1>0 DEF HealthOK
    <3>2. AtMost(probeErr[t] + 1, UnhealthyThreshold) \in 0..UnhealthyThreshold
      BY <3>1, Constants, SMTT(30) DEF AtMost
    <3>3. PICK n \in 0..UnhealthyThreshold : probeErr' = [probeErr EXCEPT ![t] = n]
      BY <2>2, <3>1, <3>2 DEF RecordProbeError
    <3>4. streak' = [streak EXCEPT ![t] = 0] /\ UNCHANGED <<healthy, sinceProbe, outFor>>
      BY <2>2 DEF RecordProbeError
    <3>5. probeErr' \in [Targets -> 0..UnhealthyThreshold]
      BY <1>0, <3>3 DEF HealthOK
    <3>6. streak' \in [Targets -> 0..HealthyThreshold]
      BY <1>0, <1>6, <3>4 DEF HealthOK
    <3>. QED  BY <3>4, <3>5, <3>6
  <2>3. ASSUME NEW t \in Targets, ActiveEject(t)
        PROVE  /\ healthy' \in [Targets -> BOOLEAN] /\ outFor' \in [Targets -> 0..LongestEjectFor]
               /\ UNCHANGED <<probeErr, streak, sinceProbe>>
    BY <1>0, <1>6, <2>3 DEF ActiveEject, HealthOK
  <2>4. ASSUME NEW t \in Targets, RecordProbeSuccess(t)
        PROVE  /\ probeErr' \in [Targets -> 0..UnhealthyThreshold] /\ sinceProbe' \in [Targets -> 0..ProbeWindow]
               /\ UNCHANGED <<healthy, streak, outFor>>
    BY <1>0, <1>6, <2>4 DEF RecordProbeSuccess, HealthOK
  <2>5. ASSUME NEW t \in Targets, ActiveRestore(t)
        PROVE  /\ healthy' \in [Targets -> BOOLEAN] /\ streak' \in [Targets -> 0..HealthyThreshold]
               /\ UNCHANGED <<probeErr, sinceProbe, outFor>>
    <3>1. streak[t] \in 0..HealthyThreshold
      BY <1>0 DEF HealthOK
    <3>2. AtMost(streak[t] + 1, HealthyThreshold) \in 0..HealthyThreshold
      BY <3>1, Constants, SMTT(30) DEF AtMost
    <3>3. PICK n \in 0..HealthyThreshold : streak' = [streak EXCEPT ![t] = n]
      BY <1>6, <2>5, <3>1, <3>2 DEF ActiveRestore
    <3>4. streak' \in [Targets -> 0..HealthyThreshold]
      BY <1>0, <3>3 DEF HealthOK
    <3>5. PICK b \in BOOLEAN : healthy' = [healthy EXCEPT ![t] = healthy[t] \/ b]
      BY <2>5 DEF ActiveRestore
    <3>6. healthy' \in [Targets -> BOOLEAN]
      BY <1>0, <3>5 DEF HealthOK
    <3>. QED  BY <2>5, <3>4, <3>6 DEF ActiveRestore
  <2>. QED  BY <1>0, <2>1, <2>2, <2>3, <2>4, <2>5 DEF Prober, ProbeAll, ProbeOne, HealthOK
<1>8. HealthOK'
  BY <1>5, <1>7 DEF HealthOK
<1>. QED  BY <1>2, <1>4, <1>8, TypePartsNext

\* Where the reaper goes.
LEMMA ReapGoes ==
  ASSUME RestOK
  PROVE  /\ NextTarget \in Reapers /\ NextTarget.step \in {"idle", "look"} /\ (NextTarget.due => reap.due)
         /\ \A s \in {"zero", "restore", "clear"} :
              LET r == [reap EXCEPT !.step = s]
              IN r \in Reapers /\ r.step = s /\ r.t = reap.t /\ r.window = reap.window /\ r.due = reap.due
         /\ LET r == [ReaperIdle EXCEPT !.step = "look", !.window = ejectFor]
            IN r \in Reapers /\ r.step = "look" /\ ~r.due
         /\ LET r == [reap EXCEPT !.due = HasReaper] IN r \in Reapers /\ r.step = reap.step
<1>1. reap \in Reapers /\ reap.t \in Targets /\ ejectFor \in 0..LongestEjectFor
  BY DEF RestOK, Reapers
<1>2. reap.t + 1 < NTargets => reap.t + 1 \in Targets
  BY <1>1, TargetFacts
<1>3. NextTarget \in Reapers /\ NextTarget.step \in {"idle", "look"} /\ (NextTarget.due => reap.due)
  <2>. DEFINE r == [reap EXCEPT !.step = "look", !.t = reap.t + 1]
  <2>1. reap.t + 1 < NTargets => r \in Reapers /\ r.step = "look" /\ r.due = reap.due
    BY <1>1, <1>2 DEF Reapers
  <2>2. ~ReaperIdle.due
    BY DEF ReaperIdle
  <2>. QED  BY <2>1, <2>2, NobodyFits DEF NextTarget
<1>4. \A s \in {"zero", "restore", "clear"} :
        LET r == [reap EXCEPT !.step = s]
        IN r \in Reapers /\ r.step = s /\ r.t = reap.t /\ r.window = reap.window /\ r.due = reap.due
  BY <1>1 DEF Reapers
<1>5. LET r == [ReaperIdle EXCEPT !.step = "look", !.window = ejectFor]
      IN r \in Reapers /\ r.step = "look" /\ ~r.due
  <2>1. ~ReaperIdle.due
    BY DEF ReaperIdle
  <2>. QED  BY <1>1, <2>1, NobodyFits DEF Reapers
<1>6. HasReaper \in BOOLEAN
  BY SMTT(30) DEF HasReaper
<1>7. LET r == [reap EXCEPT !.due = HasReaper] IN r \in Reapers /\ r.step = reap.step
  BY <1>1, <1>6 DEF Reapers
<1>. QED  BY <1>3, <1>4, <1>5, <1>7

LEMMA ReaperTyped == ASSUME OriginTypeOK, Reaper PROVE OriginTypeOK'
<1>0. HealthOK /\ CallsOK /\ RestOK
  BY TypeParts
<1>1. ReapUnchanged
  BY DEF Reaper, ReapStart, ReapLook, ReapZero, ReapRestore, ReapClear
<1>2. CallsOK'
  BY <1>0, <1>1 DEF CallsOK, ReapUnchanged
<1>3. reap' \in Reapers
  <2>. DEFINE At(s) == [reap EXCEPT !.step = s]
              first == [ReaperIdle EXCEPT !.step = "look", !.window = ejectFor]
  <2>1. /\ NextTarget \in Reapers /\ At("zero") \in Reapers /\ At("restore") \in Reapers /\ At("clear") \in Reapers
        /\ first \in Reapers /\ ReaperIdle \in Reapers
    BY <1>0, ReapGoes, NobodyFits
  <2>2. reap' \in {NextTarget, At("zero"), At("restore"), At("clear"), first, ReaperIdle}
    BY DEF Reaper, ReapStart, ReapLook, ReapZero, ReapRestore, ReapClear
  <2>. HIDE DEF At, first
  <2>. QED  BY <2>1, <2>2
<1>4. RestOK'
  BY <1>0, <1>1, <1>3 DEF RestOK, ReapUnchanged, knobVars, worldVars
<1>5. /\ probeErr' \in [Targets -> 0..UnhealthyThreshold] /\ sinceOK' \in [Targets -> 0..CountWindow]
      /\ sinceProbe' \in [Targets -> 0..ProbeWindow] /\ outFor' \in [Targets -> 0..LongestEjectFor]
  BY <1>0, <1>1 DEF HealthOK, ReapUnchanged
<1>6. 0 \in 0..HealthyThreshold /\ Unset \in -1..LongestEjectFor /\ reap.t \in Targets
  <2>1. 0 \in 0..HealthyThreshold /\ Unset \in -1..LongestEjectFor
    BY Constants, SMTT(30) DEF Unset
  <2>. QED  BY <1>0, <2>1 DEF RestOK, Reapers
<1>7. /\ healthy' \in [Targets -> BOOLEAN] /\ passive' \in [Targets -> Nat]
      /\ streak' \in [Targets -> 0..HealthyThreshold] /\ outSince' \in [Targets -> -1..LongestEjectFor]
      /\ erased' \subseteq Targets
  <2>1. CASE ReapStart \/ ReapLook
    BY <1>0, <2>1 DEF HealthOK, ReapStart, ReapLook
  <2>2. CASE ReapZero
    BY <1>0, <1>6, <2>2 DEF HealthOK, ReapZero
  <2>3. CASE ReapRestore
    BY <1>0, <1>6, <2>3 DEF HealthOK, ReapRestore
  <2>4. CASE ReapClear
    BY <1>0, <1>6, <2>4 DEF HealthOK, ReapClear
  <2>. QED  BY <2>1, <2>2, <2>3, <2>4 DEF Reaper
<1>8. HealthOK'
  BY <1>5, <1>7 DEF HealthOK
<1>. QED  BY <1>2, <1>4, <1>8, TypePartsNext

LEMMA WorldTyped == ASSUME OriginTypeOK, OriginTick \/ MoodTurns \/ SetKnob PROVE OriginTypeOK'
<1>0. HealthOK /\ CallsOK /\ RestOK
  BY TypeParts
<1>1. CallsOK'
  BY <1>0 DEF CallsOK, OriginTick, MoodTurns, SetKnob
<1>2. CASE OriginTick
  <2>1. /\ sinceOK' \in [Targets -> 0..CountWindow] /\ sinceProbe' \in [Targets -> 0..ProbeWindow]
        /\ outSince' \in [Targets -> -1..LongestEjectFor] /\ outFor' \in [Targets -> 0..LongestEjectFor]
    BY <1>0, <1>2, Constants, OlderAge, OlderInstant DEF OriginTick, HealthOK
  <2>2. HealthOK'
    BY <1>0, <1>2, <2>1 DEF OriginTick, HealthOK
  <2>3. reap' \in Reapers
    BY <1>0, <1>2, ReapGoes DEF OriginTick
  <2>4. RestOK'
    BY <1>0, <1>2, <2>3 DEF OriginTick, RestOK, knobVars, worldVars
  <2>. QED  BY <1>1, <2>2, <2>4, TypePartsNext
<1>3. CASE MoodTurns
  <2>1. turns' \in Nat
    BY <1>0, <1>3, SMTT(30) DEF MoodTurns, RestOK
  <2>2. oplan.moods \subseteq Moods
    BY <1>0, PlanFacts DEF RestOK
  <2>3. mood' \in [Targets -> Moods]
    BY <1>0, <1>3, <2>2 DEF MoodTurns, RestOK
  <2>4. RestOK'
    BY <1>0, <1>3, <2>1, <2>3 DEF MoodTurns, RestOK, knobVars
  <2>5. HealthOK'
    BY <1>0, <1>3 DEF MoodTurns, HealthOK, healthVars
  <2>. QED  BY <1>1, <2>4, <2>5, TypePartsNext
<1>4. CASE SetKnob
  <2>1. turns' \in Nat
    BY <1>0, <1>4, SMTT(30) DEF SetKnob, RestOK
  <2>2. oplan.knobs \subseteq Nat
    BY <1>0, PlanFacts DEF RestOK
  <2>3. PICK v \in oplan.knobs : \/ threshold' = v /\ UNCHANGED ejectFor
                                 \/ ejectFor' = AtMost(v, LongestEjectFor) /\ UNCHANGED threshold
    BY <1>4 DEF SetKnob
  <2>4. AtMost(v, LongestEjectFor) \in 0..LongestEjectFor
    BY <2>2, Constants, AtMostFits
  <2>5. threshold' \in Nat /\ ejectFor' \in 0..LongestEjectFor
    BY <1>0, <2>2, <2>3, <2>4 DEF RestOK
  <2>6. RestOK'
    BY <1>0, <1>4, <2>1, <2>5 DEF SetKnob, RestOK
  <2>7. HealthOK'
    BY <1>0, <1>4 DEF SetKnob, HealthOK, healthVars
  <2>. QED  BY <1>1, <2>6, <2>7, TypePartsNext
<1>. QED  BY <1>2, <1>3, <1>4

LEMMA OriginTypeKept == OriginTypeOK /\ [OriginNext]_originVars => OriginTypeOK'
<1>. SUFFICES ASSUME OriginTypeOK, [OriginNext]_originVars PROVE OriginTypeOK'
  OBVIOUS
<1>1. CASE UNCHANGED originVars
  BY <1>1 DEF OriginTypeOK, originVars, knobVars, healthVars, worldVars
<1>. QED  BY <1>1, CallerTyped, AttemptTyped, ProberTyped, ReaperTyped, WorldTyped DEF OriginNext

\* Types of the pool's state.
THEOREM OriginTyped == OriginSpec => []OriginTypeOK
BY OriginTypeStart, OriginTypeKept, PTL DEF OriginSpec

-----------------------------------------------------------------------------
(* The hedged fetch.                                                       *)

Slot(c, n) == <<c, n>>
Busy(c, n) == attempt[Slot(c, n)].step # "idle"
Told(c, n) == Verdict(attempt[Slot(c, n)].out)

\* What is in the channel while attempt n is the only one to wait for.
Awaits(c, n) == IF Busy(c, n) THEN fetcher[c].results = <<>> ELSE fetcher[c].results = <<Told(c, n)>>

\* What is in the channel while both are.
Racing(c) ==
  \/ Busy(c, 1) /\ Busy(c, 2) /\ fetcher[c].results = <<>>
  \/ \E n, m \in {1, 2} :
       /\ n # m /\ ~Busy(c, n)
       /\ fetcher[c].results = IF Busy(c, m) THEN <<Told(c, n)>> ELSE <<Told(c, n), Told(c, m)>>

\* The caller and its attempts keep step.
Asked(c) ==
  /\ fetcher[c].step = "idle" /\ fetcher[c].got = "err" =>
       \A n \in {1, 2} : n <= fetcher[c].fired => ~Busy(c, n) /\ Told(c, n) = "err"
  /\ fetcher[c].step = "first" => fetcher[c].fired = 1 /\ ~Busy(c, 2) /\ Awaits(c, 1)
  /\ fetcher[c].step = "race" => fetcher[c].fired = 2 /\ Racing(c)
  /\ fetcher[c].step = "second" =>
       /\ fetcher[c].fired = 2
       /\ \E n, m \in {1, 2} : n # m /\ ~Busy(c, n) /\ Told(c, n) = "err" /\ Awaits(c, m)

HedgeInv == \A c \in Fetchers : Asked(c)

LEMMA SlotFacts ==
  /\ \A c \in Fetchers : \A n \in {1, 2} : Slot(c, n) \in Attempts
  /\ \A a \in Attempts : a[1] \in Fetchers /\ a[2] \in {1, 2} /\ a = Slot(a[1], a[2])
  /\ \A c, d \in Fetchers : \A n, m \in {1, 2} : Slot(c, n) = Slot(d, m) => c = d /\ n = m
  /\ \A c \in Fetchers : \A n \in {1, 2} : Slot(c, n)[1] = c /\ Slot(c, n)[2] = n
<1>1. \A c \in Fetchers : \A n \in {1, 2} : Slot(c, n) \in Attempts
  BY DEF Slot, Attempts
<1>2. \A a \in Attempts : a[1] \in Fetchers /\ a[2] \in {1, 2} /\ a = Slot(a[1], a[2])
  BY SMTT(30) DEF Slot, Attempts
<1>3. \A c, d \in Fetchers : \A n, m \in {1, 2} : Slot(c, n) = Slot(d, m) => c = d /\ n = m
  BY DEF Slot
<1>4. \A c \in Fetchers : \A n \in {1, 2} : Slot(c, n)[1] = c /\ Slot(c, n)[2] = n
  BY DEF Slot
<1>. QED  BY <1>1, <1>2, <1>3, <1>4

LEMMA ChannelFacts ==
  ASSUME NEW x, NEW y
  PROVE  /\ Append(<<>>, x) = <<x>> /\ Append(<<x>>, y) = <<x, y>>
         /\ Head(<<x>>) = x /\ Tail(<<x>>) = <<>> /\ <<x>> # <<>>
         /\ Head(<<x, y>>) = x /\ Tail(<<x, y>>) = <<y>> /\ <<x, y>> # <<>>
<1>1. Append(<<>>, x) = <<x>> /\ Append(<<x>>, y) = <<x, y>>
  <2>. DEFINE S == {x, y}
              two == <<x, y>>
              more == Append(<<x>>, y)
  <2>1. Append(<<>>, x) = <<x>>
    BY SMTT(30)
  <2>2. two \in Seq(S) /\ Len(two) = 2 /\ two[1] = x /\ two[2] = y
    BY SMTT(30)
  <2>3. more \in Seq(S) /\ Len(more) = 2 /\ more[1] = x /\ more[2] = y
    BY SMTT(30)
  <2>. HIDE DEF S, two, more
  <2>4. \A i \in 1..Len(two) : two[i] = more[i]
    BY <2>2, <2>3, SMTT(30)
  <2>5. two = more
    BY <2>2, <2>3, <2>4, SeqEqual
  <2>. QED  BY <2>1, <2>5 DEF two, more
<1>2. Head(<<x>>) = x /\ Tail(<<x>>) = <<>> /\ <<x>> # <<>>
  BY SMTT(30)
<1>3. Head(<<x, y>>) = x /\ Tail(<<x, y>>) = <<y>> /\ <<x, y>> # <<>>
  BY SMTT(30)
<1>. QED  BY <1>1, <1>2, <1>3

LEMMA VerdictFacts == ASSUME NEW out PROVE Verdict(out) \in {"ok", "err"} /\ (Verdict(out) = "err" <=> out \notin {"ok", "5xx"})
BY DEF Verdict

\* A caller none of whose attempts comes to an end.
LEMMA AskedSame ==
  ASSUME NEW c \in Fetchers, Asked(c), fetcher'[c] = fetcher[c],
         \A n \in {1, 2} : /\ Busy(c, n)' <=> Busy(c, n)
                           /\ ~Busy(c, n) => Told(c, n)' = Told(c, n)
  PROVE  Asked(c)'
<1>1. \A n \in {1, 2} : Awaits(c, n) => Awaits(c, n)'
  BY DEF Awaits
<1>2. Racing(c) => Racing(c)'
  BY DEF Racing
<1>. QED  BY <1>1, <1>2 DEF Asked

LEMMA AskedStart == OriginInit => HedgeInv
<1>. SUFFICES ASSUME OriginInit, NEW c \in Fetchers PROVE Asked(c)
  BY DEF HedgeInv
<1>1. fetcher[c].step = "idle" /\ fetcher[c].got = "none"
  BY NobodyFits DEF OriginInit
<1>. QED  BY <1>1 DEF Asked

\* The attempts that do not move.
LEMMA OthersSame ==
  ASSUME NEW a \in Attempts, \A b \in Attempts \ {a} : attempt'[b] = attempt[b],
         NEW c \in Fetchers, NEW n \in {1, 2}, Slot(c, n) # a
  PROVE  (Busy(c, n)' <=> Busy(c, n)) /\ Told(c, n)' = Told(c, n)
<1>1. attempt'[Slot(c, n)] = attempt[Slot(c, n)]
  BY SlotFacts
<1>. QED  BY <1>1 DEF Busy, Told, Slot

LEMMA AttemptAsked ==
  ASSUME OriginTypeOK, HedgeInv, NEW a \in Attempts, Attempt(a) PROVE HedgeInv'
<1>0. HealthOK /\ CallsOK /\ RestOK
  BY TypeParts
<1>. SUFFICES ASSUME NEW c \in Fetchers PROVE Asked(c)'
  BY DEF HedgeInv
<1>1. Asked(c)
  BY DEF HedgeInv
<1>2. CASE ~DeliverResult(a)
  <2>1. PICK r \in Tries : Goes(a, r)
    BY <1>0, <1>2, AttemptGoes
  <2>2. /\ attempt'[a] = r /\ r.step # "idle" /\ attempt[a].step # "idle"
        /\ \A b \in Attempts \ {a} : attempt'[b] = attempt[b]
    BY <1>0, <2>1, Becomes DEF Goes
  <2>3. UNCHANGED fetcher
    BY <1>2 DEF Attempt, PickStart, PickScan, Send, Land, Judge, Gate, CountError, PassiveEject, MarkEjected,
                NoteReset, NoteStamp
  <2>4. ASSUME NEW n \in {1, 2}
        PROVE  (Busy(c, n)' <=> Busy(c, n)) /\ (~Busy(c, n) => Told(c, n)' = Told(c, n))
    <3>1. CASE Slot(c, n) = a
      BY <2>2, <3>1 DEF Busy, Slot
    <3>. QED  BY <2>2, <3>1, OthersSame
  <2>. QED  BY <1>1, <2>3, <2>4, AskedSame
<1>3. CASE DeliverResult(a)
  <2>. DEFINE r == [NoAttempt EXCEPT !.out = attempt[a].out]
              d == a[1]
              k == a[2]
              f == [fetcher[d] EXCEPT !.results = Append(fetcher[d].results, Verdict(attempt[a].out))]
  <2>1. /\ attempt[a].step = "deliver"
        /\ r \in Tries /\ r.step = "idle" /\ r.out = attempt[a].out /\ Become(a, r)
        /\ f \in Callers /\ f.step = fetcher[d].step /\ f.fired = fetcher[d].fired
        /\ f.results = Append(fetcher[d].results, Verdict(attempt[a].out))
        /\ IF fetcher[d].step = "idle" THEN UNCHANGED fetcher ELSE fetcher' = [fetcher EXCEPT ![d] = f]
    BY <1>0, <1>3, DeliverParts
  <2>2. d \in Fetchers /\ k \in {1, 2} /\ a = Slot(d, k)
    BY SlotFacts
  <2>. HIDE DEF r, d, k, f
  <2>3. /\ attempt'[a] = r
        /\ \A b \in Attempts \ {a} : attempt'[b] = attempt[b]
    BY <1>0, <2>1, Becomes
  <2>4. \A e \in Fetchers, n \in {1, 2} : Slot(e, n) # a => (Busy(e, n)' <=> Busy(e, n)) /\ Told(e, n)' = Told(e, n)
    BY <2>3, OthersSame
  <2>5. CASE c # d
    <3>1. \A n \in {1, 2} : Slot(c, n) # a
      BY <2>2, <2>5, SlotFacts
    <3>2. fetcher'[c] = fetcher[c]
      BY <1>0, <2>1, <2>2, <2>5, CallerSet
    <3>. QED  BY <1>1, <2>4, <3>1, <3>2, AskedSame
  <2>6. CASE c = d
    <3>1. Busy(c, k) /\ ~Busy(c, k)' /\ Told(c, k)' = Told(c, k) /\ Told(c, k) = Verdict(attempt[a].out)
      <4>1. attempt[Slot(c, k)].step = "deliver" /\ attempt'[Slot(c, k)] = r
        BY <2>1, <2>2, <2>3, <2>6
      <4>2. Busy(c, k) /\ ~Busy(c, k)'
        BY <2>1, <4>1 DEF Busy, Slot
      <4>3. Told(c, k) = Verdict(attempt[a].out) /\ Told(c, k)' = Verdict(r.out)
        BY <2>2, <2>6, <4>1 DEF Told, Slot
      <4>. QED  BY <2>1, <4>2, <4>3
    <3>2. \A n \in {1, 2} \ {k} : (Busy(c, n)' <=> Busy(c, n)) /\ Told(c, n)' = Told(c, n)
      <4>1. \A n \in {1, 2} \ {k} : Slot(c, n) # a
        BY <2>2, <2>6, SlotFacts, SMTT(30)
      <4>. QED  BY <2>4, <4>1
    <3>3. CASE fetcher[c].step = "idle"
      <4>1. fetcher'[c] = fetcher[c]
        BY <2>1, <2>6, <3>3
      <4>2. ASSUME NEW n \in {1, 2}, n <= fetcher[c].fired, fetcher[c].got = "err"
            PROVE  ~Busy(c, n)' /\ Told(c, n)' = "err"
        BY <1>1, <2>2, <3>1, <3>2, <3>3, <4>2 DEF Asked
      <4>. QED  BY <3>3, <4>1, <4>2 DEF Asked
    <3>4. CASE fetcher[c].step # "idle"
      <4>1. /\ fetcher'[c].step = fetcher[c].step /\ fetcher'[c].fired = fetcher[c].fired
            /\ fetcher'[c].results = Append(fetcher[c].results, Told(c, k))
        BY <1>0, <2>1, <2>2, <2>6, <3>1, <3>4, CallerSet
      <4>2. ASSUME fetcher[c].results = <<>>, NEW x
            PROVE  Append(fetcher[c].results, x) = <<x>>
        BY <4>2, ChannelFacts
      <4>3. Awaits(c, k) => Awaits(c, k)'
        BY <3>1, <4>1, <4>2 DEF Awaits
      <4>4. CASE fetcher[c].step = "first"
        <5>1. k = 1 /\ Awaits(c, 1) /\ ~Busy(c, 2) /\ fetcher[c].fired = 1
          BY <1>1, <2>2, <3>1, <4>4 DEF Asked
        <5>2. ~Busy(c, 2)'
          BY <3>2, <5>1, SMTT(30)
        <5>. QED  BY <4>1, <4>3, <4>4, <5>1, <5>2 DEF Asked
      <4>5. CASE fetcher[c].step = "second"
        <5>1. fetcher[c].fired = 2 /\ \E n, m \in {1, 2} : n # m /\ ~Busy(c, n) /\ Told(c, n) = "err" /\ Awaits(c, m)
          BY <1>1, <4>5 DEF Asked
        <5>2. PICK n \in {1, 2} : n # k /\ ~Busy(c, n) /\ Told(c, n) = "err" /\ Awaits(c, k)
          BY <2>2, <3>1, <5>1
        <5>3. ~Busy(c, n)' /\ Told(c, n)' = "err"
          BY <3>2, <5>2
        <5>4. \E p, m \in {1, 2} : p # m /\ ~Busy(c, p)' /\ Told(c, p)' = "err" /\ Awaits(c, m)'
          BY <2>2, <4>3, <5>2, <5>3
        <5>. QED  BY <4>1, <4>5, <5>1, <5>4 DEF Asked
      <4>6. CASE fetcher[c].step = "race"
        <5>1. fetcher[c].fired = 2 /\ Racing(c)
          BY <1>1, <4>6 DEF Asked
        <5>2. CASE Busy(c, 1) /\ Busy(c, 2) /\ fetcher[c].results = <<>>
          <6>1. PICK m \in {1, 2} : m # k
            BY SMTT(30)
          <6>2. fetcher'[c].results = <<Told(c, k)'>> /\ Busy(c, m)' /\ ~Busy(c, k)'
            BY <3>1, <3>2, <4>1, <4>2, <5>2, <6>1
          <6>3. Racing(c)'
            BY <2>2, <6>1, <6>2 DEF Racing
          <6>. QED  BY <4>1, <4>6, <5>1, <6>3 DEF Asked
        <5>3. CASE \E n, m \in {1, 2} :
                     /\ n # m /\ ~Busy(c, n)
                     /\ fetcher[c].results = IF Busy(c, m) THEN <<Told(c, n)>> ELSE <<Told(c, n), Told(c, m)>>
          <6>1. PICK n \in {1, 2} : n # k /\ ~Busy(c, n) /\ fetcher[c].results = <<Told(c, n)>>
            BY <2>2, <3>1, <5>3
          <6>2. fetcher'[c].results = <<Told(c, n), Told(c, k)>>
            BY <4>1, <6>1, ChannelFacts
          <6>3. ~Busy(c, n)' /\ ~Busy(c, k)' /\ fetcher'[c].results = <<Told(c, n)', Told(c, k)'>>
            BY <3>1, <3>2, <6>1, <6>2
          <6>4. Racing(c)'
            BY <2>2, <6>1, <6>3 DEF Racing
          <6>. QED  BY <4>1, <4>6, <5>1, <6>4 DEF Asked
        <5>. QED  BY <5>1, <5>2, <5>3 DEF Racing
      <4>7. fetcher[c].step \in FetcherSteps
        BY <1>0 DEF CallsOK, Callers
      <4>. QED  BY <3>4, <4>4, <4>5, <4>6, <4>7 DEF FetcherSteps
    <3>. QED  BY <3>3, <3>4
  <2>. QED  BY <2>5, <2>6
<1>. QED  BY <1>2, <1>3

\* A caller that returns has the verdict of an attempt.
LEMMA ReturnAsked ==
  ASSUME CallsOK, NEW c \in Fetchers, NEW got \in {"ok", "err"}, ReturnWith(c, got), UNCHANGED attempt,
         got = "err" => \A n \in {1, 2} : n <= fetcher[c].fired => ~Busy(c, n) /\ Told(c, n) = "err"
  PROVE  Asked(c)'
<1>1. PICK f \in Callers :
        fetcher' = [fetcher EXCEPT ![c] = f] /\ f.step = "idle" /\ f.got = got /\ f.fired = fetcher[c].fired
  BY ReturnFits
<1>2. fetcher'[c].step = "idle" /\ fetcher'[c].got = got /\ fetcher'[c].fired = fetcher[c].fired
  BY <1>1, CallerSet
<1>3. \A n \in {1, 2} : (Busy(c, n)' <=> Busy(c, n)) /\ Told(c, n)' = Told(c, n)
  BY DEF Busy, Told, Slot
<1>. QED  BY <1>2, <1>3 DEF Asked

LEMMA FireBusy ==
  ASSUME CallsOK, NEW c \in Fetchers, NEW n \in {1, 2}, Fire(Slot(c, n))
  PROVE  /\ Busy(c, n)'
         /\ \A e \in Fetchers, m \in {1, 2} : Slot(e, m) # Slot(c, n) => (Busy(e, m)' <=> Busy(e, m)) /\ Told(e, m)' = Told(e, m)
<1>. DEFINE r == [NoAttempt EXCEPT !.step = "pick"]
            a == Slot(c, n)
<1>1. r \in Tries /\ r.step = "pick" /\ Become(a, r) /\ a \in Attempts
  BY FireFits, SlotFacts DEF Fire
<1>. HIDE DEF r, a
<1>2. attempt'[a] = r /\ \A b \in Attempts \ {a} : attempt'[b] = attempt[b]
  BY <1>1, Becomes
<1>3. Busy(c, n)'
  BY <1>1, <1>2 DEF Busy, a, Slot
<1>4. \A e \in Fetchers, m \in {1, 2} : Slot(e, m) # a => (Busy(e, m)' <=> Busy(e, m)) /\ Told(e, m)' = Told(e, m)
  BY <1>1, <1>2, OthersSame
<1>. QED  BY <1>3, <1>4 DEF a

LEMMA CallerAsked ==
  ASSUME OriginTypeOK, HedgeInv, NEW c \in Fetchers, Caller(c) PROVE HedgeInv'
<1>0. CallsOK /\ RestOK
  BY TypeParts
<1>1. Asked(c)
  BY DEF HedgeInv
<1>2. ASSUME NEW d \in Fetchers, d # c PROVE Asked(d)'
  <2>1. fetcher'[d] = fetcher[d]
    BY <1>0, <1>2 DEF Caller, Dispatch, PrimaryReturns, HedgeTimer, FirstOfTwo, SecondOfTwo, ReturnWith, CallsOK
  <2>2. \A n \in {1, 2} : Slot(d, n) # Slot(c, 1) /\ Slot(d, n) # Slot(c, 2)
    BY <1>2, SlotFacts
  <2>3. UNCHANGED attempt \/ Fire(Slot(c, 1)) \/ Fire(Slot(c, 2))
    BY DEF Caller, Dispatch, PrimaryReturns, HedgeTimer, FirstOfTwo, SecondOfTwo, Slot
  <2>4. \A n \in {1, 2} : (Busy(d, n)' <=> Busy(d, n)) /\ Told(d, n)' = Told(d, n)
    <3>1. CASE UNCHANGED attempt
      BY <3>1 DEF Busy, Told, Slot
    <3>. QED  BY <1>0, <2>2, <2>3, <3>1, FireBusy
  <2>5. Asked(d)
    BY DEF HedgeInv
  <2>. QED  BY <2>1, <2>4, <2>5, AskedSame
<1>3. Asked(c)'
  <2>1. CASE Dispatch(c)
    <3>1. oplan.kinds \subseteq FetchKinds
      BY <1>0, PlanFacts DEF RestOK
    <3>2. PICK kind \in FetchKinds :
            fetcher' = [fetcher EXCEPT ![c] = [NoFetch EXCEPT !.step = "first", !.kind = kind, !.fired = 1]]
      BY <2>1, <3>1 DEF Dispatch
    <3>3. PICK f \in Callers : /\ fetcher' = [fetcher EXCEPT ![c] = f]
                               /\ f.step = "first" /\ f.fired = 1 /\ f.results = <<>>
      BY <1>0, <3>2, CallerParts
    <3>4. fetcher'[c].step = "first" /\ fetcher'[c].fired = 1 /\ fetcher'[c].results = <<>>
      BY <1>0, <3>3, CallerSet
    <3>5. Fire(Slot(c, 1)) /\ ~Busy(c, 2)
      BY <2>1 DEF Dispatch, Slot, Busy
    <3>6. Slot(c, 2) # Slot(c, 1)
      BY SlotFacts, SMTT(30)
    <3>7. Busy(c, 1)' /\ ~Busy(c, 2)'
      BY <1>0, <3>5, <3>6, FireBusy
    <3>8. Awaits(c, 1)'
      BY <3>4, <3>7 DEF Awaits
    <3>. QED  BY <3>4, <3>7, <3>8 DEF Asked
  <2>2. CASE PrimaryReturns(c)
    <3>1. fetcher[c].step = "first" /\ fetcher[c].results # <<>> /\ UNCHANGED attempt
          /\ ReturnWith(c, Head(fetcher[c].results))
      BY <2>2 DEF PrimaryReturns
    <3>2. fetcher[c].fired = 1 /\ ~Busy(c, 1) /\ fetcher[c].results = <<Told(c, 1)>>
      BY <1>1, <3>1 DEF Asked, Awaits
    <3>3. Head(fetcher[c].results) = Told(c, 1)
      BY <3>2, ChannelFacts
    <3>4. Told(c, 1) \in {"ok", "err"}
      BY VerdictFacts DEF Told
    <3>5. \A n \in {1, 2} : n <= 1 => n = 1
      BY SMTT(30)
    <3>6. Told(c, 1) = "err" => \A n \in {1, 2} : n <= fetcher[c].fired => ~Busy(c, n) /\ Told(c, n) = "err"
      BY <3>2, <3>5
    <3>. QED  BY <1>0, <3>1, <3>3, <3>4, <3>6, ReturnAsked
  <2>3. CASE HedgeTimer(c)
    <3>1. PICK f \in Callers : /\ fetcher' = [fetcher EXCEPT ![c] = f]
                               /\ f.step = "race" /\ f.fired = 2 /\ f.results = fetcher[c].results
      BY <1>0, <2>3, CallerParts DEF HedgeTimer
    <3>2. fetcher'[c].step = "race" /\ fetcher'[c].fired = 2 /\ fetcher'[c].results = fetcher[c].results
      BY <1>0, <3>1, CallerSet
    <3>3. Fire(Slot(c, 2)) /\ Awaits(c, 1)
      BY <1>1, <2>3 DEF HedgeTimer, Slot, Asked
    <3>4. Slot(c, 1) # Slot(c, 2)
      BY SlotFacts, SMTT(30)
    <3>5. Busy(c, 2)' /\ (Busy(c, 1)' <=> Busy(c, 1)) /\ Told(c, 1)' = Told(c, 1)
      BY <1>0, <3>3, <3>4, FireBusy
    <3>6. Racing(c)'
      <4>1. CASE Busy(c, 1)
        BY <3>2, <3>3, <3>5, <4>1 DEF Racing, Awaits
      <4>2. CASE ~Busy(c, 1)
        <5>1. ~Busy(c, 1)' /\ Busy(c, 2)' /\ fetcher'[c].results = <<Told(c, 1)'>>
          BY <3>2, <3>3, <3>5, <4>2 DEF Awaits
        <5>2. 1 # 2
          BY SMTT(30)
        <5>. QED  BY <5>1, <5>2 DEF Racing
      <4>. QED  BY <4>1, <4>2
    <3>. QED  BY <3>2, <3>6 DEF Asked
  <2>4. CASE FirstOfTwo(c)
    <3>1. fetcher[c].step = "race" /\ fetcher[c].results # <<>> /\ UNCHANGED attempt
      BY <2>4 DEF FirstOfTwo
    <3>2. fetcher[c].fired = 2 /\ Racing(c)
      BY <1>1, <3>1 DEF Asked
    <3>3. PICK n \in {1, 2}, m \in {1, 2} :
            /\ n # m /\ ~Busy(c, n)
            /\ fetcher[c].results = IF Busy(c, m) THEN <<Told(c, n)>> ELSE <<Told(c, n), Told(c, m)>>
      BY <3>1, <3>2 DEF Racing
    <3>4. Head(fetcher[c].results) = Told(c, n) /\ Tail(fetcher[c].results) = IF Busy(c, m) THEN <<>> ELSE <<Told(c, m)>>
      BY <3>3, ChannelFacts, SMTT(30)
    <3>5. CASE Head(fetcher[c].results) = "ok"
      <4>1. ReturnWith(c, "ok")
        BY <2>4, <3>5 DEF FirstOfTwo
      <4>. QED  BY <1>0, <3>1, <4>1, ReturnAsked
    <3>6. CASE Head(fetcher[c].results) # "ok"
      <4>1. PICK f \in Callers : /\ fetcher' = [fetcher EXCEPT ![c] = f]
                                 /\ f.step = "second" /\ f.fired = fetcher[c].fired /\ f.results = Tail(fetcher[c].results)
        BY <1>0, <2>4, <3>1, <3>6, CallerParts DEF FirstOfTwo
      <4>2. fetcher'[c].step = "second" /\ fetcher'[c].fired = 2 /\ fetcher'[c].results = Tail(fetcher[c].results)
        BY <1>0, <3>2, <4>1, CallerSet
      <4>3. Told(c, n) = "err"
        <5>1. Told(c, n) \in {"ok", "err"}
          BY VerdictFacts DEF Told
        <5>. QED  BY <3>4, <3>6, <5>1
      <4>4. \A k \in {1, 2} : (Busy(c, k)' <=> Busy(c, k)) /\ Told(c, k)' = Told(c, k)
        BY <3>1 DEF Busy, Told, Slot
      <4>5. Awaits(c, m)'
        BY <3>4, <4>2, <4>4 DEF Awaits
      <4>6. \E p, q \in {1, 2} : p # q /\ ~Busy(c, p)' /\ Told(c, p)' = "err" /\ Awaits(c, q)'
        BY <3>3, <4>3, <4>4, <4>5
      <4>. QED  BY <4>2, <4>6 DEF Asked
    <3>. QED  BY <3>5, <3>6
  <2>5. CASE SecondOfTwo(c)
    <3>1. fetcher[c].step = "second" /\ fetcher[c].results # <<>> /\ UNCHANGED attempt
          /\ ReturnWith(c, Head(fetcher[c].results))
      BY <2>5 DEF SecondOfTwo
    <3>2. PICK n \in {1, 2}, m \in {1, 2} : n # m /\ ~Busy(c, n) /\ Told(c, n) = "err" /\ Awaits(c, m)
      BY <1>1, <3>1 DEF Asked
    <3>3. ~Busy(c, m) /\ fetcher[c].results = <<Told(c, m)>>
      BY <3>1, <3>2 DEF Awaits
    <3>4. Head(fetcher[c].results) = Told(c, m)
      BY <3>3, ChannelFacts
    <3>5. Told(c, m) \in {"ok", "err"}
      BY VerdictFacts DEF Told
    <3>6. Told(c, m) = "err" => \A k \in {1, 2} : ~Busy(c, k) /\ Told(c, k) = "err"
      BY <3>2, <3>3
    <3>. QED  BY <1>0, <3>1, <3>4, <3>5, <3>6, ReturnAsked
  <2>. QED  BY <2>1, <2>2, <2>3, <2>4, <2>5 DEF Caller
<1>. QED  BY <1>2, <1>3 DEF HedgeInv

LEMMA HedgeKept == OriginTypeOK /\ HedgeInv /\ [OriginNext]_originVars => HedgeInv'
<1>. SUFFICES ASSUME OriginTypeOK, HedgeInv, [OriginNext]_originVars PROVE HedgeInv'
  OBVIOUS
<1>1. CASE UNCHANGED <<fetcher, attempt>>
  <2>1. ASSUME NEW c \in Fetchers PROVE Asked(c)'
    <3>1. \A n \in {1, 2} : (Busy(c, n)' <=> Busy(c, n)) /\ Told(c, n)' = Told(c, n)
      BY <1>1 DEF Busy, Told, Slot
    <3>2. Asked(c)
      BY DEF HedgeInv
    <3>. QED  BY <1>1, <3>1, <3>2, AskedSame
  <2>. QED  BY <2>1 DEF HedgeInv
<1>2. Prober \/ Reaper \/ OriginTick \/ MoodTurns \/ SetKnob \/ UNCHANGED originVars => UNCHANGED <<fetcher, attempt>>
  BY DEF Prober, ProbeAll, ProbeOne, RecordProbeError, ActiveEject, RecordProbeSuccess, ActiveRestore, ProbeUnchanged,
         Reaper, ReapStart, ReapLook, ReapZero, ReapRestore, ReapClear, ReapUnchanged,
         OriginTick, MoodTurns, SetKnob, originVars
<1>. QED  BY <1>1, <1>2, CallerAsked, AttemptAsked DEF OriginNext

\* A caller hears of an error only when none of its attempts is under way and
\* none had a response (doHedgedFetch and doHedgedResponse wait for the second
\* result after a first error).
THEOREM HedgeSaves == OriginSpec => []HedgeSavesCaller
<1>1. OriginTypeOK /\ HedgeInv => HedgeSavesCaller
  <2>. SUFFICES ASSUME OriginTypeOK, HedgeInv, NEW c \in Fetchers, fetcher[c].step = "idle", fetcher[c].got = "err",
                       NEW n \in 1..fetcher[c].fired
                PROVE  attempt[<<c, n>>].step = "idle" /\ attempt[<<c, n>>].out \notin {"ok", "5xx"}
    BY DEF HedgeSavesCaller
  <2>1. fetcher[c].fired \in 0..2
    BY TypeParts DEF CallsOK, Callers
  <2>2. n \in {1, 2} /\ n <= fetcher[c].fired
    BY <2>1, SMTT(30)
  <2>3. ~Busy(c, n) /\ Told(c, n) = "err"
    BY <2>2 DEF HedgeInv, Asked
  <2>. QED  BY <2>3, VerdictFacts DEF Busy, Told, Slot
<1>. QED  BY <1>1, OriginTypeStart, OriginTypeKept, AskedStart, HedgeKept, PTL DEF OriginSpec

-----------------------------------------------------------------------------
(* Ejections.                                                              *)

ProbesOnly == \A t \in Targets : probe[t] # "idle" => oplan.prober

\* The attempts about to write ejectedAt.
LEMMA MarksMove ==
  ASSUME OriginTypeOK, NEW a \in Attempts, Attempt(a)
  PROVE  /\ \A b \in Attempts \ {a} : attempt'[b] = attempt[b]
         /\ attempt'[a].step = "mark" =>
              PassiveEject(a) /\ healthy[attempt[a].t] /\ attempt'[a].t = attempt[a].t
         /\ attempt[a].step = "mark" => MarkEjected(a)
<1>0. HealthOK /\ CallsOK /\ RestOK
  BY TypeParts
<1>1. attempt[a].step = "mark" => MarkEjected(a)
  BY DEF Attempt, PickStart, PickScan, Send, Land, Judge, Gate, CountError, PassiveEject, NoteReset, NoteStamp,
         DeliverResult
<1>2. CASE DeliverResult(a)
  <2>. DEFINE r == [NoAttempt EXCEPT !.out = attempt[a].out]
  <2>1. r \in Tries /\ r.step = "idle" /\ Become(a, r)
    BY <1>0, <1>2, DeliverParts
  <2>. HIDE DEF r
  <2>2. attempt'[a] = r /\ \A b \in Attempts \ {a} : attempt'[b] = attempt[b]
    BY <1>0, <2>1, Becomes
  <2>. QED  BY <1>1, <2>1, <2>2
<1>3. CASE ~DeliverResult(a)
  <2>1. PICK r \in Tries : Goes(a, r)
    BY <1>0, <1>3, AttemptGoes
  <2>2. attempt'[a] = r /\ \A b \in Attempts \ {a} : attempt'[b] = attempt[b]
    BY <1>0, <2>1, Becomes DEF Goes
  <2>. QED  BY <1>1, <2>1, <2>2 DEF Goes
<1>. QED  BY <1>2, <1>3

\* What an attempt writes of an ejection.
LEMMA AttemptWrites ==
  ASSUME OriginTypeOK, NEW a \in Attempts, Attempt(a)
  PROVE  /\ UNCHANGED <<oplan, probe, reap>>
         /\ \/ UNCHANGED <<healthy, outSince, outFor, erased>> /\ attempt[a].step # "mark" /\ attempt'[a].step # "mark"
            \/ /\ PassiveEject(a) /\ attempt[a].step # "mark" /\ UNCHANGED <<outSince, erased>>
            \/ MarkEjected(a) /\ UNCHANGED <<healthy, outFor>> /\ attempt'[a].step # "mark"
<1>1. UNCHANGED <<oplan, probe, reap>>
  BY DEF Attempt, PickStart, PickScan, Send, Land, Judge, Gate, CountError, PassiveEject, MarkEjected,
         NoteReset, NoteStamp, DeliverResult, AttemptUnchanged
<1>2. CASE PassiveEject(a)
  BY <1>1, <1>2 DEF PassiveEject
<1>3. CASE MarkEjected(a)
  <2>1. attempt[a].step = "mark" /\ UNCHANGED <<healthy, outFor>>
    BY <1>3 DEF MarkEjected
  <2>2. ~PassiveEject(a)
    BY <2>1 DEF PassiveEject
  <2>. QED  BY <1>1, <1>3, <2>1, <2>2, MarksMove
<1>4. CASE ~PassiveEject(a) /\ ~MarkEjected(a)
  <2>1. UNCHANGED <<healthy, outSince, outFor, erased>>
    BY <1>4 DEF Attempt, PickStart, PickScan, Send, Land, Judge, Gate, CountError, NoteReset, NoteStamp,
                DeliverResult, healthVars
  <2>. QED  BY <1>1, <1>4, <2>1, MarksMove
<1>. QED  BY <1>2, <1>3, <1>4

\* The swap of passiveEjectAt.
LEMMA EjectWrites ==
  ASSUME OriginTypeOK, NEW a \in Attempts, PassiveEject(a)
  PROVE  LET t == attempt[a].t
         IN /\ t \in Targets /\ ~healthy'[t]
            /\ \A u \in Targets \ {t} : healthy'[u] = healthy[u] /\ outFor'[u] = outFor[u]
            /\ healthy[t] => attempt'[a].step = "mark" /\ attempt'[a].t = t /\ outFor'[t] = 0
            /\ ~healthy[t] => attempt'[a].step # "mark" /\ outFor'[t] = outFor[t]
<1>. DEFINE t == attempt[a].t
<1>0. HealthOK /\ CallsOK /\ RestOK
  BY TypeParts
<1>1. /\ attempt[a].step = "eject" /\ healthy' = [healthy EXCEPT ![t] = FALSE]
      /\ outFor' = [outFor EXCEPT ![t] = IF healthy[t] THEN 0 ELSE outFor[t]]
      /\ Goto(a, IF healthy[t] THEN "mark" ELSE "deliver")
  BY DEF PassiveEject
<1>2. t \in Targets /\ attempt[a] \in Tries /\ attempt \in [Attempts -> Tries]
  BY <1>0, <1>1 DEF CallsOK
<1>3. /\ ~healthy'[t] /\ \A u \in Targets \ {t} : healthy'[u] = healthy[u] /\ outFor'[u] = outFor[u]
      /\ outFor'[t] = IF healthy[t] THEN 0 ELSE outFor[t]
  BY <1>0, <1>1, <1>2 DEF HealthOK
<1>4. ASSUME NEW s \in AttemptSteps, Goto(a, s) PROVE attempt'[a].step = s /\ attempt'[a].t = t
  <2>. DEFINE r == [attempt[a] EXCEPT !.step = s]
  <2>1. r.step = s /\ r.t = t
    BY <1>2, StepSet
  <2>2. attempt' = [attempt EXCEPT ![a] = r]
    BY <1>4 DEF Goto, Become
  <2>. HIDE DEF r
  <2>3. attempt'[a] = r
    BY <1>2, <2>2
  <2>. QED  BY <2>1, <2>3
<1>5. "mark" \in AttemptSteps /\ "deliver" \in AttemptSteps
  BY DEF AttemptSteps
<1>. QED  BY <1>1, <1>2, <1>3, <1>4, <1>5

\* What MarkEjected writes.
LEMMA MarkWrites ==
  ASSUME OriginTypeOK, NEW a \in Attempts, MarkEjected(a)
  PROVE  LET t == attempt[a].t
         IN /\ t \in Targets /\ attempt[a].step = "mark" /\ outSince'[t] = 0 /\ outSince'[t] # Unset
            /\ erased' = erased \ {t}
            /\ \A u \in Targets \ {t} : outSince'[u] = outSince[u]
<1>. DEFINE t == attempt[a].t
<1>0. HealthOK /\ CallsOK /\ RestOK
  BY TypeParts
<1>1. /\ attempt[a].step = "mark" /\ outSince' = [outSince EXCEPT ![t] = 0] /\ erased' = erased \ {t}
  BY DEF MarkEjected
<1>2. t \in Targets
  BY <1>0, <1>1 DEF CallsOK
<1>3. 0 # Unset
  BY SMTT(30) DEF Unset
<1>. QED  BY <1>0, <1>1, <1>2, <1>3 DEF HealthOK

LEMMA ProbesKept == OriginTypeOK /\ ProbesOnly /\ [OriginNext]_originVars => ProbesOnly' /\ UNCHANGED oplan
<1>. SUFFICES ASSUME OriginTypeOK, ProbesOnly, [OriginNext]_originVars PROVE ProbesOnly' /\ UNCHANGED oplan
  OBVIOUS
<1>1. CASE Prober
  <2>1. UNCHANGED oplan
    BY <1>1 DEF Prober, ProbeAll, ProbeOne, RecordProbeError, ActiveEject, RecordProbeSuccess, ActiveRestore,
                ProbeUnchanged
  <2>2. oplan.prober
    BY <1>1 DEF Prober, ProbeAll, ProbeOne, RecordProbeError, ActiveEject, RecordProbeSuccess, ActiveRestore,
                ProbesOnly
  <2>. QED  BY <2>1, <2>2 DEF ProbesOnly
<1>2. CASE UNCHANGED <<oplan, probe>>
  BY <1>2 DEF ProbesOnly
<1>3. ASSUME NEW c \in Fetchers, Caller(c) PROVE UNCHANGED <<oplan, probe>>
  BY <1>3 DEF Caller, Dispatch, PrimaryReturns, HedgeTimer, FirstOfTwo, SecondOfTwo, CallerUnchanged
<1>4. Reaper \/ OriginTick \/ MoodTurns \/ SetKnob \/ UNCHANGED originVars => UNCHANGED <<oplan, probe>>
  BY DEF Reaper, ReapStart, ReapLook, ReapZero, ReapRestore, ReapClear, ReapUnchanged, OriginTick, MoodTurns,
         SetKnob, originVars
<1>. QED  BY <1>1, <1>2, <1>3, <1>4, AttemptWrites DEF OriginNext

BackInv == ProbesOnly /\ WayBack

LEMMA BackStart == OriginInit => BackInv
BY DEF OriginInit, BackInv, ProbesOnly, WayBack

\* An ejection the caller, the clock and the knobs leave alone.
LEMMA BackSame ==
  ASSUME WayBack, UNCHANGED <<oplan, healthy, erased>>,
         \A t \in Targets : outSince[t] # Unset => outSince'[t] # Unset,
         \A a \in Attempts : attempt[a].step = "mark" => attempt'[a] = attempt[a]
  PROVE  WayBack'
<1>. SUFFICES ASSUME NEW t \in Targets, ~healthy'[t], ~oplan'.prober, ~(outSince'[t] # Unset), t \notin erased'
              PROVE  \E a \in Attempts : attempt'[a].step = "mark" /\ attempt'[a].t = t
  BY DEF WayBack
<1>1. PICK a \in Attempts : attempt[a].step = "mark" /\ attempt[a].t = t
  BY DEF WayBack
<1>. QED  BY <1>1

\* Calls and knobs write nothing of an ejection, and disturb no attempt that is
\* about to.
LEMMA OthersWrite ==
  ASSUME OriginTypeOK, HedgeInv, (\E c \in Fetchers : Caller(c)) \/ MoodTurns \/ SetKnob \/ UNCHANGED originVars
  PROVE  /\ UNCHANGED <<oplan, healthy, outSince, outFor, erased, reap>>
         /\ \A a \in Attempts : attempt[a].step = "mark" => attempt'[a] = attempt[a]
         /\ \A a \in Attempts : attempt'[a].step = "mark" => attempt'[a] = attempt[a]
<1>0. CallsOK
  BY TypeParts
<1>1. ASSUME NEW c \in Fetchers, Caller(c)
      PROVE  /\ UNCHANGED <<oplan, healthy, outSince, outFor, erased, reap>>
             /\ \A a \in Attempts : attempt[a].step = "mark" => attempt'[a] = attempt[a]
             /\ \A a \in Attempts : attempt'[a].step = "mark" => attempt'[a] = attempt[a]
  <2>1. UNCHANGED <<oplan, healthy, outSince, outFor, erased, reap>>
    BY <1>1 DEF Caller, Dispatch, PrimaryReturns, HedgeTimer, FirstOfTwo, SecondOfTwo, CallerUnchanged, healthVars
  <2>2. CASE UNCHANGED attempt
    BY <2>1, <2>2
  <2>3. ASSUME NEW n \in {1, 2}, attempt[Slot(c, n)].step # "mark", Fire(Slot(c, n))
        PROVE  /\ \A a \in Attempts : attempt[a].step = "mark" => attempt'[a] = attempt[a]
               /\ \A a \in Attempts : attempt'[a].step = "mark" => attempt'[a] = attempt[a]
    <3>. DEFINE r == [NoAttempt EXCEPT !.step = "pick"]
    <3>1. r \in Tries /\ r.step = "pick" /\ Become(Slot(c, n), r) /\ Slot(c, n) \in Attempts
      BY <2>3, FireFits, SlotFacts DEF Fire
    <3>. HIDE DEF r
    <3>2. attempt'[Slot(c, n)] = r /\ \A b \in Attempts \ {Slot(c, n)} : attempt'[b] = attempt[b]
      BY <1>0, <3>1, Becomes
    <3>. QED  BY <2>3, <3>1, <3>2
  <2>4. CASE Dispatch(c)
    <3>1. attempt[Slot(c, 1)].step # "mark" /\ Fire(Slot(c, 1))
      BY <2>4 DEF Dispatch, Slot
    <3>. QED  BY <2>1, <2>3, <3>1
  <2>5. CASE HedgeTimer(c)
    <3>1. Fire(Slot(c, 2)) /\ fetcher[c].step = "first"
      BY <2>5 DEF HedgeTimer, Slot
    <3>2. attempt[Slot(c, 2)].step # "mark"
      BY <3>1 DEF HedgeInv, Asked, Busy
    <3>. QED  BY <2>1, <2>3, <3>1, <3>2
  <2>. QED  BY <2>2, <2>4, <2>5, <1>1 DEF Caller, PrimaryReturns, FirstOfTwo, SecondOfTwo
<1>2. CASE MoodTurns \/ SetKnob \/ UNCHANGED originVars
  BY <1>2 DEF MoodTurns, SetKnob, originVars, healthVars
<1>. QED  BY <1>1, <1>2

LEMMA BackKept == OriginTypeOK /\ HedgeInv /\ BackInv /\ [OriginNext]_originVars => BackInv'
<1>. SUFFICES ASSUME OriginTypeOK, HedgeInv, BackInv, [OriginNext]_originVars PROVE BackInv'
  OBVIOUS
<1>0. HealthOK /\ CallsOK /\ RestOK /\ WayBack
  BY TypeParts DEF BackInv
<1>1. ProbesOnly' /\ UNCHANGED oplan
  BY ProbesKept DEF BackInv
<1>2. WayBack'
  <2>1. CASE (\E c \in Fetchers : Caller(c)) \/ MoodTurns \/ SetKnob \/ UNCHANGED originVars
    <3>1. /\ UNCHANGED <<oplan, healthy, outSince, erased>>
          /\ \A a \in Attempts : attempt[a].step = "mark" => attempt'[a] = attempt[a]
      BY <2>1, OthersWrite
    <3>. QED  BY <1>0, <3>1, BackSame
  <2>2. CASE OriginTick
    <3>1. UNCHANGED <<oplan, healthy, erased, attempt>> /\ outSince' = Older(outSince, LongestEjectFor)
      BY <2>2 DEF OriginTick
    <3>2. \A t \in Targets : outSince[t] # Unset => outSince'[t] # Unset
      BY <1>0, <3>1, Constants, OlderInstant DEF HealthOK
    <3>. QED  BY <1>0, <3>1, <3>2, BackSame
  <2>3. CASE Prober
    <3>1. oplan.prober
      BY <2>3 DEF Prober, ProbeAll, ProbeOne, RecordProbeError, ActiveEject, RecordProbeSuccess, ActiveRestore,
                  ProbesOnly, BackInv
    <3>. QED  BY <1>1, <3>1 DEF WayBack
  <2>4. CASE Reaper
    <3>1. UNCHANGED <<oplan, attempt>> /\ reap.t \in Targets
      BY <1>0, <2>4 DEF Reaper, ReapStart, ReapLook, ReapZero, ReapRestore, ReapClear, ReapUnchanged, RestOK, Reapers
    <3>2. CASE ReapStart \/ ReapLook \/ ReapZero
      BY <1>0, <3>1, <3>2, BackSame DEF ReapStart, ReapLook, ReapZero
    <3>3. CASE ReapRestore
      <4>1. UNCHANGED <<outSince, erased>> /\ \A t \in Targets : ~healthy'[t] => ~healthy[t]
        BY <1>0, <3>1, <3>3 DEF ReapRestore, HealthOK
      <4>. QED  BY <1>0, <3>1, <4>1 DEF WayBack
    <3>4. CASE ReapClear
      <4>1. /\ UNCHANGED healthy /\ \A t \in Targets \ {reap.t} : outSince'[t] = outSince[t]
            /\ ~healthy[reap.t] => reap.t \in erased'
            /\ \A t \in Targets \ {reap.t} : t \in erased => t \in erased'
        BY <1>0, <3>1, <3>4 DEF ReapClear, HealthOK
      <4>. QED  BY <1>0, <3>1, <4>1 DEF WayBack
    <3>. QED  BY <2>4, <3>2, <3>3, <3>4 DEF Reaper
  <2>5. ASSUME NEW a \in Attempts, Attempt(a) PROVE WayBack'
    <3>. DEFINE t == attempt[a].t
    <3>1. \A b \in Attempts \ {a} : attempt'[b] = attempt[b]
      BY <2>5, MarksMove
    <3>2. CASE UNCHANGED <<healthy, outSince, outFor, erased>> /\ attempt[a].step # "mark"
      BY <1>0, <1>1, <3>1, <3>2, BackSame
    <3>3. CASE PassiveEject(a) /\ attempt[a].step # "mark" /\ UNCHANGED <<outSince, erased>>
      <4>1. /\ t \in Targets
            /\ \A u \in Targets \ {t} : healthy'[u] = healthy[u]
            /\ healthy[t] => attempt'[a].step = "mark" /\ attempt'[a].t = t
        BY <3>3, EjectWrites
      <4>. HIDE DEF t
      <4>2. ASSUME NEW u \in Targets, ~healthy[u]
            PROVE  \/ oplan'.prober \/ outSince'[u] # Unset \/ u \in erased'
                   \/ \E b \in Attempts : attempt'[b].step = "mark" /\ attempt'[b].t = u
        <5>1. ASSUME NEW b \in Attempts, attempt[b].step = "mark", attempt[b].t = u
              PROVE  attempt'[b].step = "mark" /\ attempt'[b].t = u
          BY <3>1, <3>3, <5>1
        <5>. QED  BY <1>0, <1>1, <3>3, <4>2, <5>1 DEF WayBack
      <4>. QED  BY <4>1, <4>2 DEF WayBack
    <3>4. CASE MarkEjected(a) /\ UNCHANGED <<healthy, outFor>>
      <4>1. /\ t \in Targets /\ outSince'[t] # Unset /\ erased' = erased \ {t}
            /\ \A u \in Targets \ {t} : outSince'[u] = outSince[u]
        BY <3>4, MarkWrites
      <4>2. ASSUME NEW u \in Targets \ {t}, ~healthy[u]
            PROVE  \/ oplan'.prober \/ outSince'[u] # Unset \/ u \in erased'
                   \/ \E b \in Attempts : attempt'[b].step = "mark" /\ attempt'[b].t = u
        <5>1. ASSUME NEW b \in Attempts, attempt[b].step = "mark", attempt[b].t = u
              PROVE  attempt'[b].step = "mark" /\ attempt'[b].t = u
          BY <3>1, <4>2, <5>1
        <5>. QED  BY <1>0, <1>1, <4>1, <4>2, <5>1 DEF WayBack
      <4>. QED  BY <3>4, <4>1, <4>2 DEF WayBack
    <3>. QED  BY <2>5, <3>2, <3>3, <3>4, AttemptWrites
  <2>. QED  BY <2>1, <2>2, <2>3, <2>4, <2>5 DEF OriginNext
<1>. QED  BY <1>1, <1>2 DEF BackInv

\* While a target is out there is a way back for it, but where the reaper has
\* erased the instant of its ejection (passiveEjectAt, reapEjected).
THEOREM WayBackHolds == OriginSpec => []WayBack
<1>1. BackInv => WayBack
  BY DEF BackInv
<1>. QED  BY <1>1, OriginTypeStart, OriginTypeKept, AskedStart, HedgeKept, BackStart, BackKept, PTL DEF OriginSpec
-----------------------------------------------------------------------------
(* eject_for is served.                                                    *)

\* The reaper has given t back and is about to forget its ejection.
Clearing(t) == reap.step = "clear" /\ reap.t = t
Marking(a) == attempt[a].step = "mark"

\* Attempt a is about to write the instant of an ejection that has none.
Unwritten(a) == ~healthy[attempt[a].t] /\ (outSince[attempt[a].t] = Unset \/ Clearing(attempt[a].t))

\* A target in service has no instant; an attempt about to write one is alone
\* with a target that has none.
InstantsMatch ==
  /\ \A t \in Targets : healthy[t] => outSince[t] = Unset \/ Clearing(t)
  /\ \A a \in Attempts : Marking(a) => Unwritten(a)
  /\ \A a, b \in Attempts : Marking(a) /\ Marking(b) /\ attempt[a].t = attempt[b].t => a = b

\* An instant that is kept is not older than the ejection.
AgesMatch ==
  \A t \in Targets : ~healthy[t] /\ outSince[t] # Unset /\ ~Clearing(t) => outFor[t] >= outSince[t]

\* What the reaper saw when it looked is still so.
StillDue ==
  reap.step \in {"zero", "restore"} =>
    ~healthy[reap.t] /\ outSince[reap.t] # Unset /\ outSince[reap.t] >= reap.window

ServeInv == ~oplan.prober => InstantsMatch /\ AgesMatch /\ StillDue

LEMMA ServeStart == OriginInit => ServeInv
<1>. SUFFICES ASSUME OriginInit PROVE InstantsMatch /\ AgesMatch /\ StillDue
  BY DEF ServeInv
<1>1. \A a \in Attempts : attempt[a].step = "idle"
  BY NobodyFits DEF OriginInit
<1>2. reap.step = "idle"
  BY NobodyFits DEF OriginInit
<1>. QED  BY <1>1, <1>2 DEF OriginInit, InstantsMatch, AgesMatch, StillDue, Marking

\* A pass that is due has not begun.
DueIdle == reap.due => reap.step = "idle"

LEMMA DueStart == OriginInit => DueIdle
BY SMTT(30) DEF OriginInit, DueIdle, ReaperIdle

LEMMA DueKept == OriginTypeOK /\ DueIdle /\ [OriginNext]_originVars => DueIdle'
<1>. SUFFICES ASSUME OriginTypeOK, DueIdle, [OriginNext]_originVars PROVE DueIdle'
  OBVIOUS
<1>0. RestOK
  BY TypeParts
<1>1. CASE UNCHANGED reap
  BY <1>1 DEF DueIdle
<1>2. CASE OriginTick
  BY <1>0, <1>2, ReapGoes DEF OriginTick, DueIdle
<1>3. CASE ReapStart
  BY <1>0, <1>3, ReapGoes DEF ReapStart, DueIdle, ReaperIdle
<1>4. CASE ReapLook \/ ReapZero \/ ReapRestore \/ ReapClear
  <2>. DEFINE At(s) == [reap EXCEPT !.step = s]
  <2>1. ~reap.due
    BY <1>4 DEF ReapLook, ReapZero, ReapRestore, ReapClear, DueIdle
  <2>2. ~NextTarget.due /\ ~At("zero").due /\ ~At("restore").due /\ ~At("clear").due
    BY <1>0, <2>1, ReapGoes
  <2>3. reap' \in {NextTarget, At("zero"), At("restore"), At("clear")}
    BY <1>4 DEF ReapLook, ReapZero, ReapRestore, ReapClear
  <2>. HIDE DEF At
  <2>. QED  BY <2>2, <2>3 DEF DueIdle
<1>5. ASSUME NEW c \in Fetchers, Caller(c) PROVE UNCHANGED reap
  BY <1>5 DEF Caller, Dispatch, PrimaryReturns, HedgeTimer, FirstOfTwo, SecondOfTwo, CallerUnchanged
<1>6. Prober \/ MoodTurns \/ SetKnob \/ UNCHANGED originVars => UNCHANGED reap
  BY DEF Prober, ProbeAll, ProbeOne, RecordProbeError, ActiveEject, RecordProbeSuccess, ActiveRestore,
         ProbeUnchanged, MoodTurns, SetKnob, originVars
<1>. QED  BY <1>1, <1>2, <1>3, <1>4, <1>5, <1>6, AttemptWrites DEF OriginNext, Reaper

\* Nothing of an ejection changes, and no attempt comes to be about to write.
LEMMA ServeSame ==
  ASSUME InstantsMatch /\ AgesMatch /\ StillDue, UNCHANGED <<healthy, outSince, outFor, reap>>,
         \A a \in Attempts : attempt'[a].step = "mark" => attempt'[a] = attempt[a]
  PROVE  InstantsMatch' /\ AgesMatch' /\ StillDue'
<1>1. \A t \in Targets : Clearing(t)' <=> Clearing(t)
  BY DEF Clearing
<1>2. \A a \in Attempts : Marking(a)' => Marking(a) /\ attempt'[a].t = attempt[a].t
  BY DEF Marking
<1>3. InstantsMatch'
  <2>1. \A t \in Targets : healthy'[t] => outSince'[t] = Unset \/ Clearing(t)'
    BY <1>1 DEF InstantsMatch, Unwritten
  <2>2. ASSUME NEW a \in Attempts, Marking(a)'
        PROVE  Unwritten(a)'
    BY <1>2, <2>2 DEF InstantsMatch, Unwritten, Clearing
  <2>3. \A a, b \in Attempts : Marking(a)' /\ Marking(b)' /\ attempt'[a].t = attempt'[b].t => a = b
    BY <1>2 DEF InstantsMatch, Unwritten
  <2>. QED  BY <2>1, <2>2, <2>3 DEF InstantsMatch, Unwritten
<1>4. AgesMatch'
  BY <1>1 DEF AgesMatch
<1>5. StillDue'
  BY DEF StillDue
<1>. QED  BY <1>3, <1>4, <1>5

LEMMA TickServed ==
  ASSUME HealthOK, CallsOK, RestOK, InstantsMatch /\ AgesMatch /\ StillDue, OriginTick
  PROVE  InstantsMatch' /\ AgesMatch' /\ StillDue'
<1>1. /\ reap.step = "idle" /\ UNCHANGED <<healthy, attempt>>
      /\ outSince' = Older(outSince, LongestEjectFor) /\ outFor' = Older(outFor, LongestEjectFor)
  BY DEF OriginTick
<1>2. reap'.step = "idle"
  BY <1>1, ReapGoes DEF OriginTick
<1>3. \A t \in Targets : outSince'[t] = Unset <=> outSince[t] = Unset
  BY <1>1, Constants, OlderInstant DEF HealthOK
<1>4. InstantsMatch'
  <2>1. \A t \in Targets : healthy'[t] => outSince'[t] = Unset
    BY <1>1, <1>3 DEF InstantsMatch, Unwritten, Clearing
  <2>2. ASSUME NEW a \in Attempts, Marking(a)'
        PROVE  Unwritten(a)'
    <3>1. Marking(a) /\ attempt'[a].t = attempt[a].t
      BY <1>1, <2>2 DEF Marking
    <3>3. attempt[a].t \in Targets
      BY <3>1 DEF CallsOK, Marking
    <3>2. ~healthy[attempt[a].t] /\ outSince[attempt[a].t] = Unset
      BY <1>1, <3>1 DEF InstantsMatch, Unwritten, Clearing
    <3>. QED  BY <1>1, <1>3, <3>1, <3>2, <3>3 DEF Unwritten
  <2>3. \A a, b \in Attempts : Marking(a)' /\ Marking(b)' /\ attempt'[a].t = attempt'[b].t => a = b
    BY <1>1 DEF InstantsMatch, Unwritten, Marking
  <2>. QED  BY <2>1, <2>2, <2>3 DEF InstantsMatch, Unwritten
<1>5. AgesMatch'
  <2>. SUFFICES ASSUME NEW t \in Targets, ~healthy'[t], outSince'[t] # Unset PROVE outFor'[t] >= outSince'[t]
    BY DEF AgesMatch
  <2>1. outFor[t] >= outSince[t] /\ outSince[t] # Unset
    BY <1>1, <1>3 DEF AgesMatch, Clearing
  <2>2. outFor[t] \in 0..LongestEjectFor /\ outSince[t] \in -1..LongestEjectFor
    BY DEF HealthOK
  <2>3. /\ outSince'[t] = IF outSince[t] = Unset THEN Unset ELSE AtMost(outSince[t] + 1, LongestEjectFor)
        /\ outFor'[t] = IF outFor[t] = Unset THEN Unset ELSE AtMost(outFor[t] + 1, LongestEjectFor)
    BY <1>1 DEF Older
  <2>. QED  BY <2>1, <2>2, <2>3, Constants, SMTT(30) DEF AtMost, Unset
<1>6. StillDue'
  BY <1>2 DEF StillDue
<1>. QED  BY <1>4, <1>5, <1>6

LEMMA ReaperServed ==
  ASSUME OriginTypeOK, DueIdle, InstantsMatch /\ AgesMatch /\ StillDue, Reaper
  PROVE  InstantsMatch' /\ AgesMatch' /\ StillDue'
<1>. DEFINE t == reap.t
<1>0. HealthOK /\ CallsOK /\ RestOK
  BY TypeParts
<1>1. UNCHANGED <<attempt, outFor>> /\ t \in Targets
  BY <1>0 DEF Reaper, ReapStart, ReapLook, ReapZero, ReapRestore, ReapClear, ReapUnchanged, RestOK, Reapers
<1>2. ASSUME reap.step # "clear", reap'.step # "clear", UNCHANGED <<healthy, outSince>>
      PROVE  InstantsMatch' /\ AgesMatch'
  <2>1. \A u \in Targets : ~Clearing(u) /\ ~Clearing(u)'
    BY <1>2 DEF Clearing
  <2>2. \A a \in Attempts : (Marking(a)' <=> Marking(a)) /\ attempt'[a].t = attempt[a].t
    BY <1>1 DEF Marking
  <2>3. \A a \in Attempts : Unwritten(a) => Unwritten(a)'
    BY <1>1, <1>2 DEF Unwritten, Clearing
  <2>4. InstantsMatch'
    BY <1>2, <2>1, <2>2, <2>3 DEF InstantsMatch
  <2>5. AgesMatch'
    BY <1>1, <1>2, <2>1 DEF AgesMatch
  <2>. QED  BY <2>4, <2>5
<1>3. CASE ReapStart
  <2>2. reap'.step \in {"idle", "look"} /\ UNCHANGED <<healthy, outSince>>
    BY <1>0, <1>3, ReapGoes, NobodyFits DEF ReapStart
  <2>3. reap.step # "clear"
    BY <1>3 DEF ReapStart, DueIdle
  <2>. QED  BY <1>2, <2>2, <2>3 DEF StillDue
<1>4. CASE ReapLook
  <2>1. reap.step = "look" /\ UNCHANGED <<healthy, outSince>>
    BY <1>4 DEF ReapLook
  <2>2. CASE ReapDueAt(t)
    <3>1. reap'.step = "zero" /\ reap'.t = t /\ reap'.window = reap.window
      BY <1>0, <1>4, <2>2, ReapGoes DEF ReapLook
    <3>2. ~healthy'[reap'.t] /\ outSince'[reap'.t] # Unset /\ outSince'[reap'.t] >= reap'.window
      BY <2>1, <2>2, <3>1 DEF ReapDueAt
    <3>. QED  BY <1>2, <2>1, <3>1, <3>2 DEF StillDue
  <2>3. CASE ~ReapDueAt(t)
    <3>1. reap'.step \in {"idle", "look"}
      BY <1>0, <1>4, <2>3, ReapGoes DEF ReapLook
    <3>. QED  BY <1>2, <2>1, <3>1 DEF StillDue
  <2>. QED  BY <2>2, <2>3
<1>5. CASE ReapZero
  <2>1. reap.step = "zero" /\ UNCHANGED <<healthy, outSince>>
    BY <1>5 DEF ReapZero
  <2>2. reap'.step = "restore" /\ reap'.t = t /\ reap'.window = reap.window
    BY <1>0, <1>5, ReapGoes DEF ReapZero
  <2>3. StillDue'
    BY <2>1, <2>2 DEF StillDue
  <2>. QED  BY <1>2, <2>1, <2>2, <2>3
<1>6. CASE ReapRestore
  <2>1. reap.step = "restore" /\ UNCHANGED outSince
    BY <1>6 DEF ReapRestore
  <2>2. ~healthy[t] /\ outSince[t] # Unset
    BY <2>1 DEF StillDue
  <2>3. reap'.step = "clear" /\ reap'.t = t
    BY <1>0, <1>6, <2>2, ReapGoes DEF ReapRestore
  <2>4. healthy'[t] /\ \A u \in Targets \ {t} : healthy'[u] = healthy[u]
    BY <1>0, <1>1, <1>6 DEF ReapRestore, HealthOK
  <2>5. \A a \in Attempts : Marking(a) => attempt[a].t # t /\ attempt[a].t \in Targets
    BY <1>0, <2>1, <2>2 DEF InstantsMatch, Unwritten, Clearing, CallsOK, Marking
  <2>. HIDE DEF t
  <2>6. InstantsMatch'
    <3>1. \A u \in Targets : healthy'[u] => outSince'[u] = Unset \/ Clearing(u)'
      BY <2>1, <2>3, <2>4 DEF InstantsMatch, Unwritten, Clearing
    <3>2. ASSUME NEW a \in Attempts, Marking(a)'
          PROVE  Unwritten(a)'
      <4>1. Marking(a) /\ attempt'[a].t = attempt[a].t /\ attempt[a].t # t /\ attempt[a].t \in Targets
        BY <1>1, <2>5, <3>2 DEF Marking
      <4>. QED  BY <2>1, <2>4, <4>1 DEF InstantsMatch, Unwritten, Clearing
    <3>3. \A a, b \in Attempts : Marking(a)' /\ Marking(b)' /\ attempt'[a].t = attempt'[b].t => a = b
      BY <1>1 DEF InstantsMatch, Unwritten, Marking
    <3>. QED  BY <3>1, <3>2, <3>3 DEF InstantsMatch, Unwritten
  <2>7. AgesMatch'
    BY <1>1, <2>1, <2>4 DEF AgesMatch, Clearing
  <2>8. StillDue'
    BY <2>3 DEF StillDue
  <2>. QED  BY <2>6, <2>7, <2>8
<1>7. CASE ReapClear
  <2>1. reap.step = "clear" /\ UNCHANGED healthy
    BY <1>7 DEF ReapClear
  <2>2. reap'.step \in {"idle", "look"}
    BY <1>0, <1>7, ReapGoes DEF ReapClear
  <2>3. outSince'[t] = Unset /\ \A u \in Targets \ {t} : outSince'[u] = outSince[u]
    BY <1>0, <1>1, <1>7 DEF ReapClear, HealthOK
  <2>4. \A u \in Targets \ {t} : ~Clearing(u)
    BY DEF Clearing
  <2>. HIDE DEF t
  <2>5. InstantsMatch'
    <3>1. \A u \in Targets : healthy'[u] => outSince'[u] = Unset
      BY <2>1, <2>3, <2>4 DEF InstantsMatch, Unwritten
    <3>2. ASSUME NEW a \in Attempts, Marking(a)'
          PROVE  Unwritten(a)'
      <4>1. Marking(a) /\ attempt'[a].t = attempt[a].t /\ attempt[a].t \in Targets
        BY <1>0, <1>1, <3>2 DEF Marking, CallsOK
      <4>. QED  BY <2>1, <2>3, <2>4, <4>1 DEF InstantsMatch, Unwritten
    <3>3. \A a, b \in Attempts : Marking(a)' /\ Marking(b)' /\ attempt'[a].t = attempt'[b].t => a = b
      BY <1>1 DEF InstantsMatch, Unwritten, Marking
    <3>. QED  BY <3>1, <3>2, <3>3 DEF InstantsMatch, Unwritten
  <2>6. AgesMatch'
    BY <1>1, <2>1, <2>3, <2>4 DEF AgesMatch
  <2>7. StillDue'
    BY <2>2 DEF StillDue
  <2>. QED  BY <2>5, <2>6, <2>7
<1>. QED  BY <1>3, <1>4, <1>5, <1>6, <1>7 DEF Reaper

LEMMA AttemptServed ==
  ASSUME OriginTypeOK, InstantsMatch /\ AgesMatch /\ StillDue, NEW a \in Attempts, Attempt(a)
  PROVE  InstantsMatch' /\ AgesMatch' /\ StillDue'
<1>. DEFINE t == attempt[a].t
<1>0. HealthOK /\ CallsOK /\ RestOK
  BY TypeParts
<1>1. UNCHANGED reap /\ \A b \in Attempts \ {a} : attempt'[b] = attempt[b]
  BY AttemptWrites, MarksMove
<1>2. \A u : Clearing(u)' <=> Clearing(u)
  BY <1>1 DEF Clearing
<1>3. \A b \in Attempts : Marking(b) => attempt[b].t \in Targets
  BY <1>0 DEF Marking, CallsOK
<1>4. CASE UNCHANGED <<healthy, outSince, outFor, erased>> /\ attempt[a].step # "mark" /\ attempt'[a].step # "mark"
  BY <1>1, <1>4, ServeSame
<1>5. CASE PassiveEject(a) /\ attempt[a].step # "mark" /\ UNCHANGED <<outSince, erased>>
  <2>1. /\ t \in Targets /\ ~healthy'[t]
        /\ \A u \in Targets \ {t} : healthy'[u] = healthy[u] /\ outFor'[u] = outFor[u]
        /\ healthy[t] => attempt'[a].step = "mark" /\ attempt'[a].t = t /\ outFor'[t] = 0
        /\ ~healthy[t] => attempt'[a].step # "mark" /\ outFor'[t] = outFor[t]
    BY <1>5, EjectWrites
  <2>. HIDE DEF t
  <2>2. \A b \in Attempts \ {a} : Marking(b)' => Marking(b) /\ attempt'[b].t = attempt[b].t /\ attempt[b].t \in Targets
    BY <1>1, <1>3 DEF Marking
  <2>3. InstantsMatch'
    <3>1. \A u \in Targets : healthy'[u] => outSince'[u] = Unset \/ Clearing(u)'
      BY <1>2, <1>5, <2>1 DEF InstantsMatch, Unwritten
    <3>2. ASSUME NEW b \in Attempts, Marking(b)'
          PROVE  Unwritten(b)'
      <4>1. CASE b = a
        <5>1. healthy[t] /\ attempt'[b].t = t
          BY <2>1, <3>2, <4>1 DEF Marking
        <5>. QED  BY <1>1, <1>5, <2>1, <5>1 DEF InstantsMatch, Unwritten, Clearing
      <4>2. CASE b # a
        <5>1. Marking(b) /\ attempt'[b].t = attempt[b].t /\ attempt[b].t \in Targets
          BY <2>2, <3>2, <4>2
        <5>2. ~healthy[attempt[b].t] /\ (outSince[attempt[b].t] = Unset \/ Clearing(attempt[b].t))
          BY <5>1 DEF InstantsMatch, Unwritten
        <5>3. ~healthy'[attempt[b].t]
          BY <2>1, <5>1, <5>2
        <5>. QED  BY <1>1, <1>5, <5>1, <5>2, <5>3 DEF Unwritten, Clearing
      <4>. QED  BY <4>1, <4>2
    <3>3. ASSUME NEW b \in Attempts, NEW e \in Attempts, b # e, Marking(b)', Marking(e)', attempt'[b].t = attempt'[e].t
          PROVE  FALSE
      <4>1. ASSUME NEW d \in Attempts \ {a}, Marking(d)', Marking(a)', attempt'[d].t = attempt'[a].t PROVE FALSE
        <5>1. healthy[t] /\ attempt'[a].t = t
          BY <2>1, <4>1 DEF Marking
        <5>2. Marking(d) /\ attempt[d].t = t
          BY <2>2, <4>1, <5>1
        <5>. QED  BY <5>1, <5>2 DEF InstantsMatch, Unwritten
      <4>2. CASE b # a /\ e # a
        BY <2>2, <3>3, <4>2 DEF InstantsMatch, Unwritten
      <4>. QED  BY <3>3, <4>1, <4>2
    <3>. QED  BY <3>1, <3>2, <3>3 DEF InstantsMatch, Unwritten
  <2>4. AgesMatch'
    <3>. SUFFICES ASSUME NEW u \in Targets, ~healthy'[u], outSince'[u] # Unset, ~Clearing(u)'
                  PROVE  outFor'[u] >= outSince'[u]
      BY DEF AgesMatch
    <3>1. ~healthy[u]
      BY <1>2, <1>5, <2>1 DEF InstantsMatch, Unwritten
    <3>2. outFor'[u] = outFor[u]
      BY <2>1, <3>1
    <3>. QED  BY <1>2, <1>5, <3>1, <3>2 DEF AgesMatch
  <2>5. StillDue'
    <3>1. reap.t \in Targets
      BY <1>0 DEF RestOK, Reapers
    <3>. QED  BY <1>1, <1>5, <2>1, <3>1 DEF StillDue
  <2>. QED  BY <2>3, <2>4, <2>5
<1>6. CASE MarkEjected(a) /\ UNCHANGED <<healthy, outFor>> /\ attempt'[a].step # "mark"
  <2>1. /\ t \in Targets /\ attempt[a].step = "mark" /\ outSince'[t] = 0 /\ outSince'[t] # Unset
        /\ \A u \in Targets \ {t} : outSince'[u] = outSince[u]
    BY <1>6, MarkWrites
  <2>2. ~healthy[t] /\ (outSince[t] = Unset \/ Clearing(t))
    BY <2>1 DEF InstantsMatch, Unwritten, Marking
  <2>3. \A b \in Attempts : Marking(b)' =>
          b # a /\ Marking(b) /\ attempt'[b].t = attempt[b].t /\ attempt[b].t \in Targets /\ attempt[b].t # t
    <3>. SUFFICES ASSUME NEW b \in Attempts, Marking(b)'
                  PROVE b # a /\ Marking(b) /\ attempt'[b].t = attempt[b].t /\ attempt[b].t \in Targets /\ attempt[b].t # t
      OBVIOUS
    <3>1. b # a
      BY <1>6 DEF Marking
    <3>2. Marking(b) /\ attempt'[b].t = attempt[b].t /\ attempt[b].t \in Targets
      BY <1>1, <1>3, <3>1 DEF Marking
    <3>3. attempt[b].t # t
      BY <2>1, <3>1, <3>2 DEF InstantsMatch, Unwritten, Marking
    <3>. QED  BY <3>1, <3>2, <3>3
  <2>. HIDE DEF t
  <2>4. InstantsMatch'
    <3>1. \A u \in Targets : healthy'[u] => outSince'[u] = Unset \/ Clearing(u)'
      BY <1>2, <1>6, <2>1, <2>2 DEF InstantsMatch, Unwritten
    <3>2. ASSUME NEW b \in Attempts, Marking(b)'
          PROVE  Unwritten(b)'
      <4>1. Unwritten(b) /\ attempt'[b].t = attempt[b].t /\ attempt[b].t \in Targets /\ attempt[b].t # t
        BY <2>3, <3>2 DEF InstantsMatch
      <4>. QED  BY <1>1, <1>6, <2>1, <4>1 DEF Unwritten, Clearing
    <3>3. \A b, e \in Attempts : Marking(b)' /\ Marking(e)' /\ attempt'[b].t = attempt'[e].t => b = e
      BY <2>3 DEF InstantsMatch, Unwritten
    <3>. QED  BY <3>1, <3>2, <3>3 DEF InstantsMatch, Unwritten
  <2>5. AgesMatch'
    <3>1. outFor[t] \in 0..LongestEjectFor
      BY <1>0, <2>1 DEF HealthOK
    <3>2. outFor[t] >= 0
      BY <3>1, Constants, SMTT(30)
    <3>. QED  BY <1>2, <1>6, <2>1, <3>2 DEF AgesMatch
  <2>6. StillDue'
    <3>1. reap.step \in {"zero", "restore"} => reap.t # t /\ reap.t \in Targets
      BY <1>0, <2>2 DEF StillDue, Clearing, RestOK, Reapers
    <3>. QED  BY <1>1, <1>6, <2>1, <3>1 DEF StillDue
  <2>. QED  BY <2>4, <2>5, <2>6
<1>. QED  BY <1>4, <1>5, <1>6, AttemptWrites

LEMMA ServeKept ==
  OriginTypeOK /\ HedgeInv /\ ProbesOnly /\ DueIdle /\ ServeInv /\ [OriginNext]_originVars => ServeInv'
<1>. SUFFICES ASSUME OriginTypeOK, HedgeInv, ProbesOnly, DueIdle, ServeInv, [OriginNext]_originVars, ~oplan.prober
              PROVE  InstantsMatch' /\ AgesMatch' /\ StillDue'
  BY ProbesKept DEF ServeInv
<1>0. HealthOK /\ CallsOK /\ RestOK /\ InstantsMatch /\ AgesMatch /\ StillDue
  BY TypeParts DEF ServeInv
<1>1. ~Prober
  BY DEF Prober, ProbeAll, ProbeOne, RecordProbeError, ActiveEject, RecordProbeSuccess, ActiveRestore, ProbesOnly
<1>2. CASE (\E c \in Fetchers : Caller(c)) \/ MoodTurns \/ SetKnob \/ UNCHANGED originVars
  BY <1>0, <1>2, OthersWrite, ServeSame
<1>. QED  BY <1>0, <1>1, <1>2, TickServed, ReaperServed, AttemptServed DEF OriginNext

\* On a pool without a prober the reaper gives no target back before its
\* ejection has lasted the window the pass read (reapEjected).
THEOREM EjectForIsServed == OriginSpec => EjectForServed
<1>1. StillDue /\ AgesMatch /\ RestOK /\ HealthOK => \A t \in Targets : ReapRestore /\ reap.t = t /\ ~healthy[t] => outFor[t] >= reap.window
  <2>. SUFFICES ASSUME StillDue, AgesMatch, RestOK, HealthOK, ReapRestore, ~healthy[reap.t]
                PROVE  outFor[reap.t] >= reap.window
    OBVIOUS
  <2>1. reap.step = "restore" /\ reap.t \in Targets /\ reap.window \in 0..LongestEjectFor
    BY DEF ReapRestore, RestOK, Reapers
  <2>2. outSince[reap.t] >= reap.window /\ outFor[reap.t] >= outSince[reap.t]
    BY <2>1 DEF StillDue, AgesMatch, Clearing
  <2>3. outSince[reap.t] \in -1..LongestEjectFor /\ outFor[reap.t] \in 0..LongestEjectFor
    BY <2>1 DEF HealthOK
  <2>. QED  BY <2>1, <2>2, <2>3, Constants, SMTT(30)
<1>2. OriginTypeOK /\ ServeInv /\ [OriginNext]_originVars =>
        [~oplan.prober => \A t \in Targets : ReapRestore /\ reap.t = t /\ ~healthy[t] => outFor[t] >= reap.window]_originVars
  BY <1>1, TypeParts DEF ServeInv
<1>3. BackInv => ProbesOnly
  BY DEF BackInv
<1>. QED  BY <1>2, <1>3, OriginTypeStart, OriginTypeKept, AskedStart, HedgeKept, BackStart, BackKept, DueStart,
             DueKept, ServeStart, ServeKept, PTL DEF OriginSpec, EjectForServed
-----------------------------------------------------------------------------
(* The ring.                                                               *)

\* A set of hashes has a least one.
LEMMA LeastHash ==
  ASSUME NEW S \in SUBSET Nat, S # {}
  PROVE  Min(S) \in S /\ \A y \in S : Min(S) <= y
<1>1. PICK x \in S : \A y \in S : ~(<<y, x>> \in OpToRel(<, Nat))
  BY NatLessThanWellFounded, WFMin
<1>2. ASSUME NEW y \in S PROVE x <= y
  <2>1. y < x => <<y, x>> \in OpToRel(<, Nat)
    <3>1. <<y, x>> \in Nat \X Nat /\ <<y, x>>[1] = y /\ <<y, x>>[2] = x
      BY SMTT(30)
    <3>. QED  BY <3>1, Zenon DEF OpToRel
  <2>2. ~(y < x)
    BY <1>1, <2>1, Zenon
  <2>. QED  BY <2>2, SMTT(30)
<1>. QED  BY <1>2 DEF Min

\* The virtual nodes of some names, and the first of them from a hash on.
NodesOf(names) == UNION {Positions[n] : n \in names}
FirstFrom(names, h) ==
  Min(IF {p \in NodesOf(names) : p >= h} # {} THEN {p \in NodesOf(names) : p >= h} ELSE NodesOf(names))

LEMMA FirstFound ==
  ASSUME NEW names \in SUBSET Names, names # {}, NEW h \in Nat
  PROVE  LET p == FirstFrom(names, h)
         IN /\ NodesOf(names) \in SUBSET Nat /\ p \in NodesOf(names)
            /\ p >= h => \A q \in NodesOf(names) : q >= h => p <= q
            /\ ~(p >= h) => \A q \in NodesOf(names) : ~(q >= h) /\ p <= q
<1>. DEFINE all == NodesOf(names)
            after == {p \in all : p >= h}
<1>1. all \in SUBSET Nat /\ all # {}
  BY PeerAssumption, SMTT(30) DEF NodesOf
<1>2. FirstFrom(names, h) = Min(IF after # {} THEN after ELSE all)
  BY DEF FirstFrom
<1>3. after \in SUBSET Nat
  BY <1>1
<1>. HIDE DEF all
<1>4. CASE after # {}
  <2>1. FirstFrom(names, h) \in after /\ \A q \in after : FirstFrom(names, h) <= q
    BY <1>2, <1>3, <1>4, LeastHash
  <2>. QED  BY <1>1, <2>1 DEF all
<1>5. CASE after = {}
  <2>1. FirstFrom(names, h) \in all /\ \A q \in all : FirstFrom(names, h) <= q
    BY <1>1, <1>2, <1>5, LeastHash, SMTT(30)
  <2>2. \A q \in all : ~(q >= h)
    BY <1>5
  <2>. QED  BY <1>1, <2>1, <2>2 DEF all
<1>. QED  BY <1>4, <1>5

\* A key belongs to the name whose virtual node is the first from its hash on.
LEMMA OwnerFound ==
  ASSUME NEW names \in SUBSET Names, names # {}, NEW h \in Nat
  PROVE  RingGet(names, h) \in names /\ FirstFrom(names, h) \in Positions[RingGet(names, h)]
<1>1. RingGet(names, h) = CHOOSE n \in names : FirstFrom(names, h) \in Positions[n]
  BY DEF RingGet, FirstFrom, NodesOf
<1>2. \E n \in names : FirstFrom(names, h) \in Positions[n]
  <2>1. FirstFrom(names, h) \in NodesOf(names)
    BY FirstFound
  <2>. QED  BY <2>1 DEF NodesOf
<1>. QED  BY <1>1, <1>2

\* Two rings that both have the two owners of a key agree on one.
LEMMA RingMoves ==
  ASSUME NEW A \in SUBSET Names, A # {}, NEW B \in SUBSET Names, B # {}, NEW h \in Nat,
         RingGet(A, h) \in B, RingGet(B, h) \in A
  PROVE  RingGet(A, h) = RingGet(B, h)
<1>. DEFINE a == FirstFrom(A, h)
            b == FirstFrom(B, h)
<1>1. /\ RingGet(A, h) \in A /\ a \in Positions[RingGet(A, h)]
      /\ RingGet(B, h) \in B /\ b \in Positions[RingGet(B, h)]
  BY OwnerFound
<1>2. a \in NodesOf(B) /\ b \in NodesOf(A)
  BY <1>1 DEF NodesOf
<1>3. /\ a \in Nat /\ (a >= h => \A q \in NodesOf(A) : q >= h => a <= q)
      /\ ~(a >= h) => \A q \in NodesOf(A) : ~(q >= h) /\ a <= q
  BY FirstFound
<1>4. /\ b \in Nat /\ (b >= h => \A q \in NodesOf(B) : q >= h => b <= q)
      /\ ~(b >= h) => \A q \in NodesOf(B) : ~(q >= h) /\ b <= q
  BY FirstFound
<1>. HIDE DEF a, b
<1>5. a <= b /\ b <= a
  BY <1>2, <1>3, <1>4
<1>6. a = b
  BY <1>3, <1>4, <1>5, SMTT(30)
<1>. QED  BY <1>1, <1>6, PeerAssumption

LEMMA RingHasNames == RingNames \in SUBSET Names /\ RingNames # {}
BY DEF RingNames, Names, LiveIn

LEMMA OwnerInRing == ASSUME NEW h \in KeyHashes PROVE Owner(h) \in RingNames
BY OwnerFound, RingHasNames, PeerAssumption DEF Owner

\* When the names of the ring change, however they change, a key moves only to
\* a node that came or from a node that went (ring.get over the virtual
\* nodes).
THEOREM RingIsConsistent == PeerSpec => MinimalMovement
<1>1. ASSUME NEW h \in KeyHashes, Owner(h) # Owner(h)'
      PROVE  Owner(h)' \notin RingNames \/ Owner(h) \notin RingNames'
  <2>1. h \in Nat
    BY PeerAssumption
  <2>2. RingNames \in SUBSET Names /\ RingNames # {}
    BY RingHasNames
  <2>3. RingNames' \in SUBSET Names /\ RingNames' # {}
    BY DEF RingNames, Names, LiveIn
  <2>4. Owner(h) = RingGet(RingNames, h) /\ Owner(h)' = RingGet(RingNames', h)
    BY DEF Owner, RingGet
  <2>. QED  BY <1>1, <2>1, <2>2, <2>3, <2>4, RingMoves
<1>2. [PeerNext]_peerVars =>
        [\A h \in KeyHashes :
           Owner(h) # Owner(h)' => \/ Owner(h)' \notin RingNames
                                   \/ Owner(h) \notin RingNames']_peerVars
  BY <1>1
<1>. QED  BY <1>2, PTL DEF PeerSpec, MinimalMovement

-----------------------------------------------------------------------------
(* The table and the fetches.                                              *)

\* A goroutine that adds or removes has a peer's name, and one that retires an
\* address has one.
JobFits(r) ==
  /\ r.at \in {"add", "unretire", "remove"} => r.name \in Peers
  /\ r.at = "retire" => r.old # PeerGone

Membership ==
  /\ changes \in Nat /\ view \in [Peers -> Places] /\ peers \in [Peers -> Places]
  /\ retired \subseteq Addrs
  /\ job \in [Jobs -> Progress] /\ \A j \in Jobs : JobFits(job[j])

\* A record that is not closed counts a failure; a fetch has an address.
Fetching ==
  /\ breaker \in [Addrs -> Records] /\ \A a \in Addrs : breaker[a].state # "closed" => breaker[a].fails > 0
  /\ slots \in 0..FetchSlots /\ SlotsAreHeld
  /\ fetch \in [PeerFetchers -> Fetches] /\ \A f \in PeerFetchers : fetch[f].at # "idle" => fetch[f].addr \in Addrs

PeerInv == peerPlan \in PeerPlans /\ Membership /\ Fetching

LEMMA PeerStart == PeerInit => PeerInv
<1>. SUFFICES ASSUME PeerInit PROVE PeerInv
  OBVIOUS
<1>. USE DEF PeerInit
<1>1. changes \in Nat /\ view \in [Peers -> Places] /\ peers \in [Peers -> Places]
  BY PeerAssumption DEF Places
<1>2. AtRest \in Progress /\ JobFits(AtRest)
  BY DEF AtRest, Progress, JobFits, Places, Names
<1>3. job \in [Jobs -> Progress] /\ \A j \in Jobs : JobFits(job[j])
  BY <1>2
<1>4. Healthy \in Records /\ Healthy.state = "closed"
  BY PeerAssumption, SMTT(30) DEF Healthy, Records
<1>5. NotFetching \in Fetches /\ NotFetching.at = "idle"
  BY DEF NotFetching, Fetches, Places
<1>6. Holding = {} /\ Cardinality({}) = 0
  BY <1>5, FS_EmptySet DEF Holding
<1>7. slots \in 0..FetchSlots /\ SlotsAreHeld
  <2>1. 0 \in 0..FetchSlots
    BY PeerAssumption, SMTT(30)
  <2>. QED  BY <1>6, <2>1 DEF SlotsAreHeld
<1>. QED  BY <1>1, <1>3, <1>4, <1>5, <1>7 DEF PeerInv, Membership, Fetching

\* A goroutine goes on with r.
LEMMA JobSet ==
  ASSUME Membership, NEW j \in Jobs, NEW r \in Progress, JobFits(r), SetJob(j, r)
  PROVE  job' \in [Jobs -> Progress] /\ \A i \in Jobs : JobFits(job'[i])
BY DEF Membership, SetJob

LEMMA AfterFits ==
  ASSUME NEW j \in Jobs, job[j] \in Progress
  PROVE  After(j) \in Progress /\ JobFits(After(j))
<1>1. AtRest \in Progress /\ JobFits(AtRest)
  BY DEF AtRest, Progress, JobFits, Places, Names
<1>2. \A at \in {"drop", "look"} :
        LET r == [job[j] EXCEPT !.at = at, !.name = Self, !.addr = PeerGone, !.old = PeerGone]
        IN r \in Progress /\ JobFits(r)
  BY DEF Progress, JobFits, Places, Names
<1>. QED  BY <1>1, <1>2 DEF After

LEMMA ChangeKeeps ==
  ASSUME PeerInv, NEW n \in Peers, NEW a \in Places, Change(n, a) PROVE Membership'
<1>. DEFINE r == [AtRest EXCEPT !.at = IF a = PeerGone THEN "remove" ELSE "add", !.name = n, !.addr = a]
<1>1. /\ changes > 0 /\ changes' = changes - 1 /\ view' = [view EXCEPT ![n] = a]
      /\ UNCHANGED <<peers, retired>> /\ (SetJob("event", r) \/ UNCHANGED job)
  BY DEF Change
<1>2. changes' \in Nat
  BY <1>1, SMTT(30) DEF PeerInv, Membership
<1>3. r \in Progress /\ JobFits(r)
  BY DEF AtRest, Progress, JobFits, Places, Names
<1>. HIDE DEF r
<1>4. job' \in [Jobs -> Progress] /\ \A j \in Jobs : JobFits(job'[j])
  <2>1. CASE SetJob("event", r)
    BY <1>3, <2>1, JobSet DEF PeerInv, Jobs
  <2>2. CASE UNCHANGED job
    BY <2>2 DEF PeerInv, Membership
  <2>. QED  BY <1>1, <2>1, <2>2
<1>. QED  BY <1>1, <1>2, <1>4 DEF PeerInv, Membership

\* A step that only sets a goroutine's record.
LEMMA JobOnly ==
  ASSUME Membership, NEW j \in Jobs, NEW r \in Progress, JobFits(r), SetJob(j, r),
         UNCHANGED <<changes, view>>, peers' \in [Peers -> Places], retired' \subseteq Addrs
  PROVE  Membership'
<1>1. job' \in [Jobs -> Progress] /\ \A i \in Jobs : JobFits(job'[i])
  BY JobSet
<1>. QED  BY <1>1 DEF Membership

LEMMA AddPeerKeeps == ASSUME PeerInv, NEW j \in Jobs, AddPeer(j) PROVE Membership'
<1>. DEFINE r == [job[j] EXCEPT !.at = "unretire", !.old = peers[job[j].name]]
<1>1. /\ job[j].at = "add" /\ peers' = [peers EXCEPT ![job[j].name] = job[j].addr]
      /\ SetJob(j, r) /\ UNCHANGED <<view, changes, retired>>
  BY DEF AddPeer
<1>2. /\ Membership /\ job[j] \in Progress /\ job[j].name \in Peers /\ job[j].addr \in Places
      /\ peers \in [Peers -> Places] /\ retired \subseteq Addrs
  BY <1>1 DEF PeerInv, Membership, JobFits, Progress
<1>3. peers[job[j].name] \in Places /\ peers' \in [Peers -> Places]
  BY <1>1, <1>2
<1>4. r \in Progress /\ JobFits(r)
  BY <1>2, <1>3 DEF Progress, JobFits
<1>. HIDE DEF r
<1>. QED  BY <1>1, <1>2, <1>3, <1>4, JobOnly

LEMMA UnretireKeeps == ASSUME PeerInv, NEW j \in Jobs, Unretire(j) PROVE Membership'
<1>. DEFINE r == [job[j] EXCEPT !.at = "retire"]
<1>1. /\ retired' = retired \ {job[j].addr} /\ UNCHANGED <<view, changes, peers>>
      /\ (job[j].old # PeerGone /\ SetJob(j, r)) \/ SetJob(j, After(j))
  BY DEF Unretire
<1>2. Membership /\ job[j] \in Progress /\ peers \in [Peers -> Places] /\ retired \subseteq Addrs
  BY DEF PeerInv, Membership
<1>3. r \in Progress /\ (job[j].old # PeerGone => JobFits(r))
  BY <1>2 DEF Progress, JobFits
<1>4. After(j) \in Progress /\ JobFits(After(j))
  BY <1>2, AfterFits
<1>. HIDE DEF r
<1>5. retired' \subseteq Addrs /\ peers' \in [Peers -> Places]
  BY <1>1, <1>2
<1>. QED  BY <1>1, <1>2, <1>3, <1>4, <1>5, JobOnly

LEMMA RetireKeeps == ASSUME PeerInv, NEW j \in Jobs, Retire(j) PROVE Membership'
<1>1. /\ job[j].at = "retire" /\ retired' = retired \union {job[j].old} /\ SetJob(j, After(j))
      /\ UNCHANGED <<view, changes, peers>>
  BY DEF Retire
<1>2. /\ Membership /\ job[j] \in Progress /\ peers \in [Peers -> Places] /\ retired \subseteq Addrs
      /\ job[j].old \in Addrs
  BY <1>1 DEF PeerInv, Membership, JobFits, Progress, Places
<1>3. After(j) \in Progress /\ JobFits(After(j))
  BY <1>2, AfterFits
<1>4. retired' \subseteq Addrs /\ peers' \in [Peers -> Places]
  BY <1>1, <1>2
<1>. QED  BY <1>1, <1>2, <1>3, <1>4, JobOnly

LEMMA RemovePeerKeeps == ASSUME PeerInv, NEW j \in Jobs, RemovePeer(j) PROVE Membership'
<1>. DEFINE r == [job[j] EXCEPT !.at = "retire", !.old = peers[job[j].name]]
<1>1. /\ job[j].at = "remove" /\ peers' = [peers EXCEPT ![job[j].name] = PeerGone]
      /\ UNCHANGED <<view, changes, retired>>
      /\ SetJob(j, After(j)) \/ (peers[job[j].name] # PeerGone /\ SetJob(j, r))
  BY DEF RemovePeer
<1>2. /\ Membership /\ job[j] \in Progress /\ job[j].name \in Peers
      /\ peers \in [Peers -> Places] /\ retired \subseteq Addrs
  BY <1>1 DEF PeerInv, Membership, JobFits
<1>3. peers[job[j].name] \in Places /\ PeerGone \in Places
  BY <1>2 DEF Places
<1>4. peers' \in [Peers -> Places]
  BY <1>1, <1>2, <1>3
<1>5. r \in Progress /\ (peers[job[j].name] # PeerGone => JobFits(r))
  BY <1>2, <1>3 DEF Progress, JobFits
<1>6. After(j) \in Progress /\ JobFits(After(j))
  BY <1>2, AfterFits
<1>. HIDE DEF r
<1>. QED  BY <1>1, <1>2, <1>4, <1>5, <1>6, JobOnly

\* Goroutines between two peers.
LEMMA JobTurns ==
  ASSUME PeerInv, NEW j \in Jobs, Collect(j) \/ NextDrop(j) \/ NextLook(j)
  PROVE  Membership'
<1>. DEFINE r == job[j]
<1>1. Membership /\ r \in Progress /\ peers \in [Peers -> Places] /\ retired \subseteq Addrs
  BY DEF PeerInv, Membership
<1>2. /\ \A S \in SUBSET Peers : [r EXCEPT !.at = "drop", !.drop = S] \in Progress
                                 /\ JobFits([r EXCEPT !.at = "drop", !.drop = S])
      /\ \A n \in Peers, S \in SUBSET Peers :
           /\ [r EXCEPT !.at = "remove", !.name = n, !.drop = S] \in Progress
           /\ JobFits([r EXCEPT !.at = "remove", !.name = n, !.drop = S])
  <2>. HIDE DEF r
  <2>. QED  BY <1>1 DEF Progress, JobFits, Names
<1>3. /\ \A n \in Peers, a \in Places, S \in SUBSET Peers :
           /\ [r EXCEPT !.at = "add", !.name = n, !.addr = a, !.look = S] \in Progress
           /\ JobFits([r EXCEPT !.at = "add", !.name = n, !.addr = a, !.look = S])
      /\ \A at \in {"look", "collect"} : [r EXCEPT !.at = at] \in Progress /\ JobFits([r EXCEPT !.at = at])
  <2>. HIDE DEF r
  <2>. QED  BY <1>1 DEF Progress, JobFits, Names
<1>4. \A S \in SUBSET Peers : [r EXCEPT !.look = S] \in Progress /\ (r.at = "look" => JobFits([r EXCEPT !.look = S]))
  <2>. HIDE DEF r
  <2>. QED  BY <1>1 DEF Progress, JobFits
<1>5. AtRest \in Progress /\ JobFits(AtRest)
  BY DEF AtRest, Progress, JobFits, Places, Names
<1>6. r.drop \in SUBSET Peers /\ r.look \in SUBSET Peers /\ r.snap \in [Peers -> Places]
  BY <1>1 DEF Progress
<1>7. PICK q \in Progress : SetJob(j, q) /\ JobFits(q)
  <2>1. CASE Collect(j)
    <3>1. LiveIn(peers) \ LiveIn(r.snap) \in SUBSET Peers
      BY DEF LiveIn
    <3>. QED  BY <1>2, <2>1, <3>1 DEF Collect
  <2>2. CASE NextDrop(j)
    <3>1. CASE \E n \in r.drop : SetJob(j, [r EXCEPT !.at = "remove", !.name = n, !.drop = @ \ {n}])
      BY <1>2, <1>6, <3>1
    <3>. QED  BY <1>3, <1>5, <2>2, <3>1 DEF NextDrop
  <2>3. CASE NextLook(j)
    <3>1. ASSUME NEW n \in r.look, SetJob(j, [r EXCEPT !.at = "add", !.name = n, !.addr = r.snap[n], !.look = @ \ {n}])
          PROVE  \E q \in Progress : SetJob(j, q) /\ JobFits(q)
      <4>1. n \in Peers /\ r.snap[n] \in Places /\ r.look \ {n} \in SUBSET Peers
        BY <1>6
      <4>. QED  BY <1>3, <3>1, <4>1
    <3>2. ASSUME NEW n \in r.look, r.at = "look", SetJob(j, [r EXCEPT !.look = @ \ {n}])
          PROVE  \E q \in Progress : SetJob(j, q) /\ JobFits(q)
      <4>1. r.look \ {n} \in SUBSET Peers
        BY <1>6
      <4>. QED  BY <1>4, <3>2, <4>1
    <3>. QED  BY <1>3, <1>5, <2>3, <3>1, <3>2 DEF NextLook
  <2>. QED  BY <2>1, <2>2, <2>3
<1>8. UNCHANGED <<view, changes, peers, retired>>
  BY DEF Collect, NextDrop, NextLook
<1>. QED  BY <1>1, <1>7, <1>8, JobOnly

LEMMA PassesBegin ==
  ASSUME PeerInv, BeginReconcile \/ BeginMerge PROVE Membership'
<1>1. Membership /\ peers \in [Peers -> Places] /\ retired \subseteq Addrs /\ view \in [Peers -> Places]
  BY DEF PeerInv, Membership
<1>2. LiveIn(view) \in SUBSET Peers
  BY DEF LiveIn
<1>3. ASSUME NEW at \in {"collect", "look"}, NEW S \in SUBSET Peers
      PROVE  LET r == [AtRest EXCEPT !.at = at, !.snap = view, !.look = S] IN r \in Progress /\ JobFits(r)
  BY <1>1 DEF AtRest, Progress, JobFits, Places, Names
<1>4. PICK j \in Jobs, r \in Progress : SetJob(j, r) /\ JobFits(r)
  <2>1. CASE BeginReconcile
    BY <1>2, <1>3, <2>1 DEF BeginReconcile, Jobs
  <2>2. CASE BeginMerge
    BY <1>2, <1>3, <2>2 DEF BeginMerge, Jobs
  <2>. QED  BY <2>1, <2>2
<1>5. UNCHANGED <<view, changes, peers, retired>>
  BY DEF BeginReconcile, BeginMerge
<1>. QED  BY <1>1, <1>4, <1>5, JobOnly

-----------------------------------------------------------------------------
\* A fetch goes on with r.
LEMMA FetchSet ==
  ASSUME Fetching, NEW f \in PeerFetchers, NEW r \in Fetches, r.at # "idle" => r.addr \in Addrs, SetFetch(f, r)
  PROVE  /\ fetch' \in [PeerFetchers -> Fetches] /\ fetch'[f] = r
         /\ \A g \in PeerFetchers \ {f} : fetch'[g] = fetch[g]
         /\ \A g \in PeerFetchers : fetch'[g].at # "idle" => fetch'[g].addr \in Addrs
<1>1. fetch \in [PeerFetchers -> Fetches] /\ fetch' = [fetch EXCEPT ![f] = r]
  BY DEF Fetching, SetFetch
<1>2. /\ fetch' \in [PeerFetchers -> Fetches] /\ fetch'[f] = r
      /\ \A g \in PeerFetchers \ {f} : fetch'[g] = fetch[g]
  BY <1>1
<1>. QED  BY <1>2 DEF Fetching

\* The steps of a fetch that neither take a slot nor give one back.
LEMMA SlotsSame ==
  ASSUME Fetching, NEW f \in PeerFetchers, NEW r \in Fetches, r.at # "idle" => r.addr \in Addrs, SetFetch(f, r),
         r.at \in {"client", "rpc", "parked"} <=> f \in Holding, UNCHANGED slots
  PROVE  /\ slots' \in 0..FetchSlots /\ SlotsAreHeld'
         /\ fetch' \in [PeerFetchers -> Fetches]
         /\ \A g \in PeerFetchers : fetch'[g].at # "idle" => fetch'[g].addr \in Addrs
<1>1. /\ fetch' \in [PeerFetchers -> Fetches] /\ fetch'[f] = r
      /\ \A g \in PeerFetchers \ {f} : fetch'[g] = fetch[g]
      /\ \A g \in PeerFetchers : fetch'[g].at # "idle" => fetch'[g].addr \in Addrs
  BY FetchSet
<1>2. Holding' = Holding
  BY <1>1 DEF Holding
<1>3. slots' \in 0..FetchSlots /\ SlotsAreHeld'
  BY <1>2 DEF Fetching, SlotsAreHeld
<1>. QED  BY <1>1, <1>3

LEMMA NoFetchFits == NotFetching \in Fetches /\ NotFetching.at = "idle"
BY DEF NotFetching, Fetches, Places

LEMMA BeginFetchKeeps == ASSUME PeerInv, NEW f \in PeerFetchers, BeginFetch(f) PROVE Fetching'
<1>1. PICK h \in KeyHashes : Owner(h) # Self /\ SetFetch(f, [at |-> "gate", addr |-> peers[Owner(h)]])
  BY DEF BeginFetch
<1>2. fetch[f].at = "idle" /\ UNCHANGED <<breaker, slots>>
  BY DEF BeginFetch
<1>3. peers[Owner(h)] \in Addrs
  <2>1. Owner(h) \in RingNames
    BY OwnerInRing
  <2>2. Owner(h) \in Peers /\ peers[Owner(h)] # PeerGone
    BY <1>1, <2>1 DEF RingNames, LiveIn
  <2>. QED  BY <2>2 DEF PeerInv, Membership, Places
<1>. DEFINE r == [at |-> "gate", addr |-> peers[Owner(h)]]
<1>4. r \in Fetches /\ r.at = "gate" /\ r.addr \in Addrs
  BY <1>3 DEF Fetches, Places
<1>5. SetFetch(f, r)
  BY <1>1
<1>. HIDE DEF r
<1>6. f \notin Holding /\ r.at \notin {"client", "rpc", "parked"}
  BY <1>2, <1>4 DEF Holding
<1>7. /\ slots' \in 0..FetchSlots /\ SlotsAreHeld' /\ fetch' \in [PeerFetchers -> Fetches]
      /\ \A g \in PeerFetchers : fetch'[g].at # "idle" => fetch'[g].addr \in Addrs
  BY <1>2, <1>4, <1>5, <1>6, SlotsSame DEF PeerInv
<1>. QED  BY <1>2, <1>7 DEF PeerInv, Fetching

\* A record that is closed or lapsed is closed, and keeps its count.
LEMMA RecordClosed ==
  ASSUME NEW b \in Records, NEW s \in {"closed", "tripped", "lapsed"}
  PROVE  LET c == [b EXCEPT !.state = s] IN c \in Records /\ c.state = s /\ c.fails = b.fails
BY DEF Records

LEMMA BreakerSet ==
  ASSUME Fetching, NEW a \in Addrs, NEW b \in Records, b.state # "closed" => b.fails > 0,
         breaker' = [breaker EXCEPT ![a] = b]
  PROVE  /\ breaker' \in [Addrs -> Records] /\ breaker'[a] = b
         /\ \A c \in Addrs \ {a} : breaker'[c] = breaker[c]
         /\ \A c \in Addrs : breaker'[c].state # "closed" => breaker'[c].fails > 0
<1>1. /\ breaker' \in [Addrs -> Records] /\ breaker'[a] = b
      /\ \A c \in Addrs \ {a} : breaker'[c] = breaker[c]
  BY DEF Fetching
<1>. QED  BY <1>1 DEF Fetching

LEMMA PeerGateKeeps == ASSUME PeerInv, NEW f \in PeerFetchers, PeerGate(f) PROVE Fetching'
<1>. DEFINE a == fetch[f].addr
            r == [fetch[f] EXCEPT !.at = "slot"]
            b == [breaker[a] EXCEPT !.state = "closed"]
<1>1. /\ fetch[f].at = "gate" /\ UNCHANGED slots
      /\ \/ SetFetch(f, NotFetching) /\ UNCHANGED breaker
         \/ SetFetch(f, r) /\ breaker' = [breaker EXCEPT ![a].state = "closed"]
  BY DEF PeerGate
<1>2. Fetching /\ a \in Addrs /\ fetch[f] \in Fetches /\ breaker[a] \in Records
  BY <1>1 DEF PeerInv, Fetching
<1>3. r \in Fetches /\ r.at = "slot" /\ r.addr = a
  BY <1>2 DEF Fetches
<1>4. b \in Records /\ b.state = "closed"
  BY <1>2, RecordClosed
<1>5. f \notin Holding
  BY <1>1 DEF Holding
<1>6. CASE SetFetch(f, NotFetching) /\ UNCHANGED breaker
  <2>1. /\ slots' \in 0..FetchSlots /\ SlotsAreHeld' /\ fetch' \in [PeerFetchers -> Fetches]
        /\ \A g \in PeerFetchers : fetch'[g].at # "idle" => fetch'[g].addr \in Addrs
    BY <1>1, <1>2, <1>5, <1>6, NoFetchFits, SlotsSame
  <2>. QED  BY <1>2, <1>6, <2>1 DEF Fetching
<1>7. CASE SetFetch(f, r) /\ breaker' = [breaker EXCEPT ![a].state = "closed"]
  <2>1. breaker' = [breaker EXCEPT ![a] = b]
    BY <1>7
  <2>. HIDE DEF r, b, a
  <2>2. /\ slots' \in 0..FetchSlots /\ SlotsAreHeld' /\ fetch' \in [PeerFetchers -> Fetches]
        /\ \A g \in PeerFetchers : fetch'[g].at # "idle" => fetch'[g].addr \in Addrs
    BY <1>1, <1>2, <1>3, <1>5, <1>7, SlotsSame
  <2>3. /\ breaker' \in [Addrs -> Records]
        /\ \A c \in Addrs : breaker'[c].state # "closed" => breaker'[c].fails > 0
    BY <1>2, <1>4, <2>1, BreakerSet
  <2>. QED  BY <2>2, <2>3 DEF Fetching
<1>. QED  BY <1>1, <1>6, <1>7

LEMMA AcquireSlotKeeps == ASSUME PeerInv, NEW f \in PeerFetchers, AcquireSlot(f) PROVE Fetching'
<1>. DEFINE r == [fetch[f] EXCEPT !.at = "client"]
<1>1. /\ fetch[f].at = "slot" /\ slots < FetchSlots /\ slots' = slots + 1 /\ SetFetch(f, r)
      /\ UNCHANGED breaker
  BY DEF AcquireSlot
<1>2. Fetching /\ fetch[f].addr \in Addrs /\ fetch[f] \in Fetches
  BY <1>1 DEF PeerInv, Fetching
<1>3. r \in Fetches /\ r.at = "client" /\ r.addr \in Addrs
  BY <1>2 DEF Fetches
<1>. HIDE DEF r
<1>4. /\ fetch' \in [PeerFetchers -> Fetches] /\ fetch'[f] = r
      /\ \A g \in PeerFetchers \ {f} : fetch'[g] = fetch[g]
      /\ \A g \in PeerFetchers : fetch'[g].at # "idle" => fetch'[g].addr \in Addrs
  BY <1>1, <1>2, <1>3, FetchSet
<1>5. Holding' = Holding \union {f} /\ f \notin Holding
  BY <1>1, <1>3, <1>4 DEF Holding
<1>6. IsFiniteSet(Holding)
  <2>1. Holding \subseteq PeerFetchers
    BY DEF Holding
  <2>. QED  BY <2>1, PeerAssumption, FS_Subset
<1>7. Cardinality(Holding \union {f}) = Cardinality(Holding) + 1
  BY <1>5, <1>6, FS_AddElement
<1>8. SlotsAreHeld'
  BY <1>1, <1>2, <1>5, <1>7 DEF Fetching, SlotsAreHeld
<1>9. slots' \in 0..FetchSlots
  BY <1>1, <1>2, PeerAssumption, SMTT(30) DEF Fetching
<1>. QED  BY <1>1, <1>2, <1>4, <1>8, <1>9 DEF Fetching

LEMMA ShedKeeps == ASSUME PeerInv, NEW f \in PeerFetchers, Shed(f) PROVE Fetching'
<1>1. fetch[f].at = "slot" /\ SetFetch(f, NotFetching) /\ UNCHANGED <<breaker, slots>> /\ Fetching
  BY DEF Shed, PeerInv
<1>2. f \notin Holding
  BY <1>1 DEF Holding
<1>3. /\ slots' \in 0..FetchSlots /\ SlotsAreHeld' /\ fetch' \in [PeerFetchers -> Fetches]
      /\ \A g \in PeerFetchers : fetch'[g].at # "idle" => fetch'[g].addr \in Addrs
  BY <1>1, <1>2, NoFetchFits, SlotsSame
<1>. QED  BY <1>1, <1>3 DEF Fetching

LEMMA GetClientKeeps == ASSUME PeerInv, NEW f \in PeerFetchers, GetClient(f) PROVE Fetching'
<1>1. /\ fetch[f].at = "client" /\ UNCHANGED <<breaker, slots>>
      /\ \E at \in {"parked", "rpc"} : SetFetch(f, [fetch[f] EXCEPT !.at = at])
  BY DEF GetClient
<1>2. Fetching /\ fetch[f].addr \in Addrs /\ fetch[f] \in Fetches /\ f \in Holding
  BY <1>1 DEF PeerInv, Fetching, Holding
<1>3. ASSUME NEW at \in {"parked", "rpc"}
      PROVE  LET r == [fetch[f] EXCEPT !.at = at] IN r \in Fetches /\ r.at = at /\ r.addr = fetch[f].addr
  BY <1>2 DEF Fetches
<1>4. PICK r \in Fetches : SetFetch(f, r) /\ r.at \in {"parked", "rpc"} /\ r.addr \in Addrs
  BY <1>1, <1>2, <1>3
<1>5. /\ slots' \in 0..FetchSlots /\ SlotsAreHeld' /\ fetch' \in [PeerFetchers -> Fetches]
      /\ \A g \in PeerFetchers : fetch'[g].at # "idle" => fetch'[g].addr \in Addrs
  BY <1>1, <1>2, <1>4, SlotsSame
<1>. QED  BY <1>1, <1>2, <1>5 DEF Fetching

\* A failure is counted, up to the threshold.
LEMMA FailureCounts ==
  ASSUME Fetching, NEW a \in Addrs
  PROVE  \E b \in Records : /\ RecordPeerFailure(a) = [breaker EXCEPT ![a] = b] /\ b.fails > 0
<1>. DEFINE n == Min({PeerFailures, breaker[a].fails + 1})
            b == [fails |-> n,
                  state |-> IF n >= PeerFailures /\ breaker[a].state = "closed" THEN "tripped" ELSE breaker[a].state]
<1>1. breaker[a] \in Records
  BY DEF Fetching
<1>2. breaker[a].fails \in 0..PeerFailures /\ breaker[a].state \in {"closed", "tripped", "lapsed"}
  BY <1>1 DEF Records
<1>3. {PeerFailures, breaker[a].fails + 1} \in SUBSET Nat /\ {PeerFailures, breaker[a].fails + 1} # {}
  BY <1>2, PeerAssumption, SMTT(30)
<1>4. n \in {PeerFailures, breaker[a].fails + 1} /\ n <= PeerFailures
  BY <1>3, LeastHash
<1>5. n \in 0..PeerFailures /\ n > 0
  <2>. HIDE DEF n
  <2>. QED  BY <1>2, <1>4, PeerAssumption, SMTT(30)
<1>6. RecordPeerFailure(a) = [breaker EXCEPT ![a] = b]
  BY DEF RecordPeerFailure
<1>. HIDE DEF n
<1>7. b \in Records /\ b.fails > 0
  BY <1>2, <1>5 DEF Records
<1>. QED  BY <1>6, <1>7

LEMMA RpcEndsKeeps == ASSUME PeerInv, NEW f \in PeerFetchers, RpcEnds(f) PROVE Fetching'
<1>. DEFINE a == fetch[f].addr
<1>1. /\ fetch[f].at \in {"rpc", "parked"} /\ slots' = slots - 1 /\ SetFetch(f, NotFetching)
      /\ breaker' = RecordPeerSuccess(a) \/ breaker' = RecordPeerFailure(a) \/ UNCHANGED breaker
  BY DEF RpcEnds
<1>2. Fetching /\ a \in Addrs /\ f \in Holding
  BY <1>1 DEF PeerInv, Fetching, Holding
<1>. HIDE DEF a
<1>3. /\ fetch' \in [PeerFetchers -> Fetches] /\ fetch'[f] = NotFetching
      /\ \A g \in PeerFetchers \ {f} : fetch'[g] = fetch[g]
      /\ \A g \in PeerFetchers : fetch'[g].at # "idle" => fetch'[g].addr \in Addrs
  BY <1>1, <1>2, NoFetchFits, FetchSet
<1>4. Holding' = Holding \ {f}
  BY <1>3, NoFetchFits DEF Holding
<1>5. IsFiniteSet(Holding)
  <2>1. Holding \subseteq PeerFetchers
    BY DEF Holding
  <2>. QED  BY <2>1, PeerAssumption, FS_Subset
<1>6. Cardinality(Holding \ {f}) = Cardinality(Holding) - 1 /\ Cardinality(Holding \ {f}) \in Nat
  <2>1. IsFiniteSet(Holding \ {f}) /\ Cardinality(Holding \ {f}) = Cardinality(Holding) - 1
    BY <1>2, <1>5, FS_RemoveElement
  <2>. QED  BY <2>1, FS_CardinalityType
<1>7. SlotsAreHeld'
  BY <1>1, <1>2, <1>4, <1>6 DEF Fetching, SlotsAreHeld
<1>8. slots' \in 0..FetchSlots
  <2>1. slots' \in Nat
    BY <1>4, <1>6, <1>7 DEF SlotsAreHeld
  <2>. QED  BY <1>1, <1>2, <2>1, PeerAssumption, SMTT(30) DEF Fetching
<1>9. /\ breaker' \in [Addrs -> Records]
      /\ \A c \in Addrs : breaker'[c].state # "closed" => breaker'[c].fails > 0
  <2>1. Healthy \in Records /\ Healthy.state = "closed"
    BY PeerAssumption, SMTT(30) DEF Healthy, Records
  <2>2. CASE breaker' = RecordPeerSuccess(a)
    BY <1>2, <2>1, <2>2, BreakerSet DEF RecordPeerSuccess
  <2>3. CASE breaker' = RecordPeerFailure(a)
    BY <1>2, <2>3, FailureCounts, BreakerSet
  <2>4. CASE UNCHANGED breaker
    BY <1>2, <2>4 DEF Fetching
  <2>. QED  BY <1>1, <2>2, <2>3, <2>4
<1>. QED  BY <1>3, <1>7, <1>8, <1>9 DEF Fetching

LEMMA LapseKeeps == ASSUME PeerInv, NEW a \in Addrs, Lapse(a) PROVE Fetching'
<1>. DEFINE b == [breaker[a] EXCEPT !.state = "lapsed"]
<1>1. /\ breaker[a].state = "tripped" /\ breaker' = [breaker EXCEPT ![a].state = "lapsed"]
      /\ UNCHANGED <<slots, fetch>>
  BY DEF Lapse
<1>2. breaker' = [breaker EXCEPT ![a] = b]
  BY <1>1
<1>3. Fetching /\ breaker[a] \in Records /\ breaker[a].fails > 0
  BY <1>1 DEF PeerInv, Fetching
<1>4. b \in Records /\ b.state = "lapsed" /\ b.fails = breaker[a].fails
  BY <1>3, RecordClosed
<1>. HIDE DEF b
<1>5. /\ breaker' \in [Addrs -> Records]
      /\ \A c \in Addrs : breaker'[c].state # "closed" => breaker'[c].fails > 0
  BY <1>2, <1>3, <1>4, BreakerSet
<1>. QED  BY <1>1, <1>3, <1>5 DEF Fetching, SlotsAreHeld, Holding

LEMMA PeerKept == PeerInv /\ [PeerNext]_peerVars => PeerInv'
<1>. SUFFICES ASSUME PeerInv, [PeerNext]_peerVars PROVE PeerInv'
  OBVIOUS
<1>1. CASE \/ \E n \in Peers, a \in Places : Change(n, a)
           \/ \E j \in Jobs : JobStep(j)
           \/ BeginReconcile \/ BeginMerge
  <2>1. UNCHANGED <<peerPlan, breaker, slots, fetch>>
    BY <1>1 DEF Change, JobStep, AddPeer, Unretire, Retire, RemovePeer, Collect, NextDrop, NextLook,
                BeginReconcile, BeginMerge, fetcherVars
  <2>2. Fetching' /\ peerPlan' \in PeerPlans
    BY <2>1 DEF PeerInv, Fetching, SlotsAreHeld, Holding
  <2>3. Membership'
    BY <1>1, ChangeKeeps, AddPeerKeeps, UnretireKeeps, RetireKeeps, RemovePeerKeeps, JobTurns, PassesBegin
       DEF JobStep
  <2>. QED  BY <2>2, <2>3 DEF PeerInv
<1>2. CASE \/ \E f \in PeerFetchers : BeginFetch(f) \/ FetchStep(f)
           \/ \E a \in Addrs : Lapse(a)
  <2>1. UNCHANGED <<peerPlan, view, changes, peers, retired, job>>
    BY <1>2 DEF BeginFetch, FetchStep, PeerGate, AcquireSlot, Shed, GetClient, RpcEnds, Lapse, memberVars
  <2>2. Membership' /\ peerPlan' \in PeerPlans
    BY <2>1 DEF PeerInv, Membership
  <2>3. Fetching'
    BY <1>2, BeginFetchKeeps, PeerGateKeeps, AcquireSlotKeeps, ShedKeeps, GetClientKeeps, RpcEndsKeeps, LapseKeeps
       DEF FetchStep
  <2>. QED  BY <2>2, <2>3 DEF PeerInv
<1>3. CASE UNCHANGED peerVars
  BY <1>3 DEF PeerInv, Membership, Fetching, SlotsAreHeld, Holding, peerVars, memberVars, fetcherVars
<1>. QED  BY <1>1, <1>2, <1>3 DEF PeerNext

\* Types of the ring's and the fetches' state.
THEOREM PeersTyped == PeerSpec => []PeerTypeOK
<1>1. PeerInv => PeerTypeOK
  BY DEF PeerInv, Membership, Fetching, PeerTypeOK
<1>. QED  BY <1>1, PeerStart, PeerKept, PTL DEF PeerSpec

\* The slots of fetchSem that are taken are those of the fetches under way, on
\* every way out of Fetch.
THEOREM SlotsHeld == PeerSpec => []SlotsAreHeld
<1>1. PeerInv => SlotsAreHeld
  BY DEF PeerInv, Fetching
<1>. QED  BY <1>1, PeerStart, PeerKept, PTL DEF PeerSpec

\* Only an answer from an address clears its record (breakerAllowed,
\* recordPeerFailure and recordPeerSuccess).
THEOREM OnlyAnswers == PeerSpec => OnlyAnswersHeal
<1>1. ASSUME PeerInv, PeerNext, NEW a \in Addrs, breaker[a] # Healthy, breaker'[a] = Healthy
      PROVE  \E f \in PeerFetchers : PeerAnswered(f) /\ fetch[f].addr = a
  <2>1. /\ breaker \in [Addrs -> Records] /\ breaker[a] \in Records
        /\ breaker[a].state # "closed" => breaker[a].fails > 0
    BY <1>1 DEF PeerInv, Fetching
  <2>2. Healthy.fails = 0 /\ Healthy.state = "closed" /\ ~(0 > 0)
    BY SMTT(30) DEF Healthy
  <2>3. ASSUME NEW f \in PeerFetchers, PeerGate(f) PROVE FALSE
    <3>1. fetch[f].addr = a /\ breaker' = [breaker EXCEPT ![a].state = "closed"] /\ breaker[a].state # "tripped"
      <4>1. breaker' = [breaker EXCEPT ![fetch[f].addr].state = "closed"] /\ breaker[fetch[f].addr].state # "tripped"
        BY <1>1, <2>3 DEF PeerGate
      <4>2. fetch[f].addr # a => breaker'[a] = breaker[a]
        BY <2>1, <4>1
      <4>. QED  BY <1>1, <4>1, <4>2
    <3>2. breaker'[a] = [breaker[a] EXCEPT !.state = "closed"]
      BY <2>1, <3>1
    <3>3. breaker'[a].fails = breaker[a].fails
      BY <2>1, <3>2, RecordClosed
    <3>4. breaker[a].state = "closed"
      BY <1>1, <2>1, <2>2, <3>3
    <3>5. [breaker[a] EXCEPT !.state = "closed"] = breaker[a]
      BY <2>1, <3>4 DEF Records
    <3>. QED  BY <1>1, <3>2, <3>5
  <2>4. ASSUME NEW c \in Addrs, Lapse(c) PROVE FALSE
    <3>1. c # a => breaker'[a] = breaker[a]
      BY <2>1, <2>4 DEF Lapse
    <3>2. c = a => breaker'[a] = [breaker[a] EXCEPT !.state = "lapsed"]
      BY <2>1, <2>4 DEF Lapse
    <3>. QED  BY <1>1, <2>1, <2>2, <3>1, <3>2, RecordClosed
  <2>5. ASSUME NEW f \in PeerFetchers, RpcEnds(f)
        PROVE  PeerAnswered(f) /\ fetch[f].addr = a
    <3>1. fetch[f].addr \in Addrs
      BY <2>5, <1>1 DEF RpcEnds, PeerInv, Fetching
    <3>2. PICK b \in Records : RecordPeerFailure(fetch[f].addr) = [breaker EXCEPT ![fetch[f].addr] = b] /\ b.fails > 0
      BY <1>1, <3>1, FailureCounts DEF PeerInv
    <3>3. breaker' # RecordPeerFailure(fetch[f].addr)
      <4>. SUFFICES ASSUME breaker' = [breaker EXCEPT ![fetch[f].addr] = b] PROVE FALSE
        BY <3>2
      <4>1. breaker'[a] = breaker[a] \/ breaker'[a] = b
        BY <2>1
      <4>. QED  BY <1>1, <2>2, <3>2, <4>1
    <3>4. PeerAnswered(f) /\ breaker' = [breaker EXCEPT ![fetch[f].addr] = Healthy]
      BY <1>1, <2>5, <3>3 DEF RpcEnds, RecordPeerSuccess
    <3>5. fetch[f].addr # a => breaker'[a] = breaker[a]
      BY <2>1, <3>4
    <3>. QED  BY <1>1, <3>4, <3>5
  <2>6. CASE UNCHANGED breaker
    BY <1>1, <2>6
  <2>. QED  BY <1>1, <2>3, <2>4, <2>5, <2>6
            DEF PeerNext, FetchStep, BeginFetch, AcquireSlot, Shed, GetClient, Change, JobStep, AddPeer,
                Unretire, Retire, RemovePeer, Collect, NextDrop, NextLook, BeginReconcile, BeginMerge, fetcherVars
<1>2. PeerInv /\ [PeerNext]_peerVars =>
        [\A a \in Addrs :
           (breaker[a] # Healthy /\ breaker'[a] = Healthy)
              => \E f \in PeerFetchers : PeerAnswered(f) /\ fetch[f].addr = a]_peerVars
  BY <1>1
<1>. QED  BY <1>2, PeerStart, PeerKept, PTL DEF PeerSpec, OnlyAnswersHeal
=============================================================================
