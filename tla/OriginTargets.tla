--------------------------- MODULE OriginTargets ----------------------------
(***************************************************************************)
(* An origin pool: round-robin over the targets that are not ejected,      *)
(* passive ejection by the outcome of fetches, active probes, the reaper   *)
(* that restores an ejected target once eject_for is over, and the hedged  *)
(* fetch that races a duplicate against a slow first attempt.              *)
(*                                                                         *)
(* Source: internal/origin/pool.go, health.go, hedgedfetch.go, sse.go and  *)
(* internal/transport/transport.go.                                        *)
(*                                                                         *)
(* Every atomic of a Target is read and written in steps of its own where  *)
(* another goroutine can come between.  Time is the age of the three       *)
(* instants the code keeps, counted no further than the longest window     *)
(* they are compared with.  A target's mood is what it answers: "up",      *)
(* "erring" (5xx responses) or "down" (no response).                       *)
(***************************************************************************)
EXTENDS Integers, Sequences, FiniteSets

CONSTANTS
  NTargets,
  Fetchers,           \* callers of the pool
  PoolPlans,          \* the configurations and scripts of a run
  CountWindow,        \* passive5xxCountWindow
  ProbeWindow,        \* successWindow, twice the probe interval
  HealthyThreshold, UnhealthyThreshold,
  DefaultEjectFor,
  LongestEjectFor     \* bound of the age of an ejection

Targets == 0..(NTargets - 1)
Moods == {"up", "erring", "down"}
FetchKinds == {"get", "post", "sse", "proxy"}

\* A plan: the passive threshold (0: no passive health), eject_for, whether
\* the prober runs, hedging, the path of the fetches ("ctx" or "deadline"),
\* the kinds of request, who makes how many, the moods met and how often they change,
\* and the values the knobs may be set to.
Plans ==
  [threshold : Nat, ejectFor : Nat, prober : BOOLEAN, hedge : BOOLEAN,
   path : {"ctx", "deadline"}, kinds : SUBSET FetchKinds,
   fetchers : SUBSET Fetchers, fetches : Nat, moods : SUBSET Moods, turns : Nat, knobs : SUBSET Nat]

ASSUME OriginAssumption ==
  /\ {NTargets, CountWindow, ProbeWindow, HealthyThreshold, UnhealthyThreshold,
      DefaultEjectFor, LongestEjectFor} \subseteq Nat \ {0}
  /\ PoolPlans \subseteq Plans
  /\ \A p \in PoolPlans : p.ejectFor <= LongestEjectFor
  /\ DefaultEjectFor <= LongestEjectFor

VARIABLES
  oplan,
  threshold, ejectFor,             \* the live knobs
  healthy, passive,                \* per target: flag, passiveErrors
  probeErr, streak,                \* probeErrors, successes
  sinceOK, sinceProbe, outSince,   \* ages; outSince is Unset without ejectedAt
  next,                            \* the round-robin counter
  mood, turns,
  fetchesLeft,
  fetcher, attempt,
  probe, reap,
  outFor, erased                   \* ghosts: age of the present ejection, and
                                   \* ejections whose time was erased

healthVars == <<healthy, passive, probeErr, streak, sinceOK, sinceProbe, outSince>>
knobVars == <<threshold, ejectFor>>
worldVars == <<mood, turns>>
originVars ==
  <<oplan, knobVars, healthVars, next, worldVars, fetchesLeft, fetcher, attempt,
    probe, reap, outFor, erased>>

Unset == -1
NoTarget == -1
Attempts == Fetchers \X {1, 2}

FetcherSteps == {"idle", "first", "race", "second"}
AttemptSteps ==
  {"idle", "pick", "scan", "send", "fly", "judge", "gate", "count", "eject", "mark",
   "reset", "stamp", "deliver"}
Outs == {"none", "ok", "5xx", "err", "cancelled"}
Tries ==
  [step : AttemptSteps, t : Targets \union {NoTarget}, start : Targets, i : Targets, out : Outs,
   thr : Nat, cnt : Nat]
Callers ==
  [step : FetcherSteps, kind : FetchKinds, cancelled : BOOLEAN, results : Seq({"ok", "err"}),
   got : {"none", "ok", "err"}, fired : 0..2]
Reapers ==
  [step : {"idle", "look", "zero", "restore", "clear"}, t : Targets, window : 0..LongestEjectFor,
   due : BOOLEAN]
NoAttempt ==
  [step |-> "idle", t |-> NoTarget, start |-> 0, i |-> 0, out |-> "none", thr |-> 0, cnt |-> 0]
NoFetch ==
  [step |-> "idle", kind |-> "get", cancelled |-> FALSE, results |-> <<>>, got |-> "none", fired |-> 0]
ReaperIdle == [step |-> "idle", t |-> 0, window |-> 0, due |-> FALSE]

OriginTypeOK ==
  /\ oplan \in PoolPlans
  /\ threshold \in Nat /\ ejectFor \in 0..LongestEjectFor
  /\ healthy \in [Targets -> BOOLEAN]
  /\ passive \in [Targets -> Nat]
  /\ probeErr \in [Targets -> 0..UnhealthyThreshold]
  /\ streak \in [Targets -> 0..HealthyThreshold]
  /\ sinceOK \in [Targets -> 0..CountWindow]
  /\ sinceProbe \in [Targets -> 0..ProbeWindow]
  /\ outSince \in [Targets -> -1..LongestEjectFor]
  /\ outFor \in [Targets -> 0..LongestEjectFor]
  /\ erased \subseteq Targets
  /\ next \in Targets
  /\ mood \in [Targets -> Moods] /\ turns \in Nat /\ fetchesLeft \in Nat
  /\ fetcher \in [Fetchers -> Callers]
  /\ attempt \in [Attempts -> Tries]
  /\ \A a \in Attempts : attempt[a].step \notin {"idle", "pick", "scan"} => attempt[a].t \in Targets
  /\ probe \in [Targets -> {"idle", "out", "fail", "eject", "ok", "restore"}]
  /\ reap \in Reapers

\* NewPool: an eject_for left at zero takes the default on a pool with
\* passive health.
BootEjectFor(p) == IF p.ejectFor = 0 /\ p.threshold > 0 THEN DefaultEjectFor ELSE p.ejectFor

OriginInit ==
  /\ oplan \in PoolPlans
  /\ threshold = oplan.threshold
  /\ ejectFor = BootEjectFor(oplan)
  /\ healthy = [t \in Targets |-> TRUE]
  /\ passive = [t \in Targets |-> 0]
  /\ probeErr = [t \in Targets |-> 0]
  /\ streak = [t \in Targets |-> 0]
  /\ sinceOK = [t \in Targets |-> CountWindow]
  /\ sinceProbe = [t \in Targets |-> ProbeWindow]
  /\ outSince = [t \in Targets |-> Unset]
  /\ next = 0
  /\ mood \in [Targets -> oplan.moods]
  /\ turns = oplan.turns
  /\ fetchesLeft = oplan.fetches
  /\ fetcher = [c \in Fetchers |-> NoFetch]
  /\ attempt = [a \in Attempts |-> NoAttempt]
  /\ probe = [t \in Targets |-> "idle"]
  /\ reap = ReaperIdle
  /\ outFor = [t \in Targets |-> LongestEjectFor]
  /\ erased = {}
-----------------------------------------------------------------------------
(* The caller: dispatch, doHedgedFetch and doHedgedResponse.               *)

\* hedgingAllowed: idempotent methods that did not announce an event stream.
HedgingAllowed(kind) == kind = "get"
Hedged(c) == oplan.hedge /\ HedgingAllowed(fetcher[c].kind)

Become(a, r) == attempt' = [attempt EXCEPT ![a] = r]
Fire(a) == Become(a, [NoAttempt EXCEPT !.step = "pick"])
CallerUnchanged == UNCHANGED <<oplan, knobVars, healthVars, next, worldVars, probe, reap, outFor, erased>>

\* The slots of an earlier request's attempts are free again.
Dispatch(c) ==
  /\ c \in oplan.fetchers /\ fetcher[c].step = "idle" /\ fetchesLeft > 0
  /\ \A n \in {1, 2} : attempt[<<c, n>>].step = "idle"
  /\ \E kind \in oplan.kinds :
       fetcher' = [fetcher EXCEPT ![c] = [NoFetch EXCEPT !.step = "first", !.kind = kind, !.fired = 1]]
  /\ fetchesLeft' = fetchesLeft - 1
  /\ Fire(<<c, 1>>)
  /\ CallerUnchanged

\* Every return runs the deferred cancel.
ReturnWith(c, got) ==
  fetcher' = [fetcher EXCEPT ![c] =
    [@ EXCEPT !.step = "idle", !.got = got, !.cancelled = TRUE, !.results = <<>>]]

\* The select of the single attempt: its result, or the hedge timer.
PrimaryReturns(c) ==
  /\ fetcher[c].step = "first" /\ fetcher[c].results # <<>>
  /\ ReturnWith(c, Head(fetcher[c].results))
  /\ UNCHANGED <<fetchesLeft, attempt>> /\ CallerUnchanged

HedgeTimer(c) ==
  /\ fetcher[c].step = "first" /\ Hedged(c)
  /\ fetcher' = [fetcher EXCEPT ![c] = [@ EXCEPT !.step = "race", !.fired = 2]]
  /\ Fire(<<c, 2>>)
  /\ UNCHANGED fetchesLeft /\ CallerUnchanged

\* first := <-resCh; cancel(); a success returns, an error waits.
FirstOfTwo(c) ==
  /\ fetcher[c].step = "race" /\ fetcher[c].results # <<>>
  /\ IF Head(fetcher[c].results) = "ok" THEN ReturnWith(c, "ok")
     ELSE fetcher' = [fetcher EXCEPT ![c] =
            [@ EXCEPT !.step = "second", !.cancelled = TRUE, !.results = Tail(fetcher[c].results)]]
  /\ UNCHANGED <<fetchesLeft, attempt>> /\ CallerUnchanged

SecondOfTwo(c) ==
  /\ fetcher[c].step = "second" /\ fetcher[c].results # <<>>
  /\ ReturnWith(c, Head(fetcher[c].results))
  /\ UNCHANGED <<fetchesLeft, attempt>> /\ CallerUnchanged

Caller(c) ==
  \/ Dispatch(c) \/ PrimaryReturns(c) \/ HedgeTimer(c) \/ FirstOfTwo(c) \/ SecondOfTwo(c)
-----------------------------------------------------------------------------
(* An attempt: pick, doSingleFetch and the passive accounting.             *)

Goto(a, step) == Become(a, [attempt[a] EXCEPT !.step = step])
AttemptUnchanged == UNCHANGED <<oplan, knobVars, worldVars, fetchesLeft, probe, reap>>

\* next.Add(1); the scan then loads one flag at a time.
PickStart(a) ==
  /\ attempt[a].step = "pick"
  /\ next' = (next + 1) % NTargets
  /\ Become(a, [attempt[a] EXCEPT !.step = "scan", !.start = next', !.i = 0])
  /\ UNCHANGED <<healthVars, fetcher, outFor, erased>> /\ AttemptUnchanged

\* The first healthy target; when all were seen ejected, the one it began at.
PickScan(a) ==
  LET at == attempt[a]
      t == (at.start + at.i) % NTargets
  IN /\ at.step = "scan"
     /\ Become(a, IF healthy[t] THEN [NoAttempt EXCEPT !.step = "send", !.t = t]
                  ELSE IF at.i + 1 < NTargets THEN [at EXCEPT !.i = at.i + 1]
                  ELSE [NoAttempt EXCEPT !.step = "send", !.t = at.start])
     /\ UNCHANGED <<healthVars, next, fetcher, outFor, erased>> /\ AttemptUnchanged

\* transport.Client.Do looks at its context once, before it sends; the
\* absolute deadline of the other path knows no cancellation.
Send(a) ==
  /\ attempt[a].step = "send"
  /\ Become(a, IF oplan.path = "ctx" /\ fetcher[a[1]].cancelled
               THEN [attempt[a] EXCEPT !.step = "judge", !.out = "cancelled"]
               ELSE [attempt[a] EXCEPT !.step = "fly"])
  /\ UNCHANGED <<healthVars, next, fetcher, outFor, erased>> /\ AttemptUnchanged

Answered(t) == CASE mood[t] = "up" -> "ok" [] mood[t] = "erring" -> "5xx" [] OTHER -> "err"

Land(a) ==
  /\ attempt[a].step = "fly"
  /\ Become(a, [attempt[a] EXCEPT !.step = "judge", !.out = Answered(attempt[a].t)])
  /\ UNCHANGED <<healthVars, next, fetcher, outFor, erased>> /\ AttemptUnchanged

\* The threshold: the live knob on the cache path, the value of the start on
\* the proxy path.  Connection errors are not gated, 5xx responses are.
Judge(a) ==
  LET at == attempt[a]
      thr == IF fetcher[a[1]].kind = "proxy" THEN oplan.threshold ELSE threshold
      step == CASE thr = 0 -> "deliver"
                [] at.out = "ok" -> "reset"
                [] at.out = "5xx" -> "gate"
                [] OTHER -> "count"
  IN /\ at.step = "judge"
     /\ Become(a, [at EXCEPT !.thr = thr, !.step = step])
     /\ UNCHANGED <<healthVars, next, fetcher, outFor, erased>> /\ AttemptUnchanged

\* recordPassive5xx: excused while a success is within the window.
Gate(a) ==
  /\ attempt[a].step = "gate"
  /\ Goto(a, IF sinceOK[attempt[a].t] < CountWindow THEN "deliver" ELSE "count")
  /\ UNCHANGED <<healthVars, next, fetcher, outFor, erased>> /\ AttemptUnchanged

CountError(a) ==
  LET at == attempt[a]  cnt == passive[at.t] + 1
  IN /\ at.step = "count"
     /\ passive' = [passive EXCEPT ![at.t] = cnt]
     /\ Become(a, [at EXCEPT !.cnt = cnt, !.step = IF cnt < at.thr THEN "deliver" ELSE "eject"])
     /\ UNCHANGED <<healthy, probeErr, streak, sinceOK, sinceProbe, outSince, next, fetcher, outFor, erased>>
     /\ AttemptUnchanged

\* passiveEjectAt: whoever wins the swap writes ejectedAt, afterwards.
PassiveEject(a) ==
  LET t == attempt[a].t
  IN /\ attempt[a].step = "eject"
     /\ Goto(a, IF healthy[t] THEN "mark" ELSE "deliver")
     /\ healthy' = [healthy EXCEPT ![t] = FALSE]
     /\ outFor' = [outFor EXCEPT ![t] = IF healthy[t] THEN 0 ELSE @]
     /\ UNCHANGED <<passive, probeErr, streak, sinceOK, sinceProbe, outSince, next, fetcher, erased>>
     /\ AttemptUnchanged

\* Mutant: the instant of the ejection is not kept.
MarkNothing(a) ==
  /\ attempt[a].step = "mark"
  /\ Goto(a, "deliver")
  /\ UNCHANGED <<healthVars, next, fetcher, outFor, erased>> /\ AttemptUnchanged

MarkEjected(a) ==
  /\ attempt[a].step = "mark"
  /\ outSince' = [outSince EXCEPT ![attempt[a].t] = 0]
  /\ erased' = erased \ {attempt[a].t}
  /\ Goto(a, "deliver")
  /\ UNCHANGED <<healthy, passive, probeErr, streak, sinceOK, sinceProbe, next, fetcher, outFor>>
  /\ AttemptUnchanged

\* notePassiveSuccess: the counter is reset, then the window moves.
NoteReset(a) ==
  /\ attempt[a].step = "reset"
  /\ passive' = [passive EXCEPT ![attempt[a].t] = 0]
  /\ Goto(a, "stamp")
  /\ UNCHANGED <<healthy, probeErr, streak, sinceOK, sinceProbe, outSince, next, fetcher, outFor, erased>>
  /\ AttemptUnchanged

NoteStamp(a) ==
  /\ attempt[a].step = "stamp"
  /\ sinceOK' = [sinceOK EXCEPT ![attempt[a].t] = 0]
  /\ Goto(a, "deliver")
  /\ UNCHANGED <<healthy, passive, probeErr, streak, sinceProbe, outSince, next, fetcher, outFor, erased>>
  /\ AttemptUnchanged

\* runAttempt's result goes into the channel of two; one that comes after
\* the caller returned is dropped with the channel.
DeliverResult(a) ==
  LET c == a[1]
      result == IF attempt[a].out \in {"ok", "5xx"} THEN "ok" ELSE "err"
  IN /\ attempt[a].step = "deliver"
     /\ fetcher' = IF fetcher[c].step = "idle" THEN fetcher
                   ELSE [fetcher EXCEPT ![c] = [@ EXCEPT !.results = Append(fetcher[c].results, result)]]
     /\ Become(a, [NoAttempt EXCEPT !.out = attempt[a].out])
     /\ UNCHANGED <<healthVars, next, outFor, erased>> /\ AttemptUnchanged

Attempt(a) ==
  \/ PickStart(a) \/ PickScan(a) \/ Send(a) \/ Land(a) \/ Judge(a) \/ Gate(a)
  \/ CountError(a) \/ PassiveEject(a) \/ MarkEjected(a) \/ NoteReset(a) \/ NoteStamp(a)
  \/ DeliverResult(a)
-----------------------------------------------------------------------------
(* The active prober: one goroutine per target and round.                  *)

ProbeUnchanged ==
  UNCHANGED <<oplan, knobVars, passive, sinceOK, outSince, next, worldVars, fetchesLeft,
              fetcher, attempt, reap, erased>>
ProbeGoto(t, step) == probe' = [probe EXCEPT ![t] = step]
AtMost(n, bound) == IF n > bound THEN bound ELSE n

ProbeAll ==
  /\ oplan.prober /\ \A t \in Targets : probe[t] = "idle"
  /\ probe' = [t \in Targets |-> "out"]
  /\ UNCHANGED <<healthy, probeErr, streak, sinceProbe, outFor>> /\ ProbeUnchanged

ProbeOne(t) ==
  /\ probe[t] = "out"
  /\ ProbeGoto(t, IF mood[t] = "up" THEN "ok" ELSE "fail")
  /\ UNCHANGED <<healthy, probeErr, streak, sinceProbe, outFor>> /\ ProbeUnchanged

\* recordFailure and recordProbeError up to the swap: the counters are this
\* goroutine's alone but for being zeroed.
RecordProbeError(t) ==
  LET excused == sinceProbe[t] < ProbeWindow
      cnt == IF excused THEN probeErr[t] ELSE AtMost(probeErr[t] + 1, UnhealthyThreshold)
  IN /\ probe[t] = "fail"
     /\ streak' = [streak EXCEPT ![t] = 0]
     /\ probeErr' = [probeErr EXCEPT ![t] = cnt]
     /\ ProbeGoto(t, IF ~excused /\ cnt >= UnhealthyThreshold THEN "eject" ELSE "idle")
     /\ UNCHANGED <<healthy, sinceProbe, outFor>> /\ ProbeUnchanged

ActiveEject(t) ==
  /\ probe[t] = "eject"
  /\ healthy' = [healthy EXCEPT ![t] = FALSE]
  /\ outFor' = [outFor EXCEPT ![t] = IF healthy[t] THEN 0 ELSE @]
  /\ ProbeGoto(t, "idle")
  /\ UNCHANGED <<probeErr, streak, sinceProbe>> /\ ProbeUnchanged

\* recordProbeSuccess up to the load of the flag.
RecordProbeSuccess(t) ==
  /\ probe[t] = "ok"
  /\ probeErr' = [probeErr EXCEPT ![t] = 0]
  /\ sinceProbe' = [sinceProbe EXCEPT ![t] = 0]
  /\ ProbeGoto(t, IF healthy[t] THEN "idle" ELSE "restore")
  /\ UNCHANGED <<healthy, streak, outFor>> /\ ProbeUnchanged

\* The success is counted, and the target restored when there are enough;
\* ejectedAt stays as it is.
ActiveRestore(t) ==
  LET cnt == AtMost(streak[t] + 1, HealthyThreshold)
      enough == cnt >= HealthyThreshold
  IN /\ probe[t] = "restore"
     /\ healthy' = [healthy EXCEPT ![t] = @ \/ enough]
     /\ streak' = [streak EXCEPT ![t] = IF enough /\ ~healthy[t] THEN 0 ELSE cnt]
     /\ ProbeGoto(t, "idle")
     /\ UNCHANGED <<probeErr, sinceProbe, outFor>> /\ ProbeUnchanged

Prober ==
  \/ ProbeAll
  \/ \E t \in Targets :
       \/ ProbeOne(t) \/ RecordProbeError(t) \/ ActiveEject(t)
       \/ RecordProbeSuccess(t) \/ ActiveRestore(t)
-----------------------------------------------------------------------------
(* The reaper of one pass over the targets.                                *)

HasReaper == BootEjectFor(oplan) > 0
ReapUnchanged ==
  UNCHANGED <<oplan, knobVars, probeErr, sinceOK, sinceProbe, next, worldVars, fetchesLeft,
              fetcher, attempt, probe, outFor>>
NextTarget == IF reap.t + 1 < NTargets THEN [reap EXCEPT !.step = "look", !.t = reap.t + 1] ELSE ReaperIdle

ReapStart ==
  /\ reap.due
  /\ reap' = IF ejectFor > 0 THEN [ReaperIdle EXCEPT !.step = "look", !.window = ejectFor]
             ELSE ReaperIdle
  /\ UNCHANGED <<healthy, passive, streak, outSince, erased>> /\ ReapUnchanged

ReapDueAt(t) == ~healthy[t] /\ outSince[t] # Unset /\ outSince[t] >= reap.window

ReapLook ==
  /\ reap.step = "look"
  /\ reap' = IF ReapDueAt(reap.t) THEN [reap EXCEPT !.step = "zero"] ELSE NextTarget
  /\ UNCHANGED <<healthy, passive, streak, outSince, erased>> /\ ReapUnchanged

ReapZero ==
  /\ reap.step = "zero"
  /\ passive' = [passive EXCEPT ![reap.t] = 0]
  /\ streak' = [streak EXCEPT ![reap.t] = 0]
  /\ reap' = [reap EXCEPT !.step = "restore"]
  /\ UNCHANGED <<healthy, outSince, erased>> /\ ReapUnchanged

ReapRestore ==
  /\ reap.step = "restore"
  /\ healthy' = [healthy EXCEPT ![reap.t] = TRUE]
  /\ reap' = IF healthy[reap.t] THEN NextTarget ELSE [reap EXCEPT !.step = "clear"]
  /\ UNCHANGED <<passive, streak, outSince, erased>> /\ ReapUnchanged

\* ejectedAt.Store(0), after the swap: by then the target may be out again.
ReapClear ==
  /\ reap.step = "clear"
  /\ outSince' = [outSince EXCEPT ![reap.t] = Unset]
  /\ erased' = IF healthy[reap.t] THEN erased ELSE erased \union {reap.t}
  /\ reap' = NextTarget
  /\ UNCHANGED <<healthy, passive, streak>> /\ ReapUnchanged

Reaper == ReapStart \/ ReapLook \/ ReapZero \/ ReapRestore \/ ReapClear
-----------------------------------------------------------------------------
(* The world: time, the targets' moods, the knobs.                         *)

Older(age, bound) == [t \in Targets |-> IF age[t] = Unset THEN Unset ELSE AtMost(age[t] + 1, bound)]

\* The reaper's ticker fires.  It reads the clock once a pass: a pass is
\* short beside a tick.
OriginTick ==
  /\ reap.step = "idle"
  /\ sinceOK' = Older(sinceOK, CountWindow)
  /\ sinceProbe' = Older(sinceProbe, ProbeWindow)
  /\ outSince' = Older(outSince, LongestEjectFor)
  /\ outFor' = Older(outFor, LongestEjectFor)
  /\ reap' = [reap EXCEPT !.due = HasReaper]
  /\ UNCHANGED <<oplan, knobVars, healthy, passive, probeErr, streak, next, worldVars,
                 fetchesLeft, fetcher, attempt, probe, erased>>

MoodTurns ==
  /\ turns > 0 /\ turns' = turns - 1
  /\ \E t \in Targets, m \in oplan.moods : m # mood[t] /\ mood' = [mood EXCEPT ![t] = m]
  /\ UNCHANGED <<oplan, knobVars, healthVars, next, fetchesLeft, fetcher, attempt, probe,
                 reap, outFor, erased>>

\* SetConsecutive5xx and SetEjectFor; the knob layer refuses eject_for on a
\* pool that was started without a reaper.
SetKnob ==
  /\ turns > 0 /\ turns' = turns - 1
  /\ \E v \in oplan.knobs :
       \/ threshold' = v /\ UNCHANGED ejectFor
       \/ HasReaper /\ ejectFor' = AtMost(v, LongestEjectFor) /\ UNCHANGED threshold
  /\ UNCHANGED <<oplan, healthVars, next, mood, fetchesLeft, fetcher, attempt, probe,
                 reap, outFor, erased>>

OriginNext ==
  \/ \E c \in Fetchers : Caller(c)
  \/ \E a \in Attempts : Attempt(a)
  \/ Prober \/ Reaper
  \/ OriginTick \/ MoodTurns \/ SetKnob

OriginSpec == OriginInit /\ [][OriginNext]_originVars

\* Goroutines that can run do, time passes, tickers fire.
OriginFairness ==
  /\ \A c \in Fetchers :
       WF_originVars(PrimaryReturns(c) \/ FirstOfTwo(c) \/ SecondOfTwo(c))
  /\ \A a \in Attempts : WF_originVars(Attempt(a))
  /\ WF_originVars(Prober) /\ WF_originVars(Reaper) /\ WF_originVars(OriginTick)
-----------------------------------------------------------------------------
(* Properties.                                                             *)

\* What a hedged fetch promises (doHedged's comment): "an error from a
\* request that raced against a still-successful duplicate must not fail the
\* caller".  On the deadline path an attempt that can still succeed is
\* waited for: a caller is told of an error only when no attempt of its
\* request is under way and none had a response.
HedgeSavesCaller ==
  oplan.path = "deadline" =>
    \A c \in Fetchers : fetcher[c].step = "idle" /\ fetcher[c].got = "err" =>
      \A n \in 1..fetcher[c].fired :
        attempt[<<c, n>>].step = "idle" /\ attempt[<<c, n>>].out \notin {"ok", "5xx"}

\* eject_for is served (EjectReaper's comment: "restores passively ejected
\* targets once ejectFor has elapsed"): the reaper gives no target back
\* before the ejection it ends has lasted the window it read.  A pool with a
\* prober is excepted: the prober restores a target and leaves ejectedAt as it
\* is, and the reaper may take that instant for the next ejection's.
EjectForServed ==
  [][~oplan.prober =>
       \A t \in Targets : ReapRestore /\ reap.t = t /\ ~healthy[t] => outFor[t] >= reap.window]_originVars

\* A way back: while a target is out, its ejection has an instant the reaper
\* can find, or a goroutine about to write it, or a prober that looks at it.
\* The one exception is an ejection whose instant the reaper erased when it
\* finished restoring the ejection before.
WayBack ==
  \A t \in Targets : ~healthy[t] =>
    \/ oplan.prober
    \/ outSince[t] # Unset
    \/ \E a \in Attempts : attempt[a].step = "mark" /\ attempt[a].t = t
    \/ t \in erased

\* An ejection ends: on a pool with a reaper whose window is not zero, a
\* target that is out is given back, unless its instant was erased.  It holds
\* again and again.
EjectionOver(t) == healthy[t] \/ ejectFor = 0 \/ t \in erased \/ oplan.prober

\* A caller gets an answer: hedged or not, whichever attempts fail.  It holds
\* again and again.
CallerFree(c) == fetcher[c].step = "idle"
=============================================================================
