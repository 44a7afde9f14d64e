-------------------------- MODULE RefreshScheduler --------------------------
(***************************************************************************)
(* Refresh before expiry: the heap of refresh times and the one goroutine  *)
(* that drains it, the registry of what to ask the origin for, and the     *)
(* background refreshes, next to the requests that store the same keys.    *)
(*                                                                         *)
(* Source: internal/cache/scheduler.go, refresh_registry.go,               *)
(* rate_limiter.go and handler.go (storeObject, registerRefresh,           *)
(* triggerBgRefresh, doBackgroundRefresh, scheduleRefreshRetry, Purge,     *)
(* SoftPurge, Close).                                                      *)
(*                                                                         *)
(* Time is relative: a heap entry has the ticks until its refreshAt, an    *)
(* object the ticks it stays fresh, the drainer's timer the ticks it still *)
(* sleeps; Tick moves them all.  The heap and its index are one function   *)
(* of the key, since every use of one is under the mutex of both.          *)
(***************************************************************************)
EXTENDS Naturals, FiniteSets, FiniteSetsExt

CONSTANTS
  RefreshKeys,    \* keys of the route
  Refreshers,     \* refreshes refreshSem admits
  Writers,        \* concurrent client requests that fill a key
  FreshFor,       \* ticks a stored response stays fresh
  Margin,         \* refresh_margin, in ticks
  CompactAhead,   \* compactionWindow, in ticks
  PersistCycles,  \* refreshPersistCycles
  RefreshPlans    \* [keys, gate, reactive, limited, heads, churn]: churn, that objects
                  \* go, fetches fail, heaps are compacted and the handler closes;
                  \* a route without refresh has no keys and no drainer

ASSUME RefreshAssumption ==
  /\ FreshFor \in Nat \ {0} /\ Margin \in 0..FreshFor
  /\ CompactAhead \in Nat /\ PersistCycles \in Nat
  /\ Refreshers \intersect Writers = {}

VARIABLES
  knob,       \* the plan: the options of the route
  object,     \* key -> the stored object, or Gone
  registry,   \* key -> [method, persist], or Unknown
  heap,       \* key -> ticks until its refresh, or Off
  ready,      \* a wake-up is pending
  drainer,    \* the drainer: [pc, key, timer, batch]
  tasks,      \* refresher or writer -> what it is doing
  shut,       \* Close: "open", "closing" (done is closed), "closed"
  owed,       \* ghost: keys whose present object was registered
  skipped     \* ghost: keys a skip branch gave up on

refreshVars == <<knob, object, registry, heap, ready, drainer, tasks, shut, owed, skipped>>

Off == FreshFor + 1
Ticks == 0..FreshFor
Gone == [left |-> 0, body |-> "none"]
Unknown == [method |-> "none", persist |-> 0]
NoKey == "none"
Resting == [pc |-> "rest", key |-> NoKey, left |-> 0, method |-> "none",
            popular |-> TRUE, body |-> "none"]
Looking == [pc |-> "look", key |-> NoKey, timer |-> Off, batch |-> Off]

Batch == [RefreshKeys -> Ticks \union {Off}]
Nothing == [k \in RefreshKeys |-> Off]

RefreshTypeOK ==
  /\ knob \in RefreshPlans
  /\ object \in [RefreshKeys -> [left : Ticks, body : {"none", "full", "empty"}]]
  /\ registry \in [RefreshKeys ->
       [method : {"none", "GET", "HEAD"}, persist : 0..PersistCycles]]
  /\ heap \in Batch
  /\ ready \in BOOLEAN
  /\ drainer \in [pc : {"look", "sleep", "pop", "fire", "unregister", "popped",
                         "sweep", "reinsert", "stopped"},
                  key : RefreshKeys \union {NoKey}, timer : Ticks \union {Off},
                  batch : Batch]
  /\ tasks \in [Refreshers \union Writers ->
       [pc : {"rest", "start", "fetch", "put", "register"},
        key : RefreshKeys \union {NoKey}, left : Ticks,
        method : {"none", "GET", "HEAD"}, popular : BOOLEAN,
        body : {"none", "full", "empty"}]]
  /\ shut \in {"open", "closing", "closed"}
  /\ owed \subseteq RefreshKeys /\ skipped \subseteq RefreshKeys

RefreshInit ==
  /\ knob \in RefreshPlans
  /\ object = [k \in RefreshKeys |-> Gone]
  /\ registry = [k \in RefreshKeys |-> Unknown]
  /\ heap = Nothing
  /\ ready = FALSE
  /\ drainer = [Looking EXCEPT !.pc = IF knob.keys = {} THEN "stopped" ELSE @, !.batch = Nothing]
  /\ tasks = [t \in Refreshers \union Writers |-> Resting]
  /\ shut = "open"
  /\ owed = {} /\ skipped = {}

Present(k) == object[k] # Gone
Live(k) == Present(k) /\ object[k].left > 0
Queued == {k \in RefreshKeys : heap[k] # Off}
Soonest == Min({heap[k] : k \in Queued})

-----------------------------------------------------------------------------
(* The scheduler.                                                          *)

\* Schedule: not once Stop has begun; a known key is moved, another pushed;
\* the drainer is woken, a wake-up that is already pending is enough.
Schedule(k, ticks) ==
  IF shut # "open" THEN UNCHANGED <<heap, ready>>
  ELSE /\ heap' = [heap EXCEPT ![k] = ticks]
       /\ ready' = TRUE

\* run, first half: the delay of the top is read under the mutex; an empty
\* heap waits for a wake-up alone (timer Off).
Look ==
  /\ drainer.pc = "look"
  /\ drainer' = IF Queued # {} /\ Soonest = 0 THEN [drainer EXCEPT !.pc = "pop"]
                ELSE [drainer EXCEPT !.pc = "sleep",
                        !.timer = IF Queued = {} THEN Off ELSE Soonest]
  /\ UNCHANGED <<knob, object, registry, heap, ready, tasks, shut, owed, skipped>>

\* Mutant: the timer's case of the select never fires.
NoTimer == FALSE /\ UNCHANGED <<drainer, ready>>

\* The cases of run's select.
OnDone ==
  /\ shut # "open"
  /\ drainer' = [drainer EXCEPT !.pc = "stopped", !.timer = Off]
  /\ UNCHANGED ready
OnReady ==
  /\ ready /\ ready' = FALSE
  /\ drainer' = [drainer EXCEPT !.pc = "look", !.timer = Off]

OnTimer ==
  /\ drainer.timer = 0
  /\ drainer' = [drainer EXCEPT !.pc = "pop", !.timer = Off]
  /\ UNCHANGED ready

\* Any case that is ready may be taken.
Awake ==
  /\ drainer.pc = "sleep"
  /\ OnDone \/ OnReady \/ OnTimer
  /\ UNCHANGED <<knob, object, registry, heap, tasks, shut, owed, skipped>>

\* run, second half: whatever is on top by now is popped, due or not.
\* There is a top: nobody else takes entries off the heap.
PopTop(k) ==
  /\ drainer.pc = "pop"
  /\ k \in Queued /\ heap[k] = Soonest
  /\ heap' = [heap EXCEPT ![k] = Off]
  /\ drainer' = [drainer EXCEPT !.pc = "fire", !.key = k]
  /\ UNCHANGED <<knob, object, registry, ready, tasks, shut, owed, skipped>>

\* After onPop: the next round, or a compaction when its ticker has fired.
\* Its first phase takes the entries of the near future off the heap.
AfterPop ==
  LET soon == {k \in Queued : heap[k] <= CompactAhead} IN
  /\ drainer.pc = "popped"
  /\ \/ /\ drainer' = [drainer EXCEPT !.pc = "look", !.key = NoKey]
        /\ UNCHANGED heap
     \/ /\ knob.churn /\ soon # {}
        /\ heap' = [k \in RefreshKeys |-> IF k \in soon THEN Off ELSE heap[k]]
        /\ drainer' = [drainer EXCEPT !.pc = "sweep", !.key = NoKey,
                         !.batch = [k \in RefreshKeys |->
                                      IF k \in soon THEN heap[k] ELSE Off]]
  /\ UNCHANGED <<knob, object, registry, ready, tasks, shut, owed, skipped>>

\* Its second phase, without the mutex: entries whose object is gone or stale
\* (lookupForRefresh) are dropped.
SweepBatch ==
  /\ drainer.pc = "sweep"
  /\ drainer' = [drainer EXCEPT !.pc = "reinsert",
                   !.batch = [k \in RefreshKeys |-> IF Live(k) THEN @[k] ELSE Off]]
  /\ UNCHANGED <<knob, object, registry, heap, ready, tasks, shut, owed, skipped>>

\* Mutant: only what was due is put back.
ReinsertDue ==
  /\ drainer.pc = "reinsert"
  /\ heap' = [k \in RefreshKeys |->
                IF heap[k] = Off /\ drainer.batch[k] = 0 THEN 0 ELSE heap[k]]
  /\ drainer' = [drainer EXCEPT !.pc = "look", !.batch = Nothing]
  /\ UNCHANGED <<knob, object, registry, ready, tasks, shut, owed, skipped>>

\* Its third phase: the others go back, unless they were scheduled anew.
Reinsert ==
  /\ drainer.pc = "reinsert"
  /\ heap' = [k \in RefreshKeys |-> IF heap[k] = Off THEN drainer.batch[k] ELSE heap[k]]
  /\ drainer' = [drainer EXCEPT !.pc = "look", !.batch = Nothing]
  /\ UNCHANGED <<knob, object, registry, ready, tasks, shut, owed, skipped>>

-----------------------------------------------------------------------------
(* The refresh.                                                            *)

Free(r) == tasks[r].pc = "rest"

\* triggerBgRefresh of the popped key, up to the decision: nothing once done
\* is closed; a key that is gone or stale is unregistered, in a step of its
\* own; a limited one waits a little; without a slot the key is let go.
TriggerBgRefresh ==
  LET k == drainer.key
      end == drainer' = [drainer EXCEPT !.pc = "popped"]
  IN
  /\ drainer.pc = "fire"
  /\ \/ shut # "open" /\ end /\ UNCHANGED <<heap, ready, tasks, skipped>>
     \/ /\ shut = "open" /\ ~Live(k)
        /\ drainer' = [drainer EXCEPT !.pc = "unregister"]
        /\ UNCHANGED <<heap, ready, tasks, skipped>>
     \/ /\ shut = "open" /\ Live(k) /\ knob.limited
        /\ Schedule(k, 1) /\ end
        /\ UNCHANGED <<tasks, skipped>>
     \/ /\ shut = "open" /\ Live(k)
        /\ \A r \in Refreshers : ~Free(r)
        /\ skipped' = skipped \union {k} /\ end
        /\ UNCHANGED <<heap, ready, tasks>>
     \/ /\ shut = "open" /\ Live(k)
        /\ \E r \in Refreshers, popular \in IF knob.gate THEN BOOLEAN ELSE {TRUE} :
             /\ Free(r)
             /\ tasks' = [tasks EXCEPT ![r] =
                  [Resting EXCEPT !.pc = "start", !.key = k, !.left = object[k].left,
                                  !.body = object[k].body, !.popular = popular]]
        /\ end
        /\ UNCHANGED <<heap, ready, skipped>>
  /\ UNCHANGED <<knob, object, registry, shut, owed>>

\* The Unregister of a key that was gone or stale when it was looked up.
Unregister ==
  /\ drainer.pc = "unregister"
  /\ registry' = [registry EXCEPT ![drainer.key] = Unknown]
  /\ drainer' = [drainer EXCEPT !.pc = "popped"]
  /\ UNCHANGED <<knob, object, heap, ready, tasks, shut, owed, skipped>>

SetTask(t, f) == tasks' = [tasks EXCEPT ![t] = f]
TaskDone(t) == SetTask(t, Resting)

\* doBackgroundRefresh up to the fetch: what is not registered is not fetched.
StartRefresh(r) ==
  LET e == registry[tasks[r].key] IN
  /\ tasks[r].pc = "start"
  /\ IF e = Unknown
     THEN TaskDone(r) /\ skipped' = skipped \union {tasks[r].key}
     ELSE /\ SetTask(r, [tasks[r] EXCEPT !.pc = "fetch", !.method = e.method])
          /\ UNCHANGED skipped
  /\ UNCHANGED <<knob, object, registry, heap, ready, drainer, shut, owed>>

\* scheduleRefreshRetry: half of what is left of the object's lifetime, at
\* most the margin and at least a second; nothing once it has expired.
RetryIn(left) == Max({1, Min({Margin, left \div 2})})

RetryLater(r) ==
  IF tasks[r].left = 0
  THEN /\ skipped' = skipped \union {tasks[r].key}
       /\ UNCHANGED <<heap, ready>>
  ELSE Schedule(tasks[r].key, RetryIn(tasks[r].left)) /\ UNCHANGED skipped

\* The body of what is stored: a 304 keeps the one of the object at hand, a
\* 200 brings its own, and there is none in a response to a HEAD.
Bodies(r) == {tasks[r].body, IF tasks[r].method = "HEAD" THEN "empty" ELSE "full"}

\* doBackgroundRefresh after the fetch: an error is tried again later; nothing
\* is stored once done is closed; a response that may not be stored is let go.
FetchEnds(r) ==
  /\ tasks[r].pc = "fetch"
  /\ \/ knob.churn /\ TaskDone(r) /\ RetryLater(r)
     \/ /\ IF shut # "open" THEN TaskDone(r)
           ELSE \E b \in Bodies(r) :
                  SetTask(r, [tasks[r] EXCEPT !.pc = "put", !.body = b, !.left = 0])
        /\ UNCHANGED <<heap, ready, skipped>>
     \/ /\ knob.churn /\ TaskDone(r)
        /\ skipped' = skipped \union {tasks[r].key}
        /\ UNCHANGED <<heap, ready>>
  /\ UNCHANGED <<knob, object, registry, drainer, shut, owed>>

-----------------------------------------------------------------------------
(* storeObject, of a refresh or of a client's request.                     *)

\* A client's request for a key that is not fresh brings a response from the
\* origin; a HEAD stores only the headers over the body it found.
ClientFetches(w, k, method) ==
  /\ shut = "open" /\ Free(w) /\ ~Live(k) /\ k \in knob.keys
  /\ knob.churn \/ registry[k] = Unknown
  /\ method = "HEAD" => knob.heads /\ Present(k)
  /\ SetTask(w, [Resting EXCEPT !.pc = "put", !.key = k, !.method = method,
                            !.body = IF method = "HEAD" THEN object[k].body ELSE "full"])
  /\ UNCHANGED <<knob, object, registry, heap, ready, drainer, shut, owed, skipped>>

PutObject(t) ==
  LET k == tasks[t].key IN
  /\ tasks[t].pc = "put"
  /\ object' = [object EXCEPT ![k] = [left |-> FreshFor, body |-> tasks[t].body]]
  /\ owed' = owed \ {k} /\ skipped' = skipped \ {k}
  /\ SetTask(t, [tasks[t] EXCEPT !.pc = "register", !.body = "none"])
  /\ UNCHANGED <<knob, registry, heap, ready, drainer, shut>>

\* registerRefresh, after the gates a route or a response fails for good:
\* reactive-first leaves out what a client stored; a refresh below min_hits
\* uses up a persist cycle, and is unregistered when there is none; the others
\* are registered, and due a margin before the lifetime ends.
RegisterRefresh(t) ==
  LET k == tasks[t].key
      cold == t \in Refreshers /\ ~tasks[t].popular
      due == /\ Schedule(k, FreshFor - Margin)
             /\ owed' = {q \in owed \union {k} : Live(q)}
      unscheduled == UNCHANGED <<heap, ready, owed>>
  IN /\ tasks[t].pc = "register"
     /\ CASE t \in Writers /\ knob.reactive -> unscheduled /\ UNCHANGED registry
          [] cold /\ registry[k].persist > 0 ->
               registry' = [registry EXCEPT ![k].persist = @ - 1] /\ due
          [] cold /\ registry[k].persist = 0 ->
               registry' = [registry EXCEPT ![k] = Unknown] /\ unscheduled
          [] OTHER ->
               /\ registry' = [registry EXCEPT ![k] =
                    [method |-> tasks[t].method, persist |-> PersistCycles]]
               /\ due
     /\ TaskDone(t)
     /\ UNCHANGED <<knob, object, drainer, shut, skipped>>

-----------------------------------------------------------------------------
(* What else happens to the keys, time, and the end.                       *)

\* An eviction leaves the registry alone.
EvictKey(k) ==
  /\ Present(k) /\ knob.churn /\ shut = "open"
  /\ object' = [object EXCEPT ![k] = Gone]
  /\ owed' = owed \ {k}
  /\ UNCHANGED <<knob, registry, heap, ready, drainer, tasks, shut, skipped>>

\* Purge: the object goes and its registration with it; the heap keeps its
\* entry until the drainer or a compaction comes by.
PurgeKey(k) ==
  /\ Present(k) /\ knob.churn /\ shut = "open"
  /\ object' = [object EXCEPT ![k] = Gone]
  /\ registry' = [registry EXCEPT ![k] = Unknown]
  /\ owed' = owed \ {k}
  /\ UNCHANGED <<knob, heap, ready, drainer, tasks, shut, skipped>>

\* SoftPurge of an object with a grace window: it is stale from now on.
SoftPurgeKey(k) ==
  /\ Live(k) /\ knob.churn /\ shut = "open"
  /\ object' = [object EXCEPT ![k].left = 0]
  /\ owed' = owed \ {k}
  /\ UNCHANGED <<knob, registry, heap, ready, drainer, tasks, shut, skipped>>

Less(n) == IF n \in 1..FreshFor THEN n - 1 ELSE n

\* Time passes; a timer that has run out does not wait for ever.
Tick ==
  /\ shut # "closed"
  /\ object' = [k \in RefreshKeys |-> [object[k] EXCEPT !.left = Less(@)]]
  /\ heap' = [k \in RefreshKeys |-> Less(heap[k])]
  /\ drainer' = [drainer EXCEPT !.timer = Less(@),
                   !.batch = [k \in RefreshKeys |-> Less(@[k])]]
  /\ tasks' = [t \in DOMAIN tasks |-> [tasks[t] EXCEPT !.left = Less(@)]]
  /\ owed' = {k \in owed : object'[k].left > 0}
  /\ <<object', heap', drainer', tasks'>> # <<object, heap, drainer, tasks>>
  /\ UNCHANGED <<knob, registry, ready, shut, skipped>>

\* Close: done is closed and the scheduler told to stop, with a wake-up; the
\* listeners have been drained before.
BeginClose ==
  /\ shut = "open" /\ knob.churn
  /\ \A w \in Writers : Free(w)
  /\ shut' = "closing" /\ ready' = TRUE
  /\ UNCHANGED <<knob, object, registry, heap, drainer, tasks, owed, skipped>>

\* Close returns when the drainer has stopped and the refreshes have ended.
Joined == drainer.pc = "stopped" /\ \A r \in Refreshers : Free(r)

EndClose ==
  /\ shut = "closing" /\ Joined
  /\ shut' = "closed"
  /\ UNCHANGED <<knob, object, registry, heap, ready, drainer, tasks, owed, skipped>>

DrainerMoves ==
  \/ Look \/ Awake \/ (\E k \in RefreshKeys : PopTop(k)) \/ TriggerBgRefresh \/ Unregister
  \/ AfterPop \/ SweepBatch \/ Reinsert
Work(t) == PutObject(t) \/ RegisterRefresh(t)
Refresh(r) == StartRefresh(r) \/ FetchEnds(r)

RefreshNext ==
  \/ DrainerMoves
  \/ \E t \in Refreshers \union Writers : Work(t)
  \/ \E r \in Refreshers : Refresh(r)
  \/ \E w \in Writers, k \in RefreshKeys, m \in {"GET", "HEAD"} : ClientFetches(w, k, m)
  \/ \E k \in RefreshKeys : EvictKey(k) \/ PurgeKey(k) \/ SoftPurgeKey(k)
  \/ Tick \/ BeginClose \/ EndClose

\* Goroutines run, a fetch ends by refreshTimeout at the latest, time passes.
\* Of two entries that are overdue the older is on top: the heap compares
\* instants, of which the ticks keep only that both have passed, so a key that
\* could be popped again and again is popped.
RefreshFairness ==
  /\ \A k \in RefreshKeys : SF_refreshVars(PopTop(k))
  /\ WF_refreshVars(DrainerMoves) /\ WF_refreshVars(Tick) /\ WF_refreshVars(EndClose)
  /\ \A t \in Refreshers \union Writers : WF_refreshVars(Work(t))
  /\ \A r \in Refreshers : WF_refreshVars(Refresh(r))

RefreshSpec == RefreshInit /\ [][RefreshNext]_refreshVars /\ RefreshFairness

-----------------------------------------------------------------------------
(* Properties.                                                             *)

InHand(k) == drainer.key = k \/ drainer.batch[k] # Off
InWork(k) == \E t \in DOMAIN tasks : tasks[t].key = k

\* A registered object that is still fresh is never forgotten: its refresh is
\* in the heap, in the drainer's hands or under way, whatever schedules,
\* compactions, retries and refreshes of the key overlap; but for the skips
\* the code counts (semaphore_full, not_registered, a response it may not
\* store) and a scheduler that has been stopped.
RefreshNotForgotten ==
  shut = "open" =>
    \A k \in owed \ skipped : heap[k] # Off \/ InHand(k) \/ InWork(k)

\* The drainer never sleeps past the earliest refresh: without a wake-up
\* pending its timer ends no later than the entry on top (run reads the top,
\* unlocks and sleeps; Schedule must wake it).
NeverOversleeps ==
  (drainer.pc = "sleep" /\ ~ready /\ Queued # {}) => drainer.timer <= Soonest

\* No refresh is lost: what is registered and fresh is queued or under way,
\* and the drainer never sleeps past the earliest entry.
RefreshesAreKept == RefreshNotForgotten /\ NeverOversleeps

\* Once Close has returned nothing is popped, fetched or stored ("After Stop,
\* no more onPop callbacks will fire", scheduler.go).
StopIsFinal ==
  [][shut = "closed" => UNCHANGED <<registry, drainer.pc>> /\
       \A k \in RefreshKeys : object'[k].left <= object[k].left]_refreshVars

\* An entry that is due does not stay in the heap: it is popped, or moved, in
\* the end, unless the handler closes; no wake-up is lost and no key starves
\* the others.
NotDue(k) == heap[k] # 0 \/ shut # "open"
EntriesArePopped == \A k \in RefreshKeys : []<>NotDue(k)

\* Close returns.
SchedulerNotClosing == shut # "closing"
CloseEnds == []<>SchedulerNotClosing

\* A refresh never replaces a stored body by the empty one of a response to a
\* HEAD ("background fetches always remap HEAD to GET (remapHeadToGet) and
\* stay in the GET flight space", headRevalKeySuffix).  It does not hold: a
\* HEAD is registered with its method and refreshed with it.
RefreshKeepsBody == \A k \in RefreshKeys : object[k].body # "empty"
=============================================================================
