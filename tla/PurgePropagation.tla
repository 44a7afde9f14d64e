-------------------------- MODULE PurgePropagation --------------------------
(***************************************************************************)
(* Invalidations forwarded to Cloudflare: the mapping of purges and bans   *)
(* to items, the batcher, the API call with its own retries, the circuit   *)
(* breaker in front of it and the queue of failed items behind it.         *)
(*                                                                         *)
(* Source: cmd/bouine/cmd/cloudflare.go and internal/cloudflare/.          *)
(*                                                                         *)
(* An item is a kind and a value.  A regular expression is known by what   *)
(* the mapper looks at: whether it is empty, begins with ^, ends with $ or *)
(* has other metacharacters.  A delay that has passed is a flag that time  *)
(* sets: due for a queued item, ripe for an open circuit.                  *)
(***************************************************************************)
EXTENDS Naturals, Sequences, FiniteSets, Functions

CONSTANTS
  Urls,               \* values of the items of kind "urls"
  Tasks,              \* goroutines of dispatch under way at once
  PurgePlans,
  CFMaxRetries,       \* maxRetries of one API call
  QueueMax, QueueRetries,
  FailureThreshold, HalfOpenMax, BatchMax

Kinds == {"urls", "tags", "prefixes", "hosts"}
Item(kind, v) == [kind |-> kind, value |-> v]
CFItems == {Item("urls", u) : u \in Urls} \union
           {Item(k, "v") : k \in Kinds \ {"urls"}}
Statuses == {"ok", "network", "429", "5xx", "4xx"}

Regexes == [empty : BOOLEAN, caret : BOOLEAN, dollar : BOOLEAN, meta : BOOLEAN]
NoRegex == [empty |-> TRUE, caret |-> FALSE, dollar |-> FALSE, meta |-> FALSE]
Literal == [NoRegex EXCEPT !.empty = FALSE]
BanExprs == [surrogate : BOOLEAN, path : Regexes, host : Regexes]

\* A plan: batching, async dispatch, circuit breaker, retry queue; which
\* bans and whether purges are asked for, how often; the API's answers, and
\* whether the propagator is closed.
PurgeChoices ==
  [batched : BOOLEAN, async : BOOLEAN, circuit : BOOLEAN, retry : BOOLEAN,
   purges : BOOLEAN, bans : SUBSET BanExprs, asks : Nat, statuses : SUBSET Statuses,
   closes : BOOLEAN]

ASSUME PurgeAssumption ==
  /\ PurgePlans \subseteq PurgeChoices
  /\ {QueueMax, QueueRetries, FailureThreshold, HalfOpenMax, BatchMax} \subseteq Nat \ {0}
  /\ CFMaxRetries \in Nat
  /\ Tasks \intersect (Kinds \union {"retrier"}) = {}

VARIABLES
  cfplan, asksLeft,
  bucket,             \* the batcher's pending items
  worker,             \* goroutines that call the API
  queue,              \* the retry queue: item -> [attempts, due]
  retrying,           \* what processReady has still to retry
  circuit,
  cfClosing,
  owed,               \* ghost: asked for, and not purged at the edge since
  reported,           \* ghost: given up with a metric or a log line
  crossed, mislabelled  \* ghosts: given up without one

cfVars ==
  <<cfplan, asksLeft, bucket, worker, queue, retrying, circuit, cfClosing, owed,
    reported, crossed, mislabelled>>

Flushers == Kinds
Retrier == "retrier"
Workers == Flushers \union {Retrier} \union Tasks
Work(step, calls, label, rest) ==
  [step |-> step, calls |-> calls, label |-> label, rest |-> rest, tries |-> 0, res |-> "none"]
NoWork == Work("idle", <<>>, {}, {})
Works ==
  [step : {"idle", "chunk", "gate", "call", "record", "enqueue", "forget", "backoff"},
   calls : Seq(SUBSET CFItems), label : SUBSET CFItems, rest : SUBSET CFItems,
   tries : 0..CFMaxRetries, res : {"none", "ok", "err"}]
Circuits ==
  [state : {"closed", "open", "half_open"}, failures : 0..FailureThreshold,
   used : 0..HalfOpenMax, ripe : BOOLEAN]
Waits == [attempts : 0..QueueRetries, due : BOOLEAN]
Closed == [state |-> "closed", failures |-> 0, used |-> 0, ripe |-> FALSE]

PurgeTypeOK ==
  /\ cfplan \in PurgePlans /\ asksLeft \in Nat /\ cfClosing \in BOOLEAN
  /\ bucket \subseteq CFItems /\ retrying \subseteq CFItems
  /\ worker \in [Workers -> Works]
  /\ DOMAIN queue \subseteq CFItems /\ Cardinality(DOMAIN queue) <= QueueMax
  /\ \A i \in DOMAIN queue : queue[i] \in Waits
  /\ circuit \in Circuits
  /\ owed \subseteq CFItems /\ reported \subseteq CFItems
  /\ crossed \subseteq CFItems /\ mislabelled \subseteq CFItems

PurgeInit ==
  /\ cfplan \in PurgePlans
  /\ asksLeft = cfplan.asks
  /\ bucket = {}
  /\ worker = [w \in Workers |-> NoWork]
  /\ queue = <<>>
  /\ retrying = {}
  /\ circuit = Closed
  /\ cfClosing = FALSE
  /\ owed = {} /\ reported = {} /\ crossed = {} /\ mislabelled = {}
-----------------------------------------------------------------------------
(* The mapper.                                                             *)

Skipped == [skipped |-> TRUE, items |-> {}]
Mapped(S) == [skipped |-> FALSE, items |-> S]

\* A literal prefix, anchored or not; ^ alone is every path.
MapPathRegex(r) ==
  IF r.empty \/ r.dollar \/ r.meta THEN Skipped ELSE Mapped({Item("prefixes", "v")})

MapHostRegex(r) ==
  IF r.empty \/ r.dollar \/ r.meta \/ r.caret THEN Skipped ELSE Mapped({Item("hosts", "v")})

MergeResults(a, b) == [skipped |-> a.skipped \/ b.skipped, items |-> a.items \union b.items]

\* PropagateForBan: the surrogate key first, then the regular expressions.
MapBan(e) ==
  CASE e.surrogate -> Mapped({Item("tags", "v")})
    [] ~e.surrogate /\ ~e.path.empty /\ ~e.host.empty ->
         MergeResults(MapPathRegex(e.path), MapHostRegex(e.host))
    [] ~e.surrogate /\ ~e.path.empty /\ e.host.empty -> MapPathRegex(e.path)
    [] ~e.surrogate /\ e.path.empty /\ ~e.host.empty -> MapHostRegex(e.host)
    [] OTHER -> Mapped({})
-----------------------------------------------------------------------------
(* The circuit breaker.                                                    *)

Allow(c) ==
  LET probing == IF c.state = "open" /\ c.ripe THEN [c EXCEPT !.state = "half_open", !.used = 0, !.ripe = FALSE]
                 ELSE c
      spare == probing.state = "half_open" /\ probing.used < HalfOpenMax
  IN [ok |-> c.state = "closed" \/ spare,
      next |-> IF spare THEN [probing EXCEPT !.used = @ + 1] ELSE probing]

RecordSuccess(c) ==
  IF c.state = "half_open" THEN [c EXCEPT !.state = "closed", !.failures = 0]
  ELSE [c EXCEPT !.failures = 0]

RecordFailure(c) ==
  LET opened == [c EXCEPT !.state = "open", !.used = 0, !.ripe = FALSE]
  IN CASE c.state = "closed" /\ c.failures + 1 >= FailureThreshold ->
            [opened EXCEPT !.failures = c.failures + 1]
       [] c.state = "closed" /\ c.failures + 1 < FailureThreshold ->
            [c EXCEPT !.failures = @ + 1]
       [] c.state = "half_open" -> opened
       [] OTHER -> c
-----------------------------------------------------------------------------
(* Requests.                                                               *)

\* Who will report an item, or purge it, once it stands somewhere.
Ask(S) ==
  /\ asksLeft > 0 /\ ~cfClosing
  /\ asksLeft' = asksLeft - 1
  /\ owed' = owed \union S
  /\ reported' = reported \ S
  /\ crossed' = crossed \ S
  /\ mislabelled' = mislabelled \ S
  /\ UNCHANGED <<cfplan, queue, retrying, circuit, cfClosing>>

\* In passthrough mode one goroutine makes the calls one after another; on
\* failure what it labels, the tags of a ban, goes to the retry queue.
Spawn(calls, label) ==
  \E t \in Tasks :
    /\ worker[t].step = "idle"
    /\ worker' = [worker EXCEPT ![t] = Work("gate", calls, label, {})]

\* PropagateForPurge, PropagateForRefresh and PropagateExternal of one URL.
PropagateForPurge(u) ==
  LET S == {Item("urls", u)}
  IN /\ cfplan.purges
     /\ Ask(S)
     /\ IF cfplan.batched THEN bucket' = bucket \union S /\ UNCHANGED worker
        ELSE Spawn(<<S>>, S) /\ UNCHANGED bucket

OfKind(S, k) == {i \in S : i.kind = k}

\* A call for the items of one kind, when there are any.
CallFor(S, k) == IF OfKind(S, k) = {} THEN <<>> ELSE <<OfKind(S, k)>>

PropagateForBan(e) ==
  LET result == MapBan(e)
      S == IF result.skipped THEN {} ELSE result.items
      calls == CallFor(S, "tags") \o CallFor(S, "prefixes") \o CallFor(S, "hosts")
  IN /\ Ask(S)
     /\ IF S = {} THEN UNCHANGED <<bucket, worker>>
        ELSE IF cfplan.batched THEN bucket' = bucket \union S /\ UNCHANGED worker
        ELSE Spawn(calls, OfKind(S, "tags")) /\ UNCHANGED bucket
-----------------------------------------------------------------------------
(* The goroutines that call the API.                                       *)

CFUnchanged == UNCHANGED <<cfplan, asksLeft, cfClosing>>
SetWork(w, rec) == worker' = [worker EXCEPT ![w] = rec]

\* flushLoop: a full batch, the timer, or the end; drain takes everything.
Drain(k) ==
  /\ worker[k].step = "idle" /\ OfKind(bucket, k) # {}
  /\ SetWork(k, Work("chunk", <<>>, {}, OfKind(bucket, k)))
  /\ bucket' = bucket \ OfKind(bucket, k)
  /\ UNCHANGED <<queue, retrying, circuit, owed, reported, crossed, mislabelled>> /\ CFUnchanged

\* doFlush: chunk by chunk, in the order the map was walked.
NextChunk(k) ==
  LET rest == worker[k].rest
      size == IF Cardinality(rest) < BatchMax THEN Cardinality(rest) ELSE BatchMax
  IN /\ worker[k].step = "chunk"
     /\ \/ rest = {} /\ SetWork(k, NoWork)
        \/ \E chunk \in SUBSET rest :
             /\ rest # {} /\ Cardinality(chunk) = size
             /\ SetWork(k, Work("gate", <<chunk>>, chunk, rest \ chunk))
     /\ UNCHANGED <<bucket, queue, retrying, circuit, owed, reported, crossed, mislabelled>>
     /\ CFUnchanged

\* Where a worker goes once its call is over.
Afterwards(w) ==
  IF w \in Flushers THEN Work("chunk", <<>>, {}, worker[w].rest) ELSE NoWork

\* The gate of recordFlush, dispatch and retryCallDirect.
Gatekeep(w) ==
  LET a == IF cfplan.circuit THEN Allow(circuit) ELSE [ok |-> TRUE, next |-> circuit]
      rejected == IF w = Retrier THEN [worker[w] EXCEPT !.step = "backoff"]
                  ELSE [worker[w] EXCEPT !.step = "enqueue", !.res = "err"]
  IN /\ worker[w].step = "gate"
     /\ circuit' = a.next
     /\ SetWork(w, IF a.ok THEN [worker[w] EXCEPT !.step = "call"] ELSE rejected)
     /\ UNCHANGED <<bucket, queue, retrying, owed, reported, crossed, mislabelled>> /\ CFUnchanged

\* tryDecision.next: what is tried again, and how often.
TryAgain(status, tries) == status \in {"network", "429", "5xx"} /\ tries < CFMaxRetries

\* One try of doPurge; a cancelled context fails it at once.
CallAPI(w) ==
  LET at == worker[w]
      cancelled == cfClosing /\ (w \notin Tasks \/ cfplan.async)
  IN /\ at.step = "call"
     /\ \E status \in IF cancelled THEN {"4xx"} ELSE cfplan.statuses :
          CASE status = "ok" ->
                 /\ owed' = owed \ Head(at.calls)
                 /\ SetWork(w, IF Len(at.calls) > 1 THEN [at EXCEPT !.calls = Tail(@), !.tries = 0]
                               ELSE [at EXCEPT !.step = "record", !.res = "ok"])
            [] status # "ok" /\ TryAgain(status, at.tries) ->
                 UNCHANGED owed /\ SetWork(w, [at EXCEPT !.tries = @ + 1])
            [] OTHER ->
                 UNCHANGED owed /\ SetWork(w, [at EXCEPT !.step = "record", !.res = "err"])
     /\ UNCHANGED <<bucket, queue, retrying, circuit, reported, crossed, mislabelled>> /\ CFUnchanged

\* Items of failed calls that the label does not name are queued nowhere.
InCalls(calls) == UNION {calls[n] : n \in 1..Len(calls)}
CallsWithout(calls, i) == [calls EXCEPT ![1] = @ \ {i}]
Unlabelled(w, at) == IF w \in Tasks THEN InCalls(at.calls) \ at.label ELSE {}

RecordCall(w) ==
  LET at == worker[w]
  IN /\ at.step = "record"
     /\ circuit' = IF ~cfplan.circuit THEN circuit
                   ELSE IF at.res = "ok" THEN RecordSuccess(circuit) ELSE RecordFailure(circuit)
     /\ SetWork(w, CASE w = Retrier /\ at.res = "ok" -> [at EXCEPT !.step = "forget"]
                     [] w = Retrier /\ at.res = "err" -> [at EXCEPT !.step = "backoff"]
                     [] w # Retrier /\ at.res = "err" -> [at EXCEPT !.step = "enqueue"]
                     [] OTHER -> Afterwards(w))
     /\ UNCHANGED <<bucket, queue, retrying, owed, reported, crossed, mislabelled>> /\ CFUnchanged

Fresh == [attempts |-> 0, due |-> FALSE]
WithItem(i, rec) == [j \in DOMAIN queue \union {i} |-> IF j = i THEN rec ELSE queue[j]]
WithoutItems(S) == Restrict(queue, DOMAIN queue \ S)

\* enqueueFailedItems, one item at a time: nothing without a queue, nothing
\* for an item it holds, a drop when it is full.
EnqueueFailed(w) ==
  LET at == worker[w]
  IN /\ at.step = "enqueue"
     /\ IF at.label = {} THEN /\ SetWork(w, Afterwards(w))
                              /\ mislabelled' = mislabelled \union Unlabelled(w, at)
                              /\ UNCHANGED <<queue, reported>>
        ELSE \E i \in at.label :
          /\ SetWork(w, [at EXCEPT !.label = @ \ {i}, !.calls = CallsWithout(@, i)])
          /\ UNCHANGED mislabelled
          /\ CASE cfplan.retry /\ i \in DOMAIN queue -> UNCHANGED <<queue, reported>>
               [] cfplan.retry /\ i \notin DOMAIN queue /\ Cardinality(DOMAIN queue) < QueueMax ->
                    queue' = WithItem(i, Fresh) /\ UNCHANGED reported
               [] OTHER -> UNCHANGED queue /\ reported' = reported \union {i}
     /\ UNCHANGED <<bucket, retrying, circuit, owed, crossed>> /\ CFUnchanged
-----------------------------------------------------------------------------
(* The retry queue.                                                        *)

ItemDue(i) ==
  /\ i \in DOMAIN queue /\ ~queue[i].due
  /\ queue' = [queue EXCEPT ![i].due = TRUE]
  /\ UNCHANGED <<bucket, worker, retrying, circuit, owed, reported, crossed, mislabelled>> /\ CFUnchanged

\* processReady under the lock: what has no retry left goes, the rest of what
\* is due is counted and taken along.
ProcessReady ==
  LET due == {i \in DOMAIN queue : queue[i].due}
      expired == {i \in due : queue[i].attempts >= QueueRetries}
  IN /\ ~cfClosing /\ worker[Retrier].step = "idle" /\ retrying = {} /\ due # {}
     /\ queue' = [i \in DOMAIN queue \ expired |->
                    IF i \in due THEN [queue[i] EXCEPT !.attempts = @ + 1] ELSE queue[i]]
     /\ reported' = reported \union expired
     /\ retrying' = due \ expired
     /\ UNCHANGED <<bucket, worker, circuit, owed, crossed, mislabelled>> /\ CFUnchanged

\* retryFn: the batcher takes the item and that counts as a success, or the
\* call is made directly.
RetryItem(i) ==
  /\ i \in retrying /\ worker[Retrier].step = "idle"
  /\ retrying' = retrying \ {i}
  /\ IF cfplan.batched
     THEN /\ bucket' = bucket \union {i}
          /\ SetWork(Retrier, Work("forget", <<>>, {i}, {}))
     ELSE /\ UNCHANGED bucket
          /\ SetWork(Retrier, Work("gate", <<{i}>>, {i}, {}))
  /\ UNCHANGED <<queue, circuit, owed, reported, crossed, mislabelled>> /\ CFUnchanged

\* Somebody still has the item: it is pending, or a worker has yet to call
\* for it, or to queue it or to pass it over.
Holds(w, at) ==
  at.rest \union
    CASE at.step \in {"gate", "call", "record"} /\ at.res # "ok" -> InCalls(at.calls)
      [] at.step = "enqueue" -> at.label \union Unlabelled(w, at)
      [] OTHER -> {}
HeldByWorker(i) == i \in bucket \/ \E w \in Workers \ {Retrier} : i \in Holds(w, worker[w])

\* Mutant: an item is forgotten whether the retry worked or not.
ForgetAlways ==
  LET S == worker[Retrier].label
  IN /\ worker[Retrier].step = "backoff"
     /\ queue' = WithoutItems(S)
     /\ SetWork(Retrier, NoWork)
     /\ UNCHANGED <<bucket, retrying, circuit, owed, reported, crossed, mislabelled>> /\ CFUnchanged

\* The item leaves the queue; if its newer request failed in the meantime,
\* Enqueue found it there, and it is in the queue no more.
ForgetItem ==
  LET S == worker[Retrier].label
  IN /\ worker[Retrier].step = "forget"
     /\ queue' = WithoutItems(S)
     /\ crossed' = crossed \union {i \in S \intersect owed : ~HeldByWorker(i)}
     /\ SetWork(Retrier, NoWork)
     /\ UNCHANGED <<bucket, retrying, circuit, owed, reported, mislabelled>> /\ CFUnchanged

BackOff ==
  /\ worker[Retrier].step = "backoff"
  /\ queue' = [i \in DOMAIN queue |->
                 IF i \in worker[Retrier].label THEN [queue[i] EXCEPT !.due = FALSE] ELSE queue[i]]
  /\ SetWork(Retrier, NoWork)
  /\ UNCHANGED <<bucket, retrying, circuit, owed, reported, crossed, mislabelled>> /\ CFUnchanged

OpenTimeout ==
  /\ circuit.state = "open" /\ ~circuit.ripe
  /\ circuit' = [circuit EXCEPT !.ripe = TRUE]
  /\ UNCHANGED <<bucket, worker, queue, retrying, owed, reported, crossed, mislabelled>> /\ CFUnchanged

\* Close, or the end of the life cycle: the contexts are cancelled.
CloseCF ==
  /\ cfplan.closes /\ ~cfClosing
  /\ cfClosing' = TRUE
  /\ UNCHANGED <<cfplan, asksLeft, bucket, worker, queue, retrying, circuit, owed, reported,
                 crossed, mislabelled>>

Pipeline(w) == Gatekeep(w) \/ CallAPI(w) \/ RecordCall(w) \/ EnqueueFailed(w)
FlushLoop(k) == Drain(k) \/ NextChunk(k)
RetryLoop == ProcessReady \/ (\E i \in CFItems : RetryItem(i)) \/ ForgetItem \/ BackOff

PurgeNext ==
  \/ \E u \in Urls : PropagateForPurge(u)
  \/ \E e \in cfplan.bans : PropagateForBan(e)
  \/ \E k \in Flushers : FlushLoop(k)
  \/ \E w \in Workers : Pipeline(w)
  \/ RetryLoop
  \/ \E i \in CFItems : ItemDue(i)
  \/ OpenTimeout \/ CloseCF

PurgeSpec == PurgeInit /\ [][PurgeNext]_cfVars

PurgeFairness ==
  /\ \A k \in Flushers : WF_cfVars(FlushLoop(k))
  /\ \A w \in Workers : WF_cfVars(Pipeline(w))
  /\ WF_cfVars(RetryLoop)
  /\ \A i \in CFItems : WF_cfVars(ItemDue(i))
  /\ WF_cfVars(OpenTimeout)
-----------------------------------------------------------------------------
(* Properties.                                                             *)

\* No silent loss: an item that was asked for and is not purged yet is with
\* a worker, pending, or in the retry queue, or was given up with a metric
\* (queue full, retries used up) or a log line (no queue).  The exceptions
\* are the two the code has: the retry queue removes an item whose newer
\* request failed while the item was being retried, and a passthrough ban
\* queues its tags only.
NoSilentLoss ==
  ~cfClosing =>
    \A i \in owed :
      \/ HeldByWorker(i) \/ i \in DOMAIN queue \/ i \in reported
      \/ i \in crossed \/ i \in mislabelled

\* The circuit does not stay half open for want of a verdict: when the probe
\* budget is used up, one of the calls it admitted is still to be recorded.
HalfOpenIsProbed ==
  circuit.state = "half_open" =>
    /\ circuit.used > 0
    /\ \E w \in Workers : worker[w].step \in {"call", "record"}

\* Without the batcher every request is settled, even when the API never
\* recovers: it is purged, or given up after the retries the queue allows.
\* It holds again and again.
RequestSettled(i) ==
  \/ cfplan.batched \/ cfClosing
  \/ i \notin owed \/ i \in reported \/ i \in crossed \/ i \in mislabelled
=============================================================================
