-------------------------- MODULE EngineLifecycle ---------------------------
(***************************************************************************)
(* The life of one process: run's start-up sequence, the supervised group  *)
(* of goroutines it starts, the readiness gate, the data-plane listeners,  *)
(* the join with retry, and the shutdown sequencer with its steps.         *)
(*                                                                         *)
(* Source: cmd/bouine/cmd/engine.go, internal/runtime/shutdown,            *)
(* internal/runtime/supervised, internal/server/listener.go (Serve and     *)
(* Shutdown) and the swap of the admin handler.                            *)
(*                                                                         *)
(* What the subsystems do in between is in their own modules; here a       *)
(* request is something a listener has in flight, and a background refresh *)
(* something that may still write to the store.  The listeners are those   *)
(* of a node with a cached route, on which every connection is served by   *)
(* the HTTP/1.1 parser.                                                    *)
(***************************************************************************)
EXTENDS Naturals, Sequences

CONSTANT
  LifePlans     \* [valid, parts, tls, faulty, boots, drains]

\* The sequencer's function returns only after its last step.
ASSUME LifeAssumption == \A p \in LifePlans : "sequencer" \notin p.faulty

VARIABLES
  lifePlan,
  boot,         \* where run is
  stopped,      \* the group's context is cancelled
  member,       \* goroutine -> "idle", "running", "done" or "failed"
  sock,         \* listener -> "none", "bound", "closing" or "closed"
  busy,         \* listeners with a request in flight
  marked,       \* conditions of the readiness gate that hold
  serving,      \* the sequencer's ready flag
  routes,       \* the admin handler: "minimal" or "full"
  cache,        \* the store: "none", "open" or "closed"
  step,         \* the step the sequencer is at, 0 before Execute
  overran,      \* steps that used up their budget
  refreshing,   \* a background refresh is running
  left,         \* the node has left its cluster
  seeds,        \* the seed peers answer
  joining       \* the join: "idle", "retry", "background" or "joined"

lifeVars == <<lifePlan, boot, stopped, member, sock, busy, marked, serving, routes, cache, step,
              overran, refreshing, left, seeds, joining>>

\* The plan: the parts configured (of "cluster", "https", "refresh" and
\* "cloudflare"), whether the configuration and its TLS half load, the
\* goroutines that may fail, whether the store loads, and whether an operator drains.
Listening == {"http", "https"}
Tasks == {"admin", "tasks", "probes"}
Members == Listening \union Tasks \union {"join", "sequencer"}
Conditions == {"store-loaded", "listeners-bound"}
\* A cluster that fails to initialise is logged, and the node has none.
Has(part) == part \in lifePlan.parts
Running(m) == member[m] = "running"

LifeInit ==
  /\ lifePlan \in LifePlans
  /\ boot = (IF lifePlan.valid THEN "admin" ELSE "refused") /\ stopped = FALSE
  /\ member = [m \in Members |-> "idle"]
  /\ sock = [l \in Listening |-> "none"] /\ busy = {}
  /\ marked = {} /\ serving = TRUE /\ routes = "minimal"
  /\ cache = "none" /\ step = 0 /\ overran = {}
  /\ refreshing = FALSE /\ left = FALSE
  /\ seeds \in BOOLEAN /\ joining = "idle"

LifeTypeOK ==
  /\ lifePlan \in LifePlans
  /\ boot \in {"admin", "init", "data", "listen", "rest", "steps", "mark", "wait",
               "returned", "refused"}
  /\ stopped \in BOOLEAN
  /\ member \in [Members -> {"idle", "running", "done", "failed"}]
  /\ sock \in [Listening -> {"none", "bound", "closing", "closed"}]
  /\ busy \subseteq Listening
  /\ marked \subseteq Conditions
  /\ serving \in BOOLEAN
  /\ routes \in {"minimal", "full"}
  /\ cache \in {"none", "open", "closed"}
  /\ step \in Nat
  /\ overran \subseteq {"drain-refresh-handlers"}
  /\ {refreshing, left, seeds} \subseteq BOOLEAN
  /\ joining \in {"idle", "retry", "background", "joined"}

\* IsReady: the flag, and every condition of the gate.
IsReady == serving /\ marked = Conditions

-----------------------------------------------------------------------------
\* The steps registerShutdownSteps adds, in their order.
ShutdownSteps ==
  (IF Has("cluster") THEN <<"drain-peer-fetcher", "drain-broadcaster", "cluster-leave">> ELSE <<>>)
  \o <<"mark-not-ready", "drain-refresh-handlers", "flush-store">>
  \o (IF Has("cloudflare") THEN <<"drain-cloudflare">> ELSE <<>>)

Executing == step \in 1..Len(ShutdownSteps)
At(name) == Executing /\ ShutdownSteps[step] = name
Past(name) == \E i \in 1..Len(ShutdownSteps) : ShutdownSteps[i] = name /\ step > i

-----------------------------------------------------------------------------
\* run, one action for each stretch between two points where another
\* goroutine can tell the difference.
Start(ms) == member' = [m \in Members |-> IF m \in ms THEN "running" ELSE member[m]]

\* The admin server is started first, with the probes' routes only.
StartAdmin ==
  /\ boot = "admin" /\ boot' = "init"
  /\ Start({"admin"})
  /\ UNCHANGED <<lifePlan, stopped, sock, busy, marked, serving, routes, cache, step, overran,
                 refreshing, left, seeds, joining>>

\* initSubsystems: it has run's context, not the group's, so that the failure
\* of the admin server does not stop it.  An error ends run at once.
InitSubsystems ==
  /\ boot = "init"
  /\ IF lifePlan.boots
     THEN /\ boot' = "data" /\ cache' = "open" /\ marked' = {"store-loaded"}
     ELSE /\ boot' = "refused" /\ UNCHANGED <<cache, marked>>
  /\ UNCHANGED <<lifePlan, stopped, member, sock, busy, serving, routes, step, overran,
                 refreshing, left, seeds, joining>>

\* buildDataPlane, the background tasks, and the full admin handler.
StartTasks ==
  /\ boot = "data" /\ boot' = "listen"
  /\ Start({"tasks"})
  /\ routes' = "full"
  /\ UNCHANGED <<lifePlan, stopped, sock, busy, marked, serving, cache, step, overran,
                 refreshing, left, seeds, joining>>

\* startListeners: each Serve binds in its own goroutine; a TLS configuration
\* that does not load is logged, and there is no HTTPS listener.
StartListeners ==
  /\ boot = "listen" /\ boot' = "rest"
  /\ Start({"http"} \union {l \in {"https"} : Has("https") /\ lifePlan.tls})
  /\ UNCHANGED <<lifePlan, stopped, sock, busy, marked, serving, routes, cache, step, overran,
                 refreshing, left, seeds, joining>>

\* startHealthChecks, startEjectReapers and startClusterJoin.
StartRest ==
  /\ boot = "rest" /\ boot' = "steps"
  /\ Start({"probes"} \union {m \in {"join"} : Has("cluster")})
  /\ joining' = IF Has("cluster") THEN "retry" ELSE joining
  /\ UNCHANGED <<lifePlan, stopped, sock, busy, marked, serving, routes, cache, step, overran,
                 refreshing, left, seeds>>

\* Mutant: the sequencer is not one of the goroutines that run waits for.
DetachedSteps ==
  /\ boot = "steps" /\ boot' = "mark"
  /\ UNCHANGED <<lifePlan, stopped, member, sock, busy, marked, serving, routes, cache, step,
                 overran, refreshing, left, seeds, joining>>

\* registerShutdownSteps: the sequencer is a member of the group.
RegisterShutdownSteps ==
  /\ boot = "steps" /\ boot' = "mark"
  /\ Start({"sequencer"})
  /\ UNCHANGED <<lifePlan, stopped, sock, busy, marked, serving, routes, cache, step, overran,
                 refreshing, left, seeds, joining>>

MarkBound ==
  /\ boot = "mark" /\ boot' = "wait"
  /\ marked' = marked \union {"listeners-bound"}
  /\ UNCHANGED <<lifePlan, stopped, member, sock, busy, serving, routes, cache, step, overran,
                 refreshing, left, seeds, joining>>

\* Wait returns once no member runs any more.
Return ==
  /\ boot = "wait" /\ boot' = "returned"
  /\ \A m \in Members : ~Running(m)
  /\ UNCHANGED <<lifePlan, stopped, member, sock, busy, marked, serving, routes, cache, step,
                 overran, refreshing, left, seeds, joining>>

-----------------------------------------------------------------------------
\* The group: the first member to fail, or to panic, cancels its context, as
\* the signal that ends run's does.
Alive == boot \notin {"returned", "refused"}

Signal ==
  /\ Alive /\ ~stopped /\ stopped' = TRUE
  /\ UNCHANGED <<lifePlan, boot, member, sock, busy, marked, serving, routes, cache, step,
                 overran, refreshing, left, seeds, joining>>

Fail(m) ==
  /\ Alive /\ m \in lifePlan.faulty /\ Running(m)
  /\ member' = [member EXCEPT ![m] = "failed"]
  /\ stopped' = TRUE
  /\ sock' = IF m \in Listening THEN [sock EXCEPT ![m] = "closed"] ELSE sock
  /\ busy' = busy \ {m}
  /\ UNCHANGED <<lifePlan, boot, marked, serving, routes, cache, step, overran, refreshing,
                 left, seeds, joining>>

\* A member that only waits for the context: it ends.
TaskEnds(m) ==
  /\ Alive /\ stopped /\ m \in Tasks \union {"join"} /\ Running(m)
  /\ member' = [member EXCEPT ![m] = "done"]
  /\ UNCHANGED <<lifePlan, boot, stopped, sock, busy, marked, serving, routes, cache, step,
                 overran, refreshing, left, seeds, joining>>

-----------------------------------------------------------------------------
\* A listener: Serve binds, whatever became of the context meanwhile; the
\* context closes the socket and the idle connections; Serve returns when no
\* request is in flight any more.
Bind(l) ==
  /\ Alive /\ Running(l) /\ sock[l] = "none"
  /\ sock' = [sock EXCEPT ![l] = "bound"]
  /\ UNCHANGED <<lifePlan, boot, stopped, member, busy, marked, serving, routes, cache, step,
                 overran, refreshing, left, seeds, joining>>

CloseSocket(l) ==
  /\ Alive /\ Running(l) /\ stopped /\ sock[l] = "bound"
  /\ sock' = [sock EXCEPT ![l] = "closing"]
  /\ UNCHANGED <<lifePlan, boot, stopped, member, busy, marked, serving, routes, cache, step,
                 overran, refreshing, left, seeds, joining>>

ServeReturns(l) ==
  /\ Alive /\ Running(l) /\ sock[l] = "closing" /\ l \notin busy
  /\ sock' = [sock EXCEPT ![l] = "closed"]
  /\ member' = [member EXCEPT ![l] = "done"]
  /\ UNCHANGED <<lifePlan, boot, stopped, busy, marked, serving, routes, cache, step, overran,
                 refreshing, left, seeds, joining>>

\* A request comes in, and is answered.
AcceptRequest(l) ==
  /\ Alive /\ sock[l] = "bound" /\ l \notin busy
  /\ busy' = busy \union {l}
  /\ UNCHANGED <<lifePlan, boot, stopped, member, sock, marked, serving, routes, cache, step,
                 overran, refreshing, left, seeds, joining>>

Respond(l) ==
  /\ Alive /\ l \in busy
  /\ busy' = busy \ {l}
  /\ UNCHANGED <<lifePlan, boot, stopped, member, sock, marked, serving, routes, cache, step,
                 overran, refreshing, left, seeds, joining>>

\* A background refresh of a route that refreshes before expiry: none starts
\* once Close has begun.
RefreshStarts ==
  /\ Alive /\ Has("refresh") /\ boot \in {"rest", "steps", "mark", "wait"}
  /\ ~refreshing /\ refreshing' = TRUE
  /\ ~At("drain-refresh-handlers") /\ ~Past("drain-refresh-handlers")
  /\ UNCHANGED <<lifePlan, boot, stopped, member, sock, busy, marked, serving, routes, cache,
                 step, overran, left, seeds, joining>>

RefreshEnds ==
  /\ Alive /\ refreshing /\ refreshing' = FALSE
  /\ UNCHANGED <<lifePlan, boot, stopped, member, sock, busy, marked, serving, routes, cache,
                 step, overran, left, seeds, joining>>

-----------------------------------------------------------------------------
\* The join: an attempt every tick, the deadline turning the first loop into
\* the slower one, which has no end but success or the context.
SeedsChange ==
  /\ Alive /\ Has("cluster") /\ seeds' = ~seeds
  /\ UNCHANGED <<lifePlan, boot, stopped, member, sock, busy, marked, serving, routes, cache,
                 step, overran, refreshing, left, joining>>

JoinSucceeds ==
  /\ Alive /\ Running("join") /\ seeds
  /\ joining' = "joined"
  /\ member' = [member EXCEPT !["join"] = "done"]
  /\ UNCHANGED <<lifePlan, boot, stopped, sock, busy, marked, serving, routes, cache, step,
                 overran, refreshing, left, seeds>>

JoinTimesOut ==
  /\ Alive /\ Running("join") /\ joining = "retry" /\ ~seeds
  /\ joining' = "background"
  /\ UNCHANGED <<lifePlan, boot, stopped, member, sock, busy, marked, serving, routes, cache,
                 step, overran, refreshing, left, seeds>>

-----------------------------------------------------------------------------
\* The /drain hook of the admin server, and the sequencer.
DrainNode ==
  /\ Alive /\ lifePlan.drains /\ Running("admin") /\ serving
  /\ serving' = FALSE
  /\ UNCHANGED <<lifePlan, boot, stopped, member, sock, busy, marked, routes, cache, step,
                 overran, refreshing, left, seeds, joining>>

\* Mutant: the sequencer waits for the drain hook as well.
ExecuteAfterDrain ==
  /\ Alive /\ Running("sequencer") /\ stopped /\ ~serving /\ step = 0
  /\ step' = 1
  /\ UNCHANGED <<lifePlan, boot, stopped, member, sock, busy, marked, serving, routes, cache,
                 overran, refreshing, left, seeds, joining>>

Execute ==
  /\ Alive /\ Running("sequencer") /\ stopped /\ step = 0
  /\ step' = 1 /\ serving' = FALSE
  /\ UNCHANGED <<lifePlan, boot, stopped, member, sock, busy, marked, routes, cache, overran,
                 refreshing, left, seeds, joining>>

\* The next step comes whatever the last one returned; the sequencer is done
\* after the last.
AfterStep(fails) ==
  /\ step' = step + 1
  /\ member' = IF step' > Len(ShutdownSteps) THEN [member EXCEPT !["sequencer"] = "done"] ELSE member

\* Handler.Close waits for the refreshes that are running.
RefreshesOver == ~refreshing

\* A step that ends by itself, or by an error (a listener's, a peer's, the
\* store's: the rest of its work is done all the same).  Shutdown of a
\* listener whose connections the parser serves finds nothing to wait for.
StepEnds ==
  /\ Alive /\ Executing
  /\ At("drain-refresh-handlers") => RefreshesOver
  /\ left' = (left \/ At("cluster-leave"))
  /\ cache' = IF At("flush-store") THEN "closed" ELSE cache
  /\ \E fails \in BOOLEAN :
       /\ fails => ~At("drain-refresh-handlers")
       /\ AfterStep(fails)
  /\ UNCHANGED <<lifePlan, boot, stopped, sock, busy, marked, serving, routes, overran,
                 refreshing, seeds, joining>>

\* Close gives up at its deadline.
StepOverruns ==
  /\ Alive /\ At("drain-refresh-handlers") /\ refreshing
  /\ overran' = {"drain-refresh-handlers"}
  /\ AfterStep(TRUE)
  /\ UNCHANGED <<lifePlan, boot, stopped, sock, busy, marked, serving, routes, cache,
                 refreshing, left, seeds, joining>>

-----------------------------------------------------------------------------
RunSteps == \/ StartAdmin \/ InitSubsystems \/ StartTasks \/ StartListeners \/ StartRest
            \/ RegisterShutdownSteps \/ MarkBound \/ Return

LifeNext ==
  \/ RunSteps \/ Signal \/ DrainNode \/ Execute \/ StepEnds \/ StepOverruns
  \/ RefreshStarts \/ RefreshEnds \/ SeedsChange \/ JoinSucceeds \/ JoinTimesOut
  \/ \E m \in Members : Fail(m) \/ TaskEnds(m)
  \/ \E l \in Listening : Bind(l) \/ CloseSocket(l) \/ ServeReturns(l) \/ AcceptRequest(l) \/ Respond(l)

\* run and the sequencer are straight-line code; a member looks at its
\* context, Serve's goroutine gets to bind and to close, a request is answered
\* within its write deadline, and the join's ticker ticks (an attempt is made
\* again and again, so that one is made while the seeds answer).
LifeFairness ==
  /\ WF_lifeVars(RunSteps) /\ WF_lifeVars(Execute) /\ WF_lifeVars(StepEnds)
  /\ WF_lifeVars(RefreshEnds) /\ WF_lifeVars(StepOverruns)
  /\ WF_lifeVars(JoinSucceeds)
  /\ \A m \in Members : WF_lifeVars(TaskEnds(m))
  /\ \A l \in Listening : /\ WF_lifeVars(Bind(l)) /\ WF_lifeVars(CloseSocket(l))
                          /\ WF_lifeVars(ServeReturns(l)) /\ WF_lifeVars(Respond(l))

LifeSpec == LifeInit /\ [][LifeNext]_lifeVars /\ LifeFairness

-----------------------------------------------------------------------------
\* run returns only when everything is put away: the store is flushed, no
\* socket is open and no request in flight, whichever member failed and
\* whichever step did (registerShutdownSteps puts the sequencer in the group
\* that run waits for, and Execute goes on after an error).
ReturnsFlushed ==
  boot = "returned" =>
    /\ cache = "closed" /\ busy = {}
    /\ \A l \in Listening : sock[l] \in {"none", "closed"}
    /\ Has("cluster") => left

\* A node that answers its probe with "ready" has a store that is open, and
\* the full admin routes: the conditions are marked in run's order, and
\* Execute takes the readiness back before its first step.
ReadyIsUsable == IsReady => cache = "open" /\ routes = "full" /\ step = 0

\* The refreshes are over when the store is flushed, unless the drain of
\* their handlers used up its budget ("to prevent in-flight background
\* refresh goroutines from calling store.Put on a closed store").
NoPutAfterFlush == cache = "closed" /\ refreshing => overran # {}

\* The node is ready only while it can serve, and returns only when all is
\* flushed, with no refresh left to write.
LifeInOrder == ReadyIsUsable /\ ReturnsFlushed /\ NoPutAfterFlush

\* Readiness is not taken back and given again: once the node is drained or
\* shutting down, it is never ready again.
ReadyOnce == [][~serving => ~serving']_lifeVars

\* A signal, or the failure of any member at any time, the start included,
\* ends the process.
NotStopping == ~stopped \/ ~Alive
StopEnds == []<>NotStopping

\* A node whose seeds answer at last joins them, however long after the join
\* timeout, unless it is stopped or its join fails.
JoinedOnceSeeded ==
  Has("cluster") /\ lifePlan.boots /\ seeds => joining = "joined" \/ stopped
JoinsInTheEnd == []<>JoinedOnceSeeded

\* What run says of the condition it marks: "Mark ready after the call returns
\* - by then the listeners are bound."  It does not hold: Serve binds in a
\* goroutine.
ReadyMeansBound == IsReady /\ ~stopped => \A l \in Listening : Running(l) => sock[l] = "bound"

\* What Listener.Shutdown says: it "gracefully stops the listener, waiting for
\* in-flight requests to complete", so that none is left for the steps after.
\* It does not hold: with the fast path on, Shutdown returns at once.
InFlightBeforeFlush == cache = "closed" => busy = {}
=============================================================================
