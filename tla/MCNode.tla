------------------------------- MODULE MCNode -------------------------------
(***************************************************************************)
(* The life of one node, checked in one run: its start and its shutdown    *)
(* (EngineLifecycle), its connections (Connections), the requests that     *)
(* share revalidations (StaleFlight), the refreshes ahead of expiry        *)
(* (RefreshScheduler) and the shards of its hot tier with their slab       *)
(* (HotShard).  A behaviour explores one of the five parts; the others     *)
(* keep their initial state, one in which none of the actions that are     *)
(* fair for them is enabled.                                               *)
(***************************************************************************)
EXTENDS EngineLifecycle, Connections, StaleFlight, RefreshScheduler, HotShard, TLC

VARIABLE part

-----------------------------------------------------------------------------
(* What is configured and what happens.                                    *)

Life(parts, tls, faulty, boots, drains) ==
  [valid |-> TRUE, parts |-> parts, tls |-> tls, faulty |-> faulty, boots |-> boots, drains |-> drains]
Rejected == [Life({}, TRUE, {}, FALSE, FALSE) EXCEPT !.valid = FALSE]
NodeLives ==
  {Life({"cluster", "refresh"}, TRUE, {}, TRUE, TRUE),
   Life({"https"}, TRUE, {"https", "admin"}, TRUE, FALSE),
   Life({"https", "cloudflare"}, FALSE, {"tasks", "http"}, TRUE, FALSE),
   Life({}, TRUE, {"admin"}, FALSE, FALSE),
   Rejected}

Request(head, body, kind) == [head |-> head, body |-> body, kind |-> kind, grow |-> 0]
Get == Request(2, 0, "plain")
Short == Request(1, 0, "plain")
Listener(a, b, limit, sockets, fails, stops, hangs, idles) ==
  [reqs |-> ("a" :> a) @@ ("b" :> b), limit |-> limit, loops |-> sockets, fails |-> fails,
   stops |-> stops, hangs |-> hangs, idles |-> idles]
OneAtATime == Listener(<<Short, Short>>, <<Short>>, 1, 0, "never", TRUE, FALSE, FALSE)
NodeListeners ==
  {Listener(<<Get, Request(1, 2, "framed"), Get>>, <<>>, 0, 0, "never", FALSE, TRUE, FALSE),
   Listener(<<Request(1, 1, "expect"), Request(2, 0, "close"), Get>>, <<>>, 0, 2, "first", FALSE, FALSE, TRUE),
   Listener(<<Get, Request(5, 1, "plain")>>, <<>>, 0, 2, "never", FALSE, TRUE, FALSE),
   Listener(<<Short, Request(1, 0, "vague")>>, <<Request(1, 0, "malformed")>>, 0, 0, "never", TRUE, FALSE, FALSE),
   Listener(<<Get>>, <<Get>>, 0, 2, "later", TRUE, FALSE, FALSE),
   OneAtATime}

Stale(class, stayin, faults, heads, cookies, remote) ==
  [refresh |-> TRUE, class |-> class, stayin |-> stayin, faults |-> faults, heads |-> heads,
   cookies |-> cookies, remote |-> remote]
PlainStale == Stale("plain", FALSE, FALSE, FALSE, FALSE, FALSE)
NodeFlights ==
  {PlainStale,
   Stale("nocache", FALSE, TRUE, FALSE, TRUE, FALSE),
   Stale("must", FALSE, TRUE, TRUE, FALSE, FALSE),
   Stale("bare", FALSE, FALSE, TRUE, FALSE, FALSE),
   Stale("must", TRUE, TRUE, FALSE, FALSE, FALSE),
   Stale("plain", FALSE, TRUE, FALSE, FALSE, TRUE)}

Ahead(ks, gate, reactive, limited, churn) ==
  [keys |-> ks, gate |-> gate, reactive |-> reactive, limited |-> limited, heads |-> FALSE,
   churn |-> churn]
NoRefresh == Ahead({}, FALSE, FALSE, FALSE, FALSE)
NodeRefreshes ==
  {NoRefresh,
   Ahead({"k1"}, FALSE, FALSE, FALSE, TRUE),
   Ahead({"k1"}, TRUE, FALSE, FALSE, FALSE),
   Ahead({"k1"}, TRUE, TRUE, FALSE, FALSE),
   [Ahead({"k1"}, FALSE, FALSE, FALSE, FALSE) EXCEPT !.heads = TRUE],
   Ahead({"k1", "k2"}, FALSE, FALSE, TRUE, FALSE)}

ShardsOf == [k \in HotKeys |-> IF k = "z" THEN 2 ELSE 1]
Counts(puts, gets, deletes, bans, reaps, backs) ==
  [puts |-> puts, gets |-> gets, deletes |-> deletes, bans |-> bans, reaps |-> reaps, backs |-> backs]
Tier(policy, slabbed, callers, ks, sizes, calls) ==
  [policy |-> policy, slab |-> slabbed, callers |-> callers, keys |-> ks, sizes |-> sizes, calls |-> calls]
NoCalls == Tier("sieve", FALSE, {}, {}, {}, Counts(0, 0, 0, 0, 0, 0))
NodeShards ==
  {NoCalls,
   \* overwrites and evictions, of bodies on both sides of a class's bound
   Tier("sieve", TRUE, HotCallers, {"x", "y"}, {248, 249}, Counts(3, 0, 0, 0, 0, 0)),
   \* a hit beside a ban, a Delete and an overwrite
   Tier("sieve", TRUE, HotCallers, {"x"}, {248}, Counts(2, 1, 1, 1, 0, 0)),
   Tier("cachaner", TRUE, {"h1"}, {"x", "y"}, {1016}, Counts(3, 1, 0, 0, 1, 1)),
   \* entries with and without a backup
   Tier("sieve", FALSE, HotCallers, {"x", "y"}, {1016}, Counts(3, 0, 1, 0, 0, 2)),
   \* bodies no slot takes, each over the budget of its shard
   Tier("sieve", TRUE, HotCallers, {"x", "z"}, {1048569}, Counts(3, 0, 0, 0, 0, 0)),
   \* a sweep that finds every entry visited
   Tier("cachaner", FALSE, {"h1"}, {"x", "y", "w"}, {248}, Counts(3, 2, 0, 0, 0, 0))}

-----------------------------------------------------------------------------

Parts == {"lifecycle", "connections", "revalidation", "refreshes", "shards"}

Init ==
  /\ part \in Parts
  /\ (part = "lifecycle" \/ (lifePlan = Rejected /\ seeds = TRUE))      /\ LifeInit
  /\ (part = "connections" \/ connPlan = OneAtATime)                    /\ ConnInit
  /\ (part = "revalidation" \/ (route = PlainStale /\ stored = NoObject)) /\ StaleInit
  /\ (part = "refreshes" \/ knob = NoRefresh)                           /\ RefreshInit
  /\ (part = "shards" \/ hotPlan = NoCalls)                             /\ ShardInit

Next ==
  /\ UNCHANGED part
  /\ \/ part = "lifecycle" /\ LifeNext /\ UNCHANGED <<connVars, staleVars, refreshVars, shardVars>>
     \/ part = "connections" /\ ConnNext /\ UNCHANGED <<lifeVars, staleVars, refreshVars, shardVars>>
     \/ part = "revalidation" /\ StaleNext /\ UNCHANGED <<lifeVars, connVars, refreshVars, shardVars>>
     \/ part = "refreshes" /\ RefreshNext /\ UNCHANGED <<lifeVars, connVars, staleVars, shardVars>>
     \/ part = "shards" /\ ShardNext /\ UNCHANGED <<lifeVars, connVars, staleVars, refreshVars>>

Fairness ==
  LifeFairness /\ ConnFairness /\ StaleFairness /\ RefreshFairness

Spec ==
  Init /\ [][Next]_<<part, lifeVars, connVars, staleVars, refreshVars, shardVars>> /\ Fairness

\* The state of the part that is explored.
NodeView ==
  CASE part = "lifecycle"    -> lifeVars
    [] part = "connections"  -> connVars
    [] part = "revalidation" -> staleVars
    [] part = "refreshes"    -> refreshVars
    [] part = "shards"       -> shardVars

\* Every variable has the shape of the state it stands for.
NodeTypeOK ==
  CASE part = "lifecycle"    -> LifeTypeOK
    [] part = "connections"  -> ConnTypeOK
    [] part = "revalidation" -> StaleTypeOK
    [] part = "refreshes"    -> RefreshTypeOK
    [] part = "shards"       -> ShardTypeOK

\* The hot tier's shards stay in step under every removal and eviction: map,
\* list and byte count agree, no slot of the slab is lost or in two hands,
\* what is served is what was stored, and no overshoot goes unnoticed.  All
\* variables of the node have their shape.
ShardsInStep == NodeTypeOK /\ (part = "shards" => ShardInStep)

\* A connection's stream stays whole through both serving paths, and its slot
\* is held exactly as long as it is open.
ConnectionsInStep == part = "connections" => StreamInStep /\ SlotsMatchOpen

\* What a step may never do: write to a closed store, act for a stopped
\* scheduler, take readiness back up, cut a request that a drain spared, or
\* tell a client of a failure that a stored response shields it from.
StepsNotTaken ==
  NothingAfterClose /\ StopIsFinal /\ ReadyOnce /\ InFlightFinishes /\ FallbackShields

\* Work gets done: requests are answered on every path, due refreshes are
\* popped, and a node joins its cluster in the end.  Only one part moves, so
\* that all of this may be asked at once: RequestsAnswered, RequestsServed,
\* EntriesArePopped and JoinsInTheEnd.
WorkGetsDone ==
  \A i \in {1, 2} :
    []<>(/\ Answered(<<"c1", "c2">>[i])
         /\ Through(<<"a", "b">>[i])
         /\ NotDue(<<"k1", "k2">>[i])
         /\ JoinedOnceSeeded)

\* Whatever is told to stop does (CloseReturns, CloseEnds, DrainEnds and
\* StopEnds): the handler, the scheduler, the listener's drain, the process.
StopsEnd ==
  []<>(HandlerNotClosing /\ SchedulerNotClosing /\ NotDraining /\ NotStopping)
=============================================================================
