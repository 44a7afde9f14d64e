----------------------------- MODULE MCNetwork ------------------------------
(***************************************************************************)
(* What a node has to do with other machines, checked in one run: its      *)
(* origins (OriginTargets), its peers (PeerRing), the invalidations it     *)
(* sends them (InvalidationBatcher), the purges it passes on to the CDN    *)
(* (PurgePropagation) and the settings the fleet shares (HotConfig).  A    *)
(* behaviour explores one of the five parts; the others keep their initial *)
(* state, one in which none of the actions that are fair for them is       *)
(* enabled.                                                                *)
(***************************************************************************)
EXTENDS OriginTargets, PeerRing, InvalidationBatcher, PurgePropagation, HotConfig, TLC

VARIABLE part

-----------------------------------------------------------------------------
(* What is configured and what happens.                                    *)

Plain ==
  [threshold |-> 2, ejectFor |-> 0, prober |-> FALSE, hedge |-> FALSE, path |-> "deadline",
   kinds |-> {"get"}, fetchers |-> {"f1"}, fetches |-> 3, moods |-> {"up", "down"},
   turns |-> 0, knobs |-> {}]
NoPassive == [Plain EXCEPT !.threshold = 0, !.fetches = 0, !.moods = {"up"}]
TwoTries == [Plain EXCEPT !.hedge = TRUE, !.fetches = 1, !.kinds = {"get", "sse"}, !.threshold = 1]
NetworkPools ==
  {NoPassive, TwoTries,
   [TwoTries EXCEPT !.path = "ctx", !.kinds = {"get", "post"}],
   [Plain EXCEPT !.fetchers = {"f1", "f2"}, !.fetches = 2, !.threshold = 1, !.moods = {"erring"}],
   [Plain EXCEPT !.fetches = 4, !.moods = {"up", "erring"}, !.turns = 1],
   [Plain EXCEPT !.prober = TRUE, !.fetches = 0, !.turns = 1],
   [Plain EXCEPT !.threshold = 1, !.fetches = 1, !.knobs = {0, 1}, !.turns = 1,
                 !.kinds = {"proxy"}, !.moods = {"down"}]}

Cluster(names, moves, lossy, passes, merges, fetches) ==
  [names |-> names, changes |-> moves, lossy |-> lossy, passes |-> passes,
   merges |-> merges, fetches |-> fetches]
Alone == Cluster({}, 0, FALSE, FALSE, FALSE, FALSE)
NetworkPeers ==
  {Alone,
   Cluster({"p1"}, 3, TRUE, TRUE, TRUE, FALSE),
   Cluster({"p1", "p2"}, 2, TRUE, TRUE, FALSE, FALSE),
   Cluster({"p1"}, 2, FALSE, FALSE, FALSE, TRUE)}
NetworkPositions == ("p1" :> {1, 5}) @@ ("p2" :> {3}) @@ ("self" :> {0, 6})

\* Purges of every kind, and refreshes that meet purges.
Calls(a, b, c, d) == ("c1" :> a) @@ ("c2" :> b) @@ ("c3" :> c) @@ ("c4" :> d)
Event(kind, class) == [kind |-> kind, class |-> class]
NetworkCalls ==
  LET purge == Event("sync", "purge")
      later == Event("async", "purge")
      refresh == Event("sync", "refresh")
  IN {Calls(purge, later, later, Event("direct", "purge")),
      Calls(purge, purge, purge, purge),
      Calls(refresh, refresh, purge, later)}

Ban(s, p, h) == [surrogate |-> s, path |-> p, host |-> h]
Anchored == [Literal EXCEPT !.caret = TRUE]
Patterned == [Literal EXCEPT !.meta = TRUE]
Direct ==
  [batched |-> FALSE, async |-> TRUE, circuit |-> FALSE, retry |-> TRUE, purges |-> TRUE,
   bans |-> {}, asks |-> 2, statuses |-> {"ok", "4xx"}, closes |-> FALSE]
Guarded == [Direct EXCEPT !.circuit = TRUE]
NetworkPurges ==
  {Direct, Guarded,
   [Guarded EXCEPT !.purges = FALSE, !.asks = 1, !.statuses = {"ok", "5xx", "429", "network", "4xx"},
      !.bans = {Ban(TRUE, NoRegex, NoRegex), Ban(FALSE, Anchored, Literal),
                Ban(FALSE, Patterned, Literal), Ban(FALSE, NoRegex, Literal),
                Ban(FALSE, Anchored, NoRegex), Ban(FALSE, NoRegex, NoRegex)}],
   [Direct EXCEPT !.batched = TRUE],
   [Guarded EXCEPT !.batched = TRUE],
   [Direct EXCEPT !.retry = FALSE, !.async = FALSE, !.closes = TRUE],
   [Direct EXCEPT !.batched = TRUE, !.closes = TRUE, !.asks = 1]}

File(b, s, c, e, p, o, v) ==
  [knob |-> [k \in Knobs |-> CASE k = "ban_ttl" -> b [] k = "sample_rate" -> s
                               [] k = "consecutive_5xx" -> c [] OTHER -> e],
   pool |-> p, other |-> o, ok |-> v]
Booted == File(0, 1, 2, 1, TRUE, 1, TRUE)
Fleetwide(files, boot, knobs, strong, issuers, reloads, delays) ==
  [files |-> files, boot |-> boot, knobs |-> knobs, strong |-> strong, issuers |-> issuers,
   reloads |-> reloads, delays |-> delays]
OneSetter == Fleetwide({}, {Booted}, {"sample_rate"}, TRUE, {"n1"}, {}, FALSE)
NetworkSettings ==
  {Fleetwide({File(1, 0, 1, 2, TRUE, 2, TRUE), File(1, 0, 1, 0, TRUE, 1, TRUE),
              File(0, 2, 0, 1, FALSE, 1, TRUE), File(0, 0, 0, 0, TRUE, 1, FALSE)},
             {File(0, 1, 0, 0, TRUE, 1, TRUE), Booted},
             {"eject_for"}, TRUE, {"n1"}, {"n2"}, FALSE),
   OneSetter,
   [OneSetter EXCEPT !.delays = TRUE],
   Fleetwide({}, {Booted}, {"sample_rate", "eject_for"}, FALSE, {"n1", "n2"}, {}, FALSE),
   Fleetwide({}, {Booted}, {"sample_rate"}, TRUE, {"n1", "n2"}, {"n2"}, TRUE)}

-----------------------------------------------------------------------------

Parts == {"origins", "peers", "broadcasts", "purges", "settings"}

Init ==
  /\ part \in Parts
  /\ OriginInit /\ (part = "origins" \/ oplan = NoPassive)
  /\ PeerInit   /\ (part = "peers" \/ peerPlan = Alone)
  /\ BatchInit  /\ (part = "broadcasts" \/ call["c4"].kind = "direct")
  /\ PurgeInit  /\ (part = "purges" \/ cfplan = Direct)
  /\ HotInit    /\ (part = "settings" \/ hotPlan = OneSetter)

Next ==
  /\ UNCHANGED part
  /\ \/ part = "origins" /\ OriginNext /\ UNCHANGED <<peerVars, batchVars, cfVars, hotVars>>
     \/ part = "peers" /\ PeerNext /\ UNCHANGED <<originVars, batchVars, cfVars, hotVars>>
     \/ part = "broadcasts" /\ BatchNext /\ UNCHANGED <<originVars, peerVars, cfVars, hotVars>>
     \/ part = "purges" /\ PurgeNext /\ UNCHANGED <<originVars, peerVars, batchVars, hotVars>>
     \/ part = "settings" /\ HotNext /\ UNCHANGED <<originVars, peerVars, batchVars, cfVars>>

Fairness ==
  OriginFairness /\ PeerFairness /\ BatchFairness /\ PurgeFairness /\ HotFairness

Spec ==
  Init /\ [][Next]_<<part, originVars, peerVars, batchVars, cfVars, hotVars>> /\ Fairness

\* Every variable has the shape of the state it stands for.
NetworkTypeOK ==
  CASE part = "origins"    -> OriginTypeOK
    [] part = "peers"      -> PeerTypeOK
    [] part = "broadcasts" -> BatchTypeOK
    [] part = "purges"     -> PurgeTypeOK
    [] part = "settings"   -> HotTypeOK

\* Faults of origins and peers are contained: an attempt that can succeed
\* saves its caller, a target that is out has a way back, and a fetch slot
\* is given back on every way out of a peer fetch.
FaultsAreContained == HedgeSavesCaller /\ WayBack /\ SlotsAreHeld

\* No purge for the CDN is lost without a trace, its circuit does not stay
\* half open, and the queues of the broadcaster are bounded.
PurgesAccounted == NoSilentLoss /\ HalfOpenIsProbed /\ QueueBounded

\* An operator is told what runs: a reload's report is complete, the diff
\* after it shows what it listed, and a set that was acknowledged is in force.
SettingsAreTold == part = "settings" => ReloadTellsAll /\ DiffAfterReload /\ FleetAgrees

\* What a step may never do: give a target back before its window is served,
\* move a key between two nodes that stay, or clear the record of an address
\* that has not answered.
StepsNotTaken == EjectForServed /\ MinimalMovement /\ OnlyAnswersHeal

\* What is under way ends, whoever fails: ejections, fetches of origins and
\* peers, broadcasts, purges and the fan-out of a set; and the ring becomes
\* memberlist's view for good.  Only one part moves, so that all of this may
\* be asked at once.
NetworkSettles ==
  /\ <>[]RingConverged
  /\ \A f \in PeerFetchers :
       []<>(/\ FetchOver(f)
            /\ \A t \in Targets : EjectionOver(t)
            /\ \A c \in Fetchers : CallerFree(c)
            /\ \A c \in Senders : OutUnlessLate(c)
            /\ \A i \in CFItems : RequestSettled(i)
            /\ FanOutOver)
=============================================================================
