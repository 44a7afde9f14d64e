----------------------------- MODULE HotConfig ------------------------------
(***************************************************************************)
(* The configuration of running nodes: the hot knobs (`bouine config set`) *)
(* with their fan-out to the peers, the reload of the configuration file   *)
(* and its report, the drift report, and what a restart restores.          *)
(*                                                                         *)
(* Source: cmd/bouine/cmd/hotknobs.go, configreload.go, config_diff.go,    *)
(* internal/cluster/broadcast.go (BroadcastHotSet), hotset.go,             *)
(* internal/admin (hotSet, configReload) and the knobs of the ban list and *)
(* of the origin pool.                                                     *)
(*                                                                         *)
(* A value is a number, 0 being the value of a knob the file leaves out.   *)
(* A file has the knobs, one field nothing can change at run time          *)
(* ("other"), the pool the last two knobs belong to, or not, and is valid  *)
(* or not.  A dry run changes nothing and is left out.                     *)
(***************************************************************************)
EXTENDS Naturals, FiniteSets

CONSTANTS
  Fleet,        \* the nodes of the cluster
  HotSetsMax,   \* hot sets issued
  EditsMax,     \* files written, over all nodes
  HotPlans      \* [files, boot, knobs, strong, issuers, reloads, delays]

Knobs == {"ban_ttl", "sample_rate", "consecutive_5xx", "eject_for"}
PoolKnobs == {"consecutive_5xx", "eject_for"}
Default == 3    \* DefaultBanTTL, and the pool's defaultEjectFor
Values == 0..Default
Files == [knob : [Knobs -> Values], pool : BOOLEAN, other : Nat, ok : BOOLEAN]

\* A node starts with a file that loads.
ASSUME HotAssumption ==
  /\ HotSetsMax \in Nat /\ EditsMax \in Nat
  /\ \A p \in HotPlans :
       /\ p.files \union p.boot \subseteq Files /\ \A cfg \in p.boot : cfg.ok
       /\ p.issuers \union p.reloads \subseteq Fleet

VARIABLES
  hotPlan,
  file,         \* node -> its configuration file
  bootCfg,      \* node -> the file it was started with
  hotCfg,       \* node -> the file last loaded
  live,         \* node -> knob -> the running value
  reload,       \* node -> its reload
  setting,      \* node -> the hot set it is fanning out
  posts,        \* posts to the peers
  lastSet,      \* the last hot set that returned
  setCount, edits

hotVars == <<hotPlan, file, bootCfg, hotCfg, live, reload, setting, posts, lastSet, setCount, edits>>

Rows == Knobs \union {"other", "pool"}
NoSet == [nth |-> 0, knob |-> "none", value |-> 0, waiting |-> {}, acked |-> {},
          reset |-> {}]
NoReload(cfg) == [at |-> "idle", cfg |-> cfg, todo |-> {}, needs |-> {}, mixed |-> FALSE]

-----------------------------------------------------------------------------
\* What a node started with cfg runs: the store and the pool resolve a knob
\* that the file leaves out.
AtBoot(cfg) ==
  [k \in Knobs |->
     CASE k = "ban_ttl" /\ cfg.knob[k] = 0 -> Default
       [] k = "eject_for" /\ cfg.knob[k] = 0 /\ cfg.knob["consecutive_5xx"] > 0 -> Default
       [] OTHER -> cfg.knob[k]]

\* The reaper that honours eject_for is started once, at boot.
ReaperRuns(cfg) == cfg.knob["eject_for"] > 0 \/ cfg.knob["consecutive_5xx"] > 0

\* The registry built against a file: the knobs it has, and the value each is
\* said to return to.
Registry(cfg) == IF cfg.pool THEN Knobs ELSE Knobs \ PoolKnobs
FileValue(cfg, k) == IF k = "ban_ttl" /\ cfg.knob[k] = 0 THEN Default ELSE cfg.knob[k]

\* A knob's set, but for a malformed value: eject_for needs the reaper.
Settable(cfg, boot, k) == k = "eject_for" => ReaperRuns(boot)

\* source: where the running value comes from.
Source(n, k) ==
  IF live[n][k] # FileValue(hotCfg[n], k) THEN "runtime"
  ELSE IF (IF k = "eject_for" THEN ReaperRuns(bootCfg[n]) ELSE hotCfg[n].knob[k] > 0)
  THEN "file" ELSE "default"

-----------------------------------------------------------------------------
HotInit ==
  /\ hotPlan \in HotPlans
  /\ \E cfg \in hotPlan.boot :
       /\ file = [n \in Fleet |-> cfg]
       /\ bootCfg = file /\ hotCfg = file
       /\ live = [n \in Fleet |-> AtBoot(cfg)]
       /\ reload = [n \in Fleet |-> NoReload(cfg)]
  /\ setting = [n \in Fleet |-> NoSet] /\ posts = {} /\ lastSet = NoSet
  /\ setCount = 0 /\ edits = 0

Reloads ==
  [at : {"idle", "applying", "told"}, cfg : Files, todo : SUBSET Knobs, needs : SUBSET Rows,
   mixed : BOOLEAN]
HotSets ==
  [nth : 0..HotSetsMax, knob : Knobs \union {"none"}, value : Values,
   waiting : SUBSET Fleet, acked : SUBSET Fleet, reset : SUBSET Fleet]

PlanFiles == hotPlan.files \union hotPlan.boot

HotTypeOK ==
  /\ hotPlan \in HotPlans
  /\ file \in [Fleet -> PlanFiles] /\ bootCfg \in [Fleet -> PlanFiles]
  /\ hotCfg \in [Fleet -> PlanFiles]
  /\ \A n \in Fleet : bootCfg[n].ok /\ hotCfg[n].ok /\ reload[n].cfg \in PlanFiles
  /\ live \in [Fleet -> [Knobs -> Values]]
  /\ reload \in [Fleet -> Reloads]
  /\ setting \in [Fleet -> HotSets] /\ lastSet \in HotSets
  /\ posts \subseteq [from : Fleet, to : Fleet, nth : 1..HotSetsMax, knob : Knobs, value : Values]
  /\ setCount \in 0..HotSetsMax /\ edits \in 0..EditsMax

\* Ghost: the nodes where a reload, a restart or another hot set has written
\* the knob of a hot set since it began, or since the node acknowledged it.
ResetOf(s, n, written) == IF s.knob \in written THEN [s EXCEPT !.reset = @ \union {n}] ELSE s
Overwritten(n, written) == [m \in Fleet |-> ResetOf(setting[m], n, written)]

\* A knob written by someone else while a reload's report is being made, or
\* after it: the report is not about that.
Mixed(n) == [reload EXCEPT ![n].mixed = TRUE]

-----------------------------------------------------------------------------
\* An operator writes a file.
Edit(n) ==
  /\ edits < EditsMax /\ edits' = edits + 1
  /\ \E cfg \in hotPlan.files \ {file[n]} : file' = [file EXCEPT ![n] = cfg]
  /\ UNCHANGED <<hotPlan, bootCfg, hotCfg, live, reload, setting, posts, lastSet, setCount>>

\* reloadFn: a file that does not load changes nothing.  Otherwise the first
\* pass of applyReload sorts the knobs that differ into those to apply and
\* those that are refused; the rest of the report are the rows of the file
\* that differ from the boot file and that no knob covers.
Differing(n, cfg) == {k \in Registry(cfg) : live[n][k] # FileValue(cfg, k)}
Covered(cfg) == Registry(cfg)
ColdRows(n, cfg) ==
  {r \in Rows \ Covered(cfg) :
     CASE r = "other" -> cfg.other # bootCfg[n].other
       [] r = "pool" -> ~cfg.pool
       [] OTHER -> cfg.pool /\ cfg.knob[r] # bootCfg[n].knob[r]}
ReloadBegins(n) ==
  /\ reload[n].at # "applying" /\ file[n].ok
  /\ LET cfg == file[n]
         refused == {k \in Differing(n, cfg) : ~Settable(cfg, bootCfg[n], k)}
     IN reload' = [reload EXCEPT ![n] =
                     [at |-> "applying", cfg |-> cfg, todo |-> Differing(n, cfg) \ refused,
                      needs |-> refused \union ColdRows(n, cfg), mixed |-> FALSE]]
  /\ UNCHANGED <<hotPlan, file, bootCfg, hotCfg, live, setting, posts, lastSet, setCount, edits>>

\* The second pass applies them one by one.
ReloadApplies(n, k) ==
  /\ reload[n].at = "applying" /\ k \in reload[n].todo
  /\ live' = [live EXCEPT ![n][k] = FileValue(reload[n].cfg, k)]
  /\ reload' = [reload EXCEPT ![n].todo = @ \ {k}]
  /\ setting' = Overwritten(n, {k}) /\ lastSet' = ResetOf(lastSet, n, {k})
  /\ UNCHANGED <<hotPlan, file, bootCfg, hotCfg, posts, setCount, edits>>

\* Mutant: the drift report keeps the file the node was started with.
ReloadForgets(n) ==
  /\ reload[n].at = "applying" /\ reload[n].todo = {}
  /\ reload' = [reload EXCEPT ![n].at = "told"]
  /\ UNCHANGED <<hotPlan, file, bootCfg, hotCfg, live, setting, posts, lastSet, setCount, edits>>

\* The file becomes the one the drift report answers against.
ReloadEnds(n) ==
  /\ reload[n].at = "applying" /\ reload[n].todo = {}
  /\ hotCfg' = [hotCfg EXCEPT ![n] = reload[n].cfg]
  /\ reload' = [reload EXCEPT ![n].at = "told"]
  /\ UNCHANGED <<hotPlan, file, bootCfg, live, setting, posts, lastSet, setCount, edits>>

-----------------------------------------------------------------------------
\* hotSetFn: applied here, then posted to every live peer in strong mode.
HotSet(n, k, v) ==
  /\ n \in hotPlan.issuers /\ k \in hotPlan.knobs /\ setting[n] = NoSet
  /\ setCount < HotSetsMax /\ setCount' = setCount + 1
  /\ k \in Registry(hotCfg[n]) /\ Settable(hotCfg[n], bootCfg[n], k)
  /\ live' = [live EXCEPT ![n][k] = v]
  /\ LET to == IF hotPlan.strong THEN Fleet \ {n} ELSE {}
     IN /\ setting' = [Overwritten(n, {k}) EXCEPT ![n] =
                        [nth |-> setCount', knob |-> k, value |-> v,
                         waiting |-> to, acked |-> {}, reset |-> {}]]
        /\ posts' = posts \union {[from |-> n, to |-> p, nth |-> setCount', knob |-> k, value |-> v] :
                                    p \in to}
  /\ reload' = Mixed(n)
  /\ lastSet' = NoSet
  /\ UNCHANGED <<hotPlan, file, bootCfg, hotCfg, edits>>

\* The sender of a post still waits for it.
Awaited(p) == setting[p.from].nth = p.nth /\ p.to \in setting[p.from].waiting

\* A post's outcome, as its sender sees it: it no longer waits for this peer.
Concluded(s, peer, acks) ==
  [s EXCEPT !.waiting = @ \ {peer}, !.acked = @ \union acks, !.reset = @ \ acks]
Outcome(p, acks) ==
  IF Awaited(p) THEN [setting EXCEPT ![p.from] = Concluded(@, p.to, acks)] ELSE setting

\* peerHotSetApply: applied there with the peer's own registry, and not
\* posted on.
DeliverSet(p) ==
  /\ p \in posts /\ posts' = posts \ {p}
  /\ IF p.knob \in Registry(hotCfg[p.to]) /\ Settable(hotCfg[p.to], bootCfg[p.to], p.knob)
     THEN /\ live' = [live EXCEPT ![p.to][p.knob] = p.value]
          /\ reload' = Mixed(p.to)
          /\ setting' = [n \in Fleet |-> IF n = p.from /\ Awaited(p)
                                         THEN Concluded(setting[n], p.to, {p.to})
                                         ELSE ResetOf(setting[n], p.to, {p.knob})]
          /\ lastSet' = ResetOf(lastSet, p.to, {p.knob})
     ELSE /\ setting' = Outcome(p, {}) /\ UNCHANGED <<live, reload, lastSet>>
  /\ UNCHANGED <<hotPlan, file, bootCfg, hotCfg, setCount, edits>>

\* A post that failed is logged and counted, and acknowledged by nobody.
Acked(p) == {}

\* A post is lost, or its time is up; it may still arrive then.
PostFails(p) ==
  /\ p \in posts /\ Awaited(p)
  /\ setting' = Outcome(p, Acked(p))
  /\ \/ posts' = posts \ {p}
     \/ hotPlan.delays /\ posts' = posts
  /\ UNCHANGED <<hotPlan, file, bootCfg, hotCfg, live, reload, lastSet, setCount, edits>>

\* The answer names the peers that acknowledged.
SetReturns(n) ==
  /\ setting[n] # NoSet /\ setting[n].waiting = {}
  /\ setting' = [setting EXCEPT ![n] = NoSet]
  /\ lastSet' = setting[n]
  /\ UNCHANGED <<hotPlan, file, bootCfg, hotCfg, live, reload, posts, setCount, edits>>

\* A node restarts, with the file it finds; what was set at run time is lost,
\* and so are the posts to it.
Restart(n) ==
  /\ file[n].ok /\ file[n] # bootCfg[n]
  /\ bootCfg' = [bootCfg EXCEPT ![n] = file[n]]
  /\ hotCfg' = [hotCfg EXCEPT ![n] = file[n]]
  /\ live' = [live EXCEPT ![n] = AtBoot(file[n])]
  /\ reload' = [reload EXCEPT ![n] = NoReload(file[n])]
  /\ setting' = [m \in Fleet |-> IF m = n THEN NoSet
                                 ELSE ResetOf(Concluded(setting[m], n, {}), n, Knobs)]
  /\ posts' = {p \in posts : n \notin {p.from, p.to}}
  /\ lastSet' = ResetOf(lastSet, n, Knobs)
  /\ UNCHANGED <<hotPlan, file, setCount, edits>>

-----------------------------------------------------------------------------
HotNext ==
  \/ \E n \in hotPlan.reloads :
       \/ Edit(n) \/ ReloadBegins(n) \/ ReloadEnds(n) \/ Restart(n)
       \/ \E k \in Knobs : ReloadApplies(n, k)
  \/ \E n \in Fleet :
       \/ SetReturns(n)
       \/ \E k \in Knobs, v \in {0, 2} : HotSet(n, k, v)
  \/ \E p \in posts : DeliverSet(p) \/ PostFails(p)

HotSpec == HotInit /\ [][HotNext]_hotVars

\* A post is answered or given up within its time-out, and the sender goes on.
HotFairness ==
  /\ WF_hotVars(\E p \in posts : DeliverSet(p) \/ PostFails(p))
  /\ \A n \in Fleet : WF_hotVars(SetReturns(n))

-----------------------------------------------------------------------------
\* What a knob does: a ban TTL of zero is the default, and an eject_for that
\* no reaper honours is none.
Runs(k, v, boot) ==
  CASE k = "ban_ttl" /\ v = 0 -> Default
    [] k = "eject_for" /\ ~ReaperRuns(boot) -> 0
    [] OTHER -> v

\* A file that turns passive ejection on and leaves its window to the default:
\* a reload applies a window of zero.
WindowLeftOut(cfg) == cfg.knob["consecutive_5xx"] > 0 /\ cfg.knob["eject_for"] = 0

\* The report of a reload is complete ("The operator must never believe a
\* field applied when it did not"): what it does not list under needs_restart
\* runs as it would after a restart with the file that was loaded, but for
\* the window above.
ReloadTellsAll ==
  \A n \in Fleet :
    LET r == reload[n] IN
    r.at = "told" /\ ~r.mixed =>
      /\ r.cfg.other # bootCfg[n].other => "other" \in r.needs
      /\ \A k \in Knobs :
           \/ k \in r.needs
           \/ k \in PoolKnobs /\ "pool" \in r.needs
           \/ k = "eject_for" /\ WindowLeftOut(r.cfg)
           \/ Runs(k, live[n][k], bootCfg[n]) = Runs(k, AtBoot(r.cfg)[k], r.cfg)

\* After a reload, and until someone sets a knob, `bouine config diff` shows
\* as drift only what the report listed under needs_restart.
DiffAfterReload ==
  \A n \in Fleet, k \in Knobs :
    reload[n].at = "told" /\ ~reload[n].mixed /\ k \in Registry(hotCfg[n]) =>
      (Source(n, k) = "runtime" => k \in reload[n].needs)

\* What a peer acknowledged runs there until something else writes the knob:
\* the fleet runs the value of the last set that returned, but for the nodes
\* a reload, a restart or another set, be it one that was given up and
\* arrives late, has reached since.
FleetAgrees ==
  lastSet # NoSet =>
    \A n \in lastSet.acked \ lastSet.reset : live[n][lastSet.knob] = lastSet.value

\* The fan-out of a hot set ends, in an answer and without posts left over,
\* whichever peers are down ("Fan-out is synchronous within broadcastTimeout
\* per peer").  It holds again and again.
FanOutOver == posts = {} /\ \A n \in Fleet : setting[n] = NoSet
=============================================================================
