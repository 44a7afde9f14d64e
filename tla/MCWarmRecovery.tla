--------------------------- MODULE MCWarmRecovery ---------------------------
(***************************************************************************)
(* Instances of WarmRecovery for TLC.                                      *)
(***************************************************************************)
EXTENDS WarmRecovery

CONSTANTS r1, b1

\* Checkpoints, a clean restart and a crash that may tear the log.
RecoveryPlan ==
  [threads |-> {r1}, compactions |-> {}, ops |-> 4, closes |-> 1, crashes |-> 1, torn |-> 1]

\* Segment compaction and a crash at any step.
SegmentPlan ==
  [threads |-> {r1}, compactions |-> {"segment"}, ops |-> 3, closes |-> 0, crashes |-> 1, torn |-> 0]

\* Both compactions beside batches of puts and deletes, without a restart.
MovingPlan ==
  [threads |-> {b1}, compactions |-> {"segment", "global"},
   ops |-> 4, closes |-> 0, crashes |-> 0, torn |-> 0]

\* Global compaction and a crash at any step.
GlobalPlan ==
  [threads |-> {r1}, compactions |-> {"global"}, ops |-> 3, closes |-> 0, crashes |-> 1, torn |-> 0]

WarmPlans == {RecoveryPlan, SegmentPlan, MovingPlan}
GlobalPlans == {GlobalPlan}

WarmRecoverySymmetry == Permutations(Keys)

\* What decides the steps of a run without a restart: the log, its entries
\* and the snapshots are written and never read.  (The invariants about the
\* log follow from IndexIsNewest then.)
WithoutRestart ==
  <<plan, files, store, Len(chan), dirty, checkpointing, pc,
    [t \in Threads |-> [i \in DOMAIN pending[t] |-> pending[t][i].place]], stage, staged, hist>>

WarmView == IF plan.closes + plan.crashes = 0 THEN WithoutRestart ELSE vars
=============================================================================
