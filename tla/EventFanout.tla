---------------------------- MODULE EventFanout ----------------------------
(***************************************************************************)
(* What the broadcaster promises of the invalidation events it is given:   *)
(* each is fanned out to the peers once, alone or with others, and none is *)
(* lost on the way.                                                        *)
(***************************************************************************)
CONSTANT Events

VARIABLES
  pending,   \* events given to the broadcaster
  fanned     \* events fanned out

Init == pending = {} /\ fanned = {}

Submit(e) ==
  /\ e \notin pending \union fanned
  /\ pending' = pending \union {e}
  /\ UNCHANGED fanned

Fan(batch) ==
  /\ batch # {} /\ batch \subseteq pending
  /\ pending' = pending \ batch
  /\ fanned' = fanned \union batch

Next ==
  \/ \E e \in Events : Submit(e)
  \/ \E batch \in SUBSET Events : Fan(batch)

Spec == Init /\ [][Next]_<<pending, fanned>>
=============================================================================
