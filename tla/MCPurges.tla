------------------------------ MODULE MCPurges ------------------------------
(***************************************************************************)
(* What an invalidation goes through, checked in one run: the variants     *)
(* that a purge must reach on a node (VariantRegistry), the window that    *)
(* tells a new invalidation from a repeated one (SeqTracker), and its two  *)
(* ways to the peers (Invalidation).  A behaviour explores one of the      *)
(* three parts; the others keep their initial state.                       *)
(*                                                                         *)
(* Calls, receivers and flushers are interchangeable: the view of a state  *)
(* counts those that are alike.  Events are numbered in the order they are *)
(* issued in.                                                              *)
(***************************************************************************)
EXTENDS VariantRegistry, SeqTracker, Invalidation

CONSTANTS v1, v2, v3

VARIABLE part

\* Any calls one after another on a cluster node, and overlapping fills and
\* purges on a single node.
SerialAndOverlapping ==
  {[clustered |-> TRUE, serial |-> TRUE, calls |-> Kinds],
   [clustered |-> FALSE, serial |-> FALSE, calls |-> {"fill", "purge"}]}

EventsInOrder == \A e \in Events \ {1} : seqOf'[e] # 0 => seqOf'[e - 1] # 0

Alike(S, state(_)) ==
  [x \in {state(y) : y \in S} |-> Cardinality({y \in S : state(y) = x})]

CallOf(o) == <<kind[o], sel[o], pc[o], keys[o], dead[o], held[o], target[o], number[o], answer[o]>>
ReceiverOf(c) == <<call[c], outcome[c]>>
FlushOf(f) == flush[f]

PurgesView ==
  CASE part = "variants" -> <<mode, tracked, store, begun, ended, evictions, Alike(Ops, CallOf)>>
    [] part = "dedup"    -> <<clock, wins, lastSeen, calls, accepted, Alike(Callers, ReceiverOf)>>
    [] part = "delivery" -> <<strong, seq, seqOf, pending, fanned, posts, acked, gossipQueue, wire, win,
                              gossiping, applied, ghosts, Alike(Flushers, FlushOf)>>

Init ==
  /\ part \in {"variants", "dedup", "delivery"}
  /\ VaryInit /\ (part = "variants" \/ mode.serial)
  /\ TrackInit
  /\ InvalInit /\ (part = "delivery" \/ strong)

Next ==
  /\ UNCHANGED part
  /\ \/ part = "variants" /\ VaryNext /\ UNCHANGED <<trackVars, invalVars>>
     \/ part = "dedup" /\ TrackNext /\ UNCHANGED <<varyVars, invalVars>>
     \/ part = "delivery" /\ InvalNext /\ EventsInOrder /\ UNCHANGED <<varyVars, trackVars>>

Spec == Init /\ [][Next]_<<part, varyVars, trackVars, invalVars>>

\* Every variable has the shape of the state it stands for.
PurgesTypeOK == VaryTypeOK /\ TrackTypeOK /\ InvalTypeOK
=============================================================================
