------------------------- MODULE MCVariantRegistry -------------------------
(***************************************************************************)
(* Small instances of VariantRegistry.  Calls are interchangeable.         *)
(***************************************************************************)
EXTENDS VariantRegistry, TLC

CONSTANTS v1, v2, v3

\* Any calls one after another on a cluster node, and overlapping fills and
\* purges on a single node.
SerialAndOverlapping ==
  {[clustered |-> TRUE, serial |-> TRUE, calls |-> Kinds],
   [clustered |-> FALSE, serial |-> FALSE, calls |-> {"fill", "purge"}]}

\* A single node whose calls do not overlap.
SingleNode == {[clustered |-> FALSE, serial |-> TRUE, calls |-> {"fill", "purge", "get"}]}

CallSymmetry == Permutations(Ops)
=============================================================================
