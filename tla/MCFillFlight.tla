---------------------------- MODULE MCFillFlight ----------------------------
(***************************************************************************)
(* Small instances of FillFlight: three requests, two variants.            *)
(***************************************************************************)
EXTENDS FillFlight

CONSTANTS r1, r2, r3, v1, v2

AllGet == [r \in {r1, r2, r3} |-> "GET"]
OneHead == [r \in {r1, r2, r3} |-> IF r = r3 THEN "HEAD" ELSE "GET"]
SameVariant == [r \in {r1, r2, r3} |-> v1]
TwoVariants == [r \in {r1, r2, r3} |-> IF r = r3 THEN v2 ELSE v1]
Anonymous == [r \in {r1, r2, r3} |-> FALSE]
OnePersonal == [r \in {r1, r2, r3} |-> r = r2]
OnlyTrue == {TRUE}
OnlyFalse == {FALSE}
AnyMode == BOOLEAN
=============================================================================
