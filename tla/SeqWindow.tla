------------------------------ MODULE SeqWindow ------------------------------
(***************************************************************************)
(* The dedup window a receiver keeps for one issuer of invalidation events *)
(* (seqWindow): the highest Seq seen and a ring of Window bits for the     *)
(* Seqs just below it.                                                     *)
(*                                                                         *)
(* Source: internal/cluster/seqtracker.go.                                 *)
(***************************************************************************)
EXTENDS Integers

CONSTANT Window    \* seqDedupWindow

ASSUME WindowAssumption == Window \in Nat \ {0}

Slots == 0 .. Window - 1
Windows == [high : Nat, bits : [Slots -> BOOLEAN]]

Slot(s) == s % Window

Has(w, s) == w.bits[Slot(s)]

InWindow(w, s) == s <= w.high /\ w.high - s < Window

Mark(w, s) == [w EXCEPT !.bits[Slot(s)] = TRUE]

\* Mutant: the slots of the Seqs skipped over keep their old bits.
SlideKeepsBits(w, s) == [w EXCEPT !.high = s]

\* The watermark moves up to s; the slots that now stand for other Seqs are
\* cleared, every slot when s is a whole window ahead.
SlideTo(w, s) ==
  [high |-> s,
   bits |-> [i \in Slots |->
               /\ w.bits[i]
               /\ s - w.high < Window
               /\ \A t \in w.high + 1 .. s : Slot(t) # i]]

\* The state of an issuer heard of for the first time.
FirstSeen(s) == Mark([high |-> s, bits |-> [i \in Slots |-> FALSE]], s)

\* Mutant: a Seq at the far edge of the window is taken for an older one.
DropEdge(w, s) ==
  /\ s <= w.high
  /\ w.high - s >= Window - 1 \/ Has(w, s)

\* recordLocked drops what is too old to tell, and what the bits hold.
Dropped(w, s) ==
  /\ s <= w.high
  /\ w.high - s >= Window \/ Has(w, s)

\* And records the rest, ahead of the watermark or out of order below it.
Recorded(w, s) ==
  IF Dropped(w, s) THEN w ELSE
  IF s > w.high THEN Mark(SlideTo(w, s), s) ELSE Mark(w, s)
=============================================================================
