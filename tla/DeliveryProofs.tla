--------------------------- MODULE DeliveryProofs ---------------------------
(***************************************************************************)
(* The invalidations, proved for any events, peers, flushers, window and   *)
(* bounds.                                                                 *)
(*                                                                         *)
(* The receive-side dedup: the bits of a window say exactly which of its   *)
(* Seqs were accepted, and seen drops exactly what was accepted before or  *)
(* is too old to tell.  The ring is exact because two Seqs of one window   *)
(* never share a slot (SlotsApart).  From it follow what the two writes of *)
(* the ring do to membership (MarkHas, SlideHas), and from these that      *)
(* recording an event keeps a window exact (RecordedExact).                *)
(*                                                                         *)
(* The delivery: whatever the two paths lose, delay, duplicate or reorder, *)
(* a peer applies an event at most once, has applied what it acknowledged, *)
(* and misses only what both paths lost, what failed at the peer and what  *)
(* fell a whole window behind.  At most once rests on one fact about the   *)
(* ring, that a Seq once recorded is dropped for good (DroppedForGood),    *)
(* and on the places an event can be in: at a peer it is in one HTTP       *)
(* batch, and whoever applies it has recorded it first.  The other two     *)
(* hold until the issuer restarts, when Seqs name events: what a window    *)
(* has, the peer knows of (SeenIsKnown), and on either path an event is    *)
(* waiting, under way, lost or known.                                      *)
(***************************************************************************)
EXTENDS SeqTracker, Invalidation, FiniteSetTheorems, TLAPS

\* Most leaves are first-order reasoning: Zenon first, then SMT.
USE ZenonT(40), SMTT(40)

-----------------------------------------------------------------------------
(* The ring.                                                               *)

\* The quotient and the remainder of a Seq.
LEMMA SlotDivides ==
  ASSUME NEW s \in Nat
  PROVE  /\ Slot(s) \in Slots
         /\ \E q \in Nat : s = Window * q + Slot(s)
<1>1. s % Window \in 0 .. Window - 1
  BY WindowAssumption, SMTT(30)
<1>2. s \div Window \in Nat
  BY WindowAssumption, SMTT(30)
<1>3. s = Window * (s \div Window) + (s % Window)
  BY WindowAssumption, SMTT(30)
<1> QED
  BY <1>1, <1>2, <1>3 DEF Slot, Slots

\* Two Seqs less than a window apart have slots of their own.
LEMMA SlotsApart ==
  ASSUME NEW s \in Nat, NEW t \in Nat, Slot(s) = Slot(t), s - t < Window, t - s < Window
  PROVE  s = t
<1>1. PICK q \in Nat : s = Window * q + Slot(s)
  BY SlotDivides
<1>2. PICK p \in Nat : t = Window * p + Slot(t)
  BY SlotDivides
<1>3. Slot(s) \in Int /\ Window \in Nat
  BY SlotDivides, WindowAssumption, SMTT(30) DEF Slots
<1>4. ASSUME NEW a \in Nat, NEW b \in Nat, a >= b + 1
      PROVE  Window * a >= Window * b + Window
  BY <1>3, <1>4, SMTT(30)
<1>5. ~ (q >= p + 1)
  BY <1>1, <1>2, <1>3, <1>4, SMTT(30)
<1>6. ~ (p >= q + 1)
  BY <1>1, <1>2, <1>3, <1>4, SMTT(30)
<1>7. q = p
  BY <1>5, <1>6, SMTT(30)
<1> QED
  BY <1>1, <1>2, <1>7

\* Marking a Seq adds it, and no other of its window.
LEMMA MarkHas ==
  ASSUME NEW w \in Windows, NEW s \in Nat, NEW t \in Nat, s - t < Window, t - s < Window
  PROVE  /\ Mark(w, s) \in Windows
         /\ Mark(w, s).high = w.high
         /\ Has(Mark(w, s), t) <=> t = s \/ Has(w, t)
<1>1. Slot(s) \in Slots /\ Slot(t) \in Slots
  BY SlotDivides
<1>2. Mark(w, s).bits = [w.bits EXCEPT ![Slot(s)] = TRUE]
  BY DEF Mark, Windows
<1>3. Mark(w, s) \in Windows /\ Mark(w, s).high = w.high
  BY <1>1 DEF Mark, Windows
<1>4. Has(Mark(w, s), t) <=> Slot(t) = Slot(s) \/ Has(w, t)
  BY <1>1, <1>2 DEF Has, Windows
<1>5. Slot(t) = Slot(s) <=> t = s
  BY SlotsApart
<1> QED
  BY <1>3, <1>4, <1>5

\* Moving the watermark up keeps what is still in the window and has nothing
\* of what was skipped.
LEMMA SlideHas ==
  ASSUME NEW w \in Windows, NEW s \in Nat, s > w.high, NEW t \in Nat, t <= s, s - t < Window
  PROVE  /\ SlideTo(w, s) \in Windows
         /\ SlideTo(w, s).high = s
         /\ Has(SlideTo(w, s), t) <=> t <= w.high /\ Has(w, t)
<1>1. Slot(t) \in Slots
  BY SlotDivides
<1>2. SlideTo(w, s) \in Windows /\ SlideTo(w, s).high = s
  BY DEF SlideTo, Windows
<1>3. Has(SlideTo(w, s), t) <=>
        /\ w.bits[Slot(t)]
        /\ s - w.high < Window
        /\ \A u \in w.high + 1 .. s : Slot(u) # Slot(t)
  BY <1>1 DEF SlideTo, Has
<1>4. CASE t > w.high
  <2>1. t \in w.high + 1 .. s
    BY <1>4, SMTT(30) DEF Windows
  <2> QED
    BY <1>2, <1>3, <1>4, <2>1, SMTT(30) DEF Windows
<1>5. CASE t <= w.high
  <2>1. s - w.high < Window
    BY <1>5, WindowAssumption, SMTT(30) DEF Windows
  <2>2. ASSUME NEW u \in w.high + 1 .. s
        PROVE  Slot(u) # Slot(t)
    <3>1. u \in Nat /\ u - t < Window /\ t - u < Window /\ u # t
      BY <1>5, <2>2, WindowAssumption, SMTT(30) DEF Windows
    <3> QED
      BY <3>1, SlotsApart
  <2> QED
    BY <1>2, <1>3, <1>5, <2>1, <2>2 DEF Has
<1> QED
  BY <1>4, <1>5, SMTT(30) DEF Windows

\* The state of an issuer heard of for the first time has the one Seq.
LEMMA FirstSeenHas ==
  ASSUME NEW s \in Nat
  PROVE  /\ FirstSeen(s) \in Windows
         /\ FirstSeen(s).high = s
         /\ \A t \in Nat : InWindow(FirstSeen(s), t) => (Has(FirstSeen(s), t) <=> t = s)
<1> DEFINE e == [high |-> s, bits |-> [i \in Slots |-> FALSE]]
<1>0. Window \in Nat /\ Window > 0
  BY WindowAssumption, SMTT(30)
<1>1. e \in Windows /\ e.high = s
  BY DEF Windows
<1>2. FirstSeen(s) = Mark(e, s)
  BY DEF FirstSeen
<1>3. FirstSeen(s) \in Windows /\ FirstSeen(s).high = s
  BY <1>0, <1>1, <1>2, MarkHas, SMTT(30)
<1>4. ASSUME NEW t \in Nat, InWindow(FirstSeen(s), t)
      PROVE  Has(FirstSeen(s), t) <=> t = s
  <2>1. s - t < Window /\ t - s < Window
    BY <1>0, <1>3, <1>4, SMTT(30) DEF InWindow
  <2>2. ~Has(e, t)
    BY SlotDivides DEF Has
  <2>3. Has(Mark(e, s), t) <=> t = s \/ Has(e, t)
    BY <1>1, <2>1, MarkHas
  <2> QED
    BY <1>2, <2>2, <2>3
<1> QED
  BY <1>3, <1>4

\* Recording a Seq adds it and loses nothing that is still in the window.
LEMMA RecordedHas ==
  ASSUME NEW w \in Windows, NEW s \in Nat
  PROVE  /\ Recorded(w, s) \in Windows
         /\ Recorded(w, s).high = IF s > w.high THEN s ELSE w.high
         /\ \A t \in Nat : InWindow(Recorded(w, s), t) =>
              (Has(Recorded(w, s), t) <=> t = s \/ (InWindow(w, t) /\ Has(w, t)))
<1>1. w.high \in Nat /\ Window \in Nat /\ Window > 0
  BY WindowAssumption, SMTT(30) DEF Windows
<1>2. CASE s > w.high
  <2>1. Recorded(w, s) = Mark(SlideTo(w, s), s)
    BY <1>1, <1>2, SMTT(30) DEF Recorded, Dropped
  <2>2. SlideTo(w, s) \in Windows /\ SlideTo(w, s).high = s
    BY <1>1, <1>2, SlideHas, SMTT(30)
  <2>3. Recorded(w, s) \in Windows /\ Recorded(w, s).high = s
    BY <1>1, <2>1, <2>2, MarkHas, SMTT(30)
  <2>4. ASSUME NEW t \in Nat, InWindow(Recorded(w, s), t)
        PROVE  Has(Recorded(w, s), t) <=> t = s \/ (InWindow(w, t) /\ Has(w, t))
    <3>1. t <= s /\ s - t < Window /\ t - s < Window
      BY <1>1, <2>3, <2>4, SMTT(30) DEF InWindow
    <3>2. Has(Recorded(w, s), t) <=> t = s \/ Has(SlideTo(w, s), t)
      BY <2>1, <2>2, <3>1, MarkHas
    <3>3. Has(SlideTo(w, s), t) <=> t <= w.high /\ Has(w, t)
      BY <1>2, <3>1, SlideHas
    <3>4. InWindow(w, t) <=> t <= w.high
      BY <1>1, <1>2, <3>1, SMTT(30) DEF InWindow
    <3> QED
      BY <3>2, <3>3, <3>4
  <2> QED
    BY <1>2, <2>3, <2>4
<1>3. CASE s <= w.high /\ ~Dropped(w, s)
  <2>1. Recorded(w, s) = Mark(w, s)
    BY <1>1, <1>3, SMTT(30) DEF Recorded
  <2>2. w.high - s < Window
    BY <1>1, <1>3, SMTT(30) DEF Dropped
  <2>3. Recorded(w, s) \in Windows /\ Recorded(w, s).high = w.high
    BY <1>1, <2>1, MarkHas, SMTT(30)
  <2>4. ASSUME NEW t \in Nat, InWindow(Recorded(w, s), t)
        PROVE  Has(Recorded(w, s), t) <=> t = s \/ (InWindow(w, t) /\ Has(w, t))
    <3>1. s - t < Window /\ t - s < Window /\ InWindow(w, t)
      BY <1>1, <1>3, <2>2, <2>3, <2>4, SMTT(30) DEF InWindow
    <3> QED
      BY <2>1, <3>1, MarkHas
  <2> QED
    BY <1>1, <1>3, <2>3, <2>4, SMTT(30)
<1>4. CASE s <= w.high /\ Dropped(w, s)
  <2>1. Recorded(w, s) = w
    BY <1>4 DEF Recorded
  <2>2. InWindow(w, s) => Has(w, s)
    BY <1>1, <1>4, SMTT(30) DEF Dropped, InWindow
  <2> QED
    BY <1>1, <1>4, <2>1, <2>2, SMTT(30)
<1> QED
  BY <1>1, <1>2, <1>3, <1>4, SMTT(30)

\* A Seq that was recorded is dropped from then on, whatever is recorded after.
LEMMA DroppedForGood ==
  ASSUME NEW w \in Windows, NEW s \in Nat, NEW t \in Nat
  PROVE  /\ Dropped(FirstSeen(s), s)
         /\ Dropped(Recorded(w, s), s)
         /\ Dropped(w, s) => Dropped(Recorded(w, t), s)
<1>1. w.high \in Nat /\ Window \in Nat /\ Window > 0
  BY WindowAssumption, SMTT(30) DEF Windows
<1>2. Dropped(FirstSeen(s), s)
  BY <1>1, FirstSeenHas, SMTT(30) DEF Dropped, InWindow
<1>3. Recorded(w, s).high \in Nat /\ Recorded(w, s).high >= s
  <2>1. Recorded(w, s).high = IF s > w.high THEN s ELSE w.high
    BY RecordedHas
  <2> QED
    BY <1>1, <2>1, SMTT(30)
<1>4. Dropped(Recorded(w, s), s)
  BY <1>1, <1>3, RecordedHas, SMTT(30) DEF Dropped, InWindow
<1>5. ASSUME Dropped(w, s)
      PROVE  Dropped(Recorded(w, t), s)
  <2>1. Recorded(w, t).high \in Nat /\ Recorded(w, t).high >= w.high
    <3>1. Recorded(w, t).high = IF t > w.high THEN t ELSE w.high
      BY RecordedHas
    <3> QED
      BY <1>1, <3>1, SMTT(30)
  <2>2. CASE Recorded(w, t).high - s >= Window
    BY <1>1, <2>1, <2>2, SMTT(30) DEF Dropped
  <2>3. CASE ~ (Recorded(w, t).high - s >= Window)
    <3>1. InWindow(Recorded(w, t), s) /\ InWindow(w, s) /\ Has(w, s)
      BY <1>1, <1>5, <2>1, <2>3, SMTT(30) DEF Dropped, InWindow
    <3>2. Has(Recorded(w, t), s)
      BY <3>1, RecordedHas
    <3> QED
      BY <1>1, <1>5, <2>1, <3>2, SMTT(30) DEF Dropped
  <2> QED
    BY <2>2, <2>3
<1> QED
  BY <1>2, <1>4, <1>5

-----------------------------------------------------------------------------
(* A window and the Seqs that were accepted into it.                       *)

Exact(w, A) ==
  /\ w.high \in A
  /\ \A s \in A : s <= w.high
  /\ \A s \in Seqs : InWindow(w, s) => (Has(w, s) <=> s \in A)

\* The first event of an issuer makes an exact window.
LEMMA FirstSeenExact ==
  ASSUME NEW s \in Seqs
  PROVE  FirstSeen(s) \in Windows /\ Exact(FirstSeen(s), {s})
<1>1. Seqs \subseteq Nat
  BY TrackerAssumption, SMTT(30) DEF Seqs
<1> QED
  BY <1>1, FirstSeenHas, SMTT(30) DEF Exact

\* What seen drops, in terms of what was accepted.
LEMMA DroppedExact ==
  ASSUME NEW w \in Windows, NEW A \in SUBSET Seqs, Exact(w, A), NEW s \in Seqs
  PROVE  Dropped(w, s) <=> s \in A \/ w.high >= s + Window
<1>1. s \in Nat /\ w.high \in Nat /\ Window \in Nat
  BY WindowAssumption, TrackerAssumption, SMTT(30) DEF Seqs, Windows
<1>2. CASE s > w.high
  BY <1>1, <1>2, SMTT(30) DEF Dropped, Exact
<1>3. CASE w.high >= s + Window
  BY <1>1, <1>3, WindowAssumption, SMTT(30) DEF Dropped
<1>4. CASE s <= w.high /\ ~ (w.high >= s + Window)
  <2>1. InWindow(w, s)
    BY <1>1, <1>4, SMTT(30) DEF InWindow
  <2> QED
    BY <1>1, <1>4, <2>1, SMTT(30) DEF Dropped, Exact
<1> QED
  BY <1>1, <1>2, <1>3, <1>4, SMTT(30)

\* An event that is not dropped is recorded, and the window stays exact.
LEMMA RecordedExact ==
  ASSUME NEW w \in Windows, NEW A \in SUBSET Seqs, Exact(w, A), NEW s \in Seqs, ~Dropped(w, s)
  PROVE  Recorded(w, s) \in Windows /\ Exact(Recorded(w, s), A \union {s})
<1>1. Seqs \subseteq Nat /\ w.high \in Nat /\ Window \in Nat
  BY WindowAssumption, TrackerAssumption, SMTT(30) DEF Seqs, Windows
<1>2. Recorded(w, s) \in Windows /\ Recorded(w, s).high = IF s > w.high THEN s ELSE w.high
  BY <1>1, RecordedHas
<1>3. Recorded(w, s).high \in A \union {s} /\ \A t \in A \union {s} : t <= Recorded(w, s).high
  BY <1>1, <1>2, SMTT(30) DEF Exact
<1>4. ASSUME NEW t \in Seqs, InWindow(Recorded(w, s), t)
      PROVE  Has(Recorded(w, s), t) <=> t \in A \union {s}
  <2>1. Has(Recorded(w, s), t) <=> t = s \/ (InWindow(w, t) /\ Has(w, t))
    BY <1>1, <1>4, RecordedHas
  <2>2. t \in A => InWindow(w, t)
    BY <1>1, <1>2, <1>4, SMTT(30) DEF Exact, InWindow
  <2> QED
    BY <2>1, <2>2 DEF Exact
<1> QED
  BY <1>2, <1>3, <1>4 DEF Exact

-----------------------------------------------------------------------------
(* The table of issuers.  The inductive invariant is the conjunction of    *)
(* the type and of the two parts of WindowsExact: each of them is kept by  *)
(* a step only because of the other two.                                   *)

TrackInv == TrackTypeOK /\ WindowsExact

LEMMA TrackInitially == TrackInit => TrackInv
<1> SUFFICES ASSUME TrackInit PROVE TrackInv
  OBVIOUS
<1>1. TrackTypeOK
  BY DEF TrackInit, TrackTypeOK
<1>2. Tracked(wins) = {}
  BY DEF TrackInit, Tracked
<1>3. Cardinality(Tracked(wins)) = 0
  BY <1>2, FS_EmptySet
<1>4. TrackersBounded
  BY <1>3, TrackerAssumption, SMTT(30) DEF TrackersBounded
<1> QED
  BY <1>1, <1>2, <1>4 DEF TrackInv, WindowsExact, WindowExact

\* What one call of seen leaves of its issuer, before the prune: an exact
\* window, whichever of the three cases it is.
LEMMA RecordExact ==
  ASSUME TrackInv, NEW i \in Issuers, NEW s \in Seqs, NEW now \in Nat
  PROVE  LET before == IF LiveWindow(i, now) = NoWin THEN {} ELSE accepted[i]
             acc == IF IsDuplicate(i, s, now) THEN before ELSE before \union {s}
         IN /\ Record(i, s, now) \in [Issuers -> Windows \union {NoWin}]
            /\ Record(i, s, now)[i] \in Windows
            /\ \A j \in Issuers \ {i} : Record(i, s, now)[j] = wins[j]
            /\ acc \in SUBSET Seqs
            /\ Exact(Record(i, s, now)[i], acc)
<1> DEFINE w == LiveWindow(i, now)
           before == IF w = NoWin THEN {} ELSE accepted[i]
           acc == IF IsDuplicate(i, s, now) THEN before ELSE before \union {s}
           new == IF w = NoWin THEN FirstSeen(s) ELSE Recorded(w, s)
<1>1. accepted[i] \in SUBSET Seqs /\ wins \in [Issuers -> Windows \union {NoWin}]
  BY DEF TrackInv, TrackTypeOK
<1>2. w # NoWin => w = wins[i] /\ w \in Windows /\ Exact(w, accepted[i])
  BY <1>1 DEF LiveWindow, TrackInv, WindowsExact, WindowExact, Tracked, Exact
<1>3. acc \in SUBSET Seqs /\ new \in Windows /\ Exact(new, acc)
  <2>1. CASE w = NoWin
    <3>1. ~IsDuplicate(i, s, now)
      BY <2>1 DEF IsDuplicate
    <3>2. acc = {s} /\ new = FirstSeen(s)
      BY <2>1, <3>1
    <3> QED
      BY <3>2, FirstSeenExact
  <2>2. CASE w # NoWin /\ Dropped(w, s)
    <3>1. IsDuplicate(i, s, now)
      BY <2>2 DEF IsDuplicate
    <3>2. acc = accepted[i] /\ new = w
      BY <2>2, <3>1 DEF Recorded
    <3> QED
      BY <1>1, <1>2, <2>2, <3>2
  <2>3. CASE w # NoWin /\ ~Dropped(w, s)
    <3>1. ~IsDuplicate(i, s, now)
      BY <2>3 DEF IsDuplicate
    <3>2. acc = accepted[i] \union {s} /\ new = Recorded(w, s)
      BY <2>3, <3>1
    <3> QED
      BY <1>1, <1>2, <2>3, <3>2, RecordedExact
  <2> QED
    BY <2>1, <2>2, <2>3
<1>4. Record(i, s, now) = [wins EXCEPT ![i] = new]
  BY DEF Record
<1> HIDE DEF new, acc
<1>5. /\ Record(i, s, now) \in [Issuers -> Windows \union {NoWin}]
      /\ Record(i, s, now)[i] = new
      /\ \A j \in Issuers \ {i} : Record(i, s, now)[j] = wins[j]
  BY <1>1, <1>3, <1>4
<1> QED
  BY <1>3, <1>5 DEF acc

\* The prune keeps the table within its bound: at most one issuer is new, and
\* when that is one too many at least one goes.
LEMMA PruneBounds ==
  ASSUME NEW ws, NEW old, NEW i \in Issuers, NEW seenAt, NEW now,
         Cardinality(Tracked(old)) <= MaxTrackers,
         \A j \in Issuers \ {i} : ws[j] = old[j],
         NEW gone \in PruneChoices(ws, seenAt, now),
         NEW left, Tracked(left) = Tracked(ws) \ gone
  PROVE  Cardinality(Tracked(left)) <= MaxTrackers
<1>0. MaxTrackers \in Nat
  BY TrackerAssumption
<1>1. /\ IsFiniteSet(Tracked(old)) /\ IsFiniteSet(Tracked(ws)) /\ IsFiniteSet(Tracked(left))
      /\ Cardinality(Tracked(old)) \in Nat /\ Cardinality(Tracked(ws)) \in Nat
  <2>1. Tracked(old) \subseteq Issuers /\ Tracked(ws) \subseteq Issuers /\ Tracked(left) \subseteq Issuers
    BY DEF Tracked
  <2> QED
    BY <2>1, TrackerAssumption, FS_Subset, FS_CardinalityType
<1>2. CASE Cardinality(Tracked(ws)) <= MaxTrackers
  <2>1. Tracked(left) \subseteq Tracked(ws)
    OBVIOUS
  <2> QED
    BY <1>0, <1>1, <1>2, <2>1, FS_Subset, FS_CardinalityType, SMTT(30)
<1>3. CASE ~ (Cardinality(Tracked(ws)) <= MaxTrackers)
  <2>1. PICK x \in gone : x \in Tracked(ws)
    BY <1>3 DEF PruneChoices
  <2>2. Tracked(left) \subseteq Tracked(ws) \ {x}
    BY <2>1
  <2>3. Tracked(ws) \subseteq Tracked(old) \union {i}
    BY DEF Tracked
  <2>4. Cardinality(Tracked(old) \union {i}) <= MaxTrackers + 1
    <3>1. CASE i \in Tracked(old)
      <4>1. Tracked(old) \union {i} = Tracked(old)
        BY <3>1
      <4> QED
        BY <1>0, <1>1, <4>1, SMTT(30)
    <3>2. CASE i \notin Tracked(old)
      <4>1. Cardinality(Tracked(old) \union {i}) = Cardinality(Tracked(old)) + 1
        BY <1>1, <3>2, FS_AddElement
      <4> QED
        BY <1>0, <1>1, <4>1, SMTT(30)
    <3> QED
      BY <3>1, <3>2
  <2>5. IsFiniteSet(Tracked(old) \union {i}) /\ Cardinality(Tracked(old) \union {i}) \in Nat
    BY <1>1, FS_AddElement, FS_CardinalityType
  <2>6. Cardinality(Tracked(ws)) <= MaxTrackers + 1
    BY <1>0, <1>1, <2>3, <2>4, <2>5, FS_Subset, SMTT(30)
  <2>7. /\ IsFiniteSet(Tracked(ws) \ {x})
        /\ Cardinality(Tracked(ws) \ {x}) = Cardinality(Tracked(ws)) - 1
    BY <1>1, <2>1, FS_RemoveElement
  <2>8. Cardinality(Tracked(left)) <= Cardinality(Tracked(ws) \ {x})
    BY <2>2, <2>7, FS_Subset
  <2>9. Cardinality(Tracked(left)) \in Nat
    BY <1>1, FS_CardinalityType
  <2> QED
    BY <1>0, <1>1, <2>6, <2>7, <2>8, <2>9, SMTT(30)
<1> QED
  BY <1>2, <1>3

LEMMA SeenKeeps ==
  ASSUME TrackInv, NEW c \in Callers, Seen(c)
  PROVE  TrackInv'
<1> DEFINE i == call[c].issuer
           s == call[c].seq
           now == call[c].now
           dup == IsDuplicate(i, s, now)
           ws == Record(i, s, now)
           seenAt == IF dup THEN lastSeen ELSE [lastSeen EXCEPT ![i] = now]
           before == IF LiveWindow(i, now) = NoWin THEN {} ELSE accepted[i]
           mine == IF dup THEN before ELSE before \union {s}
           acc == [accepted EXCEPT ![i] = mine]
<1>1. i \in Issuers /\ s \in Seqs /\ now \in Nat
  BY DEF Seen, TrackInv, TrackTypeOK, Calls
<1>2. PICK gone \in PruneChoices(ws, seenAt, now) :
        /\ wins' = [j \in Issuers |-> IF j \in gone THEN NoWin ELSE ws[j]]
        /\ lastSeen' = [j \in Issuers |-> IF j \in gone THEN 0 ELSE seenAt[j]]
        /\ accepted' = [j \in Issuers |-> IF j \in gone THEN {} ELSE acc[j]]
  BY DEF Seen
<1>3. /\ ws \in [Issuers -> Windows \union {NoWin}]
      /\ \A j \in Issuers \ {i} : ws[j] = wins[j]
      /\ mine \in SUBSET Seqs
      /\ Exact(ws[i], mine)
  BY <1>1, RecordExact
<1>4. /\ outcome' = [outcome EXCEPT ![c] = IF dup THEN "drop" ELSE "apply"]
      /\ call' = [call EXCEPT ![c] = Idle]
      /\ UNCHANGED <<clock, calls>>
  BY DEF Seen
<1>5. seenAt \in [Issuers -> Nat]
  BY <1>1 DEF TrackInv, TrackTypeOK
<1> HIDE DEF i, s, now, ws, mine, seenAt, dup
<1>6. acc \in [Issuers -> SUBSET Seqs] /\ acc[i] = mine /\ \A j \in Issuers \ {i} : acc[j] = accepted[j]
  BY <1>1, <1>3 DEF TrackInv, TrackTypeOK
<1>7. TrackTypeOK'
  <2>1. wins' \in [Issuers -> Windows \union {NoWin}]
    BY <1>2, <1>3
  <2>2. lastSeen' \in [Issuers -> Nat]
    BY <1>2, <1>5
  <2>3. accepted' \in [Issuers -> SUBSET Seqs]
    BY <1>2, <1>6
  <2>4. outcome' \in [Callers -> {"none", "apply", "drop"}]
    BY <1>4 DEF TrackInv, TrackTypeOK
  <2>5. call' \in [Callers -> Calls \union {Idle}]
    BY <1>4 DEF TrackInv, TrackTypeOK
  <2>6. clock' \in Nat /\ calls' \in Nat
    BY <1>4 DEF TrackInv, TrackTypeOK
  <2> QED
    BY <2>1, <2>2, <2>3, <2>4, <2>5, <2>6 DEF TrackTypeOK
<1>8. ASSUME NEW j \in Issuers, wins'[j] # NoWin
      PROVE  Exact(wins'[j], accepted'[j])
  <2>1. wins'[j] = ws[j] /\ accepted'[j] = acc[j]
    BY <1>2, <1>8
  <2>2. CASE j = i
    BY <1>3, <1>6, <2>1, <2>2
  <2>3. CASE j # i
    BY <1>3, <1>6, <1>8, <2>1, <2>3 DEF TrackInv, WindowsExact, WindowExact, Tracked, Exact
  <2> QED
    BY <2>2, <2>3
<1>9. WindowExact'
  BY <1>8 DEF WindowExact, Tracked, Exact
<1>10. TrackersBounded'
  <2>1. Tracked(wins') = Tracked(ws) \ gone
    BY <1>2 DEF Tracked
  <2>2. Cardinality(Tracked(wins)) <= MaxTrackers
    BY DEF TrackInv, WindowsExact, TrackersBounded
  <2>3. Cardinality(Tracked(wins')) <= MaxTrackers
    BY <1>1, <1>2, <1>3, <2>1, <2>2, PruneBounds, SMTT(30)
  <2> QED
    BY <2>3 DEF TrackersBounded
<1> QED
  BY <1>7, <1>9, <1>10 DEF TrackInv, WindowsExact

LEMMA TrackKept == TrackInv /\ [TrackNext]_trackVars => TrackInv'
<1> SUFFICES ASSUME TrackInv, [TrackNext]_trackVars PROVE TrackInv'
  OBVIOUS
<1> USE DEF TrackInv, WindowsExact, WindowExact, TrackersBounded, Tracked, TrackTypeOK
<1>1. CASE Tick
  BY <1>1, SMTT(30) DEF Tick
<1>2. ASSUME NEW c \in Callers, Arrive(c)
      PROVE  TrackInv'
  <2>1. PICK i \in Issuers \union {Anonymous}, s \in Seqs :
          call' = [call EXCEPT ![c] = [issuer |-> i, seq |-> s, now |-> clock]]
    BY <1>2 DEF Arrive
  <2>2. [issuer |-> i, seq |-> s, now |-> clock] \in Calls
    BY DEF Calls
  <2>3. call' \in [Callers -> Calls \union {Idle}]
    BY <2>1, <2>2
  <2> QED
    BY <1>2, <2>3, SMTT(30) DEF Arrive
<1>3. ASSUME NEW c \in Callers, SeenAnonymous(c)
      PROVE  TrackInv'
  BY <1>3 DEF SeenAnonymous
<1>4. CASE UNCHANGED trackVars
  BY <1>4 DEF trackVars
<1> QED
  BY <1>1, <1>2, <1>3, <1>4, SeenKeeps DEF TrackNext, TrackQuiet

\* The bits of every window tell exactly which of its Seqs were accepted, and
\* the table stays within seqTrackers (recordLocked, pruneLocked), for every
\* window size, any issuers and any order of deliveries.
THEOREM DedupExact == TrackSpec => []WindowsExact
<1>1. TrackInv => WindowsExact
  BY DEF TrackInv
<1> QED
  BY <1>1, TrackInitially, TrackKept, PTL DEF TrackSpec

\* seen drops an event exactly when it was accepted before or lies a whole
\* window behind the newest one of its issuer.
THEOREM DropsExactly == TrackSpec => ExactDedup
<1> DEFINE Exactly(c) ==
      call[c] # Idle /\ call[c].issuer # Anonymous /\ call'[c] = Idle =>
        (outcome'[c] = "drop" <=>
           /\ LiveWindow(call[c].issuer, call[c].now) # NoWin
           /\ call[c].seq \in accepted[call[c].issuer]
              \/ wins[call[c].issuer].high >= call[c].seq + Window)
<1>1. ASSUME TrackInv, [TrackNext]_trackVars, NEW c \in Callers,
             call[c] # Idle, call[c].issuer # Anonymous, call'[c] = Idle
      PROVE  Seen(c)
  <2>1. ASSUME NEW d \in Callers, d # c, Arrive(d) \/ SeenAnonymous(d) \/ Seen(d)
        PROVE  call'[c] = call[c]
    BY <2>1, <1>1 DEF Arrive, SeenAnonymous, Seen, TrackInv, TrackTypeOK
  <2>2. ~Arrive(c) /\ ~SeenAnonymous(c)
    BY <1>1 DEF Arrive, SeenAnonymous
  <2>3. ~Tick /\ ~UNCHANGED trackVars
    BY <1>1 DEF Tick, trackVars
  <2> QED
    BY <1>1, <2>1, <2>2, <2>3 DEF TrackNext, TrackQuiet
<1>2. ASSUME TrackInv, [TrackNext]_trackVars, NEW c \in Callers
      PROVE  Exactly(c)
  <2> SUFFICES ASSUME call[c] # Idle, call[c].issuer # Anonymous, call'[c] = Idle
               PROVE  outcome'[c] = "drop" <=>
                        /\ LiveWindow(call[c].issuer, call[c].now) # NoWin
                        /\ call[c].seq \in accepted[call[c].issuer]
                           \/ wins[call[c].issuer].high >= call[c].seq + Window
    OBVIOUS
  <2> DEFINE i == call[c].issuer
             s == call[c].seq
             now == call[c].now
  <2>1. Seen(c)
    BY <1>1, <1>2
  <2>2. i \in Issuers /\ s \in Seqs
    BY <1>2 DEF TrackInv, TrackTypeOK, Calls
  <2>3. outcome'[c] = IF IsDuplicate(i, s, now) THEN "drop" ELSE "apply"
    BY <1>2, <2>1 DEF Seen, TrackInv, TrackTypeOK
  <2>4. outcome'[c] = "drop" <=> IsDuplicate(i, s, now)
    BY <2>3
  <2>5. ASSUME LiveWindow(i, now) # NoWin
        PROVE  Dropped(LiveWindow(i, now), s) <=> s \in accepted[i] \/ wins[i].high >= s + Window
    <3>1. LiveWindow(i, now) = wins[i] /\ wins[i] # NoWin
      BY <2>5 DEF LiveWindow
    <3>2. wins[i] \in Windows /\ accepted[i] \in SUBSET Seqs
      BY <1>2, <2>2, <3>1 DEF TrackInv, TrackTypeOK
    <3>3. Exact(wins[i], accepted[i])
      BY <1>2, <2>2, <3>1 DEF TrackInv, WindowsExact, WindowExact, Tracked, Exact
    <3> QED
      BY <2>2, <3>1, <3>2, <3>3, DroppedExact
  <2> QED
    BY <2>4, <2>5 DEF IsDuplicate
<1>3. TrackInv /\ [TrackNext]_trackVars => [\A c \in Callers : Exactly(c)]_trackVars
  BY <1>2
<1>4. [\A c \in Callers : Exactly(c)]_trackVars <=>
      [\A c \in Callers :
         call[c] # Idle /\ call[c].issuer # Anonymous /\ call'[c] = Idle =>
           LET i == call[c].issuer
               s == call[c].seq
           IN outcome'[c] = "drop" <=>
                /\ LiveWindow(i, call[c].now) # NoWin
                /\ s \in accepted[i] \/ wins[i].high >= s + Window]_trackVars
  OBVIOUS
<1> HIDE DEF Exactly
<1> QED
  BY <1>3, <1>4, TrackInitially, TrackKept, PTL DEF TrackSpec, ExactDedup

-----------------------------------------------------------------------------
(* The inductive invariant.                                                *)

Issued(e) == seqOf[e] # 0

\* Nothing but issued events is anywhere.
OnlyIssued ==
  /\ \A e \in pending \union fanned \union gossipQueue : Issued(e)
  /\ \A r \in posts : \A e \in r.batch : Issued(e)
  /\ \A e \in Events, p \in Peers :
       <<e, p>> \in wire \union acked \/ gossiping[p] = e \/ applied[p][e] > 0 \/ <<e, p, "http">> \in failed
         => Issued(e)

\* At a peer, an event is in one batch.
PostsApart ==
  /\ \A r \in posts : r.todo \subseteq r.batch /\ r.cur \in r.todo \union {None}
  /\ \A r, q \in posts : r.peer = q.peer /\ r.batch \cap q.batch # {} => r = q
  /\ posts # {} => strong

\* A batch is flushed by one goroutine, which holds it while its events are
\* pending.
FlushesApart ==
  /\ \A f \in Flushers : flush[f] # None => flush[f].batch \subseteq pending
  /\ \A f, g \in Flushers :
       flush[f] # None /\ flush[g] # None /\ flush[f].batch \cap flush[g].batch # {} => f = g
  /\ \A r \in posts : r.batch \cap pending # {} =>
       \E f \in Flushers : flush[f] # None /\ flush[f].batch = r.batch

\* Whoever applies an event at a peer has recorded it, and is alone.
HolderAt(p, e) ==
  /\ applied[p][e] <= 1
  /\ applied[p][e] > 0 => IsSeen(p, e)
  /\ gossiping[p] = e => applied[p][e] = 0 /\ IsSeen(p, e)
  /\ \A r \in posts : r.peer = p /\ r.cur = e =>
       applied[p][e] = 0 /\ gossiping[p] # e /\ IsSeen(p, e)

OneHolder == \A p \in Peers, e \in Events : HolderAt(p, e)

\* Gossip follows the flush, and a request that failed is not repeated.
GossipAfterFlush ==
  /\ pending \cap fanned = {}
  /\ gossipQueue \subseteq fanned
  /\ \A e \in Events, p \in Peers :
       /\ <<e, p>> \in wire \/ gossiping[p] = e \/ <<e, p, "gossip">> \in failed => e \in fanned
       /\ <<e, p, "http">> \in failed =>
            /\ strong
            /\ \A r \in posts : r.peer = p => e \notin r.batch
            /\ e \in pending => e \in InFlush

Base ==
  /\ InvalTypeOK /\ restarts \in Nat
  /\ OnlyIssued /\ PostsApart /\ FlushesApart /\ OneHolder /\ GossipAfterFlush

\* A peer knows of an event that it has applied, applies, or failed to apply.
Known(p, e) ==
  \/ applied[p][e] > 0
  \/ gossiping[p] = e
  \/ \E r \in posts : r.peer = p /\ r.cur = e
  \/ \E path \in Paths : <<e, p, path>> \in failed

\* Until the issuer restarts, a Seq names one event.
Numbered ==
  /\ \A e \in Events : seqOf[e] <= seq
  /\ \A e, d \in Events : Issued(e) /\ seqOf[e] = seqOf[d] => e = d
  /\ \A p \in Peers : win[p] # None => win[p].high <= seq

Present(p, e) == win[p] # None /\ InWindow(win[p], seqOf[e]) /\ Has(win[p], seqOf[e])

SeenIsKnown ==
  \A p \in Peers, e \in Events : Issued(e) /\ Present(p, e) => Known(p, e)

\* While the issuer waits for the answer, gossip has not begun: what the
\* handler is done with it has applied itself.
DoneIsApplied ==
  \A r \in posts : Awaited(r.batch, r.peer) =>
    \A e \in r.batch \ r.todo : applied[r.peer][e] > 0 \/ Behind(r.peer, e)

OverHTTP ==
  strong => \A p \in Peers, e \in Events : Issued(e) =>
    \/ e \in pending \ InFlush
    \/ \E r \in posts : r.peer = p /\ e \in r.todo
    \/ <<e, p, "http">> \in lost
    \/ Known(p, e)
    \/ Behind(p, e)

OverGossip ==
  \A p \in Peers, e \in Events : Issued(e) =>
    \/ e \in pending
    \/ strong /\ e \in gossipQueue
    \/ <<e, p>> \in wire
    \/ <<e, p, "gossip">> \in lost
    \/ Known(p, e)
    \/ Behind(p, e)

FirstLife ==
  restarts = 0 =>
    Numbered /\ SeenIsKnown /\ DoneIsApplied /\ OverHTTP /\ OverGossip /\ AckedApplied

DeliveryInv == Base /\ FirstLife

-----------------------------------------------------------------------------
(* What the steps have in common.                                          *)

\* No event gains a holder where no post is added and no peer records, applies
\* or starts on anything.
LEMMA HoldersSame ==
  ASSUME OneHolder, posts' \subseteq posts, UNCHANGED <<seqOf, win, gossiping, applied>>
  PROVE  OneHolder'
<1>1. \A p, e : IsSeen(p, e)' <=> IsSeen(p, e)
  BY DEF IsSeen
<1>2. ASSUME NEW p \in Peers, NEW e \in Events
      PROVE  /\ applied'[p][e] <= 1
             /\ applied'[p][e] > 0 => IsSeen(p, e)'
             /\ gossiping'[p] = e => applied'[p][e] = 0 /\ IsSeen(p, e)'
             /\ \A r \in posts' : r.peer = p /\ r.cur = e =>
                  applied'[p][e] = 0 /\ gossiping'[p] # e /\ IsSeen(p, e)'
  BY <1>1 DEF OneHolder, HolderAt
<1> QED
  BY <1>2 DEF OneHolder, HolderAt

\* An event that is dropped fell behind the window or is in it.
LEMMA SeenSplit ==
  ASSUME InvalTypeOK, NEW p \in Peers, NEW e \in Events
  PROVE  IsSeen(p, e) => Behind(p, e) \/ Present(p, e)
<1> SUFFICES ASSUME IsSeen(p, e) PROVE Behind(p, e) \/ Present(p, e)
  OBVIOUS
<1>1. win[p] # None /\ win[p] \in Windows /\ seqOf[e] \in Nat /\ Window \in Nat
  BY WindowAssumption DEF IsSeen, InvalTypeOK
<1>2. win[p].high \in Nat
  BY <1>1 DEF Windows
<1> QED
  BY <1>1, <1>2, SMTT(30) DEF IsSeen, Dropped, Behind, Present, InWindow

\* SeenFromPeer: the event is dropped from now on, as is what was dropped
\* before; nothing leaves the window but what falls behind it.
LEMMA MarkSeenKeeps ==
  ASSUME InvalTypeOK, NEW p \in Peers, NEW e \in Events, MarkSeen(p, e), UNCHANGED seqOf
  PROVE  /\ win' \in [Peers -> Windows \union {None}]
         /\ IsSeen(p, e)'
         /\ \A q \in Peers, d \in Events : IsSeen(q, d) => IsSeen(q, d)'
         /\ \A q \in Peers, d \in Events : Behind(q, d) => Behind(q, d)'
         /\ \A q \in Peers, d \in Events :
              Present(q, d)' => Present(q, d) \/ (q = p /\ seqOf[d] = seqOf[e])
         /\ IsSeen(p, e) => UNCHANGED win
         /\ \A q \in Peers : win'[q] # None /\ ~ (win[q] # None /\ win'[q].high <= win[q].high) =>
              win'[q].high = seqOf[e]
<1> DEFINE s == seqOf[e]
           w == IF win[p] = None THEN FirstSeen(s) ELSE Recorded(win[p], s)
<1>1. /\ s \in Nat /\ seqOf \in [Events -> Nat] /\ seqOf' = seqOf
      /\ win \in [Peers -> Windows \union {None}] /\ None \notin Windows
      /\ Window \in Nat /\ Window > 0
  BY WindowAssumption, InvalidationAssumption, SMTT(30) DEF InvalTypeOK
<1>2. w \in Windows
  BY <1>1, FirstSeenHas, RecordedHas
<1>3. win' = [win EXCEPT ![p] = w]
  BY DEF MarkSeen
<1>4. Dropped(w, s)
  <2>1. FirstSeen(s) \in Windows
    BY <1>1, FirstSeenHas
  <2>2. CASE win[p] = None
    BY <1>1, <2>1, <2>2, DroppedForGood
  <2>3. CASE win[p] # None
    BY <1>1, <2>3, DroppedForGood
  <2> QED
    BY <2>2, <2>3
<1>5. ASSUME NEW t \in Nat, win[p] # None
      PROVE  /\ Dropped(win[p], t) => Dropped(w, t)
             /\ w.high \in Nat /\ win[p].high \in Nat /\ w.high >= win[p].high
             /\ w.high # win[p].high => w.high = s
  <2>1. win[p] \in Windows /\ w = Recorded(win[p], s)
    BY <1>1, <1>5
  <2>2. w.high = IF s > win[p].high THEN s ELSE win[p].high
    BY <1>1, <2>1, RecordedHas
  <2>3. win[p].high \in Nat
    BY <2>1 DEF Windows
  <2> QED
    BY <1>1, <2>1, <2>2, <2>3, DroppedForGood, SMTT(30)
<1>6. ASSUME NEW t \in Nat, InWindow(w, t), Has(w, t)
      PROVE  t = s \/ (win[p] # None /\ InWindow(win[p], t) /\ Has(win[p], t))
  BY <1>1, <1>6, FirstSeenHas, RecordedHas
<1>7. Dropped(win[p], s) /\ win[p] # None => w = win[p]
  BY DEF Recorded
<1>8. win[p] = None => w.high = s
  BY <1>1, FirstSeenHas
<1> HIDE DEF w
<1>9. win' \in [Peers -> Windows \union {None}]
  BY <1>1, <1>2, <1>3
<1>10. win'[p] = w /\ w # None /\ \A q \in Peers : q # p => win'[q] = win[q]
  BY <1>1, <1>2, <1>3
<1>11. IsSeen(p, e)'
  BY <1>1, <1>4, <1>10 DEF IsSeen
<1>12. ASSUME NEW q \in Peers, NEW d \in Events, IsSeen(q, d)
       PROVE  IsSeen(q, d)'
  BY <1>1, <1>5, <1>10, <1>12 DEF IsSeen
<1>13. ASSUME NEW q \in Peers, NEW d \in Events, Behind(q, d)
       PROVE  Behind(q, d)'
  BY <1>1, <1>5, <1>10, <1>13, SMTT(30) DEF Behind
<1>14. ASSUME NEW q \in Peers, NEW d \in Events, Present(q, d)'
       PROVE  Present(q, d) \/ (q = p /\ seqOf[d] = seqOf[e])
  BY <1>1, <1>6, <1>10, <1>14 DEF Present
<1>15. IsSeen(p, e) => UNCHANGED win
  <2> SUFFICES ASSUME IsSeen(p, e) PROVE win' = win
    OBVIOUS
  <2>1. w = win[p]
    BY <1>7 DEF IsSeen
  <2> QED
    BY <1>1, <1>3, <2>1
<1>16. ASSUME NEW q \in Peers, win'[q] # None, ~ (win[q] # None /\ win'[q].high <= win[q].high)
       PROVE  win'[q].high = seqOf[e]
  <2>1. CASE q # p
    <3>1. win[q] \in Windows /\ win'[q] = win[q]
      BY <1>1, <1>10, <1>16, <2>1
    <3> QED
      BY <1>16, <3>1, SMTT(30) DEF Windows
  <2>2. CASE q = p
    BY <1>1, <1>5, <1>8, <1>10, <1>16, <2>2
  <2> QED
    BY <2>1, <2>2
<1> QED
  BY <1>9, <1>11, <1>12, <1>13, <1>14, <1>15, <1>16

\* A flush that goes on waiting for fewer peers.
Narrowed ==
  /\ flush' \in [Flushers -> Flushes \union {None}]
  /\ \A f \in Flushers :
       /\ flush'[f] = None <=> flush[f] = None
       /\ flush[f] # None =>
            flush'[f].batch = flush[f].batch /\ flush'[f].waiting \subseteq flush[f].waiting

LEMMA AnswerNarrows ==
  ASSUME InvalTypeOK, NEW batch, NEW p, Answer(batch, p)
  PROVE  Narrowed
<1>1. ASSUME NEW f \in Flushers
      PROVE  /\ flush'[f] \in Flushes \union {None}
             /\ flush'[f] = None <=> flush[f] = None
             /\ flush[f] # None =>
                  flush'[f].batch = flush[f].batch /\ flush'[f].waiting \subseteq flush[f].waiting
  <2>1. flush[f] \in Flushes \union {None} /\ None \notin Flushes
    BY InvalidationAssumption DEF InvalTypeOK
  <2>2. flush'[f] = IF flush[f] # None /\ flush[f].batch = batch
                    THEN [flush[f] EXCEPT !.waiting = @ \ {p}]
                    ELSE flush[f]
    BY DEF Answer
  <2>3. flush[f] \in Flushes =>
          /\ [flush[f] EXCEPT !.waiting = @ \ {p}] \in Flushes
          /\ [flush[f] EXCEPT !.waiting = @ \ {p}].batch = flush[f].batch
          /\ [flush[f] EXCEPT !.waiting = @ \ {p}].waiting = flush[f].waiting \ {p}
    BY DEF Flushes
  <2> QED
    BY <2>1, <2>2, <2>3
<1>2. flush' = [f \in Flushers |-> flush'[f]]
  BY DEF Answer
<1> QED
  BY <1>1, <1>2 DEF Narrowed

LEMMA TimeoutNarrows ==
  ASSUME InvalTypeOK, NEW f \in Flushers, NEW p \in Peers, PostTimeout(f, p)
  PROVE  Narrowed
<1>1. flush[f] \in Flushes /\ None \notin Flushes /\ flush \in [Flushers -> Flushes \union {None}]
  BY InvalidationAssumption DEF InvalTypeOK, PostTimeout
<1> DEFINE n == [flush[f] EXCEPT !.waiting = @ \ {p}]
<1>2. n \in Flushes /\ n.batch = flush[f].batch /\ n.waiting \subseteq flush[f].waiting
  BY <1>1 DEF Flushes
<1>3. flush' = [flush EXCEPT ![f] = n]
  BY DEF PostTimeout
<1> HIDE DEF n
<1> QED
  BY <1>1, <1>2, <1>3 DEF Narrowed

\* What such a flush holds and what it awaits.
LEMMA NarrowedHolds ==
  ASSUME Narrowed
  PROVE  /\ InFlush' = InFlush
         /\ \A batch, p : Awaited(batch, p)' => Awaited(batch, p)
         /\ pending' = pending /\ FlushesApart /\ (\A r \in posts' : \E q \in posts : r.batch = q.batch)
              => FlushesApart'
<1>1. \A f \in Flushers : flush'[f] = None <=> flush[f] = None
  BY DEF Narrowed
<1>2. \A f \in Flushers : flush[f] # None =>
        flush'[f].batch = flush[f].batch /\ flush'[f].waiting \subseteq flush[f].waiting
  BY DEF Narrowed
<1>3. InFlush' = InFlush
  BY <1>1, <1>2 DEF InFlush
<1>4. \A batch, p : Awaited(batch, p)' => Awaited(batch, p)
  BY <1>1, <1>2 DEF Awaited
<1>5. ASSUME pending' = pending, FlushesApart, \A r \in posts' : \E q \in posts : r.batch = q.batch
      PROVE  FlushesApart'
  BY <1>1, <1>2, <1>5, SMTT(30) DEF FlushesApart
<1> QED
  BY <1>3, <1>4, <1>5

-----------------------------------------------------------------------------
(* The issuer's steps.                                                     *)

LEMMA DeliveryInitially == InvalInit => DeliveryInv
<1> SUFFICES ASSUME InvalInit PROVE DeliveryInv
  OBVIOUS
<1> USE DEF InvalInit, Fanout!Init
<1>1. InvalTypeOK /\ restarts \in Nat
  BY DEF InvalTypeOK
<1>2. OnlyIssued /\ PostsApart /\ FlushesApart /\ GossipAfterFlush
  BY InvalidationAssumption, SMTT(30) DEF OnlyIssued, PostsApart, FlushesApart, GossipAfterFlush
<1>3. OneHolder
  BY InvalidationAssumption, SMTT(30) DEF OneHolder, HolderAt
<1>4. FirstLife
  BY SMTT(30) DEF FirstLife, Numbered, SeenIsKnown, Present, DoneIsApplied, OverHTTP, OverGossip, AckedApplied, Issued
<1> QED
  BY <1>1, <1>2, <1>3, <1>4 DEF DeliveryInv, Base

LEMMA IssueKeeps ==
  ASSUME DeliveryInv, NEW e \in Events, Issue(e)
  PROVE  DeliveryInv'
<1> USE DEF DeliveryInv, Base
<1>1. /\ ~Issued(e) /\ e \notin pending \union fanned
      /\ pending' = pending \union {e} /\ fanned' = fanned
      /\ seq' = seq + 1 /\ seqOf' = [seqOf EXCEPT ![e] = seq + 1]
      /\ UNCHANGED <<strong, flush, posts, acked, gossipQueue, wire, win, gossiping, applied, lost, failed, again, restarts>>
  BY DEF Issue, Fanout!Submit, Issued, ghosts
<1>2. InvalTypeOK' /\ restarts' \in Nat
  BY <1>1, SMTT(30) DEF InvalTypeOK
<1>3. /\ \A d \in Events : d # e => seqOf'[d] = seqOf[d]
      /\ seqOf'[e] = seq + 1 /\ seq \in Nat /\ seqOf \in [Events -> Nat]
  BY <1>1 DEF InvalTypeOK
<1>4. /\ \A d \in Events : Issued(d) => d # e /\ Issued(d)'
      /\ \A d \in Events : d # e => (Issued(d)' <=> Issued(d))
      /\ Issued(e)'
  BY <1>1, <1>3, SMTT(30) DEF Issued
<1>5. \A r \in posts : r.batch \subseteq Events /\ e \notin r.batch
  BY <1>1 DEF OnlyIssued, InvalTypeOK, Posts
<1>6. OnlyIssued'
  BY <1>1, <1>4, <1>5 DEF OnlyIssued, InvalTypeOK
<1>7. PostsApart'
  BY <1>1 DEF PostsApart
<1>8. InFlush' = InFlush /\ e \notin InFlush
  BY <1>1, SMTT(30) DEF InFlush, FlushesApart
<1>9. FlushesApart'
  BY <1>1, <1>5, SMTT(30) DEF FlushesApart
<1>10. \A p \in Peers, d \in Events : d # e => (IsSeen(p, d)' <=> IsSeen(p, d)) /\ (Behind(p, d)' <=> Behind(p, d))
                                              /\ (Present(p, d)' <=> Present(p, d))
  BY <1>1, <1>3 DEF IsSeen, Behind, Present
<1>11. OneHolder'
  <2>1. \A r \in posts : r.cur # e
    BY <1>5, InvalidationAssumption DEF PostsApart
  <2>2. ASSUME NEW p \in Peers
        PROVE  applied[p][e] = 0 /\ gossiping[p] # e
    <3>1. applied[p][e] \in Nat
      BY DEF InvalTypeOK
    <3>2. ~ (applied[p][e] > 0) /\ gossiping[p] # e
      BY <1>1 DEF OnlyIssued
    <3> QED
      BY <3>1, <3>2, SMTT(30)
  <2> QED
    BY <1>1, <1>10, <2>1, <2>2, SMTT(30) DEF OneHolder, HolderAt
<1>12. GossipAfterFlush'
  BY <1>1, <1>8 DEF GossipAfterFlush, OnlyIssued
<1>13. ASSUME restarts = 0
       PROVE  Numbered' /\ SeenIsKnown' /\ DoneIsApplied' /\ OverHTTP' /\ OverGossip' /\ AckedApplied'
  <2>1. Numbered /\ SeenIsKnown /\ DoneIsApplied /\ OverHTTP /\ OverGossip /\ AckedApplied
    BY <1>13 DEF FirstLife
  <2>2. Numbered'
    <3>1. \A p \in Peers : win[p] # None => win[p].high \in Nat
      BY DEF InvalTypeOK, Windows
    <3> QED
      BY <1>1, <1>3, <1>4, <2>1, <3>1, SMTT(30) DEF Numbered, Issued
  <2>3. \A p \in Peers, d \in Events : Known(p, d)' <=> Known(p, d)
    BY <1>1 DEF Known, Paths
  <2>4. SeenIsKnown'
    <3>1. \A p \in Peers : ~Present(p, e)'
      <4> SUFFICES ASSUME NEW p \in Peers, win[p] # None
                   PROVE  ~ (seqOf'[e] <= win[p].high)
        BY <1>1 DEF Present, InWindow
      <4>1. win[p].high \in Nat /\ win[p].high <= seq
        BY <2>1 DEF Numbered, InvalTypeOK, Windows
      <4> QED
        BY <1>3, <4>1, SMTT(30)
    <3> QED
      BY <1>4, <1>10, <2>1, <2>3, <3>1 DEF SeenIsKnown
  <2>5. DoneIsApplied'
    BY <1>1, <1>5, <1>10, <2>1 DEF DoneIsApplied, Awaited, InvalTypeOK, Posts
  <2>6. OverHTTP'
    BY <1>1, <1>4, <1>8, <1>10, <2>1, <2>3 DEF OverHTTP
  <2>7. OverGossip'
    BY <1>1, <1>4, <1>10, <2>1, <2>3 DEF OverGossip
  <2>8. AckedApplied'
    BY <1>1, <1>10, <2>1 DEF AckedApplied, OnlyIssued
  <2> QED
    BY <2>2, <2>4, <2>5, <2>6, <2>7, <2>8
<1> QED
  BY <1>1, <1>2, <1>6, <1>7, <1>9, <1>11, <1>12, <1>13 DEF FirstLife

LEMMA FlushStartKeeps ==
  ASSUME DeliveryInv, NEW f \in Flushers, FlushStart(f)
  PROVE  DeliveryInv'
<1> USE DEF DeliveryInv, Base
<1>1. PICK batch \in SUBSET (pending \ InFlush) :
        /\ batch # {}
        /\ flush' = [flush EXCEPT ![f] = [batch |-> batch, waiting |-> IF strong THEN Peers ELSE {}]]
        /\ posts' = IF strong
                    THEN posts \union {[batch |-> batch, peer |-> p, todo |-> batch, cur |-> None] : p \in Peers}
                    ELSE posts
  BY DEF FlushStart
<1> DEFINE n == [batch |-> batch, waiting |-> IF strong THEN Peers ELSE {}]
           Post(p) == [batch |-> batch, peer |-> p, todo |-> batch, cur |-> None]
<1>2. /\ flush[f] = None
      /\ UNCHANGED <<strong, seq, seqOf, pending, fanned, acked, gossipQueue, wire, win, gossiping, applied, lost, failed, again, restarts>>
  BY DEF FlushStart, ghosts
<1>3. batch \subseteq Events /\ batch \subseteq pending /\ batch \cap InFlush = {}
  BY DEF InvalTypeOK
<1>4. n \in Flushes /\ n.batch = batch /\ None \notin Flushes
  BY <1>3, InvalidationAssumption DEF Flushes
<1>5. \A p \in Peers : /\ Post(p) \in Posts /\ Post(p).batch = batch /\ Post(p).peer = p
                       /\ Post(p).todo = batch /\ Post(p).cur = None
  BY <1>3 DEF Posts
<1>6. /\ posts \subseteq posts'
      /\ \A r \in posts' : r \in posts \/ (strong /\ \E p \in Peers : r = Post(p))
      /\ strong => \A p \in Peers : Post(p) \in posts'
  BY <1>1
<1> HIDE DEF n, Post
<1>7. flush' = [flush EXCEPT ![f] = n]
  BY <1>1 DEF n
<1>8. flush' \in [Flushers -> Flushes \union {None}] /\ flush'[f] = n /\ \A g \in Flushers : g # f => flush'[g] = flush[g]
  BY <1>4, <1>7 DEF InvalTypeOK
<1>9. \A r \in posts : r.batch \cap batch = {}
  BY <1>3, SMTT(30) DEF FlushesApart, InFlush
<1>10. \A g \in Flushers : flush[g] # None => flush[g].batch \cap batch = {}
  BY <1>3 DEF InFlush
<1>11. InFlush' = InFlush \union batch
  BY <1>2, <1>4, <1>8, SMTT(30) DEF InFlush
<1>12. InvalTypeOK' /\ restarts' \in Nat
  BY <1>2, <1>5, <1>6, <1>8 DEF InvalTypeOK
<1>13. OnlyIssued'
  BY <1>2, <1>3, <1>5, <1>6, SMTT(30) DEF OnlyIssued, Issued
<1>14. PostsApart'
  BY <1>2, <1>5, <1>6, <1>9, SMTT(30) DEF PostsApart
<1>15. FlushesApart'
  <2>1. \A g \in Flushers : flush'[g] # None => flush'[g].batch \subseteq pending'
    BY <1>2, <1>3, <1>4, <1>8 DEF FlushesApart
  <2>2. \A g, h \in Flushers :
          flush'[g] # None /\ flush'[h] # None /\ flush'[g].batch \cap flush'[h].batch # {} => g = h
    BY <1>4, <1>8, <1>10 DEF FlushesApart
  <2>3. ASSUME NEW r \in posts', r.batch \cap pending' # {}
        PROVE  \E g \in Flushers : flush'[g] # None /\ flush'[g].batch = r.batch
    <3>1. CASE r \in posts
      BY <1>2, <1>8, <2>3, <3>1 DEF FlushesApart
    <3>2. CASE r \notin posts
      BY <1>4, <1>5, <1>6, <1>8, <3>2, SMTT(30)
    <3> QED
      BY <3>1, <3>2
  <2> QED
    BY <2>1, <2>2, <2>3 DEF FlushesApart
<1>16. OneHolder'
  BY <1>2, <1>5, <1>6, InvalidationAssumption, SMTT(30) DEF OneHolder, HolderAt, IsSeen
<1>17. GossipAfterFlush'
  BY <1>2, <1>3, <1>5, <1>6, <1>11, SMTT(30) DEF GossipAfterFlush
<1>18. ASSUME restarts = 0
       PROVE  Numbered' /\ SeenIsKnown' /\ DoneIsApplied' /\ OverHTTP' /\ OverGossip' /\ AckedApplied'
  <2>1. Numbered /\ SeenIsKnown /\ DoneIsApplied /\ OverHTTP /\ OverGossip /\ AckedApplied
    BY <1>18 DEF FirstLife
  <2>2. Numbered' /\ AckedApplied'
    BY <1>2, <2>1 DEF Numbered, AckedApplied, Issued, Behind
  <2>3. \A p \in Peers, d \in Events : Known(p, d) => Known(p, d)'
    BY <1>2, <1>6 DEF Known, Paths
  <2>4. SeenIsKnown'
    BY <1>2, <2>1, <2>3 DEF SeenIsKnown, Issued, Present
  <2>5. DoneIsApplied'
    <3> SUFFICES ASSUME NEW r \in posts', Awaited(r.batch, r.peer)', NEW e \in r.batch \ r.todo
                 PROVE  applied[r.peer][e] > 0 \/ Behind(r.peer, e)
      BY <1>2 DEF DoneIsApplied, Behind
    <3>1. r \in posts
      BY <1>5, <1>6, SMTT(30)
    <3>2. PICK g \in Flushers : flush'[g] # None /\ flush'[g].batch = r.batch /\ r.peer \in flush'[g].waiting
      BY DEF Awaited
    <3>3. g # f
      BY <1>1, <1>4, <1>8, <1>9, <3>1, <3>2
    <3>4. Awaited(r.batch, r.peer)
      BY <1>8, <3>2, <3>3 DEF Awaited
    <3> QED
      BY <2>1, <3>1, <3>4 DEF DoneIsApplied
  <2>6. OverHTTP'
    <3> SUFFICES ASSUME strong, NEW p \in Peers, NEW e \in Events, Issued(e)
                 PROVE  \/ e \in pending' \ InFlush'
                        \/ \E r \in posts' : r.peer = p /\ e \in r.todo
                        \/ <<e, p, "http">> \in lost'
                        \/ Known(p, e)'
                        \/ Behind(p, e)'
      BY <1>2 DEF OverHTTP, Issued
    <3>1. CASE e \in batch
      BY <1>5, <1>6, <3>1
    <3>2. CASE e \notin batch
      BY <1>2, <1>6, <1>11, <2>1, <2>3, <3>2 DEF OverHTTP, Behind
    <3> QED
      BY <3>1, <3>2
  <2>7. OverGossip'
    BY <1>2, <2>1, <2>3 DEF OverGossip, Issued, Behind
  <2> QED
    BY <2>2, <2>4, <2>5, <2>6, <2>7
<1> QED
  BY <1>2, <1>12, <1>13, <1>14, <1>15, <1>16, <1>17, <1>18 DEF FirstLife

LEMMA PostTimeoutKeeps ==
  ASSUME DeliveryInv, NEW f \in Flushers, NEW p \in Peers, PostTimeout(f, p)
  PROVE  DeliveryInv'
<1> USE DEF DeliveryInv, Base
<1>1. UNCHANGED <<strong, seq, seqOf, pending, fanned, posts, acked, gossipQueue, wire, win, gossiping, applied,
                  lost, failed, again, restarts>>
  BY DEF PostTimeout, ghosts
<1>2. Narrowed
  BY TimeoutNarrows
<1>3. InvalTypeOK' /\ restarts' \in Nat
  BY <1>1, <1>2 DEF InvalTypeOK, Narrowed
<1>4. OnlyIssued' /\ PostsApart' /\ OneHolder'
  <2>1. OnlyIssued' /\ PostsApart'
    BY <1>1 DEF OnlyIssued, PostsApart, Issued
  <2>2. OneHolder'
    BY <1>1, HoldersSame
  <2> QED
    BY <2>1, <2>2
<1>5. InFlush' = InFlush /\ FlushesApart' /\ \A batch, q : Awaited(batch, q)' => Awaited(batch, q)
  BY <1>1, <1>2, NarrowedHolds
<1>6. GossipAfterFlush'
  BY <1>1, <1>5 DEF GossipAfterFlush
<1>7. FirstLife'
  BY <1>1, <1>5 DEF FirstLife, Numbered, SeenIsKnown, DoneIsApplied, OverHTTP, OverGossip, AckedApplied,
     Issued, Present, Known, Paths, Behind
<1> QED
  BY <1>3, <1>4, <1>5, <1>6, <1>7

LEMMA FlushGossipKeeps ==
  ASSUME DeliveryInv, NEW f \in Flushers, FlushGossip(f)
  PROVE  DeliveryInv'
<1> USE DEF DeliveryInv, Base
<1> DEFINE batch == flush[f].batch
<1>1. /\ flush[f] # None
      /\ batch \subseteq pending /\ pending' = pending \ batch /\ fanned' = fanned \union batch
      /\ gossipQueue' = gossipQueue \union batch
      /\ wire' = IF strong THEN wire ELSE wire \union (batch \X Peers)
      /\ flush' = [flush EXCEPT ![f] = None]
      /\ UNCHANGED <<strong, seq, seqOf, posts, acked, win, gossiping, applied, lost, failed, again, restarts>>
  BY DEF FlushGossip, Fanout!Fan, ghosts
<1> HIDE DEF batch
<1>2. batch \subseteq Events
  BY <1>1 DEF InvalTypeOK
<1>3. /\ wire \subseteq wire' /\ wire' \subseteq wire \union (batch \X Peers)
      /\ ~strong => batch \X Peers \subseteq wire'
  BY <1>1
<1>4. flush'[f] = None /\ \A g \in Flushers : g # f => flush'[g] = flush[g]
  BY <1>1 DEF InvalTypeOK
<1>5. \A g \in Flushers : flush'[g] # None => flush[g] # None /\ flush[g] = flush'[g] /\ flush[g].batch \cap batch = {}
  BY <1>1, <1>4 DEF FlushesApart, batch
<1>6. \A d \in InFlush : d \notin batch => d \in InFlush'
  BY <1>1, <1>4 DEF InFlush, batch
<1>7. InFlush' \subseteq InFlush
  BY <1>5 DEF InFlush
<1>8. InvalTypeOK' /\ restarts' \in Nat
  <2>1. flush' \in [Flushers -> Flushes \union {None}]
    BY <1>1 DEF InvalTypeOK
  <2>2. wire' \subseteq Events \X Peers
    BY <1>2, <1>3 DEF InvalTypeOK
  <2> QED
    BY <1>1, <1>2, <2>1, <2>2 DEF InvalTypeOK
<1>9. OnlyIssued'
  <2>1. \A e \in batch : Issued(e)
    BY <1>1 DEF OnlyIssued
  <2>2. ASSUME NEW e \in Events, NEW p \in Peers, <<e, p>> \in wire'
        PROVE  Issued(e)
    BY <1>3, <2>1, <2>2 DEF OnlyIssued
  <2> QED
    BY <1>1, <2>1, <2>2 DEF OnlyIssued, Issued
<1>10. PostsApart' /\ OneHolder'
  <2>1. PostsApart'
    BY <1>1 DEF PostsApart
  <2>2. OneHolder'
    BY <1>1, HoldersSame
  <2> QED
    BY <2>1, <2>2
<1>11. FlushesApart'
  <2>1. \A g \in Flushers : flush'[g] # None => flush'[g].batch \subseteq pending'
    BY <1>1, <1>5 DEF FlushesApart
  <2>2. \A g, h \in Flushers :
          flush'[g] # None /\ flush'[h] # None /\ flush'[g].batch \cap flush'[h].batch # {} => g = h
    BY <1>5 DEF FlushesApart
  <2>3. ASSUME NEW r \in posts', r.batch \cap pending' # {}
        PROVE  \E g \in Flushers : flush'[g] # None /\ flush'[g].batch = r.batch
    <3>1. PICK g \in Flushers : flush[g] # None /\ flush[g].batch = r.batch
      BY <1>1, <2>3 DEF FlushesApart
    <3>2. g # f
      BY <1>1, <2>3, <3>1 DEF batch
    <3> QED
      BY <1>4, <3>1, <3>2
  <2> QED
    BY <2>1, <2>2, <2>3 DEF FlushesApart
<1>12. GossipAfterFlush'
  <2>1. ASSUME NEW e \in Events, NEW p \in Peers, <<e, p>> \in wire'
        PROVE  e \in fanned'
    BY <1>1, <1>3, <2>1 DEF GossipAfterFlush
  <2> QED
    BY <1>1, <1>6, <2>1 DEF GossipAfterFlush
<1>13. ASSUME restarts = 0
       PROVE  Numbered' /\ SeenIsKnown' /\ DoneIsApplied' /\ OverHTTP' /\ OverGossip' /\ AckedApplied'
  <2>1. Numbered /\ SeenIsKnown /\ DoneIsApplied /\ OverHTTP /\ OverGossip /\ AckedApplied
    BY <1>13 DEF FirstLife
  <2>2. Numbered' /\ AckedApplied' /\ SeenIsKnown'
    BY <1>1, <2>1 DEF Numbered, AckedApplied, SeenIsKnown, Known, Paths, Present, Issued, Behind
  <2>3. \A b, q : Awaited(b, q)' => Awaited(b, q)
    BY <1>5 DEF Awaited
  <2>4. DoneIsApplied'
    BY <1>1, <2>1, <2>3 DEF DoneIsApplied, Behind
  <2>5. \A p \in Peers, d \in Events : (Known(p, d)' <=> Known(p, d)) /\ (Behind(p, d)' <=> Behind(p, d))
    BY <1>1 DEF Known, Paths, Behind
  <2>6. pending \ InFlush \subseteq pending' \ InFlush'
    BY <1>1, <1>7 DEF InFlush, batch
  <2>7. OverHTTP'
    BY <1>1, <2>1, <2>5, <2>6 DEF OverHTTP, Issued
  <2>8. OverGossip'
    <3> SUFFICES ASSUME NEW p \in Peers, NEW e \in Events, Issued(e)
                 PROVE  \/ e \in pending'
                        \/ strong /\ e \in gossipQueue'
                        \/ <<e, p>> \in wire'
                        \/ <<e, p, "gossip">> \in lost
                        \/ Known(p, e) \/ Behind(p, e)
      BY <1>1, <2>5 DEF OverGossip, Issued
    <3>1. CASE e \in batch
      BY <1>1, <1>3, <3>1
    <3>2. CASE e \notin batch
      BY <1>1, <1>3, <2>1, <3>2 DEF OverGossip
    <3> QED
      BY <3>1, <3>2
  <2> QED
    BY <2>2, <2>4, <2>7, <2>8
<1> QED
  BY <1>1, <1>8, <1>9, <1>10, <1>11, <1>12, <1>13 DEF FirstLife

LEMMA GossipRoundKeeps ==
  ASSUME DeliveryInv, NEW e \in Events, GossipRound(e)
  PROVE  DeliveryInv'
<1> USE DEF DeliveryInv, Base
<1>1. PICK to \in SUBSET Peers :
        /\ wire' = wire \union ({e} \X to)
        /\ lost' = IF strong THEN lost \union {<<e, p, "gossip">> : p \in Peers \ to} ELSE lost
  BY DEF GossipRound
<1>2. /\ e \in gossipQueue /\ gossipQueue' = gossipQueue \ {e}
      /\ UNCHANGED <<strong, seq, seqOf, pending, fanned, flush, posts, acked, win, gossiping, applied, failed, again, restarts>>
  BY DEF GossipRound, issuer
<1>3. Issued(e) /\ e \in fanned
  BY <1>2 DEF OnlyIssued, GossipAfterFlush
<1>4. /\ wire \subseteq wire' /\ lost \subseteq lost'
      /\ \A d \in Events, p \in Peers : <<d, p>> \in wire' => <<d, p>> \in wire \/ d = e
      /\ strong => \A p \in Peers : <<e, p>> \in wire' \/ <<e, p, "gossip">> \in lost'
  BY <1>1
<1>5. InvalTypeOK' /\ restarts' \in Nat
  BY <1>1, <1>2 DEF InvalTypeOK
<1>6. OnlyIssued'
  BY <1>2, <1>3, <1>4 DEF OnlyIssued, Issued
<1>7. PostsApart' /\ FlushesApart' /\ OneHolder'
  <2>1. PostsApart' /\ FlushesApart'
    BY <1>2 DEF PostsApart, FlushesApart
  <2>2. OneHolder'
    BY <1>2, HoldersSame
  <2> QED
    BY <2>1, <2>2
<1>8. InFlush' = InFlush
  BY <1>2 DEF InFlush
<1>9. GossipAfterFlush'
  BY <1>2, <1>3, <1>4, <1>8 DEF GossipAfterFlush
<1>10. ASSUME restarts = 0
       PROVE  Numbered' /\ SeenIsKnown' /\ DoneIsApplied' /\ OverHTTP' /\ OverGossip' /\ AckedApplied'
  <2>1. Numbered /\ SeenIsKnown /\ DoneIsApplied /\ OverHTTP /\ OverGossip /\ AckedApplied
    BY <1>10 DEF FirstLife
  <2>2. Numbered' /\ AckedApplied' /\ SeenIsKnown' /\ DoneIsApplied'
    BY <1>2, <2>1 DEF Numbered, AckedApplied, SeenIsKnown, DoneIsApplied, Awaited, Known, Paths, Present, Issued, Behind
  <2>3. \A p \in Peers, d \in Events : (Known(p, d)' <=> Known(p, d)) /\ (Behind(p, d)' <=> Behind(p, d))
    BY <1>2 DEF Known, Paths, Behind
  <2>4. OverHTTP'
    BY <1>2, <1>4, <1>8, <2>1, <2>3 DEF OverHTTP, Issued
  <2>5. OverGossip'
    <3> SUFFICES ASSUME NEW p \in Peers, NEW d \in Events, Issued(d)
                 PROVE  \/ d \in pending
                        \/ strong /\ d \in gossipQueue'
                        \/ <<d, p>> \in wire'
                        \/ <<d, p, "gossip">> \in lost'
                        \/ Known(p, d) \/ Behind(p, d)
      BY <1>2, <2>3 DEF OverGossip, Issued
    <3> QED
      BY <1>2, <1>4, <2>1 DEF OverGossip
  <2> QED
    BY <2>2, <2>4, <2>5
<1> QED
  BY <1>2, <1>5, <1>6, <1>7, <1>9, <1>10 DEF FirstLife

LEMMA RestartKeeps ==
  ASSUME DeliveryInv, Restart
  PROVE  DeliveryInv'
<1> USE DEF DeliveryInv, Base, Restart
<1>1. InvalTypeOK' /\ restarts' \in Nat /\ restarts' # 0
  BY SMTT(30) DEF InvalTypeOK
<1>2. OnlyIssued' /\ PostsApart' /\ OneHolder'
  <2>1. OnlyIssued' /\ PostsApart'
    BY DEF OnlyIssued, PostsApart, Issued
  <2>2. OneHolder'
    BY HoldersSame
  <2> QED
    BY <2>1, <2>2
<1>3. FlushesApart'
  BY DEF FlushesApart
<1>4. GossipAfterFlush'
  BY DEF GossipAfterFlush
<1> QED
  BY <1>1, <1>2, <1>3, <1>4 DEF FirstLife

-----------------------------------------------------------------------------
(* The network's steps.                                                    *)

LEMMA PostLostKeeps ==
  ASSUME DeliveryInv, NEW r \in posts, PostLost(r)
  PROVE  DeliveryInv'
<1> USE DEF DeliveryInv, Base
<1>1. /\ r.todo = r.batch /\ r.cur = None
      /\ posts' = posts \ {r}
      /\ lost' = lost \union {<<e, r.peer, "http">> : e \in r.batch}
      /\ UNCHANGED <<strong, seq, seqOf, pending, fanned, flush, acked, gossipQueue, wire, win, gossiping, applied,
                     failed, again, restarts>>
  BY DEF PostLost, issuer
<1>2. InvalTypeOK' /\ restarts' \in Nat
  BY <1>1 DEF InvalTypeOK
<1>3. OnlyIssued' /\ PostsApart' /\ FlushesApart'
  BY <1>1 DEF OnlyIssued, PostsApart, FlushesApart, Issued
<1>4. OneHolder'
  <2>1. posts' \subseteq posts
    BY <1>1
  <2> QED
    BY <1>1, <2>1, HoldersSame
<1>5. InFlush' = InFlush
  BY <1>1 DEF InFlush
<1>6. GossipAfterFlush'
  BY <1>1, <1>5 DEF GossipAfterFlush
<1>7. ASSUME restarts = 0
      PROVE  Numbered' /\ SeenIsKnown' /\ DoneIsApplied' /\ OverHTTP' /\ OverGossip' /\ AckedApplied'
  <2>1. Numbered /\ SeenIsKnown /\ DoneIsApplied /\ OverHTTP /\ OverGossip /\ AckedApplied
    BY <1>7 DEF FirstLife
  <2>2. Numbered' /\ AckedApplied' /\ DoneIsApplied'
    BY <1>1, <2>1 DEF Numbered, AckedApplied, DoneIsApplied, Awaited, Issued, Behind
  <2>3. ASSUME NEW p \in Peers, NEW d \in Events
        PROVE  (Known(p, d) => Known(p, d)') /\ (Behind(p, d)' <=> Behind(p, d))
    BY <1>1, InvalidationAssumption DEF Known, Paths, Behind
  <2>4. SeenIsKnown'
    BY <1>1, <2>1, <2>3 DEF SeenIsKnown, Issued, Present
  <2>5. OverHTTP'
    <3> SUFFICES ASSUME strong, NEW p \in Peers, NEW d \in Events, Issued(d)
                 PROVE  \/ d \in pending \ InFlush
                        \/ \E q \in posts' : q.peer = p /\ d \in q.todo
                        \/ <<d, p, "http">> \in lost'
                        \/ Known(p, d)' \/ Behind(p, d)'
      BY <1>1, <1>5 DEF OverHTTP, Issued
    <3>1. CASE p = r.peer /\ d \in r.todo
      BY <1>1, <3>1
    <3>2. CASE ~ (p = r.peer /\ d \in r.todo)
      BY <1>1, <2>1, <2>3, <3>2 DEF OverHTTP
    <3> QED
      BY <3>1, <3>2
  <2>6. OverGossip'
    BY <1>1, <2>1, <2>3 DEF OverGossip, Issued
  <2> QED
    BY <2>2, <2>4, <2>5, <2>6
<1> QED
  BY <1>1, <1>2, <1>3, <1>4, <1>6, <1>7 DEF FirstLife

LEMMA GossipLostKeeps ==
  ASSUME DeliveryInv, NEW e \in Events, NEW p \in Peers, GossipLost(e, p)
  PROVE  DeliveryInv'
<1> USE DEF DeliveryInv, Base
<1>1. /\ wire' = wire \ {<<e, p>>}
      /\ lost' = lost \union {<<e, p, "gossip">>}
      /\ UNCHANGED <<strong, seq, seqOf, pending, fanned, flush, posts, acked, gossipQueue, win, gossiping, applied,
                     failed, again, restarts>>
  BY DEF GossipLost, issuer
<1>2. InvalTypeOK' /\ restarts' \in Nat
  BY <1>1 DEF InvalTypeOK
<1>3. OnlyIssued' /\ PostsApart' /\ FlushesApart' /\ OneHolder'
  <2>1. OnlyIssued' /\ PostsApart' /\ FlushesApart'
    BY <1>1 DEF OnlyIssued, PostsApart, FlushesApart, Issued
  <2>2. posts' \subseteq posts
    BY <1>1
  <2>3. OneHolder'
    BY <1>1, <2>2, HoldersSame
  <2> QED
    BY <2>1, <2>3
<1>4. InFlush' = InFlush
  BY <1>1 DEF InFlush
<1>5. GossipAfterFlush'
  BY <1>1, <1>4 DEF GossipAfterFlush
<1>6. \A q \in Peers, d \in Events : (Known(q, d)' <=> Known(q, d)) /\ (Behind(q, d)' <=> Behind(q, d))
  BY <1>1 DEF Known, Paths, Behind
<1>7. ASSUME FirstLife, restarts = 0
      PROVE  Numbered' /\ AckedApplied' /\ SeenIsKnown' /\ DoneIsApplied'
  BY <1>1, <1>7 DEF FirstLife, Numbered, AckedApplied, SeenIsKnown, DoneIsApplied, Awaited, Known, Paths, Present,
     Issued, Behind
<1>8. ASSUME FirstLife, restarts = 0
      PROVE  OverHTTP' /\ OverGossip'
  BY <1>1, <1>4, <1>6, <1>8 DEF FirstLife, OverHTTP, OverGossip, Issued
<1> QED
  BY <1>1, <1>2, <1>3, <1>5, <1>7, <1>8 DEF FirstLife

-----------------------------------------------------------------------------
(* The peers' steps.                                                       *)

LEMMA HandlerMarkKeeps ==
  ASSUME DeliveryInv, NEW r \in posts, NEW e \in Events, HandlerMark(r, e)
  PROVE  DeliveryInv'
<1> USE DEF DeliveryInv, Base
<1> DEFINE p == r.peer
           n == IF IsSeen(p, e) THEN [r EXCEPT !.todo = @ \ {e}] ELSE [r EXCEPT !.cur = e]
<1>1. /\ r.cur = None /\ e \in r.todo
      /\ posts' = (posts \ {r}) \union {n}
      /\ MarkSeen(p, e)
      /\ UNCHANGED <<strong, seq, seqOf, pending, fanned, flush, acked, gossipQueue, wire, gossiping, applied,
                     lost, failed, again, restarts>>
  BY DEF HandlerMark, issuer, ghosts
<1>2. r \in Posts /\ p \in Peers /\ e \in r.batch /\ r.todo \subseteq r.batch
  BY <1>1 DEF InvalTypeOK, Posts, PostsApart
<1>3. /\ n \in Posts /\ n.batch = r.batch /\ n.peer = p /\ n.todo \subseteq r.todo
      /\ r.todo \ {e} \subseteq n.todo
      /\ n.cur \in n.todo \union {None}
      /\ IsSeen(p, e) => n.cur = None
      /\ ~IsSeen(p, e) => n.cur = e /\ n.todo = r.todo
  BY <1>1, <1>2 DEF Posts
<1>4. Issued(e)
  BY <1>2 DEF OnlyIssued
<1> HIDE DEF n, p
<1>5. /\ win' \in [Peers -> Windows \union {None}]
      /\ IsSeen(p, e)'
      /\ \A q \in Peers, d \in Events : IsSeen(q, d) => IsSeen(q, d)'
      /\ \A q \in Peers, d \in Events : Behind(q, d) => Behind(q, d)'
      /\ \A q \in Peers, d \in Events : Present(q, d)' => Present(q, d) \/ (q = p /\ seqOf[d] = seqOf[e])
      /\ IsSeen(p, e) => UNCHANGED win
      /\ \A q \in Peers : win'[q] # None /\ ~ (win[q] # None /\ win'[q].high <= win[q].high) =>
           win'[q].high = seqOf[e]
  BY <1>1, <1>2, MarkSeenKeeps
<1>6. InvalTypeOK' /\ restarts' \in Nat
  BY <1>1, <1>3, <1>5 DEF InvalTypeOK
<1>7. OnlyIssued'
  BY <1>1, <1>3 DEF OnlyIssued, Issued
<1>8. PostsApart'
  BY <1>1, <1>3, SMTT(30) DEF PostsApart, p
<1>9. FlushesApart'
  BY <1>1, <1>3 DEF FlushesApart
<1>10. OneHolder'
  <2> SUFFICES ASSUME NEW q \in Peers, NEW d \in Events
               PROVE  HolderAt(q, d)'
    BY DEF OneHolder
  <2>1. HolderAt(q, d)
    BY DEF OneHolder
  <2>2. IsSeen(q, d) => IsSeen(q, d)'
    BY <1>5
  <2>3. \A x \in posts : x.peer = q /\ x.cur = d => applied[q][d] = 0 /\ gossiping[q] # d /\ IsSeen(q, d)'
    BY <2>1, <2>2 DEF HolderAt
  <2>4. n.peer = q /\ n.cur = d => applied[q][d] = 0 /\ gossiping[q] # d /\ IsSeen(q, d)'
    <3> SUFFICES ASSUME n.peer = q, n.cur = d
                 PROVE  applied[q][d] = 0 /\ gossiping[q] # d /\ IsSeen(q, d)'
      OBVIOUS
    <3>1. q = p /\ d = e /\ ~IsSeen(p, e)
      BY <1>3, InvalidationAssumption
    <3>2. applied[q][d] \in Nat
      BY DEF InvalTypeOK
    <3>3. (applied[q][d] > 0 => IsSeen(q, d)) /\ (gossiping[q] = d => IsSeen(q, d))
      BY <2>1 DEF HolderAt
    <3>4. applied[q][d] = 0
      BY <3>1, <3>2, <3>3, SMTT(30)
    <3> QED
      BY <1>5, <3>1, <3>3, <3>4
  <2>5. \A x \in posts' : x.peer = q /\ x.cur = d => applied[q][d] = 0 /\ gossiping[q] # d /\ IsSeen(q, d)'
    BY <1>1, <2>3, <2>4
  <2> QED
    BY <1>1, <2>1, <2>2, <2>5 DEF HolderAt
<1>11. InFlush' = InFlush
  BY <1>1 DEF InFlush
<1>12. GossipAfterFlush'
  BY <1>1, <1>3, <1>11 DEF GossipAfterFlush, p
<1>13. ASSUME restarts = 0
       PROVE  Numbered' /\ SeenIsKnown' /\ DoneIsApplied' /\ OverHTTP' /\ OverGossip' /\ AckedApplied'
  <2>1. Numbered /\ SeenIsKnown /\ DoneIsApplied /\ OverHTTP /\ OverGossip /\ AckedApplied
    BY <1>13 DEF FirstLife
  <2>2. Numbered'
    <3>1. \A q \in Peers : win'[q] # None => win'[q].high <= seq
      <4> SUFFICES ASSUME NEW q \in Peers, win'[q] # None PROVE win'[q].high <= seq
        OBVIOUS
      <4>1. win'[q].high \in Nat /\ seq \in Nat /\ (win[q] # None => win[q].high \in Nat)
        BY <1>5 DEF InvalTypeOK, Windows
      <4> QED
        BY <1>5, <2>1, <4>1, SMTT(30) DEF Numbered
    <3> QED
      BY <1>1, <2>1, <3>1 DEF Numbered, Issued
  <2>3. ASSUME NEW q \in Peers, NEW d \in Events, Known(q, d)
        PROVE  Known(q, d)'
    BY <1>1, <2>3, InvalidationAssumption DEF Known, Paths
  <2>4. IsSeen(p, e) => Known(p, e) \/ Behind(p, e)
    BY <1>2, <1>4, <2>1, SeenSplit DEF SeenIsKnown, p
  <2>5. SeenIsKnown'
    <3> SUFFICES ASSUME NEW q \in Peers, NEW d \in Events, Issued(d), Present(q, d)'
                 PROVE  Known(q, d)'
      BY <1>1 DEF SeenIsKnown, Issued
    <3>1. CASE Present(q, d)
      BY <2>1, <2>3, <3>1 DEF SeenIsKnown
    <3>2. CASE ~Present(q, d)
      <4>1. q = p /\ d = e
        BY <1>5, <2>1, <3>2 DEF Numbered
      <4>2. ~IsSeen(p, e)
        BY <1>1, <1>5, <3>2, <4>1 DEF Present
      <4>3. n \in posts' /\ n.peer = p /\ n.cur = e
        BY <1>1, <1>3, <4>2
      <4> QED
        BY <4>1, <4>3 DEF Known
    <3> QED
      BY <3>1, <3>2
  <2>6. DoneIsApplied'
    <3> SUFFICES ASSUME NEW x \in posts', Awaited(x.batch, x.peer)', NEW d \in x.batch \ x.todo
                 PROVE  applied[x.peer][d] > 0 \/ Behind(x.peer, d)'
      BY <1>1 DEF DoneIsApplied
    <3>1. Awaited(x.batch, x.peer)
      BY <1>1 DEF Awaited
    <3>2. x.peer \in Peers /\ d \in Events
      BY <1>6 DEF InvalTypeOK, Posts
    <3>3. CASE x \in posts
      BY <1>5, <2>1, <3>1, <3>2, <3>3 DEF DoneIsApplied
    <3>4. CASE x = n /\ d # e
      BY <1>2, <1>3, <1>5, <2>1, <3>1, <3>2, <3>4 DEF DoneIsApplied, p
    <3>5. CASE x = n /\ d = e
      <4>1. IsSeen(p, e)
        BY <1>1, <1>3, <3>5
      <4>2. e \in pending /\ e \notin fanned
        BY <1>2, <1>3, <3>1, <3>5 DEF Awaited, FlushesApart, GossipAfterFlush
      <4>3. \A y \in posts : y.peer = p /\ y.cur = e => FALSE
        BY <1>1, <1>2, InvalidationAssumption DEF PostsApart, p
      <4>4. Known(p, e) => applied[p][e] > 0
        BY <1>2, <4>2, <4>3 DEF Known, Paths, GossipAfterFlush, p
      <4> QED
        BY <1>3, <1>5, <2>4, <3>2, <3>5, <4>1, <4>4
    <3> QED
      BY <1>1, <3>3, <3>4, <3>5
  <2>7. OverHTTP'
    <3> SUFFICES ASSUME strong, NEW q \in Peers, NEW d \in Events, Issued(d)
                 PROVE  \/ d \in pending \ InFlush
                        \/ \E x \in posts' : x.peer = q /\ d \in x.todo
                        \/ <<d, q, "http">> \in lost
                        \/ Known(q, d)' \/ Behind(q, d)'
      BY <1>1, <1>11 DEF OverHTTP, Issued
    <3>1. CASE \E x \in posts : x.peer = q /\ d \in x.todo
      <4>1. PICK x \in posts : x.peer = q /\ d \in x.todo
        BY <3>1
      <4>2. CASE x # r
        BY <1>1, <4>1, <4>2
      <4>3. CASE x = r /\ d \in n.todo
        BY <1>1, <1>3, <4>1, <4>3 DEF p
      <4>4. CASE x = r /\ d \notin n.todo
        <5>1. d = e /\ q = p /\ IsSeen(p, e)
          BY <1>3, <4>1, <4>4 DEF p
        <5> QED
          BY <1>5, <2>3, <2>4, <5>1
      <4> QED
        BY <4>2, <4>3, <4>4
    <3>2. CASE ~ \E x \in posts : x.peer = q /\ d \in x.todo
      BY <1>5, <2>1, <2>3, <3>2 DEF OverHTTP
    <3> QED
      BY <3>1, <3>2
  <2>8. OverGossip'
    BY <1>1, <1>5, <2>1, <2>3 DEF OverGossip, Issued
  <2>9. AckedApplied'
    BY <1>1, <1>5, <2>1 DEF AckedApplied
  <2> QED
    BY <2>2, <2>5, <2>6, <2>7, <2>8, <2>9
<1> QED
  BY <1>1, <1>6, <1>7, <1>8, <1>9, <1>10, <1>12, <1>13 DEF FirstLife

LEMMA HandlerApplyKeeps ==
  ASSUME DeliveryInv, NEW r \in posts, HandlerApply(r)
  PROVE  DeliveryInv'
<1> USE DEF DeliveryInv, Base
<1> DEFINE p == r.peer
           e == r.cur
           n == [r EXCEPT !.todo = @ \ {r.cur}, !.cur = None]
<1>1. /\ e # None
      /\ applied' = [applied EXCEPT ![p][e] = @ + 1]
      /\ posts' = (posts \ {r}) \union {n}
      /\ UNCHANGED <<strong, seq, seqOf, pending, fanned, flush, acked, gossipQueue, wire, win, gossiping,
                     lost, failed, again, restarts>>
  BY DEF HandlerApply, issuer, ghosts
<1>2. r \in Posts /\ p \in Peers /\ e \in Events /\ e \in r.todo /\ e \in r.batch
  BY <1>1 DEF InvalTypeOK, Posts, PostsApart
<1>3. n \in Posts /\ n.batch = r.batch /\ n.peer = p /\ n.todo = r.todo \ {e} /\ n.cur = None
  BY <1>2 DEF Posts
<1>4. /\ applied' \in [Peers -> [Events -> Nat]]
      /\ applied'[p][e] = applied[p][e] + 1
      /\ \A q \in Peers, d \in Events : q # p \/ d # e => applied'[q][d] = applied[q][d]
  <2>1. applied \in [Peers -> [Events -> Nat]]
    BY DEF InvalTypeOK
  <2>2. applied' = [applied EXCEPT ![p] = [applied[p] EXCEPT ![e] = applied[p][e] + 1]]
    BY <1>1
  <2> HIDE DEF p, e
  <2> QED
    BY <1>2, <2>1, <2>2, SMTT(30)
<1> HIDE DEF n, p, e
<1>5. applied[p][e] = 0 /\ gossiping[p] # e /\ IsSeen(p, e) /\ Issued(e)
  BY <1>2 DEF OneHolder, HolderAt, OnlyIssued, p, e
<1>6. InvalTypeOK' /\ restarts' \in Nat
  BY <1>1, <1>3, <1>4 DEF InvalTypeOK
<1>7. OnlyIssued'
  BY <1>1, <1>3, <1>4, <1>5, SMTT(30) DEF OnlyIssued, Issued
<1>8. PostsApart'
  BY <1>1, <1>3, SMTT(30) DEF PostsApart, p
<1>9. FlushesApart'
  BY <1>1, <1>3 DEF FlushesApart
<1>10. OneHolder'
  <2>1. \A x \in posts' : x.peer = p => x.cur # e
    BY <1>1, <1>2, <1>3, SMTT(30) DEF PostsApart, p
  <2>2. \A q \in Peers, d \in Events : IsSeen(q, d)' <=> IsSeen(q, d)
    BY <1>1 DEF IsSeen
  <2>3. \A x \in posts' : x \in posts \/ x.cur = None
    BY <1>1, <1>3
  <2>4. ASSUME NEW q \in Peers, NEW d \in Events
        PROVE  /\ applied'[q][d] <= 1
               /\ applied'[q][d] > 0 => IsSeen(q, d)
               /\ gossiping[q] = d => applied'[q][d] = 0 /\ IsSeen(q, d)
               /\ \A x \in posts' : x.peer = q /\ x.cur = d =>
                    applied'[q][d] = 0 /\ gossiping[q] # d /\ IsSeen(q, d)
    <3>1. CASE q = p /\ d = e
      BY <1>4, <1>5, <2>1, <3>1, SMTT(30)
    <3>2. CASE ~ (q = p /\ d = e)
      BY <1>4, <2>3, <3>2, InvalidationAssumption, SMTT(30) DEF OneHolder, HolderAt
    <3> QED
      BY <3>1, <3>2
  <2> QED
    BY <1>1, <2>2, <2>4, SMTT(30) DEF OneHolder, HolderAt
<1>11. InFlush' = InFlush
  BY <1>1 DEF InFlush
<1>12. GossipAfterFlush'
  BY <1>1, <1>3, <1>11 DEF GossipAfterFlush, p
<1>13. ASSUME restarts = 0
       PROVE  Numbered' /\ SeenIsKnown' /\ DoneIsApplied' /\ OverHTTP' /\ OverGossip' /\ AckedApplied'
  <2>1. Numbered /\ SeenIsKnown /\ DoneIsApplied /\ OverHTTP /\ OverGossip /\ AckedApplied
    BY <1>13 DEF FirstLife
  <2>2. Numbered'
    BY <1>1, <2>1 DEF Numbered, Issued
  <2>3. applied'[p][e] > 0 /\ \A q \in Peers, d \in Events : applied[q][d] > 0 => applied'[q][d] > 0
    BY <1>4, <1>5, SMTT(30)
  <2>4. ASSUME NEW q \in Peers, NEW d \in Events, Known(q, d)
        PROVE  Known(q, d)'
    <3>1. CASE q = p /\ d = e
      BY <2>3, <3>1 DEF Known
    <3>2. CASE ~ (q = p /\ d = e)
      BY <1>1, <2>3, <2>4, <3>2 DEF Known, Paths, p, e
    <3> QED
      BY <3>1, <3>2
  <2>5. \A q \in Peers, d \in Events : Behind(q, d)' <=> Behind(q, d)
    BY <1>1 DEF Behind
  <2>6. SeenIsKnown'
    BY <1>1, <2>1, <2>4 DEF SeenIsKnown, Issued, Present
  <2>7. DoneIsApplied'
    <3> SUFFICES ASSUME NEW x \in posts', Awaited(x.batch, x.peer)', NEW d \in x.batch \ x.todo
                 PROVE  applied'[x.peer][d] > 0 \/ Behind(x.peer, d)
      BY <1>1 DEF DoneIsApplied, Behind
    <3>1. Awaited(x.batch, x.peer)
      BY <1>1 DEF Awaited
    <3>2. x.peer \in Peers /\ d \in Events
      BY <1>6 DEF InvalTypeOK, Posts
    <3>3. CASE x \in posts
      BY <2>1, <2>3, <3>1, <3>2, <3>3 DEF DoneIsApplied
    <3>4. CASE x = n /\ d # e
      BY <1>2, <1>3, <2>1, <2>3, <3>1, <3>2, <3>4 DEF DoneIsApplied, p
    <3>5. CASE x = n /\ d = e
      BY <1>3, <2>3, <3>5
    <3> QED
      BY <1>1, <3>3, <3>4, <3>5
  <2>8. OverHTTP'
    <3> SUFFICES ASSUME strong, NEW q \in Peers, NEW d \in Events, Issued(d)
                 PROVE  \/ d \in pending \ InFlush
                        \/ \E x \in posts' : x.peer = q /\ d \in x.todo
                        \/ <<d, q, "http">> \in lost
                        \/ Known(q, d)' \/ Behind(q, d)
      BY <1>1, <1>11, <2>5 DEF OverHTTP, Issued
    <3>1. CASE q = p /\ d = e
      BY <2>3, <3>1 DEF Known
    <3>2. CASE ~ (q = p /\ d = e)
      BY <1>1, <1>3, <2>1, <2>4, <3>2, SMTT(30) DEF OverHTTP, p
    <3> QED
      BY <3>1, <3>2
  <2>9. OverGossip'
    BY <1>1, <2>1, <2>4, <2>5 DEF OverGossip, Issued
  <2>10. AckedApplied'
    BY <1>1, <2>1, <2>3, <2>5 DEF AckedApplied
  <2> QED
    BY <2>2, <2>6, <2>7, <2>8, <2>9, <2>10
<1> QED
  BY <1>1, <1>6, <1>7, <1>8, <1>9, <1>10, <1>12, <1>13 DEF FirstLife

LEMMA HandlerFailsKeeps ==
  ASSUME DeliveryInv, NEW r \in posts, HandlerFails(r)
  PROVE  DeliveryInv'
<1> USE DEF DeliveryInv, Base
<1> DEFINE p == r.peer
           e == r.cur
<1>1. /\ e # None
      /\ failed' = failed \union {<<e, p, "http">>}
      /\ lost' = lost \union {<<d, p, "http">> : d \in r.todo \ {e}}
      /\ posts' = posts \ {r}
      /\ UNCHANGED <<strong, seq, seqOf, pending, fanned, acked, gossipQueue, wire, win, gossiping, applied,
                     again, restarts>>
  BY DEF HandlerFails
<1>2. r \in Posts /\ p \in Peers /\ e \in Events /\ e \in r.todo /\ e \in r.batch /\ r.batch \subseteq Events
  BY <1>1 DEF InvalTypeOK, Posts, PostsApart
<1>3. Narrowed
  BY AnswerNarrows DEF HandlerFails
<1>4. InFlush' = InFlush /\ FlushesApart' /\ \A batch, q : Awaited(batch, q)' => Awaited(batch, q)
  BY <1>1, <1>3, NarrowedHolds
<1> HIDE DEF p, e
<1>5. InvalTypeOK' /\ restarts' \in Nat
  BY <1>1, <1>3 DEF InvalTypeOK, Narrowed
<1>6. OnlyIssued'
  BY <1>1, <1>2 DEF OnlyIssued, Issued
<1>7. PostsApart'
  BY <1>1 DEF PostsApart
<1>8. OneHolder'
  BY <1>1, SMTT(30) DEF OneHolder, HolderAt, IsSeen
<1>9. GossipAfterFlush'
  <2>1. strong /\ \A x \in posts' : x.peer = p => e \notin x.batch
    BY <1>1, <1>2 DEF PostsApart, p
  <2>2. e \in pending => e \in InFlush
    BY <1>2 DEF FlushesApart, InFlush
  <2> QED
    BY <1>1, <1>4, <2>1, <2>2 DEF GossipAfterFlush
<1>10. ASSUME restarts = 0
       PROVE  Numbered' /\ SeenIsKnown' /\ DoneIsApplied' /\ OverHTTP' /\ OverGossip' /\ AckedApplied'
  <2>1. Numbered /\ SeenIsKnown /\ DoneIsApplied /\ OverHTTP /\ OverGossip /\ AckedApplied
    BY <1>10 DEF FirstLife
  <2>2. Numbered' /\ AckedApplied'
    BY <1>1, <2>1 DEF Numbered, AckedApplied, Issued, Behind
  <2>3. DoneIsApplied'
    BY <1>1, <1>4, <2>1 DEF DoneIsApplied, Behind
  <2>4. ASSUME NEW q \in Peers, NEW d \in Events
        PROVE  (Known(q, d) => Known(q, d)') /\ (Behind(q, d)' <=> Behind(q, d))
    <3>1. Known(p, e)'
      BY <1>1 DEF Known, Paths, PostsApart
    <3>2. CASE q = p /\ d = e
      BY <1>1, <3>1, <3>2 DEF Behind
    <3>3. CASE ~ (q = p /\ d = e)
      BY <1>1, <3>3 DEF Known, Paths, Behind, p, e
    <3> QED
      BY <3>2, <3>3
  <2>5. SeenIsKnown'
    BY <1>1, <2>1, <2>4 DEF SeenIsKnown, Issued, Present
  <2>6. OverHTTP'
    <3> SUFFICES ASSUME strong, NEW q \in Peers, NEW d \in Events, Issued(d)
                 PROVE  \/ d \in pending \ InFlush
                        \/ \E x \in posts' : x.peer = q /\ d \in x.todo
                        \/ <<d, q, "http">> \in lost'
                        \/ Known(q, d)' \/ Behind(q, d)'
      BY <1>1, <1>4 DEF OverHTTP, Issued
    <3>1. CASE q = p /\ d \in r.todo /\ d = e
      BY <1>1, <3>1 DEF Known, Paths
    <3>2. CASE q = p /\ d \in r.todo /\ d # e
      BY <1>1, <3>2
    <3>3. CASE ~ (q = p /\ d \in r.todo)
      BY <1>1, <2>1, <2>4, <3>3 DEF OverHTTP, p
    <3> QED
      BY <3>1, <3>2, <3>3
  <2>7. OverGossip'
    BY <1>1, <2>1, <2>4 DEF OverGossip, Issued
  <2> QED
    BY <2>2, <2>3, <2>5, <2>6, <2>7
<1> QED
  BY <1>1, <1>4, <1>5, <1>6, <1>7, <1>8, <1>9, <1>10 DEF FirstLife

LEMMA HandlerDoneKeeps ==
  ASSUME DeliveryInv, NEW r \in posts, HandlerDone(r)
  PROVE  DeliveryInv'
<1> USE DEF DeliveryInv, Base
<1>1. /\ r.cur = None /\ r.todo = {}
      /\ posts' = posts \ {r}
      /\ acked' = IF Awaited(r.batch, r.peer) THEN acked \union (r.batch \X {r.peer}) ELSE acked
      /\ UNCHANGED <<strong, seq, seqOf, pending, fanned, gossipQueue, wire, win, gossiping, applied,
                     lost, failed, again, restarts>>
  BY DEF HandlerDone, ghosts
<1>2. r \in Posts /\ r.peer \in Peers /\ r.batch \subseteq Events
  BY DEF InvalTypeOK, Posts
<1>3. Narrowed
  BY AnswerNarrows DEF HandlerDone
<1>4. InFlush' = InFlush /\ FlushesApart' /\ \A batch, q : Awaited(batch, q)' => Awaited(batch, q)
  BY <1>1, <1>3, NarrowedHolds
<1>5. \A d \in Events, q \in Peers : <<d, q>> \in acked' =>
        <<d, q>> \in acked \/ (q = r.peer /\ d \in r.batch /\ Awaited(r.batch, r.peer))
  BY <1>1
<1>6. InvalTypeOK' /\ restarts' \in Nat
  <2>1. acked' \subseteq Events \X Peers
    BY <1>1, <1>2 DEF InvalTypeOK
  <2> QED
    BY <1>1, <1>3, <2>1 DEF InvalTypeOK, Narrowed
<1>7. OnlyIssued'
  BY <1>1, <1>5 DEF OnlyIssued, Issued
<1>8. PostsApart' /\ OneHolder'
  <2>1. PostsApart'
    BY <1>1 DEF PostsApart
  <2>2. posts' \subseteq posts
    BY <1>1
  <2>3. OneHolder'
    BY <1>1, <2>2, HoldersSame
  <2> QED
    BY <2>1, <2>3
<1>9. GossipAfterFlush'
  BY <1>1, <1>4 DEF GossipAfterFlush
<1>10. ASSUME restarts = 0
       PROVE  Numbered' /\ SeenIsKnown' /\ DoneIsApplied' /\ OverHTTP' /\ OverGossip' /\ AckedApplied'
  <2>1. Numbered /\ SeenIsKnown /\ DoneIsApplied /\ OverHTTP /\ OverGossip /\ AckedApplied
    BY <1>10 DEF FirstLife
  <2>2. Numbered'
    BY <1>1, <2>1 DEF Numbered, Issued
  <2>3. DoneIsApplied'
    BY <1>1, <1>4, <2>1 DEF DoneIsApplied, Behind
  <2>4. ASSUME NEW q \in Peers, NEW d \in Events
        PROVE  (Known(q, d) => Known(q, d)') /\ (Behind(q, d)' <=> Behind(q, d))
    BY <1>1, InvalidationAssumption DEF Known, Paths, Behind
  <2>5. SeenIsKnown'
    BY <1>1, <2>1, <2>4 DEF SeenIsKnown, Issued, Present
  <2>6. OverHTTP'
    BY <1>1, <1>4, <2>1, <2>4 DEF OverHTTP, Issued
  <2>7. OverGossip'
    BY <1>1, <2>1, <2>4 DEF OverGossip, Issued
  <2>8. AckedApplied'
    <3>1. Awaited(r.batch, r.peer) => \A d \in r.batch : applied[r.peer][d] > 0 \/ Behind(r.peer, d)
      BY <1>1, <2>1 DEF DoneIsApplied
    <3> QED
      BY <1>1, <1>5, <2>1, <2>4, <3>1 DEF AckedApplied
  <2> QED
    BY <2>2, <2>3, <2>5, <2>6, <2>7, <2>8
<1> QED
  BY <1>1, <1>4, <1>6, <1>7, <1>8, <1>9, <1>10 DEF FirstLife

LEMMA GossipMarkKeeps ==
  ASSUME DeliveryInv, NEW e \in Events, NEW p \in Peers, GossipMark(e, p)
  PROVE  DeliveryInv'
<1> USE DEF DeliveryInv, Base
<1>1. /\ gossiping[p] = None /\ <<e, p>> \in wire
      /\ wire \ {<<e, p>>} \subseteq wire' /\ wire' \subseteq wire
      /\ gossiping' = [gossiping EXCEPT ![p] = IF IsSeen(p, e) THEN None ELSE e]
      /\ MarkSeen(p, e)
      /\ UNCHANGED <<strong, seq, seqOf, pending, fanned, flush, posts, acked, gossipQueue, applied, lost, failed, restarts>>
  BY DEF GossipMark, issuer
<1>2. Issued(e) /\ e \in fanned
  BY <1>1 DEF OnlyIssued, GossipAfterFlush
<1>3. /\ gossiping' \in [Peers -> Events \union {None}]
      /\ \A q \in Peers : q # p => gossiping'[q] = gossiping[q]
      /\ IsSeen(p, e) => gossiping'[p] = None
      /\ ~IsSeen(p, e) => gossiping'[p] = e
  BY <1>1 DEF InvalTypeOK
<1>4. \A q \in Peers, d \in Events : gossiping'[q] = d => gossiping[q] = d \/ (q = p /\ d = e /\ ~IsSeen(p, e))
  BY <1>3, InvalidationAssumption
<1>5. \A q \in Peers, d \in Events : gossiping[q] = d => gossiping'[q] = d
  BY <1>1, <1>3, InvalidationAssumption
<1>6. /\ win' \in [Peers -> Windows \union {None}]
      /\ IsSeen(p, e)'
      /\ \A q \in Peers, d \in Events : IsSeen(q, d) => IsSeen(q, d)'
      /\ \A q \in Peers, d \in Events : Behind(q, d) => Behind(q, d)'
      /\ \A q \in Peers, d \in Events : Present(q, d)' => Present(q, d) \/ (q = p /\ seqOf[d] = seqOf[e])
      /\ IsSeen(p, e) => UNCHANGED win
      /\ \A q \in Peers : win'[q] # None /\ ~ (win[q] # None /\ win'[q].high <= win[q].high) =>
           win'[q].high = seqOf[e]
  BY <1>1, MarkSeenKeeps
<1>7. InvalTypeOK' /\ restarts' \in Nat
  BY <1>1, <1>3, <1>6 DEF InvalTypeOK
<1>8. OnlyIssued'
  BY <1>1, <1>2, <1>4 DEF OnlyIssued, Issued
<1>9. PostsApart' /\ FlushesApart'
  BY <1>1 DEF PostsApart, FlushesApart
<1>10. OneHolder'
  <2>1. ASSUME NEW q \in Peers, NEW d \in Events
        PROVE  HolderAt(q, d)'
    <3>1. applied[q][d] \in Nat
      BY DEF InvalTypeOK
    <3>2. /\ applied[q][d] <= 1
          /\ applied[q][d] > 0 => IsSeen(q, d)
          /\ gossiping[q] = d => applied[q][d] = 0 /\ IsSeen(q, d)
          /\ \A x \in posts : x.peer = q /\ x.cur = d =>
               applied[q][d] = 0 /\ gossiping[q] # d /\ IsSeen(q, d)
      BY DEF OneHolder, HolderAt
    <3>3. ~IsSeen(q, d) => applied[q][d] = 0
      BY <3>1, <3>2, SMTT(30)
    <3>4. (IsSeen(q, d) => IsSeen(q, d)') /\ IsSeen(p, e)'
      BY <1>6
    <3>5. /\ applied[q][d] > 0 => IsSeen(q, d)'
          /\ gossiping'[q] = d => applied[q][d] = 0 /\ IsSeen(q, d)'
          /\ \A x \in posts : x.peer = q /\ x.cur = d =>
               applied[q][d] = 0 /\ gossiping'[q] # d /\ IsSeen(q, d)'
      BY <1>4, <3>2, <3>3, <3>4
    <3> QED
      BY <1>1, <3>2, <3>5 DEF HolderAt
  <2> QED
    BY <2>1 DEF OneHolder
<1>11. InFlush' = InFlush
  BY <1>1 DEF InFlush
<1>12. GossipAfterFlush'
  BY <1>1, <1>2, <1>4, <1>11 DEF GossipAfterFlush
<1>13. ASSUME restarts = 0
       PROVE  Numbered' /\ SeenIsKnown' /\ DoneIsApplied' /\ OverHTTP' /\ OverGossip' /\ AckedApplied'
  <2>1. Numbered /\ SeenIsKnown /\ DoneIsApplied /\ OverHTTP /\ OverGossip /\ AckedApplied
    BY <1>13 DEF FirstLife
  <2>2. Numbered'
    <3>1. \A q \in Peers : win'[q] # None => win'[q].high <= seq
      <4> SUFFICES ASSUME NEW q \in Peers, win'[q] # None PROVE win'[q].high <= seq
        OBVIOUS
      <4>1. win'[q].high \in Nat /\ seq \in Nat /\ (win[q] # None => win[q].high \in Nat)
        BY <1>6 DEF InvalTypeOK, Windows
      <4> QED
        BY <1>6, <2>1, <4>1, SMTT(30) DEF Numbered
    <3> QED
      BY <1>1, <2>1, <3>1 DEF Numbered, Issued
  <2>3. ASSUME NEW q \in Peers, NEW d \in Events, Known(q, d)
        PROVE  Known(q, d)'
    BY <1>1, <1>5, <2>3 DEF Known, Paths
  <2>4. IsSeen(p, e) => Known(p, e) \/ Behind(p, e)
    BY <1>2, <2>1, SeenSplit DEF SeenIsKnown
  <2>5. ~IsSeen(p, e) => Known(p, e)'
    BY <1>3 DEF Known
  <2>6. SeenIsKnown'
    <3> SUFFICES ASSUME NEW q \in Peers, NEW d \in Events, Issued(d), Present(q, d)'
                 PROVE  Known(q, d)'
      BY <1>1 DEF SeenIsKnown, Issued
    <3>1. CASE Present(q, d)
      BY <2>1, <2>3, <3>1 DEF SeenIsKnown
    <3>2. CASE ~Present(q, d)
      <4>1. q = p /\ d = e
        BY <1>6, <2>1, <3>2 DEF Numbered
      <4>2. ~IsSeen(p, e)
        BY <1>1, <1>6, <3>2, <4>1 DEF Present
      <4> QED
        BY <2>5, <4>1, <4>2
    <3> QED
      BY <3>1, <3>2
  <2>7. DoneIsApplied'
    BY <1>1, <1>6, <2>1 DEF DoneIsApplied, Awaited, InvalTypeOK, Posts
  <2>8. OverHTTP'
    BY <1>1, <1>6, <1>11, <2>1, <2>3 DEF OverHTTP, Issued
  <2>9. OverGossip'
    <3> SUFFICES ASSUME NEW q \in Peers, NEW d \in Events, Issued(d)
                 PROVE  \/ d \in pending
                        \/ strong /\ d \in gossipQueue
                        \/ <<d, q>> \in wire'
                        \/ <<d, q, "gossip">> \in lost
                        \/ Known(q, d)' \/ Behind(q, d)'
      BY <1>1 DEF OverGossip, Issued
    <3>1. CASE q = p /\ d = e
      BY <1>6, <2>3, <2>4, <2>5, <3>1
    <3>2. CASE ~ (q = p /\ d = e)
      BY <1>1, <1>6, <2>1, <2>3, <3>2 DEF OverGossip
    <3> QED
      BY <3>1, <3>2
  <2>10. AckedApplied'
    BY <1>1, <1>6, <2>1 DEF AckedApplied
  <2> QED
    BY <2>2, <2>6, <2>7, <2>8, <2>9, <2>10
<1> QED
  BY <1>1, <1>7, <1>8, <1>9, <1>10, <1>12, <1>13 DEF FirstLife

LEMMA GossipApplyKeeps ==
  ASSUME DeliveryInv, NEW p \in Peers, GossipApply(p)
  PROVE  DeliveryInv'
<1> USE DEF DeliveryInv, Base
<1> DEFINE e == gossiping[p]
<1>1. /\ e # None
      /\ applied' = [applied EXCEPT ![p][e] = @ + 1]
      /\ gossiping' = [gossiping EXCEPT ![p] = None]
      /\ UNCHANGED <<strong, seq, seqOf, pending, fanned, flush, posts, acked, gossipQueue, wire, win,
                     lost, failed, again, restarts>>
  BY DEF GossipApply, issuer, ghosts
<1>2. e \in Events
  BY <1>1 DEF InvalTypeOK
<1>3. /\ applied' \in [Peers -> [Events -> Nat]]
      /\ applied'[p][e] = applied[p][e] + 1
      /\ \A q \in Peers, d \in Events : q # p \/ d # e => applied'[q][d] = applied[q][d]
  <2>1. applied \in [Peers -> [Events -> Nat]]
    BY DEF InvalTypeOK
  <2>2. applied' = [applied EXCEPT ![p] = [applied[p] EXCEPT ![e] = applied[p][e] + 1]]
    BY <1>1
  <2> HIDE DEF e
  <2> QED
    BY <1>2, <2>1, <2>2, SMTT(30)
<1>4. applied[p][e] = 0 /\ IsSeen(p, e) /\ Issued(e) /\ \A x \in posts : x.peer = p => x.cur # e
  BY <1>2 DEF OneHolder, HolderAt, OnlyIssued
<1>5. /\ gossiping' \in [Peers -> Events \union {None}]
      /\ \A q \in Peers, d \in Events : gossiping'[q] = d => gossiping[q] = d /\ q # p
      /\ \A q \in Peers, d \in Events : gossiping[q] = d => gossiping'[q] = d \/ (q = p /\ d = e)
  BY <1>1, InvalidationAssumption DEF InvalTypeOK
<1> HIDE DEF e
<1>6. InvalTypeOK' /\ restarts' \in Nat
  BY <1>1, <1>3, <1>5 DEF InvalTypeOK
<1>7. OnlyIssued'
  BY <1>1, <1>3, <1>4, <1>5 DEF OnlyIssued, Issued
<1>8. PostsApart' /\ FlushesApart'
  BY <1>1 DEF PostsApart, FlushesApart
<1>9. OneHolder'
  <2>1. \A q \in Peers, d \in Events : IsSeen(q, d)' <=> IsSeen(q, d)
    BY <1>1 DEF IsSeen
  <2>2. ASSUME NEW q \in Peers, NEW d \in Events
        PROVE  /\ applied'[q][d] <= 1
               /\ applied'[q][d] > 0 => IsSeen(q, d)
               /\ gossiping'[q] = d => applied'[q][d] = 0 /\ IsSeen(q, d)
               /\ \A x \in posts : x.peer = q /\ x.cur = d =>
                    applied'[q][d] = 0 /\ gossiping'[q] # d /\ IsSeen(q, d)
    <3>1. CASE q = p /\ d = e
      BY <1>3, <1>4, <1>5, <3>1, SMTT(30)
    <3>2. CASE ~ (q = p /\ d = e)
      BY <1>3, <1>5, <3>2, SMTT(30) DEF OneHolder, HolderAt
    <3> QED
      BY <3>1, <3>2
  <2> QED
    BY <1>1, <2>1, <2>2, SMTT(30) DEF OneHolder, HolderAt
<1>10. InFlush' = InFlush
  BY <1>1 DEF InFlush
<1>11. GossipAfterFlush'
  BY <1>1, <1>5, <1>10 DEF GossipAfterFlush
<1>12. ASSUME restarts = 0
       PROVE  Numbered' /\ SeenIsKnown' /\ DoneIsApplied' /\ OverHTTP' /\ OverGossip' /\ AckedApplied'
  <2>1. Numbered /\ SeenIsKnown /\ DoneIsApplied /\ OverHTTP /\ OverGossip /\ AckedApplied
    BY <1>12 DEF FirstLife
  <2>2. Numbered'
    BY <1>1, <2>1 DEF Numbered, Issued
  <2>3. applied'[p][e] > 0 /\ \A q \in Peers, d \in Events : applied[q][d] > 0 => applied'[q][d] > 0
    BY <1>3, <1>4, SMTT(30)
  <2>4. ASSUME NEW q \in Peers, NEW d \in Events
        PROVE  (Known(q, d) => Known(q, d)') /\ (Behind(q, d)' <=> Behind(q, d))
    BY <1>1, <1>5, <2>3 DEF Known, Paths, Behind
  <2>5. SeenIsKnown'
    BY <1>1, <2>1, <2>4 DEF SeenIsKnown, Issued, Present
  <2>6. DoneIsApplied'
    BY <1>1, <2>1, <2>3, <2>4 DEF DoneIsApplied, Awaited, InvalTypeOK, Posts
  <2>7. OverHTTP'
    BY <1>1, <1>10, <2>1, <2>4 DEF OverHTTP, Issued
  <2>8. OverGossip'
    BY <1>1, <2>1, <2>4 DEF OverGossip, Issued
  <2>9. AckedApplied'
    BY <1>1, <2>1, <2>3, <2>4 DEF AckedApplied
  <2> QED
    BY <2>2, <2>5, <2>6, <2>7, <2>8, <2>9
<1> QED
  BY <1>1, <1>6, <1>7, <1>8, <1>9, <1>11, <1>12 DEF FirstLife

LEMMA GossipFailsKeeps ==
  ASSUME DeliveryInv, NEW p \in Peers, GossipFails(p)
  PROVE  DeliveryInv'
<1> USE DEF DeliveryInv, Base
<1>0. PICK e \in Events : e = gossiping[p]
  BY DEF GossipFails, InvalTypeOK
<1>1. /\ e # None
      /\ failed' = failed \union {<<e, p, "gossip">>}
      /\ gossiping' = [gossiping EXCEPT ![p] = None]
      /\ UNCHANGED <<strong, seq, seqOf, pending, fanned, flush, posts, acked, gossipQueue, wire, win, applied,
                     lost, again, restarts>>
  BY <1>0 DEF GossipFails, issuer
<1>2. e \in fanned
  BY <1>0 DEF GossipAfterFlush
<1>3. /\ gossiping' \in [Peers -> Events \union {None}]
      /\ \A q \in Peers, d \in Events : gossiping'[q] = d => gossiping[q] = d
      /\ \A q \in Peers, d \in Events : gossiping[q] = d => gossiping'[q] = d \/ (q = p /\ d = e)
  BY <1>0, <1>1, InvalidationAssumption DEF InvalTypeOK
<1>4. InvalTypeOK' /\ restarts' \in Nat
  BY <1>1, <1>3 DEF InvalTypeOK
<1>5. OnlyIssued' /\ PostsApart' /\ FlushesApart'
  BY <1>1, <1>3 DEF OnlyIssued, PostsApart, FlushesApart, Issued
<1>6. OneHolder'
  BY <1>1, <1>3, SMTT(30) DEF OneHolder, HolderAt, IsSeen
<1>7. InFlush' = InFlush
  BY <1>1 DEF InFlush
<1>8. GossipAfterFlush'
  BY <1>1, <1>2, <1>3, <1>7 DEF GossipAfterFlush
<1>9. ASSUME restarts = 0
      PROVE  Numbered' /\ SeenIsKnown' /\ DoneIsApplied' /\ OverHTTP' /\ OverGossip' /\ AckedApplied'
  <2>1. Numbered /\ SeenIsKnown /\ DoneIsApplied /\ OverHTTP /\ OverGossip /\ AckedApplied
    BY <1>9 DEF FirstLife
  <2>2. Numbered' /\ AckedApplied' /\ DoneIsApplied'
    BY <1>1, <2>1 DEF Numbered, AckedApplied, DoneIsApplied, Awaited, Issued, Behind
  <2>3. ASSUME NEW q \in Peers, NEW d \in Events
        PROVE  (Known(q, d) => Known(q, d)') /\ (Behind(q, d)' <=> Behind(q, d))
    <3>1. "gossip" \in Paths' /\ Paths' = Paths
      BY <1>1 DEF Paths
    <3>2. Known(p, e)'
      BY <1>1, <3>1 DEF Known
    <3> QED
      BY <1>1, <1>3, <3>1, <3>2 DEF Known, Behind
  <2>4. SeenIsKnown'
    BY <1>1, <2>1, <2>3 DEF SeenIsKnown, Issued, Present
  <2>5. OverHTTP' /\ OverGossip'
    BY <1>1, <1>7, <2>1, <2>3 DEF OverHTTP, OverGossip, Issued
  <2> QED
    BY <2>2, <2>4, <2>5
<1> QED
  BY <1>1, <1>4, <1>5, <1>6, <1>8, <1>9 DEF FirstLife

LEMMA DeliveryKept == DeliveryInv /\ [InvalNext]_invalVars => DeliveryInv'
<1> SUFFICES ASSUME DeliveryInv, [InvalNext]_invalVars PROVE DeliveryInv'
  OBVIOUS
<1>1. CASE IssuerStep
  BY <1>1, IssueKeeps, GossipRoundKeeps, FlushStartKeeps, FlushGossipKeeps, PostTimeoutKeeps, RestartKeeps
  DEF IssuerStep
<1>2. ASSUME NEW r \in posts, Handler(r)
      PROVE  DeliveryInv'
  BY <1>2, PostLostKeeps, HandlerApplyKeeps, HandlerFailsKeeps, HandlerDoneKeeps, HandlerMarkKeeps DEF Handler
<1>3. ASSUME NEW p \in Peers, Gossip(p)
      PROVE  DeliveryInv'
  BY <1>3, GossipApplyKeeps, GossipFailsKeeps, GossipMarkKeeps, GossipLostKeeps DEF Gossip
<1>4. CASE UNCHANGED invalVars
  <2> USE <1>4 DEF invalVars, issuer, ghosts
  <2>1. InFlush' = InFlush /\ \A b, p : Awaited(b, p)' <=> Awaited(b, p)
    BY DEF InFlush, Awaited
  <2>2. Base'
    <3>1. InvalTypeOK' /\ restarts' \in Nat
      BY DEF DeliveryInv, Base, InvalTypeOK
    <3>2. OnlyIssued' /\ PostsApart' /\ FlushesApart'
      BY DEF DeliveryInv, Base, OnlyIssued, PostsApart, FlushesApart, Issued
    <3>3. OneHolder'
      BY HoldersSame DEF DeliveryInv, Base
    <3>4. GossipAfterFlush'
      BY <2>1 DEF DeliveryInv, Base, GossipAfterFlush
    <3> QED
      BY <3>1, <3>2, <3>3, <3>4 DEF Base
  <2>3. FirstLife'
    BY <2>1 DEF DeliveryInv, FirstLife, Numbered, SeenIsKnown, DoneIsApplied, OverHTTP, OverGossip, AckedApplied,
       Issued, Known, Paths, Present, Behind
  <2> QED
    BY <2>2, <2>3 DEF DeliveryInv
<1> QED
  BY <1>1, <1>2, <1>3, <1>4 DEF InvalNext, Settled

\* A peer applies an event at most once, has applied what it acknowledged, and
\* misses only what both paths lost, what failed there, and what fell a whole
\* window behind (SeenFromPeer, the batch endpoint, the gossip goroutine), for
\* any number of events, peers and flushers, any window, and any losses,
\* duplicates, timeouts and reorderings.
THEOREM DeliveryHolds == InvalSpec => []DeliveredOnce
<1>1. DeliveryInv => DeliveredOnce
  <2> SUFFICES ASSUME DeliveryInv PROVE DeliveredOnce
    OBVIOUS
  <2> USE DEF DeliveryInv, Base
  <2>1. AppliedAtMostOnce
    BY DEF OneHolder, HolderAt, AppliedAtMostOnce
  <2>2. AckedApplied
    BY DEF FirstLife, AckedApplied
  <2>3. ASSUME NEW e \in Events, NEW p \in Peers, restarts = 0, Quiet(e, p), applied[p][e] = 0
        PROVE  \/ \A path \in Paths : <<e, p, path>> \in lost
               \/ \E path \in Paths : <<e, p, path>> \in failed
               \/ Behind(p, e)
    <3>1. Issued(e)
      BY <2>3 DEF Quiet, Issued
    <3>2. Known(p, e) => \E path \in Paths : <<e, p, path>> \in failed
      BY <2>3, InvalidationAssumption, SMTT(30) DEF Known, Quiet, PostsApart
    <3>3. strong => <<e, p, "http">> \in lost \/ Known(p, e) \/ Behind(p, e)
      BY <2>3, <3>1 DEF FirstLife, OverHTTP, Quiet, PostsApart
    <3>4. <<e, p, "gossip">> \in lost \/ Known(p, e) \/ Behind(p, e)
      BY <2>3, <3>1 DEF FirstLife, OverGossip, Quiet
    <3> QED
      BY <3>2, <3>3, <3>4 DEF Paths
  <2> QED
    BY <2>1, <2>2, <2>3 DEF DeliveredOnce, EitherPathSuffices
<1> QED
  BY <1>1, DeliveryInitially, DeliveryKept, PTL DEF InvalSpec
=============================================================================
