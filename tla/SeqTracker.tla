----------------------------- MODULE SeqTracker -----------------------------
(***************************************************************************)
(* The receive-side dedup of invalidation events (seqTracker): one window  *)
(* per issuer, forgotten after a TTL or when more issuers are tracked than *)
(* the bound allows.  The HTTP peer endpoints and the gossip goroutine     *)
(* call it concurrently; each reads the clock before it takes the lock.    *)
(*                                                                         *)
(* Source: internal/cluster/seqtracker.go.                                 *)
(***************************************************************************)
EXTENDS SeqWindow, FiniteSets

CONSTANTS
  Issuers,      \* node names
  Anonymous,    \* the empty issuer
  Callers,      \* goroutines that deliver an event
  NoWin,        \* no state for the issuer
  Idle,         \* no call
  TTL,          \* seqTrackerTTL
  MaxTrackers,  \* seqTrackers
  MaxSeq,       \* bound: Seqs
  MaxClock,     \* bound: clock
  MaxCalls      \* bound: deliveries

Seqs == 1 .. MaxSeq
Calls == [issuer : Issuers \union {Anonymous}, seq : Seqs, now : Nat]

ASSUME TrackerAssumption ==
  /\ Anonymous \notin Issuers /\ IsFiniteSet(Issuers)
  /\ NoWin \notin Windows /\ Idle \notin Calls
  /\ {TTL, MaxTrackers, MaxSeq, MaxClock, MaxCalls} \subseteq Nat

VARIABLES
  clock,
  wins,       \* issuer -> window
  lastSeen,   \* issuer -> when it was last heard of
  call,       \* the event a caller delivers and the time it has read
  outcome,    \* the answer of seen
  calls,      \* deliveries so far
  accepted    \* ghost: the Seqs accepted since the issuer's state was made

trackVars == <<clock, wins, lastSeen, call, outcome, calls, accepted>>

TrackInit ==
  /\ clock = 0
  /\ wins = [i \in Issuers |-> NoWin]
  /\ lastSeen = [i \in Issuers |-> 0]
  /\ call = [c \in Callers |-> Idle]
  /\ outcome = [c \in Callers |-> "none"]
  /\ calls = 0
  /\ accepted = [i \in Issuers |-> {}]

Tick ==
  /\ clock < MaxClock
  /\ clock' = clock + 1
  /\ UNCHANGED <<wins, lastSeen, call, outcome, calls, accepted>>

\* seen reads the clock and waits for the lock.
Arrive(c) ==
  /\ call[c] = Idle /\ calls < MaxCalls
  /\ \E i \in Issuers \union {Anonymous}, s \in Seqs :
       call' = [call EXCEPT ![c] = [issuer |-> i, seq |-> s, now |-> clock]]
  /\ outcome' = [outcome EXCEPT ![c] = "none"]
  /\ calls' = calls + 1
  /\ UNCHANGED <<clock, wins, lastSeen, accepted>>

\* An event without an issuer is never dropped.
SeenAnonymous(c) ==
  /\ call[c] # Idle /\ call[c].issuer = Anonymous
  /\ outcome' = [outcome EXCEPT ![c] = "apply"]
  /\ call' = [call EXCEPT ![c] = Idle]
  /\ UNCHANGED <<clock, wins, lastSeen, calls, accepted>>

Tracked(ws) == {i \in Issuers : ws[i] # NoWin}

Expired(i, seenAt, now) == now > seenAt[i] + TTL

\* The issuer's window, unless it has expired.
LiveWindow(i, now) == IF Expired(i, lastSeen, now) THEN NoWin ELSE wins[i]

IsDuplicate(i, s, now) ==
  LiveWindow(i, now) # NoWin /\ Dropped(LiveWindow(i, now), s)

\* recordLocked.
Record(i, s, now) ==
  LET w == LiveWindow(i, now)
  IN [wins EXCEPT ![i] = IF w = NoWin THEN FirstSeen(s) ELSE Recorded(w, s)]

\* pruneLocked: the expired issuers go, or else one heard of least recently.
PruneChoices(ws, seenAt, now) ==
  LET held == Tracked(ws)
      expired == {i \in held : Expired(i, seenAt, now)}
  IN IF Cardinality(held) <= MaxTrackers THEN {{}} ELSE
     IF expired # {} THEN {expired} ELSE
     {{i} : i \in {j \in held : \A k \in held : seenAt[j] <= seenAt[k]}}

Seen(c) ==
  /\ call[c] # Idle /\ call[c].issuer # Anonymous
  /\ LET i == call[c].issuer
         s == call[c].seq
         now == call[c].now
         dup == IsDuplicate(i, s, now)
         ws == Record(i, s, now)
         seenAt == IF dup THEN lastSeen ELSE [lastSeen EXCEPT ![i] = now]
         before == IF LiveWindow(i, now) = NoWin THEN {} ELSE accepted[i]
         acc == [accepted EXCEPT ![i] = IF dup THEN before ELSE before \union {s}]
     IN /\ outcome' = [outcome EXCEPT ![c] = IF dup THEN "drop" ELSE "apply"]
        /\ \E gone \in PruneChoices(ws, seenAt, now) :
             /\ wins' = [j \in Issuers |-> IF j \in gone THEN NoWin ELSE ws[j]]
             /\ lastSeen' = [j \in Issuers |-> IF j \in gone THEN 0 ELSE seenAt[j]]
             /\ accepted' = [j \in Issuers |-> IF j \in gone THEN {} ELSE acc[j]]
  /\ call' = [call EXCEPT ![c] = Idle]
  /\ UNCHANGED <<clock, calls>>

\* Nothing is left to deliver within the bounds.
TrackQuiet ==
  /\ clock = MaxClock /\ calls = MaxCalls
  /\ \A c \in Callers : call[c] = Idle
  /\ UNCHANGED trackVars

TrackNext ==
  \/ Tick \/ TrackQuiet
  \/ \E c \in Callers : Arrive(c) \/ SeenAnonymous(c) \/ Seen(c)

TrackSpec == TrackInit /\ [][TrackNext]_trackVars
-----------------------------------------------------------------------------
(* Properties.                                                             *)

\* Every variable has the shape of the Go state it stands for.
TrackTypeOK ==
  /\ clock \in Nat /\ calls \in Nat
  /\ wins \in [Issuers -> Windows \union {NoWin}]
  /\ lastSeen \in [Issuers -> Nat]
  /\ call \in [Callers -> Calls \union {Idle}]
  /\ outcome \in [Callers -> {"none", "apply", "drop"}]
  /\ accepted \in [Issuers -> SUBSET Seqs]

\* The bits of a window tell exactly which of its Seqs were accepted, however
\* the events are reordered and however far the watermark jumps.
WindowExact ==
  \A i \in Tracked(wins) :
    /\ wins[i].high \in accepted[i]
    /\ \A s \in accepted[i] : s <= wins[i].high
    /\ \A s \in Seqs : InWindow(wins[i], s) => (Has(wins[i], s) <=> s \in accepted[i])

\* While an issuer's state lives, seen drops an event exactly when it was
\* accepted before or lies a whole window behind the newest one: a late event
\* that nobody has applied is not taken for a replay.
ExactDedup ==
  [][\A c \in Callers :
       call[c] # Idle /\ call[c].issuer # Anonymous /\ call'[c] = Idle =>
         LET i == call[c].issuer
             s == call[c].seq
         IN outcome'[c] = "drop" <=>
              /\ LiveWindow(i, call[c].now) # NoWin
              /\ s \in accepted[i] \/ wins[i].high >= s + Window]_trackVars

\* No more issuers are tracked than the bound allows.
TrackersBounded == Cardinality(Tracked(wins)) <= MaxTrackers

\* The window of every issuer says exactly which Seqs were accepted, in a
\* table that stays within its bound.
WindowsExact == WindowExact /\ TrackersBounded
=============================================================================
