------------------------- MODULE RevalidationProofs -------------------------
(***************************************************************************)
(* What keeps stored responses current, proved for any number of clients,  *)
(* background fetches, keys, refreshers and versions, and any routes: the  *)
(* requests that share revalidations (StaleFlight) and the refreshes ahead *)
(* of expiry (RefreshScheduler).  Their inductive invariants are StaleInv  *)
(* and RefreshInv.                                                         *)
(***************************************************************************)
EXTENDS StaleFlight, RefreshScheduler, FiniteSetTheorems, WellFoundedInduction, TLAPS

\* Most leaves are first-order reasoning: Zenon first, then SMT.
USE ZenonT(40), SMTT(40)

-----------------------------------------------------------------------------
(* Requests that share revalidations: the invariant.                       *)

\* What an actor may be.
Acting ==
  [pc : {"idle", "ask", "spawn", "fly", "lead", "wait", "own", "apply"},
   role : {"none", "revalidate", "fallback", "fill", "background"},
   head : BOOLEAN, seen : Objects \union {NoObject}, res : Results]

\* What is true of an actor in every state of its work: who may serve or
\* refresh the object it looked up holds one with a body; a background fetch
\* is a GET; who falls back may; and the result it is about to apply has a
\* body unless it asked for none, and no other client's state unless it
\* serves nobody.
Sound(a, f) ==
  /\ f.seen.held => f.seen.body # Empty
  /\ f.pc = "spawn" \/ f.role \in {"revalidate", "fallback", "background"} => f.seen.held
  /\ f.role = "background" => ~f.head
  /\ f.role = "fallback" => FallbackAllowed
  /\ f.pc = "apply" =>
       /\ f.res.kind = "200" /\ ~f.head => f.res.body # Empty
       /\ f.role # "background" => f.res.mint \in {a, NoOne}

StaleInv ==
  /\ StaleTypeOK
  /\ SharedAnswersAreRight
  /\ \A a \in Actors : Sound(a, actor[a])

-----------------------------------------------------------------------------
(* Shared revalidations: the operators.                                    *)

LEMMA StaleNumbers ==
  /\ Empty \notin Versions /\ NoTag \notin Versions
  /\ 0 \in Versions /\ 0 \in 0..(Ttl + Swr) /\ Ttl + Swr \in 0..(Ttl + Swr)
  /\ Versions \subseteq Nat
BY StaleFlightAssumption, SMTT(30) DEF Versions, Empty, NoTag

\* An origin's answer to a: with a body unless a sent a HEAD, and with a's own
\* client state if any.
LEMMA AnswersFit ==
  ASSUME StaleTypeOK, NEW a \in Actors, NEW r \in Answers(a)
  PROVE  /\ r \in Results
         /\ r.kind = "200" /\ ~actor[a].head => r.body # Empty
         /\ r.mint \in {a, NoOne}
<1>1. /\ origin \in Versions /\ actor[a].head \in BOOLEAN
  BY DEF StaleTypeOK
<1>2. CASE r \in {[kind |-> "304", ver |-> origin, body |-> Empty, mint |-> NoOne]}
  BY <1>1, <1>2, SMTT(30) DEF Results, Kinds
<1>3. CASE r \in {[kind |-> "200", ver |-> origin,
             body |-> IF actor[a].head THEN Empty ELSE origin, mint |-> m] :
               m \in {NoOne} \union {b \in {a} : route.cookies}}
  <2>1. PICK m \in {NoOne} \union {b \in {a} : route.cookies} :
          r = [kind |-> "200", ver |-> origin,
               body |-> IF actor[a].head THEN Empty ELSE origin, mint |-> m]
    BY <1>3
  <2>2. m \in {a, NoOne}
    BY <2>1
  <2>. QED  BY <1>1, <2>1, <2>2, StaleNumbers DEF Results, Kinds
<1>4. CASE r \in {[kind |-> k, ver |-> origin, body |-> Empty, mint |-> NoOne]
                     : k \in {"5xx", "error"}}
  BY <1>1, <1>4, SMTT(30) DEF Results, Kinds
<1>. QED  BY <1>2, <1>3, <1>4 DEF Answers

LEMMA ObjectsFit ==
  ASSUME StaleTypeOK, NEW o \in Objects \union {NoObject}, NEW r \in Results
  PROVE  /\ o.held => Refreshed(o, r) \in Objects
         /\ Refreshed(o, r).body = o.body /\ Refreshed(o, r).held = o.held
         /\ Built(r) \in Objects /\ Built(r).body = r.body
         /\ Held(o) \in Objects \union {NoObject}
         /\ Held(o).body = o.body /\ Held(o).held = o.held
<1>1. o.held => o \in Objects
  BY SMTT(30) DEF NoObject
<1>2. NoObject = [body |-> Empty, tag |-> NoTag, age |-> 0, held |-> FALSE]
  BY DEF NoObject
<1>3. r.ver \in Versions /\ r.body \in Versions \union {Empty}
  BY DEF Results
<1>4. o.held => Refreshed(o, r) \in Objects
  BY <1>1, <1>3, StaleNumbers DEF Refreshed, Objects
<1>5. /\ Refreshed(o, r).body = o.body /\ Refreshed(o, r).held = o.held
      /\ Held(o).body = o.body /\ Held(o).held = o.held
  BY DEF Refreshed, Held, Objects, NoObject
<1>6. Built(r) \in Objects /\ Built(r).body = r.body
  BY <1>3, StaleNumbers DEF Built, Objects
<1>7. Held(o) \in Objects \union {NoObject}
  <2>1. CASE o \in Objects
    BY <2>1, StaleNumbers DEF Held, Objects
  <2>2. CASE o = NoObject
    BY <2>2 DEF Held, NoObject
  <2>. QED  BY <2>1, <2>2
<1>. QED  BY <1>4, <1>5, <1>6, <1>7

LEMMA ParkedFits == Parked \in Acting /\ \A a \in Actors : Sound(a, Parked)
<1>1. NoResult \in Results
  BY StaleNumbers DEF NoResult, Results, Kinds
<1>2. Parked \in Acting
  BY <1>1 DEF Parked, Acting
<1>. QED  BY <1>2 DEF Parked, Sound, NoObject

\* A new piece of work: what it knows of the object is what was looked up.
LEMMA WorkingFits ==
  ASSUME StaleTypeOK, NEW a \in Actors, NEW o \in Objects \union {NoObject},
         o.held => o.body # Empty, NEW head \in BOOLEAN,
         NEW role \in {"none", "revalidate", "fallback", "fill", "background"},
         NEW pc \in {"ask", "fly", "own"},
         role \in {"revalidate", "fallback", "background"} => o.held,
         role = "background" => ~head,
         role = "fallback" => FallbackAllowed
  PROVE  LET f == [Working(role, head, o) EXCEPT !.pc = pc] IN
         f \in Acting /\ Sound(a, f)
<1>3. NoResult \in Results
  BY StaleNumbers DEF NoResult, Results, Kinds
<1>1. /\ Held(o) \in Objects \union {NoObject}
      /\ Held(o).body = o.body /\ Held(o).held = o.held
  BY <1>3, ObjectsFit
<1>2. [Working(role, head, o) EXCEPT !.pc = pc] =
        [pc |-> pc, role |-> role, head |-> head, seen |-> Held(o), res |-> NoResult]
  BY SMTT(30) DEF Working
<1>4. [Working(role, head, o) EXCEPT !.pc = pc] \in Acting
  BY <1>1, <1>2, <1>3 DEF Acting
<1>5. Sound(a, [Working(role, head, o) EXCEPT !.pc = pc])
  BY <1>1, <1>2 DEF Sound
<1>. QED  BY <1>4, <1>5

LEMMA FlyingFits ==
  ASSUME StaleTypeOK, NEW a \in Actors, NEW o \in Objects \union {NoObject},
         o.held => o.body # Empty, NEW head \in BOOLEAN,
         NEW role \in {"revalidate", "fallback", "background"}, o.held,
         role = "background" => ~head,
         role = "fallback" => FallbackAllowed
  PROVE  Working(role, head, o) \in Acting /\ Sound(a, Working(role, head, o))
<1>. DEFINE f == [Working(role, head, o) EXCEPT !.pc = "fly"]
<1>1. f \in Acting /\ Sound(a, f)
  BY WorkingFits
<1>2. f = Working(role, head, o)
  BY SMTT(30) DEF Working
<1>. HIDE DEF f
<1>. QED  BY <1>1, <1>2

\* A client that has been given a stale copy and is to start its refresh.
LEMMA SpawnFits ==
  ASSUME StaleTypeOK, NEW a \in Actors, NEW o \in Objects, o.body # Empty
  PROVE  LET f == [Parked EXCEPT !.pc = "spawn", !.seen = Held(o)] IN
         f \in Acting /\ Sound(a, f)
<1>1. NoResult \in Results
  BY StaleNumbers DEF NoResult, Results, Kinds
<1>2. /\ Held(o) \in Objects \union {NoObject}
      /\ Held(o).body = o.body /\ Held(o).held = o.held
  BY <1>1, ObjectsFit
<1>3. o.held
  BY DEF Objects
<1>4. [Parked EXCEPT !.pc = "spawn", !.seen = Held(o)] \in Acting
  BY <1>2, ParkedFits DEF Acting
<1>5. Parked.pc = "idle" /\ Parked.role = "none"
  BY DEF Parked
<1>. DEFINE f == [Parked EXCEPT !.pc = "spawn", !.seen = Held(o)]
<1>6. f.pc = "spawn" /\ f.role = "none" /\ f.seen = Held(o)
  BY <1>5, ParkedFits DEF Acting
<1>7. Sound(a, f)
  BY <1>2, <1>3, <1>6 DEF Sound
<1>. QED  BY <1>4, <1>7

LEMMA AfterMissFits ==
  ASSUME StaleTypeOK, NEW a \in Actors, NEW o \in Objects \union {NoObject},
         o.held => o.body # Empty, NEW head \in BOOLEAN
  PROVE  AfterMiss(head, o) \in Acting /\ Sound(a, AfterMiss(head, o))
<1>2. CASE o.held /\ FallbackAllowed
  BY <1>2, FlyingFits DEF AfterMiss
<1>3. CASE ~(o.held /\ FallbackAllowed)
  BY <1>3, WorkingFits DEF AfterMiss
<1>. QED  BY <1>2, <1>3

LEMMA DecisionFits ==
  ASSUME NEW o
  PROVE  /\ Decision(o) \in {"stale", "revalidate"} => o.held
         /\ Decision(o) = "stale" => route.class \notin {"must", "nocache"}
BY DEF Decision, StaleDecision, RevalidateOrMiss

-----------------------------------------------------------------------------
(* Shared revalidations: steps, by what they leave behind.                 *)

\* An answer a client may get.
Proper(t) ==
  /\ t \in [to : Clients \union {NoOne}, kind : Kinds \union {"stale"},
            mint : Actors \union {NoOne}]
  /\ t.mint \in {t.to, NoOne}
  /\ (route.class \in {"must", "nocache"} /\ ~route.stayin) => t.kind # "stale"

\* An object that may be in the store.
Whole(o) == o \in Objects \union {NoObject} /\ (o.held => o.body # Empty)

Manned(as) == as \in [Actors -> Acting] /\ \A a \in Actors : Sound(a, as[a])

LEMMA StaleParts ==
  ASSUME StaleInv
  PROVE  Whole(stored) /\ Manned(actor) /\ Proper(told)
BY DEF StaleInv, StaleTypeOK, SharedAnswersAreRight, NoEmptyBody, StateIsPrivate,
       NeverStaleUnasked, Whole, Manned, Proper, Acting

LEMMA StaleWhole ==
  ASSUME StaleInv, UNCHANGED route, origin' \in Versions, Whole(stored'), Manned(actor'),
         flight' \in [Lines -> Actors \union {NoOne}], Proper(told'),
         closing' \in {"open", "draining", "closed"}
  PROVE  StaleInv'
<1>1. StaleTypeOK'
  BY DEF StaleInv, StaleTypeOK, Whole, Manned, Acting, Proper
<1>2. SharedAnswersAreRight'
  BY DEF SharedAnswersAreRight, NoEmptyBody, StateIsPrivate, NeverStaleUnasked, Whole, Proper
<1>3. (\A a \in Actors : Sound(a, actor[a]))'
  BY DEF Manned, Sound, FallbackAllowed
<1>. QED  BY <1>1, <1>2, <1>3 DEF StaleInv

LEMMA OneActs ==
  ASSUME Manned(actor), NEW a \in Actors, NEW f \in Acting, Sound(a, f)
  PROVE  Manned([actor EXCEPT ![a] = f])
BY DEF Manned

LEMMA Answered1 ==
  ASSUME NEW c \in Clients, NEW kind \in Kinds, NEW mint \in {c, NoOne}
  PROVE  Proper([to |-> c, kind |-> kind, mint |-> mint])
<1>1. mint \in Actors \union {NoOne}
  BY DEF Actors
<1>2. kind # "stale"
  BY DEF Kinds
<1>. QED  BY <1>1, <1>2 DEF Proper

LEMMA AnsweredStale ==
  ASSUME NEW c \in Clients, ~(route.class \in {"must", "nocache"} /\ ~route.stayin)
  PROVE  Proper([to |-> c, kind |-> "stale", mint |-> NoOne])
BY DEF Proper

LEMMA NotAnswered == Proper(NoAnswer)
BY DEF Proper, NoAnswer, Kinds

-----------------------------------------------------------------------------
(* Shared revalidations: the actions.                                      *)

LEMMA ServeRequestKeeps ==
  ASSUME StaleInv, NEW c \in Clients, NEW head \in BOOLEAN, ServeRequest(c, head)
  PROVE  StaleInv'
<1>. DEFINE o == IF route.remote THEN Leftover ELSE stored
            d == Decision(o)
<1>0. c \in Actors /\ StaleTypeOK /\ Whole(stored) /\ Manned(actor) /\ Proper(told)
  BY StaleParts DEF StaleInv, Actors
<1>1. Whole(Leftover)
  BY StaleNumbers DEF Leftover, Copy, Whole, Objects
<1>2. Whole(o)
  BY <1>0, <1>1
<1>3. d \in {"stale", "revalidate"} => o \in Objects /\ o.held /\ o.body # Empty
  BY <1>2, DecisionFits, SMTT(30) DEF Whole, NoObject
<1>4. Manned(actor') /\ Proper(told')
  <2>1. CASE d = "hit"
    <3>1. told' = [to |-> c, kind |-> "200", mint |-> NoOne] /\ actor' = actor
      BY <2>1 DEF ServeRequest, Tell
    <3>. QED  BY <1>0, <3>1, Answered1 DEF Kinds
  <2>2. CASE d = "stale"
    <3>. DEFINE f == IF route.remote THEN Parked ELSE [Parked EXCEPT !.pc = "spawn", !.seen = Held(o)]
    <3>1. told' = [to |-> c, kind |-> "stale", mint |-> NoOne]
          /\ actor' = [actor EXCEPT ![c] = f]
      BY <2>2 DEF ServeRequest, Tell, Goes
    <3>2. f \in Acting /\ Sound(c, f)
      BY <1>0, <1>3, <2>2, ParkedFits, SpawnFits
    <3>3. route.class \notin {"must", "nocache"}
      BY <2>2, DecisionFits
    <3>. HIDE DEF f
    <3>. QED  BY <1>0, <3>1, <3>2, <3>3, OneActs, AnsweredStale
  <2>3. CASE d = "revalidate" /\ ~route.remote
    <3>. DEFINE f == Working("revalidate", head, o)
    <3>1. told' = NoAnswer /\ actor' = [actor EXCEPT ![c] = f]
      BY <2>3 DEF ServeRequest, Silent, Goes
    <3>2. f \in Acting /\ Sound(c, f)
      BY <1>0, <1>2, <1>3, <2>3, FlyingFits DEF Whole
    <3>. HIDE DEF f
    <3>. QED  BY <1>0, <3>1, <3>2, OneActs, NotAnswered
  <2>4. CASE d = "miss" /\ ~route.remote
    <3>1. told' = NoAnswer /\ actor' = [actor EXCEPT ![c] = AfterMiss(head, o)]
      BY <2>4 DEF ServeRequest, Silent, Goes
    <3>2. AfterMiss(head, o) \in Acting /\ Sound(c, AfterMiss(head, o))
      BY <1>0, <1>2, AfterMissFits DEF Whole
    <3>. QED  BY <1>0, <3>1, <3>2, OneActs, NotAnswered
  <2>5. CASE ~(d = "hit") /\ ~(d = "stale") /\ ~(d = "revalidate" /\ ~route.remote)
             /\ ~(d = "miss" /\ ~route.remote)
    <3>. DEFINE f == [Working("none", head, o) EXCEPT !.pc = "ask"]
    <3>1. told' = NoAnswer /\ actor' = [actor EXCEPT ![c] = f]
      BY <2>5 DEF ServeRequest, Silent, Goes
    <3>2. f \in Acting /\ Sound(c, f)
      BY <1>0, <1>2, WorkingFits DEF Whole
    <3>. HIDE DEF f
    <3>. QED  BY <1>0, <3>1, <3>2, OneActs, NotAnswered
  <2>. QED  BY <2>1, <2>2, <2>3, <2>4, <2>5
<1>5. UNCHANGED <<route, origin, stored, flight, closing>>
  BY DEF ServeRequest
<1>6. QED  BY <1>0, <1>4, <1>5, StaleWhole DEF StaleTypeOK

LEMMA AskOwnerKeeps ==
  ASSUME StaleInv, NEW c \in Clients, AskOwner(c)
  PROVE  StaleInv'
<1>0. c \in Actors /\ StaleTypeOK /\ Whole(stored) /\ Manned(actor) /\ Proper(told)
  BY StaleParts DEF StaleInv, Actors
<1>1. CASE ServePeerHit(c)
  <2>. DEFINE f == IF Decision(stored) = "stale"
                   THEN [Parked EXCEPT !.pc = "spawn", !.seen = Held(stored)] ELSE Parked
  <2>1. /\ told' = [to |-> c, kind |-> IF Decision(stored) = "hit" THEN "200" ELSE "stale",
                    mint |-> NoOne]
        /\ actor' = [actor EXCEPT ![c] = f] /\ Decision(stored) \in {"hit", "stale"}
    BY <1>1 DEF ServePeerHit, Tell, Goes
  <2>2. f \in Acting /\ Sound(c, f)
    <3>1. CASE Decision(stored) = "stale"
      <4>1. stored \in Objects /\ stored.body # Empty
        BY <1>0, <3>1, DecisionFits, SMTT(30) DEF Whole, NoObject
      <4>. QED  BY <1>0, <3>1, <4>1, SpawnFits
    <3>. QED  BY <1>0, <3>1, ParkedFits
  <2>3. Manned(actor')
    <3>. HIDE DEF f
    <3>. QED  BY <1>0, <2>1, <2>2, OneActs
  <2>4. Proper(told')
    <3>1. CASE Decision(stored) = "hit"
      BY <2>1, <3>1, Answered1 DEF Kinds
    <3>2. CASE Decision(stored) = "stale"
      BY <2>1, <3>2, AnsweredStale, DecisionFits
    <3>. QED  BY <2>1, <3>1, <3>2
  <2>. QED  BY <1>0, <2>3, <2>4, StaleWhole DEF StaleTypeOK, AskOwner
<1>2. CASE ~ServePeerHit(c)
  <2>. DEFINE f == AfterMiss(actor[c].head, actor[c].seen)
  <2>1. told' = NoAnswer /\ actor' = [actor EXCEPT ![c] = f]
    BY <1>2 DEF AskOwner, Silent, Goes
  <2>2. /\ actor[c].head \in BOOLEAN /\ actor[c].seen \in Objects \union {NoObject}
        /\ actor[c].seen.held => actor[c].seen.body # Empty
    BY <1>0 DEF Manned, Acting, Sound
  <2>3. f \in Acting /\ Sound(c, f)
    BY <1>0, <2>2, AfterMissFits
  <2>4. Manned(actor')
    <3>. HIDE DEF f
    <3>. QED  BY <1>0, <2>1, <2>3, OneActs
  <2>. QED  BY <1>0, <2>1, <2>4, NotAnswered, StaleWhole DEF StaleTypeOK, AskOwner
<1>. QED  BY <1>1, <1>2

LEMMA TriggerKeeps ==
  ASSUME StaleInv, NEW c \in Clients, TriggerBgRevalidate(c)
  PROVE  StaleInv'
<1>0. c \in Actors /\ StaleTypeOK /\ Whole(stored) /\ Manned(actor)
  BY StaleParts DEF StaleInv, Actors
<1>1. CASE Finish(c)
  <2>1. Manned(actor')
    BY <1>0, <1>1, ParkedFits, OneActs DEF Finish
  <2>. QED  BY <1>0, <2>1, NotAnswered, StaleWhole DEF StaleTypeOK, TriggerBgRevalidate, Silent
<1>2. CASE ~Finish(c)
  <2>. DEFINE f == Working("background", FALSE, actor[c].seen)
  <2>1. PICK s \in Spawned : actor' = [actor EXCEPT ![c] = Parked, ![s] = f]
    BY <1>2 DEF TriggerBgRevalidate
  <2>2. /\ actor[c].seen \in Objects \union {NoObject} /\ actor[c].seen.held
        /\ actor[c].seen.body # Empty
    BY <1>0 DEF Manned, Acting, Sound, TriggerBgRevalidate
  <2>3. s \in Actors
    BY DEF Actors
  <2>5. f \in Acting /\ Sound(s, f)
    BY <1>0, <2>2, <2>3, FlyingFits
  <2>6. Manned(actor')
    <3>. HIDE DEF f
    <3>. QED  BY <1>0, <2>1, <2>3, <2>5, ParkedFits DEF Manned
  <2>. QED  BY <1>0, <2>6, NotAnswered, StaleWhole DEF StaleTypeOK, TriggerBgRevalidate, Silent
<1>. QED  BY <1>1, <1>2

\* An actor goes on to a point where it has no result to apply.
LEMMA MovesOn ==
  ASSUME NEW a \in Actors, NEW f \in Acting, Sound(a, f), NEW pc \in {"lead", "wait", "own"}
  PROVE  LET g == [f EXCEPT !.pc = pc] IN g \in Acting /\ Sound(a, g)
<1>. DEFINE g == [f EXCEPT !.pc = pc]
<1>1. g \in Acting
  BY DEF Acting
<1>2. g.pc = pc /\ g.role = f.role /\ g.head = f.head /\ g.seen = f.seen
  BY DEF Acting
<1>3. Sound(a, g)
  <2>. HIDE DEF g
  <2>. QED  BY <1>2 DEF Sound
<1>. QED  BY <1>1, <1>3

\* An actor is handed a result.
LEMMA GetsResult ==
  ASSUME NEW a \in Actors, NEW f \in Acting, Sound(a, f), NEW r \in Results,
         r.kind = "200" /\ ~f.head => r.body # Empty,
         f.role # "background" => r.mint \in {a, NoOne}
  PROVE  LET g == [f EXCEPT !.pc = "apply", !.res = r] IN g \in Acting /\ Sound(a, g)
<1>. DEFINE g == [f EXCEPT !.pc = "apply", !.res = r]
<1>1. g \in Acting
  BY DEF Acting
<1>2. g.pc = "apply" /\ g.role = f.role /\ g.head = f.head /\ g.seen = f.seen /\ g.res = r
  BY DEF Acting
<1>3. Sound(a, g)
  <2>. HIDE DEF g
  <2>. QED  BY <1>2 DEF Sound
<1>. QED  BY <1>1, <1>3

LEMMA JoinFlightKeeps ==
  ASSUME StaleInv, NEW a \in Actors, JoinFlight(a)
  PROVE  StaleInv'
<1>0. StaleTypeOK /\ Whole(stored) /\ Manned(actor)
  BY StaleParts DEF StaleInv
<1>1. actor[a] \in Acting /\ Sound(a, actor[a])
  BY <1>0 DEF Manned
<1>2. \E pc \in {"lead", "wait"} : actor' = [actor EXCEPT ![a] = [actor[a] EXCEPT !.pc = pc]]
  BY DEF JoinFlight
<1>3. Manned(actor')
  BY <1>0, <1>1, <1>2, MovesOn, OneActs, ZenonT(60)
<1>4. flight' \in [Lines -> Actors \union {NoOne}]
  BY <1>0 DEF JoinFlight, StaleTypeOK
<1>. QED  BY <1>0, <1>3, <1>4, NotAnswered, StaleWhole DEF StaleTypeOK, JoinFlight, Silent

\* A flight is shared as soon as two are on it.
LEMMA TwoShare ==
  ASSUME NEW crew \in SUBSET Actors, NEW a \in crew, NEW b \in crew, a # b
  PROVE  Cardinality(crew) > 1
<1>1. IsFiniteSet(Actors)
  BY StaleFlightAssumption, FS_Union DEF Actors
<1>2. IsFiniteSet(crew)
  BY <1>1, FS_Subset
<1>3. IsFiniteSet({a, b}) /\ Cardinality({a, b}) = 2
  <2>1. IsFiniteSet({b}) /\ Cardinality({b}) = 1
    BY FS_Singleton
  <2>2. {a, b} = {b} \union {a}
    OBVIOUS
  <2>. QED  BY <2>1, <2>2, FS_AddElement, SMTT(30)
<1>4. Cardinality({a, b}) <= Cardinality(crew)
  <2>1. {a, b} \subseteq crew
    OBVIOUS
  <2>. QED  BY <1>2, <2>1, FS_Subset
<1>. QED  BY <1>2, <1>3, <1>4, FS_CardinalityType, SMTT(30)

LEMMA FlightAnswersKeeps ==
  ASSUME StaleInv, NEW a \in Actors, OriginAnswersFlight(a)
  PROVE  StaleInv'
<1>0. StaleTypeOK /\ Whole(stored) /\ Manned(actor)
  BY StaleParts DEF StaleInv
<1>. DEFINE crew == Waiting(Line(a)) \union {a}
            shared == Cardinality(crew) > 1
<1>1. PICK r \in Answers(a) :
        actor' = [b \in Actors |->
            IF b \notin crew THEN actor[b]
            ELSE IF MustRefetch(b, r, shared) THEN [actor[b] EXCEPT !.pc = "own"]
            ELSE [actor[b] EXCEPT !.pc = "apply", !.res = r]]
  BY DEF OriginAnswersFlight
<1>2. /\ r \in Results /\ (r.kind = "200" /\ ~actor[a].head => r.body # Empty)
      /\ r.mint \in {a, NoOne}
  BY <1>0, AnswersFit
<1>3. ASSUME NEW b \in Actors
      PROVE  actor'[b] \in Acting /\ Sound(b, actor'[b])
  <2>1. actor[b] \in Acting /\ Sound(b, actor[b])
    BY <1>0 DEF Manned
  <2>2. CASE b \notin crew
    BY <1>1, <2>1, <2>2
  <2>3. CASE b \in crew /\ MustRefetch(b, r, shared)
    <3>1. actor'[b] = [actor[b] EXCEPT !.pc = "own"]
      BY <1>1, <2>3
    <3>. QED  BY <2>1, <3>1, MovesOn, ZenonT(60)
  <2>4. CASE b \in crew /\ ~MustRefetch(b, r, shared)
    <3>1. actor'[b] = [actor[b] EXCEPT !.pc = "apply", !.res = r]
      BY <1>1, <2>4
    <3>2. actor[b].head = actor[a].head
      <4>1. Line(b) = Line(a)
        BY <2>4 DEF Waiting
      <4>2. actor[a].head \in BOOLEAN /\ actor[b].head \in BOOLEAN
        BY <1>0 DEF Manned, Acting
      <4>. QED  BY <4>1, <4>2 DEF Line
    <3>3. actor[b].role # "background" => r.mint \in {b, NoOne}
      <4>1. b # a => shared
        <5>1. crew \in SUBSET Actors /\ a \in crew
          BY DEF Waiting
        <5>. HIDE DEF crew
        <5>. QED  BY <2>4, <5>1, TwoShare
      <4>. HIDE DEF shared
      <4>. QED  BY <1>2, <2>4, <4>1 DEF MustRefetch
    <3>4. r.kind = "200" /\ ~actor[b].head => r.body # Empty
      BY <1>2, <3>2
    <3>. DEFINE g == [actor[b] EXCEPT !.pc = "apply", !.res = r]
    <3>5. g \in Acting /\ Sound(b, g)
      BY <1>2, <2>1, <3>3, <3>4, GetsResult
    <3>. HIDE DEF g
    <3>. QED  BY <3>1, <3>5 DEF g
  <2>. QED  BY <2>2, <2>3, <2>4
<1>4. Manned(actor')
  <2>1. actor' = [b \in Actors |-> actor'[b]]
    BY <1>1
  <2>. QED  BY <1>3, <2>1 DEF Manned
<1>5. flight' \in [Lines -> Actors \union {NoOne}]
  BY <1>0 DEF OriginAnswersFlight, StaleTypeOK, FreeLine
<1>. QED
  BY <1>0, <1>4, <1>5, NotAnswered, StaleWhole DEF StaleTypeOK, OriginAnswersFlight, Silent

LEMMA OneAnswersKeeps ==
  ASSUME StaleInv, NEW a \in Actors, OriginAnswersOne(a)
  PROVE  StaleInv'
<1>0. StaleTypeOK /\ Whole(stored) /\ Manned(actor)
  BY StaleParts DEF StaleInv
<1>1. actor[a] \in Acting /\ Sound(a, actor[a])
  BY <1>0 DEF Manned
<1>2. PICK r \in Answers(a) : actor' = [actor EXCEPT ![a].pc = "apply", ![a].res = r]
  BY DEF OriginAnswersOne
<1>. DEFINE g == [actor[a] EXCEPT !.pc = "apply", !.res = r]
<1>3. actor' = [actor EXCEPT ![a] = g]
  BY <1>0, <1>2 DEF Manned
<1>4. g \in Acting /\ Sound(a, g)
  BY <1>0, <1>1, AnswersFit, GetsResult
<1>5. Manned(actor')
  <2>. HIDE DEF g
  <2>. QED  BY <1>0, <1>3, <1>4, OneActs
<1>. QED  BY <1>0, <1>5, NotAnswered, StaleWhole DEF StaleTypeOK, OriginAnswersOne, Silent

\* What a result leaves in the store and tells the client.
LEMMA WriteFits ==
  ASSUME StaleTypeOK, Whole(stored), Manned(actor), NEW a \in Clients,
         actor[a].pc = "apply", actor[a].role # "background",
         WriteAndMaybeStore(a, actor[a].res)
  PROVE  Whole(stored') /\ Proper(told')
<1>. DEFINE r == actor[a].res
<1>1. a \in Actors
  BY DEF Actors
<1>2. /\ r \in Results /\ (r.kind = "200" /\ ~actor[a].head => r.body # Empty)
      /\ r.mint \in {a, NoOne}
  BY <1>1 DEF Manned, Acting, Sound
<1>3. r.kind \in Kinds
  BY <1>2 DEF Results
<1>. HIDE DEF r
<1>4. Built(r) \in Objects /\ Built(r).body = r.body
  BY <1>2, NoObject \in Objects \union {NoObject}, ObjectsFit
<1>5. Proper(told')
  BY <1>2, <1>3, Answered1 DEF WriteAndMaybeStore, Tell, r
<1>6. Whole(stored')
  BY <1>2, <1>4 DEF WriteAndMaybeStore, Whole, r
<1>. QED  BY <1>5, <1>6

LEMMA RefreshFits ==
  ASSUME StaleTypeOK, Manned(actor), NEW a \in Actors,
         actor[a].role \in {"revalidate", "fallback", "background"}
  PROVE  Whole(Refreshed(actor[a].seen, actor[a].res))
<1>1. /\ actor[a].seen \in Objects \union {NoObject} /\ actor[a].res \in Results
      /\ actor[a].seen.held /\ actor[a].seen.body # Empty
  BY DEF Manned, Acting, Sound
<1>. QED  BY <1>1, ObjectsFit DEF Whole

LEMMA FreshenFits ==
  ASSUME StaleTypeOK, Whole(stored), Manned(actor), NEW a \in Clients,
         actor[a].pc = "apply", actor[a].role \in {"revalidate", "fallback"},
         FreshenOrWrite(a, actor[a].res)
  PROVE  Whole(stored') /\ Proper(told')
<1>1. a \in Actors
  BY DEF Actors
<1>2. CASE WriteAndMaybeStore(a, actor[a].res)
  BY <1>2, WriteFits
<1>3. CASE ~WriteAndMaybeStore(a, actor[a].res)
  <2>1. /\ stored' = IF route.remote THEN stored ELSE Refreshed(actor[a].seen, actor[a].res)
        /\ told' = [to |-> a, kind |-> "200", mint |-> NoOne]
    BY <1>3 DEF FreshenOrWrite, Tell
  <2>2. Whole(stored')
    BY <1>1, <2>1, RefreshFits
  <2>3. Proper(told')
    BY <2>1, Answered1 DEF Kinds
  <2>. QED  BY <2>2, <2>3
<1>. QED  BY <1>2, <1>3

LEMMA ApplyKeeps ==
  ASSUME StaleInv, NEW a \in Actors, Apply(a)
  PROVE  StaleInv'
<1>0. StaleTypeOK /\ Whole(stored) /\ Manned(actor) /\ actor[a].pc = "apply"
  BY StaleParts DEF StaleInv, Apply
<1>1. Manned(actor')
  BY <1>0, ParkedFits, OneActs DEF Apply, Finish
<1>2. Whole(stored') /\ Proper(told')
  <2>1. CASE a \in Clients /\ RevalidateResult(a)
    <3>1. CASE ServeStale(a) /\ FallbackAllowed
      <4>1. ~(route.class \in {"must", "nocache"} /\ ~route.stayin)
        BY <3>1 DEF FallbackAllowed
      <4>2. told' = [to |-> a, kind |-> "stale", mint |-> NoOne]
        BY <3>1 DEF ServeStale, Tell
      <4>3. stored' = stored
        BY <3>1 DEF ServeStale
      <4>4. Proper(told')
        BY <2>1, <4>1, <4>2, AnsweredStale
      <4>. QED  BY <1>0, <4>3, <4>4
    <3>2. CASE Tell(a, actor[a].res.kind, NoOne) /\ stored' = stored
      <4>1. actor[a].res.kind \in Kinds
        BY <1>0 DEF Manned, Acting, Results
      <4>2. Proper(told')
        BY <2>1, <3>2, <4>1, Answered1 DEF Tell
      <4>. QED  BY <1>0, <3>2, <4>2
    <3>3. CASE /\ stored' = Refreshed(actor[a].seen, actor[a].res)
               /\ Tell(a, "200", NoOne)
      <4>1. Whole(stored')
        BY <1>0, <2>1, <3>3, RefreshFits DEF RevalidateResult
      <4>2. Proper(told')
        BY <2>1, <3>3, Answered1 DEF Tell, Kinds
      <4>. QED  BY <4>1, <4>2
    <3>4. CASE FreshenOrWrite(a, actor[a].res)
      BY <1>0, <2>1, <3>4, FreshenFits DEF RevalidateResult
    <3>. QED  BY <2>1, <3>1, <3>2, <3>3, <3>4 DEF RevalidateResult
  <2>2. CASE a \in Clients /\ FallbackResult(a)
    <3>1. CASE ServeStale(a)
      <4>1. ~(route.class \in {"must", "nocache"} /\ ~route.stayin)
        <5>1. FallbackAllowed
          BY <1>0, <2>2 DEF FallbackResult, Manned, Sound
        <5>. QED  BY <5>1 DEF FallbackAllowed
      <4>2. told' = [to |-> a, kind |-> "stale", mint |-> NoOne] /\ stored' = stored
        BY <3>1 DEF ServeStale, Tell
      <4>3. Proper(told')
        BY <2>2, <4>1, <4>2, AnsweredStale
      <4>. QED  BY <1>0, <4>2, <4>3
    <3>2. CASE FreshenOrWrite(a, actor[a].res)
      BY <1>0, <2>2, <3>2, FreshenFits DEF FallbackResult
    <3>. QED  BY <2>2, <3>1, <3>2 DEF FallbackResult
  <2>3. CASE a \in Clients /\ FillResult(a)
    BY <1>0, <2>3, WriteFits DEF FillResult
  <2>4. CASE BackgroundResult(a)
    <3>. DEFINE r == actor[a].res
    <3>1. /\ r \in Results /\ (r.kind = "200" => r.body # Empty)
      BY <1>0, <2>4 DEF BackgroundResult, Manned, Acting, Sound
    <3>2. Whole(Refreshed(actor[a].seen, r))
      BY <1>0, <2>4, RefreshFits DEF BackgroundResult
    <3>3. r.kind = "200" => Whole(Built(r))
      BY <1>0, <3>1, NoObject \in Objects \union {NoObject}, ObjectsFit, ZenonT(60) DEF Whole
    <3>4. stored' = CASE r.kind = "304" -> Refreshed(actor[a].seen, r)
                 [] r.kind = "200" -> Built(r)
                 [] OTHER -> stored
      BY <2>4 DEF BackgroundResult
    <3>5. Whole(stored')
      <4>. HIDE DEF r
      <4>1. CASE r.kind = "304"
        BY <3>2, <3>4, <4>1
      <4>2. CASE r.kind = "200"
        BY <3>3, <3>4, <4>2
      <4>3. CASE r.kind \notin {"304", "200"}
        BY <1>0, <3>4, <4>3
      <4>. QED  BY <4>1, <4>2, <4>3
    <3>. QED  BY <2>4, <3>5, NotAnswered DEF BackgroundResult, Silent
  <2>. QED  BY <2>1, <2>2, <2>3, <2>4 DEF Apply
<1>. QED  BY <1>0, <1>1, <1>2, StaleWhole DEF StaleTypeOK, Apply

LEMMA OthersKeep ==
  ASSUME StaleInv, Age \/ Evicted \/ OriginChanges \/ CloseHandler \/ CloseStore
  PROVE  StaleInv'
<1>0. StaleTypeOK /\ Whole(stored) /\ Manned(actor) /\ Proper(told)
  BY StaleParts DEF StaleInv
<1>1. CASE Age
  <2>1. stored \in Objects /\ stored.body # Empty
    BY <1>0, <1>1, SMTT(30) DEF Age, Whole, NoObject
  <2>2. stored.age + 1 \in 0..(Ttl + Swr)
    BY <1>1, <2>1, StaleFlightAssumption, SMTT(30) DEF Age, Objects
  <2>3. Whole(stored')
    BY <1>1, <2>1, <2>2 DEF Age, Whole, Objects
  <2>. QED  BY <1>0, <1>1, <2>3, StaleWhole DEF StaleTypeOK, Age
<1>2. CASE Evicted
  <2>1. Whole(stored')
    BY <1>2 DEF Evicted, Whole, NoObject
  <2>. QED  BY <1>0, <1>2, <2>1, StaleWhole DEF StaleTypeOK, Evicted
<1>3. CASE OriginChanges
  <2>1. origin' \in Versions
    BY <1>0, <1>3, StaleFlightAssumption, SMTT(30) DEF OriginChanges, StaleTypeOK, Versions
  <2>. QED  BY <1>0, <1>3, <2>1, StaleWhole DEF StaleTypeOK, OriginChanges
<1>4. CASE CloseHandler \/ CloseStore
  BY <1>0, <1>4, NotAnswered, StaleWhole DEF StaleTypeOK, CloseHandler, CloseStore, Silent
<1>. QED  BY <1>1, <1>2, <1>3, <1>4

LEMMA StaleStart == StaleInit => StaleInv
<1>. SUFFICES ASSUME StaleInit PROVE StaleInv
  OBVIOUS
<1>1. Whole(stored)
  <2>1. Whole(NoObject)
    BY DEF Whole, NoObject
  <2>2. Whole(Copy(0, 0))
    BY StaleNumbers DEF Whole, Copy, Objects
  <2>. QED  BY <2>1, <2>2 DEF StaleInit
<1>2. Manned(actor)
  BY ParkedFits DEF StaleInit, Manned
<1>3. Proper(told)
  BY NotAnswered DEF StaleInit
<1>4. StaleTypeOK
  BY <1>1, <1>2, <1>3, StaleNumbers
     DEF StaleInit, StaleTypeOK, Whole, Manned, Acting, Proper, Lines
<1>. QED
  BY <1>1, <1>2, <1>3, <1>4
     DEF StaleInv, SharedAnswersAreRight, NoEmptyBody, StateIsPrivate, NeverStaleUnasked,
         Whole, Manned, Proper

LEMMA StaleKept == StaleInv /\ [StaleNext]_staleVars => StaleInv'
<1>. SUFFICES ASSUME StaleInv, [StaleNext]_staleVars PROVE StaleInv'
  OBVIOUS
<1>1. CASE \E c \in Clients, head \in BOOLEAN : ServeRequest(c, head)
  BY <1>1, ServeRequestKeeps
<1>2. CASE \E c \in Clients : AskOwner(c) \/ TriggerBgRevalidate(c)
  BY <1>2, AskOwnerKeeps, TriggerKeeps
<1>3. CASE \E a \in Actors : Move(a)
  BY <1>3, JoinFlightKeeps, FlightAnswersKeeps, OneAnswersKeeps, ApplyKeeps DEF Move
<1>4. CASE Age \/ Evicted \/ OriginChanges \/ CloseHandler \/ CloseStore
  BY <1>4, OthersKeep
<1>5. CASE UNCHANGED staleVars
  <2>1. Whole(stored) /\ Manned(actor) /\ Proper(told) /\ StaleTypeOK
    BY StaleParts DEF StaleInv
  <2>. QED  BY <1>5, <2>1, StaleWhole DEF staleVars, StaleTypeOK
<1>. QED  BY <1>1, <1>2, <1>3, <1>4, <1>5 DEF StaleNext

\* Whoever shares a revalidation with whom, on any number of clients and
\* background fetches: no response to a HEAD empties the stored body, client
\* state reaches only the request it was minted for, and what must be
\* revalidated is never served stale (collapsedFetch, collapsedRevalidateBg,
\* writeAndMaybeStore, staleFallbackAllowed).
THEOREM SharedRight == StaleSpec => []SharedAnswersAreRight
<1>1. StaleInv => SharedAnswersAreRight
  BY DEF StaleInv
<1>. QED  BY <1>1, StaleStart, StaleKept, PTL DEF StaleSpec

-----------------------------------------------------------------------------
(* Shared revalidations: what a step may not do.                           *)

\* Only its own step takes an actor on from its result.
LEMMA OwnApply ==
  ASSUME StaleInv, StaleNext, NEW c \in Actors,
         actor[c].pc = "apply", actor'[c].pc # "apply"
  PROVE  Apply(c)
<1>0. actor \in [Actors -> Acting]
  BY StaleParts DEF Manned
<1>1. ASSUME NEW d \in Clients, NEW head \in BOOLEAN, ServeRequest(d, head)
      PROVE  actor'[c] = actor[c]
  <2>1. actor' = actor \/ \E f : actor' = [actor EXCEPT ![d] = f]
    BY <1>1 DEF ServeRequest, Goes
  <2>. QED  BY <1>0, <1>1, <2>1 DEF ServeRequest
<1>2. ASSUME NEW d \in Clients, AskOwner(d)
      PROVE  actor'[c] = actor[c]
  <2>1. \E f : actor' = [actor EXCEPT ![d] = f]
    BY <1>2 DEF AskOwner, ServePeerHit, Goes
  <2>. QED  BY <1>0, <1>2, <2>1 DEF AskOwner
<1>3. ASSUME NEW d \in Clients, TriggerBgRevalidate(d)
      PROVE  actor'[c] = actor[c]
  <2>1. CASE Finish(d)
    BY <1>0, <1>3, <2>1 DEF TriggerBgRevalidate, Finish
  <2>2. CASE ~Finish(d)
    <3>1. PICK s \in Spawned : /\ actor[s].pc = "idle"
                               /\ \E f : actor' = [actor EXCEPT ![d] = Parked, ![s] = f]
      BY <1>3, <2>2 DEF TriggerBgRevalidate
    <3>. QED  BY <1>0, <1>3, <3>1 DEF TriggerBgRevalidate
  <2>. QED  BY <2>1, <2>2
<1>4. ASSUME NEW a \in Actors, Move(a)
      PROVE  Apply(c)
  <2>1. CASE JoinFlight(a)
    <3>1. \E f : actor' = [actor EXCEPT ![a] = f]
      BY <2>1 DEF JoinFlight
    <3>. QED  BY <1>0, <2>1, <3>1 DEF JoinFlight
  <2>2. CASE OriginAnswersFlight(a)
    <3>1. c \notin Waiting(Line(a)) \union {a}
      BY <2>2 DEF OriginAnswersFlight, Waiting
    <3>. QED  BY <2>2, <3>1 DEF OriginAnswersFlight
  <2>3. CASE OriginAnswersOne(a)
    <3>1. c # a
      BY <2>3 DEF OriginAnswersOne
    <3>. QED  BY <1>0, <2>3, <3>1 DEF OriginAnswersOne
  <2>4. CASE Apply(a)
    BY <1>0, <2>4 DEF Apply, Finish
  <2>. QED  BY <1>4, <2>1, <2>2, <2>3, <2>4 DEF Move
<1>5. ASSUME Age \/ Evicted \/ OriginChanges \/ CloseHandler \/ CloseStore
      PROVE  actor' = actor
  BY <1>5 DEF Age, Evicted, OriginChanges, CloseHandler, CloseStore
<1>. QED  BY <1>1, <1>2, <1>3, <1>4, <1>5 DEF StaleNext

\* A stored response that may be used shields its client from the failure of
\* the origin, though another request's fetch failed
\* (fetchAndStoreStayinAlive, revalidate).
THEOREM Shielded == StaleSpec => FallbackShields
<1>1. ASSUME StaleInv, [StaleNext]_staleVars, NEW c \in Clients,
             actor[c].pc = "apply", actor'[c].pc = "idle",
             actor[c].role \in {"revalidate", "fallback"}, FallbackAllowed
      PROVE  ~Failed(told')
  <2>1. c \in Actors
    BY DEF Actors
  <2>2. StaleNext
    BY <1>1 DEF staleVars
  <2>3. Apply(c)
    BY <1>1, <2>1, <2>2, OwnApply
  <2>. DEFINE r == actor[c].res
  <2>4. CASE ServeStale(c)
    BY <2>4 DEF ServeStale, Tell, Failed
  <2>5. CASE told' = [to |-> c, kind |-> "200", mint |-> NoOne]
    BY <2>5 DEF Failed
  <2>6. CASE ~Failed(r) /\ told' = [to |-> c, kind |-> r.kind, mint |-> r.mint]
    BY <2>6 DEF Failed
  <2>7. CASE ~Failed(r) /\ FreshenOrWrite(c, r)
    <3>1. \/ told' = [to |-> c, kind |-> "200", mint |-> NoOne]
          \/ told' = [to |-> c, kind |-> r.kind, mint |-> r.mint]
      BY <2>7 DEF FreshenOrWrite, WriteAndMaybeStore, Tell
    <3>. QED  BY <2>5, <2>6, <2>7, <3>1
  <2>8. CASE RevalidateResult(c)
    BY <1>1, <2>4, <2>5, <2>7, <2>8 DEF RevalidateResult, Tell
  <2>9. CASE FallbackResult(c)
    BY <2>4, <2>7, <2>9 DEF FallbackResult
  <2>. QED  BY <1>1, <2>3, <2>8, <2>9 DEF Apply, FillResult, BackgroundResult
<1>2. StaleInv /\ [StaleNext]_staleVars
        => [\A c \in Clients :
              (/\ actor[c].pc = "apply" /\ actor'[c].pc = "idle"
               /\ actor[c].role \in {"revalidate", "fallback"} /\ FallbackAllowed)
              => ~Failed(told')]_staleVars
  BY <1>1
<1>. QED  BY <1>2, StaleStart, StaleKept, PTL DEF StaleSpec, FallbackShields

\* Who is still at work while the node shuts down.
Emptied ==
  /\ closing # "open" => \A c \in Clients : actor[c].pc = "idle"
  /\ closing = "closed" => \A a \in Actors : actor[a].pc = "idle"

LEMMA EmptiedKept ==
  ASSUME \A p \in FlightPlans : p.refresh,
         StaleInv, Emptied, [StaleNext]_staleVars
  PROVE  Emptied' /\ (closing = "closed" => stored'.body = stored.body)
<1>0. actor \in [Actors -> Acting] /\ Clients \subseteq Actors /\ Spawned \subseteq Actors
  BY StaleParts DEF Manned, Actors
<1>1. CASE \E c \in Clients, head \in BOOLEAN : ServeRequest(c, head)
  BY <1>1 DEF ServeRequest, Emptied
<1>2. CASE \E c \in Clients : AskOwner(c) \/ TriggerBgRevalidate(c)
  <2>1. closing = "open" /\ closing' = closing
    BY <1>0, <1>2 DEF AskOwner, TriggerBgRevalidate, Emptied, StaleInv, StaleTypeOK
  <2>. QED  BY <2>1 DEF Emptied
<1>3. ASSUME NEW a \in Actors, Move(a)
      PROVE  Emptied' /\ (closing = "closed" => stored'.body = stored.body)
  <2>1. closing' = closing /\ actor[a].pc # "idle"
    BY <1>3 DEF Move, JoinFlight, OriginAnswersFlight, OriginAnswersOne, Apply
  <2>2. closing # "closed"
    BY <2>1 DEF Emptied
  <2>3. ASSUME NEW c \in Clients, closing # "open"
        PROVE  actor'[c].pc = "idle"
    <3>1. actor[c].pc = "idle" /\ c # a
      BY <2>1, <2>3 DEF Emptied
    <3>2. actor'[c] = actor[c]
      <4>1. CASE JoinFlight(a)
        <5>1. \E f : actor' = [actor EXCEPT ![a] = f]
          BY <4>1 DEF JoinFlight
        <5>. QED  BY <1>0, <3>1, <5>1
      <4>2. CASE OriginAnswersFlight(a)
        <5>1. c \notin Waiting(Line(a)) \union {a}
          BY <3>1 DEF Waiting
        <5>. QED  BY <1>0, <4>2, <5>1 DEF OriginAnswersFlight
      <4>3. CASE OriginAnswersOne(a)
        BY <1>0, <3>1, <4>3 DEF OriginAnswersOne
      <4>4. CASE Apply(a)
        BY <1>0, <3>1, <4>4 DEF Apply, Finish
      <4>. QED  BY <1>3, <4>1, <4>2, <4>3, <4>4 DEF Move
    <3>. QED  BY <3>1, <3>2
  <2>. QED  BY <2>1, <2>2, <2>3 DEF Emptied
<1>4. CASE Age
  <2>1. stored'.body = stored.body
    BY <1>4 DEF Age, StaleInv, StaleTypeOK, Objects, NoObject
  <2>. QED  BY <1>4, <2>1 DEF Age, Emptied
<1>5. CASE Evicted \/ OriginChanges
  BY <1>5 DEF Evicted, OriginChanges, Emptied
<1>6. CASE CloseHandler
  BY <1>6 DEF CloseHandler, Emptied
<1>7. CASE CloseStore
  <2>1. route.refresh
    BY DEF StaleInv, StaleTypeOK
  <2>. QED  BY <1>7, <2>1 DEF CloseStore, NoneSpawned, Emptied, Actors
<1>8. CASE UNCHANGED staleVars
  BY <1>8 DEF staleVars, Emptied
<1>. QED  BY <1>1, <1>2, <1>3, <1>4, <1>5, <1>6, <1>7, <1>8 DEF StaleNext

\* On routes that refresh before expiry, whose handlers the shutdown waits for,
\* nothing is written to the store once it is closed (Handler.Close,
\* triggerBgRevalidate).
THEOREM NoLateWrite ==
  ASSUME \A p \in FlightPlans : p.refresh
  PROVE  StaleSpec => NothingAfterClose
<1>1. StaleInit => Emptied
  BY DEF StaleInit, Emptied
<1>2. StaleInv /\ Emptied /\ [StaleNext]_staleVars
        => Emptied' /\ [closing = "closed" => stored'.body = stored.body]_staleVars
  BY EmptiedKept
<1>. QED  BY <1>1, <1>2, StaleStart, StaleKept, PTL DEF StaleSpec, NothingAfterClose

-----------------------------------------------------------------------------
(* Refreshes ahead of expiry: the numbers.                                 *)

LEMMA MinOf ==
  ASSUME NEW S \in SUBSET Nat, S # {}
  PROVE  Min(S) \in S /\ \A y \in S : Min(S) <= y
<1>1. PICK x \in S : \A y \in S : ~(<<y, x>> \in OpToRel(<, Nat))
  BY NatLessThanWellFounded, WFMin
<1>2. ASSUME NEW y \in S PROVE x <= y
  <2>1. y < x => <<y, x>> \in OpToRel(<, Nat)
    <3>1. <<y, x>> \in Nat \X Nat /\ <<y, x>>[1] = y /\ <<y, x>>[2] = x
      OBVIOUS
    <3>. QED  BY <3>1, Zenon DEF OpToRel
  <2>2. ~(y < x)
    BY <1>1, <2>1, Zenon
  <2>. QED  BY <2>2, SMTT(30)
<1>. QED  BY <1>2 DEF Min

LEMMA PairMin ==
  ASSUME NEW x \in Nat, NEW y \in Nat
  PROVE  Min({x, y}) \in {x, y} /\ Min({x, y}) <= x
BY MinOf, {x, y} \in SUBSET Nat, {x, y} # {}

LEMMA PairMax ==
  ASSUME NEW x \in Nat, NEW y \in Nat
  PROVE  Max({x, y}) \in {x, y} /\ Max({x, y}) >= x
<1>1. \E m \in {x, y} : \A z \in {x, y} : m >= z
  <2>1. CASE x >= y
    BY <2>1, SMTT(30)
  <2>2. CASE y >= x
    BY <2>2, SMTT(30)
  <2>. QED  BY <2>1, <2>2, SMTT(30)
<1>. QED  BY <1>1 DEF Max

LEMMA TickNumbers ==
  /\ FreshFor \in Ticks /\ 0 \in Ticks /\ 1 \in Ticks /\ FreshFor - Margin \in Ticks
  /\ Off \notin Ticks /\ Off \in Nat /\ Ticks \subseteq Nat
BY RefreshAssumption, SMTT(30) DEF Ticks, Off

LEMMA LessTicks ==
  ASSUME NEW n \in Ticks \union {Off}
  PROVE  /\ Less(n) \in Ticks \union {Off}
         /\ n \in Ticks => Less(n) \in Ticks /\ Less(n) <= n
         /\ Less(n) = Off <=> n = Off
         /\ \A m \in Ticks \union {Off} : m <= n => Less(m) <= Less(n)
BY RefreshAssumption, SMTT(30) DEF Ticks, Off, Less

LEMMA RetryTicks ==
  ASSUME NEW n \in Ticks
  PROVE  RetryIn(n) \in Ticks
<1>1. n \div 2 \in Nat /\ Margin \in Nat
  BY RefreshAssumption, SMTT(30) DEF Ticks
<1>2. Min({Margin, n \div 2}) \in Nat /\ Min({Margin, n \div 2}) <= Margin
  BY <1>1, PairMin
<1>3. Max({1, Min({Margin, n \div 2})}) \in {1, Min({Margin, n \div 2})}
  BY <1>2, PairMax
<1>. QED  BY <1>2, <1>3, RefreshAssumption, SMTT(30) DEF RetryIn, Ticks

-----------------------------------------------------------------------------
(* Refreshes ahead of expiry: the invariant.                               *)

Methods == {"none", "GET", "HEAD"}
Contents == {"none", "full", "empty"}
StoredAs == [left : Ticks, body : Contents]
Known == [method : Methods, persist : 0..PersistCycles]
Draining ==
  [pc : {"look", "sleep", "pop", "fire", "unregister", "popped", "sweep", "reinsert", "stopped"},
   key : RefreshKeys \union {NoKey}, timer : Ticks \union {Off}, batch : Batch]
Tasking ==
  [pc : {"rest", "start", "fetch", "put", "register"}, key : RefreshKeys \union {NoKey},
   left : Ticks, method : Methods, popular : BOOLEAN, body : Contents]
Tasked == Refreshers \union Writers

\* What the drainer and the tasks have in hand.
Holding ==
  /\ drainer.pc \in {"fire", "unregister", "popped"} => drainer.key \in RefreshKeys
  /\ drainer.pc \notin {"sweep", "reinsert"} => drainer.batch = Nothing
  /\ \A t \in Tasked : tasks[t].pc # "rest" => tasks[t].key \in RefreshKeys

\* What is owed is fresh.
OwedLive == \A k \in owed : Live(k)

\* A refresh that has not stored its answer yet.
Underway(k) == \E r \in Refreshers : tasks[r].key = k /\ tasks[r].pc \in {"start", "fetch", "put"}

\* An owed refresh is in the heap, in a batch, under way, or the one the
\* drainer is about to start.  A task that has stored its answer does not
\* count: what it will register is a new debt.
Carried(k) == heap[k] # Off \/ drainer.batch[k] # Off \/ Underway(k)
Carry ==
  shut = "open" =>
    \A k \in owed \ skipped : Carried(k) \/ (drainer.pc = "fire" /\ drainer.key = k)

\* Asleep without a wake-up pending, the drainer is up before every entry.
WakesInTime ==
  drainer.pc = "sleep" /\ ~ready => \A k \in Queued : drainer.timer <= heap[k]

\* What has ended by when.
Quiet ==
  /\ shut # "open" => \A w \in Writers : tasks[w].pc = "rest"
  /\ shut = "closed" => drainer.pc = "stopped" /\ \A r \in Refreshers : tasks[r].pc = "rest"

RefreshInv ==
  RefreshTypeOK /\ Holding /\ OwedLive /\ Carry /\ WakesInTime /\ Quiet

LEMMA RefreshTypes ==
  RefreshTypeOK <=>
    /\ knob \in RefreshPlans /\ object \in [RefreshKeys -> StoredAs]
    /\ registry \in [RefreshKeys -> Known] /\ heap \in Batch /\ ready \in BOOLEAN
    /\ drainer \in Draining /\ tasks \in [Tasked -> Tasking]
    /\ shut \in {"open", "closing", "closed"}
    /\ owed \subseteq RefreshKeys /\ skipped \subseteq RefreshKeys
BY DEF RefreshTypeOK, StoredAs, Known, Draining, Tasking, Tasked, Methods, Contents

LEMMA RefreshImplies == RefreshInv => RefreshesAreKept
<1>. SUFFICES ASSUME RefreshInv PROVE RefreshesAreKept
  OBVIOUS
<1>1. RefreshNotForgotten
  <2>. SUFFICES ASSUME shut = "open", NEW k \in owed \ skipped
       PROVE  heap[k] # Off \/ InHand(k) \/ InWork(k)
    BY DEF RefreshNotForgotten
  <2>1. DOMAIN tasks = Tasked
    BY RefreshTypes DEF RefreshInv
  <2>2. Underway(k) => InWork(k)
    BY <2>1 DEF Underway, InWork, Tasked
  <2>. QED  BY <2>2 DEF RefreshInv, Carry, Carried, InHand
<1>2. NeverOversleeps
  <2>. SUFFICES ASSUME drainer.pc = "sleep", ~ready, Queued # {}
       PROVE  drainer.timer <= Soonest
    BY DEF NeverOversleeps
  <2>1. \A k \in Queued : drainer.timer <= heap[k]
    BY DEF RefreshInv, WakesInTime
  <2>2. {heap[k] : k \in Queued} \in SUBSET Nat /\ {heap[k] : k \in Queued} # {}
    <3>1. \A k \in Queued : heap[k] \in Nat
      BY RefreshTypes, TickNumbers DEF RefreshInv, Batch, Queued
    <3>. QED
      BY <3>1
  <2>3. Soonest \in {heap[k] : k \in Queued}
    BY <2>2, MinOf DEF Soonest
  <2>. QED  BY <2>1, <2>3
<1>. QED  BY <1>1, <1>2 DEF RefreshesAreKept

LEMMA RestFits == Resting \in Tasking /\ Resting.pc = "rest"
BY TickNumbers DEF Resting, Tasking, Methods, Contents

LEMMA RefreshStart == RefreshInit => RefreshInv
<1>. SUFFICES ASSUME RefreshInit PROVE RefreshInv
  OBVIOUS
<1>1. Nothing \in Batch
  BY DEF Nothing, Batch
<1>2. drainer \in Draining /\ drainer.pc \in {"look", "stopped"} /\ drainer.batch = Nothing
  <2>1. drainer = [pc |-> IF knob.keys = {} THEN "stopped" ELSE "look", key |-> NoKey,
                   timer |-> Off, batch |-> Nothing]
    BY DEF RefreshInit, Looking
  <2>. QED  BY <1>1, <2>1 DEF Draining
<1>3. RefreshTypeOK
  <2>1. Gone \in StoredAs /\ Unknown \in Known
    BY TickNumbers, RefreshAssumption, SMTT(30) DEF Gone, Unknown, StoredAs, Known, Methods, Contents
  <2>. QED  BY <1>1, <1>2, <2>1, RestFits, RefreshTypes DEF RefreshInit, Tasked
<1>4. Holding /\ Quiet
  BY <1>2, RestFits DEF RefreshInit, Holding, Quiet, Tasked
<1>5. OwedLive /\ Carry /\ WakesInTime
  BY <1>2 DEF RefreshInit, OwedLive, Carry, WakesInTime
<1>. QED  BY <1>3, <1>4, <1>5 DEF RefreshInv

-----------------------------------------------------------------------------
(* Refreshes ahead of expiry: the drainer's steps.                         *)

LEMMA LookKeeps ==
  ASSUME RefreshInv, Look
  PROVE  RefreshInv'
<1>. USE DEF RefreshInv
<1>1. {heap[k] : k \in Queued} \in SUBSET Nat /\ (\A k \in Queued : heap[k] \in Ticks)
  BY RefreshTypes, TickNumbers DEF Batch, Queued
<1>2. Queued # {} => Soonest \in Ticks /\ \A k \in Queued : Soonest <= heap[k]
  <2>. SUFFICES ASSUME Queued # {} PROVE Soonest \in Ticks /\ \A k \in Queued : Soonest <= heap[k]
    OBVIOUS
  <2>1. {heap[k] : k \in Queued} # {}
    OBVIOUS
  <2>2. Soonest \in {heap[k] : k \in Queued} /\ \A y \in {heap[k] : k \in Queued} : Soonest <= y
    BY <1>1, <2>1, MinOf DEF Soonest
  <2>. QED  BY <1>1, <2>2
<1>3. /\ drainer' \in Draining /\ drainer'.pc \in {"pop", "sleep"}
      /\ drainer'.batch = drainer.batch /\ drainer'.key = drainer.key
      /\ drainer'.pc = "sleep" => drainer'.timer = IF Queued = {} THEN Off ELSE Soonest
  BY <1>2, RefreshTypes DEF Look, Draining
<1>4. UNCHANGED <<knob, object, registry, heap, ready, tasks, shut, owed, skipped>>
      /\ drainer.pc = "look"
  BY DEF Look
<1>5. RefreshTypeOK'
  BY <1>3, <1>4, RefreshTypes DEF RefreshTypeOK, Draining
<1>6. Holding' /\ Quiet'
  BY <1>3, <1>4 DEF Holding, Quiet
<1>7. OwedLive' /\ Carry'
  BY <1>3, <1>4, ZenonT(60) DEF OwedLive, Live, Present, Carry, Carried, Underway
<1>8. WakesInTime'
  BY <1>2, <1>3, <1>4 DEF WakesInTime, Queued
<1>. QED  BY <1>5, <1>6, <1>7, <1>8

LEMMA AwakeKeeps ==
  ASSUME RefreshInv, Awake
  PROVE  RefreshInv'
<1>. USE DEF RefreshInv
<1>1. /\ drainer' \in Draining /\ drainer'.pc \in {"stopped", "look", "pop"}
      /\ drainer'.batch = drainer.batch /\ drainer'.key = drainer.key /\ ready' \in BOOLEAN
  BY RefreshTypes DEF Awake, OnDone, OnReady, OnTimer, Draining
<1>2. UNCHANGED <<knob, object, registry, heap, tasks, shut, owed, skipped>>
      /\ drainer.pc = "sleep"
  BY DEF Awake
<1>3. RefreshTypeOK'
  BY <1>1, <1>2, RefreshTypes DEF RefreshTypeOK, Draining
<1>4. Holding' /\ Quiet' /\ WakesInTime'
  BY <1>1, <1>2 DEF Holding, Quiet, WakesInTime
<1>5. OwedLive' /\ Carry'
  BY <1>1, <1>2, ZenonT(60) DEF OwedLive, Live, Present, Carry, Carried, Underway
<1>. QED  BY <1>3, <1>4, <1>5

LEMMA PopTopKeeps ==
  ASSUME RefreshInv, NEW k \in RefreshKeys, PopTop(k)
  PROVE  RefreshInv'
<1>. USE DEF RefreshInv
<1>1. /\ drainer' \in Draining /\ drainer'.pc = "fire" /\ drainer'.key = k
      /\ drainer'.batch = drainer.batch /\ heap' \in Batch
      /\ \A q \in RefreshKeys \ {k} : heap'[q] = heap[q]
  BY RefreshTypes DEF PopTop, Draining, Batch
<1>2. UNCHANGED <<knob, object, registry, ready, tasks, shut, owed, skipped>>
      /\ drainer.pc = "pop"
  BY DEF PopTop
<1>3. RefreshTypeOK'
  BY <1>1, <1>2, RefreshTypes DEF RefreshTypeOK, Draining
<1>4. Holding' /\ Quiet' /\ WakesInTime'
  BY <1>1, <1>2 DEF Holding, Quiet, WakesInTime
<1>5. OwedLive' /\ Carry'
  BY <1>1, <1>2, SMTT(30) DEF OwedLive, Live, Present, Carry, Carried, Underway, RefreshTypeOK
<1>. QED  BY <1>3, <1>4, <1>5

LEMMA AfterPopKeeps ==
  ASSUME RefreshInv, AfterPop
  PROVE  RefreshInv'
<1>. USE DEF RefreshInv
<1>0. UNCHANGED <<knob, object, registry, ready, tasks, shut, owed, skipped>>
      /\ drainer.pc = "popped" /\ drainer.batch = Nothing
  BY DEF AfterPop, Holding
<1>1. CASE heap' = heap /\ drainer' = [drainer EXCEPT !.pc = "look", !.key = NoKey]
  <2>1. /\ drainer' \in Draining /\ drainer'.pc = "look" /\ drainer'.batch = drainer.batch
    BY <1>1, RefreshTypes DEF Draining
  <2>2. RefreshTypeOK'
    BY <1>0, <1>1, <2>1, RefreshTypes DEF RefreshTypeOK, Draining
  <2>3. Holding' /\ Quiet' /\ WakesInTime'
    BY <1>0, <2>1 DEF Holding, Quiet, WakesInTime
  <2>4. OwedLive' /\ Carry'
    BY <1>0, <1>1, <2>1, ZenonT(60) DEF OwedLive, Live, Present, Carry, Carried, Underway
  <2>. QED  BY <2>2, <2>3, <2>4
<1>2. CASE ~(heap' = heap /\ drainer' = [drainer EXCEPT !.pc = "look", !.key = NoKey])
  <2>. DEFINE soon == {k \in Queued : heap[k] <= CompactAhead}
              batch == [k \in RefreshKeys |-> IF k \in soon THEN heap[k] ELSE Off]
  <2>1. /\ heap' = [k \in RefreshKeys |-> IF k \in soon THEN Off ELSE heap[k]]
        /\ drainer' = [drainer EXCEPT !.pc = "sweep", !.key = NoKey, !.batch = batch]
    BY <1>2 DEF AfterPop
  <2>2. heap' \in Batch /\ batch \in Batch
    BY <2>1, RefreshTypes DEF Batch
  <2>3. /\ drainer' \in Draining /\ drainer'.pc = "sweep" /\ drainer'.batch = batch
    <3>. HIDE DEF batch
    <3>. QED  BY <2>1, <2>2, RefreshTypes DEF Draining
  <2>4. \A k \in RefreshKeys : heap[k] # Off => heap'[k] # Off \/ drainer'.batch[k] # Off
    BY <2>1, <2>3
  <2>5. RefreshTypeOK'
    BY <1>0, <2>2, <2>3, RefreshTypes DEF RefreshTypeOK, Draining
  <2>6. Holding' /\ Quiet' /\ WakesInTime'
    BY <1>0, <2>3 DEF Holding, Quiet, WakesInTime
  <2>7. OwedLive'
    BY <1>0 DEF OwedLive, Live, Present
  <2>8. Carry'
    <3>. SUFFICES ASSUME shut = "open", NEW k \in owed \ skipped PROVE Carried(k)'
      BY <1>0 DEF Carry
    <3>1. k \in RefreshKeys /\ Carried(k) /\ drainer.batch[k] = Off
      BY <1>0 DEF Carry, RefreshTypeOK, Nothing
    <3>. QED  BY <1>0, <2>4, <3>1 DEF Carried, Underway
  <2>. QED  BY <2>5, <2>6, <2>7, <2>8
<1>. QED  BY <1>1, <1>2

LEMMA SweepKeeps ==
  ASSUME RefreshInv, SweepBatch
  PROVE  RefreshInv'
<1>. USE DEF RefreshInv
<1>0. UNCHANGED <<knob, object, registry, heap, ready, tasks, shut, owed, skipped>>
      /\ drainer.pc = "sweep"
  BY DEF SweepBatch
<1>. DEFINE batch == [k \in RefreshKeys |-> IF Live(k) THEN drainer.batch[k] ELSE Off]
<1>1. batch \in Batch
  BY RefreshTypes DEF Draining, Batch
<1>2. drainer' = [drainer EXCEPT !.pc = "reinsert", !.batch = batch]
  BY DEF SweepBatch
<1>3. drainer' \in Draining /\ drainer'.pc = "reinsert" /\ drainer'.batch = batch
  <2>. HIDE DEF batch
  <2>. QED  BY <1>1, <1>2, RefreshTypes DEF Draining
<1>4. RefreshTypeOK'
  BY <1>0, <1>3, RefreshTypes DEF RefreshTypeOK, Draining
<1>5. Holding' /\ Quiet' /\ WakesInTime'
  BY <1>0, <1>3 DEF Holding, Quiet, WakesInTime
<1>6. OwedLive'
  BY <1>0 DEF OwedLive, Live, Present
<1>7. Carry'
  <2>. SUFFICES ASSUME shut = "open", NEW k \in owed \ skipped PROVE Carried(k)'
    BY <1>0 DEF Carry
  <2>1. k \in RefreshKeys /\ Carried(k) /\ Live(k)
    BY <1>0 DEF Carry, RefreshTypeOK, OwedLive
  <2>2. drainer'.batch[k] = drainer.batch[k]
    BY <1>3, <2>1
  <2>. QED  BY <1>0, <2>1, <2>2 DEF Carried, Underway
<1>. QED  BY <1>4, <1>5, <1>6, <1>7

LEMMA ReinsertKeeps ==
  ASSUME RefreshInv, Reinsert
  PROVE  RefreshInv'
<1>. USE DEF RefreshInv
<1>0. UNCHANGED <<knob, object, registry, ready, tasks, shut, owed, skipped>>
      /\ drainer.pc = "reinsert"
  BY DEF Reinsert
<1>1. /\ heap' = [k \in RefreshKeys |-> IF heap[k] = Off THEN drainer.batch[k] ELSE heap[k]]
      /\ heap' \in Batch
  BY RefreshTypes DEF Reinsert, Draining, Batch
<1>2. Nothing \in Batch
  BY DEF Nothing, Batch
<1>3. drainer' \in Draining /\ drainer'.pc = "look" /\ drainer'.batch = Nothing
  BY <1>2, RefreshTypes DEF Reinsert, Draining
<1>4. RefreshTypeOK'
  BY <1>0, <1>1, <1>3, RefreshTypes DEF RefreshTypeOK, Draining
<1>5. Holding' /\ Quiet' /\ WakesInTime'
  BY <1>0, <1>3 DEF Holding, Quiet, WakesInTime
<1>6. OwedLive'
  BY <1>0 DEF OwedLive, Live, Present
<1>7. Carry'
  <2>. SUFFICES ASSUME shut = "open", NEW k \in owed \ skipped PROVE Carried(k)'
    BY <1>0 DEF Carry
  <2>1. k \in RefreshKeys /\ Carried(k)
    BY <1>0 DEF Carry, RefreshTypeOK
  <2>. QED  BY <1>0, <1>1, <2>1 DEF Carried, Underway
<1>. QED  BY <1>4, <1>5, <1>6, <1>7

-----------------------------------------------------------------------------
(* Refreshes ahead of expiry: registering and refreshing.                  *)

\* A key that is scheduled is in the heap, no other leaves it, and a drainer
\* that sleeps is woken.
LEMMA ScheduleFits ==
  ASSUME RefreshInv, NEW k \in RefreshKeys, NEW n \in Ticks, Schedule(k, n)
  PROVE  /\ heap' \in Batch /\ ready' \in BOOLEAN
         /\ \A q \in RefreshKeys : heap[q] # Off => heap'[q] # Off
         /\ shut = "open" => heap'[k] # Off
         /\ drainer' = drainer => WakesInTime'
<1>1. CASE shut # "open"
  BY <1>1, RefreshTypes DEF Schedule, RefreshInv, WakesInTime, Queued
<1>2. CASE shut = "open"
  <2>1. heap' = [heap EXCEPT ![k] = n] /\ ready' = TRUE
    BY <1>2 DEF Schedule
  <2>. QED  BY <1>2, <2>1, RefreshTypes, TickNumbers DEF RefreshInv, Batch, WakesInTime
<1>. QED  BY <1>1, <1>2

LEMMA StillAsleep ==
  ASSUME WakesInTime, UNCHANGED <<heap, ready, drainer>>
  PROVE  WakesInTime'
BY DEF WakesInTime, Queued

LEMMA TriggerRefreshKeeps ==
  ASSUME RefreshInv, TriggerBgRefresh
  PROVE  RefreshInv'
<1>. USE DEF RefreshInv
<1>. DEFINE k == drainer.key
<1>0. /\ UNCHANGED <<knob, object, registry, shut, owed>>
      /\ drainer.pc = "fire" /\ k \in RefreshKeys /\ drainer.batch = Nothing
  BY DEF TriggerBgRefresh, Holding
<1>1. /\ drainer' \in Draining /\ drainer'.pc \in {"popped", "unregister"} /\ drainer'.key = k
      /\ drainer'.batch = drainer.batch
  BY RefreshTypes DEF TriggerBgRefresh, Draining
<1>2. OwedLive' /\ WakesInTime'
  BY <1>0, <1>1 DEF OwedLive, Live, Present, WakesInTime
<1>. SUFFICES /\ heap' \in Batch /\ ready' \in BOOLEAN
              /\ tasks' \in [Tasked -> Tasking] /\ skipped' \subseteq RefreshKeys
              /\ \A t \in Tasked : tasks'[t].pc # "rest" => tasks'[t].key \in RefreshKeys
              /\ Quiet' /\ Carry'
  <2>1. RefreshTypeOK'
    BY <1>0, <1>1, RefreshTypes DEF RefreshTypeOK, Draining, Tasking, Tasked, Methods, Contents
  <2>2. Holding'
    BY <1>0, <1>1 DEF Holding
  <2>. QED  BY <1>2, <2>1, <2>2
<1>3. \A q \in owed \ skipped : shut = "open" => Carried(q) \/ q = k
  BY <1>0 DEF Carry
<1>4. \A q \in owed : q \in RefreshKeys
  BY RefreshTypes
<1>. HIDE DEF k
<1>5. CASE shut # "open" /\ UNCHANGED <<heap, ready, tasks, skipped>>
  BY <1>0, <1>1, <1>5, RefreshTypes DEF Quiet, Carry, Holding
<1>6. CASE shut = "open" /\ ~Live(k) /\ UNCHANGED <<heap, ready, tasks, skipped>>
  <2>1. Carry'
    BY <1>0, <1>1, <1>3, <1>6, SMTT(30) DEF Carry, Carried, Underway, OwedLive
  <2>. QED  BY <1>0, <1>6, <2>1, RefreshTypes DEF Quiet, Holding
<1>7. CASE shut = "open" /\ Schedule(k, 1) /\ UNCHANGED <<tasks, skipped>>
  <2>1. /\ heap' \in Batch /\ ready' \in BOOLEAN
        /\ \A q \in RefreshKeys : heap[q] # Off => heap'[q] # Off
        /\ heap'[k] # Off
    BY <1>0, <1>7, TickNumbers, ScheduleFits
  <2>2. Carry'
    BY <1>0, <1>1, <1>3, <1>4, <1>7, <2>1, SMTT(30) DEF Carry, Carried, Underway
  <2>. QED  BY <1>0, <1>7, <2>1, <2>2, RefreshTypes DEF Quiet, Holding
<1>8. CASE shut = "open" /\ skipped' = skipped \union {k} /\ UNCHANGED <<heap, ready, tasks>>
  <2>1. Carry'
    BY <1>0, <1>1, <1>3, <1>8, ZenonT(60) DEF Carry, Carried, Underway
  <2>. QED  BY <1>0, <1>8, <2>1, RefreshTypes DEF Quiet, Holding
<1>9. ASSUME shut = "open", UNCHANGED <<heap, ready, skipped>>,
             NEW r \in Refreshers, NEW popular \in BOOLEAN, Free(r),
             tasks' = [tasks EXCEPT ![r] =
               [Resting EXCEPT !.pc = "start", !.key = k, !.left = object[k].left,
                               !.body = object[k].body, !.popular = popular]]
      PROVE  /\ heap' \in Batch /\ ready' \in BOOLEAN
             /\ tasks' \in [Tasked -> Tasking] /\ skipped' \subseteq RefreshKeys
             /\ \A t \in Tasked : tasks'[t].pc # "rest" => tasks'[t].key \in RefreshKeys
             /\ Quiet' /\ Carry'
  <2>. DEFINE f == [Resting EXCEPT !.pc = "start", !.key = k, !.left = object[k].left,
                                  !.body = object[k].body, !.popular = popular]
  <2>1. object[k].left \in Ticks /\ object[k].body \in Contents
    BY <1>0, RefreshTypes DEF StoredAs, k
  <2>2. f \in Tasking /\ f.pc = "start" /\ f.key = k
    BY <1>0, <2>1, RestFits DEF Tasking, k
  <2>3. tasks' = [tasks EXCEPT ![r] = f]
    BY <1>9
  <2>4. r \in Tasked /\ tasks[r].pc = "rest" /\ tasks \in [Tasked -> Tasking]
    BY <1>9, RefreshTypes DEF Free, Tasked
  <2>. HIDE DEF f
  <2>5. tasks' \in [Tasked -> Tasking] /\ tasks'[r] = f
        /\ \A t \in Tasked \ {r} : tasks'[t] = tasks[t]
    BY <2>2, <2>3, <2>4
  <2>6. \A t \in Tasked : tasks'[t].pc # "rest" => tasks'[t].key \in RefreshKeys
    BY <1>0, <2>2, <2>5 DEF Holding, k
  <2>7. \A q : Underway(q) => Underway(q)'
    BY <2>4, <2>5 DEF Underway, Tasked
  <2>8. Underway(k)'
    BY <1>1, <1>9, <2>2, <2>5 DEF Underway, k
  <2>9. Carry'
    BY <1>0, <1>1, <1>3, <1>9, <2>7, <2>8 DEF Carry, Carried, k
  <2>10. Quiet'
    BY <1>0, <1>9 DEF Quiet
  <2>. QED  BY <1>9, <2>5, <2>6, <2>9, <2>10, RefreshTypes
<1>. QED
  <2>1. \/ shut # "open" /\ UNCHANGED <<heap, ready, tasks, skipped>>
        \/ shut = "open" /\ ~Live(k) /\ UNCHANGED <<heap, ready, tasks, skipped>>
        \/ shut = "open" /\ Schedule(k, 1) /\ UNCHANGED <<tasks, skipped>>
        \/ shut = "open" /\ skipped' = skipped \union {k} /\ UNCHANGED <<heap, ready, tasks>>
        \/ /\ shut = "open" /\ UNCHANGED <<heap, ready, skipped>>
           /\ \E r \in Refreshers, popular \in BOOLEAN :
                /\ Free(r)
                /\ tasks' = [tasks EXCEPT ![r] =
                     [Resting EXCEPT !.pc = "start", !.key = k, !.left = object[k].left,
                                     !.body = object[k].body, !.popular = popular]]
    BY DEF TriggerBgRefresh, k
  <2>. QED  BY <1>5, <1>6, <1>7, <1>8, <1>9, <2>1

LEMMA UnregisterKeeps ==
  ASSUME RefreshInv, Unregister
  PROVE  RefreshInv'
<1>. USE DEF RefreshInv
<1>1. /\ drainer' \in Draining /\ drainer'.pc = "popped" /\ drainer'.batch = drainer.batch
      /\ drainer'.key = drainer.key
  BY RefreshTypes DEF Unregister, Draining
<1>2. UNCHANGED <<knob, object, heap, ready, tasks, shut, owed, skipped>>
      /\ drainer.pc = "unregister"
  BY DEF Unregister
<1>3. registry' \in [RefreshKeys -> Known]
  <2>1. Unknown \in Known
    BY RefreshAssumption, SMTT(30) DEF Unknown, Known, Methods
  <2>. QED  BY <2>1, RefreshTypes DEF Unregister
<1>4. RefreshTypeOK'
  BY <1>1, <1>2, <1>3, RefreshTypes DEF RefreshTypeOK, Draining, Known, Methods
<1>5. Holding' /\ Quiet' /\ WakesInTime'
  BY <1>1, <1>2 DEF Holding, Quiet, WakesInTime
<1>6. OwedLive' /\ Carry'
  BY <1>1, <1>2, ZenonT(60) DEF OwedLive, Live, Present, Carry, Carried, Underway
<1>. QED  BY <1>4, <1>5, <1>6

\* When task t becomes f, what is owed is in the heap, or was owed before and
\* has not lost what carried it.
StillCarried(t, f) ==
  \A q \in owed' \ skipped' :
    \/ shut = "open" => heap'[q] # Off
    \/ /\ q \in owed \ skipped /\ (heap[q] # Off => heap'[q] # Off)
       /\ tasks[t].key = q /\ tasks[t].pc \in {"start", "fetch", "put"}
            => f.key = q /\ f.pc \in {"start", "fetch", "put"}

\* A step of one task, which leaves the drainer, the plan and the end alone.
LEMMA TaskStep ==
  ASSUME RefreshInv, NEW t \in Tasked, NEW f \in Tasking, tasks' = [tasks EXCEPT ![t] = f],
         f.pc # "rest" => f.key \in RefreshKeys,
         f.pc # "rest" /\ t \in Writers => shut = "open",
         tasks[t].pc = "rest" => shut # "closed",
         UNCHANGED <<knob, drainer, shut>>,
         object' \in [RefreshKeys -> StoredAs], registry' \in [RefreshKeys -> Known],
         heap' \in Batch, ready' \in BOOLEAN, owed' \subseteq RefreshKeys,
         skipped' \subseteq RefreshKeys,
         OwedLive', WakesInTime',
         StillCarried(t, f)
  PROVE  RefreshInv'
<1>. USE DEF RefreshInv
<1>1. /\ tasks \in [Tasked -> Tasking] /\ tasks' \in [Tasked -> Tasking] /\ tasks'[t] = f
      /\ \A u \in Tasked \ {t} : tasks'[u] = tasks[u]
  BY RefreshTypes
<1>2. RefreshTypeOK'
  BY <1>1, RefreshTypes DEF RefreshTypeOK, StoredAs, Known, Tasking, Tasked, Methods, Contents
<1>3. Holding'
  BY <1>1 DEF Holding
<1>4. Quiet'
  <2>1. ASSUME shut' # "open", NEW w \in Writers PROVE tasks'[w].pc = "rest"
    BY <1>1, <2>1 DEF Quiet, Tasked
  <2>2. ASSUME shut' = "closed" PROVE FALSE
    BY <1>1, <2>2 DEF Quiet, Tasked
  <2>. QED  BY <2>1, <2>2 DEF Quiet
<1>5. Carry'
  <2>. SUFFICES ASSUME shut = "open", NEW q \in owed' \ skipped', heap'[q] = Off
       PROVE  Carried(q)' \/ (drainer.pc = "fire" /\ drainer.key = q)
    BY DEF Carry, Carried
  <2>1. /\ q \in owed \ skipped /\ heap[q] = Off
        /\ tasks[t].key = q /\ tasks[t].pc \in {"start", "fetch", "put"}
             => f.key = q /\ f.pc \in {"start", "fetch", "put"}
    BY DEF StillCarried
  <2>2. Underway(q) => Underway(q)'
    BY <1>1, <2>1 DEF Underway, Tasked
  <2>. QED  BY <2>1, <2>2 DEF Carry, Carried
<1>. QED  BY <1>2, <1>3, <1>4, <1>5

LEMMA StartRefreshKeeps ==
  ASSUME RefreshInv, NEW r \in Refreshers, StartRefresh(r)
  PROVE  RefreshInv'
<1>. USE DEF RefreshInv
<1>. DEFINE e == registry[tasks[r].key]
            f == [tasks[r] EXCEPT !.pc = "fetch", !.method = e.method]
<1>0. /\ r \in Tasked /\ tasks[r] \in Tasking /\ tasks[r].pc = "start"
      /\ tasks[r].key \in RefreshKeys
      /\ UNCHANGED <<knob, object, registry, heap, ready, drainer, shut, owed>>
  BY RefreshTypes DEF Tasked, StartRefresh, Holding
<1>1. OwedLive' /\ WakesInTime'
  BY <1>0, StillAsleep DEF OwedLive, Live, Present
<1>2. CASE e = Unknown
  <2>1. tasks' = [tasks EXCEPT ![r] = Resting] /\ skipped' = skipped \union {tasks[r].key}
    BY <1>2 DEF StartRefresh, TaskDone, SetTask
  <2>. QED
    <3>. HIDE DEF e, f
    <3>. QED  BY <1>0, <1>1, <2>1, RestFits, RefreshTypes, TaskStep DEF Quiet, Tasked, StillCarried
<1>3. CASE e # Unknown
  <2>1. tasks' = [tasks EXCEPT ![r] = f] /\ skipped' = skipped
    BY <1>3 DEF StartRefresh, SetTask
  <2>2. f \in Tasking /\ f.pc = "fetch" /\ f.key = tasks[r].key
    BY <1>0, RefreshTypes DEF Tasking, Known
  <2>3. r \notin Writers
    BY RefreshAssumption
  <2>. QED
    <3>. HIDE DEF e, f
    <3>1. StillCarried(r, f)
      BY <1>0, <2>1, <2>2 DEF StillCarried
    <3>2. /\ object' \in [RefreshKeys -> StoredAs] /\ registry' \in [RefreshKeys -> Known]
          /\ heap' \in Batch /\ ready' \in BOOLEAN /\ owed' \subseteq RefreshKeys
          /\ skipped' \subseteq RefreshKeys
      BY <1>0, <2>1, RefreshTypes
    <3>. QED  BY <1>0, <1>1, <2>1, <2>2, <2>3, <3>1, <3>2, TaskStep
<1>. QED  BY <1>2, <1>3

LEMMA FetchEndsKeeps ==
  ASSUME RefreshInv, NEW r \in Refreshers, FetchEnds(r)
  PROVE  RefreshInv'
<1>. USE DEF RefreshInv
<1>0. /\ r \in Tasked /\ tasks[r] \in Tasking /\ tasks[r].pc = "fetch"
      /\ tasks[r].key \in RefreshKeys /\ r \notin Writers
      /\ UNCHANGED <<knob, object, registry, drainer, shut, owed>>
  BY RefreshTypes, RefreshAssumption DEF Tasked, FetchEnds, Holding
<1>1. OwedLive'
  BY <1>0 DEF OwedLive, Live, Present
<1>2. CASE TaskDone(r) /\ RetryLater(r)
  <2>1. tasks' = [tasks EXCEPT ![r] = Resting]
    BY <1>2 DEF TaskDone, SetTask
  <2>2. CASE tasks[r].left = 0
    <3>1. skipped' = skipped \union {tasks[r].key} /\ UNCHANGED <<heap, ready>>
      BY <1>2, <2>2 DEF RetryLater
    <3>2. WakesInTime'
      BY <1>0, <3>1, StillAsleep
    <3>. QED  BY <1>0, <1>1, <2>1, <3>1, <3>2, RestFits, RefreshTypes, TaskStep DEF StillCarried
  <2>3. CASE tasks[r].left # 0
    <3>1. Schedule(tasks[r].key, RetryIn(tasks[r].left)) /\ skipped' = skipped
      BY <1>2, <2>3 DEF RetryLater
    <3>2. RetryIn(tasks[r].left) \in Ticks
      BY <1>0, RetryTicks DEF Tasking
    <3>3. /\ heap' \in Batch /\ ready' \in BOOLEAN /\ WakesInTime'
          /\ \A q \in RefreshKeys : heap[q] # Off => heap'[q] # Off
          /\ shut = "open" => heap'[tasks[r].key] # Off
      BY <1>0, <3>1, <3>2, ScheduleFits
    <3>4. owed \subseteq RefreshKeys /\ skipped \subseteq RefreshKeys
      BY RefreshTypes
    <3>. QED
      BY <1>0, <1>1, <2>1, <3>1, <3>3, <3>4, RestFits, RefreshTypes, TaskStep DEF StillCarried
  <2>. QED  BY <2>2, <2>3
<1>3. CASE TaskDone(r) /\ shut # "open" /\ UNCHANGED <<heap, ready, skipped>>
  <2>1. tasks' = [tasks EXCEPT ![r] = Resting]
    BY <1>3 DEF TaskDone, SetTask
  <2>2. WakesInTime'
    BY <1>0, <1>3, StillAsleep
  <2>. QED  BY <1>0, <1>1, <1>3, <2>1, <2>2, RestFits, RefreshTypes, TaskStep DEF StillCarried
<1>4. ASSUME NEW b \in Bodies(r), UNCHANGED <<heap, ready, skipped>>,
             SetTask(r, [tasks[r] EXCEPT !.pc = "put", !.body = b, !.left = 0])
      PROVE  RefreshInv'
  <2>. DEFINE f == [tasks[r] EXCEPT !.pc = "put", !.body = b, !.left = 0]
  <2>1. tasks' = [tasks EXCEPT ![r] = f]
    BY <1>4 DEF SetTask
  <2>2. f \in Tasking /\ f.pc = "put" /\ f.key = tasks[r].key
    BY <1>0, TickNumbers DEF Tasking, Bodies, Contents
  <2>3. WakesInTime'
    BY <1>0, <1>4, StillAsleep
  <2>. HIDE DEF f
  <2>4. StillCarried(r, f)
    BY <1>0, <1>4, <2>2 DEF StillCarried
  <2>5. /\ object' \in [RefreshKeys -> StoredAs] /\ registry' \in [RefreshKeys -> Known]
        /\ heap' \in Batch /\ ready' \in BOOLEAN /\ owed' \subseteq RefreshKeys
        /\ skipped' \subseteq RefreshKeys
    BY <1>0, <1>4, RefreshTypes
  <2>. QED  BY <1>0, <1>1, <2>1, <2>2, <2>3, <2>4, <2>5, TaskStep
<1>5. CASE TaskDone(r) /\ skipped' = skipped \union {tasks[r].key} /\ UNCHANGED <<heap, ready>>
  <2>1. tasks' = [tasks EXCEPT ![r] = Resting]
    BY <1>5 DEF TaskDone, SetTask
  <2>2. WakesInTime'
    BY <1>0, <1>5, StillAsleep
  <2>. QED  BY <1>0, <1>1, <1>5, <2>1, <2>2, RestFits, RefreshTypes, TaskStep DEF StillCarried
<1>. QED  BY <1>2, <1>3, <1>4, <1>5 DEF FetchEnds

LEMMA ClientFetchesKeeps ==
  ASSUME RefreshInv, NEW w \in Writers, NEW k \in RefreshKeys, NEW method \in {"GET", "HEAD"},
         ClientFetches(w, k, method)
  PROVE  RefreshInv'
<1>. USE DEF RefreshInv
<1>. DEFINE body == IF method = "HEAD" THEN object[k].body ELSE "full"
            f == [Resting EXCEPT !.pc = "put", !.key = k, !.method = method, !.body = body]
<1>0. /\ w \in Tasked /\ tasks[w].pc = "rest" /\ shut = "open" /\ tasks' = [tasks EXCEPT ![w] = f]
      /\ UNCHANGED <<knob, object, registry, heap, ready, drainer, shut, owed, skipped>>
  BY DEF Tasked, ClientFetches, Free, SetTask
<1>1. OwedLive' /\ WakesInTime'
  BY <1>0, StillAsleep DEF OwedLive, Live, Present
<1>2. body \in Contents
  BY RefreshTypes DEF StoredAs, Contents
<1>3. f \in Tasking /\ f.pc = "put" /\ f.key = k
  <2>. HIDE DEF body
  <2>. QED  BY <1>2, RestFits DEF Tasking, Methods
<1>. HIDE DEF f
<1>. QED  BY <1>0, <1>1, <1>3, RefreshTypes, TaskStep DEF StillCarried

LEMMA PutObjectKeeps ==
  ASSUME RefreshInv, NEW t \in Tasked, PutObject(t)
  PROVE  RefreshInv'
<1>. USE DEF RefreshInv
<1>. DEFINE k == tasks[t].key
            f == [tasks[t] EXCEPT !.pc = "register", !.body = "none"]
            o == [left |-> FreshFor, body |-> tasks[t].body]
<1>0. /\ tasks[t] \in Tasking /\ tasks[t].pc = "put" /\ k \in RefreshKeys
      /\ object' = [object EXCEPT ![k] = o] /\ owed' = owed \ {k} /\ skipped' = skipped \ {k}
      /\ tasks' = [tasks EXCEPT ![t] = f]
      /\ UNCHANGED <<knob, registry, heap, ready, drainer, shut>>
  BY RefreshTypes DEF PutObject, SetTask, Holding
<1>1. f \in Tasking /\ f.pc = "register" /\ f.key = k
  BY <1>0 DEF Tasking, Contents
<1>2. o \in StoredAs
  BY <1>0, TickNumbers DEF StoredAs, Tasking
<1>3. t \in Writers => shut = "open"
  BY <1>0 DEF Quiet
<1>. HIDE DEF f, o, k
<1>4. object' \in [RefreshKeys -> StoredAs] /\ \A q \in RefreshKeys \ {k} : object'[q] = object[q]
  BY <1>0, <1>2, RefreshTypes
<1>5. OwedLive'
  BY <1>0, <1>4, RefreshTypes DEF OwedLive, Live, Present
<1>6. WakesInTime'
  BY <1>0, StillAsleep
<1>7. owed' \subseteq RefreshKeys /\ skipped' \subseteq RefreshKeys
  BY <1>0, RefreshTypes
<1>8. \A q \in owed' \ skipped' : q \in owed \ skipped /\ q # tasks[t].key
  BY <1>0 DEF k
<1>. QED  BY <1>0, <1>1, <1>3, <1>4, <1>5, <1>6, <1>7, <1>8, RefreshTypes, TaskStep DEF k, StillCarried

LEMMA RegisterKeeps ==
  ASSUME RefreshInv, NEW t \in Tasked, RegisterRefresh(t)
  PROVE  RefreshInv'
<1>. USE DEF RefreshInv
<1>. DEFINE k == tasks[t].key
            cold == t \in Refreshers /\ ~tasks[t].popular
            due == /\ Schedule(k, FreshFor - Margin)
                   /\ owed' = {q \in owed \union {k} : Live(q)}
            unscheduled == UNCHANGED <<heap, ready, owed>>
<1>0. /\ tasks[t] \in Tasking /\ tasks[t].pc = "register" /\ k \in RefreshKeys
      /\ tasks' = [tasks EXCEPT ![t] = Resting]
      /\ UNCHANGED <<knob, object, drainer, shut, skipped>>
  BY RefreshTypes DEF RegisterRefresh, TaskDone, SetTask, Holding
<1>1. registry' \in [RefreshKeys -> Known]
  <2>1. CASE registry' = registry
    BY <2>1, RefreshTypes
  <2>2. CASE registry[k].persist > 0 /\ registry' = [registry EXCEPT ![k].persist = @ - 1]
    <3>1. registry[k] \in Known
      BY <1>0, RefreshTypes
    <3>2. registry[k].persist - 1 \in 0..PersistCycles
      BY <2>2, <3>1, RefreshAssumption, SMTT(30) DEF Known
    <3>3. [registry[k] EXCEPT !.persist = @ - 1] \in Known
      BY <3>1, <3>2 DEF Known
    <3>. QED  BY <2>2, <3>3, RefreshTypes
  <2>3. CASE registry' = [registry EXCEPT ![k] = Unknown]
    <3>1. Unknown \in Known
      BY RefreshAssumption, SMTT(30) DEF Unknown, Known, Methods
    <3>. QED  BY <2>3, <3>1, RefreshTypes
  <2>4. CASE registry' = [registry EXCEPT ![k] =
               [method |-> tasks[t].method, persist |-> PersistCycles]]
    <3>1. [method |-> tasks[t].method, persist |-> PersistCycles] \in Known
      BY <1>0, RefreshAssumption, SMTT(30) DEF Known, Tasking
    <3>. QED  BY <2>4, <3>1, RefreshTypes
  <2>. QED  BY <2>1, <2>2, <2>3, <2>4 DEF RegisterRefresh
<1>2. unscheduled \/ due
  BY DEF RegisterRefresh
<1>3. CASE unscheduled
  <2>1. OwedLive' /\ WakesInTime'
    BY <1>0, <1>3, StillAsleep DEF OwedLive, Live, Present
  <2>2. StillCarried(t, Resting)
    BY <1>0, <1>3 DEF StillCarried
  <2>. QED  BY <1>0, <1>1, <1>3, <2>1, <2>2, RestFits, RefreshTypes, TaskStep
<1>4. CASE due
  <2>1. /\ heap' \in Batch /\ ready' \in BOOLEAN /\ WakesInTime'
        /\ \A q \in RefreshKeys : heap[q] # Off => heap'[q] # Off
        /\ shut = "open" => heap'[k] # Off
    BY <1>0, <1>4, TickNumbers, ScheduleFits
  <2>2. OwedLive' /\ owed' \subseteq RefreshKeys /\ owed \subseteq RefreshKeys
    BY <1>0, <1>4, RefreshTypes DEF OwedLive, Live, Present
  <2>3. \A q \in owed' : q \in owed \/ q = k
    BY <1>4
  <2>4. StillCarried(t, Resting)
    BY <1>0, <2>1, <2>2, <2>3 DEF StillCarried
  <2>. QED  BY <1>0, <1>1, <2>1, <2>2, <2>4, RestFits, RefreshTypes, TaskStep, ZenonT(60)
<1>. QED  BY <1>2, <1>3, <1>4

-----------------------------------------------------------------------------
(* Refreshes ahead of expiry: the keys, time and the end.                  *)

LEMMA KeyStep ==
  ASSUME RefreshInv, NEW k \in RefreshKeys, NEW o \in StoredAs,
         object' = [object EXCEPT ![k] = o], owed' = owed \ {k},
         registry' \in [RefreshKeys -> Known],
         UNCHANGED <<knob, heap, ready, drainer, tasks, shut, skipped>>
  PROVE  RefreshInv'
<1>. USE DEF RefreshInv
<1>1. object' \in [RefreshKeys -> StoredAs] /\ \A q \in RefreshKeys \ {k} : object'[q] = object[q]
  BY RefreshTypes
<1>2. RefreshTypeOK'
  BY <1>1, RefreshTypes DEF RefreshTypeOK, StoredAs, Known, Methods, Contents
<1>3. Holding' /\ Quiet' /\ WakesInTime'
  BY StillAsleep DEF Holding, Quiet
<1>4. OwedLive'
  BY <1>1, RefreshTypes DEF OwedLive, Live, Present
<1>5. Carry'
  BY ZenonT(60) DEF Carry, Carried, Underway
<1>. QED  BY <1>2, <1>3, <1>4, <1>5

LEMMA KeysKeep ==
  ASSUME RefreshInv, NEW k \in RefreshKeys, EvictKey(k) \/ PurgeKey(k) \/ SoftPurgeKey(k)
  PROVE  RefreshInv'
<1>1. Gone \in StoredAs /\ Unknown \in Known
  BY TickNumbers, RefreshAssumption, SMTT(30) DEF Gone, Unknown, StoredAs, Known, Methods, Contents
<1>2. registry \in [RefreshKeys -> Known] /\ object \in [RefreshKeys -> StoredAs]
  BY RefreshTypes DEF RefreshInv
<1>3. CASE EvictKey(k)
  BY <1>1, <1>2, <1>3, KeyStep DEF EvictKey
<1>4. CASE PurgeKey(k)
  BY <1>1, <1>2, <1>4, KeyStep DEF PurgeKey
<1>5. CASE SoftPurgeKey(k)
  <2>1. [object[k] EXCEPT !.left = 0] \in StoredAs
    BY <1>2, TickNumbers DEF StoredAs
  <2>2. object' = [object EXCEPT ![k] = [object[k] EXCEPT !.left = 0]]
    BY <1>5 DEF SoftPurgeKey
  <2>. QED  BY <1>2, <1>5, <2>1, <2>2, KeyStep DEF SoftPurgeKey
<1>. QED  BY <1>3, <1>4, <1>5

LEMMA TickKeeps ==
  ASSUME RefreshInv, Tick
  PROVE  RefreshInv'
<1>. USE DEF RefreshInv
<1>0. UNCHANGED <<knob, registry, ready, shut, skipped>> /\ shut # "closed"
  BY DEF Tick
<1>1. /\ object' \in [RefreshKeys -> StoredAs]
      /\ \A k \in RefreshKeys : object'[k].left = Less(object[k].left)
  BY RefreshTypes, LessTicks, SMTT(30) DEF Tick, StoredAs
<1>2. /\ heap' \in Batch /\ \A k \in RefreshKeys : heap'[k] = Less(heap[k])
  BY RefreshTypes, LessTicks DEF Tick, Batch
<1>. DEFINE batch == [k \in RefreshKeys |-> Less(drainer.batch[k])]
<1>3. drainer' = [drainer EXCEPT !.timer = Less(drainer.timer), !.batch = batch]
  BY DEF Tick
<1>4. drainer \in Draining /\ drainer.timer \in Ticks \union {Off} /\ drainer.batch \in Batch
  BY RefreshTypes DEF Draining
<1>5. batch \in Batch /\ \A k \in RefreshKeys : batch[k] = Off <=> drainer.batch[k] = Off
  BY <1>4, LessTicks DEF Batch
<1>6. Less(drainer.timer) \in Ticks \union {Off}
  BY <1>4, LessTicks
<1>. HIDE DEF batch
<1>7. /\ drainer' \in Draining /\ drainer'.pc = drainer.pc /\ drainer'.key = drainer.key
      /\ drainer'.batch = batch /\ drainer'.timer = Less(drainer.timer)
  BY <1>3, <1>4, <1>5, <1>6 DEF Draining
<1>8. /\ tasks' \in [Tasked -> Tasking]
      /\ \A t \in Tasked : tasks'[t].pc = tasks[t].pc /\ tasks'[t].key = tasks[t].key
  BY RefreshTypes, LessTicks DEF Tick, Tasking
<1>9. owed' = {k \in owed : object'[k].left > 0} /\ owed \subseteq RefreshKeys
  BY RefreshTypes DEF Tick
<1>10. RefreshTypeOK'
  BY <1>0, <1>1, <1>2, <1>7, <1>8, <1>9, RefreshTypes
     DEF RefreshTypeOK, StoredAs, Draining, Tasking, Tasked, Methods, Contents
<1>11. Holding'
  <2>1. drainer.batch = Nothing => batch = Nothing
    <3>1. ASSUME drainer.batch = Nothing PROVE \A k \in RefreshKeys : batch[k] = Off
      BY <1>5, <3>1 DEF Nothing
    <3>. QED  BY <1>5, <3>1 DEF Nothing, Batch
  <2>. QED  BY <1>7, <1>8, <2>1 DEF Holding
<1>12. OwedLive'
  BY <1>9, SMTT(30) DEF OwedLive, Live, Present, Gone
<1>13. Carry'
  <2>1. \A q : Underway(q) => Underway(q)'
    BY <1>8 DEF Underway, Tasked
  <2>2. \A q \in RefreshKeys : Carried(q) => Carried(q)'
    <3>. SUFFICES ASSUME NEW q \in RefreshKeys, Carried(q) PROVE Carried(q)'
      OBVIOUS
    <3>1. heap[q] \in Ticks \union {Off}
      BY RefreshTypes DEF Batch
    <3>2. heap[q] # Off => heap'[q] # Off
      BY <1>2, <3>1, LessTicks
    <3>. QED  BY <1>5, <1>7, <2>1, <3>2 DEF Carried
  <2>. QED  BY <1>0, <1>7, <1>9, <2>2 DEF Carry
<1>14. WakesInTime'
  <2>. SUFFICES ASSUME drainer'.pc = "sleep", ~ready', NEW k \in Queued'
       PROVE  drainer'.timer <= heap'[k]
    BY DEF WakesInTime
  <2>1. k \in RefreshKeys /\ heap[k] \in Ticks \union {Off} /\ heap'[k] # Off
    BY RefreshTypes DEF Queued, Batch
  <2>2. k \in Queued
    BY <1>2, <2>1, LessTicks DEF Queued
  <2>3. drainer.timer <= heap[k]
    BY <1>0, <1>7, <2>2 DEF WakesInTime
  <2>. QED  BY <1>2, <1>4, <1>7, <2>1, <2>3, LessTicks, ZenonT(60)
<1>15. Quiet'
  BY <1>0, <1>8 DEF Quiet, Tasked
<1>. QED  BY <1>10, <1>11, <1>12, <1>13, <1>14, <1>15, ZenonT(60)

LEMMA CloseKeeps ==
  ASSUME RefreshInv, BeginClose \/ EndClose
  PROVE  RefreshInv'
<1>. USE DEF RefreshInv
<1>1. RefreshTypeOK'
  BY RefreshTypes DEF BeginClose, EndClose, RefreshTypeOK
<1>2. Holding' /\ OwedLive' /\ Carry'
  BY DEF BeginClose, EndClose, Holding, OwedLive, Live, Present, Carry
<1>3. WakesInTime'
  BY DEF BeginClose, EndClose, WakesInTime, Queued
<1>4. Quiet'
  BY DEF BeginClose, EndClose, Quiet, Free, Joined
<1>. QED  BY <1>1, <1>2, <1>3, <1>4

LEMMA RefreshKept == RefreshInv /\ [RefreshNext]_refreshVars => RefreshInv'
<1>. SUFFICES ASSUME RefreshInv, [RefreshNext]_refreshVars PROVE RefreshInv'
  OBVIOUS
<1>1. CASE DrainerMoves
  BY <1>1, LookKeeps, AwakeKeeps, PopTopKeeps, TriggerRefreshKeeps, UnregisterKeeps, AfterPopKeeps,
     SweepKeeps, ReinsertKeeps DEF DrainerMoves
<1>2. CASE \E t \in Refreshers \union Writers : Work(t)
  BY <1>2, PutObjectKeeps, RegisterKeeps DEF Work, Tasked
<1>3. CASE \E r \in Refreshers : Refresh(r)
  BY <1>3, StartRefreshKeeps, FetchEndsKeeps DEF Refresh
<1>4. CASE \E w \in Writers, k \in RefreshKeys, m \in {"GET", "HEAD"} : ClientFetches(w, k, m)
  BY <1>4, ClientFetchesKeeps
<1>5. CASE \E k \in RefreshKeys : EvictKey(k) \/ PurgeKey(k) \/ SoftPurgeKey(k)
  BY <1>5, KeysKeep
<1>6. CASE Tick \/ BeginClose \/ EndClose
  BY <1>6, TickKeeps, CloseKeeps
<1>7. CASE UNCHANGED refreshVars
  BY <1>7, SMTT(30) DEF refreshVars, RefreshInv, RefreshTypeOK, Holding, OwedLive, Live, Present, Carry,
              Carried, Underway, WakesInTime, Queued, Quiet
<1>. QED  BY <1>1, <1>2, <1>3, <1>4, <1>5, <1>6, <1>7, ZenonT(60) DEF RefreshNext

\* For any number of keys, refreshers and clients: a registered object that is
\* fresh has its refresh in the heap, in the drainer's hands or under way,
\* but for the skips the code counts; and the drainer never sleeps past the
\* earliest entry (run, Schedule, triggerBgRefresh, doBackgroundRefresh,
\* registerRefresh).
THEOREM RefreshesKept == RefreshSpec => []RefreshesAreKept
BY RefreshStart, RefreshKept, RefreshImplies, PTL DEF RefreshSpec

\* Once Close has returned nothing is popped, registered or stored (Stop,
\* Close).
THEOREM StopsForGood == RefreshSpec => StopIsFinal
<1>1. ASSUME RefreshInv, RefreshNext, shut = "closed"
      PROVE  FALSE
  <2>1. drainer.pc = "stopped" /\ \A t \in Refreshers \union Writers : tasks[t].pc = "rest"
    BY <1>1 DEF RefreshInv, Quiet
  <2>2. ~DrainerMoves
    BY <2>1 DEF DrainerMoves, Look, Awake, PopTop, TriggerBgRefresh, Unregister, AfterPop,
                SweepBatch, Reinsert
  <2>3. \A t \in Refreshers \union Writers : ~Work(t) /\ ~Refresh(t)
    BY <2>1 DEF Work, PutObject, RegisterRefresh, Refresh, StartRefresh, FetchEnds
  <2>. QED
    BY <1>1, <2>2, <2>3 DEF RefreshNext, ClientFetches, EvictKey, PurgeKey, SoftPurgeKey, Tick,
                            BeginClose, EndClose
<1>2. RefreshInv /\ [RefreshNext]_refreshVars
        => [shut = "closed" => UNCHANGED <<registry, drainer.pc>> /\
              \A k \in RefreshKeys : object'[k].left <= object[k].left]_refreshVars
  BY <1>1
<1>. QED  BY <1>2, RefreshStart, RefreshKept, PTL DEF RefreshSpec, StopIsFinal
=============================================================================
