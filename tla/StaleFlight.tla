---------------------------- MODULE StaleFlight -----------------------------
(***************************************************************************)
(* What happens to one stored response once it is no longer simply fresh:  *)
(* the decision of the cache state machine, the foreground revalidation,   *)
(* the fetch with a stale fallback, the background revalidation behind a   *)
(* stale-while-revalidate answer, and the singleflight groups through      *)
(* which all of them share their origin fetches.                           *)
(*                                                                         *)
(* Source: internal/cache/engine.go and handler.go (ServeRequest,          *)
(* handleCacheMiss, collapsed*, revalidate, fetchAndStoreStayinAlive,      *)
(* refreshFrom304, freshenFromHead, triggerBgRevalidate,                   *)
(* doBackgroundRevalidate, writeAndMaybeStore, Close).                     *)
(*                                                                         *)
(* The origin serves numbered versions of the representation.  A stored    *)
(* object has the version its body came from, the entity-tag it carries    *)
(* (the version it was last declared to be, or NoTag) and an age: fresh    *)
(* below Ttl, stale within the stale-while-revalidate window below         *)
(* Ttl + Swr, past it at Ttl + Swr.  An actor is a client's request or a   *)
(* background goroutine; it holds the object its lookup returned for as    *)
(* long as it works, whatever the store holds meanwhile.                   *)
(***************************************************************************)
EXTENDS Naturals, FiniteSets

CONSTANTS
  Clients,      \* concurrent client requests
  Spawned,      \* background revalidations revalSem admits
  LastVersion,  \* the origin's versions are 0..LastVersion
  Ttl, Swr,     \* the freshness lifetime and the window after it
  FlightPlans   \* the routes and origins to consider

ASSUME StaleFlightAssumption ==
  /\ Clients \intersect Spawned = {}
  /\ IsFiniteSet(Clients) /\ IsFiniteSet(Spawned)
  /\ LastVersion \in Nat /\ Ttl \in Nat \ {0} /\ Swr \in Nat

VARIABLES
  route,      \* the plan: [class, stayin, faults, heads,
              \* cookies, remote, refresh]
  origin,     \* the version the origin serves
  stored,     \* the object in the store (of the key's owner), or NoObject
  actor,      \* actor -> what it is doing
  flight,     \* singleflight: line -> its leader, or NoOne
  told,       \* the answer this step gave to a client, or NoAnswer
  closing     \* Handler.Close: "open", "draining", "closed"

staleVars == <<route, origin, stored, actor, flight, told, closing>>

Actors == Clients \union Spawned
Versions == 0..LastVersion
NoOne == "nobody"
NoTag == LastVersion + 1
Empty == LastVersion + 2        \* the body of a response to a HEAD
NoObject == [body |-> Empty, tag |-> NoTag, age |-> 0, held |-> FALSE]
Objects == [body : Versions \union {Empty}, tag : Versions \union {NoTag},
            age : 0..(Ttl + Swr), held : {TRUE}]

\* The three singleflight lines of a key: suffix 0, revalKeySuffix and
\* headRevalKeySuffix.
Lines == {"zero", "reval", "head"}

\* An origin's answer: its kind, version, body, and the actor its client
\* state (Set-Cookie, Set-Login) was minted for.
NoResult == [kind |-> "none", ver |-> 0, body |-> Empty, mint |-> NoOne]
Kinds == {"none", "304", "200", "5xx", "error"}
Results == [kind : Kinds, ver : Versions, body : Versions \union {Empty},
            mint : Actors \union {NoOne}]

\* The response classes of a route: "plain" has validators and a lifetime,
\* "nocache" and "must" carry that directive, "bare" has no validators.
Validates == route.class # "bare"

Parked == [pc |-> "idle", role |-> "none", head |-> FALSE,
         seen |-> NoObject, res |-> NoResult]
NoAnswer == [to |-> NoOne, kind |-> "none", mint |-> NoOne]

StaleTypeOK ==
  /\ route \in FlightPlans
  /\ origin \in Versions
  /\ stored \in Objects \union {NoObject}
  /\ actor \in [Actors ->
       [pc : {"idle", "ask", "spawn", "fly", "lead", "wait", "own", "apply"},
        role : {"none", "revalidate", "fallback", "fill", "background"},
        head : BOOLEAN, seen : Objects \union {NoObject}, res : Results]]
  /\ flight \in [Lines -> Actors \union {NoOne}]
  /\ told \in [to : Clients \union {NoOne}, kind : Kinds \union {"stale"},
               mint : Actors \union {NoOne}]
  /\ closing \in {"open", "draining", "closed"}

Copy(v, a) == [body |-> v, tag |-> IF Validates THEN v ELSE NoTag,
               age |-> a, held |-> TRUE]

\* What a node that does not own the key has of it: an old copy of its own,
\* left by a change of the ring.
Leftover == Copy(0, Ttl + Swr)

StaleInit ==
  /\ route \in FlightPlans
  /\ origin = 0
  /\ stored \in {NoObject, Copy(0, 0)}
  /\ actor = [a \in Actors |-> Parked]
  /\ flight = [l \in Lines |-> NoOne]
  /\ told = NoAnswer
  /\ closing = "open"

-----------------------------------------------------------------------------
(* The decision.                                                           *)

\* Object.Fresh, StaleForSWR.
IsFresh(o) == o.age < Ttl
InSwr(o) == ~IsFresh(o) /\ o.age < Ttl + Swr

\* revalidateOrMiss: validators make a conditional request possible.
RevalidateOrMiss(o) == IF o.tag # NoTag THEN "revalidate" ELSE "miss"

\* evalStale: the window of stale-while-revalidate, else the origin is asked.
StaleDecision(o) == IF InSwr(o) THEN "stale" ELSE RevalidateOrMiss(o)

\* evaluate, for a request without directives of its own.
Decision(o) ==
  IF ~o.held THEN "miss"
  ELSE IF route.class = "nocache" THEN RevalidateOrMiss(o)
  ELSE IF IsFresh(o) THEN "hit"
  ELSE IF route.class = "must" THEN RevalidateOrMiss(o)
  ELSE StaleDecision(o)

\* Mutant: the directives of the stored response are not asked.
AlwaysFallback == TRUE

\* staleFallbackAllowed, and stayin_alive which overrides it.
FallbackAllowed == route.stayin \/ route.class \in {"plain", "bare"}

-----------------------------------------------------------------------------
(* The origin and the store.                                               *)

\* setConditionalHeaders: a revalidation and a background fetch send the
\* tag of the object they hold.
Condition(a) ==
  IF actor[a].role \in {"revalidate", "background"} THEN actor[a].seen.tag ELSE NoTag

\* The answers the origin may give to a's request.
Answers(a) ==
  LET state == {NoOne} \union {b \in {a} : route.cookies}
  IN (IF Condition(a) = origin
      THEN {[kind |-> "304", ver |-> origin, body |-> Empty, mint |-> NoOne]}
      ELSE {[kind |-> "200", ver |-> origin,
             body |-> IF actor[a].head THEN Empty ELSE origin, mint |-> m] : m \in state})
     \union (IF route.faults
             THEN {[kind |-> k, ver |-> origin, body |-> Empty, mint |-> NoOne]
                     : k \in {"5xx", "error"}}
             ELSE {})

\* refreshFrom304: the body stays, the tag is the validating response's, and
\* the freshness lifetime starts again.
Refreshed(o, r) == [o EXCEPT !.age = 0, !.tag = IF Validates THEN r.ver ELSE @]

\* buildObject.
Built(r) == [body |-> r.body, tag |-> IF Validates THEN r.ver ELSE NoTag,
             age |-> 0, held |-> TRUE]

Tell(c, kind, mint) == told' = [to |-> c, kind |-> kind, mint |-> mint]
Silent == told' = NoAnswer

Goes(a, f) == actor' = [actor EXCEPT ![a] = f]
Finish(a) == actor' = [actor EXCEPT ![a] = Parked]

-----------------------------------------------------------------------------
(* A client's request.                                                     *)

\* The age of the object at the lookup is of no use after the decision.
Held(o) == [body |-> o.body, tag |-> o.tag, age |-> 0, held |-> o.held]
Working(role, head, o) ==
  [pc |-> "fly", role |-> role, head |-> head, seen |-> Held(o), res |-> NoResult]

\* handleCacheMiss, once no peer had the object: with an object to fall back
\* on, a shared fetch (fetchAndStoreStayinAlive, collapsedFetch); otherwise a
\* fill (fetchAndStore), which has flights of its own.
AfterMiss(head, o) ==
  IF o.held /\ FallbackAllowed
  THEN Working("fallback", head, o)
  ELSE [Working("fill", head, o) EXCEPT !.pc = "own"]

\* ServeRequest on a node that may answer for the key: lookup, evaluate.
ServeRequest(c, head) ==
  LET o == IF route.remote THEN Leftover ELSE stored
      d == Decision(o)
  IN /\ actor[c].pc = "idle"
     /\ closing = "open"
     /\ head => route.heads
     /\ CASE d = "hit" -> Tell(c, "200", NoOne) /\ UNCHANGED actor
          [] d = "stale" -> /\ Tell(c, "stale", NoOne)
                            /\ Goes(c, IF route.remote THEN Parked
                                        ELSE [Parked EXCEPT !.pc = "spawn", !.seen = Held(o)])
          [] d = "revalidate" /\ ~route.remote ->
               Goes(c, Working("revalidate", head, o)) /\ Silent
          [] d = "miss" /\ ~route.remote -> Goes(c, AfterMiss(head, o)) /\ Silent
          [] OTHER -> Goes(c, [Working("none", head, o) EXCEPT !.pc = "ask"]) /\ Silent
     /\ UNCHANGED <<route, origin, stored, flight, closing>>

\* servePeerHit: the owner's copy is served while it is fresh or in its
\* window, and a stale one is refreshed from here, since the owner does not
\* learn that it was served (issue #857).
ServePeerHit(c) ==
  LET d == Decision(stored) IN
  /\ d \in {"hit", "stale"}
  /\ Tell(c, IF d = "hit" THEN "200" ELSE "stale", NoOne)
  /\ Goes(c, IF d = "stale" THEN [Parked EXCEPT !.pc = "spawn", !.seen = Held(stored)]
              ELSE Parked)

\* handleCacheMiss on a node that does not own the key: the owner is asked;
\* without an answer that can be served the request goes to the origin.
AskOwner(c) ==
  /\ actor[c].pc = "ask"
  /\ \/ ServePeerHit(c)
     \/ /\ Decision(stored) \notin {"hit", "stale"} \/ route.faults
        /\ Goes(c, AfterMiss(actor[c].head, actor[c].seen))
        /\ Silent
  /\ UNCHANGED <<route, origin, stored, flight, closing>>

\* triggerBgRevalidate: not while the handler closes, not past revalSem; the
\* goroutine fetches with GET, whatever the client's method (remapHeadToGet).
TriggerBgRevalidate(c) ==
  /\ actor[c].pc = "spawn"
  /\ \/ /\ closing # "open" \/ \A s \in Spawned : actor[s].pc # "idle"
        /\ Finish(c)
     \/ /\ closing = "open"
        /\ \E s \in Spawned :
             /\ actor[s].pc = "idle"
             /\ actor' = [actor EXCEPT ![c] = Parked,
                            ![s] = Working("background", FALSE, actor[c].seen)]
  /\ UNCHANGED <<route, origin, stored, flight, closing>> /\ Silent

-----------------------------------------------------------------------------
(* The shared fetch.                                                       *)

\* The line an actor's fetch is collapsed on (collapsedFetch,
\* collapsedFetchBg, collapsedRevalidateBg).
Line(a) ==
  IF actor[a].head THEN "head"
  ELSE IF actor[a].role = "revalidate" THEN "reval" ELSE "zero"

\* flight.Do: the first caller leads, those that come before it is done wait.
JoinFlight(a) ==
  /\ actor[a].pc = "fly"
  /\ IF flight[Line(a)] = NoOne
     THEN /\ flight' = [flight EXCEPT ![Line(a)] = a]
          /\ actor' = [actor EXCEPT ![a].pc = "lead"]
     ELSE /\ actor' = [actor EXCEPT ![a].pc = "wait"]
          /\ UNCHANGED flight
  /\ UNCHANGED <<route, origin, stored, closing>> /\ Silent

Waiting(l) == {a \in Actors : actor[a].pc = "wait" /\ Line(a) = l}

\* A shared response with client state is fetched again by every client that
\* shares it (collapsedFetch, collapsedRevalidateBg); a background fetch
\* serves nobody and keeps it (collapsedFetchBg).
MustRefetch(a, r, shared) == shared /\ r.mint # NoOne /\ actor[a].role # "background"

\* The group forgets the call when its function returns.
FreeLine(l) == [flight EXCEPT ![l] = NoOne]

\* The leader's fetch ends: the line is free, and everyone on it has the
\* result.
OriginAnswersFlight(a) ==
  /\ actor[a].pc = "lead"
  /\ \E r \in Answers(a) :
       LET crew == Waiting(Line(a)) \union {a}
           shared == Cardinality(crew) > 1
       IN actor' = [b \in Actors |->
            IF b \notin crew THEN actor[b]
            ELSE IF MustRefetch(b, r, shared) THEN [actor[b] EXCEPT !.pc = "own"]
            ELSE [actor[b] EXCEPT !.pc = "apply", !.res = r]]
  /\ flight' = FreeLine(Line(a))
  /\ UNCHANGED <<route, origin, stored, closing>> /\ Silent

\* A fetch nobody shares: a fill, or the second fetch after MustRefetch.
OriginAnswersOne(a) ==
  /\ actor[a].pc = "own"
  /\ \E r \in Answers(a) :
       actor' = [actor EXCEPT ![a].pc = "apply", ![a].res = r]
  /\ UNCHANGED <<route, origin, stored, flight, closing>> /\ Silent

-----------------------------------------------------------------------------
(* What the result does.                                                   *)

Failed(r) == r.kind \in {"5xx", "error"}

\* headFreshenAllowed: the validators of the response are the stored ones.
HeadFreshenAllowed(o, r) == r.body = Empty /\ (Validates => r.ver = o.tag)

\* writeAndMaybeStore: the response goes to the client as it is; a response to
\* a HEAD, a 304 and an error are not stored.
WriteAndMaybeStore(a, r) ==
  /\ Tell(a, r.kind, r.mint)
  /\ stored' = IF r.kind = "200" /\ ~actor[a].head THEN Built(r) ELSE stored

\* freshenFromHead when it applies, else the write-through.
FreshenOrWrite(a, r) ==
  IF actor[a].head /\ r.kind = "200" /\ HeadFreshenAllowed(actor[a].seen, r)
  THEN /\ stored' = IF route.remote THEN stored ELSE Refreshed(actor[a].seen, r)
       /\ Tell(a, "200", NoOne)
  ELSE WriteAndMaybeStore(a, r)

ServeStale(a) == Tell(a, "stale", NoOne) /\ UNCHANGED stored

\* revalidate, after collapsedRevalidateBg.
RevalidateResult(a) ==
  LET r == actor[a].res IN
  /\ actor[a].role = "revalidate"
  /\ CASE Failed(r) /\ FallbackAllowed -> ServeStale(a)
       [] Failed(r) /\ ~FallbackAllowed -> Tell(a, r.kind, NoOne) /\ UNCHANGED stored
       [] r.kind = "304" -> /\ stored' = Refreshed(actor[a].seen, r)
                            /\ Tell(a, "200", NoOne)
       [] OTHER -> FreshenOrWrite(a, r)

\* fetchAndStoreStayinAlive, after collapsedFetch.
FallbackResult(a) ==
  LET r == actor[a].res IN
  /\ actor[a].role = "fallback"
  /\ IF Failed(r) THEN ServeStale(a) ELSE FreshenOrWrite(a, r)

\* fetchAndStore.
FillResult(a) ==
  /\ actor[a].role = "fill"
  /\ WriteAndMaybeStore(a, actor[a].res)

\* doBackgroundRevalidate, after collapsedFetchBg: stored, or forwarded to
\* the owner when this node is not it.
BackgroundResult(a) ==
  LET r == actor[a].res IN
  /\ actor[a].role = "background"
  /\ stored' = CASE r.kind = "304" -> Refreshed(actor[a].seen, r)
                 [] r.kind = "200" -> Built(r)
                 [] OTHER -> stored
  /\ Silent

Apply(a) ==
  /\ actor[a].pc = "apply"
  /\ \/ a \in Clients /\ (RevalidateResult(a) \/ FallbackResult(a) \/ FillResult(a))
     \/ BackgroundResult(a)
  /\ Finish(a)
  /\ UNCHANGED <<route, origin, flight, closing>>

-----------------------------------------------------------------------------
(* The environment and the end.                                            *)

Age ==
  /\ stored.held /\ stored.age < Ttl + Swr
  /\ stored' = [stored EXCEPT !.age = @ + 1]
  /\ UNCHANGED <<route, origin, actor, flight, told, closing>>

Evicted ==
  /\ stored.held /\ closing # "closed"
  /\ stored' = NoObject
  /\ UNCHANGED <<route, origin, actor, flight, told, closing>>

OriginChanges ==
  /\ origin < LastVersion
  /\ origin' = origin + 1
  /\ UNCHANGED <<route, stored, actor, flight, told, closing>>

\* The listeners drain before the handlers are closed (registerShutdownSteps).
CloseHandler ==
  /\ closing = "open"
  /\ \A c \in Clients : actor[c].pc = "idle"
  /\ closing' = "draining"
  /\ UNCHANGED <<route, origin, stored, actor, flight>> /\ Silent

\* Handler.Close waits for revalWg, of the handlers the shutdown step closes:
\* those of routes with refresh-before-expiry (registerShutdownSteps).
NoneSpawned == route.refresh => \A s \in Spawned : actor[s].pc = "idle"

\* The step after it closes the store.
CloseStore ==
  /\ closing = "draining"
  /\ NoneSpawned
  /\ closing' = "closed"
  /\ UNCHANGED <<route, origin, stored, actor, flight>> /\ Silent

Move(a) == JoinFlight(a) \/ OriginAnswersFlight(a) \/ OriginAnswersOne(a) \/ Apply(a)

StaleNext ==
  \/ \E c \in Clients, head \in BOOLEAN : ServeRequest(c, head)
  \/ \E c \in Clients : AskOwner(c) \/ TriggerBgRevalidate(c)
  \/ \E a \in Actors : Move(a)
  \/ Age \/ Evicted \/ OriginChanges
  \/ CloseHandler \/ CloseStore

\* Goroutines are scheduled and an origin fetch ends, if only by its timeout.
StaleFairness ==
  /\ \A a \in Actors : WF_staleVars(Move(a))
  /\ \A c \in Clients : WF_staleVars(AskOwner(c) \/ TriggerBgRevalidate(c))
  /\ WF_staleVars(CloseStore)

StaleSpec == StaleInit /\ [][StaleNext]_staleVars /\ StaleFairness

-----------------------------------------------------------------------------
(* Properties.                                                             *)

\* A stored body is never replaced by the empty body of a response to a HEAD,
\* whoever shares a fetch with whom (headRevalKeySuffix, issue #752).
NoEmptyBody == stored.held => stored.body # Empty

\* Client state minted for one request is never part of the answer to
\* another, though the fetch was shared (ADR-0067 in collapsedFetch and
\* collapsedRevalidateBg).
StateIsPrivate == told.mint \in {told.to, NoOne}

\* A client whose request had a stored response to fall back on is never told
\* of the origin's failure, though the fetch that failed was another's
\* (fetchAndStoreStayinAlive, revalidate).
FallbackShields ==
  [][\A c \in Clients :
       (/\ actor[c].pc = "apply" /\ actor'[c].pc = "idle"
        /\ actor[c].role \in {"revalidate", "fallback"} /\ FallbackAllowed)
       => ~Failed(told')]_staleVars

\* What a must-revalidate or no-cache response promises: without stayin_alive
\* a stale copy of it is never served (evaluate, staleFallbackAllowed).
NeverStaleUnasked ==
  (route.class \in {"must", "nocache"} /\ ~route.stayin)
    => told.kind # "stale"

\* A shared revalidation answers each request with what is that request's: no
\* empty body is kept, no client's state reaches another, and no stale copy
\* is served that the response forbids.
SharedAnswersAreRight == NoEmptyBody /\ StateIsPrivate /\ NeverStaleUnasked

\* Nothing is written to the store once it is closed ("Called during engine
\* shutdown before store.Close() to prevent use-after-close panics",
\* Handler.Close; "tracked by revalWg so Close can drain it before
\* store.Close", triggerBgRevalidate).
NothingAfterClose == [][closing = "closed" => stored'.body = stored.body]_staleVars

\* Every request is answered: nobody waits for ever on a flight.
Answered(c) == actor[c].pc = "idle"
RequestsAnswered == \A c \in Clients : []<>Answered(c)

\* A background revalidation gives its slot of revalSem back, so that Close
\* returns.
HandlerNotClosing == closing # "draining"
CloseReturns == []<>HandlerNotClosing

\* A 304 is only applied by the caller whose own condition it answers
\* ("letting a plain miss join a conditional one would hand the follower a 304
\* with no stored response in scope", revalidateResolverMiss): who refreshes
\* an object from a 304 holds the version the origin confirmed, and who sent
\* no condition gets no 304.  It does not hold: a follower of a shared flight
\* may hold another version than its leader sent.
ConfirmsWhatIsHeld ==
  \A a \in Actors :
    (actor[a].pc = "apply" /\ actor[a].res.kind = "304")
      => Condition(a) = actor[a].res.ver
=============================================================================
