----------------------------- MODULE FillFlight -----------------------------
(***************************************************************************)
(* The miss pipeline of one cache handler and one primary cache key:       *)
(* concurrent requests miss, park on the in-flight table, one of them      *)
(* leads an origin fetch, the others are served the leader's buffered      *)
(* bytes (byte-handoff flights), re-enter the pipeline once the fill has   *)
(* settled in the store (fill flights), or fetch their own copy.           *)
(*                                                                         *)
(* Sources: internal/cache/{handler,stream,collapse,inflight,unstorable}.go*)
(*                                                                         *)
(* A request runs streamMiss at most once, so the inflightStream it makes  *)
(* is named by the request: done[r], stored[r] and res[r] are the fields   *)
(* of the stream that r would lead or keep to itself.  A node that is not  *)
(* in a cluster is modelled (ownerFn is nil).                              *)
(***************************************************************************)
EXTENDS Naturals, FiniteSets

CONSTANTS
  Reqs,            \* client requests, each one goroutine
  Variants,        \* variant keys: what the selecting headers can hash to
  Primary,         \* the primary key
  NoReq, NoObj, NoResp, NoFlight,
  Method,          \* Reqs -> {"GET", "HEAD"}
  Variant,         \* Reqs -> Variants, the variant key r's headers select
  Personal,        \* Reqs -> BOOLEAN, r carries Authorization or Cookie
  Declared,        \* the route declares include_headers
  AllowSetCookie,  \* cache.allow_set_cookie
  BufferCapped,    \* max_streaming_buffer_bytes is set, so it can be hit
  VariantCapped,   \* reserveVariantSlot may refuse (see VariantRegistry)
  Classes,         \* the kinds of response the origin gives
  OriginVary,      \* subset of BOOLEAN: may the response carry Vary?
  StreamModes,     \* subset of BOOLEAN: does the client stream bodies?
  FetchSlots,      \* max_fetch_concurrency
  RewarmSlots,     \* defaultRewarmConcurrency
  MaxChurn         \* bound: evictions and expiries of stored objects

Keys == {Primary} \union Variants
FlightKeys == ({"GET", "HEAD"} \X Keys) \union {<<"fill", Primary>>}
AllClasses == {"ok", "nostore", "state", "sse", "error"}
Responses == [class : Classes, vary : OriginVary, streamed : StreamModes]
Objects == [kind : {"plain", "variant", "resolver"}, by : Reqs, label : Reqs,
            whole : BOOLEAN, vary : BOOLEAN, fresh : BOOLEAN]
Verdicts == {"none", "bytes", "shed", "fail", "unshareable"}
Answers == [from : {"none", "store", "own", "handoff", "502", "503"},
            by : Reqs \union {NoReq}, whole : BOOLEAN, vary : BOOLEAN]
Steps == {"start", "park", "joined", "wait", "fetch", "queue", "origin",
          "buffer", "tee", "copy", "store", "resolver", "done"}
RefillSteps == {"none", "run", "lead", "join", "put"}
Refills == [step : RefillSteps, key : Keys, of : Reqs,
            resp : Responses \union {NoResp}]

ASSUME ConstantsAssumption ==
  /\ NoReq \notin Reqs /\ NoFlight \notin FlightKeys \union Keys
  /\ NoObj \notin Objects /\ NoResp \notin Responses
  /\ Primary \notin Variants
  /\ Method \in [Reqs -> {"GET", "HEAD"}]
  /\ Variant \in [Reqs -> Variants]
  /\ Personal \in [Reqs -> BOOLEAN]
  /\ {Declared, AllowSetCookie, BufferCapped, VariantCapped} \subseteq BOOLEAN
  /\ Classes \subseteq AllClasses
  /\ OriginVary \subseteq BOOLEAN /\ StreamModes \subseteq BOOLEAN

ASSUME BoundsAssumption ==
  /\ IsFiniteSet(Reqs)
  /\ FetchSlots \in Nat \ {0} /\ RewarmSlots \in Nat /\ MaxChurn \in Nat

VARIABLES
  pc,         \* where the request is
  reentry,    \* fillReentryUserKey is set on the request
  lookupKey,  \* the key lookup returned
  flight,     \* the flight key fetchFlightKey returned
  lead,       \* whose stream r leads (r itself) or waits on
  table,      \* inflightStreams
  followers,  \* inflightStream.followers
  done,       \* inflightStream.done is closed
  stored,     \* inflightStream.stored is closed
  res,        \* inflightStream.res
  cloned,     \* the published header map is not the one buildObject mutates
  resp,       \* the origin's response
  whole,      \* the body read is the origin's whole body
  teed,       \* the body goes through teeStreamToClient
  leaving,    \* r's handler has returned, its deferred table delete is due
  slots,      \* holders of the fetch semaphore
  memo,       \* unstorableMemo holds the key
  store,      \* the object store
  answer,     \* what the client of r gets
  refill,     \* the shed refill r started
  churn       \* evictions and expiries so far

reqVars == <<pc, reentry, lookupKey, flight, lead, answer>>
streamVars == <<followers, done, stored, res, cloned, resp, whole, teed, leaving>>
vars == <<reqVars, streamVars, table, slots, memo, store, refill, churn>>

NoAnswer == [from |-> "none", by |-> NoReq, whole |-> FALSE, vary |-> FALSE]
NoRefill(r) == [step |-> "none", key |-> Primary, of |-> r, resp |-> NoResp]

Init ==
  /\ pc = [r \in Reqs |-> "start"]
  /\ reentry = [r \in Reqs |-> FALSE]
  /\ lookupKey = [r \in Reqs |-> Primary]
  /\ flight = [r \in Reqs |-> NoFlight]
  /\ lead = [r \in Reqs |-> NoReq]
  /\ table = [k \in FlightKeys |-> NoReq]
  /\ followers = [r \in Reqs |-> 0]
  /\ done = [r \in Reqs |-> FALSE]
  /\ stored = [r \in Reqs |-> FALSE]
  /\ res = [r \in Reqs |-> "none"]
  /\ cloned = [r \in Reqs |-> FALSE]
  /\ resp = [r \in Reqs |-> NoResp]
  /\ whole = [r \in Reqs |-> FALSE]
  /\ teed = [r \in Reqs |-> FALSE]
  /\ leaving = [r \in Reqs |-> FALSE]
  /\ slots = {}
  /\ memo = FALSE
  /\ store = [k \in Keys |-> NoObj]
  /\ answer = [r \in Reqs |-> NoAnswer]
  /\ refill = [r \in Reqs |-> NoRefill(r)]
  /\ churn = 0
-----------------------------------------------------------------------------
(* Lookup and the choice of a flight key.                                  *)

\* lookup: the primary entry; when it carries Vary, the variant it selects.
Lookup(r) ==
  LET p == store[Primary]
  IN IF p = NoObj \/ p.kind = "plain"
     THEN [key |-> Primary, obj |-> p]
     ELSE [key |-> Variant[r], obj |-> store[Variant[r]]]

CollapseDenied(r) == Personal[r]

\* Warm and variant misses share under the lookup key, cold ones under the
\* declared dimensions, and not at all when the route declares none.
CollapseFlightKey(r, l) ==
  IF l.obj # NoObj \/ l.key # Primary THEN l.key
  ELSE IF Declared THEN Variant[r] ELSE NoFlight

FetchFlightKey(r, l) ==
  IF CollapseDenied(r) THEN NoFlight
  ELSE IF CollapseFlightKey(r, l) # NoFlight
       THEN <<Method[r], CollapseFlightKey(r, l)>>
       ELSE <<"fill", Primary>>

IsFill(f) == f = <<"fill", Primary>>

Answer(r, from, by, w, v) ==
  answer' = [answer EXCEPT ![r] = [from |-> from, by |-> by, whole |-> w, vary |-> v]]

\* evaluate: a fresh stored object is a hit.
Servable(o) == o # NoObj /\ o.fresh

\* A stored object is served, or the miss goes on with what lookup saw.  A
\* stale object without validators that forbids serving stale is a miss too.
ServeRequest(r) ==
  LET l == Lookup(r)
  IN /\ pc[r] = "start"
     /\ \/ /\ Servable(l.obj)
           /\ Answer(r, "store", l.obj.by, l.obj.whole, l.obj.vary)
           /\ pc' = [pc EXCEPT ![r] = "done"]
           /\ UNCHANGED <<lookupKey, flight>>
        \/ /\ ~Servable(l.obj)
           /\ lookupKey' = [lookupKey EXCEPT ![r] = l.key]
           /\ flight' = [flight EXCEPT ![r] = FetchFlightKey(r, l)]
           /\ pc' = [pc EXCEPT ![r] = "park"]
           /\ UNCHANGED answer
     /\ UNCHANGED <<reentry, lead, streamVars, table, slots, memo, store, refill, churn>>
-----------------------------------------------------------------------------
(* Parking: fetchAndStore and the in-flight table.                         *)

\* A re-entered follower, a request that shares with nobody, and a key whose
\* last fill was refused by the origin's own directives fetch alone.
MustFetchAlone(r) ==
  \/ reentry[r]
  \/ flight[r] = NoFlight
  \/ IsFill(flight[r]) /\ memo

FetchAlone(r) ==
  /\ pc[r] = "park"
  /\ MustFetchAlone(r)
  /\ pc' = [pc EXCEPT ![r] = "fetch"]
  /\ UNCHANGED <<reentry, lookupKey, flight, lead, answer, streamVars, table,
                 slots, memo, store, refill, churn>>

\* Mutant: the stream is stored over the one in flight.
LeadRegardless(r) ==
  /\ pc[r] = "park" /\ ~MustFetchAlone(r)
  /\ table' = [table EXCEPT ![flight[r]] = r]
  /\ lead' = [lead EXCEPT ![r] = r]
  /\ pc' = [pc EXCEPT ![r] = "fetch"]
  /\ UNCHANGED <<reentry, lookupKey, flight, answer, streamVars, slots, memo,
                 store, refill, churn>>

\* inflightStreams.loadOrStore finds no entry: r leads.
BecomeLeader(r) ==
  /\ pc[r] = "park"
  /\ ~MustFetchAlone(r)
  /\ table[flight[r]] = NoReq
  /\ table' = [table EXCEPT ![flight[r]] = r]
  /\ lead' = [lead EXCEPT ![r] = r]
  /\ pc' = [pc EXCEPT ![r] = "fetch"]
  /\ UNCHANGED <<reentry, lookupKey, flight, answer, streamVars, slots, memo,
                 store, refill, churn>>

\* loadOrStore finds an entry: r holds a pointer to the leader's stream.
JoinFlight(r) ==
  /\ pc[r] = "park"
  /\ ~MustFetchAlone(r)
  /\ table[flight[r]] # NoReq
  /\ lead' = [lead EXCEPT ![r] = table[flight[r]]]
  /\ pc' = [pc EXCEPT ![r] = "joined"]
  /\ UNCHANGED <<reentry, lookupKey, flight, answer, streamVars, table, slots,
                 memo, store, refill, churn>>

\* followers.Add(1), after the shard lock is gone.
CountFollower(r) ==
  /\ pc[r] = "joined"
  /\ followers' = [followers EXCEPT ![lead[r]] = @ + 1]
  /\ pc' = [pc EXCEPT ![r] = "wait"]
  /\ UNCHANGED <<reentry, lookupKey, flight, lead, answer, done, stored, res,
                 cloned, resp, whole, teed, leaving, table, slots, memo,
                 store, refill, churn>>

\* The deferred inflightStreams.delete(sfKey): whatever entry the key has.
LeaveTable(r) ==
  /\ leaving[r]
  /\ leaving' = [leaving EXCEPT ![r] = FALSE]
  /\ table' = [table EXCEPT ![flight[r]] = NoReq]
  /\ UNCHANGED <<reqVars, followers, done, stored, res, cloned, resp, whole,
                 teed, slots, memo, store, refill, churn>>
-----------------------------------------------------------------------------
(* Shed refills: a background fetch that re-warms the store, bounded by    *)
(* rewarmSem and collapsed per key by the singleflight group.              *)

Running == {q \in Reqs : refill[q].step # "none"}

TriggerShedRefill(r, k) ==
  refill' = IF Cardinality(Running) < RewarmSlots
            THEN [refill EXCEPT ![r] = [NoRefill(r) EXCEPT !.step = "run", !.key = k]]
            ELSE refill

\* singleflight.Do: the first caller for a key fetches, later ones join it.
RefillDo(r) ==
  /\ refill[r].step = "run"
  /\ \/ /\ CollapseDenied(r)
        /\ refill' = [refill EXCEPT ![r] = [@ EXCEPT !.step = "lead"]]
     \/ /\ ~CollapseDenied(r)
        /\ ~\E q \in Reqs : ~CollapseDenied(q) /\ refill[q].step = "lead"
                              /\ refill[q].key = refill[r].key
        /\ refill' = [refill EXCEPT ![r] = [@ EXCEPT !.step = "lead"]]
     \/ \E q \in Reqs :
          /\ ~CollapseDenied(r) /\ ~CollapseDenied(q)
          /\ refill[q].step = "lead" /\ refill[q].key = refill[r].key
          /\ refill' = [refill EXCEPT ![r] = [@ EXCEPT !.step = "join", !.of = q]]
  /\ UNCHANGED <<reqVars, streamVars, table, slots, memo, store, churn>>

\* Mutant: an error ends the fetching caller's refill only.
RefillErrorUnshared(r) ==
  /\ refill[r].step = "lead"
  /\ refill' = [refill EXCEPT ![r] = NoRefill(r)]
  /\ UNCHANGED <<reqVars, streamVars, table, slots, memo, store, churn>>

\* doRefillFetch ends: an error ends every caller's refill, a response is
\* handed to all of them.
RefillFetched(r) ==
  /\ refill[r].step = "lead"
  /\ LET callers == {q \in Reqs : q = r \/ (refill[q].step = "join" /\ refill[q].of = r)}
     IN \E p \in Responses \union {NoResp} :
          refill' = [q \in Reqs |->
                       IF q \notin callers THEN refill[q]
                       ELSE IF p = NoResp THEN NoRefill(q)
                       ELSE [refill[q] EXCEPT !.step = "put", !.resp = p]]
  /\ UNCHANGED <<reqVars, streamVars, table, slots, memo, store, churn>>
-----------------------------------------------------------------------------
(* What a response allows.                                                 *)

\* isResponseCacheable: freshness, no refusing directive, and the
\* client-state gate.
Cacheable(p) == p.class = "ok" \/ (p.class = "state" /\ AllowSetCookie)

\* Mutant: Vary is ignored.
NoVary(p) == FALSE

\* effectiveVary: the response's Vary united with include_headers.
EffectiveVary(p) == p.vary \/ Declared

\* refusesSharedStorage: no-store or private.
RefusesSharedStorage(p) == p.class = "nostore"

Storable(r) == Cacheable(resp[r]) /\ Method[r] = "GET"

Object(kind, by, label, w, v) ==
  [kind |-> kind, by |-> by, label |-> label, whole |-> w, vary |-> v, fresh |-> TRUE]

\* doShedRefill stores under the key it was triggered with, the body of
\* whoever fetched labelled with the vary key of this caller's headers.
RefillPut(r) ==
  /\ refill[r].step = "put"
  /\ LET p == refill[r].resp
         obj == Object(IF EffectiveVary(p) THEN "variant" ELSE "plain",
                       refill[r].of, r, TRUE, p.vary)
     IN store' = IF Cacheable(p) THEN [store EXCEPT ![refill[r].key] = obj] ELSE store
  /\ refill' = [refill EXCEPT ![r] = NoRefill(r)]
  /\ UNCHANGED <<reqVars, streamVars, table, slots, memo, churn>>
-----------------------------------------------------------------------------
(* The origin fetch of streamMiss, on a stream that is published when r    *)
(* leads and private otherwise.                                            *)

\* The handler returns; a leader's deferred delete is due from then on.
Return(r) == leaving' = [leaving EXCEPT ![r] = lead[r] = r]

\* publishInflightErr and publishStreamUnshareable: verdict, both channels.
PublishVerdict(r, v) ==
  /\ res' = [res EXCEPT ![r] = v]
  /\ done' = [done EXCEPT ![r] = TRUE]
  /\ stored' = [stored EXCEPT ![r] = TRUE]

\* Mutant: stored is closed with done, before the store attempt.
SettleAtVerdict(r) == PublishVerdict(r, "bytes")

\* publishFillVerdict: client state is never handed on; stored stays open
\* until the store attempt is over.
PublishFillVerdict(r) ==
  /\ res' = [res EXCEPT ![r] = IF resp[r].class = "state" THEN "unshareable" ELSE "bytes"]
  /\ done' = [done EXCEPT ![r] = TRUE]
  /\ UNCHANGED stored

AcquireFetchSlot(r) ==
  /\ pc[r] \in {"fetch", "queue"}
  /\ Cardinality(slots) < FetchSlots
  /\ slots' = slots \union {r}
  /\ pc' = [pc EXCEPT ![r] = "origin"]
  /\ UNCHANGED <<reentry, lookupKey, flight, lead, answer, streamVars, table,
                 memo, store, refill, churn>>

\* The semaphore is momentarily full, with these fetches or with those of
\* the route's other keys.
QueueForSlot(r) ==
  /\ pc[r] = "fetch"
  /\ pc' = [pc EXCEPT ![r] = "queue"]
  /\ UNCHANGED <<reentry, lookupKey, flight, lead, answer, streamVars, table,
                 slots, memo, store, refill, churn>>

\* Mutant: the timer starts the wait again.
WaitAgain(r) ==
  /\ pc[r] = "queue"
  /\ pc' = [pc EXCEPT ![r] = "fetch"]
  /\ UNCHANGED <<reentry, lookupKey, flight, lead, answer, streamVars, table,
                 slots, memo, store, refill, churn>>

\* The fetch_wait_timeout timer fires first: 503 and a background refill.
ShedFetch(r) ==
  /\ pc[r] = "queue"
  /\ PublishVerdict(r, "shed")
  /\ Answer(r, "503", NoReq, FALSE, FALSE)
  /\ TriggerShedRefill(r, Primary)
  /\ Return(r)
  /\ pc' = [pc EXCEPT ![r] = "done"]
  /\ UNCHANGED <<reentry, lookupKey, flight, lead, followers, cloned, resp,
                 whole, teed, table, slots, memo, store, churn>>

\* Mutant: the error path returns without a verdict.
FailSilently(r) ==
  /\ pc[r] = "origin"
  /\ slots' = slots \ {r}
  /\ Answer(r, "502", NoReq, FALSE, FALSE)
  /\ Return(r)
  /\ pc' = [pc EXCEPT ![r] = "done"]
  /\ UNCHANGED <<reentry, lookupKey, flight, lead, followers, done, stored, res,
                 cloned, resp, whole, teed, table, memo, store, refill, churn>>

\* Transport error, deadline, or a Content-Length over max_response_bytes.
OriginFails(r) ==
  /\ pc[r] = "origin"
  /\ slots' = slots \ {r}
  /\ PublishVerdict(r, "fail")
  /\ Answer(r, "502", NoReq, FALSE, FALSE)
  /\ Return(r)
  /\ pc' = [pc EXCEPT ![r] = "done"]
  /\ UNCHANGED <<reentry, lookupKey, flight, lead, followers, cloned, resp,
                 whole, teed, table, memo, store, refill, churn>>

\* Mutant: a stream that is not buffered is published as a result.
PublishUnbuffered(r, p) ==
  /\ PublishVerdict(r, "bytes")
  /\ Answer(r, "own", r, TRUE, p.vary)
  /\ Return(r)
  /\ pc' = [pc EXCEPT ![r] = "copy"]
  /\ UNCHANGED <<cloned, teed>>

\* streamMissNoCache: followers are released, the body streams unbuffered
\* from the body writer after the handler has returned.
StreamNoCache(r, p) ==
  /\ PublishVerdict(r, "unshareable")
  /\ Answer(r, "own", r, TRUE, p.vary)
  /\ Return(r)
  /\ pc' = [pc EXCEPT ![r] = "copy"]
  /\ UNCHANGED <<cloned, teed>>

IsLiveStream(r, p) == p.streamed /\ Method[r] = "GET" /\ p.class = "sse"

\* streamMiss reads a body whole first when it has no stream, when nothing
\* will be stored, or when the streaming buffers have hit their cap.
ReadsWholeBody(r, p) == ~p.streamed \/ Method[r] = "HEAD" \/ ~Cacheable(p)

OriginHeaders(r) ==
  /\ pc[r] = "origin"
  /\ \E p \in Responses :
       /\ resp' = [resp EXCEPT ![r] = p]
       /\ \/ IsLiveStream(r, p) /\ StreamNoCache(r, p)
          \/ /\ ~IsLiveStream(r, p)
             /\ ReadsWholeBody(r, p) \/ BufferCapped
             /\ pc' = [pc EXCEPT ![r] = "buffer"]
             /\ UNCHANGED <<answer, done, stored, res, cloned, teed, leaving>>
          \/ /\ ~IsLiveStream(r, p) /\ ~ReadsWholeBody(r, p)
             /\ VariantCapped /\ EffectiveVary(p)
             /\ StreamNoCache(r, p)
          \/ /\ ~IsLiveStream(r, p) /\ ~ReadsWholeBody(r, p)
             /\ Answer(r, "own", r, TRUE, p.vary)
             /\ teed' = [teed EXCEPT ![r] = TRUE]
             /\ Return(r)
             /\ pc' = [pc EXCEPT ![r] = "tee"]
             /\ UNCHANGED <<done, stored, res, cloned>>
  /\ UNCHANGED <<reentry, lookupKey, flight, lead, followers, whole, table,
                 slots, memo, store, refill, churn>>

CopyBody(r) ==
  /\ pc[r] = "copy"
  /\ slots' = slots \ {r}
  /\ pc' = [pc EXCEPT ![r] = "done"]
  /\ UNCHANGED <<reentry, lookupKey, flight, lead, answer, streamVars, table,
                 memo, store, refill, churn>>

\* streamMissBuffered up to the release: the body turns out too large, or it
\* is read and published.  Reading a streamed body cannot report an error:
\* a body the origin broke off passes for whole.  The header map is detached
\* only when the leader has seen a follower; a response that is not
\* cacheable has a map of its own.
ReadBody(r) ==
  /\ pc[r] = "buffer"
  /\ slots' = slots \ {r}
  /\ \/ /\ PublishVerdict(r, "fail")
        /\ Answer(r, "502", NoReq, FALSE, FALSE)
        /\ Return(r)
        /\ pc' = [pc EXCEPT ![r] = "done"]
        /\ UNCHANGED <<whole, cloned, memo>>
     \/ \E w \in BOOLEAN :
          /\ w \/ resp[r].streamed
          /\ whole' = [whole EXCEPT ![r] = w]
          /\ PublishFillVerdict(r)
          /\ cloned' = [cloned EXCEPT ![r] = ~Cacheable(resp[r]) \/ followers[r] > 0]
          /\ memo' = (memo \/ (Method[r] = "GET" /\ ~CollapseDenied(r)
                                 /\ RefusesSharedStorage(resp[r])))
          /\ Answer(r, "own", r, w, resp[r].vary)
          /\ pc' = [pc EXCEPT ![r] = "store"]
          /\ UNCHANGED leaving
  /\ UNCHANGED <<reentry, lookupKey, flight, lead, followers, resp, teed,
                 table, store, refill, churn>>

\* teeStreamToClient and settleTeeFill's verdict: the client or the origin
\* breaks off, or the body ends.  A cap hit on the way stops the buffering,
\* not the body: the copy is then a prefix, and it is published all the same.
TeeBody(r) ==
  /\ pc[r] = "tee"
  /\ slots' = slots \ {r}
  /\ \/ /\ PublishVerdict(r, "unshareable")
        /\ pc' = [pc EXCEPT ![r] = "done"]
        /\ UNCHANGED <<whole, cloned>>
     \/ \E w \in BOOLEAN :
          /\ whole' = [whole EXCEPT ![r] = w]
          /\ PublishFillVerdict(r)
          /\ cloned' = [cloned EXCEPT ![r] = TRUE]
          /\ pc' = [pc EXCEPT ![r] = "store"]
  /\ UNCHANGED <<reentry, lookupKey, flight, lead, answer, followers, resp,
                 teed, leaving, table, memo, store, refill, churn>>
-----------------------------------------------------------------------------
(* The store tail of a fill, after the slot has gone back.                 *)

\* The deferred close(inflight.stored); a buffered fill's handler returns.
Settle(r) ==
  /\ stored' = [stored EXCEPT ![r] = TRUE]
  /\ leaving' = [leaving EXCEPT ![r] = IF teed[r] THEN @ ELSE lead[r] = r]
  /\ pc' = [pc EXCEPT ![r] = "done"]

\* Mutant: cacheExceeded is not looked at.
StorePrefix(r) == Storable(r)

\* Nothing is stored: not storable, a prefix only, over max_object_size, or
\* (buffered path) no variant slot left.
MayStore(r) == Storable(r) /\ (teed[r] => whole[r])

SkipStore(r) ==
  /\ pc[r] = "store"
  /\ Settle(r)
  /\ UNCHANGED <<reentry, lookupKey, flight, lead, answer, followers, done, res,
                 cloned, resp, whole, teed, table, slots, memo, store, refill,
                 churn>>

\* storeStreamedObject: under the primary key, or under the variant key the
\* storing request's own headers select; then the resolver is still to come.
StoreFill(r) ==
  /\ pc[r] = "store"
  /\ MayStore(r)
  /\ \/ /\ ~EffectiveVary(resp[r])
        /\ store' = [store EXCEPT ![Primary] = Object("plain", r, r, whole[r], resp[r].vary)]
        /\ Settle(r)
     \/ /\ EffectiveVary(resp[r])
        /\ store' = [store EXCEPT ![Variant[r]] = Object("variant", r, r, whole[r], resp[r].vary)]
        /\ pc' = [pc EXCEPT ![r] = "resolver"]
        /\ UNCHANGED <<stored, leaving>>
  /\ UNCHANGED <<reentry, lookupKey, flight, lead, answer, followers, done, res,
                 cloned, resp, whole, teed, table, slots, memo, refill, churn>>

\* The metadata-only Vary resolver under the primary key.
StoreResolver(r) ==
  /\ pc[r] = "resolver"
  /\ store' = [store EXCEPT ![Primary] = Object("resolver", r, r, whole[r], resp[r].vary)]
  /\ Settle(r)
  /\ UNCHANGED <<reentry, lookupKey, flight, lead, answer, followers, done, res,
                 cloned, resp, whole, teed, table, slots, memo, refill, churn>>
-----------------------------------------------------------------------------
(* Followers.                                                              *)

\* A byte-handoff follower wakes on done: the leader's bytes, its error, a
\* shed of its own (with a refill of the key it looked up), or the sentinel
\* that sends it to fetch on a private stream.
HandoffFollower(r) ==
  /\ pc[r] = "wait" /\ ~IsFill(flight[r])
  /\ done[lead[r]]
  /\ \/ /\ res[lead[r]] = "bytes"
        /\ Answer(r, "handoff", lead[r], whole[lead[r]], resp[lead[r]].vary)
        /\ pc' = [pc EXCEPT ![r] = "done"]
        /\ UNCHANGED <<lead, refill>>
     \/ /\ res[lead[r]] = "fail"
        /\ Answer(r, "502", NoReq, FALSE, FALSE)
        /\ pc' = [pc EXCEPT ![r] = "done"]
        /\ UNCHANGED <<lead, refill>>
     \/ /\ res[lead[r]] = "shed"
        /\ Answer(r, "503", NoReq, FALSE, FALSE)
        /\ TriggerShedRefill(r, lookupKey[r])
        /\ pc' = [pc EXCEPT ![r] = "done"]
        /\ UNCHANGED lead
     \/ /\ res[lead[r]] = "unshareable"
        /\ lead' = [lead EXCEPT ![r] = NoReq]
        /\ pc' = [pc EXCEPT ![r] = "fetch"]
        /\ UNCHANGED <<answer, refill>>
  /\ UNCHANGED <<reentry, lookupKey, flight, streamVars, table, slots, memo,
                 store, churn>>

\* serveFillFollower wakes on stored and re-enters ServeRequest, whatever
\* the leader's verdict, unless the leader shed.
FillFollower(r) ==
  /\ pc[r] = "wait" /\ IsFill(flight[r])
  /\ stored[lead[r]]
  /\ lead' = [lead EXCEPT ![r] = NoReq]
  /\ \/ /\ res[lead[r]] = "shed"
        /\ Answer(r, "503", NoReq, FALSE, FALSE)
        /\ TriggerShedRefill(r, lookupKey[r])
        /\ pc' = [pc EXCEPT ![r] = "done"]
        /\ UNCHANGED reentry
     \/ /\ res[lead[r]] # "shed"
        /\ reentry' = [reentry EXCEPT ![r] = TRUE]
        /\ pc' = [pc EXCEPT ![r] = "start"]
        /\ UNCHANGED <<answer, refill>>
  /\ UNCHANGED <<lookupKey, flight, streamVars, table, slots, memo, store, churn>>
-----------------------------------------------------------------------------
(* The store and the memo move on by themselves.                           *)

\* An eviction or a purge removes an entry.
Evict(k) ==
  /\ churn < MaxChurn /\ store[k] # NoObj
  /\ store' = [store EXCEPT ![k] = NoObj]
  /\ churn' = churn + 1
  /\ UNCHANGED <<reqVars, streamVars, table, slots, memo, refill>>

\* The entry's freshness lifetime ends.
Expire(k) ==
  /\ churn < MaxChurn /\ store[k] # NoObj
  /\ store[k].fresh
  /\ store' = [store EXCEPT ![k].fresh = FALSE]
  /\ churn' = churn + 1
  /\ UNCHANGED <<reqVars, streamVars, table, slots, memo, refill>>

\* The memo window lapses.
ForgetUnstorable ==
  /\ churn < MaxChurn /\ memo
  /\ memo' = FALSE
  /\ churn' = churn + 1
  /\ UNCHANGED <<reqVars, streamVars, table, slots, store, refill>>

\* One step of the request's own goroutines.
Step(r) ==
  \/ ServeRequest(r) \/ FetchAlone(r) \/ BecomeLeader(r) \/ JoinFlight(r)
  \/ CountFollower(r) \/ HandoffFollower(r) \/ FillFollower(r)
  \/ AcquireFetchSlot(r) \/ QueueForSlot(r) \/ ShedFetch(r)
  \/ OriginFails(r) \/ OriginHeaders(r) \/ ReadBody(r) \/ CopyBody(r)
  \/ TeeBody(r) \/ SkipStore(r) \/ StoreFill(r) \/ StoreResolver(r)

Refill(r) == RefillDo(r) \/ RefillFetched(r) \/ RefillPut(r)

Environment ==
  \/ \E k \in Keys : Evict(k) \/ Expire(k)
  \/ ForgetUnstorable

\* A finished system stutters.
Finished ==
  /\ \A r \in Reqs : pc[r] = "done" /\ ~leaving[r] /\ refill[r].step = "none"
  /\ UNCHANGED vars

Next ==
  \/ \E r \in Reqs : Step(r) \/ LeaveTable(r) \/ Refill(r)
  \/ Environment
  \/ Finished

Spec == Init /\ [][Next]_vars

\* Each goroutine runs on: origin fetches end by fetch_timeout, queue waits
\* by fetch_wait_timeout, body copies by the connection's deadlines.
Fairness == \A r \in Reqs : WF_vars(Step(r)) /\ WF_vars(LeaveTable(r)) /\ WF_vars(Refill(r))

FairSpec == Spec /\ Fairness
-----------------------------------------------------------------------------
(* Properties.                                                             *)

\* Every variable has the shape of the Go state it stands for.
TypeOK ==
  /\ pc \in [Reqs -> Steps]
  /\ reentry \in [Reqs -> BOOLEAN]
  /\ lookupKey \in [Reqs -> Keys]
  /\ flight \in [Reqs -> FlightKeys \union {NoFlight}]
  /\ lead \in [Reqs -> Reqs \union {NoReq}]
  /\ table \in [FlightKeys -> Reqs \union {NoReq}]
  /\ followers \in [Reqs -> Nat]
  /\ done \in [Reqs -> BOOLEAN]
  /\ stored \in [Reqs -> BOOLEAN]
  /\ res \in [Reqs -> Verdicts]
  /\ cloned \in [Reqs -> BOOLEAN]
  /\ resp \in [Reqs -> Responses \union {NoResp}]
  /\ whole \in [Reqs -> BOOLEAN]
  /\ teed \in [Reqs -> BOOLEAN]
  /\ leaving \in [Reqs -> BOOLEAN]
  /\ slots \subseteq Reqs
  /\ memo \in BOOLEAN
  /\ store \in [Keys -> Objects \union {NoObj}]
  /\ answer \in [Reqs -> Answers]
  /\ refill \in [Reqs -> Refills]
  /\ churn \in Nat

BeforeVerdict == {"start", "park", "joined", "wait", "fetch", "queue", "origin",
                  "buffer", "tee"}
BodyStages == {"origin", "buffer", "tee", "copy"}

\* Both settlement channels are closed exactly once, done no later than
\* stored, and stored only when no store write of the fill is left to do:
\* no step of any fill closes a channel that is closed already (a panic in
\* Go) or returns with one open, and a fill follower that wakes on stored
\* re-enters a store the fill has finished with.
SettlementProtocol ==
  \A r \in Reqs :
    /\ pc[r] \in BeforeVerdict => ~done[r] /\ ~stored[r] /\ res[r] = "none"
    /\ pc[r] \in {"store", "resolver"} => done[r] /\ ~stored[r]
    /\ pc[r] = "copy" => done[r] /\ stored[r]
    /\ pc[r] = "done" => (done[r] <=> stored[r])
    /\ done[r] => res[r] # "none"

\* Nobody waits on a stream without a future: a follower's leader leads the
\* very flight the follower parked on and has published or still will.
NoOrphanedFollower ==
  \A r \in Reqs : pc[r] \in {"joined", "wait"} =>
    /\ lead[r] \in Reqs \ {r}
    /\ lead[lead[r]] = lead[r]
    /\ flight[lead[r]] = flight[r]
    /\ pc[lead[r]] = "done" => done[lead[r]] /\ stored[lead[r]]

\* A request whose handler has not returned, or whose deferred delete is
\* still to run.
InTable(r) ==
  lead[r] = r /\ (leaving[r] \/ (pc[r] # "done" /\ pc[r] # "copy" /\ ~teed[r]))

\* The deferred delete, which removes whatever the key holds, removes the
\* leader's own stream and nobody else's: an in-flight entry belongs to the
\* one leader that put it there until that leader's handler has returned.
TableOwner ==
  /\ \A r \in Reqs : InTable(r) => table[flight[r]] = r
  /\ \A f \in FlightKeys : table[f] # NoReq =>
       flight[table[f]] = f /\ InTable(table[f])

\* A fetch slot is held exactly while the origin's response is being
\* received, on every exit path, and never beyond the semaphore's capacity.
SlotAccounting ==
  /\ slots = {r \in Reqs : pc[r] \in BodyStages}
  /\ Cardinality(slots) <= FetchSlots

\* The table of the flights in progress and the semaphore are kept in step
\* with the requests: of their type, owned and accounted for.
FlightsAccounted == TypeOK /\ TableOwner /\ SlotAccounting

\* A refill that joined a singleflight call has a caller that will finish
\* it, nobody waits on themselves, and the allowance bounds the refills.
RefillOwed ==
  /\ \A r \in Reqs : refill[r].step = "join" =>
       refill[r].of # r /\ refill[refill[r].of].step = "lead"
  /\ Cardinality(Running) <= RewarmSlots

\* Bytes change hands only between two anonymous requests of one method, on
\* a flight that is not a fill flight, and carry no client state.
Compatible(r, l) ==
  /\ r # l
  /\ ~Personal[r] /\ ~Personal[l]
  /\ Method[r] = Method[l]
HandoffPermitted ==
  \A r \in Reqs : answer[r].from = "handoff" =>
    /\ answer[r].by \in Reqs
    /\ Compatible(r, answer[r].by)
    /\ ~IsFill(flight[r])
    /\ resp[answer[r].by].class # "state"

\* No client is served a representation that another variant's request
\* fetched, from the store or from a flight, when the response varied.
VariantsKeptApart ==
  \A r \in Reqs :
    answer[r].from \in {"store", "handoff"} /\ answer[r].vary
      => Variant[answer[r].by] = Variant[r]

\* Whatever is stored is a whole origin body: not the prefix a client that
\* hung up, an origin that broke off or a buffer cap left behind.
StoredBodiesWhole ==
  \A k \in Keys : store[k] # NoObj => store[k].whole

\* A body that leaves its request, into the store or to a follower, may: it is
\* whole when it is stored, and the follower is one it may go to.
BodiesLeaveProperly == StoredBodiesWhole /\ HandoffPermitted

\* A follower that is handed bytes is handed the whole body.
HandedBodiesWhole ==
  \A r \in Reqs : answer[r].from = "handoff" => answer[r].whole

\* Collapsing keeps its promise: every step is a step of FillPromise.
Promise == INSTANCE FillPromise
KeepsPromise == Promise!Spec

\* Every request is answered and finished, whatever its leaders do.
EveryRequestFinishes == \A r \in Reqs : <>(pc[r] = "done" /\ answer[r].from # "none")

\* The in-flight table and the refill allowance are empty in the end.
TableDrains ==
  <>[](/\ \A f \in FlightKeys : table[f] = NoReq
       /\ \A r \in Reqs : refill[r].step = "none"
       /\ slots = {})

\* What the miss pipeline starts it ends: requests, flights and refills.
FillsEnd == EveryRequestFinishes /\ TableDrains
=============================================================================
