------------------------------ MODULE FastHit -------------------------------
(***************************************************************************)
(* The zero-allocation hit path: TryHit serves a stored object from the    *)
(* parsed request without the full handler, from heads it composes once a  *)
(* second and keeps on the object, and from pooled buffers.  Beside it the *)
(* answer the full handler (ServeRequest, serveObject) gives to the same   *)
(* request, while objects are filled, freshened by a 304, soft-purged and  *)
(* deleted.                                                                *)
(*                                                                         *)
(* Source: internal/cache/fastpath.go, fastheader.go, fastheader2.go,      *)
(* serveObject of handler.go, the clones and heads of pkg/api/storage.go,  *)
(* the scan flags of pkg/api/fastpath.go.                                  *)
(*                                                                         *)
(* Time is counted in half seconds, and only as ages: a second of the wall *)
(* clock can end between two hits of one second of an object's age.  Of a  *)
(* response's header fields there is one of each treatment: "H" (served),  *)
(* "L" (listed in Connection), "N" (named by no-cache=), "C" (the          *)
(* CDN-Cache-Control family), "Date".  A local miss is declined here: what *)
(* the fast path asks a peer is modelled in PeerVariants.                  *)
(***************************************************************************)
EXTENDS Naturals

CONSTANTS
  Workers,      \* connections served at the same time
  Buffers,      \* pooled header buffers
  Langs,        \* values of the selecting header
  FastRequests, \* [close, lang, gated, cc, conditional, messy]
  FastPlans     \* [vary, sync, gate, removes, sets, objects]

VARIABLES
  fastPlan,
  late,         \* the second half of the wall clock's second
  entry,        \* key -> object
  pooled,       \* buffers in the pool
  bytes,        \* buffer -> a mark that changes when it is written
  worker        \* worker -> the response it is writing

fastVars == <<fastPlan, late, entry, pooled, bytes, worker>>

\* The primary key, and the key of each variant.
Primary == 0
EntryKeys == {Primary} \union Langs

NoBuffer == "none"
NoComposed == [current |-> FALSE, alias |-> NoBuffer, result |-> "none", names |-> {}, age |-> 0,
               close |-> FALSE, lang |-> 0]
Absent == [kind |-> "absent"]
Resolver == [kind |-> "resolver"]
Waiting == [at |-> "idle", agrees |-> TRUE, same |-> TRUE, buffer |-> NoBuffer, pool |-> FALSE,
            mark |-> FALSE]

\* An object: its field names, whether its Cache-Control names N (lists) and
\* did so when it was built (flag), its age, lifetime and stale window,
\* whether its head is too large to compose, the head composed last.
Built(lang, o) ==
  [kind |-> "object", lang |-> lang, names |-> o.names, lists |-> o.lists, flag |-> o.lists,
   age |-> 0, ttl |-> o.ttl, swr |-> o.swr, big |-> o.big, composed |-> NoComposed]

FastInit ==
  /\ fastPlan \in FastPlans
  /\ late = FALSE
  /\ entry = [k \in EntryKeys |-> Absent]
  /\ pooled = Buffers
  /\ bytes = [b \in Buffers |-> FALSE]
  /\ worker = [w \in Workers |-> Waiting]

IsObject(k) == entry[k].kind = "object"

-----------------------------------------------------------------------------
(* The store's side: fills, 304s, purges.                                  *)

\* A fill; of a response with Vary the primary key gets the resolver.
Fill(lang, o) ==
  /\ entry' = IF fastPlan.vary
              THEN [entry EXCEPT ![Primary] = Resolver, ![lang] = Built(lang, o)]
              ELSE [entry EXCEPT ![Primary] = Built(Primary, o)]
  /\ UNCHANGED <<fastPlan, late, pooled, bytes, worker>>

\* CloneForRefresh: a copy that composes its own heads.
CloneForRefresh(o) == [o EXCEPT !.composed = NoComposed]

\* refreshFrom304: the object is current again; the 304's Cache-Control may
\* name fields, which the flag of the built object does not follow.
Freshen(k, lists) ==
  /\ IsObject(k)
  /\ entry' = [entry EXCEPT ![k] = [CloneForRefresh(entry[k]) EXCEPT !.age = 0, !.lists = lists]]
  /\ UNCHANGED <<fastPlan, late, pooled, bytes, worker>>

\* SoftPurge: stale since a second ago; without a stale window, deleted.
SoftPurgeAll ==
  /\ \E k \in EntryKeys : IsObject(k)
  /\ entry' = [k \in EntryKeys |->
       IF ~IsObject(k) THEN entry[k]
       ELSE IF entry[k].swr = 0 THEN Absent
       ELSE [CloneForRefresh(entry[k]) EXCEPT !.age = 2, !.ttl = 0]]
  /\ UNCHANGED <<fastPlan, late, pooled, bytes, worker>>

Delete(k) ==
  /\ entry[k] # Absent
  /\ entry' = [entry EXCEPT ![k] = Absent]
  /\ UNCHANGED <<fastPlan, late, pooled, bytes, worker>>

\* An age past the stale window is as good as any other.
HalfSecond ==
  /\ late' = ~late
  /\ entry' = [k \in EntryKeys |->
       IF ~IsObject(k) THEN entry[k]
       ELSE [entry[k] EXCEPT !.age = IF @ < entry[k].ttl + entry[k].swr THEN @ + 1 ELSE @,
                             !.composed.current = @ /\ ~late]]
  /\ UNCHANGED <<fastPlan, pooled, bytes, worker>>

-----------------------------------------------------------------------------
(* What both paths decide from.                                            *)

Lookup(r) == IF entry[Primary] = Resolver THEN r.lang ELSE Primary

\* evaluate, of the cases that serve the object.
Result(o) ==
  IF o.age < o.ttl THEN "HIT" ELSE IF o.age < o.ttl + o.swr THEN "STALE" ELSE "no"
Servable(r) == IsObject(Lookup(r)) /\ Result(entry[Lookup(r)]) # "no"

\* ComputeAge, in seconds.
AgeOf(o) == o.age \div 2

\* bypass_on_cookie, bypass_on_cookie_names, bypass_on_user_agent
Gated(r) == fastPlan.gate /\ r.gated

-----------------------------------------------------------------------------
(* The full handler's answer to a request, at this instant.                *)

\* getOrComputeFastHeader: N is removed when the object was built with the
\* flag.  Without an origin Date none is added.
FastHeader(o) == o.names \ ({"L"} \union IF o.flag /\ o.lists THEN {"N"} ELSE {})

\* ServeRequest, of an unconditional request.
SlowServes(r) == ~Gated(r) /\ r.cc # "no-cache" /\ Servable(r)

\* serveObject, the route's response rewrites last.
ServeObject(o) ==
  LET static == IF fastPlan.sync THEN (FastHeader(o) \ {"C"}) \union {"Cap"} ELSE FastHeader(o)
  IN (static \ fastPlan.removes) \union fastPlan.sets

-----------------------------------------------------------------------------
(* The fast path.                                                          *)

\* TryHit's gates and qualifiesForFastPath.
QualifiesFast(r) == ~Gated(r) /\ ~r.conditional /\ ~r.messy /\ r.cc # "no-cache"

\* serializeHead: the stored fields without those skipStaticHeader names.
SerializeHead(o) ==
  o.names \ ({"L"} \union (IF o.lists THEN {"N"} ELSE {})
                   \union (IF fastPlan.sync THEN {"C"} ELSE {}))

\* Mutant: the composed head is the pooled buffer itself.
KeepBuffer(o, r, b) ==
  [current |-> TRUE, alias |-> b, result |-> Result(o), age |-> AgeOf(o), close |-> r.close,
   lang |-> o.lang,
   names |-> SerializeHead(o) \union {"Date"} \union (IF fastPlan.sync THEN {"Cap"} ELSE {})]

\* composeResponse (the static fields, and appendDynamicHeaders) and
\* StoreComposedHead, of bytes copied out of the pooled buffer b.
Compose(o, r, b) ==
  [current |-> TRUE, alias |-> NoBuffer, result |-> Result(o), age |-> AgeOf(o),
   close |-> r.close, lang |-> o.lang,
   names |-> SerializeHead(o) \union {"Date"} \union (IF fastPlan.sync THEN {"Cap"} ELSE {})]

\* ComposedHeadFor
ComposedHeadFor(o, r) ==
  o.composed.current /\ o.composed.result = Result(o) /\ o.composed.close = r.close

\* A head against the full handler's answer: the same object, the same
\* freshness, the Age at most a second behind, no field that is stripped.
Agrees(h, r) ==
  /\ SlowServes(r)
  /\ LET o == entry[Lookup(r)]
     IN /\ h.lang = o.lang /\ h.result = Result(o) /\ h.close = r.close
        /\ h.age \in {AgeOf(o), AgeOf(o) - 1}
        /\ h.names \subseteq ServeObject(o) \union {"Date"}
Same(h, r) == SlowServes(r) => h.names = ServeObject(entry[Lookup(r)])

\* responseFromComposedHead: a hit from the head composed in this second.
HitComposed(w, r) ==
  /\ worker[w] = Waiting /\ QualifiesFast(r) /\ Servable(r)
  /\ LET h == entry[Lookup(r)].composed
     IN /\ ComposedHeadFor(entry[Lookup(r)], r)
        /\ worker' = [worker EXCEPT ![w] =
             [at |-> "writing", agrees |-> Agrees(h, r), same |-> Same(h, r), buffer |-> h.alias,
              pool |-> FALSE, mark |-> IF h.alias = NoBuffer THEN FALSE ELSE bytes[h.alias]]]
  /\ UNCHANGED <<fastPlan, late, entry, pooled, bytes>>

\* A hit that composes into a pooled buffer, and keeps a copy on the object;
\* a head too large is left to the full handler.
HitComposing(w, r) ==
  /\ worker[w] = Waiting /\ QualifiesFast(r) /\ Servable(r)
  /\ LET o == entry[Lookup(r)]
     IN /\ ~ComposedHeadFor(o, r) /\ ~o.big
        /\ \E b \in pooled :
             LET h == Compose(o, r, b)
             IN /\ pooled' = pooled \ {b}
                /\ bytes' = [bytes EXCEPT ![b] = ~@]
                /\ entry' = [entry EXCEPT ![Lookup(r)].composed = h]
                /\ worker' = [worker EXCEPT ![w] =
                     [at |-> "writing", agrees |-> Agrees(h, r), same |-> Same(h, r), buffer |-> b,
                      pool |-> TRUE, mark |-> ~bytes[b]]]
  /\ UNCHANGED <<fastPlan, late>>

\* serveHit has written the buffers: Release.
Release(w) ==
  /\ worker[w] # Waiting
  /\ worker' = [worker EXCEPT ![w] = Waiting]
  /\ pooled' = IF worker[w].pool THEN pooled \union {worker[w].buffer} ELSE pooled
  /\ UNCHANGED <<fastPlan, late, entry, bytes>>

FastNext ==
  \/ \E l \in Langs, o \in fastPlan.objects : Fill(l, o)
  \/ \E k \in EntryKeys : Delete(k) \/ \E lists \in BOOLEAN : Freshen(k, lists)
  \/ SoftPurgeAll \/ HalfSecond
  \/ \E w \in Workers : Release(w) \/ \E r \in FastRequests : HitComposed(w, r) \/ HitComposing(w, r)

-----------------------------------------------------------------------------
(* Properties.                                                             *)

FastTypeOK ==
  /\ late \in BOOLEAN /\ pooled \subseteq Buffers
  /\ \A k \in EntryKeys : entry[k].kind \in {"absent", "resolver", "object"}
  /\ \A w \in Workers : worker[w].at \in {"idle", "writing"}

\* TryHit serves what ServeRequest would have served at that instant, from
\* the same object and with the same freshness, whoever filled, freshened or
\* purged the object and whichever head was composed for it before: the Age is
\* at most a second behind, no field is sent that the full handler strips, and
\* Connection: close answers the client that asked for it.
FastAsSlow == \A w \in Workers : worker[w].agrees

\* The bytes a worker writes are the ones it was given: the buffer its head is
\* in is not written again before the worker releases it, whatever other
\* workers take from the pool or from the object's composed head.
HeadsAreKept ==
  \A w \in Workers : worker[w].buffer # NoBuffer =>
    worker[w].buffer \notin pooled /\ bytes[worker[w].buffer] = worker[w].mark

\* skipStaticHeader: "the two paths must serve identical header sets for the
\* same object".  It does not hold: the route's response rewrites are not
\* applied to fast hits.
IdenticalHeaderSets == \A w \in Workers : worker[w].same
=============================================================================
