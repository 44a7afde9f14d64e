------------------------- MODULE ResponseFreshness --------------------------
(***************************************************************************)
(* The life of one response as the freshness rules see it: may it be       *)
(* stored, for how long, what is a request told at each later instant,     *)
(* what does a 304 do to it, and what is a downstream cache told.          *)
(*                                                                         *)
(* Source: internal/cache/cacheable.go, directives.go, engine.go,          *)
(* httpdate.go, negative.go, downstreamcc.go, conditional.go, the fill     *)
(* policy and buildObject and refreshFrom304 of handler.go,                *)
(* pkg/header/cachedirectives.go, pkg/api/status_ttl.go and the freshness  *)
(* methods of pkg/api/storage.go.                                          *)
(*                                                                         *)
(* A Cache-Control field is the sequence of its directives, each a name    *)
(* and a value; the field may come on one line or on a line for each       *)
(* directive.  A date is the seconds it lies from the instant of receipt.  *)
(* The clock counts from the instant the object was last stored.           *)
(***************************************************************************)
EXTENDS Integers, Sequences, FiniteSets, FiniteSetsExt, Folds, Functions

CONSTANTS
  Responses,    \* origin responses to consider
  Confirmed,    \* 304 responses to consider
  Policies,     \* fill policies of a route
  Requests,     \* request directives to consider
  Horizon       \* instants after the store to look at

VARIABLES
  policy,     \* the route's fill policy
  response,   \* the origin's response, or the merge of it with a 304
  object,     \* the stored object, or NotStored
  clock,      \* time since it was stored
  confirmed   \* 304 responses applied so far

freshVars == <<policy, response, object, clock, confirmed>>

NotStored == [ttl |-> -1]
Deleted == [ttl |-> -2]
Stored == object \notin {NotStored, Deleted}
None == -1
NoDate == 1001        \* a date field that is absent
BadDate == 1002       \* or that does not parse as a date
Forever == 1000
MaxAgeCap == 900      \* 2^31 seconds: an Age beyond it counts as this

-----------------------------------------------------------------------------
(* Cache-Control.                                                          *)

Flags == {"no-store", "no-cache", "private", "public", "must-revalidate",
          "proxy-revalidate", "only-if-cached", "must-understand"}
Durations == {"max-age", "s-maxage", "min-fresh", "max-stale",
              "stale-while-revalidate", "stale-if-error"}

NoDirectives == [flags |-> {}, fields |-> FALSE, dur |-> [d \in Durations |-> None]]

\* parseDurStr: of several values of one directive the largest counts; what
\* does not begin with a digit is not a value.
KeepLargest(old, v) == IF v.num = None THEN old ELSE Max({old, v.num})

\* applyDurDirective: max-stale without a value is any staleness.
ApplyDuration(d, key, v) ==
  IF key = "max-stale" /\ v.kind = "absent"
  THEN [d EXCEPT !.dur[key] = Forever]
  ELSE [d EXCEPT !.dur[key] = KeepLargest(@, v)]

\* applyCCDirective: no-cache with a list of fields is about the fields only.
ApplyDirective(d, t) ==
  IF t.key = "no-cache" /\ t.val.kind # "absent" THEN [d EXCEPT !.fields = TRUE]
  ELSE IF t.key \in Flags THEN [d EXCEPT !.flags = @ \union {t.key}]
  ELSE IF t.key \in Durations THEN ApplyDuration(d, t.key, t.val)
  ELSE d

\* ParseCacheControl.
ParseCacheControl(cc) == FoldFunction(LAMBDA t, d : ApplyDirective(d, t), NoDirectives, cc)

Is(d, flag) == flag \in d.flags
IsSet(d, dur) == d.dur[dur] # None

\* header.Map's Get and GetAll: the first line of a field, and all of them.
FirstLine(h) == IF h.split /\ h.cc # <<>> THEN <<Head(h.cc)>> ELSE h.cc
AllLines(h) == h.cc

-----------------------------------------------------------------------------
(* May the response be stored.                                             *)

\* cdnCacheControl: the targeted field is ignored when it is absent, has a
\* character a token cannot have, or says nothing about caching.
TargetedField(h) ==
  LET d == ParseCacheControl(h.cdn) IN
  /\ h.cdn # <<>> /\ ~h.cdnBad
  /\ \/ IsSet(d, "max-age") \/ IsSet(d, "s-maxage")
     \/ Is(d, "no-store") \/ Is(d, "private") \/ Is(d, "no-cache")

\* newParsedResponse: the directives that govern a shared cache.
Governing(h) == ParseCacheControl(IF TargetedField(h) THEN h.cdn ELSE AllLines(h))

UnderstoodStatus == {200, 203, 204, 206, 300, 301, 302, 303, 304, 307, 308,
  400, 401, 403, 404, 405, 406, 408, 409, 410, 411, 412, 413, 414, 415, 416,
  500, 501, 502, 503, 504}
HeuristicStatus == {200, 203, 204, 206, 300, 301, 308, 404, 405, 410, 414, 501}

ExplicitAge(d) == IsSet(d, "max-age") \/ IsSet(d, "s-maxage")

\* isBlockedByPragma.
BlockedByPragma(h, d) ==
  h.pragma /\ ~ExplicitAge(d) /\ h.expires = NoDate /\ h.modified = NoDate

\* isBlockedByClientState: Set-Cookie or Set-Login without explicit freshness.
BlockedByClientState(h, d) == h.state /\ ~ExplicitAge(d)

\* isCacheBlocked.
IsCacheBlocked(h, d, hasCdn) ==
  \/ Is(d, "no-store") /\ (~Is(d, "must-understand") \/ h.status \notin UnderstoodStatus)
  \/ Is(d, "private")
  \/ ~hasCdn /\ BlockedByPragma(h, d)
  \/ h.star
  \/ BlockedByClientState(h, d)
  \/ /\ h.auth
     /\ ~Is(d, "public") /\ ~Is(d, "must-revalidate") /\ ~IsSet(d, "s-maxage")

\* StatusTTLPolicy.TTL: an exact status shadows its class.
NegativeTTL(p, status) ==
  IF status \in DOMAIN p.exact THEN p.exact[status]
  ELSE IF (status \div 100) \in DOMAIN p.classes THEN p.classes[status \div 100] ELSE 0

ValidDate(x) == x \notin {NoDate, BadDate}

\* IsCacheable, on the directives parsed from the headers by itself.
IsCacheable(h, p) ==
  LET d == Governing(h) IN
  /\ h.status # 304
  /\ ~IsCacheBlocked(h, d, TargetedField(h))
  /\ \/ ExplicitAge(d)
     \/ h.expires # NoDate /\ ValidDate(h.expires)
     \/ /\ h.modified # NoDate
        /\ h.status \in HeuristicStatus \/ Is(d, "public")
        /\ ~BlockedByPragma(h, d)
     \/ Is(d, "no-cache") /\ h.etag /\ h.status \in HeuristicStatus
     \/ NegativeTTL(p, h.status) > 0

\* IsCacheableWithDefault: the operator's lifetime for what the origin left
\* open.
IsCacheableWithDefault(h, p) ==
  \/ IsCacheable(h, p)
  \/ /\ p.default > 0
     /\ ~IsCacheBlocked(h, Governing(h), TargetedField(h))
     /\ h.status \in HeuristicStatus

\* parsedResponse.isCacheable, on the directives the caller has parsed.
ParsedIsCacheable(h, d, hasCdn, p) ==
  /\ h.status # 304
  /\ ~IsCacheBlocked(h, d, hasCdn)
  /\ \/ ExplicitAge(d)
     \/ ValidDate(h.expires)
     \/ /\ h.modified # NoDate /\ (h.status \in HeuristicStatus \/ Is(d, "public"))
        /\ hasCdn \/ ~BlockedByPragma(h, d)
     \/ Is(d, "no-cache") /\ h.etag /\ h.status \in HeuristicStatus
     \/ NegativeTTL(p, h.status) > 0

\* parsedResponse.isCacheableWithDefault.
ParsedIsCacheableWithDefault(h, d, hasCdn, p) ==
  \/ ParsedIsCacheable(h, d, hasCdn, p)
  \/ p.default > 0 /\ ~IsCacheBlocked(h, d, hasCdn) /\ h.status \in HeuristicStatus

-----------------------------------------------------------------------------
(* For how long.                                                           *)

\* parseOriginAge.
OriginAge(h) == IF h.age > MaxAgeCap THEN MaxAgeCap ELSE h.age

\* correctedInitialAge: the Age and the delay of the response, or the age its
\* Date gives it.
CorrectedInitialAge(h, delay) ==
  Max({OriginAge(h) + delay} \union {0 - x : x \in {y \in {h.date} : ValidDate(y) /\ y <= 0}})

\* FreshnessLifetimeH: a pair of the lifetime and whether it is explicit.  A
\* targeted field governs whenever there is one.
FreshnessLifetimeH(d, h) ==
  LET cdn == ParseCacheControl(h.cdn) IN
  CASE h.cdn # <<>> -> <<IF IsSet(cdn, "max-age") THEN cdn.dur["max-age"] ELSE 0, TRUE>>
    [] h.cdn = <<>> /\ IsSet(d, "s-maxage") -> <<d.dur["s-maxage"], TRUE>>
    [] h.cdn = <<>> /\ ~IsSet(d, "s-maxage") /\ IsSet(d, "max-age") -> <<d.dur["max-age"], TRUE>>
    [] OTHER -> IF ValidDate(h.expires)
                THEN <<h.expires - (IF ValidDate(h.date) THEN h.date ELSE 0), TRUE>>
                ELSE <<0, FALSE>>

\* FreshnessLifetime, which a 304 uses: an Expires without a Date says nothing.
FreshnessLifetime(d, h) ==
  IF h.cdn = <<>> /\ ~ExplicitAge(d) /\ ~ValidDate(h.date)
  THEN <<0, FALSE>> ELSE FreshnessLifetimeH(d, h)

\* HeuristicTTL: a tenth of the time since the last modification.
HeuristicTTL(h) ==
  IF ~ValidDate(h.modified) THEN 0
  ELSE LET age == (IF ValidDate(h.date) THEN h.date ELSE 0) - h.modified
       IN IF age <= 0 THEN 0 ELSE age \div 10

\* JitterTTL: any value within pct percent, at most half.
JitterTTL(ttl, pct) ==
  IF pct <= 0 \/ ttl <= 0 THEN {ttl}
  ELSE LET p == Min({pct, 50})
       IN ((ttl * (100 - p)) \div 100)..((ttl * (100 + p)) \div 100)

\* computeTTL.
ComputeTTL(p, h, d, age) ==
  LET explicit == FreshnessLifetimeH(d, h)
      implicit == IF NegativeTTL(p, h.status) > 0 THEN NegativeTTL(p, h.status)
                  ELSE IF HeuristicTTL(h) = 0 /\ p.default > 0 THEN p.default
                  ELSE HeuristicTTL(h)
      base == IF explicit[2] THEN explicit[1] ELSE implicit
  IN {Max({0, j - age}) : j \in JitterTTL(base, p.jitter)}

\* overrideTTLFor, swrOverrideFor: for content responses only.
OverrideFor(value, status) == IF value > 0 /\ status < 400 THEN value ELSE 0

\* fillFinalTTL.
FillFinalTTL(p, h, d, age) ==
  IF OverrideFor(p.override, h.status) > 0
  THEN JitterTTL(p.override, p.jitter) ELSE ComputeTTL(p, h, d, age)

\* The stale-while-revalidate window: the route's override, the origin's
\* directive, the route's floor.
WindowFor(p, h, d) ==
  IF OverrideFor(p.swrOverride, h.status) > 0 THEN p.swrOverride
  ELSE IF IsSet(d, "stale-while-revalidate") THEN d.dur["stale-while-revalidate"] ELSE p.swr

ErrorWindowFor(p, d) == IF IsSet(d, "stale-if-error") THEN d.dur["stale-if-error"] ELSE p.sie

\* buildObject: the field that governs is kept as the object's Cache-Control,
\* and the gates of the hit path are taken from it.
BuildObject(p, h, delay, ttl) ==
  LET d == Governing(h) IN
  [ttl |-> ttl, age |-> CorrectedInitialAge(h, delay),
   swr |-> WindowFor(p, h, d), sie |-> ErrorWindowFor(p, d),
   cc |-> IF TargetedField(h) THEN h.cdn ELSE AllLines(h),
   noCache |-> Is(d, "no-cache"),
   must |-> Is(d, "must-revalidate") \/ Is(d, "proxy-revalidate"),
   validator |-> h.etag \/ ValidDate(h.modified)]

-----------------------------------------------------------------------------
(* The state machine of the lookup.                                        *)

\* Object.Fresh, StaleForSWR, StaleForSIE.
Fresh(o, t) == t < o.ttl
StaleForSWR(o, t) == ~Fresh(o, t) /\ o.swr # 0 /\ t < o.ttl + o.swr
StaleForSIE(o, t) == ~Fresh(o, t) /\ o.sie # 0 /\ t < o.ttl + o.sie

\* freshWithRequestCC: max-age and min-fresh narrow.
FreshWithRequestCC(o, r, t) ==
  /\ Fresh(o, t)
  /\ IsSet(r, "max-age") => t + o.age <= r.dur["max-age"]
  /\ IsSet(r, "min-fresh") => o.ttl - t >= r.dur["min-fresh"]

RevalidateOrMiss(o) == IF o.validator THEN "revalidate" ELSE "miss"

\* objDirectives: the string kept at the fill, or the header's first line.
ObjDirectives(o, h) == ParseCacheControl(IF o.cc # <<>> THEN o.cc ELSE FirstLine(h))

\* evalStale.
EvalStale(r, o, h, t) ==
  LET d == ObjDirectives(o, h) IN
  CASE IsSet(r, "max-stale") /\ t - o.ttl <= r.dur["max-stale"] -> "stale"
    [] StaleForSWR(o, t) -> "stale"
    [] OTHER -> IF ~StaleForSIE(o, t) /\ ~ExplicitAge(d) /\ h.expires = NoDate
                THEN "stale" ELSE RevalidateOrMiss(o)

\* evaluate, given the gates of the stored response.
EvaluateWith(o, h, r, t, noCache, must) ==
  IF Is(r, "no-store") THEN "bypass"
  ELSE IF noCache \/ Is(r, "no-cache") THEN RevalidateOrMiss(o)
  ELSE IF FreshWithRequestCC(o, r, t) THEN "hit"
  ELSE IF must THEN RevalidateOrMiss(o) ELSE EvalStale(r, o, h, t)

\* Evaluate: the gates of the parsed header, on the general path.
Evaluate(o, h, r, t) ==
  LET d == ObjDirectives(o, h)
  IN EvaluateWith(o, h, r, t, Is(d, "no-cache"),
                  Is(d, "must-revalidate") \/ Is(d, "proxy-revalidate"))

\* respGateFromObject: the gates kept at the fill, on the fast paths.
EvaluateFast(o, h, r, t) == EvaluateWith(o, h, r, t, o.noCache, o.must)

-----------------------------------------------------------------------------
(* What a downstream cache is told (downstream_freshness: sync).           *)

\* Mutant: the age at the origin is added to what remains.
WallPlusAge(o, t) == Max({0, o.ttl + o.age - t})

\* cdcWallRemaining, cdcWindowRemaining.
WallRemaining(o, t) == Max({0, o.ttl - t})
WindowRemaining(o, w, t) == IF w <= 0 \/ o.ttl + w - t <= 0 THEN None ELSE o.ttl + w - t

\* appendStaleMirrorDirectives, appendServeCDCDirectives: what a serve of the
\* stored object tells, a lifetime, a stale window and whether to validate.
ServeCap(o, t, result) ==
  LET mirror == Max({WindowRemaining(o, o.swr, t), 0})
      onError == Max({WindowRemaining(o, o.sie, t), 0})
  IN CASE result = "stale" -> [fresh |-> 0, validate |-> FALSE,
                               window |-> IF mirror > 0 THEN mirror ELSE onError]
       [] result = "revalidated" /\ o.noCache ->
            [fresh |-> 0, validate |-> TRUE, window |-> 0]
       [] OTHER -> [fresh |-> WallRemaining(o, t), validate |-> FALSE, window |-> 0]

\* originEffectiveMaxAge.
OriginEffective(d, h) ==
  CASE IsSet(d, "s-maxage") -> d.dur["s-maxage"]
    [] ~IsSet(d, "s-maxage") /\ IsSet(d, "max-age") -> d.dur["max-age"]
    [] OTHER -> IF ValidDate(h.expires) /\ ValidDate(h.date)
                THEN Max({0, h.expires - h.date}) ELSE 0

\* appendFillCDCDirectives: of the two lifetimes the smaller.
FillCap(d, h, ttl) ==
  LET eff == OriginEffective(d, h) IN
  IF Is(d, "no-cache") THEN [fresh |-> 0, validate |-> TRUE, window |-> 0]
  ELSE [fresh |-> IF eff > 0 THEN Min({eff, ttl}) ELSE ttl, validate |-> FALSE, window |-> 0]

-----------------------------------------------------------------------------
(* The life of the response.                                               *)

FreshInit ==
  /\ policy \in Policies
  /\ response \in Responses
  /\ object = NotStored
  /\ clock = 0
  /\ confirmed = 0

\* writeAndMaybeStore: the gate, then the object with its final lifetime.
Store(delay) ==
  LET d == Governing(response) IN
  /\ object = NotStored
  /\ ParsedIsCacheableWithDefault(response, d, TargetedField(response), policy)
  /\ \E ttl \in FillFinalTTL(policy, response, d, CorrectedInitialAge(response, delay)) :
       object' = BuildObject(policy, response, delay, ttl)
  /\ UNCHANGED <<policy, response, clock, confirmed>>

Elapse ==
  /\ Stored /\ clock < Horizon
  /\ clock' = clock + 1
  /\ UNCHANGED <<policy, response, object, confirmed>>

\* A header seen n later: its dates have moved into the past.
Seen(h, n) ==
  LET earlier(x) == IF ValidDate(x) THEN x - n ELSE x
  IN [h EXCEPT !.date = earlier(@), !.expires = earlier(@), !.modified = earlier(@)]

\* MergeHeaders304: a field of the 304 replaces the first line of the stored
\* one; a field it does not have stays.  The Cache-Control of a 304 has one
\* directive here.
Merge(h, c) ==
  [h EXCEPT !.cc = IF c.cc = <<>> THEN @ ELSE IF h.split /\ @ # <<>> THEN c.cc \o Tail(@) ELSE c.cc,
            !.age = IF c.age = None THEN @ ELSE c.age,
            !.date = IF c.date = NoDate THEN @ ELSE c.date]

\* Mutant: the gates of the hit path stay those of the fill.
RefreshKeepGates(p, o, h, delay) ==
  LET cc == FirstLine(h)
      life == FreshnessLifetime(ParseCacheControl(cc), h)
      over == OverrideFor(p.override, h.status)
  IN [o EXCEPT !.ttl = IF over > 0 THEN over ELSE IF life[2] THEN life[1] ELSE @,
               !.age = CorrectedInitialAge(h, delay), !.cc = cc]

\* refreshFrom304: Cache-Control and the gates from the first line of the
\* merged header, the lifetime from it if it has one, then the overrides.
RefreshFrom304(p, o, h, delay) ==
  LET cc == FirstLine(h)
      d == ParseCacheControl(cc)
      life == FreshnessLifetime(d, h)
      over == OverrideFor(p.override, h.status)
      swr == OverrideFor(p.swrOverride, h.status)
  IN [o EXCEPT !.ttl = IF over > 0 THEN over ELSE IF life[2] THEN life[1] ELSE @,
               !.age = CorrectedInitialAge(h, delay), !.cc = cc,
               !.swr = IF swr > 0 THEN swr ELSE @,
               !.noCache = Is(d, "no-cache"),
               !.must = Is(d, "must-revalidate") \/ Is(d, "proxy-revalidate")]

\* A revalidation some request asked for ends in a 304.
Confirm(c) ==
  LET h == Merge(Seen(response, clock), c) IN
  /\ Stored /\ confirmed = 0
  /\ \E r \in Requests : Evaluate(object, response, r, clock) = "revalidate"
  /\ response' = h
  /\ object' = RefreshFrom304(policy, object, h, c.delay)
  /\ clock' = 0 /\ confirmed' = 1
  /\ UNCHANGED policy

\* Handler.SoftPurge: stale at once, stored a second ago, so that the windows
\* are measured from the purge; an object without a window is deleted.  One
\* purge of a life is enough.
SoftPurge ==
  /\ Stored /\ clock > 0 /\ object.ttl > 0
  /\ \/ /\ object.swr = 0 /\ object.sie = 0
        /\ object' = Deleted
        /\ UNCHANGED <<response, clock>>
     \/ /\ object.swr # 0 \/ object.sie # 0
        /\ object' = [object EXCEPT !.ttl = 0]
        /\ response' = Seen(response, clock - 1)
        /\ clock' = 1
  /\ UNCHANGED <<policy, confirmed>>

FreshNext ==
  \/ \E delay \in {0, 1} : Store(delay)
  \/ Elapse \/ SoftPurge
  \/ \E c \in Confirmed : Confirm(c)

-----------------------------------------------------------------------------
(* Properties.                                                             *)

FreshTypeOK ==
  /\ policy \in Policies /\ clock \in 0..Horizon /\ confirmed \in {0, 1}
  /\ ~Stored \/ {object.ttl, object.age, object.swr, object.sie} \subseteq Int

NoRequestCC == NoDirectives

\* The two copies of the storage gate agree on every response: IsCacheable,
\* which refreshes and the explain plane call, and the parsed form the fill
\* paths use.
GatesAgree ==
  confirmed = 0 =>
    (IsCacheableWithDefault(response, policy)
       <=> ParsedIsCacheableWithDefault(response, Governing(response),
                                        TargetedField(response), policy))

\* Nothing is stored that the origin kept from shared caches: a stored
\* response is not private, is not no-store (unless must-understand lets it
\* be), is no 304, and answers a request with credentials only if it says so.
StoresOnlyShared ==
  (Stored /\ confirmed = 0) =>
    LET d == Governing(response) IN
    /\ ~Is(d, "private") /\ response.status # 304
    /\ Is(d, "no-store") => Is(d, "must-understand")
    /\ response.auth =>
         Is(d, "public") \/ Is(d, "must-revalidate") \/ IsSet(d, "s-maxage")

\* Every serving path decides alike: the gates kept in the object at the fill
\* and at each 304 are those of the Cache-Control the general path parses
\* ("every serving path makes identical decisions", engine.go).
PathsAgree ==
  Stored => \A r \in Requests :
    EvaluateFast(object, response, r, clock) = Evaluate(object, response, r, clock)

\* The directives of a request narrow what may be served and never widen it,
\* but for max-stale ("request directives can only narrow it, never extend
\* it", freshWithRequestCC).
RequestsOnlyNarrow ==
  Stored => \A r \in Requests :
    LET plain == Evaluate(object, response, NoRequestCC, clock)
        asked == Evaluate(object, response, r, clock)
    IN /\ asked = "hit" => plain = "hit"
       /\ (asked = "stale" /\ ~IsSet(r, "max-stale")) => plain \in {"hit", "stale"}

\* Something stale is served only with a licence: never when the response
\* must be revalidated, and otherwise within the window of the object, within
\* what the request tolerates, or when the origin never gave a lifetime.
StaleHasLicence ==
  Stored => \A r \in Requests :
    Evaluate(object, response, r, clock) = "stale" =>
      /\ ~object.must /\ ~object.noCache
      /\ \/ clock < object.ttl + object.swr
         \/ IsSet(r, "max-stale") /\ clock - object.ttl <= r.dur["max-stale"]
         \/ ~ExplicitAge(ObjDirectives(object, response)) /\ response.expires = NoDate

\* The result a serve of the stored object is labelled with.
ResultOf(r) ==
  LET d == Evaluate(object, response, r, clock)
  IN IF d = "revalidate" THEN "revalidated" ELSE d

\* A downstream cache never trusts a copy past the instant at which this
\* cache stops trusting its own, and is told to validate what this cache
\* validates on every use (ADR-0063: the wall and the no-cache carve-out).
DownstreamWithinWall ==
  Stored => \A r \in Requests :
    LET result == ResultOf(r)
        cap == ServeCap(object, clock, result)
    IN result \in {"hit", "stale", "revalidated"} =>
         /\ clock + cap.fresh <= Max({clock, object.ttl})
         /\ (result = "revalidated" /\ object.noCache) => cap.validate
         /\ (result = "stale" /\ cap.window > 0)
              => clock + cap.window <= object.ttl + Max({object.swr, object.sie})

\* At the fill a downstream cache is given no more than the origin gave and
\* no more than this cache keeps the response.
FillWithinBoth ==
  (Stored /\ confirmed = 0 /\ clock = 0) =>
    LET d == Governing(response)
        cap == FillCap(d, response, object.ttl)
    IN /\ cap.fresh <= object.ttl
       /\ OriginEffective(d, response) > 0 => cap.fresh <= OriginEffective(d, response)
       /\ Is(d, "no-cache") => cap.validate

\* A response served as fresh is no older than the lifetime the origin gave it
\* ("TTL is the remaining freshness lifetime at store time, not the full
\* lifetime advertised by the origin", Object.Fresh), on a route that neither
\* overrides nor jitters lifetimes.  It does not hold: a refresh from a 304
\* sets the full lifetime, whatever the Age.
FreshWithinLifetime ==
  (Stored /\ policy.override = 0 /\ policy.jitter = 0) =>
    LET life == FreshnessLifetimeH(ParseCacheControl(object.cc), response) IN
    (Evaluate(object, response, NoRequestCC, clock) = "hit" /\ life[2])
      => clock + object.age <= life[1]
=============================================================================
