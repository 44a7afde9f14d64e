----------------------------- MODULE MCRequests -----------------------------
(***************************************************************************)
(* What becomes of one request, checked in one run: the route that takes   *)
(* it (Routing), the key it is looked up under (CacheKeys), the object a   *)
(* peer may answer it with (PeerVariants), how fresh an object is          *)
(* (ResponseFreshness), and the head it is served with (FastHit).  A       *)
(* behaviour explores one of the five parts; the others keep their initial *)
(* state.  Below, part by part, the inputs that are tried.                 *)
(***************************************************************************)
EXTENDS Routing, CacheKeys, PeerVariants, ResponseFreshness, FastHit, TLC

VARIABLE part

-----------------------------------------------------------------------------
(* Routes, requests and traffic classes.  Hosts and paths are sequences of *)
(* letters and marks.                                                      *)

AnyPath == [kind |-> "none", p |-> <<>>, re |-> ""]
Under(path) == [kind |-> "prefix", p |-> path, re |-> ""]
Matching(name) == [kind |-> "regex", p |-> <<>>, re |-> name]
Route(h, p, m, s, k) == [host |-> h, path |-> p, methods |-> m, serves |-> s, key |-> k]
RegexPaths == [ra |-> {<<"/", "a">>}, rb |-> {<<"/", "a">>, <<"/", "a", "/", "b">>}]

AB == <<"a", ".", "b">>
UpperAB == <<"A", ".", "b">>
StarB == <<"*", ".", "b">>
StarAB == <<"*", ".", "a", ".", "b">>
ADotStar == <<"a", ".", "*">>
AStar == <<"a", "*">>
HostsAsked ==
  {AB, <<"b">>, <<"A", ".", "b", ":", "8">>, <<"a", ".", "a", ".", "b">>, <<"b", ".", "a">>,
   <<"a">>, <<"a", ".">>, <<"a", "b">>, <<"a", ":", "8">>, <<":", "8">>}
PathsAsked ==
  {<<"/">>, <<"/", "a">>, <<"/", "%a">>, <<"/", "/", "a">>, <<"/", "a", "/", "b">>, <<"/", "b">>}
ClassPatterns == {UpperAB, StarB, StarAB, ADotStar, AStar, <<"b">>, <<"a">>}
ClassTables ==
  {<<{x}, {y}>> : x, y \in ClassPatterns}
    \union {<<{x}, {y, ADotStar}, {StarB, AB, <<"a">>}>> : x, y \in ClassPatterns}

RoutePlan(rs, hs, ps, ms, cs) ==
  [routes |-> rs, hosts |-> hs, paths |-> ps, methods |-> ms, classes |-> cs]
ByHost ==
  RoutePlan({Route(h, AnyPath, m, s, "default") :
               h \in {AnyHost, UpperAB, StarB, StarAB}, m \in {{}, {"GET"}}, s \in {"cached", "disabled"}},
            HostsAsked, {<<"/", "a">>}, {"GET", "POST"}, {})
ByPath ==
  RoutePlan({Route(AnyHost, p, m, "cached", "default") :
               p \in {AnyPath, Under(<<"/", "a">>), Under(<<"/", "a", "/", "b">>), Matching("ra"), Matching("rb")},
               m \in {{}, {"GET"}, {"GET", "HEAD"}}}
             \union {Route(AnyHost, AnyPath, {}, "failed", "default"),
                     Route(AnyHost, Under(<<"/", "a">>), {}, "static", "default"),
                     Route(AB, AnyPath, {}, "cached", "hostless")},
            {AB}, PathsAsked, {"GET", "HEAD", "POST"}, {})
ByClass ==
  RoutePlan({Route(AnyHost, AnyPath, {}, "cachedStatic", "default")}, HostsAsked, {<<"/">>}, {"GET"}, ClassTables)
StaticBelow ==
  RoutePlan({Route(AnyHost, Under(<<"/", "a">>), {}, "cachedStatic", "stripped"),
             Route(AnyHost, AnyPath, {}, "cached", "default")},
            {AB}, PathsAsked, {"GET"}, {})
SetRoutePlans == {ByHost, ByPath, ByClass, StaticBelow}

-----------------------------------------------------------------------------
(* Queries, Accept lists, targets and selecting fields.                    *)

Param(n, v, s) == [n |-> n, v |-> v, spelled |-> s]
SentParams ==
  {Param(1, 0, "plain"), Param(1, 1, "plain"), Param(1, 1, "name"), Param(2, 2, "plain"),
   Param(2, 2, "value"), Param(3, 1, "plain"), Param(1, 2, "bad")}
QueryPolicy(allow, keep, strip, empty, dedup) ==
  [allow |-> allow, keep |-> keep, strip |-> strip, empty |-> empty, dedup |-> dedup]
SetQueryPolicies ==
  {QueryPolicy(FALSE, {}, {}, FALSE, FALSE), QueryPolicy(FALSE, {}, {3}, FALSE, FALSE),
   QueryPolicy(FALSE, {}, {3}, TRUE, FALSE), QueryPolicy(FALSE, {}, {}, FALSE, TRUE),
   QueryPolicy(TRUE, {1, 2}, {}, TRUE, TRUE), QueryPolicy(FALSE, {}, {}, TRUE, TRUE)}
Item(t, up, q) == [t |-> t, up |-> up, q |-> q]
SentItems ==
  {Item(t, FALSE, q) : t \in 1..2, q \in {0, 5, 10}}
    \union {Item(0, FALSE, 10), Item(2, TRUE, 10), Item(3, FALSE, 5)}
HostName(up, port) == [name |-> 1, up |-> up, port |-> port]
SentTargets ==
  [method : {"GET", "HEAD", "POST"}, tls : BOOLEAN,
   host : {HostName(FALSE, 0), HostName(TRUE, 80), HostName(FALSE, 443), HostName(FALSE, 81)},
   path : [id : {1, 2}, spelled : {"clean", "doubled", "dotted", "escaped"}]
            \union [id : {0}, spelled : {"clean", "empty"}]]
PathRules ==
  {[strip |-> [i \in 0..2 |-> i], rewrite |-> [i \in 0..2 |-> i]],
   [strip |-> [i \in 0..2 |-> IF i = 1 THEN 2 ELSE i], rewrite |-> [i \in 0..2 |-> IF i = 2 THEN 0 ELSE i]]}
HeaderPolicy(inc, exc, pre, val, byp, any, verb) ==
  [include |-> inc, exclude |-> exc, presence |-> pre, values |-> val, bypass |-> byp,
   anyCookie |-> any, verbatim |-> verb]
SetHeaderPolicies ==
  {HeaderPolicy({}, {}, {}, {}, {}, FALSE, FALSE), HeaderPolicy({"x"}, {}, {1}, {}, {2}, FALSE, FALSE),
   HeaderPolicy({"x"}, {"x", "accept-encoding"}, {}, {2}, {}, TRUE, FALSE),
   HeaderPolicy({}, {}, {1}, {1, 2}, {1}, FALSE, TRUE)}
SentSelectors ==
  [ae : {<<Item(1, FALSE, 10)>>, <<Item(3, FALSE, 5), Item(1, FALSE, 10)>>},
   al : {<<>>, <<Item(1, TRUE, 10)>>, <<Item(0, FALSE, 10)>>},
   x : [v : {1, 2}, up : BOOLEAN],
   cookies : {<< <<>> >>, << <<<<1, 1>>>>, <<<<2, 1>>>> >>,
              << <<<<2, 1>>>>, <<>>, <<<<2, 2>>, <<3, 1>>>> >>, << <<<<3, 1>>>> >>}]

-----------------------------------------------------------------------------
(* Requests of two languages, and what origin, owner and ring do.          *)

Fielded(l, x) == [L |-> l, X |-> x]
SentFields == {Fielded(1, 1), Fielded(2, 1), Fielded(1, 3)}
NoVary == [fields |-> {}, at |-> [f \in {"L", "X"} |-> 0]]
VaryL == [fields |-> {"L"}, at |-> [f \in {"L", "X"} |-> IF f = "L" THEN 1 ELSE 0]]
VaryX == [fields |-> {"X"}, at |-> [f \in {"L", "X"} |-> IF f = "X" THEN 1 ELSE 0]]
VariantPlan(inc, exc, decl, own, mov, leg, fau) ==
  [policied |-> inc \union exc # {}, include |-> inc, exclude |-> exc, declares |-> decl,
   owned |-> own, moves |-> mov, legacy |-> leg, faults |-> fau, asks |-> 2, turns |-> 2]
OnePeer == VariantPlan({}, {}, {{}, {"L"}}, {{}, {NoVary}, {VaryL}}, FALSE, FALSE, {"error", "shed"})
SetVariantPlans ==
  {OnePeer,
   VariantPlan({}, {}, {{"X"}, {"L"}}, {{}}, FALSE, TRUE, {"private"}),
   VariantPlan({}, {}, {{"L"}}, {{}, {NoVary}, {VaryL}, {NoVary, VaryL}}, TRUE, FALSE, {}),
   VariantPlan({"L"}, {}, {{}, {"X"}}, {{}, {VaryL}}, FALSE, FALSE, {"error"}),
   VariantPlan({}, {"X"}, {{"X"}, {"L", "X"}}, {{}, {NoVary}}, FALSE, FALSE, {}),
   [VariantPlan({}, {}, {{"X"}, {"L", "X"}}, {{NoVary, VaryX}}, FALSE, FALSE, {})
      EXCEPT !.asks = 1, !.turns = 3]}

-----------------------------------------------------------------------------
(* Responses: Cache-Control of up to two tokens, and the other fields      *)
(* crossed with a few.                                                     *)

NoValue == [kind |-> "absent", num |-> None]
Unparsable == [kind |-> "junk", num |-> None]
Number(n) == [kind |-> "number", num |-> n]
Token(k, v) == [key |-> k, val |-> v]
Tokens ==
  {Token(f, NoValue) : f \in Flags \ {"only-if-cached"}} \union {Token("no-cache", Unparsable)}
    \union {Token("max-age", v) : v \in {Number(0), Number(2), Unparsable}}
    \union {Token("s-maxage", Number(3)), Token("stale-while-revalidate", Number(1)),
            Token("stale-if-error", Number(2))}
Upto(n) == UNION {[1..k -> Tokens] : k \in 0..n}
Plain ==
  [status |-> 200, cc |-> <<>>, split |-> FALSE, cdn |-> <<>>, cdnBad |-> FALSE, expires |-> NoDate,
   date |-> NoDate, age |-> 0, modified |-> NoDate, etag |-> FALSE, pragma |-> FALSE, star |-> FALSE,
   state |-> FALSE, auth |-> FALSE]
Directed ==
  {[Plain EXCEPT !.status = s, !.cc = c, !.etag = e] : s \in {404, 304, 599}, c \in Upto(1), e \in BOOLEAN}
    \union {[Plain EXCEPT !.cc = c] : c \in Upto(1)}
    \union {[Plain EXCEPT !.cc = c, !.etag = TRUE] : c \in Upto(2)}
    \union {[Plain EXCEPT !.auth = TRUE, !.cc = c] : c \in Upto(2)}
    \union {[Plain EXCEPT !.star = TRUE, !.cc = c] : c \in Upto(1)}
    \union {[Plain EXCEPT !.split = TRUE, !.cc = c, !.etag = TRUE] : c \in Upto(2)}
MaxAge(n) == <<Token("max-age", Number(n))>>
NoCache == <<Token("no-cache", NoValue)>>
Governed ==
  {[Plain EXCEPT !.cc = c, !.cdn = cdn[1], !.cdnBad = cdn[2], !.etag = TRUE] :
     c \in {<<>>, MaxAge(2), NoCache},
     cdn \in {<< <<>>, FALSE>>, <<MaxAge(1), FALSE>>, <<MaxAge(1), TRUE>>, <<NoCache, FALSE>>,
              << <<Token("public", NoValue)>>, FALSE>>}}
Headed ==
  {[g EXCEPT !.pragma = blocks[1], !.state = blocks[2]] :
     g \in Governed, blocks \in {<<TRUE, FALSE>>, <<FALSE, TRUE>>}}
    \union {[g EXCEPT !.expires = x, !.date = d, !.modified = m, !.age = a] :
              g \in Governed, x \in {NoDate, BadDate, 0, 2}, d \in {NoDate, -1},
              m \in {NoDate, -31}, a \in {0, 1}}
SentResponses == Directed \union Headed
Sent304 ==
  {[cc |-> c, age |-> a, date |-> NoDate, delay |-> 1] :
     c \in {<<>>, MaxAge(2), <<Token("must-revalidate", NoValue)>>}, a \in {None, 1}}
NoRules ==
  [exact |-> <<>>, classes |-> <<>>, default |-> 0, override |-> 0, swr |-> 0, swrOverride |-> 0,
   sie |-> 0, jitter |-> 0]
SetPolicies ==
  {NoRules,
   [NoRules EXCEPT !.exact = (404 :> 1), !.classes = (4 :> 2 @@ 5 :> 1), !.default = 2, !.jitter = 60],
   [NoRules EXCEPT !.override = 2, !.swrOverride = 1, !.sie = 1]}
SentDirectives ==
  {ParseCacheControl(c) :
     c \in {<<>>, NoCache, <<Token("no-store", NoValue)>>, MaxAge(0), MaxAge(1),
            <<Token("min-fresh", Number(1))>>, <<Token("max-stale", NoValue)>>,
            <<Token("max-stale", Number(1))>>}}

-----------------------------------------------------------------------------
(* Hits on the connections of two workers.                                 *)

Hit(cl, l, g, cc) ==
  [close |-> cl, lang |-> l, gated |-> g, cc |-> cc, conditional |-> FALSE, messy |-> FALSE]
SentHits ==
  {Hit(FALSE, 1, FALSE, "none"), Hit(TRUE, 2, FALSE, "none"), Hit(FALSE, 2, FALSE, "none"),
   Hit(FALSE, 1, TRUE, "none"), Hit(FALSE, 1, FALSE, "no-cache")}
Obj(n, l, t, s, b) == [names |-> n, lists |-> l, ttl |-> t, swr |-> s, big |-> b]
FastPlan(v, s, g, objs) ==
  [vary |-> v, sync |-> s, gate |-> g, removes |-> {}, sets |-> {}, objects |-> objs]
Unvaried ==
  FastPlan(FALSE, FALSE, TRUE, {Obj({"H", "N"}, FALSE, 2, 0, FALSE), Obj({"H"}, FALSE, 3, 0, TRUE)})
Everything(swr) == {Obj({"H", "L", "N", "C", "Date"}, TRUE, 2, swr, FALSE)}
SetFastPlans ==
  {Unvaried, FastPlan(TRUE, TRUE, FALSE, Everything(0)), FastPlan(FALSE, TRUE, FALSE, Everything(1))}

-----------------------------------------------------------------------------

Parts == {"routes", "keys", "variants", "freshness", "heads"}

Init ==
  /\ part \in Parts
  /\ RoutingInit /\ (part = "routes" \/ routePlan = CHOOSE p \in RoutePlans : TRUE)
  /\ KeyInit     /\ (part = "keys" \/ asking = "accept")
  /\ VariantInit /\ (part = "variants" \/ (variantPlan = OnePeer /\ declared = {} /\ owned = {}))
  /\ FreshInit   /\ (part = "freshness" \/ (policy = NoRules /\ response = Plain))
  /\ FastInit    /\ (part = "heads" \/ fastPlan = Unvaried)

Next ==
  /\ UNCHANGED part
  /\ \/ part = "routes" /\ RoutingNext /\ UNCHANGED <<keyVars, variantVars, freshVars, fastVars>>
     \/ part = "keys" /\ KeyNext /\ UNCHANGED <<routingVars, variantVars, freshVars, fastVars>>
     \/ part = "variants" /\ VariantNext /\ UNCHANGED <<routingVars, keyVars, freshVars, fastVars>>
     \/ part = "freshness" /\ FreshNext /\ UNCHANGED <<routingVars, keyVars, variantVars, fastVars>>
     \/ part = "heads" /\ FastNext /\ UNCHANGED <<routingVars, keyVars, variantVars, freshVars>>

Spec == Init /\ [][Next]_<<part, routingVars, keyVars, variantVars, freshVars, fastVars>>

\* The state of the part that is explored.
RequestsView ==
  CASE part = "routes"    -> routingVars
    [] part = "keys"      -> keyVars
    [] part = "variants"  -> variantVars
    [] part = "freshness" -> freshVars
    [] part = "heads"     -> fastVars

\* Every variable has the shape of the state it stands for.
RequestsTypeOK ==
  CASE part = "routes"    -> RoutingTypeOK
    [] part = "keys"      -> KeyTypeOK
    [] part = "variants"  -> VariantTypeOK
    [] part = "freshness" -> FreshTypeOK
    [] part = "heads"     -> FastTypeOK

\* What is stored may be, and every path takes it alike: the two copies of the
\* storage gate agree, and so do the gates kept in the object with those of
\* its Cache-Control.
StoredByTheRules == StoresOnlyShared /\ GatesAgree /\ PathsAgree

\* What is served is within what was licensed: by the origin when stale, by
\* the object when a request names a lifetime, and by this cache and the
\* origin for the caches downstream.
ServedWithinLicence ==
  StaleHasLicence /\ RequestsOnlyNarrow /\ DownstreamWithinWall /\ FillWithinBoth

\* A hit of the fast path is the hit of the full handler, in bytes that stay
\* as they were composed until they are written.
FastHitsAreHits == FastAsSlow /\ HeadsAreKept

\* What a peer's answer serves is of the asked variant, is asked for once, and
\* no request follows the hints of another.
PeerAnswersAreOurs == PeerVariantIsOurs /\ AsksOnce /\ HintsAreEarned

\* One key for one identity: the builders agree, the query counts as the
\* policy keeps it, cookies count alike however they are split, and what a
\* variant does not tell apart shares a flight; the origin is asked for what
\* the key claims, the preferred bucket and one target for the spellings of a
\* path that share a key.
OneKeyPerIdentity ==
  part = "keys" =>
    /\ BuildersAgree /\ QueryKeyIsWhatIsKept /\ CookieLinesAreOne /\ KeysAreNested
    /\ BucketIsPreferred /\ OriginAskedForTheBucket /\ OriginSeesOneTarget

\* The router is right about itself: a route or a pattern it reports as
\* shadowed never matches, and the fast path answers only as its route.
RoutesAreReported ==
  part = "routes" => ShadowedIsDead /\ ShadowedPatternIsDead /\ FastRouteIsRouters
=============================================================================
