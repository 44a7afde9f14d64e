------------------------------- MODULE Routing ------------------------------
(***************************************************************************)
(* Which route and which traffic class a request belongs to: the table the *)
(* engine builds from the configuration, its report of routes and patterns *)
(* that can never match, and the three readers of it: the router, the      *)
(* fast path of the HTTP/1 listeners, and the administrator's lookups.     *)
(*                                                                         *)
(* Source: internal/server/router.go, routeshadow.go, routedfastpath.go,   *)
(* trafficclass.go, the route builders of cmd/bouine/cmd/builder.go and    *)
(* engine.go, keysfn.go and the route checks of internal/config/loader.go. *)
(*                                                                         *)
(* A host and a path are short sequences of tokens: "." ends a label, ":"  *)
(* a port follows, "A" is "a" in upper case, "%a" is "a" escaped.  A       *)
(* regular expression is its name and the paths it matches.  The table is  *)
(* complete before the first request (NewRoutedFastPath).                  *)
(***************************************************************************)
EXTENDS Naturals, FiniteSetsExt, SequencesExt

CONSTANTS
  RoutePlans,   \* configurations and the requests sent to them
  RoutesMax,    \* routes of one table
  Regexes       \* name of a regular expression -> the paths it matches

VARIABLES
  routePlan,    \* [routes, hosts, paths, methods, classes]
  table,        \* Router.routes
  dead,         \* Router.shadows: positions reported as never matching
  sent          \* the request, or NoRequest

routingVars == <<routePlan, table, dead, sent>>

-----------------------------------------------------------------------------
(* Patterns of hosts.                                                      *)

AnyHost == <<>>
Folded(h) == [i \in DOMAIN h |-> IF h[i] = "A" THEN "a" ELSE h[i]]

\* stripHostPort: from the last colon on, unless it is the first byte.
StripHostPort(h) ==
  LET colons == {i \in 2..Len(h) : h[i] = ":"}
  IN IF colons = {} THEN h ELSE SubSeq(h, 1, Max(colons) - 1)

Wild(p) == Len(p) >= 2 /\ p[1] = "*" /\ p[2] = "."

\* compileRouteHost and compileTrafficPattern.
CompileRouteHost(p) ==
  IF Wild(p) THEN [kind |-> "suffix", match |-> Tail(Folded(p))]
  ELSE [kind |-> "exact", match |-> Folded(p)]

CompileTrafficPattern(p) ==
  IF ~Wild(p) /\ p[Len(p)] = "*" THEN [kind |-> "prefix", match |-> Front(Folded(p))]
  ELSE CompileRouteHost(p)

SuffixMatches(s, h) == Len(h) > Len(s) /\ IsSuffix(s, Folded(h))

\* "www.example.*" wants a label after the dot, "www.example*" nothing.
PrefixMatches(s, h) ==
  IsPrefix(s, Folded(h)) /\ (Len(h) > Len(s) \/ s[Len(s)] # ".")

\* hostMatches, and the loops of Classify over one class's patterns.
HostMatches(p, h) ==
  IF p.kind = "suffix" THEN SuffixMatches(p.match, h)
  ELSE p.match = AnyHost \/ p.match = Folded(h)

PatternMatches(p, h) ==
  IF p.kind = "prefix" THEN PrefixMatches(p.match, h)
  ELSE IF p.kind = "suffix" THEN SuffixMatches(p.match, h)
  ELSE p.match = Folded(h)

\* patternShadows
PatternShadows(a, b) ==
  CASE b.kind = "exact" /\ a.kind = "exact"   -> a.match = b.match
    [] b.kind = "exact" /\ a.kind = "suffix"  -> /\ Len(b.match) > Len(a.match)
                                                 /\ IsSuffix(a.match, b.match)
    [] b.kind = "exact" /\ a.kind = "prefix"  -> /\ IsPrefix(a.match, b.match)
                                                 /\ \/ Len(b.match) > Len(a.match)
                                                    \/ a.match[Len(a.match)] # "."
    [] b.kind = "suffix"                      -> a.kind = "suffix" /\ IsSuffix(a.match, b.match)
    [] OTHER                                  -> a.kind = "prefix" /\ IsPrefix(a.match, b.match)

-----------------------------------------------------------------------------
(* Traffic classes: a sequence of sets of patterns; a class is its place   *)
(* in it and 0 is "unclassified".                                          *)

FirstIn(places) == IF places = {} THEN 0 ELSE Min(places)

Classify(classes, h) ==
  FirstIn({i \in DOMAIN classes :
    \E p \in classes[i] : PatternMatches(CompileTrafficPattern(p), StripHostPort(h))})

\* detectShadowedPatterns: the patterns of each class an earlier one covers.
ShadowedPatterns(classes) ==
  [i \in DOMAIN classes |->
     {p \in classes[i] : \E j \in 1..(i - 1) : \E q \in classes[j] :
        PatternShadows(CompileTrafficPattern(q), CompileTrafficPattern(p))}]

-----------------------------------------------------------------------------
(* Routes.  A configured route has a host pattern, a predicate on the path *)
(* ("none", "prefix" or "regex"), methods ({} is all), what serves it, and *)
(* its key policy (0 is the default one).                                  *)

NoRequest == [host |-> AnyHost, path |-> <<>>, method |-> ""]

\* validateRoute, validateRouteMatch, validRouteHostPattern: at most one
\* predicate on the path (by the form of the record); a star only in a
\* leading "*."; a key without the host only where no host is asked for.
AcceptsRoute(r) ==
  /\ \A i \in DOMAIN r.host : r.host[i] = "*" => (i = 1 /\ Wild(r.host) /\ Len(r.host) > 2)
  /\ r.key = "hostless" => r.host = AnyHost

\* Route.Name, derived when the file gives none.
NameOf(r) == <<r.host, r.path>>

\* A pool route is cached unless it says otherwise, a static one only when
\* it says so.  "failed" has no pool, or a root that cannot be opened.
CachedPool(r) == r.serves = "cached"
CachedStatic(r) == r.serves = "cachedStatic"
Caches(r) == CachedPool(r) \/ CachedStatic(r)

\* Mutant: a route that is not cached has a fast path too.
LowerUncached(r) ==
  [host |-> CompileRouteHost(r.host), path |-> r.path, methods |-> r.methods,
   fast |-> r.serves # "failed", caches |-> Caches(r), key |-> r.key, name |-> NameOf(r),
   handler |-> IF CachedPool(r) THEN NameOf(r) ELSE <<>>]

\* The entry addRoute stores: the fast path is there for a cached route, and
\* the name its handler is known by for a cached pool route only.
Lower(r) ==
  [host |-> CompileRouteHost(r.host), path |-> r.path, methods |-> r.methods,
   fast |-> Caches(r), caches |-> Caches(r), key |-> r.key, name |-> NameOf(r),
   handler |-> IF CachedPool(r) THEN NameOf(r) ELSE <<>>]

PathMatches(pred, path) ==
  CASE pred.kind = "none"   -> TRUE
    [] pred.kind = "prefix" -> IsPrefix(pred.p, path)
    [] pred.kind = "regex"  -> path \in Regexes[pred.re]

\* matchRoute; no method is "".
MatchRoute(host, path, method) ==
  FirstIn({i \in DOMAIN table :
    /\ HostMatches(table[i].host, StripHostPort(host))
    /\ PathMatches(table[i].path, path)
    /\ method = "" \/ table[i].methods = {} \/ method \in table[i].methods})

\* hostCovers, pathCovers, methodsCovers and routeShadowsRoute.
HostCovers(a, b) ==
  \/ a.match = AnyHost
  \/ b.match # AnyHost /\ PatternShadows(a, b)

PathCovers(a, b) ==
  \/ a.kind = "none"
  \/ a.kind = "prefix" /\ b.kind = "prefix" /\ IsPrefix(a.p, b.p)
  \/ a.kind = "regex" /\ b.kind = "regex" /\ a.re = b.re

MethodsCovers(a, b) == a = {} \/ (b # {} /\ b \subseteq a)

\* Mutant: the methods are compared the other way round.
ShadowsByMethods(a, b) ==
  /\ HostCovers(a.host, b.host)
  /\ PathCovers(a.path, b.path)
  /\ MethodsCovers(b.methods, a.methods)

RouteShadowsRoute(a, b) ==
  /\ HostCovers(a.host, b.host)
  /\ PathCovers(a.path, b.path)
  /\ MethodsCovers(a.methods, b.methods)

\* buildRouter, one route of the file: a failed one is skipped, another is
\* reported when an earlier entry covers it, and added all the same.
BuildRoute(r) ==
  /\ Len(table) < RoutesMax /\ sent = NoRequest
  /\ AcceptsRoute(r)
  /\ IF r.serves = "failed" THEN UNCHANGED <<table, dead>>
     ELSE LET e == Lower(r)
          IN /\ table' = Append(table, e)
             /\ dead' = IF \E i \in DOMAIN table : RouteShadowsRoute(table[i], e)
                        THEN dead \union {Len(table) + 1} ELSE dead
  /\ UNCHANGED <<routePlan, sent>>

-----------------------------------------------------------------------------
(* Requests.                                                               *)

\* Context.Path of the HTTP library: escapes decoded, slashes collapsed.
DecodedPath(path) == [i \in DOMAIN path |-> IF path[i] = "%a" THEN "a" ELSE path[i]]
SlashAgain(path) == {i \in 2..Len(path) : path[i] = "/" /\ path[i - 1] = "/"}
NormalPath(path) ==
  LET d == DecodedPath(path)
  IN FoldLeft(LAMBDA acc, i : IF i \in SlashAgain(d) THEN acc ELSE Append(acc, d[i]),
              <<>>, [i \in DOMAIN d |-> i])

\* ServeRequest: the route that serves the request, 0 where there is none.
SlowRoute(q) == MatchRoute(q.host, NormalPath(q.path), q.method)

\* The gate of a route's own fast path (qualifiesForFastPath).
Spelled(path) == \E i \in DOMAIN path : path[i] = "%a"

QualifiesForFast(q) == q.method \in {"GET", "HEAD"} /\ ~Spelled(q.path)

\* buildFastPath: the listeners have a fast path once a route caches.
FastPathOn == \E i \in DOMAIN table : table[i].caches

\* RoutedFastPath.TryHit: the route whose fast path may answer, or 0.
FastRoute(q) ==
  LET i == MatchRoute(q.host, q.path, q.method)
  IN IF FastPathOn /\ i # 0 /\ table[i].fast /\ QualifiesForFast(q) THEN i ELSE 0

\* routeForURL, policyForURL: no method is known, and the handler is found by
\* the label of the route, among all the handlers.
PolicyForURL(host, path) ==
  LET i == MatchRoute(host, path, "")
      j == FirstIn({k \in DOMAIN table : i # 0 /\ table[k].caches
                                         /\ table[k].handler = table[i].name})
  IN IF j = 0 THEN "default" ELSE table[j].key

Send(h, p, m) ==
  /\ sent = NoRequest /\ table # <<>>
  /\ sent' = [host |-> h, path |-> p, method |-> m]
  /\ UNCHANGED <<routePlan, table, dead>>

RoutingInit ==
  /\ routePlan \in RoutePlans
  /\ table = <<>> /\ dead = {}
  /\ sent = NoRequest

RoutingNext ==
  \/ \E r \in routePlan.routes : BuildRoute(r)
  \/ \E h \in routePlan.hosts, p \in routePlan.paths, m \in routePlan.methods : Send(h, p, m)

RoutingSpec == RoutingInit /\ [][RoutingNext]_routingVars

-----------------------------------------------------------------------------

\* Every position reported is one of the table, and a request is one of the
\* plan's or none.
RoutingTypeOK ==
  /\ Len(table) <= RoutesMax
  /\ dead \subseteq DOMAIN table \ {1}
  /\ \A i \in DOMAIN table : table[i].fast => table[i].caches
  /\ sent = NoRequest \/ (sent.host \in routePlan.hosts /\ sent.path \in routePlan.paths)

\* A finding is never false (routeShadowsRoute: "a false finding would send
\* operators chasing a ghost"): no request is served, by either path, by a
\* route that was reported as one that can never match.
ShadowedIsDead ==
  sent # NoRequest => {SlowRoute(sent), FastRoute(sent)} \intersect dead = {}

\* The same of traffic classes: without the patterns reported as shadowed,
\* every host has the class it has with them.
ShadowedPatternIsDead ==
  \A classes \in routePlan.classes :
    LET lost == ShadowedPatterns(classes)
        kept == [i \in DOMAIN classes |-> classes[i] \ lost[i]]
    IN Classify(classes, sent.host) = Classify(kept, sent.host)

\* The fast path answers a request only as the route that the router would
\* serve it by: a hit under another route's policies is "wrong content, not
\* just wrong metrics" (RoutedFastPath).  Of a path without a doubled slash.
FastRouteIsRouters ==
  (sent # NoRequest /\ SlashAgain(sent.path) = {} /\ FastRoute(sent) # 0)
    => FastRoute(sent) = SlowRoute(sent)

\* The same of every path ("the same authority the router's ServeRequest has",
\* TryHit), where there can be an object to hit: the route that serves the
\* path caches, under keys of the same form.  It does not hold: a doubled
\* slash is routed as sent on the fast path and cleaned on the other.
SameAuthority ==
  LET i == FastRoute(sent)
      j == SlowRoute(sent)
  IN (0 \notin {i, j} /\ table[j].caches /\ table[j].key = table[i].key) => i = j

\* policyForURL "resolves the cache key policy the data plane would apply to a
\* URL": the policy of the route that caches a GET of it.  It does not hold: a
\* cached static route has no name for routeForURL to find.
AdminPolicyIsRoutes ==
  LET i == SlowRoute(sent)
  IN (sent.method = "GET" /\ i # 0 /\ table[i].caches)
       => PolicyForURL(sent.host, NormalPath(sent.path)) = table[i].key
=============================================================================
