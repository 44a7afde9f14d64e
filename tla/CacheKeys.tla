------------------------------ MODULE CacheKeys -----------------------------
(***************************************************************************)
(* What identifies a response: the primary key of a request (scheme, host, *)
(* path, query, method), the part of a query that a route's key policy     *)
(* keeps, the buckets of Accept-Encoding and Accept-Language, the cookies  *)
(* a route keys on, and the variant, flight and peer keys made of them.    *)
(*                                                                         *)
(* Source: internal/cache/key.go, keypolicy.go, vary.go, cookiename.go,    *)
(* path_rewrite.go, explain.go, the key builder of fastpath.go and the     *)
(* origin target of handler.go.                                            *)
(*                                                                         *)
(* Several builders compute each key, for the several forms a request has  *)
(* inside the proxy, and a purge computes it from a URL.  Names, values    *)
(* and paths are numbers in the order of their bytes; what is kept of a    *)
(* spelling is how it differs from the canonical one.  A hash is the tuple *)
(* it is computed from.                                                    *)
(***************************************************************************)
EXTENDS Naturals, Sequences, FiniteSets, Folds, Functions, SequencesExt

CONSTANTS
  Params,       \* query parameters a client may send
  StackPairs,   \* pairs sorted without decoding (8 in the code)
  QueryMax,     \* parameters of one query
  QueryPolicies,
  Items,        \* members of the two Accept lists
  ItemsMax,     \* members of one list
  Targets,      \* request targets
  RoutePaths,   \* what a route does to the path it sends to the origin
  HeaderPolicies,
  Selectors     \* the request fields that select a variant

VARIABLES
  asking,       \* which part of a request this behaviour builds
  keyPolicy,
  query,        \* the query so far
  accept,       \* the Accept-Encoding and Accept-Language lists so far
  target,       \* method, scheme, host and path
  selector      \* the selecting request fields

keyVars == <<asking, keyPolicy, query, accept, target, selector>>

-----------------------------------------------------------------------------
(* The query.  A parameter has a name n, a value v (0 is the empty value)  *)
(* and a spelling: "plain", "name" or "value" where one of the two is      *)
(* percent-encoded, "bad" where an escape in the value does not decode.    *)

\* KeyPolicy, the query half; an allowlist is there when allow is set, and
\* strip holds the names the exact and the prefix patterns match.
NoPolicy == [allow |-> FALSE, keep |-> {}, strip |-> {}, empty |-> FALSE, dedup |-> FALSE]

HasQueryPolicy(p) == p # NoPolicy

Escaped(x) == x.spelled # "plain"
Decodes(x) == x.spelled # "bad"

\* Names are compared as they are spelled on the wire.
SpelledIn(x, names) == x.spelled # "name" /\ x.n \in names
NamesOf(pairs) == {pairs[i][1] : i \in DOMAIN pairs}

\* shouldStripParam, of one undecoded segment.
ShouldStripParam(p, x, seen) ==
  \/ p.allow /\ ~SpelledIn(x, p.keep)
  \/ ~p.allow /\ p.empty /\ x.v = 0
  \/ SpelledIn(x, p.strip)
  \/ p.dedup /\ SpelledIn(x, seen)

\* The pass over the segments that neither decodes nor allocates; it gives up
\* at an escape, and at more pairs than its array holds.
ScanWith(strips(_, _), q) ==
  FoldLeft(LAMBDA acc, x :
             IF ~acc.simple \/ strips(x, NamesOf(acc.pairs)) THEN acc
             ELSE IF Escaped(x) \/ Len(acc.pairs) >= StackPairs
                  THEN [acc EXCEPT !.simple = FALSE]
                  ELSE [acc EXCEPT !.pairs = Append(@, <<x.n, x.v>>)],
           [simple |-> TRUE, pairs |-> <<>>], q)

\* sortPairs and writeSortedPairs: the text is that of the bag of pairs.
Sorted(pairs) == [x \in Range(pairs) |-> Cardinality({i \in DOMAIN pairs : pairs[i] = x})]

Decoded(q) == LET ok == SelectSeq(q, Decodes) IN [i \in DOMAIN ok |-> <<ok[i].n, ok[i].v>>]
OfName(pairs, n) == SelectSeq(pairs, LAMBDA x : x[1] = n)

SlowNoPolicy(q) == Decoded(q)

\* shouldStripParamSlow: the decision on a decoded name and all its values.
ShouldStripSlow(p, n, pairs) ==
  \/ p.allow /\ n \notin p.keep
  \/ n \in p.strip
  \/ ~p.allow /\ p.empty /\ pairs # <<>> /\ \A i \in DOMAIN pairs : pairs[i][2] = 0

\* Mutant: the decoding pass forgets what the policy strips.
SlowKeepsAll(p, q) == Decoded(q)

\* appendCanonicalQuerySlowString: of a duplicated name the first value is
\* taken before the empty values are dropped.
SlowQuery(p, q) ==
  LET all == Decoded(q)
      kept == {n \in NamesOf(all) : ~ShouldStripSlow(p, n, OfName(all, n))}
      chosen == [n \in kept |-> LET of == OfName(all, n) IN IF p.dedup THEN SubSeq(of, 1, 1) ELSE of]
      nonEmpty(s) == IF p.empty /\ ~p.allow THEN SelectSeq(s, LAMBDA x : x[2] # 0) ELSE s
  IN FoldSet(LAMBDA n, acc : acc \o nonEmpty(chosen[n]), <<>>, kept)

\* appendCanonicalQueryStringNoPolicy.
QueryNoPolicy(q) ==
  LET scan == ScanWith(LAMBDA x, seen : FALSE, q)
  IN IF scan.simple THEN scan.pairs ELSE SlowNoPolicy(q)

\* appendCanonicalQueryString.
CanonicalQuery(p, q) ==
  LET scan == ScanWith(LAMBDA x, seen : ShouldStripParam(p, x, seen), q)
  IN Sorted(IF ~HasQueryPolicy(p) THEN QueryNoPolicy(q)
            ELSE IF scan.simple THEN scan.pairs ELSE SlowQuery(p, q))

\* StrippedParamNames: what the explain plane reports as stripped.
StrippedParamNames(p, q) ==
  IF ~HasQueryPolicy(p) THEN {}
  ELSE {n \in {q[i].n : i \in DOMAIN q} : ShouldStripSlow(p, n, OfName(Decoded(q), n))}

-----------------------------------------------------------------------------
(* The Accept lists.  An Accept-Encoding member is a coding (3 br, 2 zstd, *)
(* 1 gzip, 0 any other) and a weight in tenths, an Accept-Language member  *)
(* a tag (0 is no tag: a wildcard or a malformed one), whether it is in    *)
(* capitals, and a weight.                                                 *)

Identity == 0

\* encodingBucket: the heaviest coding that is not refused; at the same
\* weight, the one of the higher rank.
EncodingBucket(list) ==
  FoldLeft(LAMBDA best, x :
             IF x.t # 0 /\ x.q > 0
                /\ (x.q > best.q \/ (x.q = best.q /\ x.t > best.t))
             THEN [t |-> x.t, q |-> x.q] ELSE best,
           [t |-> Identity, q |-> 0], list).t

NoTag == [t |-> 0, up |-> FALSE, q |-> 0]

\* langBucket: the heaviest tag; at the same weight the first in the order of
\* tags without case, and of one tag the spelling met first.
LangBucket(list) ==
  FoldLeft(LAMBDA best, x :
             IF x.t # 0 /\ x.q > 0 /\ (x.q > best.q \/ (x.q = best.q /\ x.t < best.t))
             THEN x ELSE best, NoTag, list)

\* normaliseListHeader and normalizeHeaderValue: the members in order; the
\* second one without case as well.
ListValue(list) == {<<x.t, x.up, x.q>> : x \in Range(list)}
FoldedList(list) == {<<x.t, x.q>> : x \in Range(list)}

\* rewriteOutboundAE: the origin is asked for the bucket the key claims.
RewriteOutboundAE(verbatim, a) ==
  LET coding == EncodingBucket(a.ae)
      tag == LangBucket(a.al)
  IN IF verbatim THEN a
     ELSE [ae |-> IF coding = Identity THEN <<>> ELSE <<[t |-> coding, up |-> FALSE, q |-> 10]>>,
           al |-> IF tag.t = 0 THEN a.al ELSE <<[tag EXCEPT !.q = 10]>>]

-----------------------------------------------------------------------------
(* Host, path and the primary key.  A path has an identity and a spelling: *)
(* "clean", "doubled" (a slash repeated), "dotted" (a dot segment),        *)
(* "escaped", or "empty" for the target without a path, which is "/".      *)

Root == 0

\* pathNeedsNormalization: what the URI parser of fasthttp would change.  A
\* doubled slash is not among it.
PathNeedsNormalization(path) == path.spelled \in {"dotted", "escaped", "empty"}

\* The path after that parser.
Clean(path) == [path EXCEPT !.spelled = "clean"]

\* appendCanonicalPathString and appendCanonicalPathBytes: repeated slashes
\* become one; no path is the root.
CanonicalPath(path) ==
  IF path.spelled \in {"doubled", "empty"} THEN Clean(path) ELSE path

\* appendCanonicalHost: lower case, and neither of the two default ports,
\* whatever the scheme.
CanonicalHost(host) ==
  [host EXCEPT !.up = FALSE, !.port = IF @ \in {80, 443} THEN 0 ELSE @]

NoHost == [name |-> 0, up |-> FALSE, port |-> 0]
KeyHost(includeHost, host) == IF includeHost THEN CanonicalHost(host) ELSE NoHost
KeyMethod(method) == IF method = "HEAD" THEN "GET" ELSE method

KeyOf(method, tls, host, path, includeHost) ==
  <<tls, KeyHost(includeHost, host), CanonicalPath(path), KeyMethod(method)>>

\* BuildKeyFast: the path is that of the parsed request.
BuildKeyFast(t, includeHost) ==
  KeyOf(t.method, t.tls, t.host, Clean(t.path), includeHost)

\* BuildKey of the snapshot of the request that outlives it.
BuildKey(t, includeHost) ==
  KeyOf(t.method, t.tls, t.host, Clean(t.path), includeHost)

\* buildKeyFromRaw: the path is that of the request line.
BuildKeyFromRaw(t, includeHost) ==
  KeyOf(t.method, t.tls, t.host, t.path, includeHost)

\* BuildKeyFromURL, of a purge: net/url has decoded the path, and what it did
\* not resolve is normalised by the parser of fasthttp.
BuildKeyFromURL(t, includeHost) ==
  LET parsed == IF t.path.spelled = "escaped" THEN Clean(t.path) ELSE t.path
      path == IF PathNeedsNormalization(parsed) THEN Clean(parsed) ELSE parsed
  IN KeyOf("GET", t.tls, t.host, path, includeHost)

\* TryHit takes a request whose path is already the normalised one.
FastPathTakes(t) == ~PathNeedsNormalization(t.path)

\* targetPath and canonicalOriginTarget.
CanonicalOriginTarget(path) ==
  IF PathNeedsNormalization(path) THEN Clean(path) ELSE path

\* StripRequestURI, on a path boundary: the routes' function r.strip says
\* what is left of a path, and a path that does not begin with the prefix
\* is left as it is.  The prefix is matched byte by byte.
StripRequestURI(r, path) ==
  IF path.spelled = "clean" THEN [path EXCEPT !.id = r.strip[@]] ELSE path

\* RewriteURI: no match, a result that is not absolute and one that is too
\* long leave the path alone (r.rewrite maps it to itself).
RewriteURI(r, path) ==
  IF path.spelled = "clean" THEN [path EXCEPT !.id = r.rewrite[@]] ELSE path

\* originURI: normalise, strip, rewrite.
OriginURI(r, path) == RewriteURI(r, StripRequestURI(r, CanonicalOriginTarget(path)))

-----------------------------------------------------------------------------
(* Cookies and the keys of a variant.  A selector holds the two Accept     *)
(* lists, a plain field x (a value and whether it is in capitals) and the  *)
(* lines of Cookie, each a sequence of a name and a value.                 *)

\* CookieAll, CookieValue, presenceCookieValue: all lines, as one; an empty
\* line adds nothing.
CookieAll(s) == FlattenSeq(s.cookies)

\* cookiePresenceValue: a bit for each listed name, nothing without cookies.
CookiePresenceValue(p, cookies) ==
  IF cookies = <<>> THEN {} ELSE {<<n, \E i \in DOMAIN cookies : cookies[i][1] = n>> : n \in p.presence}

\* cookieValuesValue: for each listed name its last value.
CookieValuesValue(p, cookies) ==
  IF cookies = <<>> THEN {}
  ELSE {<<n, LET of == OfName(cookies, n) IN IF of = <<>> THEN 0 ELSE Last(of)[2]>> : n \in p.values}

\* nameListed over one line, and the bypass that looks at line after line.
HasCookieName(names, line) == \E i \in DOMAIN line : line[i][1] \in names
CookieBypassTriggered(p, s) ==
  \E i \in DOMAIN s.cookies :
    s.cookies[i] # <<>> /\ (p.anyCookie \/ HasCookieName(p.bypass, s.cookies[i]))

\* cookieBypassTriggeredRaw: the same over the lines of the raw request.
CookieBypassTriggeredRaw(p, s) ==
  (p.anyCookie \/ p.bypass # {}) /\ \E i \in DOMAIN s.cookies :
    /\ s.cookies[i] # <<>>
    /\ p.anyCookie \/ HasCookieName(p.bypass, s.cookies[i])

\* computeDerivedVary: the fields the policy itself adds.
DerivedVary(p) ==
  p.include \union (IF p.presence # {} THEN {"presence"} ELSE {})
            \union (IF p.values # {} THEN {"values"} ELSE {})

\* varyHeaderValue: what a field adds to a variant key.
VaryHeaderValue(p, f, s) ==
  CASE f = "accept-encoding" -> IF p.verbatim THEN <<1, FoldedList(s.ae)>> ELSE <<0, EncodingBucket(s.ae)>>
    [] f = "accept-language" -> IF LangBucket(s.al).t = 0 THEN <<1, FoldedList(s.al)>> ELSE <<0, LangBucket(s.al).t>>
    [] f = "presence" -> <<0, CookiePresenceValue(p, CookieAll(s))>>
    [] f = "values" -> <<0, CookieValuesValue(p, CookieAll(s))>>
    [] OTHER -> <<0, s.x.v>>

\* varyAssertionValue: what it adds to the key a peer is asked for.
VaryAssertionValue(p, f, s) ==
  CASE f = "accept-encoding" -> IF p.verbatim THEN <<1, ListValue(s.ae)>> ELSE <<0, EncodingBucket(s.ae)>>
    [] f = "accept-language" -> IF LangBucket(s.al).t = 0 THEN <<1, ListValue(s.al)>> ELSE <<0, LangBucket(s.al).t>>
    [] f = "presence" -> <<0, CookiePresenceValue(p, CookieAll(s))>>
    [] f = "values" -> <<0, CookieValuesValue(p, CookieAll(s))>>
    [] OTHER -> <<s.x.v, s.x.up>>

\* variantKeyCore and variantKeySlow; the primary key alone is {}.
SelectedVariant(p, vary, s) ==
  IF "*" \in vary THEN {} ELSE {<<f, VaryHeaderValue(p, f, s)>> : f \in vary \ p.exclude}

\* varyAssertionHash and buildVaryKeyInto.
AssertedVariant(p, vary, s) == {<<f, VaryAssertionValue(p, f, s)>> : f \in vary \ p.exclude}

\* The suffix of the flight a miss joins, before the origin has said its Vary.
FlightVariant(p, s) == SelectedVariant(p, DerivedVary(p), s)

-----------------------------------------------------------------------------
(* The behaviours: a client puts a request together.                       *)

NoAccept == [ae |-> <<>>, al |-> <<>>]

KeyInit ==
  /\ query = <<>> /\ accept = NoAccept
  /\ \/ /\ asking = "query" /\ keyPolicy \in QueryPolicies
        /\ target = <<>> /\ selector = <<>>
     \/ /\ asking = "accept" /\ keyPolicy = NoPolicy
        /\ target = <<>> /\ selector = <<>>
     \/ /\ asking = "target" /\ keyPolicy \in RoutePaths
        /\ target \in Targets /\ selector = <<>>
     \/ /\ asking = "variant" /\ keyPolicy \in HeaderPolicies
        /\ target = <<>> /\ selector \in Selectors

AddParam ==
  /\ asking = "query" /\ Len(query) < QueryMax
  /\ \E x \in Params : query' = Append(query, x)
  /\ UNCHANGED <<asking, keyPolicy, accept, target, selector>>

AddItem(list) ==
  /\ asking = "accept" /\ Len(accept[list]) < ItemsMax
  /\ \E x \in Items : accept' = [accept EXCEPT ![list] = Append(@, x)]
  /\ UNCHANGED <<asking, keyPolicy, query, target, selector>>

KeyNext == AddParam \/ AddItem("ae") \/ AddItem("al")

KeySpec == KeyInit /\ [][KeyNext]_keyVars

KeyTypeOK ==
  /\ asking \in {"query", "accept", "target", "variant"}
  /\ Range(query) \subseteq Params /\ Len(query) <= QueryMax
  /\ \A l \in {"ae", "al"} : Range(accept[l]) \subseteq Items
  /\ asking = "query" =>
       Range(CanonicalQuery(keyPolicy, query)) \subseteq 1..QueryMax

-----------------------------------------------------------------------------
(* Properties.                                                             *)

\* What the configuration of a key policy asks for: the parameters left once
\* names are allowed, stripped, dropped when empty, and then de-duplicated.
WantedPairs(p, q) ==
  LET left == SelectSeq(Decoded(q), LAMBDA x :
                /\ p.allow => x[1] \in p.keep
                /\ x[1] \notin p.strip
                /\ (p.empty /\ ~p.allow) => x[2] # 0)
  IN FoldLeft(LAMBDA acc, x : IF p.dedup /\ x[1] \in NamesOf(acc) THEN acc ELSE Append(acc, x),
              <<>>, left)

\* The two queries whose key the two passes do not agree on: a duplicated name
\* whose empty value comes first, under dedup with strip_empty, and a name
\* that an allowlist has and the client percent-encoded.
Disputed(p, q) ==
  \/ p.dedup /\ p.empty /\ ~p.allow
  \/ p.allow /\ \E i \in DOMAIN q : q[i].spelled = "name"

\* Two requests have one key exactly when what the policy keeps of their
\* queries is one bag of parameters: not the order, not the spelling, not
\* the number of parameters (which chooses between the pass over the raw
\* text and the decoding one) tells them apart (appendCanonicalQueryString).
QueryKeyIsWhatIsKept ==
  asking = "query" /\ ~Disputed(keyPolicy, query) =>
    CanonicalQuery(keyPolicy, query) = Sorted(WantedPairs(keyPolicy, query))

\* The explain plane names exactly the parameters that the key leaves out
\* (explain.go: "so the derivation explain reports cannot drift from the key
\* the data plane computes").  It does not hold of an allowed name that is
\* sent percent-encoded.
ExplainTellsTheKey ==
  asking = "query" /\ (\A i \in DOMAIN query : Decodes(query[i])) =>
    StrippedParamNames(keyPolicy, query) =
      {query[i].n : i \in DOMAIN query} \ NamesOf(SetToSeq(DOMAIN CanonicalQuery(keyPolicy, query)))

Reorderings(list) == {[i \in DOMAIN list |-> list[pi[i]]] : pi \in Permutations(DOMAIN list)}

\* A bucket is a function of the set of members: a list in another order gets
\* the same one, it is one the client accepts, and none the client likes
\* better is left (encodingBucket, langBucket; vary.go: "the tie rule must
\* be a pure function of the candidate set").
BucketIsPreferred ==
  asking = "accept" =>
    /\ \A l \in Reorderings(accept.ae) : EncodingBucket(l) = EncodingBucket(accept.ae)
    /\ \A l \in Reorderings(accept.al) : LangBucket(l).t = LangBucket(accept.al).t
    /\ \A l \in {"ae", "al"} :
         LET bucket == IF l = "ae" THEN EncodingBucket(accept.ae) ELSE LangBucket(accept.al).t
             liked == {x \in Range(accept[l]) : x.t # 0 /\ x.q > 0}
         IN IF liked = {} THEN bucket = 0
            ELSE \E x \in liked : x.t = bucket /\ \A y \in liked : y.q <= x.q

\* The request a miss sends to the origin selects the variant under which the
\* answer will be stored: asking again with the rewritten lists selects the
\* same buckets (rewriteOutboundAE).
OriginAskedForTheBucket ==
  asking = "accept" =>
    LET out == RewriteOutboundAE(FALSE, accept)
    IN /\ Len(out.ae) <= 1 /\ EncodingBucket(out.ae) = EncodingBucket(accept.ae)
       /\ LangBucket(accept.al).t # 0 =>
            Len(out.al) = 1 /\ LangBucket(out.al).t = LangBucket(accept.al).t

\* Requests of one language bucket ask the origin with one spelling
\* (handler.go: "the origin must see one spelling per bucket").  It does not
\* hold: the winning tag goes out in the case it came in.
OneSpellingPerBucket ==
  asking = "accept" =>
    \A x \in Items :
      LangBucket(<<x>>).t # 0 /\ LangBucket(<<x>>).t = LangBucket(accept.al).t =>
        LangBucket(<<x>>).up = LangBucket(accept.al).up

\* The builders agree: the parsed request, its snapshot, the URL of a purge
\* and, where the fast path takes the request, the raw request line give one
\* key, so that what one path stores the others find and a purge deletes.
BuildersAgree ==
  asking = "target" =>
    \A includeHost \in BOOLEAN :
      LET key == BuildKeyFast(target, includeHost)
      IN /\ BuildKey(target, includeHost) = key
         /\ target.method \in {"GET", "HEAD"} => BuildKeyFromURL(target, includeHost) = key
         /\ FastPathTakes(target) => BuildKeyFromRaw(target, includeHost) = key

\* Two spellings of a path with one key are sent to the origin as one target
\* (canonicalOriginTarget: "The origin must receive the identity the key
\* claims").  A doubled slash is left out: the key makes one slash of it, and
\* the target keeps both until the HTTP client, which is not modelled.
OriginSeesOneTarget ==
  asking = "target" =>
    \A t \in Targets :
      /\ BuildKeyFast(t, TRUE)[3] = BuildKeyFast(target, TRUE)[3]
      /\ "doubled" \notin {t.path.spelled, target.path.spelled}
      => OriginURI(keyPolicy, t.path) = OriginURI(keyPolicy, target.path)

Varies == SUBSET {"accept-encoding", "accept-language", "x"}

\* Requests that a variant does not tell apart are in one flight, whatever the
\* origin varies on; and requests that ask a peer for one variant have one
\* variant key, so an answer that matches the question is ours to serve.
KeysAreNested ==
  asking = "variant" =>
    \A s \in Selectors, origin \in Varies :
      LET vary == origin \union DerivedVary(keyPolicy)
          one == SelectedVariant(keyPolicy, vary, s) = SelectedVariant(keyPolicy, vary, selector)
      IN /\ one => FlightVariant(keyPolicy, s) = FlightVariant(keyPolicy, selector)
         /\ AssertedVariant(keyPolicy, vary, s) = AssertedVariant(keyPolicy, vary, selector) => one

OneLine(s) == [s EXCEPT !.cookies = <<FlattenSeq(s.cookies)>>]

\* Cookies count the same on one line or on several: for the bypass, on both
\* request paths, and for the keys made of them.
CookieLinesAreOne ==
  asking = "variant" =>
    /\ SelectedVariant(keyPolicy, DerivedVary(keyPolicy), selector)
         = SelectedVariant(keyPolicy, DerivedVary(keyPolicy), OneLine(selector))
    /\ CookieBypassTriggered(keyPolicy, selector) = CookieBypassTriggered(keyPolicy, OneLine(selector))
    /\ CookieBypassTriggeredRaw(keyPolicy, selector) = CookieBypassTriggered(keyPolicy, selector)
=============================================================================
