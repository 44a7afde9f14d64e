------------------------------ MODULE BanList -------------------------------
(***************************************************************************)
(* The lazy bans of the hot tier: the ordered list of active bans, and the *)
(* two views of it that a cache hit reads without the list's mutex, the    *)
(* compiled snapshot of the pattern bans and the set of surrogate bans.    *)
(*                                                                         *)
(* Source: internal/storage/bans.go and the ban half of hot.go.            *)
(*                                                                         *)
(* An instant is a number; an object is known by the instant it was        *)
(* stored at.  The list holds at most one ban of a pattern (its index      *)
(* maps the pattern to it), so the pattern stands for the ban.  A pattern  *)
(* is of one of three classes: "surrogate" (a surrogate key and nothing    *)
(* else), "literal" (one host or path compared by equality), "predicate"   *)
(* (a prefix, a regular expression or several conditions, for which the    *)
(* closure compiled from the first expression is kept and evaluated).      *)
(***************************************************************************)
EXTENDS Naturals, SequencesExt

CONSTANTS
  Patterns,
  Class,        \* the class of each pattern
  BanCap,       \* bans the list holds
  BanTTL        \* how long a ban stays in the list

Classes == {"surrogate", "literal", "predicate"}

ASSUME BanListAssumption ==
  /\ Class \in [Patterns -> Classes]
  /\ {BanCap, BanTTL} \subseteq Nat \ {0}

VARIABLES
  now,
  list,         \* patterns in the order of registration
  ban,          \* index: pattern -> its ban, or NoBan
  rest,         \* the bans of list the snapshot is compiled from
  surr,         \* the published surrogate bans
  snap,         \* the published snapshot
  dirty         \* rest changed since snap was compiled

banVars == <<list, ban, rest, surr, snap, dirty>>

\* A ban's expression carries CreatedAt, or Unset; the closure compiled from
\* it keeps that.  The exemption instant always moves with created.
Unset == 0
NoBan == [created |-> 0, predAt |-> 0]
Bans == [created : Nat \ {0}, predAt : Nat]
Compiled == [pat : Patterns, exempt : Nat, predAt : Nat]

BansTypeOK ==
  /\ now \in Nat \ {0}
  /\ list \in Seq(Patterns) /\ rest \in Seq(Patterns)
  /\ ban \in [Patterns -> Bans \union {NoBan}]
  /\ surr \subseteq Patterns
  /\ snap \subseteq Compiled
  /\ dirty \in BOOLEAN

BansInit ==
  /\ now = 1
  /\ list = <<>> /\ rest = <<>>
  /\ ban = [p \in Patterns |-> NoBan]
  /\ surr = {}
  /\ snap = {}
  /\ dirty = FALSE

IsSurrogate(p) == Class[p] = "surrogate"
Listed == Range(list)
Without(s, gone) == SelectSeq(s, LAMBDA p : p \notin gone)
Expired(b, t) == t >= b.created + BanTTL

\* subjectTo: an object stored after the exemption instant is exempt.
SubjectTo(at, exempt) == at <= exempt

\* banSnapshot.matches: a literal is matched by its exemption instant alone,
\* the other patterns by the closure of the first registration as well.
PredHolds(predAt, at) == predAt = Unset \/ at <= predAt
SnapMatches(view, tags, at) ==
  \E c \in view :
    /\ c.pat \in tags
    /\ SubjectTo(at, c.exempt)
    /\ Class[c.pat] # "predicate" \/ PredHolds(c.predAt, at)

\* surrogateSet.matches: read through the shared ban, so a refresh shows.
SurrMatches(tags, at) ==
  \E p \in surr \intersect tags : SubjectTo(at, ban[p].created)

\* compileBanSnapshot: what has expired is skipped.
Compile(r, b, t) ==
  {[pat |-> p, exempt |-> b[p].created, predAt |-> b[p].predAt] :
     p \in {q \in Range(r) : ~Expired(b[q], t)}}

\* popExpiredHeadLocked: the expired bans before the first that is not.
ExpiredHeads(t) ==
  {list[i] : i \in {j \in 1..Len(list) : \A h \in 1..j : Expired(ban[list[h]], t)}}

\* The heads a new ban evicts from a full list.
OverCap(kept) == Range(SubSeq(kept, 1, Len(kept) + 1 - BanCap))

\* register: expired heads go first; a pattern the list holds is refreshed in
\* its place, and of its new expression only the instant is taken; another is
\* appended, once a full list has lost its head.
Register(p, at, createdAt) ==
  LET popped == ExpiredHeads(now)
      known == p \in Listed \ popped
      gone == IF known THEN popped ELSE popped \union OverCap(Without(list, popped))
      predAt == IF known THEN ban[p].predAt ELSE at
      add == IF known THEN <<>> ELSE <<p>>
  IN /\ list' = Without(list, gone) \o add
     /\ ban' = [q \in Patterns |->
                  IF q = p THEN [created |-> createdAt, predAt |-> predAt]
                  ELSE IF q \in gone THEN NoBan ELSE ban[q]]
     /\ surr' = (surr \ gone) \union {q \in {p} : IsSurrogate(q)}
     /\ rest' = Without(rest, gone) \o SelectSeq(add, LAMBDA q : ~IsSurrogate(q))
     /\ dirty' = (dirty \/ \E q \in gone \union {p} : ~IsSurrogate(q))
     /\ UNCHANGED snap

\* pruneExpired: every expired ban goes, and the snapshot is recompiled.
PruneExpired(t) ==
  LET gone == {p \in Listed : Expired(ban[p], t)}
  IN /\ list' = Without(list, gone)
     /\ ban' = [p \in Patterns |-> IF p \in gone THEN NoBan ELSE ban[p]]
     /\ surr' = surr \ gone
     /\ rest' = Without(rest, gone)
     /\ snap' = Compile(rest', ban', t)
     /\ dirty' = FALSE

\* rebuildLocked, of a caller that found the snapshot dirty; another may have
\* rebuilt it before the caller had the mutex.
RebuildIfDirty ==
  /\ snap' = IF dirty THEN Compile(rest, ban, now) ELSE snap
  /\ dirty' = FALSE
  /\ UNCHANGED <<list, ban, rest, surr>>

\* The views agree with the list (checkBanInvariants of bans_index_test.go,
\* after every interleaving): the list is within its cap and holds a pattern
\* once; the index, the surrogate set and rest are its projections; and a
\* snapshot that is not dirty has every ban of rest that has not expired,
\* with its present instants.
BanViewsAgree ==
  /\ Len(list) <= BanCap /\ IsInjective(list)
  /\ \A p \in Patterns : ban[p] # NoBan <=> p \in Listed
  /\ surr = {p \in Listed : IsSurrogate(p)}
  /\ rest = SelectSeq(list, LAMBDA p : ~IsSurrogate(p))
  /\ ~dirty =>
       /\ snap \subseteq Compile(rest, ban, 0)
       /\ Compile(rest, ban, now) \subseteq snap
=============================================================================
