--------------------------- MODULE MCTieredStore ----------------------------
(***************************************************************************)
(* Instances of TieredStore for TLC.                                       *)
(***************************************************************************)
EXTENDS TieredStore

CONSTANTS c1, c2, k1, k2, tag, host, glob

ClassOf == tag :> "surrogate" @@ host :> "literal" @@ glob :> "predicate"

\* The objects of k1 match one pattern of each kind, those of k2 one.
Tags == k1 :> {tag, host, glob} @@ k2 :> {tag}

Calm ==
  [puts |-> 0, gets |-> 0, deletes |-> 0, bans |-> 0, reaps |-> 0,
   callers |-> {c1, c2}, keys |-> {k1}, patterns |-> {}, dated |-> FALSE,
   tight |-> FALSE, syncs |-> TRUE, loaded |-> {}, legacy |-> {}]

\* Tiers short of room: two writers of a key, and one of two keys beside the
\* sync loop.
WritersPlan == [Calm EXCEPT !.puts = 2, !.deletes = 1, !.tight = TRUE, !.syncs = FALSE]
PressurePlan == [Calm EXCEPT !.puts = 2, !.tight = TRUE, !.callers = {c1}, !.keys = {k1, k2}]
\* Promotions of copies from before the start, one of them unreadable.
PromotionPlan ==
  [Calm EXCEPT !.gets = 2, !.puts = 1, !.keys = {k1, k2}, !.tight = TRUE, !.syncs = FALSE,
               !.callers = {c1, c2}, !.loaded = {k1}, !.legacy = {k2}]
\* With room and the sync loop: overwrites, then a Delete and the reaper.
RoomPlan == [Calm EXCEPT !.puts = 2]
ReapPlan == [Calm EXCEPT !.puts = 1, !.deletes = 1, !.reaps = 1]
\* Bans beside the Gets they are about, of objects of either tier.
BanPlan == [Calm EXCEPT !.gets = 2, !.bans = 2, !.patterns = {tag, host}, !.syncs = FALSE, !.loaded = {k1}]
DatedPlan ==
  [Calm EXCEPT !.puts = 2, !.gets = 1, !.bans = 2, !.patterns = {glob}, !.dated = TRUE, !.syncs = FALSE,
               !.callers = {c1}]
SyncBanPlan == [Calm EXCEPT !.puts = 1, !.gets = 1, !.bans = 1, !.patterns = {host}]
\* The ban list alone, past its cap and its expiry.
ListPlan ==
  [Calm EXCEPT !.bans = 4, !.reaps = 2, !.patterns = {tag, host, glob}, !.dated = TRUE, !.keys = {},
               !.callers = {c1}, !.syncs = FALSE]

TieredPlans ==
  {WritersPlan, PressurePlan, PromotionPlan, RoomPlan, ReapPlan, BanPlan, DatedPlan, SyncBanPlan,
   ListPlan}
StrandedPlans == {[Calm EXCEPT !.puts = 1, !.tight = TRUE, !.syncs = FALSE]}

\* The tiers and the bans keep in step: no banned object is served, what a
\* hit reads of the bans is what the list holds, every protected key is
\* accounted for, and all state is of its type.
TiersAgree == TypeOK /\ BannedNeverServed /\ BanViewsAgree /\ ProtectedAccounted
=============================================================================
