---------------------------- MODULE Invalidation ----------------------------
(***************************************************************************)
(* The delivery of one node's invalidation events to its peers: the flush  *)
(* of a batch over HTTP and gossip, the peers' handlers, and the dedup     *)
(* they share.  The batcher is represented by what it promises             *)
(* (EventFanout), which InvalidationBatcher implements.                    *)
(*                                                                         *)
(* Sources: internal/cluster/broadcast.go, cluster.go, handlers.go and     *)
(* cmd/bouine/cmd/engine.go.                                               *)
(*                                                                         *)
(* A gossip frame carries any part of a batch, so its events travel on     *)
(* their own here.                                                         *)
(***************************************************************************)
EXTENDS SeqWindow, FiniteSets

CONSTANTS
  Events,       \* invalidations issued by the node
  Peers,        \* the other members
  Flushers,     \* goroutines that may flush at one time
  None,
  MaxFail,      \* bound: applications to the store that fail
  MaxAgain,     \* bound: gossip datagrams the network duplicates
  MaxRestart    \* bound: restarts of the issuing node under its name

Posts == [batch : SUBSET Events, peer : Peers, todo : SUBSET Events, cur : Events \union {None}]
Flushes == [batch : SUBSET Events, waiting : SUBSET Peers]

ASSUME InvalidationAssumption ==
  /\ None \notin Events \union Windows \union Flushes
  /\ {MaxFail, MaxAgain, MaxRestart} \subseteq Nat

VARIABLES
  strong,       \* cluster mode strong, or else eventual
  seq,          \* the issuer's counter
  seqOf,        \* the Seq of an event
  pending,      \* events the broadcaster holds
  fanned,       \* events whose flush has returned
  flush,        \* Flushers -> the batch and the peers still awaited
  posts,        \* HTTP requests under way or in a peer's handler
  acked,        \* <<event, peer>> answered with 200
  gossipQueue,  \* frames for the next gossip rounds
  wire,         \* <<event, peer>> datagrams
  win,          \* the peer's window for this issuer, or None
  gossiping,    \* the event the peer's gossip goroutine applies
  applied,      \* peer -> event -> times it was applied to the store
  lost,         \* ghost: <<event, peer, path>> that never reached the peer
  failed,       \* ghost: <<event, peer, path>> whose application failed
  again,
  restarts

issuer == <<seq, seqOf, pending, fanned, flush>>
ghosts == <<lost, failed, again, restarts>>
invalVars == <<strong, issuer, posts, acked, gossipQueue, wire, win, gossiping, applied, ghosts>>

Fanout == INSTANCE EventFanout

InvalInit ==
  /\ strong \in BOOLEAN
  /\ seq = 0 /\ seqOf = [e \in Events |-> 0]
  /\ Fanout!Init
  /\ flush = [f \in Flushers |-> None]
  /\ posts = {} /\ acked = {} /\ gossipQueue = {} /\ wire = {}
  /\ win = [p \in Peers |-> None]
  /\ gossiping = [p \in Peers |-> None]
  /\ applied = [p \in Peers |-> [e \in Events |-> 0]]
  /\ lost = {} /\ failed = {} /\ again = 0 /\ restarts = 0
-----------------------------------------------------------------------------
(* The issuer.                                                             *)

\* A Broadcast call takes the next Seq and hands the event to the batcher.
Issue(e) ==
  /\ seqOf[e] = 0
  /\ Fanout!Submit(e)
  /\ seq' = seq + 1
  /\ seqOf' = [seqOf EXCEPT ![e] = seq + 1]
  /\ UNCHANGED <<strong, flush, posts, acked, gossipQueue, wire, win, gossiping, applied, ghosts>>

InFlush == UNION {flush[f].batch : f \in {g \in Flushers : flush[g] # None}}

\* flushBatch: in strong mode one request goes to every peer.
FlushStart(f) ==
  /\ flush[f] = None
  /\ \E batch \in SUBSET (pending \ InFlush) :
       /\ batch # {}
       /\ flush' = [flush EXCEPT ![f] =
                      [batch |-> batch, waiting |-> IF strong THEN Peers ELSE {}]]
       /\ posts' = IF strong
                   THEN posts \union {[batch |-> batch, peer |-> p, todo |-> batch, cur |-> None] : p \in Peers}
                   ELSE posts
  /\ UNCHANGED <<strong, seq, seqOf, pending, fanned, acked, gossipQueue, wire, win, gossiping, applied, ghosts>>

\* The answer of peer p to the request for a batch, if it is still awaited.
Answer(batch, p) ==
  flush' = [f \in Flushers |->
              IF flush[f] # None /\ flush[f].batch = batch
              THEN [flush[f] EXCEPT !.waiting = @ \ {p}]
              ELSE flush[f]]

Awaited(batch, p) ==
  \E f \in Flushers : flush[f] # None /\ flush[f].batch = batch /\ p \in flush[f].waiting

\* broadcastTimeout; the request may still arrive, or its handler go on.
PostTimeout(f, p) ==
  /\ flush[f] # None /\ p \in flush[f].waiting
  /\ flush' = [flush EXCEPT ![f].waiting = @ \ {p}]
  /\ UNCHANGED <<strong, seq, seqOf, pending, fanned, posts, acked, gossipQueue, wire, win, gossiping, applied, ghosts>>

\* Every peer has answered or timed out: gossip is queued, in eventual mode
\* also sent to each member, and the flush returns.
FlushGossip(f) ==
  /\ flush[f] # None /\ flush[f].waiting = {}
  /\ Fanout!Fan(flush[f].batch)
  /\ gossipQueue' = gossipQueue \union flush[f].batch
  /\ wire' = IF strong THEN wire ELSE wire \union (flush[f].batch \X Peers)
  /\ flush' = [flush EXCEPT ![f] = None]
  /\ UNCHANGED <<strong, seq, seqOf, posts, acked, win, gossiping, applied, ghosts>>

\* GetBroadcasts drains the queue into a round; memberlist picks who gets it.
GossipRound(e) ==
  /\ e \in gossipQueue
  /\ gossipQueue' = gossipQueue \ {e}
  /\ \E to \in SUBSET Peers :
       /\ wire' = wire \union ({e} \X to)
       /\ lost' = IF strong THEN lost \union {<<e, p, "gossip">> : p \in Peers \ to} ELSE lost
  /\ UNCHANGED <<strong, issuer, posts, acked, win, gossiping, applied, failed, again, restarts>>

\* The process dies and comes back under its name: what it held is gone and
\* its Seqs start again.
Restart ==
  /\ restarts < MaxRestart
  /\ restarts' = restarts + 1
  /\ seq' = 0 /\ pending' = {} /\ gossipQueue' = {}
  /\ flush' = [f \in Flushers |-> None]
  /\ UNCHANGED <<strong, seqOf, fanned, posts, acked, wire, win, gossiping, applied, lost, failed, again>>
-----------------------------------------------------------------------------
(* The network.                                                            *)

PostLost(r) ==
  /\ r.todo = r.batch /\ r.cur = None
  /\ posts' = posts \ {r}
  /\ lost' = lost \union {<<e, r.peer, "http">> : e \in r.batch}
  /\ UNCHANGED <<strong, issuer, acked, gossipQueue, wire, win, gossiping, applied, failed, again, restarts>>

GossipLost(e, p) ==
  /\ <<e, p>> \in wire
  /\ wire' = wire \ {<<e, p>>}
  /\ lost' = lost \union {<<e, p, "gossip">>}
  /\ UNCHANGED <<strong, issuer, posts, acked, gossipQueue, win, gossiping, applied, failed, again, restarts>>
-----------------------------------------------------------------------------
(* A peer.                                                                 *)

IsSeen(p, e) == win[p] # None /\ Dropped(win[p], seqOf[e])

\* SeenFromPeer records the event before it is applied.
MarkSeen(p, e) ==
  win' = [win EXCEPT ![p] = IF @ = None THEN FirstSeen(seqOf[e]) ELSE Recorded(@, seqOf[e])]

\* Mutant: an event already seen ends the batch.
HandlerStopsAtSeen(r, e) ==
  /\ r.cur = None /\ e \in r.todo
  /\ posts' = (posts \ {r}) \union
              {IF IsSeen(r.peer, e) THEN [r EXCEPT !.todo = {}] ELSE [r EXCEPT !.cur = e]}
  /\ MarkSeen(r.peer, e)
  /\ UNCHANGED <<strong, issuer, acked, gossipQueue, wire, gossiping, applied, ghosts>>

\* The batch endpoint takes its next event and drops one already seen.
HandlerMark(r, e) ==
  /\ r.cur = None /\ e \in r.todo
  /\ posts' = (posts \ {r}) \union
              {IF IsSeen(r.peer, e) THEN [r EXCEPT !.todo = @ \ {e}] ELSE [r EXCEPT !.cur = e]}
  /\ MarkSeen(r.peer, e)
  /\ UNCHANGED <<strong, issuer, acked, gossipQueue, wire, gossiping, applied, ghosts>>

HandlerApply(r) ==
  /\ r.cur # None
  /\ applied' = [applied EXCEPT ![r.peer][r.cur] = @ + 1]
  /\ posts' = (posts \ {r}) \union {[r EXCEPT !.todo = @ \ {r.cur}, !.cur = None]}
  /\ UNCHANGED <<strong, issuer, acked, gossipQueue, wire, win, gossiping, ghosts>>

\* An error ends the request with a 500; the rest of the batch is not tried.
HandlerFails(r) ==
  /\ r.cur # None /\ Cardinality(failed) < MaxFail
  /\ failed' = failed \union {<<r.cur, r.peer, "http">>}
  /\ lost' = lost \union {<<e, r.peer, "http">> : e \in r.todo \ {r.cur}}
  /\ posts' = posts \ {r}
  /\ Answer(r.batch, r.peer)
  /\ UNCHANGED <<strong, seq, seqOf, pending, fanned, acked, gossipQueue, wire, win, gossiping, applied, again, restarts>>

HandlerDone(r) ==
  /\ r.cur = None /\ r.todo = {}
  /\ posts' = posts \ {r}
  /\ Answer(r.batch, r.peer)
  /\ acked' = IF Awaited(r.batch, r.peer) THEN acked \union (r.batch \X {r.peer}) ELSE acked
  /\ UNCHANGED <<strong, seq, seqOf, pending, fanned, gossipQueue, wire, win, gossiping, applied, ghosts>>

\* The gossip goroutine takes a datagram, which the network may deliver again.
GossipMark(e, p) ==
  /\ gossiping[p] = None /\ <<e, p>> \in wire
  /\ \/ wire' = wire \ {<<e, p>>} /\ UNCHANGED again
     \/ again < MaxAgain /\ again' = again + 1 /\ UNCHANGED wire
  /\ gossiping' = [gossiping EXCEPT ![p] = IF IsSeen(p, e) THEN None ELSE e]
  /\ MarkSeen(p, e)
  /\ UNCHANGED <<strong, issuer, posts, acked, gossipQueue, applied, lost, failed, restarts>>

GossipApply(p) ==
  /\ gossiping[p] # None
  /\ applied' = [applied EXCEPT ![p][gossiping[p]] = @ + 1]
  /\ gossiping' = [gossiping EXCEPT ![p] = None]
  /\ UNCHANGED <<strong, issuer, posts, acked, gossipQueue, wire, win, ghosts>>

\* The store is slower than gossip_apply_timeout, or returns an error.
GossipFails(p) ==
  /\ gossiping[p] # None /\ Cardinality(failed) < MaxFail
  /\ failed' = failed \union {<<gossiping[p], p, "gossip">>}
  /\ gossiping' = [gossiping EXCEPT ![p] = None]
  /\ UNCHANGED <<strong, issuer, posts, acked, gossipQueue, wire, win, applied, lost, again, restarts>>

IssuerStep ==
  \/ \E e \in Events : Issue(e) \/ GossipRound(e)
  \/ \E f \in Flushers : FlushStart(f) \/ FlushGossip(f) \/ \E p \in Peers : PostTimeout(f, p)
  \/ Restart

Handler(r) ==
  \/ PostLost(r) \/ HandlerApply(r) \/ HandlerFails(r) \/ HandlerDone(r)
  \/ \E e \in Events : HandlerMark(r, e)

Gossip(p) ==
  \/ GossipApply(p) \/ GossipFails(p)
  \/ \E e \in Events : GossipMark(e, p) \/ GossipLost(e, p)

\* Every event has been issued and nothing of it is under way.
Quiet(e, p) ==
  /\ seqOf[e] # 0 /\ e \notin pending \union gossipQueue
  /\ \A r \in posts : r.peer = p => e \notin r.batch
  /\ <<e, p>> \notin wire /\ gossiping[p] # e

Settled ==
  /\ \A e \in Events, p \in Peers : Quiet(e, p)
  /\ UNCHANGED invalVars

InvalNext ==
  \/ IssuerStep
  \/ \E r \in posts : Handler(r)
  \/ \E p \in Peers : Gossip(p)
  \/ Settled

InvalSpec == InvalInit /\ [][InvalNext]_invalVars
-----------------------------------------------------------------------------
(* Properties.                                                             *)

\* Every variable has the shape of the state it stands for.
InvalTypeOK ==
  /\ strong \in BOOLEAN /\ seq \in Nat /\ seqOf \in [Events -> Nat]
  /\ pending \subseteq Events /\ fanned \subseteq Events
  /\ flush \in [Flushers -> Flushes \union {None}]
  /\ posts \subseteq Posts
  /\ acked \subseteq Events \X Peers /\ wire \subseteq Events \X Peers
  /\ gossipQueue \subseteq Events
  /\ win \in [Peers -> Windows \union {None}]
  /\ gossiping \in [Peers -> Events \union {None}]
  /\ applied \in [Peers -> [Events -> Nat]]

\* HTTP, gossip, a late request and a duplicated datagram between them apply
\* an event to a peer's store at most once.
AppliedAtMostOnce ==
  \A p \in Peers, e \in Events : applied[p][e] <= 1

\* The event lies a whole window behind the newest one the peer has had from
\* the issuer: too old to tell, it is dropped unseen.
Behind(p, e) == win[p] # None /\ win[p].high >= seqOf[e] + Window

\* A peer that has answered 200 has applied the whole batch: a returned purge
\* has reached every peer that acknowledged it, but for events that fell
\* behind the window, as long as the issuer has not begun its Seqs again.
AckedApplied ==
  restarts = 0 =>
    \A e \in Events, p \in Peers : <<e, p>> \in acked => applied[p][e] > 0 \/ Behind(p, e)

Paths == IF strong THEN {"http", "gossip"} ELSE {"gossip"}

\* Either path is enough: an event that is over and was not applied at a peer
\* got lost on both, failed there, or fell behind the window (SeenFromPeer,
\* both handlers).
EitherPathSuffices ==
  \A e \in Events, p \in Peers :
    restarts = 0 /\ Quiet(e, p) /\ applied[p][e] = 0 =>
      \/ \A path \in Paths : <<e, p, path>> \in lost
      \/ \E path \in Paths : <<e, p, path>> \in failed
      \/ Behind(p, e)

\* A peer applies an invalidation once, has applied what it acknowledged, and
\* misses none that one of the two paths brought it.
DeliveredOnce == AppliedAtMostOnce /\ AckedApplied /\ EitherPathSuffices
=============================================================================
