---------------------------- MODULE Connections -----------------------------
(***************************************************************************)
(* A data-plane listener and its connections: binding (one socket, or one  *)
(* per processor with SO_REUSEPORT), the accept loop with its connection   *)
(* limit, the HTTP/1.1 parser's keep-alive loop over pipelined requests,   *)
(* its hand-over of a request to the fallback handler and back, and the    *)
(* drain at shutdown.                                                      *)
(*                                                                         *)
(* Source: internal/server/listener.go, fp_conn.go, h1parser/parser.go.    *)
(*                                                                         *)
(* The bytes of a request are a few tokens <<r, i>>: those up to i = head  *)
(* are its head, the last of them the blank line, and the rest its body.   *)
(* What a parser takes for a head is a run of tokens that ends with a      *)
(* blank line; it is one when it is all of a request's head.  A request    *)
(* that qualifies for the fast path is a hit or not as it happens: the     *)
(* cache is modelled elsewhere.  fasthttp's request reader and its         *)
(* bufio.Reader are external.                                              *)
(***************************************************************************)
EXTENDS Naturals, SequencesExt

CONSTANTS
  Conns,
  BufCap,       \* tokens in the read buffer, and in the fallback's reader
  SpillCap,      \* tokens in the reader of an oversize head
  ConnPlans     \* [reqs, limit, loops, fails, stops, hangs, idles]

ASSUME ConnAssumption == IsFiniteSet(Conns) /\ \A p \in ConnPlans : p.limit \in Nat

VARIABLES
  connPlan,
  listen,       \* the sockets: [made, open, started]
  conn,         \* connection -> its state
  taken,        \* slots of the limit's semaphore taken
  stop,         \* how far shutdown is
  drain       \* what drain has still to do

connVars == <<connPlan, listen, conn, taken, stop, drain>>

\* A request: [head, body, kind, grow], its kind "plain", "framed" (it has a
\* body), "expect" (and waits for a 100), "close", "vague" (its framing is
\* ambiguous) or "malformed"; grow is how much longer its head is
\* once rebuilt (a missing Host, a missing blank after a colon).
Req(c, r) == connPlan.reqs[c][r]
Count(c) == Len(connPlan.reqs[c])
Tokens(c, r) == [i \in 1..(Req(c, r).head + Req(c, r).body) |-> <<r, i>>]
Bytes(c) == FlattenSeq([r \in 1..Count(c) |-> Tokens(c, r)])
EndOf(c, r) == Len(FlattenSeq([q \in 1..r |-> Tokens(c, q)]))
Upto(s, n) == SubSeq(s, 1, IF n < Len(s) THEN n ELSE Len(s))
From(s, n) == SubSeq(s, n + 1, Len(s))

New == [at |-> "new", sent |-> 0, got |-> 0, eof |-> FALSE, open |-> TRUE, slot |-> FALSE,
        active |-> FALSE, buf |-> <<>>, pre |-> <<>>, need |-> 0, req |-> 0, cut |-> FALSE,
        cont |-> 0, answered |-> 0, spared |-> 0]

Loops == IF connPlan.loops = 0 THEN 1 ELSE connPlan.loops
NoVictim == "none"

ConnInit ==
  /\ connPlan \in ConnPlans
  /\ listen = [made |-> 0, open |-> FALSE, started |-> FALSE]
  /\ conn = [c \in Conns |-> New]
  /\ taken = 0 /\ stop = "serving"
  /\ drain = [todo |-> {}, victim |-> NoVictim]

Put(c, r) == conn' = [conn EXCEPT ![c] = r]
Unread(c) == SubSeq(Bytes(c), conn[c].got + 1, conn[c].sent)
Serving(c) == conn[c].at \notin {"new", "queued", "refused", "gone"}
Tracked == {c \in Conns : Serving(c)}

-----------------------------------------------------------------------------
(* Binding.                                                                *)

\* One more socket is bound; the last starts the accept loops.
Listen ==
  /\ ~listen.started
  /\ listen' = [made |-> listen.made + 1, open |-> TRUE, started |-> listen.made + 1 = Loops]
  /\ UNCHANGED <<connPlan, conn, taken, stop, drain>>

\* serveMulti, a socket that cannot be bound: those already bound are closed,
\* then either a single listener is tried, or the loops start on what was
\* bound before.
ListenFails ==
  /\ ~listen.started /\ connPlan.loops > 0
  /\ connPlan.fails = (IF listen.made = 0 THEN "first" ELSE "later")
  /\ listen' = IF listen.made = 0
               THEN [made |-> 1, open |-> TRUE, started |-> TRUE]
               ELSE [listen EXCEPT !.open = FALSE, !.started = TRUE]
  /\ UNCHANGED <<connPlan, conn, taken, stop, drain>>

-----------------------------------------------------------------------------
(* Clients: one token at a time, in the order of the stream.               *)

Connect(c) ==
  /\ conn[c].at = "new" /\ listen.open
  /\ Put(c, [conn[c] EXCEPT !.at = "queued"])
  /\ UNCHANGED <<connPlan, listen, taken, stop, drain>>

\* A body that was announced with Expect waits for the 100.
Invited(c) ==
  LET t == Bytes(c)[conn[c].sent + 1]
  IN Req(c, t[1]).kind = "expect" /\ t[2] > Req(c, t[1]).head => conn[c].cont = t[1]

SendNext(c) ==
  /\ conn[c].at \notin {"new", "refused", "gone"} /\ ~conn[c].eof
  /\ conn[c].sent < Len(Bytes(c)) /\ Invited(c)
  /\ Put(c, [conn[c] EXCEPT !.sent = @ + 1])
  /\ UNCHANGED <<connPlan, listen, taken, stop, drain>>

HangUp(c) ==
  /\ connPlan.hangs /\ Serving(c) /\ ~conn[c].eof
  /\ Put(c, [conn[c] EXCEPT !.eof = TRUE])
  /\ UNCHANGED <<connPlan, listen, taken, stop, drain>>

-----------------------------------------------------------------------------
(* Accepting and closing.                                                  *)

\* connLimitListener.Accept: a connection beyond the limit gets a 503 and is
\* closed; the tracker has the others before their goroutine starts.
Accept(c) ==
  /\ conn[c].at = "queued" /\ listen.open
  /\ IF connPlan.limit > 0 /\ taken >= connPlan.limit
     THEN /\ Put(c, [New EXCEPT !.at = "refused", !.open = FALSE])
          /\ UNCHANGED taken
     ELSE /\ Put(c, [conn[c] EXCEPT !.at = "reading", !.slot = connPlan.limit > 0])
          /\ taken' = taken + (IF connPlan.limit > 0 THEN 1 ELSE 0)
  /\ UNCHANGED <<connPlan, listen, stop, drain>>

\* connLimitConn.Close: the first Close gives the slot back.
Shut(c, r) ==
  /\ Put(c, [r EXCEPT !.open = FALSE, !.slot = FALSE])
  /\ taken' = IF conn[c].slot THEN taken - 1 ELSE taken

\* The connection's goroutine returns: the connection is closed and leaves
\* the tracker.
Ended(r) == [New EXCEPT !.at = "gone", !.sent = r.sent, !.got = r.got, !.eof = r.eof,
                        !.answered = r.answered, !.spared = r.spared]
End(c, r) == Shut(c, Ended(r))

-----------------------------------------------------------------------------
(* The keep-alive loop: parseRequest.                                      *)

IsBlank(c, t) == t[2] = Req(c, t[1]).head
Blanks(c, s) == {i \in 1..Len(s) : IsBlank(c, s[i])}

\* findHeaderEnd over the whole buffer, the excess of the last request included.
HasHead(c) == Blanks(c, conn[c].buf) # {}
HeadLen(c) == CHOOSE i \in Blanks(c, conn[c].buf) : \A j \in Blanks(c, conn[c].buf) : i <= j
IsHead(c, s) == LET r == s[1][1] IN s = Upto(Tokens(c, r), Req(c, r).head)

\* Mutant: the room left in the buffer is not looked at.
ReadPast(c) ==
  /\ conn[c].at = "reading" /\ conn[c].open
  /\ ~HasHead(c) /\ Len(conn[c].buf) < BufCap
  /\ \E k \in 1..Len(Unread(c)) :
       Put(c, [conn[c] EXCEPT !.buf = @ \o Upto(Unread(c), k), !.got = @ + k])
  /\ UNCHANGED <<connPlan, listen, taken, stop, drain>>

Read(c) ==
  /\ conn[c].at = "reading" /\ conn[c].open
  /\ ~HasHead(c) /\ Len(conn[c].buf) < BufCap
  /\ \E k \in 1..Len(Unread(c)) :
       /\ Len(conn[c].buf) + k <= BufCap
       /\ Put(c, [conn[c] EXCEPT !.buf = @ \o Upto(Unread(c), k), !.got = @ + k])
  /\ UNCHANGED <<connPlan, listen, taken, stop, drain>>

\* parseBuffer: a head that does not parse ends the connection; of one whose
\* framing is ambiguous nothing past the head is kept.
Parse(c) ==
  /\ conn[c].at = "reading" /\ HasHead(c)
  /\ LET head == Upto(conn[c].buf, HeadLen(c))
         r == head[1][1]
         kind == Req(c, r).kind
         rest == IF kind = "vague" THEN <<>> ELSE From(conn[c].buf, HeadLen(c))
     IN IF ~IsHead(c, head) \/ kind = "malformed"
        THEN End(c, conn[c])
        ELSE /\ Put(c, [conn[c] EXCEPT !.at = "parsed", !.req = r, !.buf = rest])
             /\ UNCHANGED taken
  /\ UNCHANGED <<connPlan, listen, stop, drain>>

\* The client is done sending, or the head fills the buffer: what there is of
\* a head is parsed as if it were all, or is handed on raw.
ParsePart(c) ==
  /\ conn[c].at = "reading" /\ conn[c].open /\ ~HasHead(c) /\ conn[c].buf # <<>>
  /\ IF Len(conn[c].buf) = BufCap
     THEN Put(c, [conn[c] EXCEPT !.at = "parsed", !.req = 0])
     ELSE /\ conn[c].eof /\ Unread(c) = <<>>
          /\ Put(c, [conn[c] EXCEPT !.at = "parsed", !.req = conn[c].buf[1][1], !.cut = TRUE,
                                    !.buf = <<>>])
  /\ UNCHANGED <<connPlan, listen, taken, stop, drain>>

\* The socket was closed, the client is done, or (where the plan looks that
\* far) the idle deadline passes while nothing arrives.
ReadFails(c) ==
  /\ conn[c].at = "reading" /\ ~HasHead(c) /\ Len(conn[c].buf) < BufCap
  /\ \/ ~conn[c].open
     \/ Unread(c) = <<>> /\ IF conn[c].eof THEN conn[c].buf = <<>> ELSE connPlan.idles
  /\ End(c, conn[c])
  /\ UNCHANGED <<connPlan, listen, stop, drain>>

MarkActive(c) ==
  /\ conn[c].at = "parsed"
  /\ Put(c, [conn[c] EXCEPT !.at = "active", !.active = TRUE])
  /\ UNCHANGED <<connPlan, listen, taken, stop, drain>>

-----------------------------------------------------------------------------
(* Answering.                                                              *)

\* What follows a written response: the loop, or the end of the connection.
Written(c, r, last) ==
  IF ~conn[c].open THEN End(c, conn[c])
  ELSE IF last THEN End(c, [r EXCEPT !.answered = r.req])
  ELSE /\ Put(c, [r EXCEPT !.at = "answered", !.answered = r.req])
       /\ UNCHANGED taken

\* qualifiesForFastPath, of the framing: a Content-Length or a
\* Transfer-Encoding disqualifies.
Qualifies(c) == Req(c, conn[c].req).kind \in {"plain", "close"} \/ conn[c].cut

Asked(c) == Req(c, conn[c].req).kind = "close"

Hit(c) ==
  /\ conn[c].at = "active" /\ conn[c].req # 0 /\ Qualifies(c)
  /\ Written(c, conn[c], Asked(c))
  /\ UNCHANGED <<connPlan, listen, stop, drain>>

\* writeBadRequest: the framing is ambiguous, so the connection closes.
BadRequest(c) ==
  /\ conn[c].at = "active" /\ conn[c].req # 0 /\ ~conn[c].cut
  /\ Req(c, conn[c].req).kind = "vague"
  /\ Written(c, conn[c], TRUE)
  /\ UNCHANGED <<connPlan, listen, stop, drain>>

\* handleFallThrough: the rebuilt head and what is buffered past it are read
\* again by fasthttp, from a reader that holds BufCap of them at a time.
Miss(c) ==
  /\ conn[c].at = "active" /\ conn[c].req # 0 /\ (conn[c].cut \/ Req(c, conn[c].req).kind # "vague")
  /\ LET q == Req(c, conn[c].req)
         head == q.head + q.grow
         room == IF head < BufCap THEN BufCap - head ELSE 0
     IN IF head > BufCap
        THEN End(c, conn[c])
        ELSE /\ \E cut \in {conn[c].cut, FALSE} :
                  Put(c, [conn[c] EXCEPT !.at = "body", !.need = IF cut THEN 0 ELSE q.body,
                                         !.buf = Upto(@, room), !.pre = From(conn[c].buf, room)])
             /\ UNCHANGED taken
  /\ UNCHANGED <<connPlan, listen, stop, drain>>

\* 100 Continue, before the body is read.
Continue(c) ==
  /\ conn[c].at = "body" /\ Req(c, conn[c].req).kind = "expect" /\ conn[c].cont # conn[c].req
  /\ IF conn[c].open
     THEN Put(c, [conn[c] EXCEPT !.cont = conn[c].req]) /\ UNCHANGED taken
     ELSE End(c, conn[c])
  /\ UNCHANGED <<connPlan, listen, stop, drain>>

\* The body: from the reader, which fills from the replayed bytes and then
\* from the socket, and there may take more than the body.
MayRead(c) ==
  /\ conn[c].at = "body" /\ conn[c].need > 0
  /\ Req(c, conn[c].req).kind = "expect" => conn[c].cont = conn[c].req

ReadBody(c) ==
  /\ MayRead(c)
  /\ LET s == conn[c] IN
     \/ /\ s.buf # <<>>
        /\ LET n == IF s.need < Len(s.buf) THEN s.need ELSE Len(s.buf)
           IN Put(c, [s EXCEPT !.buf = From(@, n), !.need = @ - n])
     \/ /\ s.buf = <<>> /\ s.pre # <<>>
        /\ Put(c, [s EXCEPT !.buf = Upto(s.pre, BufCap), !.pre = From(@, BufCap)])
     \/ /\ s.buf = <<>> /\ s.pre = <<>> /\ s.open
        /\ \E k \in 1..Len(Unread(c)) :
             k <= BufCap /\ Put(c, [s EXCEPT !.buf = Upto(Unread(c), k), !.got = @ + k])
  /\ UNCHANGED <<connPlan, listen, taken, stop, drain>>

BodyFails(c) ==
  /\ MayRead(c) /\ conn[c].buf = <<>> /\ conn[c].pre = <<>>
  /\ ~conn[c].open \/ (conn[c].eof /\ Unread(c) = <<>>)
  /\ End(c, conn[c])
  /\ UNCHANGED <<connPlan, listen, stop, drain>>

\* Mutant: the reader is given back with what it holds.
DropLeftover(c) == <<>>

\* What the reader holds past the body goes back to the parser.
Returned(c) == conn[c].buf

\* The fallback handler runs and its response is written; it may ask for the
\* connection to be closed.
Fallback(c) ==
  /\ conn[c].at = "body" /\ conn[c].need = 0
  /\ Req(c, conn[c].req).kind = "expect" => conn[c].cont = conn[c].req
  /\ \E closes \in {Asked(c), TRUE} :
       Written(c, [conn[c] EXCEPT !.buf = Returned(c), !.pre = <<>>], closes)
  /\ UNCHANGED <<connPlan, listen, stop, drain>>

\* handleFallThroughRaw: the fallback reads the request from the buffer and
\* the socket; the connection always closes.
Raw(c) ==
  /\ conn[c].at = "active" /\ conn[c].req = 0
  /\ LET r == conn[c].buf[1][1]
         whole == Req(c, r).head <= SpillCap /\ conn[c].sent >= EndOf(c, r)
     IN /\ whole \/ conn[c].eof \/ ~conn[c].open \/ Req(c, r).head > SpillCap
        /\ Written(c, [conn[c] EXCEPT !.req = IF whole THEN r ELSE @], TRUE)
  /\ UNCHANGED <<connPlan, listen, stop, drain>>

\* stateChanged(false): the flag is cleared, then a drain in progress is
\* looked for.
MarkIdle(c) ==
  /\ conn[c].at = "answered"
  /\ Put(c, [conn[c] EXCEPT !.at = "marked", !.active = FALSE, !.req = 0, !.cut = FALSE])
  /\ UNCHANGED <<connPlan, listen, taken, stop, drain>>

Park(c) ==
  /\ conn[c].at = "marked"
  /\ IF stop = "draining"
     THEN Shut(c, [conn[c] EXCEPT !.at = "reading"])
     ELSE Put(c, [conn[c] EXCEPT !.at = "reading"]) /\ UNCHANGED taken
  /\ UNCHANGED <<connPlan, listen, stop, drain>>

-----------------------------------------------------------------------------
(* Shutdown.                                                               *)

Cancel ==
  /\ connPlan.stops /\ listen.started /\ stop = "serving"
  /\ stop' = "cancelled"
  /\ UNCHANGED <<connPlan, listen, conn, taken, drain>>

CloseListener ==
  /\ stop = "cancelled"
  /\ stop' = "unbound" /\ listen' = [listen EXCEPT !.open = FALSE]
  /\ UNCHANGED <<connPlan, conn, taken, drain>>

\* drain, once the accept loop has ended: the flag first.  spared is the
\* request a connection is serving at that moment.
BeginDrain ==
  /\ stop = "unbound"
  /\ stop' = "draining"
  /\ drain' = [drain EXCEPT !.todo = Tracked]
  /\ conn' = [c \in Conns |-> [conn[c] EXCEPT !.spared = IF conn[c].active THEN conn[c].req ELSE 0]]
  /\ UNCHANGED <<connPlan, listen, taken>>

\* Mutant: the flag of the connection is not looked at.
LookAway(c) == TRUE
NotServing(c) == ~conn[c].active

DrainLook(c) ==
  /\ stop = "draining" /\ drain.victim = NoVictim /\ c \in drain.todo
  /\ drain' = [todo |-> drain.todo \ {c},
                 victim |-> IF Serving(c) /\ NotServing(c) THEN c ELSE NoVictim]
  /\ UNCHANGED <<connPlan, listen, conn, taken, stop>>

DrainClose ==
  /\ drain.victim # NoVictim
  /\ drain' = [drain EXCEPT !.victim = NoVictim]
  /\ LET c == drain.victim
     IN IF Serving(c) THEN Shut(c, conn[c]) ELSE UNCHANGED <<conn, taken>>
  /\ UNCHANGED <<connPlan, listen, stop>>

\* wg.Wait
DrainOver ==
  /\ stop = "draining" /\ drain.todo = {} /\ drain.victim = NoVictim /\ Tracked = {}
  /\ stop' = "done"
  /\ UNCHANGED <<connPlan, listen, conn, taken, drain>>

-----------------------------------------------------------------------------
ConnStep(c) ==
  \/ Accept(c) \/ Read(c) \/ Parse(c) \/ ParsePart(c) \/ ReadFails(c) \/ MarkActive(c)
  \/ Hit(c) \/ BadRequest(c) \/ Miss(c) \/ Continue(c) \/ ReadBody(c) \/ BodyFails(c)
  \/ Fallback(c) \/ Raw(c) \/ MarkIdle(c) \/ Park(c)

ConnNext ==
  \/ Listen \/ ListenFails
  \/ \E c \in Conns : Connect(c) \/ SendNext(c) \/ HangUp(c) \/ ConnStep(c) \/ DrainLook(c)
  \/ Cancel \/ CloseListener \/ BeginDrain \/ DrainClose \/ DrainOver

\* A goroutine that can run does; a client goes on with what it began; the
\* idle deadline, of a plan that looks that far, passes.
ConnFairness ==
  /\ \A c \in Conns : WF_connVars(ConnStep(c)) /\ WF_connVars(SendNext(c)) /\ WF_connVars(DrainLook(c))
  /\ WF_connVars(CloseListener) /\ WF_connVars(BeginDrain) /\ WF_connVars(DrainClose)
  /\ WF_connVars(DrainOver)

ConnSpec == ConnInit /\ [][ConnNext]_connVars /\ ConnFairness

-----------------------------------------------------------------------------
(* Properties.                                                             *)

ConnTypeOK ==
  /\ listen \in [made : 0..Loops, open : BOOLEAN, started : BOOLEAN]
  /\ \A c \in Conns :
       /\ conn[c].at \in {"new", "queued", "refused", "reading", "parsed", "active", "body",
                          "answered", "marked", "gone"}
       /\ conn[c].sent \in 0..Len(Bytes(c)) /\ conn[c].got \in 0..conn[c].sent
       /\ Len(conn[c].buf) <= BufCap
       /\ conn[c].answered \in 0..Count(c)
  /\ drain.todo \subseteq Conns

\* Pipelining keeps the stream whole (serveFastHit's excess, handleFallThrough's
\* leftover, adoptLeftover): when the parser looks for the next head, what it
\* has buffered and what is still on the socket is everything the client sent
\* after the last request it answered, whichever path answered it.
StreamInStep ==
  \A c \in Conns : conn[c].at = "reading" =>
    conn[c].buf \o Unread(c) = SubSeq(Bytes(c), EndOf(c, conn[c].answered) + 1, conn[c].sent)

\* connLimitConn: the slots taken are those of the connections still open,
\* however many of drain, stateChanged and the connection's goroutine close it.
SlotsMatchOpen ==
  connPlan.limit > 0 =>
    /\ taken = Cardinality({c \in Tracked : conn[c].open})
    /\ taken <= connPlan.limit

\* drain leaves in-flight connections alone: no connection is closed under a
\* request that was being served when the drain began.
InFlightFinishes ==
  [][\A c \in Conns :
       (conn[c].open /\ ~conn'[c].open /\ conn'[c].at = conn[c].at)
         => conn[c].spared \in {0, conn[c].answered}]_connVars

\* A connection gets through its requests, pipelined or not, with a body or
\* without: they are answered, or the connection has ended.
Through(c) == ~Serving(c) \/ conn[c].answered = Count(c)
RequestsServed == \A c \in Conns : []<>Through(c)

\* serveFastPath returns after a cancellation: no connection parks on its next
\* read unseen by the drain, which would then wait for its idle deadline.
NotDraining == stop \in {"serving", "done"}
DrainEnds == []<>NotDraining

\* serveMulti ("partial creation, using fewer listeners"): once it serves, and
\* until it is stopped, the listener accepts.  It does not hold: when a later
\* socket cannot be bound, those before it are closed and then served.
ServesUntilStopped == listen.started /\ stop = "serving" => listen.open
=============================================================================
