----------------------------- MODULE FillPromise -----------------------------
(***************************************************************************)
(* What request collapsing promises, whatever the order of events: the     *)
(* verdict of a fill is given once and never changes, its settlement       *)
(* follows it, every client is answered once, and a client is answered     *)
(* with what another request fetched only after that request has published *)
(* bytes that the two of them may share.                                   *)
(*                                                                         *)
(* The promise is stated in the ADRs docs/decisions/0052, 0054, 0057, 0066 *)
(* and in the comments of inflightStream (internal/cache/stream.go).       *)
(***************************************************************************)
CONSTANTS Reqs, NoReq, Method, Personal

VARIABLES
  answer,  \* what each client has been given
  res,     \* the verdict of each request's own fetch
  stored   \* nothing of that fetch is left to be stored

promiseVars == <<answer, res, stored>>

Compatible(r, l) == r # l /\ ~Personal[r] /\ ~Personal[l] /\ Method[r] = Method[l]

Unanswered(r) == answer[r].from = "none"

\* A client is given an answer it did not have.
Give(r, from, by) ==
  /\ Unanswered(r)
  /\ \E w, v \in BOOLEAN :
       answer' = [answer EXCEPT ![r] = [from |-> from, by |-> by, whole |-> w, vary |-> v]]

Init ==
  /\ \A r \in Reqs : Unanswered(r)
  /\ res = [r \in Reqs |-> "none"]
  /\ stored = [r \in Reqs |-> FALSE]

\* A hit.
Hit(r) ==
  /\ \E b \in Reqs : Give(r, "store", b)
  /\ UNCHANGED <<res, stored>>

\* The response streams to the client that fetched it.
Begin(r) ==
  /\ Give(r, "own", r)
  /\ UNCHANGED <<res, stored>>

\* The fetch has its verdict.  Only bytes, or a response kept from sharing,
\* leave something to settle.
Publish(r) ==
  /\ res[r] = "none"
  /\ \E v \in {"bytes", "unshareable", "shed", "fail"}, s \in BOOLEAN :
       /\ res' = [res EXCEPT ![r] = v]
       /\ stored' = [stored EXCEPT ![r] = s]
       /\ v = "bytes" => ~s
       /\ v \in {"shed", "fail"} => s
       /\ \/ v \in {"bytes", "unshareable"} /\ Unanswered(r) /\ Give(r, "own", r)
          \/ v \in {"bytes", "unshareable"} /\ ~Unanswered(r) /\ UNCHANGED answer
          \/ v = "shed" /\ Give(r, "503", NoReq)
          \/ v = "fail" /\ Give(r, "502", NoReq)

Settle(r) ==
  /\ res[r] # "none" /\ ~stored[r]
  /\ stored' = [stored EXCEPT ![r] = TRUE]
  /\ UNCHANGED <<answer, res>>

\* A follower is given a published result: the bytes, or the leader's error.
Follow(r) ==
  /\ res[r] = "none"
  /\ \E l \in Reqs :
       /\ l # r
       /\ \/ res[l] = "bytes" /\ Compatible(r, l) /\ Give(r, "handoff", l)
          \/ res[l] = "fail" /\ Compatible(r, l) /\ Give(r, "502", NoReq)
          \/ res[l] = "shed" /\ Give(r, "503", NoReq)
  /\ UNCHANGED <<res, stored>>

Next == \E r \in Reqs : Hit(r) \/ Begin(r) \/ Publish(r) \/ Settle(r) \/ Follow(r)

Spec == Init /\ [][Next]_promiseVars
=============================================================================
