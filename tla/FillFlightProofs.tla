-------------------------- MODULE FillFlightProofs --------------------------
(***************************************************************************)
(* Theorems about FillFlight for any number of requests, variants and      *)
(* fetch slots, with their proofs.                                         *)
(***************************************************************************)
EXTENDS FillFlight, FiniteSetTheorems, TLAPS

\* Most leaves are first-order reasoning: Zenon first, then SMT.
USE ZenonT(40), SMTT(40)

-----------------------------------------------------------------------------
(* Types.                                                                  *)

\* What a step dereferences is there: a follower has a leader, a request past
\* the response headers has a response, and so has a refill about to store.
Grounded ==
  \A r \in Reqs :
    /\ pc[r] \in {"joined", "wait"} => lead[r] \in Reqs
    /\ pc[r] \in {"buffer", "tee", "copy", "store", "resolver"} => resp[r] \in Responses
    /\ res[r] = "bytes" => resp[r] \in Responses
    /\ refill[r].step = "put" => refill[r].resp \in Responses

Typed == TypeOK /\ Grounded

\* The initial state is typed: every request is at its start, nothing fetched.
LEMMA InitTyped == Init => Typed
<1> SUFFICES ASSUME Init PROVE Typed
  OBVIOUS
<1>1. answer \in [Reqs -> Answers]
  BY DEF Init, Answers, NoAnswer
<1>2. refill \in [Reqs -> Refills] /\ \A r \in Reqs : refill[r].step = "none"
  BY DEF Init, Refills, RefillSteps, NoRefill, Keys
<1>3. Grounded
  BY <1>2 DEF Init, Grounded
<1>4. /\ pc \in [Reqs -> Steps] /\ res \in [Reqs -> Verdicts]
      /\ lookupKey \in [Reqs -> Keys]
  BY DEF Init, Steps, Verdicts, Keys
<1> QED
  BY <1>1, <1>2, <1>3, <1>4 DEF Init, Typed, TypeOK

\* What lookup returns: a key and an object or none.
LEMMA LookupType ==
  ASSUME TypeOK, NEW r \in Reqs
  PROVE  /\ Lookup(r).key \in Keys
         /\ Lookup(r).obj \in Objects \union {NoObj}
  BY ConstantsAssumption DEF TypeOK, Lookup, Keys

\* The flight key is one of the table's keys, or none.
LEMMA FlightKeyType ==
  ASSUME TypeOK, NEW r \in Reqs
  PROVE  FetchFlightKey(r, Lookup(r)) \in FlightKeys \union {NoFlight}
<1>1. CollapseFlightKey(r, Lookup(r)) \in Keys \union {NoFlight}
  BY LookupType, ConstantsAssumption DEF CollapseFlightKey, Keys
<1> QED
  BY <1>1, ConstantsAssumption DEF FetchFlightKey, FlightKeys

\* The request's steps before it has a slot keep the state typed.
LEMMA ParkingTyped ==
  ASSUME Typed, NEW r \in Reqs,
         ServeRequest(r) \/ FetchAlone(r) \/ BecomeLeader(r) \/ JoinFlight(r)
           \/ CountFollower(r) \/ LeaveTable(r) \/ AcquireFetchSlot(r)
           \/ QueueForSlot(r)
  PROVE  TypeOK'
<1> USE DEF Typed, TypeOK, streamVars, reqVars, Steps
<1>1. CASE ServeRequest(r)
  <2> DEFINE l == Lookup(r)
  <2>1. l.key \in Keys /\ l.obj \in Objects \union {NoObj}
    BY LookupType
  <2>2. FetchFlightKey(r, l) \in FlightKeys \union {NoFlight}
    BY FlightKeyType
  <2> HIDE DEF l
  <2>3. CASE Servable(l.obj)
    <3>1. l.obj \in Objects
      BY <2>1, <2>3 DEF Servable
    <3>2. [from |-> "store", by |-> l.obj.by, whole |-> l.obj.whole, vary |-> l.obj.vary] \in Answers
      BY <3>1 DEF Objects, Answers
    <3>3. /\ answer' = [answer EXCEPT ![r] = [from |-> "store", by |-> l.obj.by,
                                               whole |-> l.obj.whole, vary |-> l.obj.vary]]
          /\ pc' = [pc EXCEPT ![r] = "done"]
          /\ UNCHANGED <<reentry, lookupKey, flight, lead, streamVars, table, slots,
                         memo, store, refill, churn>>
      BY <1>1, <2>3 DEF ServeRequest, Answer, l
    <3>4. answer' \in [Reqs -> Answers] /\ pc' \in [Reqs -> Steps]
      BY <3>2, <3>3
    <3>5. /\ followers' = followers /\ done' = done /\ stored' = stored
          /\ res' = res /\ cloned' = cloned /\ resp' = resp
          /\ whole' = whole /\ teed' = teed /\ leaving' = leaving
      BY <3>3
    <3> QED
      BY <3>3, <3>4, <3>5
  <2>4. CASE ~Servable(l.obj)
    BY <1>1, <2>1, <2>2, <2>4, SMTT(30) DEF ServeRequest, l
  <2> QED
    BY <2>3, <2>4
<1>2. CASE FetchAlone(r)
  BY <1>2 DEF FetchAlone
<1>3. CASE BecomeLeader(r)
  BY <1>3 DEF BecomeLeader
<1>4. CASE JoinFlight(r)
  <2>1. flight[r] \in FlightKeys
    BY <1>4 DEF JoinFlight, MustFetchAlone
  <2> QED
    BY <1>4, <2>1 DEF JoinFlight
<1>5. CASE CountFollower(r)
  <2>1. followers' = [followers EXCEPT ![lead[r]] = followers[lead[r]] + 1]
    BY <1>5 DEF CountFollower
  <2>2. ASSUME NEW q \in Reqs PROVE followers[q] + 1 \in Nat
    BY SMTT(30)
  <2>3. followers' \in [Reqs -> Nat]
    BY <2>1, <2>2
  <2> QED
    BY <1>5, <2>3 DEF CountFollower
<1>6. CASE LeaveTable(r)
  BY <1>6 DEF LeaveTable
<1>7. CASE AcquireFetchSlot(r)
  BY <1>7 DEF AcquireFetchSlot
<1>8. CASE QueueForSlot(r)
  BY <1>8 DEF QueueForSlot
<1> QED
  BY <1>1, <1>2, <1>3, <1>4, <1>5, <1>6, <1>7, <1>8

\* An answer built from well-typed parts is an answer.
LEMMA AnswerType ==
  ASSUME TypeOK, NEW r \in Reqs, NEW by \in Reqs \union {NoReq},
         NEW from \in {"none", "store", "own", "handoff", "502", "503"},
         NEW w \in BOOLEAN, NEW v \in BOOLEAN, Answer(r, from, by, w, v)
  PROVE  answer' \in [Reqs -> Answers]
<1>1. [from |-> from, by |-> by, whole |-> w, vary |-> v] \in Answers
  BY DEF Answers
<1> QED
  BY <1>1 DEF TypeOK, Answer

\* Starting a refill keeps the refills typed and stores nothing yet.
LEMMA TriggerType ==
  ASSUME Typed, NEW r \in Reqs, NEW k \in Keys, TriggerShedRefill(r, k)
  PROVE  /\ refill' \in [Reqs -> Refills]
         /\ \A q \in Reqs : refill'[q].step = "put" => refill'[q].resp \in Responses
<1> DEFINE new == [NoRefill(r) EXCEPT !.step = "run", !.key = k]
<1>1. new \in Refills /\ new.step = "run"
  BY DEF Refills, RefillSteps, NoRefill
<1>2. refill' = refill \/ refill' = [refill EXCEPT ![r] = new]
  BY DEF TriggerShedRefill
<1> HIDE DEF new
<1> QED
  BY <1>1, <1>2, SMTT(30) DEF Typed, TypeOK, Grounded

\* The response's own fields are Booleans and known classes.
LEMMA ResponseFields ==
  ASSUME NEW p \in Responses
  PROVE  p.vary \in BOOLEAN /\ p.streamed \in BOOLEAN /\ p # NoResp
  BY ConstantsAssumption DEF Responses

\* The origin fetch keeps the state typed, up to its verdict.
LEMMA FetchTyped ==
  ASSUME Typed, NEW r \in Reqs,
         ShedFetch(r) \/ OriginFails(r) \/ OriginHeaders(r) \/ CopyBody(r)
           \/ ReadBody(r) \/ TeeBody(r)
  PROVE  TypeOK'
<1>0. TypeOK /\ Grounded
  BY DEF Typed
<1>1. CASE ShedFetch(r)
  <2>1. answer' \in [Reqs -> Answers]
    BY <1>0, <1>1, AnswerType DEF ShedFetch
  <2>2. refill' \in [Reqs -> Refills]
    BY <1>1, TriggerType DEF ShedFetch, Keys
  <2>3. res' \in [Reqs -> Verdicts] /\ leaving' \in [Reqs -> BOOLEAN]
    BY <1>0, <1>1 DEF ShedFetch, PublishVerdict, Return, Verdicts, TypeOK
  <2> QED
    BY <1>0, <1>1, <2>1, <2>2, <2>3 DEF ShedFetch, PublishVerdict, TypeOK, Steps
<1>2. CASE OriginFails(r)
  <2>1. answer' \in [Reqs -> Answers]
    BY <1>0, <1>2, AnswerType DEF OriginFails
  <2>2. res' \in [Reqs -> Verdicts] /\ leaving' \in [Reqs -> BOOLEAN]
    BY <1>0, <1>2 DEF OriginFails, PublishVerdict, Return, Verdicts, TypeOK
  <2> QED
    BY <1>0, <1>2, <2>1, <2>2 DEF OriginFails, PublishVerdict, TypeOK, Steps
<1>3. CASE OriginHeaders(r)
  <2>1. PICK p \in Responses :
          /\ resp' = [resp EXCEPT ![r] = p]
          /\ \/ StreamNoCache(r, p)
             \/ /\ pc' = [pc EXCEPT ![r] = "buffer"]
                /\ UNCHANGED <<answer, done, stored, res, cloned, teed, leaving>>
             \/ /\ Answer(r, "own", r, TRUE, p.vary)
                /\ teed' = [teed EXCEPT ![r] = TRUE]
                /\ Return(r)
                /\ pc' = [pc EXCEPT ![r] = "tee"]
                /\ UNCHANGED <<done, stored, res, cloned>>
    BY <1>3 DEF OriginHeaders
  <2>2. UNCHANGED <<reentry, lookupKey, flight, lead, followers, whole, table,
                    slots, memo, store, refill, churn>>
    BY <1>3 DEF OriginHeaders
  <2>3. p.vary \in BOOLEAN
    BY ResponseFields
  <2>4. CASE StreamNoCache(r, p)
    <3>1. answer' \in [Reqs -> Answers]
      BY <1>0, <2>3, <2>4, AnswerType DEF StreamNoCache
    <3>2. res' \in [Reqs -> Verdicts] /\ leaving' \in [Reqs -> BOOLEAN]
      BY <1>0, <2>4 DEF StreamNoCache, PublishVerdict, Return, Verdicts, TypeOK
    <3> QED
      BY <1>0, <2>1, <2>2, <2>4, <3>1, <3>2 DEF StreamNoCache, PublishVerdict, TypeOK, Steps
  <2>5. CASE /\ pc' = [pc EXCEPT ![r] = "buffer"]
             /\ UNCHANGED <<answer, done, stored, res, cloned, teed, leaving>>
    BY <1>0, <2>1, <2>2, <2>5 DEF TypeOK, Steps
  <2>6. CASE /\ Answer(r, "own", r, TRUE, p.vary)
             /\ teed' = [teed EXCEPT ![r] = TRUE]
             /\ Return(r)
             /\ pc' = [pc EXCEPT ![r] = "tee"]
             /\ UNCHANGED <<done, stored, res, cloned>>
    <3>1. answer' \in [Reqs -> Answers]
      BY <1>0, <2>3, <2>6, AnswerType
    <3>2. leaving' \in [Reqs -> BOOLEAN]
      BY <1>0, <2>6 DEF Return, TypeOK
    <3> QED
      BY <1>0, <2>1, <2>2, <2>6, <3>1, <3>2 DEF TypeOK, Steps
  <2> QED
    BY <2>1, <2>4, <2>5, <2>6
<1>4. CASE CopyBody(r)
  BY <1>0, <1>4 DEF CopyBody, TypeOK, Steps, streamVars
<1>5. CASE ReadBody(r)
  <2>1. UNCHANGED <<reentry, lookupKey, flight, lead, followers, resp, teed,
                    table, store, refill, churn>> /\ slots' = slots \ {r}
    BY <1>5 DEF ReadBody
  <2>2. CASE /\ PublishVerdict(r, "fail")
             /\ Answer(r, "502", NoReq, FALSE, FALSE)
             /\ Return(r)
             /\ pc' = [pc EXCEPT ![r] = "done"]
             /\ UNCHANGED <<whole, cloned, memo>>
    <3>1. answer' \in [Reqs -> Answers]
      BY <1>0, <2>2, AnswerType
    <3>2. res' \in [Reqs -> Verdicts] /\ leaving' \in [Reqs -> BOOLEAN]
      BY <1>0, <2>2 DEF PublishVerdict, Return, Verdicts, TypeOK
    <3> QED
      BY <1>0, <2>1, <2>2, <3>1, <3>2 DEF PublishVerdict, TypeOK, Steps
  <2>3. ASSUME NEW w \in BOOLEAN,
               whole' = [whole EXCEPT ![r] = w],
               PublishFillVerdict(r),
               cloned' = [cloned EXCEPT ![r] = ~Cacheable(resp[r]) \/ followers[r] > 0],
               memo' = (memo \/ (Method[r] = "GET" /\ ~CollapseDenied(r)
                                   /\ RefusesSharedStorage(resp[r]))),
               Answer(r, "own", r, w, resp[r].vary),
               pc' = [pc EXCEPT ![r] = "store"],
               UNCHANGED leaving
        PROVE  TypeOK'
    <3>1. resp[r].vary \in BOOLEAN
      BY <1>0, <1>5, ResponseFields DEF ReadBody, Grounded
    <3>2. answer' \in [Reqs -> Answers]
      BY <1>0, <2>3, <3>1, AnswerType
    <3>3. res' \in [Reqs -> Verdicts] /\ cloned' \in [Reqs -> BOOLEAN] /\ memo' \in BOOLEAN
      BY <1>0, <2>3 DEF PublishFillVerdict, Verdicts, TypeOK
    <3> QED
      BY <1>0, <2>1, <2>3, <3>2, <3>3 DEF PublishFillVerdict, TypeOK, Steps
  <2> QED
    BY <1>5, <2>2, <2>3 DEF ReadBody
<1>6. CASE TeeBody(r)
  <2>1. res' \in [Reqs -> Verdicts]
    BY <1>0, <1>6 DEF TeeBody, PublishVerdict, PublishFillVerdict, Verdicts, TypeOK
  <2> QED
    BY <1>0, <1>6, <2>1 DEF TeeBody, PublishVerdict, PublishFillVerdict, TypeOK, Steps
<1> QED
  BY <1>1, <1>2, <1>3, <1>4, <1>5, <1>6

\* The store tail and the followers keep the state typed.
LEMMA SettleTyped ==
  ASSUME Typed, NEW r \in Reqs,
         SkipStore(r) \/ StoreFill(r) \/ StoreResolver(r)
           \/ HandoffFollower(r) \/ FillFollower(r)
  PROVE  TypeOK'
<1>0. TypeOK /\ Grounded
  BY DEF Typed
<1>1. CASE SkipStore(r)
  BY <1>0, <1>1 DEF SkipStore, Settle, TypeOK, Steps
<1>2. CASE StoreFill(r)
  <2>1. resp[r].vary \in BOOLEAN
    BY <1>0, <1>2, ResponseFields DEF StoreFill, Grounded
  <2>2. \A k \in {"plain", "variant"} :
          Object(k, r, r, whole[r], resp[r].vary) \in Objects
    BY <1>0, <2>1 DEF Object, Objects, TypeOK
  <2>3. store' \in [Keys -> Objects \union {NoObj}]
    BY <1>0, <1>2, <2>2 DEF StoreFill, TypeOK
  <2>4. leaving' \in [Reqs -> BOOLEAN]
    BY <1>0, <1>2 DEF StoreFill, Settle, TypeOK
  <2> QED
    BY <1>0, <1>2, <2>3, <2>4 DEF StoreFill, Settle, TypeOK, Steps
<1>3. CASE StoreResolver(r)
  <2>1. resp[r].vary \in BOOLEAN
    BY <1>0, <1>3, ResponseFields DEF StoreResolver, Grounded
  <2>2. Object("resolver", r, r, whole[r], resp[r].vary) \in Objects
    BY <1>0, <2>1 DEF Object, Objects, TypeOK
  <2>3. store' \in [Keys -> Objects \union {NoObj}]
    BY <1>0, <1>3, <2>2 DEF StoreResolver, TypeOK
  <2> QED
    BY <1>0, <1>3, <2>3 DEF StoreResolver, Settle, TypeOK, Steps
<1>4. CASE HandoffFollower(r)
  <2>0. lead[r] \in Reqs
    BY <1>0, <1>4 DEF HandoffFollower, Grounded
  <2>1. CASE /\ res[lead[r]] = "bytes"
             /\ Answer(r, "handoff", lead[r], whole[lead[r]], resp[lead[r]].vary)
             /\ pc' = [pc EXCEPT ![r] = "done"]
             /\ UNCHANGED <<lead, refill>>
    <3>1. resp[lead[r]].vary \in BOOLEAN /\ whole[lead[r]] \in BOOLEAN
      BY <1>0, <2>0, <2>1, ResponseFields DEF Grounded, TypeOK
    <3>2. answer' \in [Reqs -> Answers]
      BY <1>0, <2>0, <2>1, <3>1, AnswerType
    <3> QED
      BY <1>0, <1>4, <2>1, <3>2 DEF HandoffFollower, TypeOK, Steps, streamVars
  <2>2. CASE /\ Answer(r, "502", NoReq, FALSE, FALSE)
             /\ pc' = [pc EXCEPT ![r] = "done"]
             /\ UNCHANGED <<lead, refill>>
    <3>1. answer' \in [Reqs -> Answers]
      BY <1>0, <2>2, AnswerType
    <3> QED
      BY <1>0, <1>4, <2>2, <3>1 DEF HandoffFollower, TypeOK, Steps, streamVars
  <2>3. CASE /\ Answer(r, "503", NoReq, FALSE, FALSE)
             /\ TriggerShedRefill(r, lookupKey[r])
             /\ pc' = [pc EXCEPT ![r] = "done"]
             /\ UNCHANGED lead
    <3>1. answer' \in [Reqs -> Answers]
      BY <1>0, <2>3, AnswerType
    <3>2. refill' \in [Reqs -> Refills]
      BY <1>0, <2>3, TriggerType DEF TypeOK
    <3> QED
      BY <1>0, <1>4, <2>3, <3>1, <3>2 DEF HandoffFollower, TypeOK, Steps, streamVars
  <2>4. CASE /\ lead' = [lead EXCEPT ![r] = NoReq]
             /\ pc' = [pc EXCEPT ![r] = "fetch"]
             /\ UNCHANGED <<answer, refill>>
    BY <1>0, <1>4, <2>4 DEF HandoffFollower, TypeOK, Steps, streamVars
  <2> QED
    BY <1>4, <2>1, <2>2, <2>3, <2>4 DEF HandoffFollower
<1>5. CASE FillFollower(r)
  <2>1. CASE res[lead[r]] = "shed"
    <3>1. answer' \in [Reqs -> Answers]
      BY <1>0, <1>5, <2>1, AnswerType DEF FillFollower
    <3>2. refill' \in [Reqs -> Refills]
      BY <1>0, <1>5, <2>1, TriggerType DEF FillFollower, TypeOK
    <3> QED
      BY <1>0, <1>5, <2>1, <3>1, <3>2 DEF FillFollower, TypeOK, Steps, streamVars
  <2>2. CASE res[lead[r]] # "shed"
    BY <1>0, <1>5, <2>2 DEF FillFollower, TypeOK, Steps, streamVars
  <2> QED
    BY <2>1, <2>2
<1> QED
  BY <1>1, <1>2, <1>3, <1>4, <1>5

\* A step that only touches the memo, the store and the churn counter keeps
\* the state typed when it keeps those typed.
LEMMA EnvironmentTyped ==
  ASSUME TypeOK, memo' \in BOOLEAN, store' \in [Keys -> Objects \union {NoObj}],
         churn' = churn + 1,
         UNCHANGED <<reqVars, streamVars, table, slots, refill>>
  PROVE  TypeOK'
<1>1. /\ pc' = pc /\ reentry' = reentry /\ lookupKey' = lookupKey
      /\ flight' = flight /\ lead' = lead /\ answer' = answer
  BY DEF reqVars
<1>2. /\ followers' = followers /\ done' = done /\ stored' = stored
      /\ res' = res /\ cloned' = cloned /\ resp' = resp
      /\ whole' = whole /\ teed' = teed /\ leaving' = leaving
  BY DEF streamVars
<1>3. table' = table /\ slots' = slots /\ refill' = refill
  OBVIOUS
<1>4. churn' \in Nat
  BY SMTT(30) DEF TypeOK
<1> QED
  BY <1>1, <1>2, <1>3, <1>4 DEF TypeOK

\* The refills and the environment keep the state typed.
LEMMA BackgroundTyped ==
  ASSUME Typed, NEW r \in Reqs, NEW k \in Keys,
         Refill(r) \/ Evict(k) \/ Expire(k) \/ ForgetUnstorable
  PROVE  TypeOK'
<1>0. TypeOK /\ Grounded
  BY DEF Typed
<1> USE DEF streamVars, reqVars
<1>1. CASE RefillDo(r)
  <2>0. refill[r] \in Refills
    BY <1>0 DEF TypeOK
  <2>1. \A q \in Reqs : [refill[r] EXCEPT !.step = "lead"] \in Refills
                          /\ [refill[r] EXCEPT !.step = "join", !.of = q] \in Refills
    BY <2>0 DEF Refills, RefillSteps
  <2>a. PICK q \in Reqs :
          \/ refill' = [refill EXCEPT ![r] = [refill[r] EXCEPT !.step = "lead"]]
          \/ refill' = [refill EXCEPT ![r] = [refill[r] EXCEPT !.step = "join", !.of = q]]
    BY <1>0, <1>1 DEF RefillDo, TypeOK
  <2>2. refill' \in [Reqs -> Refills]
    BY <1>0, <2>a, <2>1 DEF TypeOK
  <2> QED
    BY <1>0, <1>1, <2>2 DEF RefillDo, TypeOK
<1>2. CASE RefillFetched(r)
  <2>1. \A q \in Reqs : NoRefill(q) \in Refills
    BY DEF NoRefill, Refills, RefillSteps, Keys
  <2>2. ASSUME NEW q \in Reqs, NEW p \in Responses
        PROVE  [refill[q] EXCEPT !.step = "put", !.resp = p] \in Refills
    <3>1. refill[q] \in Refills
      BY <1>0 DEF TypeOK
    <3> QED
      BY <3>1 DEF Refills, RefillSteps
  <2>3. \A q \in Reqs : refill[q] \in Refills
    BY <1>0 DEF TypeOK
  <2> DEFINE callers == {q \in Reqs : q = r \/ (refill[q].step = "join" /\ refill[q].of = r)}
  <2>a. PICK p \in Responses \union {NoResp} :
          refill' = [q \in Reqs |->
                       IF q \notin callers THEN refill[q]
                       ELSE IF p = NoResp THEN NoRefill(q)
                       ELSE [refill[q] EXCEPT !.step = "put", !.resp = p]]
    BY <1>2 DEF RefillFetched
  <2> HIDE DEF callers
  <2>4. refill' \in [Reqs -> Refills]
    BY <2>a, <2>1, <2>2, <2>3
  <2> QED
    BY <1>0, <1>2, <2>4 DEF RefillFetched, TypeOK
<1>3. CASE RefillPut(r)
  <2>1. NoRefill(r) \in Refills
    BY DEF NoRefill, Refills, RefillSteps, Keys
  <2>2. refill[r].key \in Keys /\ refill[r].of \in Reqs
    BY <1>0 DEF TypeOK, Refills
  <2>3. refill[r].resp.vary \in BOOLEAN
    BY <1>0, <1>3, ResponseFields DEF RefillPut, Grounded
  <2>4. \A kind \in {"plain", "variant"} :
          Object(kind, refill[r].of, r, TRUE, refill[r].resp.vary) \in Objects
    BY <2>2, <2>3 DEF Object, Objects
  <2>5. store' \in [Keys -> Objects \union {NoObj}]
    BY <1>0, <1>3, <2>2, <2>4 DEF RefillPut, TypeOK
  <2> QED
    BY <1>0, <1>3, <2>1, <2>5 DEF RefillPut, TypeOK
<1>s. memo \in BOOLEAN /\ store \in [Keys -> Objects \union {NoObj}]
  BY <1>0 DEF TypeOK
<1>4. CASE Evict(k)
  <2>1. /\ store' = [store EXCEPT ![k] = NoObj] /\ churn' = churn + 1
        /\ UNCHANGED <<reqVars, streamVars, table, slots, memo, refill>>
    BY <1>4 DEF Evict
  <2>2. memo' \in BOOLEAN /\ store' \in [Keys -> Objects \union {NoObj}]
    BY <1>s, <2>1
  <2> QED
    BY <1>0, <2>1, <2>2, EnvironmentTyped
<1>5. CASE Expire(k)
  <2>1. /\ store[k] # NoObj /\ store' = [store EXCEPT ![k].fresh = FALSE]
        /\ churn' = churn + 1
        /\ UNCHANGED <<reqVars, streamVars, table, slots, memo, refill>>
    BY <1>5 DEF Expire
  <2>2. store[k] \in Objects
    BY <1>s, <2>1
  <2>3. [store[k] EXCEPT !.fresh = FALSE] \in Objects
    BY <2>2 DEF Objects
  <2>4. memo' \in BOOLEAN /\ store' \in [Keys -> Objects \union {NoObj}]
    BY <1>s, <2>1, <2>3
  <2> QED
    BY <1>0, <2>1, <2>4, EnvironmentTyped
<1>6. CASE ForgetUnstorable
  <2>1. memo' = FALSE /\ churn' = churn + 1
        /\ UNCHANGED <<reqVars, streamVars, table, slots, store, refill>>
    BY <1>6 DEF ForgetUnstorable
  <2>2. memo' \in BOOLEAN /\ store' \in [Keys -> Objects \union {NoObj}]
    BY <1>s, <2>1
  <2> QED
    BY <1>0, <2>1, <2>2, EnvironmentTyped
<1> QED
  BY <1>1, <1>2, <1>3, <1>4, <1>5, <1>6 DEF Refill

\* A step of a request leaves what the steps dereference in place.
LEMMA StepGrounded ==
  ASSUME Typed, NEW r \in Reqs, Step(r) \/ LeaveTable(r)
  PROVE  Grounded'
<1>0. TypeOK /\ Grounded
  BY DEF Typed
<1>a. /\ pc \in [Reqs -> Steps] /\ lead \in [Reqs -> Reqs \union {NoReq}]
      /\ res \in [Reqs -> Verdicts] /\ resp \in [Reqs -> Responses \union {NoResp}]
      /\ refill \in [Reqs -> Refills]
  BY <1>0 DEF TypeOK
<1> USE DEF streamVars, reqVars
<1>1. CASE ServeRequest(r)
  BY <1>0, <1>a, <1>1 DEF ServeRequest, Grounded
<1>2. CASE FetchAlone(r)
  BY <1>0, <1>a, <1>2 DEF FetchAlone, Grounded
<1>3. CASE BecomeLeader(r)
  BY <1>0, <1>a, <1>3 DEF BecomeLeader, Grounded
<1>4. CASE JoinFlight(r)
  <2>1. table[flight[r]] \in Reqs
    BY <1>0, <1>4 DEF JoinFlight, MustFetchAlone, TypeOK
  <2> QED
    BY <1>0, <1>a, <1>4, <2>1 DEF JoinFlight, Grounded
<1>5. CASE CountFollower(r)
  BY <1>0, <1>a, <1>5 DEF CountFollower, Grounded
<1>6. CASE LeaveTable(r)
  BY <1>0, <1>a, <1>6 DEF LeaveTable, Grounded
<1>7. CASE AcquireFetchSlot(r)
  BY <1>0, <1>a, <1>7 DEF AcquireFetchSlot, Grounded
<1>8. CASE QueueForSlot(r)
  BY <1>0, <1>a, <1>8 DEF QueueForSlot, Grounded
<1>9. CASE ShedFetch(r)
  <2>1. \A q \in Reqs : refill'[q].step = "put" => refill'[q].resp \in Responses
    BY <1>9, TriggerType DEF ShedFetch, Keys
  <2> QED
    BY <1>0, <1>a, <1>9, <2>1 DEF ShedFetch, PublishVerdict, Grounded
<1>10. CASE OriginFails(r)
  BY <1>0, <1>a, <1>10 DEF OriginFails, PublishVerdict, Grounded
<1>11. CASE OriginHeaders(r)
  <2>1. PICK p \in Responses : resp' = [resp EXCEPT ![r] = p]
    BY <1>11 DEF OriginHeaders
  <2>2. /\ UNCHANGED <<lead, refill>>
        /\ \E s \in {"copy", "buffer", "tee"} : pc' = [pc EXCEPT ![r] = s]
        /\ res' = res \/ res' = [res EXCEPT ![r] = "unshareable"]
    BY <1>11 DEF OriginHeaders, StreamNoCache, PublishVerdict
  <2> QED
    BY <1>0, <1>a, <2>1, <2>2, SMTT(30) DEF Grounded
<1>12. CASE CopyBody(r)
  BY <1>0, <1>a, <1>12 DEF CopyBody, Grounded
<1>13. CASE ReadBody(r)
  <2>1. /\ UNCHANGED <<lead, refill, resp>> /\ pc[r] = "buffer"
        /\ \E s \in {"done", "store"} : pc' = [pc EXCEPT ![r] = s]
        /\ \E v \in Verdicts : res' = [res EXCEPT ![r] = v]
    BY <1>13 DEF ReadBody, PublishVerdict, PublishFillVerdict, Verdicts
  <2> QED
    BY <1>0, <1>a, <2>1 DEF Grounded
<1>14. CASE TeeBody(r)
  <2>1. /\ UNCHANGED <<lead, refill, resp>> /\ pc[r] = "tee"
        /\ \E s \in {"done", "store"} : pc' = [pc EXCEPT ![r] = s]
        /\ \E v \in Verdicts : res' = [res EXCEPT ![r] = v]
    BY <1>14 DEF TeeBody, PublishVerdict, PublishFillVerdict, Verdicts
  <2> QED
    BY <1>0, <1>a, <2>1 DEF Grounded
<1>15. CASE SkipStore(r)
  BY <1>0, <1>a, <1>15 DEF SkipStore, Settle, Grounded
<1>16. CASE StoreFill(r)
  BY <1>0, <1>a, <1>16 DEF StoreFill, Settle, Grounded
<1>17. CASE StoreResolver(r)
  BY <1>0, <1>a, <1>17 DEF StoreResolver, Settle, Grounded
<1>18. CASE HandoffFollower(r)
  <2>1. /\ UNCHANGED <<res, resp>>
        /\ \E s \in {"done", "fetch"} : pc' = [pc EXCEPT ![r] = s]
        /\ lead' = lead \/ lead' = [lead EXCEPT ![r] = NoReq]
        /\ refill' = refill \/ TriggerShedRefill(r, lookupKey[r])
    BY <1>18 DEF HandoffFollower
  <2>2. \A q \in Reqs : refill'[q].step = "put" => refill'[q].resp \in Responses
    BY <1>0, <2>1, TriggerType DEF Grounded, TypeOK
  <2>3. \A q \in Reqs : pc'[q] \in {"joined", "wait"} =>
                            pc'[q] = pc[q] /\ lead'[q] = lead[q]
    BY <1>a, <2>1
  <2>4. \A q \in Reqs : pc'[q] \in {"joined", "wait"} => lead'[q] \in Reqs
    BY <1>0, <2>3 DEF Grounded
  <2>5. \A q \in Reqs : pc'[q] \in {"buffer", "tee", "copy", "store", "resolver"} =>
                            pc'[q] = pc[q]
    BY <1>a, <2>1
  <2>6. \A q \in Reqs : pc'[q] \in {"buffer", "tee", "copy", "store", "resolver"} =>
                            resp'[q] \in Responses
    BY <1>0, <2>1, <2>5 DEF Grounded
  <2>7. \A q \in Reqs : res'[q] = "bytes" => resp'[q] \in Responses
    BY <1>0, <2>1 DEF Grounded
  <2> QED
    BY <2>2, <2>4, <2>6, <2>7 DEF Grounded
<1>19. CASE FillFollower(r)
  <2>1. /\ UNCHANGED <<res, resp>>
        /\ \E s \in {"done", "start"} : pc' = [pc EXCEPT ![r] = s]
        /\ lead' = [lead EXCEPT ![r] = NoReq]
        /\ refill' = refill \/ TriggerShedRefill(r, lookupKey[r])
    BY <1>19 DEF FillFollower
  <2>2. \A q \in Reqs : refill'[q].step = "put" => refill'[q].resp \in Responses
    BY <1>0, <2>1, TriggerType DEF Grounded, TypeOK
  <2> QED
    BY <1>0, <1>a, <2>1, <2>2, SMTT(30) DEF Grounded
<1> QED
  BY <1>1, <1>2, <1>3, <1>4, <1>5, <1>6, <1>7, <1>8, <1>9, <1>10, <1>11, <1>12,
     <1>13, <1>14, <1>15, <1>16, <1>17, <1>18, <1>19 DEF Step

\* Refills and the environment leave it in place as well.
LEMMA BackgroundGrounded ==
  ASSUME Typed, NEW r \in Reqs, NEW k \in Keys,
         Refill(r) \/ Evict(k) \/ Expire(k) \/ ForgetUnstorable
  PROVE  Grounded'
<1>0. TypeOK /\ Grounded
  BY DEF Typed
<1> USE DEF streamVars, reqVars
<1>a. \A q \in Reqs : refill[q] \in Refills
  BY <1>0 DEF TypeOK
<1>1. UNCHANGED <<pc, lead, res, resp>>
  BY DEF Refill, RefillDo, RefillFetched, RefillPut, Evict, Expire, ForgetUnstorable
<1>2. \A q \in Reqs : refill'[q].step = "put" => refill'[q].resp \in Responses
  <2>1. CASE RefillDo(r)
    <3>1. PICK q \in Reqs :
            \/ refill' = [refill EXCEPT ![r] = [refill[r] EXCEPT !.step = "lead"]]
            \/ refill' = [refill EXCEPT ![r] = [refill[r] EXCEPT !.step = "join", !.of = q]]
      BY <1>0, <2>1 DEF RefillDo, TypeOK
    <3>2. /\ [refill[r] EXCEPT !.step = "lead"].step # "put"
          /\ [refill[r] EXCEPT !.step = "join", !.of = q].step # "put"
      BY <1>a, SMTT(30) DEF Refills
    <3> QED
      BY <1>0, <3>1, <3>2 DEF Grounded, TypeOK
  <2>2. CASE RefillFetched(r)
    <3> DEFINE callers == {q \in Reqs : q = r \/ (refill[q].step = "join" /\ refill[q].of = r)}
    <3>1. PICK p \in Responses \union {NoResp} :
            refill' = [q \in Reqs |->
                         IF q \notin callers THEN refill[q]
                         ELSE IF p = NoResp THEN NoRefill(q)
                         ELSE [refill[q] EXCEPT !.step = "put", !.resp = p]]
      BY <2>2 DEF RefillFetched
    <3>2. \A q \in Reqs : NoRefill(q).step # "put"
      BY DEF NoRefill
    <3>3. \A q \in Reqs : [refill[q] EXCEPT !.step = "put", !.resp = p].resp = p
      BY <1>a DEF Refills
    <3> HIDE DEF callers
    <3> QED
      BY <1>0, <3>1, <3>2, <3>3 DEF Grounded
  <2>3. CASE RefillPut(r)
    <3>1. NoRefill(r).step # "put"
      BY DEF NoRefill
    <3> QED
      BY <1>0, <2>3, <3>1 DEF RefillPut, Grounded, TypeOK
  <2>4. CASE Evict(k) \/ Expire(k) \/ ForgetUnstorable
    <3>1. refill' = refill
      BY <2>4 DEF Evict, Expire, ForgetUnstorable
    <3> QED
      BY <1>0, <3>1 DEF Grounded
  <2> QED
    BY <2>1, <2>2, <2>3, <2>4 DEF Refill
<1> QED
  BY <1>0, <1>1, <1>2 DEF Grounded

\* Typed is inductive.
LEMMA NextTyped == Typed /\ [Next]_vars => Typed'
<1> SUFFICES ASSUME Typed, [Next]_vars PROVE Typed'
  OBVIOUS
<1>1. CASE \E r \in Reqs : Step(r) \/ LeaveTable(r)
  <2>1. PICK r \in Reqs : Step(r) \/ LeaveTable(r)
    BY <1>1
  <2>2. TypeOK'
    BY <2>1, ParkingTyped, FetchTyped, SettleTyped DEF Step
  <2>3. Grounded'
    BY <2>1, StepGrounded
  <2> QED
    BY <2>2, <2>3 DEF Typed
<1>2. CASE \E r \in Reqs : Refill(r)
  <2>1. Primary \in Keys
    BY DEF Keys
  <2> QED
    BY <1>2, <2>1, BackgroundTyped, BackgroundGrounded DEF Typed
<1>3. CASE Environment
  <2>1. CASE ForgetUnstorable
    <3>1. TypeOK' /\ Grounded'
      <4>0. TypeOK /\ Grounded
        BY DEF Typed
      <4>1. memo' = FALSE /\ churn' = churn + 1
            /\ UNCHANGED <<reqVars, streamVars, table, slots, store, refill>>
        BY <2>1 DEF ForgetUnstorable
      <4>2. memo' \in BOOLEAN /\ store' \in [Keys -> Objects \union {NoObj}]
        BY <4>0, <4>1 DEF TypeOK
      <4>3. TypeOK'
        BY <4>0, <4>1, <4>2, EnvironmentTyped
      <4>4. Grounded'
        BY <4>0, <4>1 DEF Grounded, reqVars, streamVars
      <4> QED
        BY <4>3, <4>4
    <3> QED
      BY <3>1 DEF Typed
  <2>2. CASE \E k \in Keys : Evict(k) \/ Expire(k)
    <3>1. PICK k \in Keys : Evict(k) \/ Expire(k)
      BY <2>2
    <3>2. store[k] \in Objects
      BY <3>1 DEF Evict, Expire, Typed, TypeOK
    <3>3. PICK r \in Reqs : TRUE
      BY <3>2 DEF Objects
    <3> QED
      BY <3>1, <3>3, BackgroundTyped, BackgroundGrounded DEF Typed
  <2> QED
    BY <1>3, <2>1, <2>2 DEF Environment
<1>4. CASE UNCHANGED vars
  BY <1>4 DEF Typed, TypeOK, Grounded, vars, reqVars, streamVars
<1> QED
  BY <1>1, <1>2, <1>3, <1>4 DEF Next, Finished

\* Every variable keeps its type for every number of requests, variants and
\* slots, and no step dereferences a leader or a response that is not there.
THEOREM AlwaysTyped == Spec => []Typed
<1> QED
  BY InitTyped, NextTyped, PTL DEF Spec

\* TypeOK is an invariant of the miss pipeline.
THEOREM TypeCorrect == Spec => []TypeOK
<1>1. Typed => TypeOK
  BY DEF Typed
<1> QED
  BY <1>1, AlwaysTyped, PTL
-----------------------------------------------------------------------------
(* Settlement, ownership of the in-flight table, followers that always have*)
(* a leader to wake them, and slot accounting.                             *)

\* What the response headers decide: an unbuffered stream that is shared with
\* nobody, a body to be read first, or a body teed to the client.
LEMMA HeadersEffect ==
  ASSUME NEW r \in Reqs, OriginHeaders(r)
  PROVE  /\ pc[r] = "origin"
         /\ UNCHANGED <<flight, lead, table, slots, refill>>
         /\ \E p \in Responses : resp' = [resp EXCEPT ![r] = p]
         /\ \/ /\ pc' = [pc EXCEPT ![r] = "copy"]
               /\ PublishVerdict(r, "unshareable") /\ Return(r)
               /\ UNCHANGED teed
            \/ /\ pc' = [pc EXCEPT ![r] = "buffer"]
               /\ UNCHANGED <<answer, done, stored, res, teed, leaving>>
            \/ /\ pc' = [pc EXCEPT ![r] = "tee"]
               /\ teed' = [teed EXCEPT ![r] = TRUE]
               /\ Return(r)
               /\ UNCHANGED <<done, stored, res>>
  BY DEF OriginHeaders, StreamNoCache

\* What reading the body ends in: a failure, or a published copy.
LEMMA ReadEffect ==
  ASSUME NEW r \in Reqs, ReadBody(r)
  PROVE  /\ pc[r] = "buffer"
         /\ slots' = slots \ {r}
         /\ UNCHANGED <<flight, lead, table, refill, resp, teed>>
         /\ \/ /\ pc' = [pc EXCEPT ![r] = "done"]
               /\ PublishVerdict(r, "fail") /\ Return(r)
            \/ /\ pc' = [pc EXCEPT ![r] = "store"]
               /\ PublishFillVerdict(r)
               /\ UNCHANGED leaving
  BY DEF ReadBody

\* What teeing the body ends in: a stream shared with nobody, or a copy.
LEMMA TeeEffect ==
  ASSUME NEW r \in Reqs, TeeBody(r)
  PROVE  /\ pc[r] = "tee"
         /\ slots' = slots \ {r}
         /\ UNCHANGED <<flight, lead, table, refill, resp, teed, leaving, answer>>
         /\ \/ pc' = [pc EXCEPT ![r] = "done"] /\ PublishVerdict(r, "unshareable")
            \/ pc' = [pc EXCEPT ![r] = "store"] /\ PublishFillVerdict(r)
  BY DEF TeeBody

\* What a handoff follower wakes to: an answer, or a fetch of its own.
LEMMA HandoffEffect ==
  ASSUME NEW r \in Reqs, HandoffFollower(r)
  PROVE  /\ pc[r] = "wait" /\ ~IsFill(flight[r])
         /\ UNCHANGED <<flight, streamVars, table, slots>>
         /\ \/ /\ pc' = [pc EXCEPT ![r] = "done"] /\ UNCHANGED lead
               /\ refill' = refill \/ TriggerShedRefill(r, lookupKey[r])
            \/ /\ pc' = [pc EXCEPT ![r] = "fetch"]
               /\ lead' = [lead EXCEPT ![r] = NoReq]
               /\ UNCHANGED refill
  BY DEF HandoffFollower

\* What a fill follower wakes to: a shed of its own, or another lookup.
LEMMA FillFollowerEffect ==
  ASSUME NEW r \in Reqs, FillFollower(r)
  PROVE  /\ pc[r] = "wait" /\ stored[lead[r]]
         /\ UNCHANGED <<flight, streamVars, table, slots>>
         /\ lead' = [lead EXCEPT ![r] = NoReq]
         /\ \/ /\ pc' = [pc EXCEPT ![r] = "done"]
               /\ TriggerShedRefill(r, lookupKey[r])
            \/ /\ pc' = [pc EXCEPT ![r] = "start"]
               /\ UNCHANGED refill
  BY DEF FillFollower

\* A trigger starts a refill of the triggering request only.
LEMMA TriggerElsewhere ==
  ASSUME TypeOK, NEW r \in Reqs, NEW k, TriggerShedRefill(r, k)
  PROVE  \A q \in Reqs \ {r} : refill'[q] = refill[q]
  BY DEF TypeOK, TriggerShedRefill

\* A request's own steps publish a verdict once and settle it once.
LEMMA StepSettles ==
  ASSUME TypeOK, SettlementProtocol, NEW r \in Reqs, Step(r) \/ LeaveTable(r)
  PROVE  SettlementProtocol'
<1>a. /\ pc \in [Reqs -> Steps] /\ res \in [Reqs -> Verdicts]
      /\ done \in [Reqs -> BOOLEAN] /\ stored \in [Reqs -> BOOLEAN]
  BY DEF TypeOK
<1> USE DEF streamVars, reqVars, BeforeVerdict
<1>1. CASE ServeRequest(r)
  BY <1>a, <1>1 DEF ServeRequest, SettlementProtocol
<1>2. CASE FetchAlone(r)
  BY <1>a, <1>2 DEF FetchAlone, SettlementProtocol
<1>3. CASE BecomeLeader(r)
  BY <1>a, <1>3 DEF BecomeLeader, SettlementProtocol
<1>4. CASE JoinFlight(r)
  BY <1>a, <1>4 DEF JoinFlight, SettlementProtocol
<1>5. CASE CountFollower(r)
  BY <1>a, <1>5 DEF CountFollower, SettlementProtocol
<1>6. CASE LeaveTable(r)
  BY <1>a, <1>6 DEF LeaveTable, SettlementProtocol
<1>7. CASE AcquireFetchSlot(r)
  BY <1>a, <1>7 DEF AcquireFetchSlot, SettlementProtocol
<1>8. CASE QueueForSlot(r)
  BY <1>a, <1>8 DEF QueueForSlot, SettlementProtocol
<1>9. CASE ShedFetch(r)
  BY <1>a, <1>9 DEF ShedFetch, PublishVerdict, Return, SettlementProtocol
<1>10. CASE OriginFails(r)
  BY <1>a, <1>10 DEF OriginFails, PublishVerdict, Return, SettlementProtocol
<1>11. CASE OriginHeaders(r)
  BY <1>a, <1>11, HeadersEffect, SMTT(30) DEF PublishVerdict, Return, SettlementProtocol
<1>12. CASE CopyBody(r)
  BY <1>a, <1>12 DEF CopyBody, SettlementProtocol
<1>13. CASE ReadBody(r)
  BY <1>a, <1>13, ReadEffect, SMTT(30) DEF PublishVerdict, PublishFillVerdict, Return, SettlementProtocol
<1>14. CASE TeeBody(r)
  BY <1>a, <1>14, TeeEffect, SMTT(30) DEF PublishVerdict, PublishFillVerdict, SettlementProtocol
<1>15. CASE SkipStore(r)
  BY <1>a, <1>15 DEF SkipStore, Settle, SettlementProtocol
<1>16. CASE StoreFill(r)
  BY <1>a, <1>16 DEF StoreFill, Settle, SettlementProtocol
<1>17. CASE StoreResolver(r)
  BY <1>a, <1>17 DEF StoreResolver, Settle, SettlementProtocol
<1>18. CASE HandoffFollower(r)
  BY <1>a, <1>18, HandoffEffect DEF SettlementProtocol
<1>19. CASE FillFollower(r)
  BY <1>a, <1>19 DEF FillFollower, SettlementProtocol
<1> QED
  BY <1>1, <1>2, <1>3, <1>4, <1>5, <1>6, <1>7, <1>8, <1>9, <1>10, <1>11,
     <1>12, <1>13, <1>14, <1>15, <1>16, <1>17, <1>18, <1>19 DEF Step

Unteed == {"start", "park", "joined", "wait", "fetch", "queue", "origin", "buffer"}

\* Where a request is tells whom it leads or follows, whether its deferred
\* delete is due, and that only a finished request has a refill.
Stages ==
  \A r \in Reqs :
    /\ pc[r] \in {"start", "park"} => lead[r] = NoReq
    /\ pc[r] \in {"joined", "wait"} => lead[r] \in Reqs \ {r}
    /\ pc[r] \in Unteed => ~leaving[r] /\ ~teed[r]
    /\ pc[r] = "tee" => teed[r]
    /\ leaving[r] => lead[r] = r /\ (teed[r] \/ pc[r] \in {"done", "copy"})
    /\ lead[r] # NoReq => flight[r] \in FlightKeys
    /\ lead[r] = r /\ pc[r] = "done" => done[r]
    /\ pc[r] # "done" => refill[r].step = "none"

\* A request's own steps keep the stages.
LEMMA StepStages ==
  ASSUME TypeOK, SettlementProtocol, Stages, TableOwner,
         NEW r \in Reqs, Step(r) \/ LeaveTable(r)
  PROVE  Stages'
<1>a. /\ pc \in [Reqs -> Steps] /\ lead \in [Reqs -> Reqs \union {NoReq}]
      /\ flight \in [Reqs -> FlightKeys \union {NoFlight}]
      /\ done \in [Reqs -> BOOLEAN] /\ teed \in [Reqs -> BOOLEAN]
      /\ leaving \in [Reqs -> BOOLEAN] /\ refill \in [Reqs -> Refills]
      /\ NoReq \notin Reqs
  BY ConstantsAssumption DEF TypeOK
<1>b. \A q \in Reqs : pc[q] \in {"copy", "store", "resolver"} => done[q]
  BY DEF SettlementProtocol
<1> USE DEF streamVars, reqVars, Unteed
<1>1. CASE ServeRequest(r)
  <2>1. /\ pc[r] = "start"
        /\ \/ pc' = [pc EXCEPT ![r] = "done"] /\ UNCHANGED flight
           \/ /\ pc' = [pc EXCEPT ![r] = "park"]
              /\ \E f : flight' = [flight EXCEPT ![r] = f]
        /\ UNCHANGED <<lead, done, teed, leaving, refill>>
    BY <1>1 DEF ServeRequest
  <2>2. lead[r] = NoReq /\ ~leaving[r]
    BY <2>1 DEF Stages
  <2>3. \A q \in Reqs \ {r} : pc'[q] = pc[q] /\ flight'[q] = flight[q]
    BY <1>a, <2>1
  <2> QED
    BY <1>a, <2>1, <2>2, <2>3, SMTT(30) DEF Stages
<1>2. CASE FetchAlone(r)
  BY <1>a, <1>b, <1>2 DEF FetchAlone, Stages
<1>3. CASE BecomeLeader(r)
  BY <1>a, <1>b, <1>3 DEF BecomeLeader, MustFetchAlone, Stages
<1>4. CASE JoinFlight(r)
  <2>1. /\ flight[r] \in FlightKeys /\ table[flight[r]] # NoReq
        /\ lead' = [lead EXCEPT ![r] = table[flight[r]]]
        /\ pc[r] = "park" /\ pc' = [pc EXCEPT ![r] = "joined"]
        /\ UNCHANGED <<flight, streamVars, refill>>
    BY <1>a, <1>4 DEF JoinFlight, MustFetchAlone
  <2>2. table[flight[r]] \in Reqs \ {r}
    BY <2>1, <1>a, SMTT(30) DEF TableOwner, InTable, Stages, TypeOK
  <2> QED
    BY <1>a, <2>1, <2>2 DEF Stages
<1>5. CASE CountFollower(r)
  BY <1>a, <1>b, <1>5 DEF CountFollower, Stages
<1>6. CASE LeaveTable(r)
  BY <1>a, <1>b, <1>6 DEF LeaveTable, Stages
<1>7. CASE AcquireFetchSlot(r)
  BY <1>a, <1>b, <1>7 DEF AcquireFetchSlot, Stages
<1>8. CASE QueueForSlot(r)
  BY <1>a, <1>b, <1>8 DEF QueueForSlot, Stages
<1>9. CASE ShedFetch(r)
  <2>1. /\ pc[r] \in {"fetch", "queue"}
        /\ pc' = [pc EXCEPT ![r] = "done"]
        /\ done' = [done EXCEPT ![r] = TRUE]
        /\ leaving' = [leaving EXCEPT ![r] = lead[r] = r]
        /\ UNCHANGED <<flight, lead, teed>>
    BY <1>9 DEF ShedFetch, PublishVerdict, Return
  <2>2. \A q \in Reqs \ {r} : refill'[q] = refill[q]
    BY <1>9, TriggerElsewhere DEF ShedFetch
  <2>3. \A q \in Reqs \ {r} : /\ pc'[q] = pc[q] /\ done'[q] = done[q]
                              /\ leaving'[q] = leaving[q]
    BY <1>a, <2>1
  <2>4. pc'[r] = "done" /\ done'[r] /\ leaving'[r] = (lead[r] = r)
    BY <1>a, <2>1
  <2>5. ~teed[r]
    BY <2>1 DEF Stages
  <2> SUFFICES ASSUME NEW q \in Reqs
               PROVE  /\ pc'[q] \in {"start", "park"} => lead'[q] = NoReq
                      /\ pc'[q] \in {"joined", "wait"} => lead'[q] \in Reqs \ {q}
                      /\ pc'[q] \in Unteed => ~leaving'[q] /\ ~teed'[q]
                      /\ pc'[q] = "tee" => teed'[q]
                      /\ leaving'[q] => lead'[q] = q /\ (teed'[q] \/ pc'[q] \in {"done", "copy"})
                      /\ lead'[q] # NoReq => flight'[q] \in FlightKeys
                      /\ lead'[q] = q /\ pc'[q] = "done" => done'[q]
                      /\ pc'[q] # "done" => refill'[q].step = "none"
    BY DEF Stages
  <2>6. CASE q = r
    <3>1. lead'[r] = lead[r] /\ flight'[r] = flight[r] /\ teed'[r] = teed[r]
      BY <2>1
    <3>2. lead[r] # NoReq => flight[r] \in FlightKeys
      BY DEF Stages
    <3> QED
      BY <2>4, <2>5, <2>6, <3>1, <3>2
  <2>7. CASE q # r
    <3>1. /\ pc'[q] = pc[q] /\ lead'[q] = lead[q] /\ flight'[q] = flight[q]
          /\ done'[q] = done[q] /\ teed'[q] = teed[q] /\ leaving'[q] = leaving[q]
          /\ refill'[q] = refill[q]
      BY <2>1, <2>2, <2>3, <2>7
    <3> QED
      BY <3>1 DEF Stages
  <2> QED
    BY <2>6, <2>7
<1>10. CASE OriginFails(r)
  BY <1>a, <1>b, <1>10 DEF OriginFails, PublishVerdict, Return, Stages
<1>11. CASE OriginHeaders(r)
  BY <1>a, <1>b, <1>11, HeadersEffect, SMTT(30) DEF PublishVerdict, Return, Stages
<1>12. CASE CopyBody(r)
  BY <1>a, <1>b, <1>12 DEF CopyBody, Stages
<1>13. CASE ReadBody(r)
  BY <1>a, <1>b, <1>13, ReadEffect, SMTT(30) DEF PublishVerdict, PublishFillVerdict, Return, Stages
<1>14. CASE TeeBody(r)
  BY <1>a, <1>b, <1>14, TeeEffect, SMTT(30) DEF PublishVerdict, PublishFillVerdict, Stages
<1>15. CASE SkipStore(r)
  BY <1>a, <1>b, <1>15 DEF SkipStore, Settle, Stages
<1>16. CASE StoreFill(r)
  <2>1. /\ pc[r] = "store"
        /\ UNCHANGED <<flight, lead, done, teed, refill>>
        /\ \/ /\ pc' = [pc EXCEPT ![r] = "done"]
              /\ leaving' = [leaving EXCEPT ![r] = IF teed[r] THEN @ ELSE lead[r] = r]
           \/ pc' = [pc EXCEPT ![r] = "resolver"] /\ UNCHANGED leaving
    BY <1>16 DEF StoreFill, Settle
  <2>2. \A q \in Reqs \ {r} : pc'[q] = pc[q] /\ leaving'[q] = leaving[q]
    BY <1>a, <2>1
  <2>3. done[r] /\ (leaving'[r] => lead[r] = r /\ (teed[r] \/ pc'[r] = "done"))
    BY <1>a, <1>b, <2>1 DEF Stages
  <2>4. pc'[r] \in {"done", "resolver"} /\ (pc'[r] # "done" => refill[r].step = "none")
    BY <1>a, <2>1 DEF Stages
  <2> QED
    BY <2>1, <2>2, <2>3, <2>4, SMTT(30) DEF Stages
<1>17. CASE StoreResolver(r)
  BY <1>a, <1>b, <1>17 DEF StoreResolver, Settle, Stages
<1>18. CASE HandoffFollower(r)
  BY <1>a, <1>b, <1>18, HandoffEffect, TriggerElsewhere, SMTT(30) DEF Stages
<1>19. CASE FillFollower(r)
  BY <1>a, <1>b, <1>19, FillFollowerEffect, TriggerElsewhere, SMTT(30) DEF Stages
<1> QED
  BY <1>1, <1>2, <1>3, <1>4, <1>5, <1>6, <1>7, <1>8, <1>9, <1>10, <1>11,
     <1>12, <1>13, <1>14, <1>15, <1>16, <1>17, <1>18, <1>19 DEF Step

\* Apart from taking the lead and from the deferred delete, no step changes
\* the table, who is in it, or the flight of anyone in it.
LEMMA StepKeepsTable ==
  ASSUME TypeOK, Stages, TableOwner, NEW r \in Reqs, Step(r), ~BecomeLeader(r)
  PROVE  /\ table' = table
         /\ \A q \in Reqs : InTable(q)' <=> InTable(q)
         /\ \A q \in Reqs : InTable(q) => flight'[q] = flight[q]
<1>a. /\ pc \in [Reqs -> Steps] /\ lead \in [Reqs -> Reqs \union {NoReq}]
      /\ flight \in [Reqs -> FlightKeys \union {NoFlight}]
      /\ teed \in [Reqs -> BOOLEAN] /\ leaving \in [Reqs -> BOOLEAN]
      /\ NoReq \notin Reqs
  BY ConstantsAssumption DEF TypeOK
<1>b. /\ pc[r] \in {"start", "park"} => lead[r] = NoReq
      /\ pc[r] \in {"joined", "wait"} => lead[r] # r
      /\ pc[r] \in Unteed => ~leaving[r] /\ ~teed[r]
      /\ pc[r] = "tee" => teed[r]
      /\ leaving[r] => lead[r] = r /\ (teed[r] \/ pc[r] \in {"done", "copy"})
  BY DEF Stages
<1> USE DEF streamVars, reqVars, Unteed
<1>1. CASE ServeRequest(r)
  BY <1>a, <1>b, <1>1 DEF ServeRequest, InTable
<1>2. CASE FetchAlone(r)
  BY <1>a, <1>b, <1>2 DEF FetchAlone, InTable
<1>3. CASE BecomeLeader(r)
  BY <1>3
<1>4. CASE JoinFlight(r)
  <2>1. /\ flight[r] \in FlightKeys /\ table[flight[r]] # NoReq
        /\ lead' = [lead EXCEPT ![r] = table[flight[r]]]
        /\ pc[r] = "park" /\ pc' = [pc EXCEPT ![r] = "joined"]
        /\ UNCHANGED <<flight, teed, leaving, table>>
    BY <1>a, <1>4 DEF JoinFlight, MustFetchAlone
  <2>2. table[flight[r]] # r
    BY <2>1, <1>a, <1>b DEF TableOwner, InTable
  <2> QED
    BY <1>a, <1>b, <2>1, <2>2 DEF InTable
<1>5. CASE CountFollower(r)
  BY <1>a, <1>b, <1>5 DEF CountFollower, InTable
<1>7. CASE AcquireFetchSlot(r)
  BY <1>a, <1>b, <1>7 DEF AcquireFetchSlot, InTable
<1>8. CASE QueueForSlot(r)
  BY <1>a, <1>b, <1>8 DEF QueueForSlot, InTable
<1>9. CASE ShedFetch(r)
  BY <1>a, <1>b, <1>9 DEF ShedFetch, PublishVerdict, Return, InTable
<1>10. CASE OriginFails(r)
  BY <1>a, <1>b, <1>10 DEF OriginFails, PublishVerdict, Return, InTable
<1>11. CASE OriginHeaders(r)
  <2>1. /\ pc[r] = "origin" /\ ~leaving[r] /\ ~teed[r]
        /\ UNCHANGED <<flight, lead, table>>
    BY <1>11, <1>b, HeadersEffect
  <2>2. \/ /\ pc' = [pc EXCEPT ![r] = "copy"] /\ UNCHANGED teed
           /\ leaving' = [leaving EXCEPT ![r] = lead[r] = r]
        \/ /\ pc' = [pc EXCEPT ![r] = "buffer"] /\ UNCHANGED <<teed, leaving>>
        \/ /\ pc' = [pc EXCEPT ![r] = "tee"] /\ teed' = [teed EXCEPT ![r] = TRUE]
           /\ leaving' = [leaving EXCEPT ![r] = lead[r] = r]
    BY <1>11, HeadersEffect DEF Return
  <2>3. \A q \in Reqs \ {r} : InTable(q)' <=> InTable(q)
    BY <1>a, <2>1, <2>2 DEF InTable
  <2>4. InTable(r)' <=> InTable(r)
    BY <1>a, <2>1, <2>2 DEF InTable
  <2> QED
    BY <2>1, <2>3, <2>4
<1>12. CASE CopyBody(r)
  BY <1>a, <1>b, <1>12 DEF CopyBody, InTable
<1>13. CASE ReadBody(r)
  <2>1. /\ pc[r] = "buffer" /\ ~leaving[r] /\ ~teed[r]
        /\ UNCHANGED <<flight, lead, table, teed>>
    BY <1>13, <1>b, ReadEffect
  <2>2. \/ /\ pc' = [pc EXCEPT ![r] = "done"]
           /\ leaving' = [leaving EXCEPT ![r] = lead[r] = r]
        \/ /\ pc' = [pc EXCEPT ![r] = "store"] /\ UNCHANGED leaving
    BY <1>13, ReadEffect DEF Return
  <2>3. \A q \in Reqs \ {r} : InTable(q)' <=> InTable(q)
    BY <1>a, <2>1, <2>2 DEF InTable
  <2>4. InTable(r)' <=> InTable(r)
    BY <1>a, <2>1, <2>2 DEF InTable
  <2> QED
    BY <2>1, <2>3, <2>4
<1>14. CASE TeeBody(r)
  BY <1>a, <1>b, <1>14, TeeEffect DEF PublishVerdict, PublishFillVerdict, InTable
<1>15. CASE SkipStore(r)
  BY <1>a, <1>b, <1>15 DEF SkipStore, Settle, InTable
<1>16. CASE StoreFill(r)
  BY <1>a, <1>b, <1>16 DEF StoreFill, Settle, InTable
<1>17. CASE StoreResolver(r)
  BY <1>a, <1>b, <1>17 DEF StoreResolver, Settle, InTable
<1>18. CASE HandoffFollower(r)
  BY <1>a, <1>b, <1>18, HandoffEffect DEF InTable
<1>19. CASE FillFollower(r)
  BY <1>a, <1>b, <1>19, FillFollowerEffect DEF InTable
<1> QED
  BY <1>1, <1>2, <1>3, <1>4, <1>5, <1>7, <1>8, <1>9, <1>10, <1>11,
     <1>12, <1>13, <1>14, <1>15, <1>16, <1>17, <1>18, <1>19 DEF Step

\* A leader enters the table under a free key, and the deferred delete takes
\* out the leader's own entry.
LEMMA StepOwnsTable ==
  ASSUME TypeOK, Stages, TableOwner, NEW r \in Reqs, Step(r) \/ LeaveTable(r)
  PROVE  TableOwner'
<1>a. /\ table \in [FlightKeys -> Reqs \union {NoReq}] /\ NoReq \notin Reqs
      /\ flight \in [Reqs -> FlightKeys \union {NoFlight}]
      /\ lead \in [Reqs -> Reqs \union {NoReq}]
      /\ pc \in [Reqs -> Steps] /\ leaving \in [Reqs -> BOOLEAN]
  BY ConstantsAssumption DEF TypeOK
<1>b. \A q \in Reqs : InTable(q) => flight[q] \in FlightKeys
  BY <1>a DEF InTable, Stages
<1>1. CASE BecomeLeader(r)
  <2>1. /\ pc[r] = "park" /\ flight[r] \in FlightKeys /\ table[flight[r]] = NoReq
        /\ table' = [table EXCEPT ![flight[r]] = r]
        /\ lead' = [lead EXCEPT ![r] = r]
        /\ pc' = [pc EXCEPT ![r] = "fetch"]
        /\ UNCHANGED <<flight, leaving, teed>>
    BY <1>1, <1>a DEF BecomeLeader, MustFetchAlone, streamVars
  <2>2. InTable(r)' /\ ~InTable(r)
    BY <2>1, <1>a DEF InTable, Stages, Unteed
  <2>3. \A q \in Reqs \ {r} : InTable(q)' <=> InTable(q)
    BY <2>1, <1>a DEF InTable
  <2>4. \A q \in Reqs : InTable(q) => flight[q] # flight[r]
    BY <2>1, <1>a, SMTT(30) DEF TableOwner
  <2> QED
    BY <2>1, <2>2, <2>3, <2>4, <1>a, <1>b, SMTT(30) DEF TableOwner
<1>2. CASE LeaveTable(r)
  <2>1. /\ leaving[r]
        /\ leaving' = [leaving EXCEPT ![r] = FALSE]
        /\ table' = [table EXCEPT ![flight[r]] = NoReq]
        /\ UNCHANGED <<flight, pc, lead, teed>>
    BY <1>2 DEF LeaveTable, reqVars
  <2>2. InTable(r) /\ ~InTable(r)'
    BY <2>1, <1>a DEF InTable, Stages
  <2>3. \A q \in Reqs \ {r} : InTable(q)' <=> InTable(q)
    BY <2>1, <1>a DEF InTable
  <2>4. \A q \in Reqs \ {r} : InTable(q) => flight[q] # flight[r]
    BY <2>2, <1>a DEF TableOwner
  <2> QED
    BY <2>1, <2>2, <2>3, <2>4, <1>a, <1>b, SMTT(30) DEF TableOwner
<1>3. CASE Step(r) /\ ~BecomeLeader(r)
  <2>1. /\ table' = table
        /\ \A q \in Reqs : InTable(q)' <=> InTable(q)
        /\ \A q \in Reqs : InTable(q) => flight'[q] = flight[q]
    BY <1>3, StepKeepsTable
  <2> QED
    BY <2>1, <1>a, <1>b, SMTT(30) DEF TableOwner
<1> QED
  BY <1>1, <1>2, <1>3

\* A step moves its own request only, changes whom and what the request
\* follows only before it leads, and parks it only by joining a flight.
LEMMA StepMoves ==
  ASSUME TypeOK, NEW r \in Reqs, Step(r) \/ LeaveTable(r)
  PROVE  /\ \A q \in Reqs \ {r} :
              pc'[q] = pc[q] /\ lead'[q] = lead[q] /\ flight'[q] = flight[q]
         /\ pc[r] \notin {"start", "park", "joined", "wait"} =>
              lead'[r] = lead[r] /\ flight'[r] = flight[r]
         /\ pc'[r] \in {"joined", "wait"} =>
              JoinFlight(r) \/ CountFollower(r) \/ LeaveTable(r)
<1>a. /\ pc \in [Reqs -> Steps] /\ lead \in [Reqs -> Reqs \union {NoReq}]
      /\ flight \in [Reqs -> FlightKeys \union {NoFlight}]
  BY DEF TypeOK
<1> USE DEF streamVars, reqVars
<1>1. CASE ServeRequest(r)
  BY <1>a, <1>1 DEF ServeRequest
<1>2. CASE FetchAlone(r)
  BY <1>a, <1>2 DEF FetchAlone
<1>3. CASE BecomeLeader(r)
  BY <1>a, <1>3 DEF BecomeLeader
<1>4. CASE JoinFlight(r)
  BY <1>a, <1>4 DEF JoinFlight
<1>5. CASE CountFollower(r)
  BY <1>a, <1>5 DEF CountFollower
<1>6. CASE LeaveTable(r)
  BY <1>a, <1>6 DEF LeaveTable
<1>7. CASE AcquireFetchSlot(r)
  BY <1>a, <1>7 DEF AcquireFetchSlot
<1>8. CASE QueueForSlot(r)
  BY <1>a, <1>8 DEF QueueForSlot
<1>9. CASE ShedFetch(r)
  BY <1>a, <1>9 DEF ShedFetch
<1>10. CASE OriginFails(r)
  BY <1>a, <1>10 DEF OriginFails
<1>11. CASE OriginHeaders(r)
  BY <1>a, <1>11, HeadersEffect
<1>12. CASE CopyBody(r)
  BY <1>a, <1>12 DEF CopyBody
<1>13. CASE ReadBody(r)
  BY <1>a, <1>13, ReadEffect
<1>14. CASE TeeBody(r)
  BY <1>a, <1>14, TeeEffect
<1>15. CASE SkipStore(r)
  BY <1>a, <1>15 DEF SkipStore, Settle
<1>16. CASE StoreFill(r)
  BY <1>a, <1>16 DEF StoreFill, Settle
<1>17. CASE StoreResolver(r)
  BY <1>a, <1>17 DEF StoreResolver, Settle
<1>18. CASE HandoffFollower(r)
  BY <1>a, <1>18, HandoffEffect
<1>19. CASE FillFollower(r)
  BY <1>a, <1>19, FillFollowerEffect
<1> QED
  BY <1>1, <1>2, <1>3, <1>4, <1>5, <1>6, <1>7, <1>8, <1>9, <1>10, <1>11, <1>12,
     <1>13, <1>14, <1>15, <1>16, <1>17, <1>18, <1>19 DEF Step

\* A follower keeps its leader: nobody who leads changes flight or lead, and
\* whoever joins finds its leader in the table.
LEMMA StepKeepsLeaders ==
  ASSUME TypeOK, SettlementProtocol, Stages, TableOwner, NoOrphanedFollower,
         NEW r \in Reqs, Step(r) \/ LeaveTable(r), SettlementProtocol', Stages'
  PROVE  NoOrphanedFollower'
<1>a. /\ pc \in [Reqs -> Steps] /\ lead \in [Reqs -> Reqs \union {NoReq}]
      /\ flight \in [Reqs -> FlightKeys \union {NoFlight}]
      /\ NoReq \notin Reqs
  BY ConstantsAssumption DEF TypeOK
<1>b. \A q \in Reqs : lead'[q] = q /\ pc'[q] = "done" => done'[q] /\ stored'[q]
  BY DEF SettlementProtocol, Stages
<1>c. \A q \in Reqs : lead[q] = q => lead'[q] = q /\ flight'[q] = flight[q]
  <2>1. lead[r] = r => pc[r] \notin {"start", "park", "joined", "wait"}
    BY <1>a DEF Stages
  <2> QED
    BY <2>1, StepMoves
<1>d. \A q \in Reqs : pc'[q] \in {"joined", "wait"} =>
        \/ pc[q] \in {"joined", "wait"} /\ lead'[q] = lead[q] /\ flight'[q] = flight[q]
        \/ q = r /\ JoinFlight(r)
  <2>1. CountFollower(r) \/ LeaveTable(r) => UNCHANGED <<lead, flight>>
    BY DEF CountFollower, LeaveTable, reqVars
  <2>2. /\ CountFollower(r) => pc[r] = "joined"
        /\ LeaveTable(r) => pc' = pc
    BY DEF CountFollower, LeaveTable, reqVars
  <2> QED
    BY <2>1, <2>2, StepMoves
<1>1. CASE JoinFlight(r)
  <2>1. /\ flight[r] \in FlightKeys /\ table[flight[r]] # NoReq
        /\ lead' = [lead EXCEPT ![r] = table[flight[r]]]
        /\ pc[r] = "park" /\ UNCHANGED flight
    BY <1>a, <1>1 DEF JoinFlight, MustFetchAlone
  <2>2. /\ table[flight[r]] \in Reqs
        /\ lead[table[flight[r]]] = table[flight[r]]
        /\ flight[table[flight[r]]] = flight[r]
        /\ table[flight[r]] # r
    <3>1. table[flight[r]] \in Reqs
      BY <2>1 DEF TypeOK
    <3>2. flight[table[flight[r]]] = flight[r] /\ InTable(table[flight[r]])
      BY <2>1 DEF TableOwner
    <3>3. lead[table[flight[r]]] = table[flight[r]]
      BY <3>2 DEF InTable
    <3>4. lead[r] = NoReq
      BY <2>1 DEF Stages
    <3> QED
      BY <1>a, <3>1, <3>2, <3>3, <3>4
  <2> SUFFICES ASSUME NEW q \in Reqs, pc'[q] \in {"joined", "wait"}
               PROVE  /\ lead'[q] \in Reqs \ {q}
                      /\ lead'[lead'[q]] = lead'[q]
                      /\ flight'[lead'[q]] = flight'[q]
                      /\ pc'[lead'[q]] = "done" => done'[lead'[q]] /\ stored'[lead'[q]]
    BY DEF NoOrphanedFollower
  <2>3. CASE q = r
    <3>1. lead'[r] = table[flight[r]] /\ lead'[table[flight[r]]] = table[flight[r]]
      BY <1>a, <2>1, <2>2
    <3>2. flight'[table[flight[r]]] = flight'[r]
      BY <2>1, <2>2
    <3> QED
      BY <1>b, <1>c, <2>2, <2>3, <3>1, <3>2
  <2>4. CASE q # r
    <3>1. pc[q] \in {"joined", "wait"} /\ lead'[q] = lead[q] /\ flight'[q] = flight[q]
      BY <1>d, <2>4
    <3>2. /\ lead[q] \in Reqs \ {q} /\ lead[lead[q]] = lead[q]
          /\ flight[lead[q]] = flight[q]
      BY <3>1 DEF NoOrphanedFollower
    <3> QED
      BY <1>b, <1>c, <3>1, <3>2
  <2> QED
    BY <2>3, <2>4
<1>2. CASE ~JoinFlight(r)
  <2> SUFFICES ASSUME NEW q \in Reqs, pc'[q] \in {"joined", "wait"}
               PROVE  /\ lead'[q] \in Reqs \ {q}
                      /\ lead'[lead'[q]] = lead'[q]
                      /\ flight'[lead'[q]] = flight'[q]
                      /\ pc'[lead'[q]] = "done" => done'[lead'[q]] /\ stored'[lead'[q]]
    BY DEF NoOrphanedFollower
  <2>1. pc[q] \in {"joined", "wait"} /\ lead'[q] = lead[q] /\ flight'[q] = flight[q]
    BY <1>d, <1>2
  <2>2. /\ lead[q] \in Reqs \ {q} /\ lead[lead[q]] = lead[q]
        /\ flight[lead[q]] = flight[q]
    BY <2>1 DEF NoOrphanedFollower
  <2> QED
    BY <1>b, <1>c, <2>1, <2>2
<1> QED
  BY <1>1, <1>2

\* A set of requests is finite, and taking one out makes it no larger.
LEMMA Fewer ==
  ASSUME NEW S \in SUBSET Reqs, NEW r
  PROVE  /\ Cardinality(S) \in Nat
         /\ Cardinality(S \ {r}) \in Nat /\ Cardinality(S \ {r}) <= Cardinality(S)
<1>1. IsFiniteSet(S)
  BY BoundsAssumption, FS_Subset
<1>2. IsFiniteSet(S \ {r}) /\ S \ {r} \in SUBSET S
  BY <1>1, FS_RemoveElement
<1>3. Cardinality(S) \in Nat /\ Cardinality(S \ {r}) \in Nat
  BY <1>1, <1>2, FS_CardinalityType
<1>4. Cardinality(S \ {r}) <= Cardinality(S)
  BY <1>1, <1>2, FS_Subset
<1> QED
  BY <1>3, <1>4

\* Putting one in adds at most one.
LEMMA OneMore ==
  ASSUME NEW S \in SUBSET Reqs, NEW r \in Reqs, NEW n \in Nat, Cardinality(S) < n
  PROVE  Cardinality(S \union {r}) <= n
<1>1. IsFiniteSet(S)
  BY BoundsAssumption, FS_Subset
<1>2. /\ Cardinality(S) \in Nat
      /\ Cardinality(S \union {r}) = IF r \in S THEN Cardinality(S) ELSE Cardinality(S) + 1
  BY <1>1, FS_CardinalityType, FS_AddElement
<1> QED
  BY <1>2, SMTT(30)

\* A request takes its slot with the origin stage and gives it back with the
\* body, on every path.
LEMMA StepKeepsSlots ==
  ASSUME TypeOK, SlotAccounting, NEW r \in Reqs, Step(r) \/ LeaveTable(r)
  PROVE  SlotAccounting'
<1>a. pc \in [Reqs -> Steps] /\ slots \in SUBSET Reqs
  BY DEF TypeOK
<1>b. /\ slots = {q \in Reqs : pc[q] \in BodyStages}
      /\ Cardinality(slots) <= FetchSlots /\ FetchSlots \in Nat
  BY BoundsAssumption DEF SlotAccounting
<1>c. ASSUME slots' = slots \/ slots' = slots \ {r}
      PROVE  Cardinality(slots') <= FetchSlots
  <2>1. /\ Cardinality(slots) \in Nat /\ Cardinality(slots \ {r}) \in Nat
        /\ Cardinality(slots \ {r}) <= Cardinality(slots)
    BY <1>a, Fewer
  <2>2. Cardinality(slots \ {r}) <= FetchSlots
    BY <1>b, <2>1, SMTT(30)
  <2> QED
    BY <1>b, <1>c, <2>2
<1> USE DEF streamVars, reqVars, BodyStages
<1>1. CASE ServeRequest(r)
  BY <1>a, <1>b, <1>c, <1>1 DEF ServeRequest, SlotAccounting
<1>2. CASE FetchAlone(r)
  BY <1>a, <1>b, <1>c, <1>2 DEF FetchAlone, SlotAccounting
<1>3. CASE BecomeLeader(r)
  BY <1>a, <1>b, <1>c, <1>3 DEF BecomeLeader, SlotAccounting
<1>4. CASE JoinFlight(r)
  BY <1>a, <1>b, <1>c, <1>4 DEF JoinFlight, SlotAccounting
<1>5. CASE CountFollower(r)
  BY <1>a, <1>b, <1>c, <1>5 DEF CountFollower, SlotAccounting
<1>6. CASE LeaveTable(r)
  BY <1>a, <1>b, <1>c, <1>6 DEF LeaveTable, SlotAccounting
<1>7. CASE AcquireFetchSlot(r)
  <2>1. Cardinality(slots') <= FetchSlots
    BY <1>a, <1>b, <1>7, OneMore DEF AcquireFetchSlot
  <2> QED
    BY <1>a, <1>b, <2>1, <1>7 DEF AcquireFetchSlot, SlotAccounting
<1>8. CASE QueueForSlot(r)
  BY <1>a, <1>b, <1>c, <1>8 DEF QueueForSlot, SlotAccounting
<1>9. CASE ShedFetch(r)
  BY <1>a, <1>b, <1>c, <1>9 DEF ShedFetch, PublishVerdict, Return, SlotAccounting
<1>10. CASE OriginFails(r)
  BY <1>a, <1>b, <1>c, <1>10 DEF OriginFails, PublishVerdict, Return, SlotAccounting
<1>11. CASE OriginHeaders(r)
  <2>1. /\ pc[r] = "origin" /\ slots' = slots
        /\ \E s \in {"copy", "buffer", "tee"} : pc' = [pc EXCEPT ![r] = s]
    BY <1>11, HeadersEffect
  <2> QED
    BY <1>a, <1>b, <1>c, <2>1 DEF SlotAccounting
<1>12. CASE CopyBody(r)
  BY <1>a, <1>b, <1>c, <1>12 DEF CopyBody, SlotAccounting
<1>13. CASE ReadBody(r)
  <2>1. /\ slots' = slots \ {r}
        /\ \E s \in {"done", "store"} : pc' = [pc EXCEPT ![r] = s]
    BY <1>13, ReadEffect
  <2> QED
    BY <1>a, <1>b, <1>c, <2>1 DEF SlotAccounting
<1>14. CASE TeeBody(r)
  <2>1. /\ slots' = slots \ {r}
        /\ \E s \in {"done", "store"} : pc' = [pc EXCEPT ![r] = s]
    BY <1>14, TeeEffect
  <2> QED
    BY <1>a, <1>b, <1>c, <2>1 DEF SlotAccounting
<1>15. CASE SkipStore(r)
  BY <1>a, <1>b, <1>c, <1>15 DEF SkipStore, Settle, SlotAccounting
<1>16. CASE StoreFill(r)
  BY <1>a, <1>b, <1>c, <1>16 DEF StoreFill, Settle, SlotAccounting
<1>17. CASE StoreResolver(r)
  BY <1>a, <1>b, <1>c, <1>17 DEF StoreResolver, Settle, SlotAccounting
<1>18. CASE HandoffFollower(r)
  BY <1>a, <1>b, <1>c, <1>18, HandoffEffect DEF SlotAccounting
<1>19. CASE FillFollower(r)
  BY <1>a, <1>b, <1>c, <1>19, FillFollowerEffect DEF SlotAccounting
<1> QED
  BY <1>1, <1>2, <1>3, <1>4, <1>5, <1>6, <1>7, <1>8, <1>9, <1>10, <1>11,
     <1>12, <1>13, <1>14, <1>15, <1>16, <1>17, <1>18, <1>19 DEF Step

\* A trigger takes a place of the allowance that was free.
LEMMA TriggerOwed ==
  ASSUME TypeOK, RefillOwed, NEW r \in Reqs, refill[r].step = "none",
         NEW k \in Keys, TriggerShedRefill(r, k)
  PROVE  RefillOwed'
<1>a. refill \in [Reqs -> Refills] /\ RewarmSlots \in Nat
  BY BoundsAssumption DEF TypeOK
<1> DEFINE new == [NoRefill(r) EXCEPT !.step = "run", !.key = k]
<1>1. new.step = "run"
  BY DEF NoRefill
<1>2. CASE refill' = refill
  BY <1>2 DEF RefillOwed, Running
<1>3. CASE Cardinality(Running) < RewarmSlots /\ refill' = [refill EXCEPT ![r] = new]
  <2> HIDE DEF new
  <2>1. Running' = Running \union {r}
    BY <1>a, <1>1, <1>3 DEF Running
  <2>2. Cardinality(Running') <= RewarmSlots
    BY <1>a, <1>3, <2>1, OneMore DEF Running
  <2> QED
    BY <1>a, <1>1, <1>3, <2>2, SMTT(30) DEF RefillOwed
<1> QED
  BY <1>2, <1>3 DEF TriggerShedRefill

\* Refills stay owed: whoever joins a call finds its caller running, and the
\* call's end ends every join on it.
LEMMA RefillsOwed ==
  ASSUME TypeOK, RefillOwed, NEW r \in Reqs, Refill(r)
  PROVE  RefillOwed'
<1>a. refill \in [Reqs -> Refills] /\ RewarmSlots \in Nat
  BY BoundsAssumption DEF TypeOK
<1>b. \A q \in Reqs : refill[q] \in Refills
  BY <1>a
<1>1. CASE RefillDo(r)
  <2> DEFINE leads == [refill[r] EXCEPT !.step = "lead"]
             joins(q) == [refill[r] EXCEPT !.step = "join", !.of = q]
  <2>1. leads.step = "lead" /\ \A q \in Reqs : joins(q).step = "join" /\ joins(q).of = q
    BY <1>b, SMTT(30) DEF Refills
  <2>2. /\ refill[r].step = "run"
        /\ \/ refill' = [refill EXCEPT ![r] = leads]
           \/ \E q \in Reqs : refill[q].step = "lead" /\ refill' = [refill EXCEPT ![r] = joins(q)]
    BY <1>1 DEF RefillDo
  <2> HIDE DEF leads, joins
  <2>3. Running' = Running
    BY <1>a, <2>1, <2>2, SMTT(30) DEF Running
  <2>4. \A q \in Reqs \ {r} : refill'[q] = refill[q]
    BY <1>a, <2>2
  <2>5. \A q \in Reqs : refill[q].step = "join" =>
          refill[q].of \in Reqs \ {q, r} /\ refill[refill[q].of].step = "lead"
    BY <1>b, <2>2 DEF RefillOwed, Refills
  <2>6. \A q \in Reqs \ {r} : refill'[q].step = "join" =>
          refill'[q].of # q /\ refill'[refill'[q].of].step = "lead"
    BY <2>4, <2>5
  <2>7. refill'[r].step = "join" =>
          refill'[r].of # r /\ refill'[refill'[r].of].step = "lead"
    <3>1. CASE refill' = [refill EXCEPT ![r] = leads]
      BY <1>a, <2>1, <3>1
    <3>2. ASSUME NEW q \in Reqs, refill[q].step = "lead",
                 refill' = [refill EXCEPT ![r] = joins(q)]
          PROVE  refill'[r].of # r /\ refill'[refill'[r].of].step = "lead"
      BY <1>a, <2>1, <2>2, <3>2, SMTT(30)
    <3> QED
      BY <2>2, <3>1, <3>2
  <2> QED
    BY <2>3, <2>6, <2>7 DEF RefillOwed
<1>2. CASE RefillFetched(r)
  <2> DEFINE callers == {q \in Reqs : q = r \/ (refill[q].step = "join" /\ refill[q].of = r)}
  <2>1. PICK p \in Responses \union {NoResp} :
          refill' = [q \in Reqs |->
                       IF q \notin callers THEN refill[q]
                       ELSE IF p = NoResp THEN NoRefill(q)
                       ELSE [refill[q] EXCEPT !.step = "put", !.resp = p]]
    BY <1>2 DEF RefillFetched
  <2>2. \A q \in Reqs : /\ NoRefill(q).step = "none"
                        /\ [refill[q] EXCEPT !.step = "put", !.resp = p].step = "put"
    BY <1>b DEF NoRefill, Refills
  <2>3. /\ r \in callers /\ refill[r].step = "lead"
        /\ \A q \in callers : q = r \/ refill[q].step = "join"
        /\ \A q \in Reqs \ callers : refill[q].step = "join" => refill[q].of # r
    BY <1>2 DEF RefillFetched
  <2>4. callers \subseteq Reqs
    OBVIOUS
  <2> HIDE DEF callers
  <2>5. /\ \A q \in callers : refill'[q].step \in {"none", "put"}
        /\ \A q \in Reqs \ callers : refill'[q] = refill[q]
    BY <2>1, <2>2, <2>4
  <2>6. Running' \subseteq Running
    BY <2>3, <2>4, <2>5 DEF Running
  <2>7. Cardinality(Running') <= RewarmSlots
    <3>1. Running \in SUBSET Reqs /\ Cardinality(Running) <= RewarmSlots
      BY DEF Running, RefillOwed
    <3>2. IsFiniteSet(Running)
      BY <3>1, BoundsAssumption, FS_Subset
    <3>3. /\ Cardinality(Running') <= Cardinality(Running)
          /\ Cardinality(Running) \in Nat /\ IsFiniteSet(Running')
      BY <2>6, <3>2, FS_Subset, FS_CardinalityType
    <3>4. Cardinality(Running') \in Nat
      BY <3>3, FS_CardinalityType
    <3> QED
      BY <1>a, <3>1, <3>3, <3>4, SMTT(30)
  <2>8. \A q \in Reqs : refill'[q].step = "join" =>
          refill'[q].of # q /\ refill'[refill'[q].of].step = "lead"
    <3> SUFFICES ASSUME NEW q \in Reqs, refill'[q].step = "join"
                 PROVE  refill'[q].of # q /\ refill'[refill'[q].of].step = "lead"
      OBVIOUS
    <3>1. q \notin callers /\ refill'[q] = refill[q]
      BY <2>5
    <3>2. /\ refill[q].of # q /\ refill[refill[q].of].step = "lead"
          /\ refill[q].of # r /\ refill[q].of \in Reqs
      BY <1>b, <2>3, <3>1 DEF RefillOwed, Refills
    <3>3. refill[q].of \notin callers
      BY <2>3, <3>2
    <3> QED
      BY <2>5, <3>1, <3>2, <3>3
  <2> QED
    BY <2>7, <2>8 DEF RefillOwed
<1>3. CASE RefillPut(r)
  <2>1. NoRefill(r).step = "none"
    BY DEF NoRefill
  <2>2. refill[r].step = "put" /\ refill' = [refill EXCEPT ![r] = NoRefill(r)]
    BY <1>3 DEF RefillPut
  <2>3. Running' = Running \ {r}
    BY <1>a, <2>1, <2>2 DEF Running
  <2>4. Cardinality(Running') <= RewarmSlots
    <3>1. Running \in SUBSET Reqs /\ Cardinality(Running) <= RewarmSlots
      BY DEF Running, RefillOwed
    <3>2. /\ Cardinality(Running) \in Nat /\ Cardinality(Running \ {r}) \in Nat
          /\ Cardinality(Running \ {r}) <= Cardinality(Running)
      BY <3>1, Fewer
    <3>3. Cardinality(Running \ {r}) <= RewarmSlots
      BY <1>a, <3>1, <3>2, SMTT(30)
    <3> QED
      BY <2>3, <3>3
  <2> QED
    BY <1>a, <2>1, <2>2, <2>4, SMTT(30) DEF RefillOwed
<1> QED
  BY <1>1, <1>2, <1>3 DEF Refill

Safe ==
  /\ TypeOK
  /\ SettlementProtocol
  /\ Stages
  /\ TableOwner
  /\ NoOrphanedFollower
  /\ SlotAccounting
  /\ RefillOwed

\* Nothing runs at first.
LEMMA InitSafe == Init => Safe
<1> SUFFICES ASSUME Init PROVE Safe
  OBVIOUS
<1>1. TypeOK
  BY InitTyped DEF Typed
<1>2. SettlementProtocol /\ Stages /\ NoOrphanedFollower
  BY DEF Init, SettlementProtocol, Stages, NoOrphanedFollower, NoRefill
<1>3. TableOwner
  BY ConstantsAssumption DEF Init, TableOwner, InTable
<1>4. SlotAccounting
  <2>1. {r \in Reqs : pc[r] \in BodyStages} = {}
    BY DEF Init, BodyStages
  <2> QED
    BY <2>1, FS_EmptySet, BoundsAssumption, SMTT(30) DEF Init, SlotAccounting
<1>5. RefillOwed
  <2>1. Running = {}
    BY DEF Init, Running, NoRefill
  <2> QED
    BY <2>1, FS_EmptySet, BoundsAssumption, SMTT(30) DEF Init, RefillOwed, NoRefill
<1> QED
  BY <1>1, <1>2, <1>3, <1>4, <1>5 DEF Safe

\* A request starts a refill at most once, with its last step.
LEMMA StepOwed ==
  ASSUME TypeOK, Stages, RefillOwed, NEW r \in Reqs, Step(r) \/ LeaveTable(r)
  PROVE  RefillOwed'
<1>a. lookupKey[r] \in Keys /\ Primary \in Keys
  BY DEF TypeOK, Keys
<1>b. pc[r] # "done" => refill[r].step = "none"
  BY DEF Stages
<1>1. \/ refill' = refill
      \/ /\ pc[r] # "done"
         /\ TriggerShedRefill(r, Primary) \/ TriggerShedRefill(r, lookupKey[r])
  BY DEF Step, ServeRequest, FetchAlone, BecomeLeader, JoinFlight,
         CountFollower, LeaveTable, AcquireFetchSlot, QueueForSlot, ShedFetch,
         OriginFails, OriginHeaders, CopyBody, ReadBody, TeeBody, SkipStore,
         StoreFill, StoreResolver, HandoffFollower, FillFollower
<1>2. CASE refill' = refill
  BY <1>2 DEF RefillOwed, Running
<1>3. CASE refill' # refill
  BY <1>1, <1>3, <1>a, <1>b, TriggerOwed
<1> QED
  BY <1>2, <1>3

\* Safe is inductive.
LEMMA NextSafe == Typed /\ Safe /\ [Next]_vars => Safe'
<1> SUFFICES ASSUME Typed, Safe, [Next]_vars PROVE Safe'
  OBVIOUS
<1>t. TypeOK'
  BY NextTyped DEF Typed
<1>1. CASE \E r \in Reqs : Step(r) \/ LeaveTable(r)
  <2>1. PICK r \in Reqs : Step(r) \/ LeaveTable(r)
    BY <1>1
  <2>2. SettlementProtocol'
    BY <2>1, StepSettles DEF Safe
  <2>3. Stages'
    BY <2>1, StepStages DEF Safe
  <2>4. TableOwner'
    BY <2>1, StepOwnsTable DEF Safe
  <2>5. NoOrphanedFollower'
    BY <2>1, <2>2, <2>3, StepKeepsLeaders DEF Safe
  <2>6. SlotAccounting'
    BY <2>1, StepKeepsSlots DEF Safe
  <2>7. RefillOwed'
    BY <2>1, StepOwed DEF Safe
  <2> QED
    BY <1>t, <2>2, <2>3, <2>4, <2>5, <2>6, <2>7 DEF Safe
<1>2. CASE (\E r \in Reqs : Refill(r)) \/ Environment \/ UNCHANGED vars
  <2>1. UNCHANGED <<pc, flight, lead, table, done, stored, res, teed, leaving, slots>>
    BY <1>2 DEF Refill, RefillDo, RefillFetched, RefillPut, Environment, Evict,
                Expire, ForgetUnstorable, vars, reqVars, streamVars
  <2>2. SettlementProtocol' /\ NoOrphanedFollower' /\ SlotAccounting'
    BY <2>1 DEF Safe, SettlementProtocol, NoOrphanedFollower, SlotAccounting
  <2>3. TableOwner'
    BY <2>1 DEF Safe, TableOwner, InTable
  <2>4. RefillOwed' /\ (\A r \in Reqs : refill[r].step = "none" => refill'[r].step = "none")
    <3>1. CASE \E r \in Reqs : Refill(r)
      <4>1. PICK r \in Reqs : Refill(r)
        BY <3>1
      <4>2. \A q \in Reqs : refill[q].step = "none" => refill'[q] = refill[q]
        BY <4>1 DEF Refill, RefillDo, RefillFetched, RefillPut, Safe, TypeOK
      <4> QED
        BY <4>1, <4>2, RefillsOwed DEF Safe
    <3>2. CASE Environment \/ UNCHANGED vars
      <4>1. refill' = refill
        BY <3>2 DEF Environment, Evict, Expire, ForgetUnstorable, vars
      <4> QED
        BY <4>1 DEF Safe, RefillOwed, Running
    <3> QED
      BY <1>2, <3>1, <3>2
  <2>5. Stages'
    BY <2>1, <2>4 DEF Safe, Stages
  <2> QED
    BY <1>t, <2>2, <2>3, <2>4, <2>5 DEF Safe
<1> QED
  BY <1>1, <1>2 DEF Next, Finished

\* All of the above holds in every reachable state.
THEOREM AlwaysSafe == Spec => []Safe
<1> QED
  BY InitSafe, NextSafe, AlwaysTyped, PTL DEF Spec

\* Each settlement channel is closed once, in order, and only after the store
\* write it announces (publishInflight*, settleTeeFill, the deferred close).
THEOREM Settlement == Spec => []SettlementProtocol
<1>1. Safe => SettlementProtocol
  BY DEF Safe
<1> QED
  BY <1>1, AlwaysSafe, PTL

\* The deferred inflightStreams.delete removes its own leader's entry only.
THEOREM TableOwnership == Spec => []TableOwner
<1>1. Safe => TableOwner
  BY DEF Safe
<1> QED
  BY <1>1, AlwaysSafe, PTL

\* A parked follower always has a leader that has published or still will.
THEOREM FollowersHaveLeaders == Spec => []NoOrphanedFollower
<1>1. Safe => NoOrphanedFollower
  BY DEF Safe
<1> QED
  BY <1>1, AlwaysSafe, PTL

\* fetchSem is held exactly during the origin exchange, within its capacity.
THEOREM SlotsAccounted == Spec => []SlotAccounting
<1>1. Safe => SlotAccounting
  BY DEF Safe
<1> QED
  BY <1>1, AlwaysSafe, PTL

\* The in-flight table and the semaphore are kept in step with the requests.
THEOREM FlightsKept == Spec => []FlightsAccounted
<1>1. TypeOK /\ TableOwner /\ SlotAccounting => FlightsAccounted
  BY DEF FlightsAccounted
<1> QED
  BY <1>1, TypeCorrect, TableOwnership, SlotsAccounted, PTL

\* A joined shed refill has a running caller; rewarmSem bounds the refills.
THEOREM RefillsAreOwed == Spec => []RefillOwed
<1>1. Safe => RefillOwed
  BY DEF Safe
<1> QED
  BY <1>1, AlwaysSafe, PTL
-----------------------------------------------------------------------------
(* What leaves a fill: the implementation of FillPromise, whole bodies into*)
(* the store, and representations only to the requests that select them.   *)

\* A flight key names the method it is shared under, and nobody personal has
\* one.  (fetchFlightKey, collapseDenied)
FlightsFit ==
  \A r \in Reqs : flight[r] # NoFlight =>
    ~Personal[r] /\ (~IsFill(flight[r]) => flight[r][1] = Method[r])

\* A request is answered at the very end, or as its body starts to stream.
Answering ==
  \A r \in Reqs :
    /\ pc[r] \in Unteed => answer[r].from = "none"
    /\ pc[r] \in {"tee", "copy", "store", "resolver"} => answer[r].from = "own"

\* The answer of a finished follower is backed by its leader's verdict.
HandoffBacked ==
  \A r \in Reqs :
    /\ res[r] = "bytes" => resp[r].class # "state"
    /\ answer[r].from = "handoff" =>
         /\ pc[r] = "done" /\ ~IsFill(flight[r])
         /\ answer[r].by \in Reqs /\ Compatible(r, answer[r].by)
         /\ res[answer[r].by] = "bytes"

Fit == FlightsFit /\ Answering /\ HandoffBacked

\* The flight key that fetchFlightKey derives fits its request.
LEMMA FlightKeyFits ==
  ASSUME NEW r \in Reqs, NEW l, FetchFlightKey(r, l) # NoFlight
  PROVE  /\ ~Personal[r]
         /\ ~IsFill(FetchFlightKey(r, l)) => FetchFlightKey(r, l)[1] = Method[r]
  BY DEF FetchFlightKey, CollapseDenied, IsFill

\* Only the lookup derives a flight key.
LEMMA StepFlights ==
  ASSUME TypeOK, FlightsFit, NEW r \in Reqs, Step(r) \/ LeaveTable(r)
  PROVE  FlightsFit'
<1>a. flight \in [Reqs -> FlightKeys \union {NoFlight}]
  BY DEF TypeOK
<1>1. flight' = flight \/ flight' = [flight EXCEPT ![r] = FetchFlightKey(r, Lookup(r))]
  BY DEF Step, ServeRequest, FetchAlone, BecomeLeader, JoinFlight,
         CountFollower, LeaveTable, AcquireFetchSlot, QueueForSlot, ShedFetch,
         OriginFails, OriginHeaders, CopyBody, ReadBody, TeeBody, SkipStore,
         StoreFill, StoreResolver, HandoffFollower, FillFollower, reqVars
<1>2. CASE flight' = flight
  BY <1>2 DEF FlightsFit
<1>3. CASE flight' = [flight EXCEPT ![r] = FetchFlightKey(r, Lookup(r))]
  BY <1>a, <1>3, FlightKeyFits DEF FlightsFit
<1> QED
  BY <1>1, <1>2, <1>3

\* Two requests on one byte-handoff flight may share its bytes.
LEMMA FollowersCompatible ==
  ASSUME TypeOK, FlightsFit, Stages, NoOrphanedFollower,
         NEW r \in Reqs, pc[r] \in {"joined", "wait"}
  PROVE  /\ lead[r] \in Reqs \ {r}
         /\ ~IsFill(flight[r]) => Compatible(r, lead[r])
<1>1. /\ lead[r] \in Reqs \ {r} /\ flight[lead[r]] = flight[r]
      /\ lead[lead[r]] = lead[r]
  BY DEF NoOrphanedFollower
<1>2. flight[r] # NoFlight
  BY <1>1, ConstantsAssumption DEF Stages
<1> QED
  BY <1>1, <1>2 DEF FlightsFit, Compatible

\* What the steps answer, apart from a follower's: nothing, or something that
\* is not a handoff.
LEMMA StepAnswers ==
  ASSUME TypeOK, Answering, NEW r \in Reqs, Step(r) \/ LeaveTable(r)
  PROVE  /\ Answering'
         /\ \A q \in Reqs \ {r} : answer'[q] = answer[q]
         /\ ~HandoffFollower(r) => answer'[r] = answer[r] \/ answer'[r].from # "handoff"
<1>a. pc \in [Reqs -> Steps] /\ answer \in [Reqs -> Answers]
  BY DEF TypeOK
<1> USE DEF streamVars, reqVars, Unteed, Answer
<1>1. CASE ServeRequest(r)
  BY <1>a, <1>1, SMTT(30) DEF ServeRequest, Answering
<1>2. CASE FetchAlone(r)
  BY <1>a, <1>2 DEF FetchAlone, Answering
<1>3. CASE BecomeLeader(r)
  BY <1>a, <1>3 DEF BecomeLeader, Answering
<1>4. CASE JoinFlight(r)
  BY <1>a, <1>4 DEF JoinFlight, Answering
<1>5. CASE CountFollower(r)
  BY <1>a, <1>5 DEF CountFollower, Answering
<1>6. CASE LeaveTable(r)
  BY <1>a, <1>6 DEF LeaveTable, Answering
<1>7. CASE AcquireFetchSlot(r)
  BY <1>a, <1>7 DEF AcquireFetchSlot, Answering
<1>8. CASE QueueForSlot(r)
  BY <1>a, <1>8 DEF QueueForSlot, Answering
<1>9. CASE ShedFetch(r)
  BY <1>a, <1>9 DEF ShedFetch, PublishVerdict, Return, Answering
<1>10. CASE OriginFails(r)
  BY <1>a, <1>10 DEF OriginFails, PublishVerdict, Return, Answering
<1>11. CASE OriginHeaders(r)
  <2>1. PICK p \in Responses :
          \/ answer' = answer /\ pc' = [pc EXCEPT ![r] = "buffer"]
          \/ /\ Answer(r, "own", r, TRUE, p.vary)
             /\ \E s \in {"copy", "tee"} : pc' = [pc EXCEPT ![r] = s]
    BY <1>11 DEF OriginHeaders, StreamNoCache
  <2>2. pc[r] = "origin"
    BY <1>11 DEF OriginHeaders
  <2> QED
    BY <1>a, <2>1, <2>2, SMTT(30) DEF Answering
<1>12. CASE CopyBody(r)
  BY <1>a, <1>12 DEF CopyBody, Answering
<1>13. CASE ReadBody(r)
  <2>1. PICK w \in BOOLEAN :
          \/ Answer(r, "502", NoReq, FALSE, FALSE) /\ pc' = [pc EXCEPT ![r] = "done"]
          \/ Answer(r, "own", r, w, resp[r].vary) /\ pc' = [pc EXCEPT ![r] = "store"]
    BY <1>13 DEF ReadBody
  <2> QED
    BY <1>a, <2>1, SMTT(30) DEF Answering
<1>14. CASE TeeBody(r)
  BY <1>a, <1>14, TeeEffect DEF Answering
<1>15. CASE SkipStore(r)
  BY <1>a, <1>15 DEF SkipStore, Settle, Answering
<1>16. CASE StoreFill(r)
  BY <1>a, <1>16 DEF StoreFill, Settle, Answering
<1>17. CASE StoreResolver(r)
  BY <1>a, <1>17 DEF StoreResolver, Settle, Answering
<1>18. CASE HandoffFollower(r)
  BY <1>a, <1>18 DEF HandoffFollower, Answering
<1>19. CASE FillFollower(r)
  <2>1. \/ /\ Answer(r, "503", NoReq, FALSE, FALSE)
           /\ pc' = [pc EXCEPT ![r] = "done"]
        \/ answer' = answer /\ pc[r] = "wait" /\ pc' = [pc EXCEPT ![r] = "start"]
    BY <1>19 DEF FillFollower
  <2> QED
    BY <1>a, <2>1, SMTT(30) DEF Answering
<1> QED
  BY <1>1, <1>2, <1>3, <1>4, <1>5, <1>6, <1>7, <1>8, <1>9, <1>10, <1>11,
     <1>12, <1>13, <1>14, <1>15, <1>16, <1>17, <1>18, <1>19 DEF Step

\* Answers stay backed: a published verdict and its response never change.
LEMMA StepBacked ==
  ASSUME Typed, SettlementProtocol, Stages, NoOrphanedFollower, Fit,
         NEW r \in Reqs, Step(r) \/ LeaveTable(r)
  PROVE  HandoffBacked'
<1>a. /\ pc \in [Reqs -> Steps] /\ answer \in [Reqs -> Answers]
      /\ res \in [Reqs -> Verdicts] /\ resp \in [Reqs -> Responses \union {NoResp}]
      /\ flight \in [Reqs -> FlightKeys \union {NoFlight}]
      /\ FlightsFit /\ Answering /\ HandoffBacked /\ TypeOK
  BY DEF Typed, TypeOK, Fit
<1>1. /\ \A q \in Reqs : res[q] = "bytes" => res'[q] = "bytes" /\ resp'[q] = resp[q]
      /\ \A q \in Reqs : res'[q] = "bytes" => resp'[q].class # "state"
  <2>1. CASE UNCHANGED <<res, resp>>
    BY <2>1, <1>a DEF HandoffBacked
  <2>2. CASE OriginHeaders(r)
    <3>1. res[r] = "none" /\ \A q \in Reqs \ {r} : resp'[q] = resp[q] /\ res'[q] = res[q]
      BY <2>2, <1>a, HeadersEffect DEF SettlementProtocol, PublishVerdict, BeforeVerdict
    <3>2. res'[r] \in {"none", "unshareable"}
      BY <2>2, <3>1, <1>a, HeadersEffect DEF PublishVerdict
    <3> QED
      BY <3>1, <3>2, <1>a DEF HandoffBacked
  <2>3. CASE ReadBody(r) \/ TeeBody(r)
    <3>1. /\ res[r] = "none" /\ UNCHANGED resp
          /\ \/ \E v \in {"fail", "unshareable"} : res' = [res EXCEPT ![r] = v]
             \/ PublishFillVerdict(r)
      BY <2>3, <1>a, ReadEffect, TeeEffect DEF SettlementProtocol, PublishVerdict, BeforeVerdict
    <3> QED
      BY <3>1, <1>a DEF PublishFillVerdict, HandoffBacked
  <2>4. CASE ShedFetch(r) \/ OriginFails(r)
    <3>1. /\ res[r] = "none" /\ UNCHANGED resp
          /\ \E v \in {"shed", "fail"} : res' = [res EXCEPT ![r] = v]
      BY <2>4, <1>a DEF ShedFetch, OriginFails, SettlementProtocol, PublishVerdict, BeforeVerdict
    <3> QED
      BY <3>1, <1>a DEF HandoffBacked
  <2> QED
    BY <2>1, <2>2, <2>3, <2>4 DEF Step, ServeRequest, FetchAlone, BecomeLeader,
       JoinFlight, CountFollower, LeaveTable, AcquireFetchSlot, QueueForSlot,
       CopyBody, SkipStore, StoreFill, StoreResolver, Settle, HandoffFollower,
       FillFollower, streamVars
<1>2. \A q \in Reqs : pc[q] = "done" => pc'[q] = "done" /\ flight'[q] = flight[q]
  BY <1>a DEF Step, ServeRequest, FetchAlone, BecomeLeader, JoinFlight,
         CountFollower, LeaveTable, AcquireFetchSlot, QueueForSlot, ShedFetch,
         OriginFails, OriginHeaders, CopyBody, ReadBody, TeeBody, SkipStore,
         StoreFill, StoreResolver, Settle, HandoffFollower, FillFollower,
         StreamNoCache, reqVars
<1>3. \A q \in Reqs \ {r} : answer'[q] = answer[q]
  BY <1>a, StepAnswers
<1>b. \A q \in Reqs : answer'[q] = answer[q] /\ answer'[q].from = "handoff" =>
        /\ pc'[q] = "done" /\ ~IsFill(flight'[q])
        /\ answer'[q].by \in Reqs /\ Compatible(q, answer'[q].by)
        /\ res'[answer'[q].by] = "bytes"
  <2> SUFFICES ASSUME NEW q \in Reqs, answer'[q] = answer[q], answer'[q].from = "handoff"
               PROVE  /\ pc'[q] = "done" /\ ~IsFill(flight'[q])
                      /\ answer'[q].by \in Reqs /\ Compatible(q, answer'[q].by)
                      /\ res'[answer'[q].by] = "bytes"
    OBVIOUS
  <2>0. answer[q].from = "handoff"
    OBVIOUS
  <2>1. /\ pc[q] = "done" /\ ~IsFill(flight[q])
        /\ answer[q].by \in Reqs /\ Compatible(q, answer[q].by)
        /\ res[answer[q].by] = "bytes"
    BY <2>0 DEF Fit, HandoffBacked
  <2>2. pc'[q] = "done" /\ flight'[q] = flight[q]
    BY <1>2, <2>1
  <2>3. res'[answer[q].by] = "bytes"
    BY <1>1, <2>1
  <2> QED
    BY <2>1, <2>2, <2>3
<1>4. CASE ~HandoffFollower(r)
  <2>1. answer'[r] = answer[r] \/ answer'[r].from # "handoff"
    BY <1>a, <1>4, StepAnswers
  <2>2. \A q \in Reqs : answer'[q].from = "handoff" => answer'[q] = answer[q]
    BY <1>3, <2>1
  <2> QED
    BY <1>1, <1>b, <2>2 DEF HandoffBacked
<1>5. CASE HandoffFollower(r)
  <2>1. /\ pc[r] = "wait" /\ ~IsFill(flight[r]) /\ UNCHANGED <<flight, res>>
        /\ \/ answer' = answer
           \/ \E c \in {"502", "503"} : Answer(r, c, NoReq, FALSE, FALSE)
           \/ /\ Answer(r, "handoff", lead[r], whole[lead[r]], resp[lead[r]].vary)
              /\ res[lead[r]] = "bytes" /\ pc' = [pc EXCEPT ![r] = "done"]
    BY <1>5 DEF HandoffFollower, streamVars
  <2>2. lead[r] \in Reqs /\ Compatible(r, lead[r])
    BY <1>a, <2>1, FollowersCompatible
  <2>3. answer[r].from = "none"
    BY <2>1, <1>a DEF Answering, Unteed
  <2>4. answer'[r].from = "handoff" =>
          /\ pc'[r] = "done" /\ ~IsFill(flight'[r])
          /\ answer'[r].by \in Reqs /\ Compatible(r, answer'[r].by)
          /\ res'[answer'[r].by] = "bytes"
    <3>1. CASE answer' = answer
      BY <2>3, <3>1
    <3>2. CASE \E c \in {"502", "503"} : Answer(r, c, NoReq, FALSE, FALSE)
      BY <1>a, <3>2, SMTT(30) DEF Answer
    <3>3. CASE /\ Answer(r, "handoff", lead[r], whole[lead[r]], resp[lead[r]].vary)
               /\ res[lead[r]] = "bytes" /\ pc' = [pc EXCEPT ![r] = "done"]
      <4>1. answer'[r].by = lead[r]
        BY <1>a, <3>3 DEF Answer
      <4>2. pc'[r] = "done"
        BY <1>a, <3>3
      <4> QED
        BY <2>1, <2>2, <3>3, <4>1, <4>2
    <3> QED
      BY <2>1, <3>1, <3>2, <3>3
  <2>5. \A q \in Reqs \ {r} : answer'[q].from = "handoff" => answer'[q] = answer[q]
    BY <1>3
  <2> QED
    BY <1>1, <1>b, <2>4, <2>5 DEF HandoffBacked
<1> QED
  BY <1>4, <1>5

\* Refills and the environment answer nobody.
LEMMA QuietSteps ==
  ASSUME (\E r \in Reqs : Refill(r)) \/ Environment \/ UNCHANGED vars
  PROVE  UNCHANGED <<pc, flight, answer, res, resp, stored>>
  BY DEF Refill, RefillDo, RefillFetched, RefillPut, Environment, Evict,
         Expire, ForgetUnstorable, vars, reqVars, streamVars

\* Fit is inductive, given what is known already.
LEMMA NextFit == Typed /\ Safe /\ Fit /\ [Next]_vars => Fit'
<1> SUFFICES ASSUME Typed, Safe, Fit, [Next]_vars PROVE Fit'
  OBVIOUS
<1>1. CASE \E r \in Reqs : Step(r) \/ LeaveTable(r)
  <2>1. PICK r \in Reqs : Step(r) \/ LeaveTable(r)
    BY <1>1
  <2> QED
    BY <2>1, StepFlights, StepAnswers, StepBacked DEF Fit, Safe
<1>2. CASE (\E r \in Reqs : Refill(r)) \/ Environment \/ UNCHANGED vars
  <2>1. UNCHANGED <<pc, flight, answer, res, resp, stored>>
    BY <1>2, QuietSteps
  <2>2. FlightsFit'
    BY <2>1 DEF Fit, FlightsFit
  <2>3. Answering'
    BY <2>1 DEF Fit, Answering
  <2>4. HandoffBacked'
    BY <2>1 DEF Fit, HandoffBacked
  <2> QED
    BY <2>2, <2>3, <2>4 DEF Fit
<1> QED
  BY <1>1, <1>2 DEF Next, Finished

\* Nobody has a flight or an answer at first.
LEMMA InitFit == Init => Fit
<1> SUFFICES ASSUME Init PROVE Fit
  OBVIOUS
<1>1. \A r \in Reqs : /\ pc[r] = "start" /\ flight[r] = NoFlight
                      /\ answer[r].from = "none" /\ res[r] = "none"
  BY DEF Init, NoAnswer
<1>2. FlightsFit
  BY <1>1 DEF FlightsFit
<1>3. Answering
  BY <1>1 DEF Answering
<1>4. HandoffBacked
  BY <1>1 DEF HandoffBacked
<1> QED
  BY <1>2, <1>3, <1>4 DEF Fit

\* Flights fit, answers are in order and handoffs are backed, always.
THEOREM AlwaysFit == Spec => []Fit
<1> QED
  BY InitFit, NextFit, AlwaysTyped, AlwaysSafe, PTL DEF Spec

\* Buffered bytes go only to an anonymous follower of the same method, never
\* over a fill flight, and never with client state in them.
THEOREM HandoffsPermitted == Spec => []HandoffPermitted
<1>1. Fit => HandoffPermitted
  BY DEF Fit, HandoffBacked, HandoffPermitted
<1> QED
  BY <1>1, AlwaysFit, PTL

\* Nothing has been promised at first.
LEMMA InitPromise == Init => Promise!Init
  BY SMTT(30) DEF Init, Promise!Init, Promise!Unanswered, NoAnswer

\* A hit, a stream that begins and a verdict are steps of the promise.
LEMMA FetchPromise ==
  ASSUME Typed, Safe, Fit, NEW r \in Reqs,
         ServeRequest(r) \/ ShedFetch(r) \/ OriginFails(r) \/ OriginHeaders(r)
           \/ ReadBody(r) \/ TeeBody(r)
  PROVE  Promise!Next \/ UNCHANGED <<answer, res, stored>>
<1>a. /\ res \in [Reqs -> Verdicts] /\ stored \in [Reqs -> BOOLEAN]
      /\ TypeOK /\ Grounded
  BY DEF Typed, TypeOK
<1>b. /\ pc[r] \in BeforeVerdict => res[r] = "none" /\ ~stored[r]
      /\ pc[r] \in Unteed => answer[r].from = "none"
      /\ pc[r] = "tee" => answer[r].from = "own"
  BY DEF Safe, SettlementProtocol, Fit, Answering
<1>c. stored = [stored EXCEPT ![r] = FALSE] \/ stored[r]
  BY <1>a
<1> USE DEF BeforeVerdict, Unteed, streamVars, reqVars
<1>1. CASE ServeRequest(r)
  <2> DEFINE o == Lookup(r).obj
  <2>1. /\ pc[r] = "start" /\ UNCHANGED <<res, stored>>
        /\ answer' = answer \/ (o # NoObj /\ Answer(r, "store", o.by, o.whole, o.vary))
    BY <1>1 DEF ServeRequest, Servable
  <2>2. o \in Objects \union {NoObj}
    BY <1>a, LookupType
  <2>3. o # NoObj => o.by \in Reqs /\ o.whole \in BOOLEAN /\ o.vary \in BOOLEAN
    BY <2>2 DEF Objects
  <2> HIDE DEF o
  <2>4. o # NoObj /\ Answer(r, "store", o.by, o.whole, o.vary) => Promise!Hit(r)
    BY <1>b, <2>1, <2>3 DEF Promise!Hit, Promise!Give, Promise!Unanswered, Answer
  <2> QED
    BY <2>1, <2>4 DEF Promise!Next
<1>2. CASE ShedFetch(r)
  <2>1. Promise!Give(r, "503", NoReq)
    BY <1>b, <1>2 DEF ShedFetch, Answer, Promise!Give, Promise!Unanswered
  <2>2. Promise!Publish(r)
    BY <1>b, <1>2, <2>1 DEF ShedFetch, PublishVerdict, Promise!Publish
  <2> QED
    BY <2>2 DEF Promise!Next
<1>3. CASE OriginFails(r)
  <2>1. Promise!Give(r, "502", NoReq)
    BY <1>b, <1>3 DEF OriginFails, Answer, Promise!Give, Promise!Unanswered
  <2>2. Promise!Publish(r)
    BY <1>b, <1>3, <2>1 DEF OriginFails, PublishVerdict, Promise!Publish
  <2> QED
    BY <2>2 DEF Promise!Next
<1>4. CASE OriginHeaders(r)
  <2>1. PICK p \in Responses :
          \/ PublishVerdict(r, "unshareable") /\ Answer(r, "own", r, TRUE, p.vary)
          \/ UNCHANGED <<answer, res, stored>>
          \/ UNCHANGED <<res, stored>> /\ Answer(r, "own", r, TRUE, p.vary)
    BY <1>4 DEF OriginHeaders, StreamNoCache
  <2>2. pc[r] = "origin" /\ p.vary \in BOOLEAN
    BY <1>4, ResponseFields DEF OriginHeaders
  <2>3. Answer(r, "own", r, TRUE, p.vary) => Promise!Give(r, "own", r)
    BY <1>b, <2>2 DEF Answer, Promise!Give, Promise!Unanswered
  <2>4. PublishVerdict(r, "unshareable") /\ Promise!Give(r, "own", r) => Promise!Publish(r)
    BY <1>b, <2>2 DEF PublishVerdict, Promise!Publish, Promise!Unanswered
  <2>5. UNCHANGED <<res, stored>> /\ Promise!Give(r, "own", r) => Promise!Begin(r)
    BY DEF Promise!Begin
  <2> QED
    BY <2>1, <2>3, <2>4, <2>5 DEF Promise!Next
<1>5. CASE ReadBody(r)
  <2>1. PICK w \in BOOLEAN :
          \/ PublishVerdict(r, "fail") /\ Answer(r, "502", NoReq, FALSE, FALSE)
          \/ PublishFillVerdict(r) /\ Answer(r, "own", r, w, resp[r].vary)
    BY <1>5 DEF ReadBody
  <2>2. pc[r] = "buffer" /\ resp[r].vary \in BOOLEAN
    BY <1>5, <1>a, ResponseFields DEF ReadBody, Grounded
  <2>3. CASE PublishVerdict(r, "fail") /\ Answer(r, "502", NoReq, FALSE, FALSE)
    <3>1. Promise!Give(r, "502", NoReq)
      BY <1>b, <2>2, <2>3 DEF Answer, Promise!Give, Promise!Unanswered
    <3> QED
      BY <1>b, <2>2, <2>3, <3>1 DEF PublishVerdict, Promise!Publish, Promise!Next
  <2>4. CASE PublishFillVerdict(r) /\ Answer(r, "own", r, w, resp[r].vary)
    <3>1. Promise!Give(r, "own", r)
      BY <1>b, <2>2, <2>4 DEF Answer, Promise!Give, Promise!Unanswered
    <3> QED
      BY <1>b, <1>c, <2>2, <2>4, <3>1
      DEF PublishFillVerdict, Promise!Publish, Promise!Unanswered, Promise!Next
  <2> QED
    BY <2>1, <2>3, <2>4
<1>6. CASE TeeBody(r)
  <2>1. /\ pc[r] = "tee" /\ UNCHANGED answer
        /\ PublishVerdict(r, "unshareable") \/ PublishFillVerdict(r)
    BY <1>6, TeeEffect
  <2>2. CASE PublishVerdict(r, "unshareable")
    BY <1>b, <2>1, <2>2 DEF PublishVerdict, Promise!Publish, Promise!Unanswered, Promise!Next
  <2>3. CASE PublishFillVerdict(r)
    BY <1>b, <1>c, <2>1, <2>3
    DEF PublishFillVerdict, Promise!Publish, Promise!Unanswered, Promise!Next
  <2> QED
    BY <2>1, <2>2, <2>3
<1> QED
  BY <1>1, <1>2, <1>3, <1>4, <1>5, <1>6

\* Settling a fill and waking a follower are steps of the promise.
LEMMA WakePromise ==
  ASSUME Typed, Safe, Fit, NEW r \in Reqs,
         SkipStore(r) \/ StoreFill(r) \/ StoreResolver(r)
           \/ HandoffFollower(r) \/ FillFollower(r)
  PROVE  Promise!Next \/ UNCHANGED <<answer, res, stored>>
<1>a. TypeOK /\ Grounded
  BY DEF Typed
<1> USE DEF BeforeVerdict, Unteed, streamVars, reqVars
<1>1. CASE SkipStore(r) \/ StoreFill(r) \/ StoreResolver(r)
  <2>1. /\ pc[r] \in {"store", "resolver"} /\ UNCHANGED <<answer, res>>
        /\ stored' = stored \/ stored' = [stored EXCEPT ![r] = TRUE]
    BY <1>1 DEF SkipStore, StoreFill, StoreResolver, Settle
  <2>2. res[r] # "none" /\ ~stored[r]
    BY <2>1 DEF Safe, SettlementProtocol
  <2> QED
    BY <2>1, <2>2 DEF Promise!Settle, Promise!Next
<1>2. ASSUME pc[r] = "wait"
      PROVE  /\ res[r] = "none" /\ answer[r].from = "none"
             /\ lead[r] \in Reqs \ {r}
             /\ ~IsFill(flight[r]) => Promise!Compatible(r, lead[r])
  <2>1. res[r] = "none" /\ answer[r].from = "none"
    BY <1>2 DEF Safe, SettlementProtocol, Fit, Answering
  <2>2. /\ lead[r] \in Reqs \ {r}
        /\ ~IsFill(flight[r]) => Compatible(r, lead[r])
    BY <1>a, <1>2, FollowersCompatible DEF Safe, Fit
  <2> QED
    BY <2>1, <2>2 DEF Compatible, Promise!Compatible
<1>3. CASE HandoffFollower(r)
  <2>1. /\ pc[r] = "wait" /\ ~IsFill(flight[r]) /\ UNCHANGED <<res, stored>>
        /\ \/ /\ res[lead[r]] = "bytes"
              /\ Answer(r, "handoff", lead[r], whole[lead[r]], resp[lead[r]].vary)
           \/ res[lead[r]] = "fail" /\ Answer(r, "502", NoReq, FALSE, FALSE)
           \/ res[lead[r]] = "shed" /\ Answer(r, "503", NoReq, FALSE, FALSE)
           \/ answer' = answer
    BY <1>3 DEF HandoffFollower
  <2>2. CASE res[lead[r]] = "bytes"
             /\ Answer(r, "handoff", lead[r], whole[lead[r]], resp[lead[r]].vary)
    <3>1. whole[lead[r]] \in BOOLEAN /\ resp[lead[r]].vary \in BOOLEAN
      BY <1>a, <1>2, <2>1, <2>2, ResponseFields DEF Grounded, TypeOK
    <3>2. Promise!Give(r, "handoff", lead[r])
      BY <1>2, <2>1, <2>2, <3>1 DEF Answer, Promise!Give, Promise!Unanswered
    <3> QED
      BY <1>2, <2>1, <2>2, <3>2 DEF Promise!Follow, Promise!Next
  <2>3. CASE res[lead[r]] = "fail" /\ Answer(r, "502", NoReq, FALSE, FALSE)
    <3>1. Promise!Give(r, "502", NoReq)
      BY <1>2, <2>1, <2>3 DEF Answer, Promise!Give, Promise!Unanswered
    <3> QED
      BY <1>2, <2>1, <2>3, <3>1 DEF Promise!Follow, Promise!Next
  <2>4. CASE res[lead[r]] = "shed" /\ Answer(r, "503", NoReq, FALSE, FALSE)
    <3>1. Promise!Give(r, "503", NoReq)
      BY <1>2, <2>1, <2>4 DEF Answer, Promise!Give, Promise!Unanswered
    <3> QED
      BY <1>2, <2>1, <2>4, <3>1 DEF Promise!Follow, Promise!Next
  <2> QED
    BY <2>1, <2>2, <2>3, <2>4
<1>4. CASE FillFollower(r)
  <2>1. /\ pc[r] = "wait" /\ UNCHANGED <<res, stored>>
        /\ \/ res[lead[r]] = "shed" /\ Answer(r, "503", NoReq, FALSE, FALSE)
           \/ answer' = answer
    BY <1>4 DEF FillFollower
  <2>2. Answer(r, "503", NoReq, FALSE, FALSE) => Promise!Give(r, "503", NoReq)
    BY <1>2, <2>1 DEF Answer, Promise!Give, Promise!Unanswered
  <2> QED
    BY <1>2, <2>1, <2>2 DEF Promise!Follow, Promise!Next
<1> QED
  BY <1>1, <1>3, <1>4

\* Every step of the pipeline is a step of the promise or none of its
\* business.
LEMMA NextPromise ==
  Typed /\ Safe /\ Fit /\ [Next]_vars => [Promise!Next]_(Promise!promiseVars)
<1> SUFFICES ASSUME Typed, Safe, Fit, [Next]_vars
             PROVE  Promise!Next \/ UNCHANGED <<answer, res, stored>>
  BY DEF Promise!promiseVars
<1>1. CASE \E r \in Reqs : Step(r) \/ LeaveTable(r)
  <2>1. PICK r \in Reqs : Step(r) \/ LeaveTable(r)
    BY <1>1
  <2>2. CASE FetchAlone(r) \/ BecomeLeader(r) \/ JoinFlight(r) \/ CountFollower(r)
             \/ LeaveTable(r) \/ AcquireFetchSlot(r) \/ QueueForSlot(r) \/ CopyBody(r)
    BY <2>2 DEF FetchAlone, BecomeLeader, JoinFlight, CountFollower, LeaveTable,
                AcquireFetchSlot, QueueForSlot, CopyBody, streamVars, reqVars
  <2> QED
    BY <2>1, <2>2, FetchPromise, WakePromise DEF Step
<1>2. CASE (\E r \in Reqs : Refill(r)) \/ Environment \/ UNCHANGED vars
  BY <1>2, QuietSteps
<1> QED
  BY <1>1, <1>2 DEF Next, Finished

\* The pipeline implements the promise: one verdict per fetch, settlement
\* after it, one answer per client, and another request's result only after
\* it was published and only where it may be shared.
THEOREM PromiseKept == Spec => KeepsPromise
<1> QED
  BY InitPromise, NextPromise, AlwaysTyped, AlwaysSafe, AlwaysFit, PTL
  DEF Spec, KeepsPromise, Promise!Spec

-----------------------------------------------------------------------------
(* What leaves a fill.                                                     *)

\* A body read in one go and meant for the store has no stream to break off,
\* and a body that was read into a buffer or is about to be pointed at by a
\* resolver is whole.  (streamMissBuffered, settleTeeFill)
BodiesRead ==
  \A r \in Reqs :
    /\ pc[r] = "buffer" /\ Storable(r) => ~resp[r].streamed
    /\ pc[r] = "store" /\ Storable(r) /\ ~teed[r] => whole[r]
    /\ pc[r] = "resolver" => whole[r]

Wholesome == BodiesRead /\ StoredBodiesWhole

\* The stages at which a request's body is on its way into the store.
Storing == {"buffer", "tee", "store", "resolver"}

\* The steps that neither receive nor store a body.
LEMMA OtherSteps ==
  ASSUME TypeOK, NEW r \in Reqs,
         \/ ServeRequest(r) \/ FetchAlone(r) \/ BecomeLeader(r) \/ JoinFlight(r)
         \/ CountFollower(r) \/ HandoffFollower(r) \/ FillFollower(r)
         \/ AcquireFetchSlot(r) \/ QueueForSlot(r) \/ ShedFetch(r)
         \/ OriginFails(r) \/ CopyBody(r) \/ SkipStore(r) \/ LeaveTable(r)
  PROVE  /\ UNCHANGED <<resp, whole, teed, store>>
         /\ \A q \in Reqs : pc'[q] \in Storing => pc'[q] = pc[q]
<1>a. pc \in [Reqs -> Steps]
  BY DEF TypeOK
<1>1. UNCHANGED <<resp, whole, teed, store>>
  BY DEF ServeRequest, FetchAlone, BecomeLeader, JoinFlight, CountFollower,
         HandoffFollower, FillFollower, AcquireFetchSlot, QueueForSlot,
         ShedFetch, OriginFails, CopyBody, SkipStore, LeaveTable, streamVars
<1>2. pc' = pc \/ \E s \in Steps \ Storing : pc' = [pc EXCEPT ![r] = s]
  BY DEF ServeRequest, FetchAlone, BecomeLeader, JoinFlight, CountFollower,
         HandoffFollower, FillFollower, AcquireFetchSlot, QueueForSlot,
         ShedFetch, OriginFails, CopyBody, SkipStore, Settle, LeaveTable,
         reqVars, Steps, Storing
<1> QED
  BY <1>a, <1>1, <1>2

\* What headers mean for the body, when the buffers cannot hit a cap: one
\* that is read in one go is not for the store, or has no stream.
LEMMA HeadersRead ==
  ASSUME TypeOK, ~BufferCapped, NEW r \in Reqs, OriginHeaders(r)
  PROVE  /\ UNCHANGED <<whole, store>>
         /\ \A q \in Reqs \ {r} : /\ pc'[q] = pc[q] /\ resp'[q] = resp[q]
                                  /\ teed'[q] = teed[q]
         /\ pc'[r] \in {"buffer", "tee", "copy"}
         /\ pc'[r] = "buffer" /\ Storable(r)' => ~resp'[r].streamed
<1>a. /\ pc \in [Reqs -> Steps] /\ resp \in [Reqs -> Responses \union {NoResp}]
      /\ teed \in [Reqs -> BOOLEAN]
  BY DEF TypeOK
<1>1. PICK p \in Responses :
        /\ resp' = [resp EXCEPT ![r] = p]
        /\ \/ pc' = [pc EXCEPT ![r] = "buffer"] /\ ReadsWholeBody(r, p)
           \/ \E s \in {"tee", "copy"} : pc' = [pc EXCEPT ![r] = s]
  BY DEF OriginHeaders, StreamNoCache
<1>2. UNCHANGED <<whole, store>> /\ \E b \in BOOLEAN : teed' = [teed EXCEPT ![r] = b] \/ teed' = teed
  BY DEF OriginHeaders, StreamNoCache
<1>3. resp'[r] = p
  BY <1>a, <1>1
<1>4. pc'[r] = "buffer" => ReadsWholeBody(r, p)
  BY <1>a, <1>1
<1>5. pc'[r] = "buffer" /\ Storable(r)' => ~resp'[r].streamed
  BY <1>3, <1>4 DEF ReadsWholeBody, Storable
<1> QED
  BY <1>a, <1>1, <1>2, <1>5

\* A body that has been read in one go from something other than a stream is
\* whole.
LEMMA BodyRead ==
  ASSUME TypeOK, BodiesRead, NEW r \in Reqs, ReadBody(r)
  PROVE  BodiesRead' /\ UNCHANGED store
<1>a. /\ pc \in [Reqs -> Steps] /\ whole \in [Reqs -> BOOLEAN]
  BY DEF TypeOK
<1>1. PICK w \in BOOLEAN :
        \/ pc' = [pc EXCEPT ![r] = "done"] /\ whole' = whole
        \/ /\ w \/ resp[r].streamed
           /\ pc' = [pc EXCEPT ![r] = "store"] /\ whole' = [whole EXCEPT ![r] = w]
  BY DEF ReadBody
<1>2. UNCHANGED <<resp, teed, store>> /\ pc[r] = "buffer"
  BY DEF ReadBody
<1>3. \A q \in Reqs : Storable(q)' = Storable(q)
  BY <1>2 DEF Storable
<1>4. Storable(r) => ~resp[r].streamed
  BY <1>2 DEF BodiesRead
<1> QED
  BY <1>a, <1>1, <1>2, <1>3, <1>4 DEF BodiesRead

\* The copy a tee leaves behind is judged by cacheExceeded, not here.
LEMMA BodyTeed ==
  ASSUME TypeOK, Stages, BodiesRead, NEW r \in Reqs, TeeBody(r)
  PROVE  BodiesRead' /\ UNCHANGED store
<1>a. /\ pc \in [Reqs -> Steps] /\ whole \in [Reqs -> BOOLEAN]
  BY DEF TypeOK
<1>1. /\ \E s \in {"done", "store"} : pc' = [pc EXCEPT ![r] = s]
      /\ whole' = whole \/ \E w \in BOOLEAN : whole' = [whole EXCEPT ![r] = w]
      /\ UNCHANGED <<resp, teed, store>> /\ pc[r] = "tee"
  BY DEF TeeBody
<1>2. teed[r]
  BY <1>1 DEF Stages
<1>3. \A q \in Reqs : Storable(q)' = Storable(q)
  BY <1>1 DEF Storable
<1> QED
  BY <1>a, <1>1, <1>2, <1>3 DEF BodiesRead

\* What may be stored is whole, and so is what is stored.
LEMMA BodyStored ==
  ASSUME TypeOK, Wholesome, NEW r \in Reqs, StoreFill(r) \/ StoreResolver(r)
  PROVE  Wholesome'
<1>a. /\ pc \in [Reqs -> Steps] /\ store \in [Keys -> Objects \union {NoObj}]
      /\ whole \in [Reqs -> BOOLEAN]
  BY DEF TypeOK
<1>0. BodiesRead /\ StoredBodiesWhole
  BY DEF Wholesome
<1>1. whole[r]
  <2>1. CASE StoreFill(r)
    BY <1>0, <1>a, <2>1 DEF StoreFill, MayStore, BodiesRead
  <2>2. CASE StoreResolver(r)
    BY <1>0, <1>a, <2>2 DEF StoreResolver, BodiesRead
  <2> QED
    BY <2>1, <2>2
<1>2. /\ UNCHANGED <<resp, teed, whole>>
      /\ \E s \in {"done", "resolver"} : pc' = [pc EXCEPT ![r] = s]
      /\ \E k \in Keys, kind \in {"plain", "variant", "resolver"} :
           store' = [store EXCEPT ![k] = Object(kind, r, r, whole[r], resp[r].vary)]
  BY ConstantsAssumption DEF StoreFill, StoreResolver, Settle, Keys
<1>3. BodiesRead'
  <2>1. \A q \in Reqs : Storable(q)' = Storable(q)
    BY <1>2 DEF Storable
  <2> QED
    BY <1>0, <1>a, <1>1, <1>2, <2>1 DEF BodiesRead
<1>4. StoredBodiesWhole'
  BY <1>0, <1>a, <1>1, <1>2, SMTT(30) DEF StoredBodiesWhole, Object
<1> QED
  BY <1>3, <1>4 DEF Wholesome

\* A refill's body was read whole, an eviction leaves nothing and an expiry
\* leaves the body.
LEMMA BackgroundWhole ==
  ASSUME TypeOK, Wholesome, (\E r \in Reqs : Refill(r)) \/ Environment \/ UNCHANGED vars
  PROVE  Wholesome'
<1>a. store \in [Keys -> Objects \union {NoObj}] /\ BodiesRead /\ StoredBodiesWhole
  BY DEF TypeOK, Wholesome
<1>1. UNCHANGED <<pc, resp, teed, whole>>
  BY DEF Refill, RefillDo, RefillFetched, RefillPut, Environment, Evict,
         Expire, ForgetUnstorable, vars, reqVars, streamVars
<1>2. BodiesRead'
  <2>1. \A q \in Reqs : Storable(q)' = Storable(q)
    BY <1>1 DEF Storable
  <2> QED
    BY <1>a, <1>1, <2>1 DEF BodiesRead
<1>3. StoredBodiesWhole'
  <2>1. CASE store' = store
    BY <1>a, <2>1 DEF StoredBodiesWhole
  <2>2. CASE \E r \in Reqs : RefillPut(r)
    <3>1. PICK r \in Reqs : RefillPut(r)
      BY <2>2
    <3>2. \/ store' = store
          \/ \E o : o.whole /\ store' = [store EXCEPT ![refill[r].key] = o]
      BY <3>1 DEF RefillPut, Object
    <3> QED
      BY <1>a, <3>2 DEF StoredBodiesWhole
  <2>3. CASE \E k \in Keys : Evict(k)
    BY <1>a, <2>3 DEF Evict, StoredBodiesWhole
  <2>4. CASE \E k \in Keys : Expire(k)
    <3>1. PICK k \in Keys : Expire(k)
      BY <2>4
    <3>2. /\ store[k] \in Objects /\ store' = [store EXCEPT ![k] = [store[k] EXCEPT !.fresh = FALSE]]
      BY <1>a, <3>1 DEF Expire
    <3>3. store'[k].whole = store[k].whole
      BY <1>a, <3>2 DEF Objects
    <3> QED
      BY <1>a, <3>1, <3>2, <3>3 DEF StoredBodiesWhole, Expire
  <2> QED
    BY <2>1, <2>2, <2>3, <2>4 DEF Refill, RefillDo, RefillFetched, Environment,
       ForgetUnstorable, vars
<1> QED
  BY <1>2, <1>3 DEF Wholesome

\* Wholesome is inductive while the streaming buffers have no cap.
LEMMA NextWholesome ==
  ASSUME ~BufferCapped
  PROVE  Typed /\ Safe /\ Wholesome /\ [Next]_vars => Wholesome'
<1> SUFFICES ASSUME Typed, Safe, Wholesome, [Next]_vars PROVE Wholesome'
  OBVIOUS
<1>a. TypeOK /\ Stages /\ BodiesRead /\ StoredBodiesWhole
  BY DEF Typed, Safe, Wholesome
<1>1. ASSUME NEW r \in Reqs, Step(r) \/ LeaveTable(r) PROVE Wholesome'
  <2>1. CASE OriginHeaders(r)
    <3>1. \A q \in Reqs \ {r} : Storable(q)' = Storable(q)
      BY <1>a, <2>1, HeadersRead DEF Storable
    <3>2. BodiesRead'
      BY <1>a, <2>1, <3>1, HeadersRead DEF BodiesRead
    <3>3. StoredBodiesWhole'
      BY <1>a, <2>1, HeadersRead DEF StoredBodiesWhole
    <3> QED
      BY <3>2, <3>3 DEF Wholesome
  <2>2. CASE ReadBody(r) \/ TeeBody(r)
    BY <1>a, <2>2, BodyRead, BodyTeed DEF Wholesome, StoredBodiesWhole
  <2>3. CASE StoreFill(r) \/ StoreResolver(r)
    BY <1>a, <2>3, BodyStored
  <2>4. CASE /\ UNCHANGED <<resp, whole, teed, store>>
             /\ \A q \in Reqs : pc'[q] \in Storing => pc'[q] = pc[q]
    <3>1. \A q \in Reqs : Storable(q)' = Storable(q)
      BY <2>4 DEF Storable
    <3>2. BodiesRead'
      BY <1>a, <2>4, <3>1 DEF BodiesRead, Storing
    <3> QED
      BY <1>a, <2>4, <3>2 DEF Wholesome, StoredBodiesWhole
  <2> QED
    BY <1>a, <1>1, <2>1, <2>2, <2>3, <2>4, OtherSteps DEF Step
<1> QED
  BY <1>a, <1>1, BackgroundWhole DEF Next, Finished

\* With no cap on the streaming buffers (max_streaming_buffer_bytes unset),
\* what is stored is a whole body and what a follower is handed is handed
\* where it may be.  With a cap the first part fails (stream.go:508), which
\* the run of the prefix handoff shows.
THEOREM BodiesKept ==
  ASSUME ~BufferCapped
  PROVE  Spec => []BodiesLeaveProperly
<1>1. Init => Wholesome
  BY DEF Init, Wholesome, BodiesRead, StoredBodiesWhole
<1>2. Wholesome /\ HandoffPermitted => BodiesLeaveProperly
  BY DEF Wholesome, BodiesLeaveProperly
<1>3. Typed /\ Safe /\ Wholesome /\ [Next]_vars => Wholesome'
  BY NextWholesome
<1> QED
  BY <1>1, <1>2, <1>3, AlwaysTyped, AlwaysSafe, HandoffsPermitted, PTL DEF Spec
-----------------------------------------------------------------------------
(* Variants.                                                               *)

\* Every response is stored and shared under the variant its request selects:
\* the route declares the dimensions, or the origin always does.
Varying == Declared \/ FALSE \notin OriginVary

\* A URL's responses vary or they do not; an origin that changes its mind is
\* covered only where the route declares the dimensions itself.
VarySettled == Varying \/ TRUE \notin OriginVary

\* A variant key holds what a request of that variant fetched, and where
\* responses vary the primary key is never served from.
StoreApart ==
  \A k \in Keys : store[k] # NoObj =>
    /\ store[k].vary \in OriginVary
    /\ Varying => /\ store[k].kind # "plain"
                  /\ k # Primary => Variant[store[k].by] = k

\* A refill of a variant key is fetched by a request of that variant, also
\* when it joined another's call.  (triggerShedRefill, singleflight.Do)
RefillsApart ==
  \A r \in Reqs : refill[r].key # Primary =>
    refill[r].key = Variant[r] /\ Variant[refill[r].of] = Variant[r]

LookupsApart == \A r \in Reqs : lookupKey[r] \in {Primary, Variant[r]}

\* A byte-handoff flight is one variant's.  (collapseFlightKey)
FlightsApart ==
  Varying => \A r \in Reqs :
    flight[r] # NoFlight /\ ~IsFill(flight[r]) => flight[r][2] = Variant[r]

Apart == StoreApart /\ RefillsApart /\ LookupsApart /\ FlightsApart /\ VariantsKeptApart

\* What the lookup returns is for the request: the primary or its variant's
\* key, a flight of its variant, and an object its variant's request fetched.
LEMMA LookupApart ==
  ASSUME TypeOK, VarySettled, StoreApart, NEW r \in Reqs
  PROVE  /\ Lookup(r).key \in {Primary, Variant[r]}
         /\ Lookup(r).obj # NoObj /\ Lookup(r).obj.vary
              => Variant[Lookup(r).obj.by] = Variant[r]
         /\ Varying /\ FetchFlightKey(r, Lookup(r)) # NoFlight
              /\ ~IsFill(FetchFlightKey(r, Lookup(r)))
              => FetchFlightKey(r, Lookup(r))[2] = Variant[r]
<1>b. /\ Variant[r] \in Keys /\ Primary \in Keys /\ Variant[r] # Primary
  BY ConstantsAssumption, SMTT(30) DEF Keys
<1>a. /\ store \in [Keys -> Objects \union {NoObj}]
      /\ Variant[r] \in Keys /\ Primary \in Keys /\ Variant[r] # Primary
  BY <1>b DEF TypeOK
<1>1. Lookup(r).key \in {Primary, Variant[r]}
  BY DEF Lookup
<1>2. Varying => \/ Lookup(r).key = Primary /\ Lookup(r).obj = NoObj
                 \/ Lookup(r).key = Variant[r] /\ Lookup(r).obj = store[Variant[r]]
  BY <1>a DEF Lookup, StoreApart
<1>3. Lookup(r).obj = store[Primary] \/ Lookup(r).obj = store[Variant[r]]
  BY DEF Lookup
<1>4. Lookup(r).obj # NoObj /\ Lookup(r).obj.vary => Varying
  <2>1. Lookup(r).obj # NoObj => Lookup(r).obj.vary \in OriginVary
    BY <1>a, <1>3 DEF StoreApart
  <2>2. Lookup(r).obj # NoObj => Lookup(r).obj.vary \in BOOLEAN
    BY <1>a, <1>3 DEF Objects
  <2>3. Lookup(r).obj # NoObj /\ Lookup(r).obj.vary => TRUE \in OriginVary
    BY <2>1, <2>2
  <2> QED
    BY <2>3 DEF VarySettled
<1>5. Lookup(r).obj # NoObj /\ Lookup(r).obj.vary
        => Variant[Lookup(r).obj.by] = Variant[r]
  BY <1>a, <1>2, <1>4 DEF StoreApart
<1>6. Varying => CollapseFlightKey(r, Lookup(r)) \in {Variant[r], NoFlight}
  BY <1>a, <1>2 DEF CollapseFlightKey
<1>7. Varying /\ FetchFlightKey(r, Lookup(r)) # NoFlight
         /\ ~IsFill(FetchFlightKey(r, Lookup(r)))
         => FetchFlightKey(r, Lookup(r))[2] = Variant[r]
  BY <1>6 DEF FetchFlightKey, IsFill
<1> QED
  BY <1>1, <1>5, <1>7

\* A request that looks up is served, or goes on, within its variant.
LEMMA ServeApart ==
  ASSUME TypeOK, VarySettled, Apart, NEW r \in Reqs, ServeRequest(r)
  PROVE  Apart'
<1>a. /\ lookupKey \in [Reqs -> Keys] /\ answer \in [Reqs -> Answers]
      /\ flight \in [Reqs -> FlightKeys \union {NoFlight}]
      /\ StoreApart /\ RefillsApart /\ LookupsApart /\ FlightsApart /\ VariantsKeptApart
  BY DEF TypeOK, Apart
<1>1. UNCHANGED <<store, refill>>
  BY DEF ServeRequest
<1>2. \/ /\ Servable(Lookup(r).obj) /\ UNCHANGED <<lookupKey, flight>>
         /\ Answer(r, "store", Lookup(r).obj.by, Lookup(r).obj.whole, Lookup(r).obj.vary)
      \/ /\ lookupKey' = [lookupKey EXCEPT ![r] = Lookup(r).key]
         /\ flight' = [flight EXCEPT ![r] = FetchFlightKey(r, Lookup(r))]
         /\ UNCHANGED answer
  BY DEF ServeRequest
<1>3. StoreApart' /\ RefillsApart'
  BY <1>a, <1>1 DEF StoreApart, RefillsApart
<1>4. LookupsApart'
  BY <1>a, <1>2, LookupApart DEF LookupsApart
<1>5. FlightsApart'
  <2>1. CASE UNCHANGED flight
    BY <1>a, <2>1 DEF FlightsApart
  <2>2. CASE flight' = [flight EXCEPT ![r] = FetchFlightKey(r, Lookup(r))]
    <3>1. /\ flight'[r] = FetchFlightKey(r, Lookup(r))
          /\ \A q \in Reqs \ {r} : flight'[q] = flight[q]
      BY <1>a, <2>2
    <3>2. Varying /\ flight'[r] # NoFlight /\ ~IsFill(flight'[r])
            => flight'[r][2] = Variant[r]
      BY <1>a, <3>1, LookupApart
    <3> QED
      BY <1>a, <3>1, <3>2 DEF FlightsApart
  <2> QED
    BY <1>2, <2>1, <2>2
<1>6. VariantsKeptApart'
  <2>1. CASE UNCHANGED answer
    BY <1>a, <2>1 DEF VariantsKeptApart
  <2>2. CASE /\ Servable(Lookup(r).obj)
             /\ Answer(r, "store", Lookup(r).obj.by, Lookup(r).obj.whole, Lookup(r).obj.vary)
    <3>1. Lookup(r).obj.vary => Variant[Lookup(r).obj.by] = Variant[r]
      BY <1>a, <2>2, LookupApart DEF Servable
    <3> QED
      BY <1>a, <2>2, <3>1 DEF Answer, VariantsKeptApart
  <2> QED
    BY <1>2, <2>1, <2>2
<1> QED
  BY <1>3, <1>4, <1>5, <1>6 DEF Apart

\* A fill stores under its own variant's key, or the resolver.
LEMMA StoresApart ==
  ASSUME Typed, VarySettled, StoreApart, NEW r \in Reqs,
         StoreFill(r) \/ StoreResolver(r)
  PROVE  StoreApart'
<1>b. Variant[r] \in Keys /\ Primary \in Keys
  BY ConstantsAssumption DEF Keys
<1>c. pc[r] \in {"store", "resolver"}
  BY DEF StoreFill, StoreResolver
<1>d. resp[r] \in Responses
  BY <1>c DEF Typed, Grounded
<1>a. /\ store \in [Keys -> Objects \union {NoObj}] /\ resp[r] \in Responses
      /\ Variant[r] \in Keys /\ Primary \in Keys
  BY <1>b, <1>d DEF Typed, TypeOK
<1>1. resp[r].vary \in OriginVary /\ (Varying => EffectiveVary(resp[r]))
  <2>1. resp[r].vary \in OriginVary /\ resp[r].vary \in BOOLEAN
    BY <1>a, ConstantsAssumption DEF Responses
  <2> QED
    BY <2>1 DEF Varying, EffectiveVary
<1>2. PICK k \in Keys, kind \in {"plain", "variant", "resolver"} :
        /\ store' = [store EXCEPT ![k] = Object(kind, r, r, whole[r], resp[r].vary)]
        /\ k # Primary => k = Variant[r]
        /\ kind = "plain" => ~EffectiveVary(resp[r])
  BY <1>a DEF StoreFill, StoreResolver
<1>3. \A q \in Keys \ {k} : store'[q] = store[q]
  BY <1>a, <1>2
<1>4. /\ store'[k].vary = resp[r].vary /\ store'[k].kind = kind /\ store'[k].by = r
  BY <1>a, <1>2 DEF Object
<1> QED
  BY <1>1, <1>2, <1>3, <1>4 DEF StoreApart

\* A triggered refill is the primary's or the variant's own.
LEMMA TriggerApart ==
  ASSUME TypeOK, RefillsApart, NEW r \in Reqs, NEW k \in {Primary, Variant[r]},
         TriggerShedRefill(r, k)
  PROVE  RefillsApart'
<1>a. refill \in [Reqs -> Refills]
  BY DEF TypeOK
<1>1. \/ refill' = refill
      \/ refill' = [refill EXCEPT ![r] = [NoRefill(r) EXCEPT !.step = "run", !.key = k]]
  BY DEF TriggerShedRefill
<1>2. /\ [NoRefill(r) EXCEPT !.step = "run", !.key = k].key = k
      /\ [NoRefill(r) EXCEPT !.step = "run", !.key = k].of = r
  BY DEF NoRefill
<1> QED
  BY <1>a, <1>1, <1>2 DEF RefillsApart

\* Bytes are handed on within one variant, when they vary.
LEMMA HandoffApart ==
  ASSUME Typed, Safe, VarySettled, Apart, NEW r \in Reqs, HandoffFollower(r)
  PROVE  VariantsKeptApart'
<1>a. /\ answer \in [Reqs -> Answers] /\ TypeOK /\ Grounded /\ VariantsKeptApart
      /\ NoOrphanedFollower /\ Stages /\ FlightsApart
  BY DEF Typed, TypeOK, Safe, Apart
<1>1. /\ pc[r] = "wait" /\ ~IsFill(flight[r])
      /\ \/ answer' = answer
         \/ \E c \in {"502", "503"} : Answer(r, c, NoReq, FALSE, FALSE)
         \/ /\ Answer(r, "handoff", lead[r], whole[lead[r]], resp[lead[r]].vary)
            /\ res[lead[r]] = "bytes"
  BY DEF HandoffFollower
<1>2. /\ lead[r] \in Reqs /\ flight[lead[r]] = flight[r]
      /\ flight[r] # NoFlight
  BY <1>a, <1>1, ConstantsAssumption DEF NoOrphanedFollower, Stages
<1>3. CASE answer' = answer
  BY <1>a, <1>3 DEF VariantsKeptApart
<1>4. CASE \E c \in {"502", "503"} : Answer(r, c, NoReq, FALSE, FALSE)
  BY <1>a, <1>4, SMTT(30) DEF Answer, VariantsKeptApart
<1>5. CASE /\ Answer(r, "handoff", lead[r], whole[lead[r]], resp[lead[r]].vary)
           /\ res[lead[r]] = "bytes"
  <2>1. resp[lead[r]].vary \in OriginVary /\ resp[lead[r]].vary \in BOOLEAN
    BY <1>a, <1>2, <1>5, ConstantsAssumption DEF Grounded, Responses
  <2>2. resp[lead[r]].vary => Varying
    BY <2>1 DEF VarySettled
  <2>3. Varying => Variant[lead[r]] = Variant[r]
    BY <1>a, <1>1, <1>2 DEF FlightsApart
  <2> QED
    BY <1>a, <1>5, <2>2, <2>3 DEF Answer, VariantsKeptApart
<1> QED
  BY <1>1, <1>3, <1>4, <1>5

\* The other steps neither store nor serve anything.
LEMMA StepApart ==
  ASSUME Typed, Safe, VarySettled, Apart, NEW r \in Reqs, Step(r) \/ LeaveTable(r)
  PROVE  Apart'
<1>a. /\ TypeOK /\ answer \in [Reqs -> Answers]
      /\ StoreApart /\ RefillsApart /\ LookupsApart /\ FlightsApart /\ VariantsKeptApart
  BY DEF Typed, TypeOK, Apart
<1>1. CASE ServeRequest(r)
  BY <1>a, <1>1, ServeApart
<1>2. CASE ~ServeRequest(r)
  <2>1. UNCHANGED <<lookupKey, flight>>
    BY <1>2 DEF Step, FetchAlone, BecomeLeader, JoinFlight, CountFollower,
         LeaveTable, AcquireFetchSlot, QueueForSlot, ShedFetch, OriginFails,
         OriginHeaders, CopyBody, ReadBody, TeeBody, SkipStore, StoreFill,
         StoreResolver, HandoffFollower, FillFollower, reqVars
  <2>2. LookupsApart' /\ FlightsApart'
    BY <1>a, <2>1 DEF LookupsApart, FlightsApart
  <2>3. StoreApart'
    <3>1. CASE store' = store
      BY <1>a, <3>1 DEF StoreApart
    <3>2. CASE StoreFill(r) \/ StoreResolver(r)
      BY <1>a, <3>2, StoresApart
    <3> QED
      BY <1>2, <3>1, <3>2 DEF Step, FetchAlone, BecomeLeader, JoinFlight,
         CountFollower, LeaveTable, AcquireFetchSlot, QueueForSlot, ShedFetch,
         OriginFails, OriginHeaders, CopyBody, ReadBody, TeeBody, SkipStore,
         HandoffFollower, FillFollower
  <2>4. RefillsApart'
    <3>1. refill' = refill \/ \E k \in {Primary, lookupKey[r]} : TriggerShedRefill(r, k)
      BY <1>2 DEF Step, FetchAlone, BecomeLeader, JoinFlight, CountFollower,
         LeaveTable, AcquireFetchSlot, QueueForSlot, ShedFetch, OriginFails,
         OriginHeaders, CopyBody, ReadBody, TeeBody, SkipStore, StoreFill,
         StoreResolver, HandoffFollower, FillFollower
    <3>2. lookupKey[r] \in {Primary, Variant[r]}
      BY <1>a DEF LookupsApart
    <3>3. CASE refill' = refill
      BY <1>a, <3>3 DEF RefillsApart
    <3> QED
      BY <1>a, <3>1, <3>2, <3>3, TriggerApart
  <2>5. VariantsKeptApart'
    <3>1. CASE HandoffFollower(r)
      BY <3>1, HandoffApart
    <3>2. CASE ~HandoffFollower(r)
      <4>1. \/ answer' = answer
            \/ \E from \in {"own", "502", "503"} : \E by, w, v : Answer(r, from, by, w, v)
        BY <1>2, <3>2 DEF Step, FetchAlone, BecomeLeader, JoinFlight,
           CountFollower, LeaveTable, AcquireFetchSlot, QueueForSlot, ShedFetch,
           OriginFails, OriginHeaders, StreamNoCache, CopyBody, ReadBody,
           TeeBody, SkipStore, StoreFill, StoreResolver, FillFollower, reqVars
      <4> QED
        BY <1>a, <4>1, SMTT(30) DEF Answer, VariantsKeptApart
    <3> QED
      BY <3>1, <3>2
  <2> QED
    BY <2>2, <2>3, <2>4, <2>5 DEF Apart
<1> QED
  BY <1>1, <1>2

\* A refill joins the call for its own key, so a variant's is fetched for
\* that variant, and it is stored where it was triggered.
LEMMA RefillKeepsApart ==
  ASSUME Typed, VarySettled, Apart, NEW r \in Reqs, Refill(r)
  PROVE  Apart'
<1>a. /\ TypeOK /\ Grounded /\ refill \in [Reqs -> Refills]
      /\ store \in [Keys -> Objects \union {NoObj}]
      /\ StoreApart /\ RefillsApart /\ LookupsApart /\ FlightsApart /\ VariantsKeptApart
  BY DEF Typed, TypeOK, Apart
<1>1. UNCHANGED <<lookupKey, flight, answer>>
  BY DEF Refill, RefillDo, RefillFetched, RefillPut, reqVars
<1>2. LookupsApart' /\ FlightsApart' /\ VariantsKeptApart'
  BY <1>a, <1>1 DEF LookupsApart, FlightsApart, VariantsKeptApart
<1>3. \A q \in Reqs : NoRefill(q).key = Primary
  BY DEF NoRefill
<1>4. CASE RefillDo(r)
  <2>1. \/ refill' = [refill EXCEPT ![r] = [refill[r] EXCEPT !.step = "lead"]]
        \/ \E q \in Reqs :
             /\ refill[q].key = refill[r].key
             /\ refill' = [refill EXCEPT ![r] = [refill[r] EXCEPT !.step = "join", !.of = q]]
    BY <1>a, <1>4 DEF RefillDo
  <2>2. refill[r] \in Refills
    BY <1>a
  <2>3. ASSUME refill' = [refill EXCEPT ![r] = [refill[r] EXCEPT !.step = "lead"]]
        PROVE  RefillsApart'
    <3>1. refill'[r].key = refill[r].key /\ refill'[r].of = refill[r].of
      BY <1>a, <2>2, <2>3 DEF Refills
    <3> QED
      BY <1>a, <2>3, <3>1 DEF RefillsApart
  <2>4. ASSUME \E q \in Reqs :
             /\ refill[q].key = refill[r].key
             /\ refill' = [refill EXCEPT ![r] = [refill[r] EXCEPT !.step = "join", !.of = q]]
        PROVE  RefillsApart'
    <3>1. PICK q \in Reqs :
             /\ refill[q].key = refill[r].key
             /\ refill' = [refill EXCEPT ![r] = [refill[r] EXCEPT !.step = "join", !.of = q]]
      BY <2>4
    <3>2. refill'[r].key = refill[r].key /\ refill'[r].of = q
      BY <1>a, <2>2, <3>1 DEF Refills
    <3>3. refill[r].key # Primary => refill[r].key = Variant[r] /\ Variant[q] = Variant[r]
      BY <1>a, <3>1 DEF RefillsApart
    <3>4. \A s \in Reqs \ {r} : refill'[s] = refill[s]
      BY <1>a, <3>1
    <3> QED
      BY <1>a, <3>2, <3>3, <3>4 DEF RefillsApart
  <2>5. RefillsApart'
    BY <2>1, <2>3, <2>4
  <2>6. StoreApart'
    BY <1>a, <1>4 DEF RefillDo, StoreApart
  <2> QED
    BY <1>2, <2>5, <2>6 DEF Apart
<1>5. CASE RefillFetched(r)
  <2>1. \A q \in Reqs : \/ refill'[q] = refill[q]
                        \/ refill'[q] = NoRefill(q)
                        \/ \E p \in Responses :
                             refill'[q] = [refill[q] EXCEPT !.step = "put", !.resp = p]
    BY <1>5 DEF RefillFetched
  <2>2. \A q \in Reqs : \/ refill'[q].key = Primary
                        \/ refill'[q].key = refill[q].key /\ refill'[q].of = refill[q].of
    <3> SUFFICES ASSUME NEW q \in Reqs
                 PROVE  \/ refill'[q].key = Primary
                        \/ refill'[q].key = refill[q].key /\ refill'[q].of = refill[q].of
      OBVIOUS
    <3>1. refill[q] \in Refills
      BY <1>a
    <3>2. \A p : LET f == [refill[q] EXCEPT !.step = "put", !.resp = p]
                 IN f.key = refill[q].key /\ f.of = refill[q].of
      BY <3>1 DEF Refills
    <3> QED
      BY <1>3, <2>1, <3>2
  <2>3. RefillsApart'
    BY <1>a, <2>2 DEF RefillsApart
  <2>4. StoreApart'
    BY <1>a, <1>5 DEF RefillFetched, StoreApart
  <2> QED
    BY <1>2, <2>3, <2>4 DEF Apart
<1>6. CASE RefillPut(r)
  <2>1. RefillsApart'
    BY <1>a, <1>3, <1>6 DEF RefillPut, RefillsApart
  <2>2. /\ refill[r].resp \in Responses /\ refill[r].key \in Keys
        /\ refill[r].key # Primary => Variant[refill[r].of] = refill[r].key
    BY <1>a, <1>6 DEF RefillPut, Grounded, RefillsApart, Refills
  <2>3. /\ refill[r].resp.vary \in OriginVary
        /\ Varying => EffectiveVary(refill[r].resp)
    <3>1. refill[r].resp.vary \in OriginVary /\ refill[r].resp.vary \in BOOLEAN
      BY <2>2, ConstantsAssumption DEF Responses
    <3> QED
      BY <3>1 DEF Varying, EffectiveVary
  <2>4. CASE store' = store
    BY <1>2, <1>a, <2>1, <2>4 DEF StoreApart, Apart
  <2>5. CASE store' # store
    <3>1. PICK kind \in {"plain", "variant"} :
            /\ kind = "plain" => ~EffectiveVary(refill[r].resp)
            /\ store' = [store EXCEPT ![refill[r].key] =
                           Object(kind, refill[r].of, r, TRUE, refill[r].resp.vary)]
      BY <1>6, <2>5 DEF RefillPut
    <3>2. /\ store'[refill[r].key].vary = refill[r].resp.vary
          /\ store'[refill[r].key].kind = kind
          /\ store'[refill[r].key].by = refill[r].of
          /\ \A k \in Keys \ {refill[r].key} : store'[k] = store[k]
      BY <1>a, <2>2, <3>1 DEF Object
    <3>3. StoreApart'
      BY <1>a, <2>2, <2>3, <3>1, <3>2 DEF StoreApart
    <3> QED
      BY <1>2, <2>1, <3>3 DEF Apart
  <2> QED
    BY <2>4, <2>5
<1> QED
  BY <1>4, <1>5, <1>6 DEF Refill

\* An eviction removes, and an expiry changes neither the key nor the origin
\* of what is stored.
LEMMA ChurnApart ==
  ASSUME TypeOK, Apart, Environment \/ UNCHANGED vars
  PROVE  Apart'
<1>a. /\ store \in [Keys -> Objects \union {NoObj}]
      /\ StoreApart /\ RefillsApart /\ LookupsApart /\ FlightsApart /\ VariantsKeptApart
  BY DEF TypeOK, Apart
<1>1. UNCHANGED <<lookupKey, flight, answer, refill>>
  BY DEF Environment, Evict, Expire, ForgetUnstorable, vars, reqVars
<1>2. LookupsApart' /\ FlightsApart' /\ VariantsKeptApart' /\ RefillsApart'
  BY <1>a, <1>1 DEF LookupsApart, FlightsApart, VariantsKeptApart, RefillsApart
<1>3. StoreApart'
  <2>1. CASE store' = store
    BY <1>a, <2>1 DEF StoreApart
  <2>2. CASE \E k \in Keys : Evict(k)
    BY <1>a, <2>2 DEF Evict, StoreApart
  <2>3. CASE \E k \in Keys : Expire(k)
    <3>1. PICK k \in Keys : Expire(k)
      BY <2>3
    <3>2. /\ store[k] \in Objects
          /\ store' = [store EXCEPT ![k] = [store[k] EXCEPT !.fresh = FALSE]]
      BY <1>a, <3>1 DEF Expire
    <3>3. /\ store'[k].vary = store[k].vary /\ store'[k].kind = store[k].kind
          /\ store'[k].by = store[k].by /\ store[k] # NoObj
      BY <1>a, <3>1, <3>2 DEF Objects, Expire
    <3>4. \A q \in Keys \ {k} : store'[q] = store[q]
      BY <1>a, <3>2
    <3> QED
      BY <1>a, <3>3, <3>4 DEF StoreApart
  <2> QED
    BY <2>1, <2>2, <2>3 DEF Environment, ForgetUnstorable, vars
<1> QED
  BY <1>2, <1>3 DEF Apart

\* Apart is inductive where it is settled whether a URL varies.
LEMMA NextApart ==
  ASSUME VarySettled
  PROVE  Typed /\ Safe /\ Apart /\ [Next]_vars => Apart'
<1> SUFFICES ASSUME Typed, Safe, Apart, [Next]_vars PROVE Apart'
  OBVIOUS
<1>1. TypeOK
  BY DEF Typed
<1> QED
  BY <1>1, StepApart, RefillKeepsApart, ChurnApart DEF Next, Finished

\* No client is given a representation that a request of another variant
\* fetched, when the response varies: not from the store, not from a flight
\* it joined, not by way of a refill.  It takes an origin whose Vary for the
\* URL does not come and go, or a route that declares include_headers: a
\* flight over a stale object without Vary is shared by every variant
\* (collapse.go:86), and nothing looks at the new response's Vary before its
\* bytes are handed on.
THEOREM VariantsApart ==
  ASSUME VarySettled
  PROVE  Spec => []VariantsKeptApart
<1>1. Init => Apart
  <2> SUFFICES ASSUME Init PROVE Apart
    OBVIOUS
  <2>1. \A r \in Reqs : /\ lookupKey[r] = Primary /\ flight[r] = NoFlight
                        /\ answer[r].from = "none" /\ refill[r].key = Primary
    BY DEF Init, NoAnswer, NoRefill
  <2>2. \A k \in Keys : store[k] = NoObj
    BY DEF Init
  <2> QED
    BY <2>1, <2>2 DEF Apart, StoreApart, RefillsApart, LookupsApart,
       FlightsApart, VariantsKeptApart
<1>2. Apart => VariantsKeptApart
  BY DEF Apart
<1>3. Typed /\ Safe /\ Apart /\ [Next]_vars => Apart'
  BY NextApart
<1> QED
  BY <1>1, <1>2, <1>3, AlwaysTyped, AlwaysSafe, PTL DEF Spec
=============================================================================
