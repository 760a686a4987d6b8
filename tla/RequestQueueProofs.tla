------------------------- MODULE RequestQueueProofs -------------------------
(***************************************************************************)
(* Proofs about the request queue of RequestQueue, for every width W of    *)
(* the id counter and every bound MaxCalls: type correctness, and that     *)
(* request ids are unique among the records in m_requests.                 *)
(***************************************************************************)
EXTENDS RequestQueue, SequenceTheorems, WellFoundedInduction, TLAPS

\* 2^W is a positive natural, so "% N" lands in Ids.
LEMMA NPositive == N \in Nat \ {0}
BY IdSpaceAssumption DEF N

\* What RemoveAt returns: a sequence one shorter, whose j-th element is the
\* j-th of s before position i and the (j+1)-th from i on.
LEMMA RemoveAtProperties ==
  ASSUME NEW S, NEW s \in Seq(S), NEW i \in 1..Len(s)
  PROVE  /\ RemoveAt(s, i) \in Seq(S)
         /\ Len(RemoveAt(s, i)) = Len(s) - 1
         /\ \A j \in 1..(Len(s) - 1) :
                RemoveAt(s, i)[j] = IF j < i THEN s[j] ELSE s[j + 1]
<1>. DEFINE u == SubSeq(s, 1, i - 1)
            v == SubSeq(s, i + 1, Len(s))
<1>1. /\ u \in Seq(S)
      /\ Len(u) = i - 1
      /\ \A j \in 1..(i - 1) : u[j] = s[j]
  BY SubSeqProperties
<1>2. /\ v \in Seq(S)
      /\ Len(v) = Len(s) - i
      /\ \A j \in 1..(Len(s) - i) : v[j] = s[i + j]
  BY SubSeqProperties
<1>3. /\ u \o v \in Seq(S)
      /\ Len(u \o v) = Len(u) + Len(v)
      /\ \A j \in 1..(Len(u) + Len(v)) :
            (u \o v)[j] = IF j <= Len(u) THEN u[j] ELSE v[j - Len(u)]
  BY <1>1, <1>2, ConcatProperties
<1>4. RemoveAt(s, i) = u \o v
  BY DEF RemoveAt
<1>. HIDE DEF u, v
<1>5. Len(s) \in Nat
  BY LenProperties
<1>6. Len(u) + Len(v) = Len(s) - 1
  BY <1>1, <1>2, <1>5
<1>7. ASSUME NEW j \in 1..(Len(s) - 1)
      PROVE  RemoveAt(s, i)[j] = IF j < i THEN s[j] ELSE s[j + 1]
  <2>1. j \in 1..(Len(u) + Len(v))
    BY <1>6
  <2>2. CASE j < i
    <3>1. (u \o v)[j] = u[j]
      BY <2>1, <2>2, <1>1, <1>3
    <3>. QED BY <3>1, <2>2, <1>1, <1>4
  <2>3. CASE ~(j < i)
    <3>. DEFINE m == j - (i - 1)
    <3>1. m \in 1..(Len(s) - i) /\ i + m = j + 1
      BY <2>3, <1>5
    <3>2. (u \o v)[j] = v[m]
      BY <2>1, <2>3, <1>1, <1>3
    <3>3. v[m] = s[j + 1]
      BY <3>1, <1>2
    <3>. QED BY <3>2, <3>3, <2>3, <1>4
  <2>. QED BY <2>2, <2>3
<1>8. RemoveAt(s, i) \in Seq(S)
  BY <1>3, <1>4
<1>9. Len(RemoveAt(s, i)) = Len(s) - 1
  BY <1>3, <1>4, <1>6
<1>. QED BY <1>7, <1>8, <1>9

\* Marking one record with a new status keeps a sequence of requests of the
\* same length, whose ids and tokens are unchanged.
LEMMA SetStatus ==
  ASSUME NEW s \in Seq(Request), NEW k \in 1..Len(s), NEW st \in Status
  PROVE  LET t == [s EXCEPT ![k].status = st]
         IN  /\ t \in Seq(Request)
             /\ Len(t) = Len(s)
             /\ \A j \in 1..Len(s) : /\ t[j].id = s[j].id
                                     /\ t[j].tok = s[j].tok
                                     /\ t[j].status = IF j = k THEN st
                                                            ELSE s[j].status
<1>. DEFINE e == [s[k] EXCEPT !.status = st]
<1>1. e \in Request
  <2>1. s[k] \in Request
    BY ElementOfSeq
  <2>. QED BY <2>1 DEF Request
<1>2. [s EXCEPT ![k].status = st] = [s EXCEPT ![k] = e]
  OBVIOUS
<1>3. /\ [s EXCEPT ![k] = e] \in Seq(Request)
      /\ Len([s EXCEPT ![k] = e]) = Len(s)
      /\ \A j \in 1..Len(s) : [s EXCEPT ![k] = e][j] = IF j = k THEN e ELSE s[j]
  BY <1>1, ExceptSeq
<1>. QED BY <1>2, <1>3 DEF Request

\* The id enqueueRequest hands out is an id, and no tracked record holds it.
LEMMA FirstFreeIdFree ==
  ASSUME NEW prev \in Ids, FreeOffsets(prev) # {}
  PROVE  /\ FirstFreeId(prev) \in Ids
         /\ FirstFreeId(prev) \notin UsedIds
<1>. DEFINE js == FreeOffsets(prev)
            j0 == CHOOSE j \in js : \A k \in js : j <= k
<1>1. N \in Nat \ {0}
  BY NPositive
<1>2. js \subseteq 1..(N - 1)
  BY DEF FreeOffsets
<1>3. \E j \in js : \A k \in js : j <= k
  <2>1. js \subseteq Nat /\ js # {}
    BY <1>1, <1>2
  <2>2. PICK x \in js : \A y \in js : ~(<<y, x>> \in OpToRel(<, Nat))
    BY <2>1, NatLessThanWellFounded, WFMin, Zenon
  <2>3. \A y \in js : ~(y < x)
    BY <2>1, <2>2 DEF OpToRel
  <2>. QED BY <2>1, <2>3
<1>4. j0 \in js
  BY <1>3
<1>5. FirstFreeId(prev) = (prev + j0) % N
  BY DEF FirstFreeId
<1>6. (prev + j0) % N \notin UsedIds /\ j0 \in 1..(N - 1)
  BY <1>4 DEF FreeOffsets
<1>. QED BY <1>1, <1>5, <1>6 DEF Ids
-----------------------------------------------------------------------------
(***************************************************************************)
(* Type correctness.  One lemma per piece of an action that the actions    *)
(* share (the reply counter, the yield-or-continue tail of a loop          *)
(* iteration), then one step per action.                                   *)
(***************************************************************************)
LEMMA ReplyType ==
  ASSUME TypeOK, NEW t \in Tokens, Reply(t)
  PROVE  replied' \in [Tokens -> Nat]
BY DEF TypeOK, Reply

LEMMA ContinueType ==
  ASSUME TypeOK, NEW rs \in Seq(Request), NEW c \in 0..(Len(rs) + 1),
         Continue(rs, c)
  PROVE  /\ requests' \in Seq(Request)
         /\ cursor' \in 0..(Len(requests') + 1)
         /\ posted' \in Nat
BY DEF TypeOK, Continue

\* The record under the cursor of a running pass is a request.
LEMMA CursorRecord ==
  ASSUME TypeOK, cursor \in DOMAIN requests
  PROVE  /\ cursor \in 1..Len(requests)
         /\ requests[cursor] \in Request
BY ElementOfSeq DEF TypeOK

\* Every step of the queue keeps the types of TypeOK.
LEMMA TypeInductive == TypeOK /\ [Next]_vars => TypeOK'
<1>1. TypeOK /\ [Next]_vars => TypeOK'
  <2>. SUFFICES ASSUME TypeOK, [Next]_vars PROVE TypeOK'
    OBVIOUS
  <2>. USE DEF TypeOK
  <2>1. CASE EnqueueRequest
    <3>1. requestId' \in Ids
      BY <2>1, NPositive DEF EnqueueRequest, Ids
    <3>2. requests' \in Seq(Request)
      <4>1. CASE FreeOffsets(requestId) = {}
        BY <2>1, <4>1 DEF EnqueueRequest
      <4>2. CASE FreeOffsets(requestId) # {}
        <5>0. FirstFreeId(requestId) \in Ids /\ calls \in Tokens
          <6>1. FirstFreeId(requestId) \in Ids
            BY <4>2, FirstFreeIdFree
          <6>2. calls \in Tokens
            BY <2>1 DEF EnqueueRequest, Tokens
          <6>. QED BY <6>1, <6>2
        <5>1. [id |-> FirstFreeId(requestId), tok |-> calls,
               status |-> "Pending"] \in Request
          BY <5>0 DEF Request, Status
        <5>2. requests' = Append(requests, [id |-> FirstFreeId(requestId),
                                            tok |-> calls,
                                            status |-> "Pending"])
          BY <2>1, <4>2 DEF EnqueueRequest
        <5>. QED BY <5>1, <5>2, AppendProperties
      <4>. QED BY <4>1, <4>2
    <3>3. posted' \in Nat
      BY <2>1 DEF EnqueueRequest
    <3>4. calls' \in 0..MaxCalls
      <4>1. calls' = calls + 1 /\ calls < MaxCalls
        BY <2>1 DEF EnqueueRequest
      <4>. QED BY <4>1, MaxCallsAssumption
    <3>5. UNCHANGED <<cursor, parked, replied, started>> /\ cursor = 0
      BY <2>1 DEF EnqueueRequest
    <3>. QED BY <3>1, <3>2, <3>3, <3>4, <3>5
  <2>2. CASE BeginPass
    BY <2>2 DEF BeginPass
  <2>3. CASE HandlePending
    <3>1. cursor \in 1..Len(requests) /\ requests[cursor] \in Request
      BY <2>3, CursorRecord DEF HandlePending
    <3>2. started' \in Seq(Tokens)
      BY <2>3, <3>1, AppendProperties DEF HandlePending, Request
    <3>3. CASE /\ Reply(requests[cursor].tok)
               /\ Continue(RemoveAt(requests, cursor), cursor)
               /\ UNCHANGED parked
      <4>1. /\ RemoveAt(requests, cursor) \in Seq(Request)
            /\ cursor \in 0..(Len(RemoveAt(requests, cursor)) + 1)
        BY <3>1, RemoveAtProperties
      <4>. QED BY <2>3, <3>1, <3>2, <3>3, <4>1, ReplyType, ContinueType
               DEF HandlePending, Request
    <3>4. CASE /\ parked' = parked \cup {requests[cursor].id}
               /\ Continue([requests EXCEPT ![cursor].status = "InProgress"],
                           cursor + 1)
               /\ UNCHANGED replied
      <4>1. /\ [requests EXCEPT ![cursor].status = "InProgress"] \in Seq(Request)
            /\ cursor + 1 \in
                 0..(Len([requests EXCEPT ![cursor].status = "InProgress"]) + 1)
        <5>1. "InProgress" \in Status
          BY DEF Status
        <5>2. /\ [requests EXCEPT ![cursor].status = "InProgress"] \in Seq(Request)
              /\ Len([requests EXCEPT ![cursor].status = "InProgress"]) = Len(requests)
          BY <3>1, <5>1, SetStatus
        <5>. QED BY <3>1, <5>2
      <4>2. /\ requests' \in Seq(Request)
            /\ cursor' \in 0..(Len(requests') + 1)
            /\ posted' \in Nat
        BY <3>4, <4>1, ContinueType
      <4>3. parked' \subseteq Ids
        BY <3>1, <3>4 DEF Request
      <4>. QED BY <2>3, <3>2, <3>4, <4>2, <4>3 DEF HandlePending
    <3>. QED BY <2>3, <3>3, <3>4 DEF HandlePending, HandlePendingRequest
  <2>4. CASE HandleFinished
    <3>1. cursor \in 1..Len(requests) /\ requests[cursor] \in Request
      BY <2>4, CursorRecord DEF HandleFinished
    <3>2. /\ RemoveAt(requests, cursor) \in Seq(Request)
          /\ cursor \in 0..(Len(RemoveAt(requests, cursor)) + 1)
      BY <3>1, RemoveAtProperties
    <3>. QED BY <2>4, <3>1, <3>2, ReplyType, ContinueType
             DEF HandleFinished, HandleFinishedRequest, Request
  <2>5. CASE SkipInProgress
    BY <2>5 DEF SkipInProgress
  <2>6. CASE EndPass
    BY <2>6 DEF EndPass
  <2>7. CASE AuthenticationCompleted
    <3>1. PICK i \in parked : RequestFinished(i)
      BY <2>7 DEF AuthenticationCompleted
    <3>2. parked' \subseteq Ids
      BY <3>1 DEF RequestFinished
    <3>3. CASE \E k \in DOMAIN requests : requests[k].id = i
      <4>. DEFINE k == CHOOSE k \in DOMAIN requests : requests[k].id = i
      <4>1. k \in 1..Len(requests)
        BY <3>3
      <4>2. [requests EXCEPT ![k].status = "Finished"] \in Seq(Request)
        BY <4>1, SetStatus DEF Status
      <4>3. /\ requests' = [requests EXCEPT ![k].status = "Finished"]
            /\ posted' = posted + 1
        BY <3>1, <3>3 DEF RequestFinished
      <4>. QED BY <3>1, <3>2, <4>2, <4>3 DEF RequestFinished
    <3>4. CASE ~\E k \in DOMAIN requests : requests[k].id = i
      BY <3>1, <3>2, <3>4 DEF RequestFinished
    <3>. QED BY <3>3, <3>4
  <2>8. CASE UNCHANGED vars
    BY <2>8 DEF vars
  <2>. QED BY <2>1, <2>2, <2>3, <2>4, <2>5, <2>6, <2>7, <2>8 DEF Next
<1>. QED BY <1>1

(***************************************************************************)
(* Every reachable state has the types TypeOK gives: in particular the     *)
(* id counter stays in 0..2^W-1 across its wrap-around and every record in *)
(* m_requests carries an id of that range.                                 *)
(***************************************************************************)
THEOREM TypeCorrect == Spec => []TypeOK
<1>1. Init => TypeOK
  BY NPositive, MaxCallsAssumption, EmptySeq DEF Init, TypeOK, Ids, Tokens
<1>2. TypeOK /\ [Next]_vars => TypeOK'
  BY TypeInductive
<1>. QED BY <1>1, <1>2, PTL DEF Spec
-----------------------------------------------------------------------------
(***************************************************************************)
(* Unique ids.  UniqueIds is inductive together with TypeOK: enqueueRequest *)
(* appends an id its search found unused, and the other steps only erase a  *)
(* record or change a status, which keeps distinct ids distinct.            *)
(***************************************************************************)
IdsDistinct(s) == \A j, k \in DOMAIN s : j # k => s[j].id # s[k].id

LEMMA RemoveAtDistinct ==
  ASSUME NEW s \in Seq(Request), NEW i \in 1..Len(s), IdsDistinct(s)
  PROVE  IdsDistinct(RemoveAt(s, i))
<1>1. /\ RemoveAt(s, i) \in Seq(Request)
      /\ Len(RemoveAt(s, i)) = Len(s) - 1
      /\ \A j \in 1..(Len(s) - 1) :
            RemoveAt(s, i)[j] = IF j < i THEN s[j] ELSE s[j + 1]
  BY RemoveAtProperties
<1>2. DOMAIN RemoveAt(s, i) = 1..(Len(s) - 1)
  BY <1>1
<1>. DEFINE f(j) == IF j < i THEN j ELSE j + 1
<1>3. ASSUME NEW j \in 1..(Len(s) - 1), NEW k \in 1..(Len(s) - 1), j # k
      PROVE  f(j) \in DOMAIN s /\ f(k) \in DOMAIN s /\ f(j) # f(k)
  BY <1>3
<1>4. \A j \in 1..(Len(s) - 1) : RemoveAt(s, i)[j] = s[f(j)]
  BY <1>1
<1>. HIDE DEF f
<1>. QED BY <1>2, <1>3, <1>4 DEF IdsDistinct

LEMMA SetStatusDistinct ==
  ASSUME NEW s \in Seq(Request), NEW k \in 1..Len(s), NEW st \in Status,
         IdsDistinct(s)
  PROVE  IdsDistinct([s EXCEPT ![k].status = st])
<1>1. LET t == [s EXCEPT ![k].status = st]
      IN  /\ t \in Seq(Request)
          /\ Len(t) = Len(s)
          /\ \A j \in 1..Len(s) : t[j].id = s[j].id
  BY SetStatus
<1>. QED BY <1>1 DEF IdsDistinct

LEMMA AppendDistinct ==
  ASSUME NEW s \in Seq(Request), NEW r \in Request, IdsDistinct(s),
         \A k \in DOMAIN s : s[k].id # r.id
  PROVE  IdsDistinct(Append(s, r))
BY AppendProperties DEF IdsDistinct

IInv == TypeOK /\ UniqueIds

(***************************************************************************)
(* No two records in m_requests share an id, whatever the width of the     *)
(* counter and however often it wraps: the free-id search of               *)
(* enqueueRequest skips every id still tracked, including ids of requests  *)
(* parked for authentication across a wrap.                                *)
(***************************************************************************)
THEOREM IdsUnique == Spec => []UniqueIds
<1>1. Init => IInv
  BY TypeCorrect, NPositive, MaxCallsAssumption, EmptySeq
     DEF Init, IInv, TypeOK, UniqueIds, Ids, Tokens
<1>2. IInv /\ [Next]_vars => IInv'
  <2>. SUFFICES ASSUME TypeOK, UniqueIds, [Next]_vars
                PROVE  UniqueIds'
    BY TypeInductive DEF IInv
  <2>0. IdsDistinct(requests)
    BY DEF UniqueIds, IdsDistinct
  <2>. SUFFICES IdsDistinct(requests')
    BY DEF UniqueIds, IdsDistinct
  <2>1. CASE EnqueueRequest
    <3>1. CASE FreeOffsets(requestId) = {}
      BY <2>0, <2>1, <3>1 DEF EnqueueRequest
    <3>2. CASE FreeOffsets(requestId) # {}
      <4>. DEFINE r == [id |-> FirstFreeId(requestId), tok |-> calls,
                        status |-> "Pending"]
      <4>1. FirstFreeId(requestId) \in Ids /\ FirstFreeId(requestId) \notin UsedIds
        BY <3>2, FirstFreeIdFree DEF TypeOK
      <4>2. r \in Request /\ \A k \in DOMAIN requests : requests[k].id # r.id
        <5>1. calls \in Tokens
          BY <2>1 DEF EnqueueRequest, TypeOK, Tokens
        <5>. QED BY <4>1, <5>1 DEF Request, Status, UsedIds
      <4>3. requests' = Append(requests, r)
        BY <2>1, <3>2 DEF EnqueueRequest
      <4>. QED BY <2>0, <4>2, <4>3, AppendDistinct DEF TypeOK
    <3>. QED BY <3>1, <3>2
  <2>2. CASE HandlePending
    <3>1. cursor \in 1..Len(requests) /\ requests \in Seq(Request)
      BY <2>2, CursorRecord DEF HandlePending, TypeOK
    <3>2. \/ requests' = RemoveAt(requests, cursor)
          \/ requests' = [requests EXCEPT ![cursor].status = "InProgress"]
      BY <2>2 DEF HandlePending, HandlePendingRequest, Continue
    <3>. QED BY <2>0, <3>1, <3>2, RemoveAtDistinct, SetStatusDistinct DEF Status
  <2>3. CASE HandleFinished
    <3>1. cursor \in 1..Len(requests) /\ requests \in Seq(Request)
      BY <2>3, CursorRecord DEF HandleFinished, TypeOK
    <3>2. requests' = RemoveAt(requests, cursor)
      BY <2>3 DEF HandleFinished, HandleFinishedRequest, Continue
    <3>. QED BY <2>0, <3>1, <3>2, RemoveAtDistinct
  <2>4. CASE AuthenticationCompleted
    <3>1. PICK i \in parked : RequestFinished(i)
      BY <2>4 DEF AuthenticationCompleted
    <3>2. CASE \E k \in DOMAIN requests : requests[k].id = i
      <4>. DEFINE k == CHOOSE k \in DOMAIN requests : requests[k].id = i
      <4>1. k \in 1..Len(requests) /\ requests \in Seq(Request)
        BY <3>2 DEF TypeOK
      <4>2. requests' = [requests EXCEPT ![k].status = "Finished"]
        BY <3>1, <3>2 DEF RequestFinished
      <4>. QED BY <2>0, <4>1, <4>2, SetStatusDistinct DEF Status
    <3>3. CASE ~\E k \in DOMAIN requests : requests[k].id = i
      BY <2>0, <3>1, <3>3 DEF RequestFinished
    <3>. QED BY <3>2, <3>3
  <2>5. CASE BeginPass \/ SkipInProgress \/ EndPass \/ UNCHANGED vars
    BY <2>0, <2>5 DEF BeginPass, SkipInProgress, EndPass, vars
  <2>. QED BY <2>1, <2>2, <2>3, <2>4, <2>5 DEF Next
<1>3. IInv => UniqueIds
  BY DEF IInv
<1>. QED BY <1>1, <1>2, <1>3, TypeCorrect, PTL DEF Spec
=============================================================================
