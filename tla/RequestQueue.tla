---------------------------- MODULE RequestQueue ----------------------------
(***************************************************************************)
(* The daemon's request queue (src/daemon/requestqueue.cpp) together with  *)
(* the reply logic of SecretsRequestQueue::handlePendingRequest and        *)
(* ::handleFinishedRequest (src/daemon/SecretsImpl/secrets.cpp).           *)
(*                                                                         *)
(* Everything runs on one Qt event loop.  A DBus slot enqueues a request   *)
(* and posts a queued handleRequests() call; a handleRequests() pass walks *)
(* m_requests front to back and, while it runs, nothing else runs.  The    *)
(* request processor is abstracted to its outcome: it either answers at    *)
(* once or returns Pending after starting an authentication flow, whose    *)
(* completion later calls requestFinished(id).                             *)
(***************************************************************************)
EXTENDS Naturals, Sequences, SequencesExt

CONSTANTS
    W,          \* width of the static request-id counter (quint64: 64)
    MaxCalls    \* bound on the number of enqueue calls explored

ASSUME WAssumption == W \in Nat \ {0}
ASSUME MaxCallsAssumption == MaxCalls \in Nat

\* The id space 2^W is a positive natural (the provers treat ^ as opaque).
ASSUME IdSpaceAssumption == 2^W \in Nat \ {0}

\* Request ids wrap modulo 2^W.
N == 2^W
Ids == 0..(N - 1)

\* A request token is a ghost name for one accepted request: ids are reused,
\* tokens are not.
Tokens == 0..MaxCalls

Status == {"Pending", "InProgress", "Finished"}

Request == [id : Ids, tok : Tokens, status : Status]

VARIABLES
    requests,   \* m_requests, in list order
    requestId,  \* the function-static counter of enqueueRequest
    posted,     \* queued, not yet run, handleRequests() invocations
    cursor,     \* 0 when no pass runs, else the iterator's 1-based position
    parked,     \* ids the processor holds a pending authentication for
    replied,    \* ghost: number of replies sent for each token
    calls,      \* ghost: enqueue calls so far (bounded by MaxCalls)
    started     \* ghost: tokens in the order their handling started

vars == <<requests, requestId, posted, cursor, parked, replied, calls, started>>

UsedIds == {requests[k].id : k \in DOMAIN requests}

\* The candidates enqueueRequest tries from prevId: prevId+1, prevId+2, ...
\* up to (but excluding) prevId again, wrapping modulo 2^W.
FreeOffsets(prev) == {j \in 1..(N - 1) : (prev + j) % N \notin UsedIds}

\* An allocation that takes the next counter value without the search.
FirstFreeIdNoSearch(prev) == (prev + 1) % N

FirstFreeId(prev) ==
    LET js == FreeOffsets(prev)
    IN  (prev + (CHOOSE j \in js : \A k \in js : j <= k)) % N

\* The queue's variables have their types, and the iterator of a running
\* handleRequests() pass points at a record of m_requests or at end():
\* erase() hands back the iterator to the next record, so the loop never
\* steps past the end of the list.
TypeOK ==
    /\ requests \in Seq(Request)
    /\ requestId \in Ids
    /\ posted \in Nat
    /\ cursor \in 0..(Len(requests) + 1)
    /\ parked \subseteq Ids
    /\ replied \in [Tokens -> Nat]
    /\ calls \in 0..MaxCalls
    /\ started \in Seq(Tokens)

Init ==
    /\ requests = <<>>
    /\ requestId = 0
    /\ posted = 0
    /\ cursor = 0
    /\ parked = {}
    /\ replied = [t \in Tokens |-> 0]
    /\ calls = 0
    /\ started = <<>>

(***************************************************************************)
(* handleRequest + enqueueRequest: a DBus slot (or the crypto shim) hands  *)
(* a new request to the queue.  The counter is always advanced; the search *)
(* for a free id starts after the old value and gives up when it wraps     *)
(* back to it, answering SecretsDaemonRequestQueueFullError synchronously. *)
(***************************************************************************)
\* An enqueue that puts the new request at the front of m_requests.
EnqueueRequestPrepend ==
    /\ cursor = 0
    /\ calls < MaxCalls
    /\ calls' = calls + 1
    /\ requestId' = (requestId + 1) % N
    /\ IF FreeOffsets(requestId) = {}
         THEN /\ UNCHANGED <<requests, posted>>
         ELSE /\ requests' = <<[id |-> FirstFreeId(requestId), tok |-> calls,
                                status |-> "Pending"]>> \o requests
              /\ posted' = posted + 1
    /\ UNCHANGED <<cursor, parked, replied, started>>

EnqueueRequest ==
    /\ cursor = 0
    /\ calls < MaxCalls
    /\ calls' = calls + 1
    /\ requestId' = (requestId + 1) % N
    /\ IF FreeOffsets(requestId) = {}
         THEN /\ UNCHANGED <<requests, posted>>
         ELSE /\ requests' = Append(requests,
                    [id |-> FirstFreeId(requestId), tok |-> calls,
                     status |-> "Pending"])
              /\ posted' = posted + 1
    /\ UNCHANGED <<cursor, parked, replied, started>>

\* An event-loop turn runs one posted handleRequests() invocation.
BeginPass ==
    /\ cursor = 0
    /\ posted > 0
    /\ posted' = posted - 1
    /\ cursor' = 1
    /\ UNCHANGED <<requests, requestId, parked, replied, calls, started>>

Reply(t) == replied' = [replied EXCEPT ![t] = @ + 1]

(***************************************************************************)
(* One iteration of the handleRequests() loop on the record at cursor.     *)
(* A Pending record is marked InProgress and handed to the processor,      *)
(* which either answers at once (completed: reply and erase) or returns    *)
(* Pending (the record stays, its id is parked).  A Finished record gets   *)
(* its reply and is erased.  An InProgress record is skipped.  After each  *)
(* record the pass may yield when more than 100 ms have elapsed: it posts  *)
(* another handleRequests() and stops.  Elapsed time is not modelled: the  *)
(* yield is a nondeterministic choice after a record that was handed to    *)
(* the processor or answered; skipping an InProgress record costs no time  *)
(* worth counting, so a pass of skips never yields.                        *)
(***************************************************************************)
Continue(rs, c) ==
    /\ requests' = rs
    /\ \/ /\ cursor' = c
          /\ UNCHANGED posted
       \/ /\ rs # <<>>
          /\ cursor' = 0
          /\ posted' = posted + 1

\* A processor that returns Pending without recording the pending request.
HandlePendingRequestNoPark(k) ==
    \/ /\ Reply(requests[k].tok)
       /\ Continue(RemoveAt(requests, k), k)
       /\ UNCHANGED parked
    \/ /\ Continue([requests EXCEPT ![k].status = "InProgress"], k + 1)
       /\ UNCHANGED <<parked, replied>>

(***************************************************************************)
(* SecretsRequestQueue::handlePendingRequest: the processor call for the   *)
(* request's type either returns Pending (completed = false; the request   *)
(* processor now holds a pending authentication under the request's id)   *)
(* or returns a result, which is sent as the DBus reply (or handed to the  *)
(* crypto shim) with completed = true, and handleRequests erases it.       *)
(***************************************************************************)
HandlePendingRequest(k) ==
    \/ /\ Reply(requests[k].tok)
       /\ Continue(RemoveAt(requests, k), k)
       /\ UNCHANGED parked
    \/ /\ parked' = parked \cup {requests[k].id}
       /\ Continue([requests EXCEPT ![k].status = "InProgress"], k + 1)
       /\ UNCHANGED replied

HandlePending ==
    /\ cursor \in DOMAIN requests
    /\ requests[cursor].status = "Pending"
    /\ started' = Append(started, requests[cursor].tok)
    /\ HandlePendingRequest(cursor)
    /\ UNCHANGED <<requestId, calls>>

\* An erase that also advances the iterator (erase(it); it++), skipping
\* the record after the erased one.
HandleFinishedRequestEraseAdvance(k) ==
    /\ Reply(requests[k].tok)
    /\ Continue(RemoveAt(requests, k), k + 1)

\* The default branch, completed = false: the record is kept.
HandleFinishedRequestKeep(k) ==
    /\ Reply(requests[k].tok)
    /\ Continue(requests, k + 1)

(***************************************************************************)
(* SecretsRequestQueue::handleFinishedRequest: the stored result is sent   *)
(* (a stored Pending is only logged) and completed = true for every        *)
(* request type the router enqueues, so handleRequests erases the record.  *)
(***************************************************************************)
HandleFinishedRequest(k) ==
    /\ Reply(requests[k].tok)
    /\ Continue(RemoveAt(requests, k), k)

HandleFinished ==
    /\ cursor \in DOMAIN requests
    /\ requests[cursor].status = "Finished"
    /\ HandleFinishedRequest(cursor)
    /\ UNCHANGED <<requestId, parked, calls, started>>

SkipInProgress ==
    /\ cursor \in DOMAIN requests
    /\ requests[cursor].status = "InProgress"
    /\ cursor' = cursor + 1
    /\ UNCHANGED <<requests, posted>>
    /\ UNCHANGED <<requestId, parked, replied, calls, started>>

\* The iterator reached the end of the list: the pass returns.
EndPass ==
    /\ cursor # 0
    /\ cursor \notin DOMAIN requests
    /\ cursor' = 0
    /\ UNCHANGED <<requests, requestId, posted, parked, replied, calls, started>>

(***************************************************************************)
(* The authentication flow of a parked request completes.  The processor's *)
(* authenticationCompleted slot calls requestFinished(id), which marks the *)
(* record with that id Finished and posts handleRequests(); an unknown id  *)
(* is only logged.                                                         *)
(***************************************************************************)
\* A requestFinished that does not post handleRequests().
RequestFinishedNoWake(i) ==
    /\ cursor = 0
    /\ parked' = parked \ {i}
    /\ IF \E k \in DOMAIN requests : requests[k].id = i
         THEN LET k == CHOOSE k \in DOMAIN requests : requests[k].id = i
              IN  requests' = [requests EXCEPT ![k].status = "Finished"]
         ELSE UNCHANGED requests
    /\ UNCHANGED <<requestId, posted, cursor, replied, calls, started>>

RequestFinished(i) ==
    /\ cursor = 0
    /\ parked' = parked \ {i}
    /\ IF \E k \in DOMAIN requests : requests[k].id = i
         THEN LET k == CHOOSE k \in DOMAIN requests : requests[k].id = i
              IN  /\ requests' = [requests EXCEPT ![k].status = "Finished"]
                  /\ posted' = posted + 1
         ELSE UNCHANGED <<requests, posted>>
    /\ UNCHANGED <<requestId, cursor, replied, calls, started>>

AuthenticationCompleted ==
    \E i \in parked : RequestFinished(i)

Next ==
    \/ EnqueueRequest
    \/ BeginPass
    \/ HandlePending
    \/ HandleFinished
    \/ SkipInProgress
    \/ EndPass
    \/ AuthenticationCompleted

(***************************************************************************)
(* Fairness: the event loop runs every posted invocation and a running     *)
(* pass is never abandoned (weak fairness of the loop's steps); an         *)
(* authentication flow that was started eventually reports back, success  *)
(* or failure (weak fairness of AuthenticationCompleted).  Client calls    *)
(* carry no fairness.                                                      *)
(***************************************************************************)
Fairness ==
    /\ WF_vars(BeginPass)
    /\ WF_vars(HandlePending)
    /\ WF_vars(HandleFinished)
    /\ WF_vars(SkipInProgress)
    /\ WF_vars(EndPass)
    /\ WF_vars(AuthenticationCompleted)

Spec == Init /\ [][Next]_vars /\ Fairness
-----------------------------------------------------------------------------
\* Tokens of the requests currently tracked in m_requests.
Queued == {requests[k].tok : k \in DOMAIN requests}

(***************************************************************************)
(* Request ids are unique among tracked requests: the free-id search of    *)
(* enqueueRequest never hands out an id a tracked request still holds,     *)
(* even after the counter wraps and old requests are still parked.         *)
(* requestFinished looks a request up by id, so a duplicate would finish   *)
(* the wrong one.                                                          *)
(***************************************************************************)
UniqueIds ==
    \A j, k \in DOMAIN requests : j # k => requests[j].id # requests[k].id

(***************************************************************************)
(* The records left InProgress by handleRequests are exactly those whose   *)
(* authentication is outstanding: every parked id names an InProgress     *)
(* record, and every InProgress record is parked.  So a completion always  *)
(* finds its record, and no record is stuck InProgress with nobody left to *)
(* finish it.                                                              *)
(***************************************************************************)
InProgressIffParked ==
    parked = {requests[k].id : k \in {j \in DOMAIN requests :
                                         requests[j].status = "InProgress"}}

(***************************************************************************)
(* Every accepted request is answered at most once, and never while its    *)
(* record is still in m_requests: both the immediate path of               *)
(* handlePendingRequest and the delayed path of handleFinishedRequest erase *)
(* the record when they reply.                                             *)
(***************************************************************************)
AtMostOneReply ==
    \A t \in Tokens :
        /\ replied[t] <= 1
        /\ t \in Queued => replied[t] = 0

(***************************************************************************)
(* Requests are dispatched to the processor strictly in enqueue order,     *)
(* across passes that yield and restart from the front of the list.        *)
(***************************************************************************)
DispatchInOrder ==
    \A a, b \in DOMAIN started : a < b => started[a] < started[b]

(***************************************************************************)
(* Every request the queue accepted is eventually answered, through        *)
(* handlePendingRequest at once or through requestFinished and             *)
(* handleFinishedRequest after its authentication flow reports back.       *)
(***************************************************************************)
EveryRequestAnswered ==
    \A t \in Tokens : (t \in Queued) ~> (replied[t] = 1)
=============================================================================
