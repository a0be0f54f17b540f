--------------------------- MODULE UnblockRequests ---------------------------
(***************************************************************************)
(* Requests to unblock a device and their review                           *)
(* (create_device_unblock_request and approve_device_unblock_request).     *)
(* The status is read in autocommit mode and the row written in a          *)
(* transaction of its own; an approval then issues a token and enqueues    *)
(* two commands in three more.  What becomes of the token is AllowTokens.  *)
(***************************************************************************)
EXTENDS Naturals, FiniteSets

CONSTANTS
    UnblockIds,  \* ids of requests
    Undisputed,  \* the requests that are reviewed by one administrator at a time
    Reviewers,   \* server threads that serve the review
    NoRequest

ASSUME ReviewAssumption == IsFiniteSet(Reviewers)

VARIABLES
    unblock_requests,  \* status column of table device_unblock_requests
    reviewers,         \* reviews in flight
    issued,            \* allow tokens issued for each request
    sent               \* DEVICE_UNBLOCK commands enqueued for each request

reviewVars == <<unblock_requests, reviewers, issued, sent>>

NoReview == [pc |-> "idle", request |-> NoRequest, approved |-> FALSE]

ReviewInit ==
    /\ unblock_requests = [q \in UnblockIds |-> "none"]
    /\ reviewers = [v \in Reviewers |-> NoReview]
    /\ issued = [q \in UnblockIds |-> 0]
    /\ sent = [q \in UnblockIds |-> 0]

UnderReview(q) == \E v \in Reviewers : reviewers[v].request = q

CreateUnblockRequest(q) ==
    /\ unblock_requests[q] = "none"
    /\ unblock_requests' = [unblock_requests EXCEPT ![q] = "PENDING"]
    /\ UNCHANGED <<reviewers, issued, sent>>

ReviewableAgain(status) == status \in {"PENDING", "APPROVED"}

\* "Unblock request already resolved".
Reviewable(status) == status = "PENDING"

ReviewRead(v, q, approved) ==
    /\ reviewers[v].pc = "idle"
    /\ q \in Undisputed => ~UnderReview(q)
    /\ Reviewable(unblock_requests[q])
    /\ reviewers' = [reviewers EXCEPT ![v] =
          [pc |-> "write", request |-> q, approved |-> approved]]
    /\ UNCHANGED <<unblock_requests, issued, sent>>

\* UPDATE ... WHERE id = ?, whatever the status is by now.
ReviewWrite(v) ==
    LET e == reviewers[v] IN
    /\ e.pc = "write"
    /\ unblock_requests' = [unblock_requests EXCEPT ![e.request] =
          IF e.approved THEN "APPROVED" ELSE "DENIED"]
    /\ reviewers' = [reviewers EXCEPT ![v] =
          IF e.approved THEN [e EXCEPT !.pc = "issue"] ELSE NoReview]
    /\ UNCHANGED <<issued, sent>>

ReviewIssue(v) ==
    /\ reviewers[v].pc = "issue"
    /\ issued' = [issued EXCEPT ![reviewers[v].request] = @ + 1]
    /\ reviewers' = [reviewers EXCEPT ![v].pc = "enqueue"]
    /\ UNCHANGED <<unblock_requests, sent>>

\* enqueue, for DEVICE_APPLY_POLICY_HASH and then for DEVICE_UNBLOCK.
ReviewEnqueue(v) ==
    LET e == reviewers[v] IN
    /\ e.pc \in {"enqueue", "enqueue_unblock"}
    /\ IF e.pc = "enqueue"
       THEN /\ reviewers' = [reviewers EXCEPT ![v].pc = "enqueue_unblock"]
            /\ UNCHANGED sent
       ELSE /\ sent' = [sent EXCEPT ![e.request] = @ + 1]
            /\ reviewers' = [reviewers EXCEPT ![v] = NoReview]
    /\ UNCHANGED <<unblock_requests, issued>>

ReviewerDies(v) ==
    /\ reviewers[v].pc # "idle"
    /\ reviewers' = [reviewers EXCEPT ![v] = NoReview]
    /\ UNCHANGED <<unblock_requests, issued, sent>>

ReviewNext ==
    \/ \E q \in UnblockIds : CreateUnblockRequest(q)
    \/ \E v \in Reviewers, q \in UnblockIds, approved \in BOOLEAN : ReviewRead(v, q, approved)
    \/ \E v \in Reviewers :
          ReviewWrite(v) \/ ReviewIssue(v) \/ ReviewEnqueue(v) \/ ReviewerDies(v)

ReviewSpec == ReviewInit /\ [][ReviewNext]_reviewVars

----------------------------------------------------------------------------
(* A request that is reviewed by one administrator at a time unblocks at   *)
(* most once, and only when it is shown APPROVED, even when a review dies  *)
(* between its transactions and the request is looked at again; a command  *)
(* is never sent without a token of its own, for any request.              *)
UnblocksOnce ==
    \A q \in UnblockIds :
        /\ sent[q] <= issued[q]
        /\ q \in Undisputed =>
              /\ issued[q] <= 1
              /\ issued[q] = 1 => unblock_requests[q] = "APPROVED"

=============================================================================
