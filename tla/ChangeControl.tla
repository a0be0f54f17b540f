--------------------------- MODULE ChangeControl ---------------------------
(***************************************************************************)
(* Change requests and their one- or two-person approval                   *)
(* (ChangeControlService).  decide_request reads the row on a connection   *)
(* it closes again and writes the decision in a transaction of its own, by *)
(* request_id alone: the read and the write are two actions.               *)
(***************************************************************************)
EXTENDS Naturals, FiniteSets

CONSTANTS
    Requests,     \* idempotency keys, one row each (the column is UNIQUE)
    Uncontended,  \* the requests that are decided by one user at a time
    Users,        \* administrators
    Deciders,     \* server threads that serve decide_request
    None

ASSUME ChangeControlAssumption ==
    /\ Uncontended \subseteq Requests
    /\ None \notin Requests \cup Users

VARIABLES
    change_requests,  \* table change_requests
    deciders,         \* decide_request handlers in flight
    approvals         \* <<request, user>>: approvals that were written (history)

vars == <<change_requests, deciders, approvals>>

Statuses == {"none", "PENDING", "PARTIALLY_APPROVED", "APPROVED", "REJECTED"}
PENDING_STATUSES == {"PENDING", "PARTIALLY_APPROVED"}

NoRow == [status |-> "none", approvals_required |-> 1, requested_by |-> None,
          first |-> None, second |-> None]
IdleDecider == [pc |-> "idle", request |-> None, actor |-> None, record |-> NoRow]

Init ==
    /\ change_requests = [r \in Requests |-> NoRow]
    /\ deciders = [d \in Deciders |-> IdleDecider]
    /\ approvals = {}

\* create_request: a replay and a key conflict write nothing.  HIGH and
\* CRITICAL risk and two_person_rule make two approvals required.
CreateRequest(r, u, two) ==
    /\ change_requests[r].status = "none"
    /\ change_requests' = [change_requests EXCEPT ![r] =
          [NoRow EXCEPT !.status = "PENDING", !.requested_by = u,
                        !.approvals_required = IF two THEN 2 ELSE 1]]
    /\ UNCHANGED <<deciders, approvals>>

DecidesAgain(row, u) == row.status # "none" /\ u # row.requested_by

MayReject(row, u) == row.status \in PENDING_STATUSES /\ u # row.requested_by
ApprovesTwice(row, u) == MayReject(row, u) /\ row.second = None
MayApprove(row, u) == MayReject(row, u) /\ u # row.first /\ row.second = None

\* The SELECT, and the checks made on the row it returned.
DecideRead(d, r, u) ==
    /\ deciders[d].pc = "idle"
    /\ r \in Uncontended => \A e \in Deciders : deciders[e].request # r
    /\ \E pc \in {"reject", "approve"} :
         /\ IF pc = "reject" THEN MayReject(change_requests[r], u)
                             ELSE MayApprove(change_requests[r], u)
         /\ deciders' = [deciders EXCEPT ![d] =
               [pc |-> pc, request |-> r, actor |-> u, record |-> change_requests[r]]]
    /\ UNCHANGED <<change_requests, approvals>>

WriteReject(d) ==
    /\ deciders[d].pc = "reject"
    /\ change_requests' = [change_requests EXCEPT
                             ![deciders[d].request].status = "REJECTED"]
    /\ deciders' = [deciders EXCEPT ![d] = IdleDecider]
    /\ UNCHANGED approvals

\* The status and both approvers are written from the row that was read.
Approved(record, u) ==
    IF record.approvals_required = 2 /\ record.first = None
    THEN [status |-> "PARTIALLY_APPROVED", first |-> u, second |-> None]
    ELSE IF record.approvals_required = 2
    THEN [status |-> "APPROVED", first |-> record.first, second |-> u]
    ELSE [status |-> "APPROVED", first |-> u, second |-> record.second]

WriteApprove(d) ==
    LET e == deciders[d]
        new == Approved(e.record, e.actor)
    IN  /\ e.pc = "approve"
        /\ change_requests' = [change_requests EXCEPT
              ![e.request].status = new.status,
              ![e.request].first = new.first,
              ![e.request].second = new.second]
        /\ approvals' = approvals \cup {<<e.request, e.actor>>}
        /\ deciders' = [deciders EXCEPT ![d] = IdleDecider]

\* The handler dies between its two transactions.
DeciderDies(d) ==
    /\ deciders[d].pc # "idle"
    /\ deciders' = [deciders EXCEPT ![d] = IdleDecider]
    /\ UNCHANGED <<change_requests, approvals>>

Next ==
    \/ \E r \in Requests, u \in Users, two \in BOOLEAN : CreateRequest(r, u, two)
    \/ \E d \in Deciders, r \in Requests, u \in Users : DecideRead(d, r, u)
    \/ \E d \in Deciders : WriteReject(d) \/ WriteApprove(d) \/ DeciderDies(d)

Spec == Init /\ [][Next]_vars

----------------------------------------------------------------------------
Row == [status : Statuses, approvals_required : 1..2,
        requested_by : Users \cup {None}, first : Users \cup {None},
        second : Users \cup {None}]

TypeOK ==
    /\ change_requests \in [Requests -> Row]
    /\ deciders \in [Deciders ->
          [pc : {"idle", "reject", "approve"}, request : Requests \cup {None},
           actor : Users \cup {None}, record : Row]]
    /\ approvals \subseteq Requests \X Users

Approvers(row) == {row.first, row.second} \ {None}

(* Two-person rule: an APPROVED request names as many distinct approvers   *)
(* as it required, none of them its requester, and each of them did        *)
(* approve it, whatever decisions ran at the same time from stale rows.    *)
ApprovedByEnough ==
    \A r \in Requests :
        LET row == change_requests[r] IN
        row.status = "APPROVED" =>
            /\ Cardinality(Approvers(row)) = row.approvals_required
            /\ row.requested_by \notin Approvers(row)
            /\ \A u \in Approvers(row) : <<r, u>> \in approvals

StageOf(status) ==
    CASE status = "none"             -> "none"
      [] status \in PENDING_STATUSES -> "pending"
      [] status = "APPROVED"         -> "approved"
      [] status = "REJECTED"         -> "rejected"

Workflow == INSTANCE Approval WITH
    Items     <- Uncontended,
    stage     <- [r \in Uncontended |-> StageOf(change_requests[r].status)],
    needed    <- [r \in Uncontended |-> IF change_requests[r].status = "none" THEN 0
                                     ELSE change_requests[r].approvals_required],
    opener    <- [r \in Uncontended |-> {change_requests[r].requested_by} \ {None}],
    approvers <- [r \in Uncontended |-> Approvers(change_requests[r])]

(* A request that is decided by one user at a time follows the approval    *)
(* workflow: once it is decided decide_request never changes it again      *)
(* (409 "Change request is not pending decision"), even when other         *)
(* decisions overlap and handlers die between their two transactions.      *)
ImplementsApproval == Workflow!Spec

=============================================================================
