------------------------ MODULE ChangeControlProofs ------------------------
(* The two-person rule of change control, the backups of applied patches   *)
(* and the alerts of silent agents, for every number of requests, patches, *)
(* agents, administrators and overlapping decisions.                       *)
EXTENDS ChangeControl, PatchUpdates, FleetMonitor, FeatureFlags, FiniteSetTheorems, TLAPS

USE ChangeControlAssumption

DeciderType == [pc : {"idle", "reject", "approve"}, request : Requests \cup {None},
                actor : Users \cup {None}, record : Row]

(* A busy handler serves a request that exists.                             *)
DecidersTyped == \A d \in Deciders : deciders[d].pc # "idle" =>
    deciders[d].request \in Requests /\ deciders[d].actor \in Users

Typed == TypeOK /\ DecidersTyped

----------------------------------------------------------------------------
(* The rows a decision can leave behind.  No handler writes an approver who *)
(* asked for the request or did not approve it, and a row that is still     *)
(* pending has as many approvers as its status says.                        *)
RowInv(r, row, A) ==
    /\ row.status = "PENDING" => row.first = None
    /\ row.status = "PARTIALLY_APPROVED" => row.approvals_required = 2 /\ row.first # None
    /\ row.status \in PENDING_STATUSES => row.second = None
    /\ row.status = "APPROVED" =>
          /\ row.first # None
          /\ row.approvals_required = 1 => row.second = None
          /\ row.approvals_required = 2 => row.second # None /\ row.second # row.first
    /\ \A u \in {row.first, row.second} \ {None} :
          u # row.requested_by /\ <<r, u>> \in A

RowsInv == \A r \in Requests : RowInv(r, change_requests[r], approvals)

(* A handler decides from a row that was pending when it was read; only its *)
(* status and approvers can have changed since.                             *)
DecisionInv(e, row, A) ==
    /\ RowInv(e.request, e.record, A)
    /\ e.record.status \in PENDING_STATUSES
    /\ e.actor # e.record.requested_by
    /\ e.pc = "approve" => e.actor # e.record.first
    /\ row.status # "none"
    /\ row.requested_by = e.record.requested_by
    /\ row.approvals_required = e.record.approvals_required

DecisionsInv == \A d \in Deciders : deciders[d].pc # "idle" =>
    DecisionInv(deciders[d], change_requests[deciders[d].request], approvals)

ApprovalInv == Typed /\ RowsInv /\ DecisionsInv

----------------------------------------------------------------------------
LEMMA IdleDeciderType == NoRow \in Row /\ IdleDecider \in DeciderType
BY DEF NoRow, IdleDecider, Row, DeciderType, Statuses

LEMMA ApprovedType ==
    ASSUME NEW record \in Row, NEW u \in Users
    PROVE  /\ Approved(record, u).status \in Statuses
           /\ Approved(record, u).first \in Users \cup {None}
           /\ Approved(record, u).second \in Users \cup {None}
BY DEF Approved, Row, Statuses

LEMMA TypedNext == Typed /\ [Next]_vars => Typed'
<1> SUFFICES ASSUME Typed, [Next]_vars PROVE Typed'
  OBVIOUS
<1>0. /\ change_requests \in [Requests -> Row]
      /\ deciders \in [Deciders -> DeciderType]
      /\ approvals \subseteq Requests \X Users
  BY DEF Typed, TypeOK, DeciderType
<1>1. CASE UNCHANGED vars
  BY <1>1 DEF vars, Typed, TypeOK, DecidersTyped
<1>2. ASSUME NEW r \in Requests, NEW u \in Users, NEW two \in BOOLEAN, CreateRequest(r, u, two)
      PROVE  Typed'
  <2>1. [NoRow EXCEPT !.status = "PENDING", !.requested_by = u,
                      !.approvals_required = IF two THEN 2 ELSE 1] \in Row
    <3>1. (IF two THEN 2 ELSE 1) \in 1..2
      OBVIOUS
    <3>. QED BY <3>1 DEF NoRow, Row, Statuses
  <2>. QED BY <1>0, <1>2, <2>1 DEF CreateRequest, Typed, TypeOK, DecidersTyped
<1>3. ASSUME NEW d \in Deciders, NEW r \in Requests, NEW u \in Users, DecideRead(d, r, u)
      PROVE  Typed'
  <2>1. PICK pc \in {"reject", "approve"} : deciders' = [deciders EXCEPT ![d] =
           [pc |-> pc, request |-> r, actor |-> u, record |-> change_requests[r]]]
    BY <1>3 DEF DecideRead
  <2>2. [pc |-> pc, request |-> r, actor |-> u, record |-> change_requests[r]] \in DeciderType
    BY <1>0 DEF DeciderType
  <2>3. deciders' \in [Deciders -> DeciderType]
    BY <1>0, <2>1, <2>2
  <2>4. DecidersTyped'
    BY <1>0, <2>1 DEF Typed, DecidersTyped
  <2>. QED BY <1>0, <1>3, <2>3, <2>4 DEF DecideRead, Typed, TypeOK, DeciderType
<1>4. ASSUME NEW d \in Deciders, deciders' = [deciders EXCEPT ![d] = IdleDecider]
      PROVE  deciders' \in [Deciders -> DeciderType] /\ DecidersTyped'
  <2>1. deciders' \in [Deciders -> DeciderType]
    BY <1>0, <1>4, IdleDeciderType
  <2>. QED BY <1>0, <1>4, <2>1 DEF IdleDecider, Typed, DecidersTyped
<1>5. ASSUME NEW d \in Deciders, WriteReject(d)
      PROVE  Typed'
  <2>1. deciders[d].request \in Requests
    BY <1>5 DEF WriteReject, Typed, DecidersTyped
  <2>2. [change_requests[deciders[d].request] EXCEPT !.status = "REJECTED"] \in Row
    BY <1>0, <2>1 DEF Row, Statuses
  <2>3. change_requests' \in [Requests -> Row]
    BY <1>0, <1>5, <2>1, <2>2 DEF WriteReject
  <2>. QED BY <1>0, <1>4, <1>5, <2>3 DEF WriteReject, Typed, TypeOK, DeciderType
<1>6. ASSUME NEW d \in Deciders, WriteApprove(d)
      PROVE  Typed'
  <2> DEFINE e == deciders[d]
             new == Approved(e.record, e.actor)
  <2>1. e.request \in Requests /\ e.actor \in Users /\ e.record \in Row
    BY <1>0, <1>6 DEF WriteApprove, Typed, DecidersTyped, DeciderType
  <2>2. [change_requests[e.request] EXCEPT !.status = new.status, !.first = new.first,
                                           !.second = new.second] \in Row
    BY <1>0, <2>1, ApprovedType DEF Row
  <2>3. change_requests' = [change_requests EXCEPT ![e.request] =
           [change_requests[e.request] EXCEPT !.status = new.status, !.first = new.first,
                                              !.second = new.second]]
    BY <1>0, <1>6, <2>1 DEF WriteApprove
  <2>4. change_requests' \in [Requests -> Row]
    BY <1>0, <2>1, <2>2, <2>3
  <2>5. approvals' \subseteq Requests \X Users
    BY <1>0, <1>6, <2>1 DEF WriteApprove
  <2>. QED BY <1>0, <1>4, <1>6, <2>4, <2>5 DEF WriteApprove, Typed, TypeOK, DeciderType
<1>7. ASSUME NEW d \in Deciders, DeciderDies(d)
      PROVE  Typed'
  BY <1>0, <1>4, <1>7 DEF DeciderDies, Typed, TypeOK, DeciderType
<1>. QED BY <1>1, <1>2, <1>3, <1>5, <1>6, <1>7 DEF Next

LEMMA TypedInit == Init => Typed
BY IdleDeciderType DEF Init, Typed, TypeOK, DecidersTyped, DeciderType, IdleDecider

(* Every state of every execution is well typed.                            *)
THEOREM ChangeTypeCorrect == Spec => []TypeOK
<1>1. Typed => TypeOK
  BY DEF Typed
<1>. QED BY <1>1, TypedInit, TypedNext, PTL DEF Spec

----------------------------------------------------------------------------
(* The two-person rule.                                                     *)

(* New approvals disturb neither a row nor a handler, and a handler does    *)
(* not depend on the status and the approvers its row has now.              *)
LEMMA RowInvGrows ==
    ASSUME NEW r, NEW row, NEW A, NEW B, RowInv(r, row, A), A \subseteq B
    PROVE  RowInv(r, row, B)
BY DEF RowInv

LEMMA DecisionInvGrows ==
    ASSUME NEW e, NEW row, NEW new, NEW A, NEW B, DecisionInv(e, row, A), A \subseteq B,
           new.status # "none",
           new.requested_by = row.requested_by,
           new.approvals_required = row.approvals_required
    PROVE  DecisionInv(e, new, B)
<1>1. RowInv(e.request, e.record, B)
  BY RowInvGrows DEF DecisionInv
<1>. QED BY <1>1 DEF DecisionInv

(* The row written from a row that was pending keeps the two-person rule.   *)
LEMMA ApprovedRow ==
    ASSUME NEW e \in DeciderType, NEW row \in Row, NEW A,
           e.pc = "approve", e.actor \in Users, DecisionInv(e, row, A)
    PROVE  LET new == Approved(e.record, e.actor) IN
           RowInv(e.request,
                  [row EXCEPT !.status = new.status, !.first = new.first,
                              !.second = new.second],
                  A \cup {<<e.request, e.actor>>})
<1> DEFINE new == Approved(e.record, e.actor)
           B == A \cup {<<e.request, e.actor>>}
           res == [row EXCEPT !.status = new.status, !.first = new.first,
                              !.second = new.second]
<1>0. /\ e.record \in Row /\ e.actor # None
      /\ res.status = new.status /\ res.first = new.first /\ res.second = new.second
      /\ res.requested_by = e.record.requested_by
      /\ res.approvals_required = e.record.approvals_required
  BY DEF DeciderType, Row, DecisionInv
<1>1. /\ e.record.status = "PENDING" => e.record.first = None
      /\ e.record.status = "PARTIALLY_APPROVED" =>
            e.record.approvals_required = 2 /\ e.record.first # None
      /\ e.record.status \in PENDING_STATUSES
      /\ e.record.second = None
      /\ e.record.first # None => /\ e.record.first # e.record.requested_by
                                  /\ <<e.request, e.record.first>> \in A
      /\ e.actor # e.record.requested_by /\ e.actor # e.record.first
      /\ e.record.approvals_required \in 1..2
  BY <1>0 DEF DecisionInv, RowInv, Row
<1> HIDE DEF res, new
<1>2. CASE e.record.approvals_required = 2 /\ e.record.first = None
  <2>1. new.status = "PARTIALLY_APPROVED" /\ new.first = e.actor /\ new.second = None
    BY <1>2 DEF Approved, new
  <2>. QED BY <1>0, <1>1, <1>2, <2>1 DEF RowInv, PENDING_STATUSES, res, new
<1>3. CASE e.record.approvals_required = 2 /\ e.record.first # None
  <2>1. new.status = "APPROVED" /\ new.first = e.record.first /\ new.second = e.actor
    BY <1>3 DEF Approved, new
  <2>. QED BY <1>0, <1>1, <1>3, <2>1 DEF RowInv, PENDING_STATUSES, res, new
<1>4. CASE e.record.approvals_required = 1
  <2>1. new.status = "APPROVED" /\ new.first = e.actor /\ new.second = None
    BY <1>1, <1>4 DEF Approved, new
  <2>. QED BY <1>0, <1>1, <1>4, <2>1 DEF RowInv, PENDING_STATUSES, res, new
<1>. QED BY <1>1, <1>2, <1>3, <1>4

(* A step that gives request r the row new, keeps who asked for it and what *)
(* it needs, and leaves handlers alone or idle, keeps the invariant.        *)
LEMMA WriteKeeps ==
    ASSUME ApprovalInv, NEW d \in Deciders, NEW r \in Requests, NEW new,
           change_requests[r].status # "none",
           RowInv(r, new, approvals'), new.status # "none",
           new.requested_by = change_requests[r].requested_by,
           new.approvals_required = change_requests[r].approvals_required,
           approvals \subseteq approvals',
           change_requests' = [change_requests EXCEPT ![r] = new],
           deciders' = [deciders EXCEPT ![d] = IdleDecider]
    PROVE  RowsInv' /\ DecisionsInv'
<1>0. /\ change_requests \in [Requests -> Row]
      /\ deciders \in [Deciders -> DeciderType]
  BY DEF ApprovalInv, Typed, TypeOK, DeciderType
<1>1. \A s \in Requests : change_requests'[s] = IF s = r THEN new ELSE change_requests[s]
  BY <1>0
<1>2. \A c \in Deciders : deciders'[c] = IF c = d THEN IdleDecider ELSE deciders[c]
  BY <1>0
<1>3. ASSUME NEW s \in Requests
      PROVE  RowInv(s, change_requests'[s], approvals')
  BY <1>1, RowInvGrows DEF ApprovalInv, RowsInv
<1>4. ASSUME NEW c \in Deciders, deciders'[c].pc # "idle"
      PROVE  DecisionInv(deciders'[c], change_requests'[deciders'[c].request], approvals')
  <2>1. deciders'[c] = deciders[c] /\ deciders[c].request \in Requests
    BY <1>2, <1>4 DEF IdleDecider, ApprovalInv, Typed, DecidersTyped
  <2>2. DecisionInv(deciders[c], change_requests[deciders[c].request], approvals)
    BY <1>4, <2>1 DEF ApprovalInv, DecisionsInv
  <2>3. change_requests[deciders[c].request].status # "none"
    BY <2>2 DEF DecisionInv
  <2>. QED BY <1>1, <2>1, <2>2, <2>3, DecisionInvGrows
<1>. QED BY <1>3, <1>4 DEF RowsInv, DecisionsInv

LEMMA ApprovalInit == Init => ApprovalInv
<1> SUFFICES ASSUME Init PROVE ApprovalInv
  OBVIOUS
<1>1. RowsInv /\ DecisionsInv
  BY DEF Init, RowsInv, RowInv, NoRow, DecisionsInv, IdleDecider, PENDING_STATUSES
<1>. QED BY <1>1, TypedInit DEF ApprovalInv

LEMMA ApprovalNext == ApprovalInv /\ [Next]_vars => ApprovalInv'
<1> SUFFICES ASSUME ApprovalInv, [Next]_vars PROVE ApprovalInv'
  OBVIOUS
<1>0. /\ change_requests \in [Requests -> Row]
      /\ deciders \in [Deciders -> DeciderType]
      /\ Typed'
  BY TypedNext DEF ApprovalInv, Typed, TypeOK, DeciderType
<1>1. CASE UNCHANGED vars
  BY <1>0, <1>1 DEF vars, ApprovalInv, RowsInv, DecisionsInv
<1>2. ASSUME NEW r \in Requests, NEW u \in Users, NEW two \in BOOLEAN, CreateRequest(r, u, two)
      PROVE  RowsInv' /\ DecisionsInv'
  <2> DEFINE new == [NoRow EXCEPT !.status = "PENDING", !.requested_by = u,
                                  !.approvals_required = IF two THEN 2 ELSE 1]
  <2>1. /\ change_requests' = [change_requests EXCEPT ![r] = new]
        /\ new.status = "PENDING" /\ new.first = None /\ new.second = None
    BY <1>2 DEF CreateRequest, NoRow
  <2> HIDE DEF new
  <2>2. RowInv(r, new, approvals)
    BY <2>1 DEF RowInv
  <2>3. \A s \in Requests : change_requests'[s] = IF s = r THEN new ELSE change_requests[s]
    BY <1>0, <2>1
  <2>4. UNCHANGED <<deciders, approvals>> /\ change_requests[r].status = "none"
    BY <1>2 DEF CreateRequest
  <2>5. RowsInv'
    BY <2>2, <2>3, <2>4 DEF ApprovalInv, RowsInv
  <2>6. ASSUME NEW d \in Deciders, deciders[d].pc # "idle"
        PROVE  DecisionInv(deciders[d], change_requests'[deciders[d].request], approvals)
    <3>1. DecisionInv(deciders[d], change_requests[deciders[d].request], approvals)
      BY <2>6 DEF ApprovalInv, DecisionsInv
    <3>2. deciders[d].request \in Requests
      BY <2>6 DEF ApprovalInv, Typed, DecidersTyped
    <3>3. deciders[d].request # r
      BY <2>4, <3>1 DEF DecisionInv
    <3>. QED BY <2>3, <3>1, <3>2, <3>3
  <2>. QED BY <2>4, <2>5, <2>6 DEF DecisionsInv
<1>3. ASSUME NEW d \in Deciders, NEW r \in Requests, NEW u \in Users, DecideRead(d, r, u)
      PROVE  RowsInv' /\ DecisionsInv'
  <2>1. PICK pc \in {"reject", "approve"} :
          /\ IF pc = "reject" THEN MayReject(change_requests[r], u)
                              ELSE MayApprove(change_requests[r], u)
          /\ deciders' = [deciders EXCEPT ![d] =
                [pc |-> pc, request |-> r, actor |-> u, record |-> change_requests[r]]]
    BY <1>3 DEF DecideRead
  <2> DEFINE e == [pc |-> pc, request |-> r, actor |-> u, record |-> change_requests[r]]
  <2>2. UNCHANGED <<change_requests, approvals>>
    BY <1>3 DEF DecideRead
  <2>3. DecisionInv(e, change_requests[r], approvals)
    BY <2>1 DEF MayReject, MayApprove, DecisionInv, ApprovalInv, RowsInv, PENDING_STATUSES
  <2>4. \A c \in Deciders : deciders'[c] = IF c = d THEN e ELSE deciders[c]
    BY <1>0, <2>1
  <2> HIDE DEF e
  <2>5. e.request = r
    BY DEF e
  <2>6. ASSUME NEW c \in Deciders, deciders'[c].pc # "idle"
        PROVE  DecisionInv(deciders'[c], change_requests[deciders'[c].request], approvals)
    BY <2>3, <2>4, <2>5, <2>6 DEF ApprovalInv, DecisionsInv
  <2>. QED BY <2>2, <2>6 DEF ApprovalInv, RowsInv, DecisionsInv
<1>4. ASSUME NEW d \in Deciders, WriteReject(d)
      PROVE  RowsInv' /\ DecisionsInv'
  <2>1. PICK r \in Requests : r = deciders[d].request
    BY <1>4 DEF WriteReject, ApprovalInv, Typed, DecidersTyped
  <2> DEFINE new == [change_requests[r] EXCEPT !.status = "REJECTED"]
  <2>2. DecisionInv(deciders[d], change_requests[r], approvals)
    BY <1>4, <2>1 DEF WriteReject, ApprovalInv, DecisionsInv
  <2>3. /\ new.status = "REJECTED" /\ new.first = change_requests[r].first
        /\ new.second = change_requests[r].second
        /\ new.requested_by = change_requests[r].requested_by
        /\ new.approvals_required = change_requests[r].approvals_required
    BY <1>0 DEF Row
  <2>4. change_requests' = [change_requests EXCEPT ![r] = new]
    BY <1>0, <1>4, <2>1 DEF WriteReject
  <2> HIDE DEF new
  <2>5. RowInv(r, new, approvals)
    BY <2>3 DEF ApprovalInv, RowsInv, RowInv, PENDING_STATUSES
  <2>. QED BY <1>4, <2>2, <2>3, <2>4, <2>5, WriteKeeps DEF WriteReject, DecisionInv
<1>5. ASSUME NEW d \in Deciders, WriteApprove(d)
      PROVE  RowsInv' /\ DecisionsInv'
  <2>1. PICK r \in Requests, e \in DeciderType : e = deciders[d] /\ r = e.request
    BY <1>0, <1>5 DEF WriteApprove, ApprovalInv, Typed, DecidersTyped
  <2>2. DecisionInv(e, change_requests[r], approvals) /\ e.actor \in Users /\ e.pc = "approve"
    BY <1>5, <2>1 DEF WriteApprove, ApprovalInv, DecisionsInv, Typed, DecidersTyped
  <2> DEFINE appr == Approved(e.record, e.actor)
             new == [change_requests[r] EXCEPT !.status = appr.status, !.first = appr.first,
                                               !.second = appr.second]
  <2>3. /\ new.requested_by = change_requests[r].requested_by
        /\ new.approvals_required = change_requests[r].approvals_required
        /\ new.status = appr.status /\ appr.status # "none"
    BY <1>0 DEF Row, Approved
  <2>4. change_requests' = [change_requests EXCEPT ![r] = new]
    BY <1>0, <1>5, <2>1 DEF WriteApprove
  <2>5. approvals' = approvals \cup {<<r, e.actor>>}
    BY <1>5, <2>1 DEF WriteApprove
  <2>6. RowInv(r, new, approvals')
    BY <1>0, <2>1, <2>2, <2>5, ApprovedRow
  <2>7. deciders' = [deciders EXCEPT ![d] = IdleDecider]
    BY <1>5 DEF WriteApprove
  <2> HIDE DEF new, appr
  <2>8. change_requests[r].status # "none"
    BY <2>2 DEF DecisionInv
  <2>. QED BY <2>3, <2>4, <2>5, <2>6, <2>7, <2>8, WriteKeeps
<1>6. ASSUME NEW d \in Deciders, DeciderDies(d)
      PROVE  RowsInv' /\ DecisionsInv'
  <2>1. UNCHANGED <<change_requests, approvals>>
    BY <1>6 DEF DeciderDies
  <2>2. \A c \in Deciders : deciders'[c] = IF c = d THEN IdleDecider ELSE deciders[c]
    BY <1>0, <1>6 DEF DeciderDies
  <2>3. ASSUME NEW c \in Deciders, deciders'[c].pc # "idle"
        PROVE  DecisionInv(deciders'[c], change_requests[deciders'[c].request], approvals)
    BY <2>2, <2>3 DEF IdleDecider, ApprovalInv, DecisionsInv
  <2>. QED BY <2>1, <2>3 DEF ApprovalInv, RowsInv, DecisionsInv
<1>. QED BY <1>0, <1>1, <1>2, <1>3, <1>4, <1>5, <1>6 DEF Next, ApprovalInv

(* An approved row names the approvers it needed.                           *)
LEMMA EnoughApprovers ==
    ASSUME NEW r \in Requests, NEW row \in Row, RowInv(r, row, approvals),
           row.status = "APPROVED"
    PROVE  /\ Cardinality(Approvers(row)) = row.approvals_required
           /\ row.requested_by \notin Approvers(row)
           /\ \A u \in Approvers(row) : <<r, u>> \in approvals
<1>1. CASE row.approvals_required = 1
  <2>1. Approvers(row) = {row.first}
    BY <1>1 DEF Approvers, RowInv
  <2>. QED BY <1>1, <2>1, FS_Singleton DEF Approvers, RowInv
<1>2. CASE row.approvals_required = 2
  <2>1. /\ Approvers(row) = {row.first} \cup {row.second}
        /\ row.second \notin {row.first}
    BY <1>2 DEF Approvers, RowInv
  <2>2. Cardinality({row.first}) = 1 /\ IsFiniteSet({row.first})
    BY FS_Singleton
  <2>3. Cardinality({row.first} \cup {row.second}) = 2
    <3>1. Cardinality({row.first} \cup {row.second}) = Cardinality({row.first}) + 1
      BY <2>1, <2>2, FS_AddElement
    <3>. QED BY <2>2, <3>1
  <2>. QED BY <1>2, <2>1, <2>3 DEF Approvers, RowInv
<1>. QED BY <1>1, <1>2 DEF Row

(* However decisions overlap, each deciding from a row that may be stale,   *)
(* an approved request names as many distinct approvers as it required, not *)
(* its requester, and each of them approved it.                             *)
THEOREM TwoPersonRule == Spec => []ApprovedByEnough
<1>1. ApprovalInv => ApprovedByEnough
  <2> SUFFICES ASSUME ApprovalInv, NEW r \in Requests, change_requests[r].status = "APPROVED"
               PROVE  LET row == change_requests[r] IN
                      /\ Cardinality(Approvers(row)) = row.approvals_required
                      /\ row.requested_by \notin Approvers(row)
                      /\ \A u \in Approvers(row) : <<r, u>> \in approvals
    BY DEF ApprovedByEnough
  <2>1. change_requests[r] \in Row /\ RowInv(r, change_requests[r], approvals)
    BY DEF ApprovalInv, Typed, TypeOK, RowsInv
  <2>. QED BY <2>1, EnoughApprovers
<1>. QED BY <1>1, ApprovalInit, ApprovalNext, PTL DEF Spec

----------------------------------------------------------------------------
(* The row of an uncontended request follows the approval workflow.         *)

\* One handler at a time decides it, from the row as it still is; nobody has
\* approved a request that was not made.
SoloInv == \A r \in Uncontended :
    /\ change_requests[r].status = "none" =>
          change_requests[r].first = None /\ change_requests[r].second = None
    /\ \A c, d \in Deciders : c # d /\ deciders[c].request = r => deciders[d].request # r
    /\ \A d \in Deciders : deciders[d].pc # "idle" /\ deciders[d].request = r =>
          deciders[d].record = change_requests[r]

LEMMA SoloInit == Init => SoloInv
BY DEF Init, NoRow, IdleDecider, SoloInv

LEMMA SoloNext == ApprovalInv /\ SoloInv /\ [Next]_vars => SoloInv'
<1> SUFFICES ASSUME ApprovalInv, SoloInv, [Next]_vars PROVE SoloInv'
  OBVIOUS
<1>0. /\ change_requests \in [Requests -> Row]
      /\ deciders \in [Deciders -> DeciderType]
  BY DEF ApprovalInv, Typed, TypeOK, DeciderType
<1>1. CASE UNCHANGED vars
  BY <1>1 DEF vars, SoloInv
<1>2. ASSUME NEW r \in Requests, NEW u \in Users, NEW two \in BOOLEAN, CreateRequest(r, u, two)
      PROVE  SoloInv'
  <2>1. /\ change_requests[r].status = "none" /\ deciders' = deciders
        /\ \A s \in Requests \ {r} : change_requests'[s] = change_requests[s]
        /\ change_requests'[r].status = "PENDING"
    BY <1>0, <1>2 DEF CreateRequest, NoRow
  <2>2. \A d \in Deciders : deciders[d].pc # "idle" => deciders[d].request # r
    BY <2>1 DEF ApprovalInv, DecisionsInv, DecisionInv
  <2>. QED BY <2>1, <2>2 DEF SoloInv
<1>3. ASSUME NEW d \in Deciders, NEW r \in Requests, NEW u \in Users, DecideRead(d, r, u)
      PROVE  SoloInv'
  <2>1. PICK e : /\ e.request = r /\ e.record = change_requests[r]
                 /\ \A c \in Deciders : deciders'[c] = IF c = d THEN e ELSE deciders[c]
    BY <1>0, <1>3 DEF DecideRead
  <2>2. /\ change_requests' = change_requests
        /\ r \in Uncontended => \A c \in Deciders : deciders[c].request # r
    BY <1>3 DEF DecideRead
  <2>. QED BY <2>1, <2>2 DEF SoloInv
<1>4. ASSUME NEW d \in Deciders, deciders' = [deciders EXCEPT ![d] = IdleDecider],
             \A s \in Requests : \/ change_requests'[s] = change_requests[s]
                                 \/ /\ s = deciders[d].request
                                    /\ change_requests'[s].status # "none"
      PROVE  SoloInv'
  <2>1. \A c \in Deciders : deciders'[c] = IF c = d THEN IdleDecider ELSE deciders[c]
    BY <1>0, <1>4
  <2>2. IdleDecider.pc = "idle" /\ IdleDecider.request = None
    BY DEF IdleDecider
  <2>3. ASSUME NEW r \in Uncontended, NEW c \in Deciders,
               deciders'[c].pc # "idle", deciders'[c].request = r
        PROVE  deciders'[c].record = change_requests'[r]
    <3>1. c # d /\ deciders'[c] = deciders[c]
      BY <2>1, <2>2, <2>3
    <3>2. deciders[d].request # r
      BY <2>3, <3>1 DEF SoloInv
    <3>. QED BY <1>4, <2>3, <3>1, <3>2 DEF SoloInv
  <2>4. \A r \in Uncontended : change_requests'[r].status = "none" =>
           change_requests'[r].first = None /\ change_requests'[r].second = None
    BY <1>4 DEF SoloInv
  <2>5. ASSUME NEW r \in Uncontended, NEW b \in Deciders, NEW c \in Deciders,
               b # c, deciders'[b].request = r
        PROVE  deciders'[c].request # r
    BY <2>1, <2>2, <2>5 DEF SoloInv
  <2>. QED BY <2>3, <2>4, <2>5 DEF SoloInv
<1>5. ASSUME NEW d \in Deciders, WriteReject(d) \/ WriteApprove(d) \/ DeciderDies(d)
      PROVE  SoloInv'
  <2>1. ASSUME NEW s \in Requests
        PROVE  \/ change_requests'[s] = change_requests[s]
               \/ s = deciders[d].request /\ change_requests'[s].status # "none"
    <3>1. CASE WriteReject(d)
      BY <1>0, <3>1 DEF WriteReject, Row
    <3>2. CASE WriteApprove(d)
      <4>1. Approved(deciders[d].record, deciders[d].actor).status # "none"
        BY DEF Approved
      <4>. QED BY <1>0, <3>2, <4>1 DEF WriteApprove, Row
    <3>. QED BY <1>5, <3>1, <3>2 DEF DeciderDies
  <2>. QED BY <1>4, <1>5, <2>1 DEF WriteReject, WriteApprove, DeciderDies
<1>. QED BY <1>1, <1>2, <1>3, <1>5 DEF Next

\* The variables of the abstract workflow.
StageMap == [r \in Uncontended |-> StageOf(change_requests[r].status)]
NeededMap == [r \in Uncontended |-> IF change_requests[r].status = "none" THEN 0
                                    ELSE change_requests[r].approvals_required]
OpenerMap == [r \in Uncontended |-> {change_requests[r].requested_by} \ {None}]
ApproverMap == [r \in Uncontended |-> Approvers(change_requests[r])]

LEMMA Stages ==
    /\ StageOf("none") = "none"
    /\ \A s \in PENDING_STATUSES : StageOf(s) = "pending"
    /\ StageOf("APPROVED") = "approved" /\ StageOf("REJECTED") = "rejected"
BY DEF StageOf, PENDING_STATUSES

(* A function that differs from another in one place.                       *)
LEMMA MapUpdate ==
    ASSUME NEW U, NEW f, NEW g, NEW r \in U, NEW v,
           f = [s \in U |-> f[s]], g = [s \in U |-> g[s]],
           g[r] = v, \A s \in U \ {r} : g[s] = f[s]
    PROVE  g = [f EXCEPT ![r] = v]
OBVIOUS

LEMMA StagesAfter ==
    /\ StageMap = [s \in Uncontended |-> StageOf(change_requests[s].status)]
    /\ StageMap' = [s \in Uncontended |-> StageOf(change_requests'[s].status)]
<1>1. StageMap = [s \in Uncontended |-> StageOf(change_requests[s].status)]
  BY DEF StageMap
<1>2. StageMap' = [s \in Uncontended |-> StageOf(change_requests'[s].status)]
  BY DEF StageMap, StageOf
<1>. QED BY <1>1, <1>2

(* The four mapped variables when request r gets the row new.               *)
LEMMA MapsAfter ==
    ASSUME ApprovalInv, NEW r \in Uncontended, NEW new,
           change_requests' = [change_requests EXCEPT ![r] = new]
    PROVE  /\ StageMap' = [StageMap EXCEPT ![r] = StageOf(new.status)]
           /\ NeededMap' = [NeededMap EXCEPT ![r] =
                 IF new.status = "none" THEN 0 ELSE new.approvals_required]
           /\ OpenerMap' = [OpenerMap EXCEPT ![r] = {new.requested_by} \ {None}]
           /\ ApproverMap' = [ApproverMap EXCEPT ![r] = Approvers(new)]
<1>1. \A s \in Uncontended : change_requests'[s] = IF s = r THEN new ELSE change_requests[s]
  BY DEF ApprovalInv, Typed, TypeOK
<1>2. StageMap' = [StageMap EXCEPT ![r] = StageOf(new.status)]
  <2>1. \A s \in Uncontended : /\ StageMap'[s] = StageOf(change_requests'[s].status)
                               /\ StageMap[s] = StageOf(change_requests[s].status)
    BY StagesAfter
  <2>2. /\ StageMap'[r] = StageOf(new.status)
        /\ \A s \in Uncontended \ {r} : StageMap'[s] = StageMap[s]
    BY <1>1, <2>1
  <2>3. /\ StageMap = [s \in Uncontended |-> StageMap[s]]
        /\ StageMap' = [s \in Uncontended |-> StageMap'[s]]
    BY StagesAfter
  <2>. QED BY <2>2, <2>3, MapUpdate
<1>3. NeededMap' = [NeededMap EXCEPT ![r] =
         IF new.status = "none" THEN 0 ELSE new.approvals_required]
  <2>1. /\ NeededMap'[r] = IF new.status = "none" THEN 0 ELSE new.approvals_required
        /\ \A s \in Uncontended \ {r} : NeededMap'[s] = NeededMap[s]
    BY <1>1 DEF NeededMap
  <2>2. /\ NeededMap = [s \in Uncontended |-> NeededMap[s]]
        /\ NeededMap' = [s \in Uncontended |-> NeededMap'[s]]
    BY DEF NeededMap
  <2>. QED BY <2>1, <2>2, MapUpdate
<1>4. OpenerMap' = [OpenerMap EXCEPT ![r] = {new.requested_by} \ {None}]
  BY <1>1 DEF OpenerMap
<1>5. ApproverMap' = [ApproverMap EXCEPT ![r] = Approvers(new)]
  BY <1>1 DEF ApproverMap, Approvers
<1>. QED BY <1>2, <1>3, <1>4, <1>5

(* Nothing else changes when the row keeps who asked and what it needs.     *)
LEMMA MapsKept ==
    ASSUME ApprovalInv, NEW r \in Uncontended, NEW new,
           change_requests' = [change_requests EXCEPT ![r] = new],
           change_requests[r].status # "none", new.status # "none",
           new.requested_by = change_requests[r].requested_by,
           new.approvals_required = change_requests[r].approvals_required
    PROVE  /\ NeededMap' = NeededMap /\ OpenerMap' = OpenerMap
           /\ StageMap' = [StageMap EXCEPT ![r] = StageOf(new.status)]
           /\ ApproverMap' = [ApproverMap EXCEPT ![r] = Approvers(new)]
<1>1. /\ NeededMap' = [NeededMap EXCEPT ![r] = NeededMap[r]]
      /\ OpenerMap' = [OpenerMap EXCEPT ![r] = OpenerMap[r]]
  <2>1. /\ NeededMap[r] = new.approvals_required
        /\ OpenerMap[r] = {new.requested_by} \ {None}
    BY DEF NeededMap, OpenerMap
  <2>2. /\ NeededMap' = [NeededMap EXCEPT ![r] =
              IF new.status = "none" THEN 0 ELSE new.approvals_required]
        /\ OpenerMap' = [OpenerMap EXCEPT ![r] = {new.requested_by} \ {None}]
    BY MapsAfter
  <2>. QED BY <2>1, <2>2
<1>2. NeededMap' = NeededMap /\ OpenerMap' = OpenerMap
  BY <1>1 DEF NeededMap, OpenerMap
<1>. QED BY <1>2, MapsAfter

(* The workflow's actions, from the four maps.                              *)
LEMMA WorkflowOpens ==
    ASSUME NEW r \in Uncontended, NEW u \in Users, NEW n \in 0..2, StageMap[r] = "none",
           StageMap' = [StageMap EXCEPT ![r] = IF n = 0 THEN "approved" ELSE "pending"],
           NeededMap' = [NeededMap EXCEPT ![r] = n],
           OpenerMap' = [OpenerMap EXCEPT ![r] = {u}],
           ApproverMap' = ApproverMap
    PROVE  Workflow!Next
<1>1. Workflow!Open(r, u, n)
  BY DEF Workflow!Open, StageMap, NeededMap, OpenerMap, ApproverMap
<1>. QED BY <1>1 DEF Workflow!Next

LEMMA WorkflowApproves ==
    ASSUME NEW r \in Uncontended, NEW u \in Users, StageMap[r] = "pending",
           u \notin OpenerMap[r] \cup ApproverMap[r],
           StageMap' = [StageMap EXCEPT ![r] =
              IF Cardinality(ApproverMap[r]) + 1 >= NeededMap[r] THEN "approved" ELSE StageMap[r]],
           ApproverMap' = [ApproverMap EXCEPT ![r] = ApproverMap[r] \cup {u}],
           NeededMap' = NeededMap, OpenerMap' = OpenerMap
    PROVE  Workflow!Next
<1>0. \A S : Workflow!Cardinality(S) = Cardinality(S)
  BY DEF Workflow!Cardinality, Cardinality
<1>1. Workflow!Approve(r, u)
  BY <1>0 DEF Workflow!Approve, StageMap, NeededMap, OpenerMap, ApproverMap
<1>. QED BY <1>1 DEF Workflow!Next

LEMMA WorkflowRejects ==
    ASSUME NEW r \in Uncontended, NEW u \in Users, StageMap[r] = "pending",
           u \notin OpenerMap[r],
           StageMap' = [StageMap EXCEPT ![r] = "rejected"],
           UNCHANGED <<NeededMap, OpenerMap, ApproverMap>>
    PROVE  Workflow!Next
<1>1. Workflow!Reject(r, u)
  BY DEF Workflow!Reject, StageMap, NeededMap, OpenerMap, ApproverMap
<1>. QED BY <1>1 DEF Workflow!Next

LEMMA CreateOpens ==
    ASSUME ApprovalInv, SoloInv, NEW r \in Uncontended, NEW u \in Users, NEW two \in BOOLEAN,
           CreateRequest(r, u, two)
    PROVE  Workflow!Next
<1> DEFINE n == IF two THEN 2 ELSE 1
           new == [NoRow EXCEPT !.status = "PENDING", !.requested_by = u,
                                !.approvals_required = n]
<1>1. /\ change_requests' = [change_requests EXCEPT ![r] = new]
      /\ change_requests[r].status = "none"
  BY DEF CreateRequest
<1>2. /\ new.status = "PENDING" /\ new.requested_by = u /\ new.approvals_required = n
      /\ new.first = None /\ new.second = None /\ n \in 1..2
  BY DEF NoRow
<1> HIDE DEF new, n
<1>3. StageMap[r] = "none"
  BY <1>1, StagesAfter, Stages
<1>4. Approvers(new) = {} /\ {new.requested_by} \ {None} = {u}
  BY <1>2 DEF Approvers
<1>5. StageOf(new.status) = "pending"
  BY <1>2, Stages DEF PENDING_STATUSES
<1>6. /\ StageMap' = [StageMap EXCEPT ![r] = "pending"]
      /\ NeededMap' = [NeededMap EXCEPT ![r] = n]
      /\ OpenerMap' = [OpenerMap EXCEPT ![r] = {u}]
      /\ ApproverMap' = [ApproverMap EXCEPT ![r] = {}]
  <2>1. /\ StageMap' = [StageMap EXCEPT ![r] = StageOf(new.status)]
        /\ NeededMap' = [NeededMap EXCEPT ![r] =
              IF new.status = "none" THEN 0 ELSE new.approvals_required]
        /\ OpenerMap' = [OpenerMap EXCEPT ![r] = {new.requested_by} \ {None}]
        /\ ApproverMap' = [ApproverMap EXCEPT ![r] = Approvers(new)]
    BY <1>1, MapsAfter
  <2>. QED BY <1>2, <1>4, <1>5, <2>1
<1>7. ApproverMap[r] = {}
  BY <1>1 DEF SoloInv, ApproverMap, Approvers
<1>8. ApproverMap' = ApproverMap
  BY <1>6, <1>7 DEF ApproverMap
<1>9. /\ n \in 0..2
      /\ StageMap' = [StageMap EXCEPT ![r] = IF n = 0 THEN "approved" ELSE "pending"]
  <2>1. n # 0 /\ n \in 0..2
    BY <1>2
  <2>. QED BY <1>6, <2>1
<1>10. PICK m \in 0..2 : m = n
  BY <1>9
<1>. QED BY <1>3, <1>6, <1>8, <1>9, <1>10, WorkflowOpens

\* What a handler in flight knows of its uncontended request.
LEMMA DeciderKnows ==
    ASSUME ApprovalInv, SoloInv, NEW d \in Deciders, NEW e, e = deciders[d], e.pc # "idle",
           NEW r \in Uncontended, NEW row, e.request = r, row = change_requests[r]
    PROVE  /\ e.actor \in Users /\ e.record = row /\ row \in Row
           /\ DecisionInv(e, row, approvals)
           /\ row.status # "none" /\ StageMap[r] = "pending"
           /\ NeededMap[r] = row.approvals_required
           /\ OpenerMap[r] = {row.requested_by} \ {None} /\ e.actor \notin OpenerMap[r]
           /\ ApproverMap[r] = Approvers(row)
<1>1. /\ e.actor \in Users /\ e.record = row /\ row \in Row
      /\ DecisionInv(e, row, approvals)
  BY DEF SoloInv, ApprovalInv, Typed, TypeOK, DecidersTyped, DecisionsInv
<1>2. row.status \in PENDING_STATUSES /\ row.status # "none" /\ e.actor # row.requested_by
  BY <1>1 DEF DecisionInv
<1>3. StageMap[r] = "pending"
  BY <1>2, StagesAfter, Stages
<1>. QED BY <1>1, <1>2, <1>3 DEF NeededMap, OpenerMap, ApproverMap

LEMMA RejectRejects ==
    ASSUME ApprovalInv, SoloInv, NEW d \in Deciders, WriteReject(d),
           deciders[d].request \in Uncontended
    PROVE  Workflow!Next
<1>0. PICK r, row, e : /\ r \in Uncontended /\ e = deciders[d]
                      /\ r = e.request /\ row = change_requests[r]
  OBVIOUS
<1> DEFINE new == [row EXCEPT !.status = "REJECTED"]
<1>1. /\ e.pc # "idle" /\ change_requests' = [change_requests EXCEPT ![r] = new]
  BY <1>0 DEF WriteReject
<1>2. /\ e.actor \in Users /\ row \in Row /\ row.status # "none"
      /\ StageMap[r] = "pending" /\ e.actor \notin OpenerMap[r]
      /\ ApproverMap[r] = Approvers(row)
  BY <1>0, <1>1, DeciderKnows
<1>3. /\ new.status = "REJECTED" /\ new.requested_by = row.requested_by
      /\ new.approvals_required = row.approvals_required
      /\ new.first = row.first /\ new.second = row.second
  BY <1>2 DEF Row
<1> HIDE DEF new
<1>4. StageOf(new.status) = "rejected" /\ Approvers(new) = Approvers(row)
  BY <1>3, Stages DEF Approvers
<1>5. /\ NeededMap' = NeededMap /\ OpenerMap' = OpenerMap
      /\ StageMap' = [StageMap EXCEPT ![r] = StageOf(new.status)]
      /\ ApproverMap' = [ApproverMap EXCEPT ![r] = Approvers(new)]
  <2>1. change_requests[r].status # "none" /\ new.status # "none"
    BY <1>0, <1>2, <1>3
  <2>2. /\ new.requested_by = change_requests[r].requested_by
        /\ new.approvals_required = change_requests[r].approvals_required
    BY <1>0, <1>3
  <2>. QED BY <1>0, <1>1, <2>1, <2>2, MapsKept
<1>6. ApproverMap' = ApproverMap
  <2>1. ApproverMap' = [ApproverMap EXCEPT ![r] = ApproverMap[r]]
    BY <1>2, <1>4, <1>5
  <2>. QED BY <2>1 DEF ApproverMap
<1>. QED BY <1>0, <1>2, <1>4, <1>5, <1>6, WorkflowRejects

LEMMA ApproveApproves ==
    ASSUME ApprovalInv, SoloInv, NEW d \in Deciders, WriteApprove(d),
           deciders[d].request \in Uncontended
    PROVE  Workflow!Next
<1>0. PICK r, row, e, u : /\ r \in Uncontended /\ e = deciders[d] /\ u = e.actor
                         /\ r = e.request /\ row = change_requests[r]
  OBVIOUS
<1> DEFINE appr == Approved(row, u)
           new == [row EXCEPT !.status = appr.status, !.first = appr.first,
                              !.second = appr.second]
<1>1. e.pc = "approve"
  BY <1>0 DEF WriteApprove
<1>2. /\ u \in Users /\ row \in Row /\ e.record = row /\ DecisionInv(e, row, approvals)
      /\ row.status # "none" /\ StageMap[r] = "pending"
      /\ NeededMap[r] = row.approvals_required
      /\ u \notin OpenerMap[r] /\ ApproverMap[r] = Approvers(row)
  BY <1>0, <1>1, DeciderKnows
<1>3. change_requests' = [change_requests EXCEPT ![r] = new]
  <2>1. change_requests' = [change_requests EXCEPT ![r] =
           [change_requests[r] EXCEPT !.status = appr.status, !.first = appr.first,
                                      !.second = appr.second]]
    BY <1>0, <1>2 DEF WriteApprove, ApprovalInv, Typed, TypeOK
  <2>. QED BY <1>0, <2>1
<1>4. /\ new.status = appr.status /\ new.first = appr.first /\ new.second = appr.second
      /\ new.requested_by = row.requested_by
      /\ new.approvals_required = row.approvals_required
  BY <1>2 DEF Row
<1> HIDE DEF new
<1>5. /\ u # row.first /\ row.second = None /\ u # None
      /\ row.first # None => row.approvals_required = 2
      /\ row.approvals_required \in 1..2
  BY <1>0, <1>1, <1>2 DEF DecisionInv, RowInv, PENDING_STATUSES, Row
<1>6. /\ Approvers(row) = IF row.first = None THEN {} ELSE {row.first}
      /\ Cardinality(Approvers(row)) = IF row.first = None THEN 0 ELSE 1
      /\ u \notin Approvers(row)
  <2>1. Approvers(row) = IF row.first = None THEN {} ELSE {row.first}
    BY <1>5 DEF Approvers
  <2>. QED BY <1>5, <2>1, FS_EmptySet, FS_Singleton
<1>7. /\ new.status # "none" /\ Approvers(new) = Approvers(row) \cup {u}
      /\ StageOf(new.status) = IF Cardinality(Approvers(row)) + 1 >= row.approvals_required
                               THEN "approved" ELSE "pending"
  <2>1. CASE row.approvals_required = 2 /\ row.first = None
    <3>1. appr = [status |-> "PARTIALLY_APPROVED", first |-> u, second |-> None]
      BY <2>1 DEF Approved
    <3>2. StageOf(new.status) = "pending" /\ new.status # "none"
      BY <1>4, <3>1, Stages DEF PENDING_STATUSES
    <3>3. Approvers(new) = {u}
      BY <1>4, <1>5, <3>1 DEF Approvers
    <3>. QED BY <1>6, <2>1, <3>2, <3>3
  <2>2. CASE row.approvals_required = 2 /\ row.first # None
    <3>1. appr = [status |-> "APPROVED", first |-> row.first, second |-> u]
      BY <2>2 DEF Approved
    <3>2. StageOf(new.status) = "approved" /\ new.status # "none"
      BY <1>4, <3>1, Stages
    <3>3. Approvers(new) = {row.first, u}
      BY <1>4, <1>5, <2>2, <3>1 DEF Approvers
    <3>. QED BY <1>6, <2>2, <3>2, <3>3
  <2>3. CASE row.approvals_required = 1
    <3>1. appr = [status |-> "APPROVED", first |-> u, second |-> row.second]
      BY <2>3 DEF Approved
    <3>2. StageOf(new.status) = "approved" /\ new.status # "none"
      BY <1>4, <3>1, Stages
    <3>3. Approvers(new) = {u}
      BY <1>4, <1>5, <3>1 DEF Approvers
    <3>. QED BY <1>5, <1>6, <2>3, <3>2, <3>3
  <2>. QED BY <1>5, <2>1, <2>2, <2>3
<1>8. /\ NeededMap' = NeededMap /\ OpenerMap' = OpenerMap
      /\ StageMap' = [StageMap EXCEPT ![r] = StageOf(new.status)]
      /\ ApproverMap' = [ApproverMap EXCEPT ![r] = Approvers(new)]
  <2>1. change_requests[r].status # "none" /\ new.status # "none"
    BY <1>0, <1>2, <1>7
  <2>2. /\ new.requested_by = change_requests[r].requested_by
        /\ new.approvals_required = change_requests[r].approvals_required
    BY <1>0, <1>4
  <2>. QED BY <1>0, <1>3, <2>1, <2>2, MapsKept
<1>9. /\ StageMap' = [StageMap EXCEPT ![r] =
            IF Cardinality(ApproverMap[r]) + 1 >= NeededMap[r] THEN "approved" ELSE StageMap[r]]
      /\ ApproverMap' = [ApproverMap EXCEPT ![r] = ApproverMap[r] \cup {u}]
      /\ u \notin OpenerMap[r] \cup ApproverMap[r]
  BY <1>2, <1>6, <1>7, <1>8
<1>. QED BY <1>0, <1>2, <1>8, <1>9, WorkflowApproves

LEMMA WorkflowStep ==
    ApprovalInv /\ SoloInv /\ [Next]_vars =>
        [Workflow!Next]_<<StageMap, NeededMap, OpenerMap, ApproverMap>>
<1> SUFFICES ASSUME ApprovalInv, SoloInv, [Next]_vars
             PROVE  \/ Workflow!Next
                    \/ UNCHANGED <<StageMap, NeededMap, OpenerMap, ApproverMap>>
  OBVIOUS
<1>s. ASSUME \A r \in Uncontended : change_requests'[r] = change_requests[r]
      PROVE  UNCHANGED <<StageMap, NeededMap, OpenerMap, ApproverMap>>
  <2>1. StageMap' = StageMap
    BY <1>s, StagesAfter
  <2>2. NeededMap' = NeededMap /\ OpenerMap' = OpenerMap /\ ApproverMap' = ApproverMap
    BY <1>s DEF NeededMap, OpenerMap, ApproverMap, Approvers
  <2>. QED BY <2>1, <2>2
<1>w. ASSUME NEW r, r \notin Uncontended, NEW new,
             change_requests' = [change_requests EXCEPT ![r] = new]
      PROVE  UNCHANGED <<StageMap, NeededMap, OpenerMap, ApproverMap>>
  <2>1. \A s \in Uncontended : change_requests'[s] = change_requests[s]
    BY <1>w DEF ApprovalInv, Typed, TypeOK
  <2>. QED BY <1>s, <2>1
<1>1. ASSUME NEW r \in Requests, NEW u \in Users, NEW two \in BOOLEAN, CreateRequest(r, u, two)
      PROVE  \/ Workflow!Next
             \/ UNCHANGED <<StageMap, NeededMap, OpenerMap, ApproverMap>>
  <2>1. \E new : change_requests' = [change_requests EXCEPT ![r] = new]
    BY <1>1 DEF CreateRequest
  <2>. QED BY <1>1, <1>w, <2>1, CreateOpens
<1>2. ASSUME NEW d \in Deciders, WriteReject(d) \/ WriteApprove(d)
      PROVE  \/ Workflow!Next
             \/ UNCHANGED <<StageMap, NeededMap, OpenerMap, ApproverMap>>
  <2>1. \E new : change_requests' = [change_requests EXCEPT ![deciders[d].request] = new]
    <3>1. deciders[d].request \in Requests
      BY <1>2 DEF WriteReject, WriteApprove, ApprovalInv, Typed, DecidersTyped
    <3>2. WriteReject(d) => change_requests' = [change_requests EXCEPT ![deciders[d].request] =
             [change_requests[deciders[d].request] EXCEPT !.status = "REJECTED"]]
      BY DEF WriteReject
    <3>3. ASSUME WriteApprove(d)
          PROVE  \E new : change_requests' = [change_requests EXCEPT ![deciders[d].request] = new]
      <4> DEFINE e == deciders[d]
                 appr == Approved(e.record, e.actor)
      <4>1. change_requests' = [change_requests EXCEPT ![e.request] =
               [change_requests[e.request] EXCEPT !.status = appr.status, !.first = appr.first,
                                                  !.second = appr.second]]
        BY <3>1, <3>3 DEF WriteApprove, ApprovalInv, Typed, TypeOK
      <4>. QED BY <4>1
    <3>. QED BY <1>2, <3>2, <3>3
  <2>. QED BY <1>2, <1>w, <2>1, RejectRejects, ApproveApproves
<1>3. ASSUME NEW d \in Deciders, DeciderDies(d) \/ \E r \in Requests, u \in Users : DecideRead(d, r, u)
      PROVE  UNCHANGED <<StageMap, NeededMap, OpenerMap, ApproverMap>>
  BY <1>3, <1>s DEF DeciderDies, DecideRead
<1>4. CASE UNCHANGED vars
  BY <1>4, <1>s DEF vars
<1>. QED BY <1>1, <1>2, <1>3, <1>4 DEF Next

LEMMA WorkflowInit == Init => Workflow!Init
<1> SUFFICES ASSUME Init PROVE Workflow!Init
  OBVIOUS
<1>1. \A r \in Uncontended : change_requests[r] = NoRow
  BY DEF Init
<1>2. /\ NoRow.status = "none" /\ NoRow.requested_by = None
      /\ NoRow.first = None /\ NoRow.second = None
  BY DEF NoRow
<1>3. StageMap = [r \in Uncontended |-> "none"]
  BY <1>1, <1>2, StagesAfter, Stages
<1>4. NeededMap = [r \in Uncontended |-> 0] /\ OpenerMap = [r \in Uncontended |-> {}]
  BY <1>1, <1>2 DEF NeededMap, OpenerMap
<1>5. ApproverMap = [r \in Uncontended |-> {}]
  BY <1>1, <1>2 DEF ApproverMap, Approvers
<1>. QED BY <1>3, <1>4, <1>5 DEF Workflow!Init, StageMap, NeededMap, OpenerMap, ApproverMap

(* A request that is decided by one user at a time follows the approval     *)
(* workflow, however the decisions of the others overlap and whatever       *)
(* handler dies between its read and its write.                             *)
THEOREM ChangesFollowWorkflow == Spec => ImplementsApproval
<1>1. Spec => []ApprovalInv
  BY ApprovalInit, ApprovalNext, PTL DEF Spec
<1>2. Spec => []SoloInv
  BY <1>1, SoloInit, SoloNext, PTL DEF Spec
<1>3. ApprovalInv /\ SoloInv /\ [Next]_vars =>
         [Workflow!Next]_<<StageMap, NeededMap, OpenerMap, ApproverMap>>
  BY WorkflowStep
<1>. QED BY <1>1, <1>2, <1>3, WorkflowInit, PTL
     DEF Spec, ImplementsApproval, Workflow!Spec, StageMap, NeededMap, OpenerMap, ApproverMap

----------------------------------------------------------------------------
(* A request that has its backup took it before now; one that is about to  *)
(* mark the patch found it unmarked, so that its backup is older than the  *)
(* first mark, should there be one by now.                                 *)
ApplierInv(e) ==
    /\ e.pc \in {"mark", "write"} => e.patch \in Patches /\ e.backup \in 1..snapshots
    /\ e.pc = "backup" => e.patch \in Patches
    /\ e.pc = "write" /\ patch_updates[e.patch].status = "APPLIED" =>
          e.backup <= patch_updates[e.patch].first

PatchInv ==
    /\ snapshots \in Nat
    /\ patch_updates \in [Patches -> [status : {"none", "UPLOADED", "APPLIED"},
                                      backup_id : 0..snapshots, first : 0..snapshots]]
    /\ \A p \in Patches :
          IF patch_updates[p].status = "APPLIED"
          THEN patch_updates[p].backup_id \in 1..patch_updates[p].first
          ELSE patch_updates[p].first = 0
    /\ DOMAIN appliers = Appliers
    /\ \A h \in Appliers : ApplierInv(appliers[h])

LEMMA PatchStep == PatchInv /\ [PatchNext]_patchVars => PatchInv'
<1> SUFFICES ASSUME PatchInv, [PatchNext]_patchVars PROVE PatchInv'
  OBVIOUS
<1> USE DEF PatchInv
<1>1. ASSUME NEW p \in Patches, UploadPatch(p) PROVE PatchInv'
  BY <1>1 DEF UploadPatch, ApplierInv
<1>2. ASSUME NEW h \in Appliers, NEW p \in Patches, StartApply(h, p) PROVE PatchInv'
  BY <1>2 DEF StartApply, ApplierInv
<1>3. ASSUME NEW h \in Appliers, TakeBackup(h) PROVE PatchInv'
  <2>1. snapshots' = snapshots + 1 /\ UNCHANGED patch_updates /\ snapshots' \in Nat
    BY <1>3 DEF TakeBackup
  <2>2. ASSUME NEW g \in Appliers PROVE ApplierInv(appliers[g])'
    <3>1. CASE g = h
      BY <1>3, <2>1, <3>1 DEF TakeBackup, ApplierInv
    <3>2. CASE g # h
      BY <1>3, <2>1, <3>2 DEF TakeBackup, ApplierInv
    <3>. QED BY <3>1, <3>2
  <2>. QED BY <1>3, <2>1, <2>2 DEF TakeBackup
<1>4. ASSUME NEW h \in Appliers, ReadPatchStatus(h) PROVE PatchInv'
  <2>1. UNCHANGED <<patch_updates, snapshots>>
    BY <1>4 DEF ReadPatchStatus
  <2>2. ASSUME NEW g \in Appliers PROVE ApplierInv(appliers[g])'
    <3>1. CASE g = h
      BY <1>4, <2>1, <3>1 DEF ReadPatchStatus, ApplierInv, NotYetApplied, IdleApplier
    <3>2. CASE g # h
      BY <1>4, <2>1, <3>2 DEF ReadPatchStatus, ApplierInv
    <3>. QED BY <3>1, <3>2
  <2>. QED BY <1>4, <2>1, <2>2 DEF ReadPatchStatus
<1>5. ASSUME NEW h \in Appliers, WriteApplied(h) PROVE PatchInv'
  <2> DEFINE p == appliers[h].patch
  <2>1. /\ p \in Patches /\ appliers[h].backup \in 1..snapshots
        /\ patch_updates[p].status = "APPLIED" => appliers[h].backup <= patch_updates[p].first
    BY <1>5 DEF WriteApplied, ApplierInv
  <2>2. /\ patch_updates'[p].status = "APPLIED"
        /\ patch_updates'[p].backup_id = appliers[h].backup
        /\ patch_updates'[p].first =
              IF patch_updates[p].first = 0 THEN snapshots ELSE patch_updates[p].first
        /\ \A q \in Patches \ {p} : patch_updates'[q] = patch_updates[q]
        /\ UNCHANGED snapshots
    BY <1>5, <2>1 DEF WriteApplied
  <2>3. appliers[h].backup <= patch_updates'[p].first /\ patch_updates'[p].first \in 1..snapshots
    BY <2>1, <2>2
  <2>4. patch_updates' \in [Patches -> [status : {"none", "UPLOADED", "APPLIED"},
                                        backup_id : 0..snapshots, first : 0..snapshots]]
    BY <1>5, <2>1 DEF WriteApplied
  <2>5. \A q \in Patches :
          IF patch_updates'[q].status = "APPLIED"
          THEN patch_updates'[q].backup_id \in 1..patch_updates'[q].first
          ELSE patch_updates'[q].first = 0
    BY <2>1, <2>2, <2>3
  <2>6. ASSUME NEW g \in Appliers PROVE ApplierInv(appliers[g])'
    <3>1. CASE g = h
      BY <1>5, <3>1 DEF WriteApplied, ApplierInv, IdleApplier
    <3>2. ASSUME g # h PROVE appliers'[g] = appliers[g]
      BY <1>5, <3>2 DEF WriteApplied
    <3>3. ASSUME g # h, appliers[g].pc = "write", appliers[g].patch = p
          PROVE  appliers[g].backup <= patch_updates'[p].first
      BY <3>3, <2>1, <2>2 DEF ApplierInv
    <3>4. CASE g # h
      BY <3>2, <3>3, <3>4, <2>2 DEF ApplierInv
    <3>. QED BY <3>1, <3>4
  <2>7. DOMAIN appliers' = Appliers
    BY <1>5 DEF WriteApplied
  <2>. QED BY <2>2, <2>4, <2>5, <2>6, <2>7
<1>6. ASSUME NEW h \in Appliers, ApplierDies(h) PROVE PatchInv'
  BY <1>6 DEF ApplierDies, ApplierInv, IdleApplier
<1>7. CASE UNCHANGED patchVars
  BY <1>7 DEF patchVars, ApplierInv
<1>. QED BY <1>1, <1>2, <1>3, <1>4, <1>5, <1>6, <1>7 DEF PatchNext

(* A patch that is marked as applied keeps a backup from before it was      *)
(* first marked, whatever number of requests apply it at the same time and  *)
(* wherever they die.                                                       *)
THEOREM PatchKeepsBackup == PatchSpec => []BackupPrecedesPatch
<1>1. PatchInit => PatchInv
  BY DEF PatchInit, PatchInv, ApplierInv, IdleApplier
<1>2. PatchInv => BackupPrecedesPatch
  BY DEF PatchInv, BackupPrecedesPatch
<1>. QED BY <1>1, <1>2, PatchStep, PTL DEF PatchSpec

----------------------------------------------------------------------------
FleetInv == offline_alerts \in [Endpoints -> {0, 1}]

(* An agent that stays away has one open alert, whatever number of offline  *)
(* checks overlap.                                                          *)
THEOREM AlertedOnce == FleetSpec => []OneAlertPerOutage
<1>1. FleetInit => FleetInv
  BY DEF FleetInit, FleetInv
<1>2. FleetInv /\ [FleetNext]_fleetVars => FleetInv'
  <2> SUFFICES ASSUME FleetInv, [FleetNext]_fleetVars PROVE FleetInv'
    OBVIOUS
  <2>1. ASSUME NEW w \in Watchers, MarkAgents(w) PROVE FleetInv'
    BY <2>1 DEF FleetInv, MarkAgents, OpenAlerts
  <2>2. ASSUME NEW a \in Endpoints, RunRetention(a) PROVE FleetInv'
    BY <2>2 DEF FleetInv, RunRetention
  <2>. QED
    BY <2>1, <2>2 DEF FleetNext, FleetInv, fleetVars, GoesSilent, Heartbeat, ReadLastSeen,
                      WatcherDies
<1>3. FleetInv => OneAlertPerOutage
  BY DEF FleetInv, OneAlertPerOutage
<1>. QED BY <1>1, <1>2, <1>3, PTL DEF FleetSpec

----------------------------------------------------------------------------
(* Feature flags.                                                          *)

FlagRows == {"missing", "on", "off"}
FlagRequests ==
    [pc : {"idle", "ensure", "repair", "again", "list", "create", "set", "write", "agents",
           "send", "answer"},
     op : {"list", "create", "set", "kill-switch"}, flag : Flags, enabled : BOOLEAN,
     confirm : BOOLEAN, state : BOOLEAN, row : FlagRows, todo : SUBSET FleetAgents,
     alone : BOOLEAN, turned_on : BOOLEAN, known : SUBSET FleetAgents]

FlagTypeOK ==
    /\ feature_flags \in [Flags -> FlagRows]
    /\ kill_switch \in BOOLEAN
    /\ fleet \subseteq FleetAgents
    /\ told \subseteq FleetAgents
    /\ flag_requests \in [FlagThreads -> FlagRequests]

\* What a request that overlaps no other one knows: the switch it read is the
\* switch, the row it read is the row, and the agents it has not told yet are
\* still before it.
RequestKnows(e, flags, switch, agents, sent) ==
    e.alone =>
        /\ e.pc \in {"ensure", "repair"} => e.state = switch
        /\ e.pc \in {"list", "again", "set", "write"} => flags[KILL_SWITCH] = Enabled(switch)
        /\ e.pc = "write" => /\ e.row = flags[e.flag]
                             /\ e.flag \in HighRisk /\ e.row # Enabled(e.enabled) => e.confirm
        /\ e.turned_on => /\ e.pc = "agents" => e.known \subseteq agents
                          /\ e.pc = "send" => e.known \subseteq sent \cup e.todo
                          /\ e.pc = "answer" => e.known \subseteq sent

FlagInv ==
    /\ FlagTypeOK
    /\ \A g, h \in FlagThreads :
          g # h /\ flag_requests[h].alone /\ flag_requests[h].pc # "idle" =>
              flag_requests[g].pc = "idle"
    /\ \A h \in FlagThreads :
          RequestKnows(flag_requests[h], feature_flags, kill_switch, fleet, told)

LEMMA IdleFlagRequest ==
    /\ Idle \in FlagRequests /\ Idle.pc = "idle"
    /\ \A F, K, A, S : RequestKnows(Idle, F, K, A, S)
<1>1. Idle \in FlagRequests
  BY FlagsAssumption DEF Idle, FlagRequests, FlagRows
<1>2. Idle.pc = "idle"
  BY DEF Idle
<1>3. ~Idle.turned_on
  BY DEF Idle
<1>. QED BY <1>1, <1>2, <1>3 DEF RequestKnows

(* A step of a request h in flight: no other one knows anything that it    *)
(* could make untrue.                                                      *)
LEMMA FlagTurn ==
    ASSUME FlagInv, NEW h \in FlagThreads, flag_requests[h].pc # "idle",
           NEW x \in FlagRequests, flag_requests' = [flag_requests EXCEPT ![h] = x],
           x.pc = "idle" \/ x.alone = flag_requests[h].alone,
           feature_flags' \in [Flags -> FlagRows], kill_switch' \in BOOLEAN,
           fleet' \subseteq FleetAgents, told' \subseteq FleetAgents,
           RequestKnows(x, feature_flags', kill_switch', fleet', told')
    PROVE  FlagInv'
<1>1. FlagTypeOK'
  BY DEF FlagInv, FlagTypeOK
<1>2. /\ flag_requests \in [FlagThreads -> FlagRequests]
      /\ \A g \in FlagThreads : flag_requests'[g] = IF g = h THEN x ELSE flag_requests[g]
  BY DEF FlagInv, FlagTypeOK
<1>3. \A g, k \in FlagThreads :
          g # k /\ flag_requests'[k].alone /\ flag_requests'[k].pc # "idle" =>
              flag_requests'[g].pc = "idle"
  BY <1>2 DEF FlagInv
<1>4. ASSUME NEW g \in FlagThreads
      PROVE  RequestKnows(flag_requests'[g], feature_flags', kill_switch', fleet', told')
  <2>1. CASE g = h
    BY <1>2, <2>1
  <2>2. CASE g # h
    <3>1. flag_requests[g].alone => flag_requests[g].pc = "idle"
      BY <2>2 DEF FlagInv
    <3>. QED BY <1>2, <2>2, <3>1 DEF RequestKnows
  <2>. QED BY <2>1, <2>2
<1>. QED BY <1>1, <1>3, <1>4 DEF FlagInv

(* The same, when the request only changes what it has in hand.            *)
LEMMA FlagMove ==
    ASSUME FlagInv, NEW h \in FlagThreads, flag_requests[h].pc # "idle",
           NEW x \in FlagRequests, flag_requests' = [flag_requests EXCEPT ![h] = x],
           x.pc = "idle" \/ x.alone = flag_requests[h].alone,
           RequestKnows(x, feature_flags, kill_switch, fleet, told),
           UNCHANGED <<feature_flags, kill_switch, fleet, told>>
    PROVE  FlagInv'
BY FlagTurn DEF FlagInv, FlagTypeOK

LEMMA FlagAnswered ==
    ASSUME FlagInv, NEW h \in FlagThreads, flag_requests[h].pc # "idle", Answered(h),
           feature_flags' \in [Flags -> FlagRows], UNCHANGED <<kill_switch, fleet, told>>
    PROVE  FlagInv'
BY FlagTurn, IdleFlagRequest DEF Answered, FlagInv, FlagTypeOK

LEMMA AfterEnsureFields ==
    ASSUME NEW e \in FlagRequests
    PROVE  /\ AfterEnsure(e) \in FlagRequests
           /\ AfterEnsure(e).alone = e.alone
           /\ AfterEnsure(e).turned_on = e.turned_on
           /\ AfterEnsure(e).pc \in {"again", "list", "create", "set"}
BY DEF AfterEnsure, FlagRequests, FlagRows

LEMMA FlagStep ==
    ASSUME FlagInv, [FlagNext]_flagVars
    PROVE  FlagInv'
<1>0. /\ feature_flags \in [Flags -> FlagRows] /\ kill_switch \in BOOLEAN
      /\ fleet \subseteq FleetAgents /\ told \subseteq FleetAgents
      /\ flag_requests \in [FlagThreads -> FlagRequests]
      /\ \A h \in FlagThreads :
            RequestKnows(flag_requests[h], feature_flags, kill_switch, fleet, told)
  BY DEF FlagInv, FlagTypeOK
<1>1. ASSUME NEW a \in FleetAgents, RegisterFleetAgent(a) PROVE FlagInv'
  <2>1. /\ fleet' = fleet \cup {a}
        /\ UNCHANGED <<feature_flags, kill_switch, told, flag_requests>>
    BY <1>1 DEF RegisterFleetAgent
  <2>2. FlagTypeOK'
    BY <1>0, <2>1 DEF FlagTypeOK
  <2>3. \A h \in FlagThreads :
           RequestKnows(flag_requests[h], feature_flags, kill_switch, fleet', told)
    BY <1>0, <2>1 DEF RequestKnows
  <2>. QED BY <2>1, <2>2, <2>3 DEF FlagInv
<1>2. ASSUME NEW h \in FlagThreads, NEW op \in {"list", "create", "set", "kill-switch"},
             NEW f \in Flags, NEW enabled \in BOOLEAN, NEW confirm \in BOOLEAN,
             Begin(h, op, f, enabled, confirm)
      PROVE  FlagInv'
  <2> DEFINE free == \A g \in FlagThreads : flag_requests[g].pc = "idle"
             x == [Idle EXCEPT !.pc = "ensure", !.op = op, !.flag = f, !.enabled = enabled,
                       !.confirm = confirm, !.state = kill_switch, !.alone = free]
             y(g) == [flag_requests[g] EXCEPT !.alone = @ /\ flag_requests[g].pc = "idle"]
  <2>1. /\ flag_requests[h].pc = "idle"
        /\ flag_requests' = [g \in FlagThreads |-> IF g = h THEN x ELSE y(g)]
        /\ UNCHANGED <<feature_flags, kill_switch, fleet, told>>
    BY <1>2 DEF Begin
  <2>2. free \in BOOLEAN
    OBVIOUS
  <2>3. /\ x.pc = "ensure" /\ x.alone = free /\ x.state = kill_switch /\ x.turned_on = FALSE
    BY DEF Idle
  <2>4. x \in FlagRequests
    <3>1. ASSUME NEW b \in BOOLEAN
          PROVE  [Idle EXCEPT !.pc = "ensure", !.op = op, !.flag = f, !.enabled = enabled,
                      !.confirm = confirm, !.state = kill_switch, !.alone = b] \in FlagRequests
      BY <1>0 DEF Idle, FlagRequests, FlagRows
    <3>. QED BY <2>2, <3>1, Zenon
  <2>5. ASSUME NEW g \in FlagThreads
        PROVE  /\ y(g) \in FlagRequests /\ y(g).pc = flag_requests[g].pc
               /\ y(g).alone = (flag_requests[g].alone /\ flag_requests[g].pc = "idle")
    <3>1. flag_requests[g] \in FlagRequests
      BY <1>0
    <3>2. (flag_requests[g].alone /\ flag_requests[g].pc = "idle") \in BOOLEAN
      OBVIOUS
    <3>. QED BY <3>1, <3>2 DEF FlagRequests
  <2> HIDE DEF x, y
  <2>6. \A g \in FlagThreads : flag_requests'[g] = IF g = h THEN x ELSE y(g)
    BY <2>1
  <2>7. FlagTypeOK'
    BY <1>0, <2>1, <2>4, <2>5 DEF FlagTypeOK
  <2>8. \A g, k \in FlagThreads :
            g # k /\ flag_requests'[k].alone /\ flag_requests'[k].pc # "idle" =>
                flag_requests'[g].pc = "idle"
    BY <2>3, <2>5, <2>6
  <2>9. RequestKnows(x, feature_flags, kill_switch, fleet, told)
    BY <2>3 DEF RequestKnows
  <2>10. \A g \in FlagThreads : RequestKnows(y(g), feature_flags, kill_switch, fleet, told)
    BY <2>5 DEF RequestKnows
  <2>. QED BY <2>1, <2>6, <2>7, <2>8, <2>9, <2>10 DEF FlagInv
<1>3. ASSUME NEW h \in FlagThreads, EnsureRead(h) PROVE FlagInv'
  <2> DEFINE e == flag_requests[h]
  <2>1. /\ e \in FlagRequests /\ e.pc = "ensure"
        /\ RequestKnows(e, feature_flags, kill_switch, fleet, told)
        /\ UNCHANGED <<feature_flags, kill_switch, fleet, told>>
    BY <1>0, <1>3 DEF EnsureRead
  <2>2. feature_flags[KILL_SWITCH] \in FlagRows
    BY <1>0, FlagsAssumption
  <2>3. CASE RepairNeeded(e, feature_flags[KILL_SWITCH])
    <3> DEFINE x == [e EXCEPT !.pc = "repair", !.row = feature_flags[KILL_SWITCH]]
    <3>1. flag_requests' = [flag_requests EXCEPT ![h] = x]
      BY <1>3, <2>3 DEF EnsureRead
    <3>2. /\ x \in FlagRequests /\ x.pc = "repair" /\ x.alone = e.alone
          /\ x.state = e.state
      BY <2>1, <2>2 DEF FlagRequests
    <3> HIDE DEF x
    <3>3. RequestKnows(x, feature_flags, kill_switch, fleet, told)
      BY <2>1, <3>2 DEF RequestKnows
    <3>. QED BY <2>1, <3>1, <3>2, <3>3, FlagMove
  <2>4. CASE ~RepairNeeded(e, feature_flags[KILL_SWITCH])
    <3>1. flag_requests' = [flag_requests EXCEPT ![h] = AfterEnsure(e)]
      BY <1>3, <2>4 DEF EnsureRead
    <3>2. feature_flags[KILL_SWITCH] = Enabled(e.state)
      BY <2>4 DEF RepairNeeded
    <3>3. RequestKnows(AfterEnsure(e), feature_flags, kill_switch, fleet, told)
      BY <2>1, <3>2, AfterEnsureFields DEF RequestKnows
    <3>. QED BY <2>1, <3>1, <3>3, AfterEnsureFields, FlagMove
  <2>. QED BY <2>3, <2>4
<1>4. ASSUME NEW h \in FlagThreads, EnsureWrite(h) PROVE FlagInv'
  <2> DEFINE e == flag_requests[h]
             F == [feature_flags EXCEPT ![KILL_SWITCH] = Enabled(e.state)]
  <2>1. /\ e \in FlagRequests /\ e.pc = "repair"
        /\ RequestKnows(e, feature_flags, kill_switch, fleet, told)
        /\ UNCHANGED <<kill_switch, fleet, told>>
    BY <1>0, <1>4 DEF EnsureWrite
  <2>2. CASE Answered(h) /\ UNCHANGED feature_flags
    BY <1>0, <2>1, <2>2, FlagAnswered
  <2>3. CASE /\ feature_flags' = F
             /\ flag_requests' = [flag_requests EXCEPT ![h] = AfterEnsure(e)]
    <3>1. F \in [Flags -> FlagRows] /\ F[KILL_SWITCH] = Enabled(e.state)
      BY <1>0, FlagsAssumption DEF FlagRows, Enabled
    <3> HIDE DEF F
    <3>2. RequestKnows(AfterEnsure(e), F, kill_switch, fleet, told)
      BY <2>1, <3>1, AfterEnsureFields DEF RequestKnows
    <3>. QED BY <1>0, <2>1, <2>3, <3>1, <3>2, AfterEnsureFields, FlagTurn
  <2>. QED BY <1>4, <2>2, <2>3 DEF EnsureWrite
<1>5. ASSUME NEW h \in FlagThreads, EnsureAgain(h) PROVE FlagInv'
  <2> DEFINE e == flag_requests[h]
             x == [e EXCEPT !.pc = "ensure", !.op = "set", !.state = kill_switch]
  <2>1. /\ e \in FlagRequests /\ e.pc = "again"
        /\ flag_requests' = [flag_requests EXCEPT ![h] = x]
        /\ UNCHANGED <<feature_flags, kill_switch, fleet, told>>
    BY <1>0, <1>5 DEF EnsureAgain
  <2>2. x \in FlagRequests /\ x.pc = "ensure" /\ x.alone = e.alone /\ x.state = kill_switch
    BY <1>0, <2>1 DEF FlagRequests
  <2> HIDE DEF x
  <2>3. RequestKnows(x, feature_flags, kill_switch, fleet, told)
    BY <2>2 DEF RequestKnows
  <2>. QED BY <2>1, <2>2, <2>3, FlagMove
<1>6. ASSUME NEW h \in FlagThreads, ListFlags(h) \/ AnswerSet(h) \/ FlagRequestDies(h)
      PROVE  FlagInv'
  BY <1>0, <1>6, FlagAnswered DEF ListFlags, AnswerSet, FlagRequestDies
<1>7. ASSUME NEW h \in FlagThreads, CreateFlag(h) PROVE FlagInv'
  <2>1. feature_flags' \in [Flags -> FlagRows]
    BY <1>0, <1>7 DEF CreateFlag, FlagRows, Enabled
  <2>. QED BY <1>7, <2>1, FlagAnswered DEF CreateFlag
<1>8. ASSUME NEW h \in FlagThreads, ReadFlag(h) PROVE FlagInv'
  <2> DEFINE e == flag_requests[h]
             row == feature_flags[e.flag]
             x == [e EXCEPT !.row = row, !.pc = "write"]
  <2>1. /\ e \in FlagRequests /\ e.pc = "set"
        /\ RequestKnows(e, feature_flags, kill_switch, fleet, told)
        /\ UNCHANGED <<feature_flags, kill_switch, fleet, told>>
    BY <1>0, <1>8 DEF ReadFlag
  <2>2. CASE Answered(h)
    BY <1>0, <2>1, <2>2, FlagAnswered
  <2>3. CASE RiskConfirmed(e, row) /\ flag_requests' = [flag_requests EXCEPT ![h] = x]
    <3>1. row \in FlagRows
      BY <1>0, <2>1 DEF FlagRequests
    <3>2. /\ x \in FlagRequests /\ x.pc = "write" /\ x.row = row /\ x.alone = e.alone
          /\ x.flag = e.flag /\ x.enabled = e.enabled /\ x.confirm = e.confirm
      BY <2>1, <3>1 DEF FlagRequests
    <3>3. row = feature_flags[x.flag]
      BY <3>2
    <3> HIDE DEF x, row
    <3>4. RequestKnows(x, feature_flags, kill_switch, fleet, told)
      BY <2>1, <2>3, <3>2, <3>3 DEF RequestKnows, RiskConfirmed
    <3>. QED BY <2>1, <2>3, <3>2, <3>4, FlagMove
  <2>. QED BY <1>8, <2>2, <2>3 DEF ReadFlag
<1>9. ASSUME NEW h \in FlagThreads, WriteFlag(h) PROVE FlagInv'
  <2> DEFINE e == flag_requests[h]
             on == e.flag = KILL_SWITCH /\ e.enabled /\ ~kill_switch
             x == [Idle EXCEPT !.pc = IF Announces(e) THEN "agents" ELSE "answer",
                               !.alone = e.alone, !.turned_on = on,
                               !.known = IF on THEN fleet ELSE {}]
  <2>1. /\ e \in FlagRequests /\ e.pc = "write"
        /\ RequestKnows(e, feature_flags, kill_switch, fleet, told)
        /\ feature_flags' = IF e.row # Enabled(e.enabled)
               THEN [feature_flags EXCEPT ![e.flag] = Enabled(e.enabled)] ELSE feature_flags
        /\ kill_switch' = IF e.flag = KILL_SWITCH THEN e.enabled ELSE kill_switch
        /\ told' = IF on THEN {} ELSE told
        /\ flag_requests' = [flag_requests EXCEPT ![h] = x]
        /\ fleet' = fleet
    BY <1>0, <1>9 DEF WriteFlag
  <2>2. e.enabled \in BOOLEAN /\ e.alone \in BOOLEAN /\ on \in BOOLEAN
    BY <2>1 DEF FlagRequests
  <2>3. /\ x.pc = (IF Announces(e) THEN "agents" ELSE "answer")
        /\ x.alone = e.alone /\ x.turned_on = on /\ x.known = (IF on THEN fleet ELSE {})
    BY DEF Idle
  <2>4. x \in FlagRequests
    BY <1>0, <2>2, IdleFlagRequest DEF FlagRequests
  <2>5. feature_flags' \in [Flags -> FlagRows] /\ kill_switch' \in BOOLEAN
    BY <1>0, <2>1, <2>2 DEF FlagRows, Enabled
  <2>6. e.alone /\ on => Announces(e)
    BY <2>1 DEF RequestKnows, Announces, Enabled
  <2>7. x.turned_on => x.known = fleet
    BY <2>3
  <2> HIDE DEF x, on
  <2>8. RequestKnows(x, feature_flags', kill_switch', fleet', told')
    BY <2>1, <2>3, <2>6, <2>7 DEF RequestKnows
  <2>. QED BY <1>0, <2>1, <2>3, <2>4, <2>5, <2>8, FlagTurn
<1>10. ASSUME NEW h \in FlagThreads, ListAgents(h) PROVE FlagInv'
  <2> DEFINE e == flag_requests[h]
             x == [e EXCEPT !.todo = fleet, !.pc = "send"]
  <2>1. /\ e \in FlagRequests /\ e.pc = "agents"
        /\ RequestKnows(e, feature_flags, kill_switch, fleet, told)
        /\ flag_requests' = [flag_requests EXCEPT ![h] = x]
        /\ UNCHANGED <<feature_flags, kill_switch, fleet, told>>
    BY <1>0, <1>10 DEF ListAgents
  <2>2. /\ x \in FlagRequests /\ x.pc = "send" /\ x.alone = e.alone /\ x.todo = fleet
        /\ x.turned_on = e.turned_on /\ x.known = e.known
    BY <1>0, <2>1 DEF FlagRequests
  <2> HIDE DEF x
  <2>3. RequestKnows(x, feature_flags, kill_switch, fleet, told)
    BY <2>1, <2>2 DEF RequestKnows
  <2>. QED BY <2>1, <2>2, <2>3, FlagMove
<1>11. ASSUME NEW h \in FlagThreads, SendObserve(h) PROVE FlagInv'
  <2> DEFINE e == flag_requests[h]
  <2>1. /\ e \in FlagRequests /\ e.pc = "send"
        /\ RequestKnows(e, feature_flags, kill_switch, fleet, told)
        /\ UNCHANGED <<feature_flags, kill_switch, fleet>>
    BY <1>0, <1>11 DEF SendObserve
  <2>2. CASE e.todo = {}
    <3> DEFINE x == [e EXCEPT !.pc = "answer"]
    <3>1. flag_requests' = [flag_requests EXCEPT ![h] = x] /\ told' = told
      BY <1>0, <1>11, <2>2 DEF SendObserve
    <3>2. /\ x \in FlagRequests /\ x.pc = "answer" /\ x.alone = e.alone
          /\ x.turned_on = e.turned_on /\ x.known = e.known
      BY <2>1 DEF FlagRequests
    <3> HIDE DEF x
    <3>3. RequestKnows(x, feature_flags, kill_switch, fleet, told)
      BY <2>1, <2>2, <3>2 DEF RequestKnows
    <3>. QED BY <2>1, <3>1, <3>2, <3>3, FlagMove
  <2>3. CASE e.todo # {}
    <3>1. PICK a \in e.todo : /\ told' = told \cup {a}
                              /\ flag_requests' = [flag_requests EXCEPT ![h].todo = @ \ {a}]
      BY <1>11, <2>3 DEF SendObserve
    <3> DEFINE x == [e EXCEPT !.todo = @ \ {a}]
    <3>2. flag_requests' = [flag_requests EXCEPT ![h] = x]
      BY <1>0, <3>1
    <3>3. e.todo \subseteq FleetAgents
      BY <2>1 DEF FlagRequests
    <3>4. /\ x \in FlagRequests /\ x.pc = "send" /\ x.alone = e.alone
          /\ x.todo = e.todo \ {a} /\ x.turned_on = e.turned_on /\ x.known = e.known
      BY <2>1 DEF FlagRequests
    <3> HIDE DEF x
    <3>5. RequestKnows(x, feature_flags, kill_switch, fleet, told')
      BY <2>1, <3>1, <3>4 DEF RequestKnows
    <3>. QED BY <1>0, <2>1, <3>1, <3>2, <3>3, <3>4, <3>5, FlagTurn
  <2>. QED BY <2>2, <2>3
<1>12. CASE UNCHANGED flagVars
  BY <1>0, <1>12 DEF flagVars, FlagInv, FlagTypeOK
<1>. QED BY <1>1, <1>2, <1>3, <1>4, <1>5, <1>6, <1>7, <1>8, <1>9, <1>10, <1>11, <1>12 DEF FlagNext

LEMMA FlagStart == FlagInit => FlagInv
<1> SUFFICES ASSUME FlagInit PROVE FlagInv
  OBVIOUS
<1>1. FlagTypeOK
  BY IdleFlagRequest DEF FlagInit, FlagTypeOK, FlagRows
<1>. QED BY <1>1, IdleFlagRequest DEF FlagInit, FlagInv

(* A request that overlaps no other one tells every agent it turned the     *)
(* switch on for, shows the row the device policy obeys, and never turns    *)
(* the switch without the confirmation, for any number of requests.         *)
THEOREM SwitchStaysKept == FlagSpec => []SwitchIsKept
<1>1. FlagInv => SwitchIsKept
  <2> SUFFICES ASSUME FlagInv, NEW h \in FlagThreads, flag_requests[h].alone
               PROVE  LET e == flag_requests[h] IN
                      /\ e.pc = "answer" /\ e.turned_on => e.known \subseteq told
                      /\ e.pc \in {"list", "again", "set", "write"} =>
                            feature_flags[KILL_SWITCH] = Enabled(kill_switch)
                      /\ e.pc = "write" /\ e.flag = KILL_SWITCH /\ e.enabled # kill_switch =>
                            e.confirm
    BY DEF SwitchIsKept
  <2> DEFINE e == flag_requests[h]
  <2>1. e \in FlagRequests /\ kill_switch \in BOOLEAN
    BY DEF FlagInv, FlagTypeOK
  <2>2. e.enabled \in BOOLEAN
    BY <2>1 DEF FlagRequests
  <2>3. RequestKnows(e, feature_flags, kill_switch, fleet, told)
    BY DEF FlagInv
  <2>4. e.enabled # kill_switch => Enabled(kill_switch) # Enabled(e.enabled)
    BY <2>1, <2>2 DEF Enabled
  <2>. QED BY <2>3, <2>4, FlagsAssumption DEF RequestKnows
<1>. QED BY <1>1, FlagStart, FlagStep, PTL DEF FlagSpec

=============================================================================
