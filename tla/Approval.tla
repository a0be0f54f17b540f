------------------------------ MODULE Approval ------------------------------
(***************************************************************************)
(* What an approval workflow promises: an item opened by one user waits    *)
(* for the approvals it needs, each from another user; the last approval   *)
(* or a single rejection decides it, and a decided item never changes.     *)
(* The detailed workflows are ChangeControl and PlaybookRuns.              *)
(***************************************************************************)
EXTENDS Naturals, FiniteSets

CONSTANTS Items, Users

VARIABLES
    stage,     \* none, pending, approved or rejected
    needed,    \* approvals the item needs
    opener,    \* who asked, as a set of at most one user
    approvers  \* who has approved

Init ==
    /\ stage = [i \in Items |-> "none"]
    /\ needed = [i \in Items |-> 0]
    /\ opener = [i \in Items |-> {}]
    /\ approvers = [i \in Items |-> {}]

Open(i, u, n) ==
    /\ stage[i] = "none"
    /\ stage' = [stage EXCEPT ![i] = IF n = 0 THEN "approved" ELSE "pending"]
    /\ needed' = [needed EXCEPT ![i] = n]
    /\ opener' = [opener EXCEPT ![i] = {u}]
    /\ UNCHANGED approvers

Approve(i, u) ==
    /\ stage[i] = "pending"
    /\ u \notin opener[i] \cup approvers[i]
    /\ approvers' = [approvers EXCEPT ![i] = @ \cup {u}]
    /\ stage' = [stage EXCEPT ![i] =
          IF Cardinality(approvers[i]) + 1 >= needed[i] THEN "approved" ELSE @]
    /\ UNCHANGED <<needed, opener>>

Reject(i, u) ==
    /\ stage[i] = "pending"
    /\ u \notin opener[i]
    /\ stage' = [stage EXCEPT ![i] = "rejected"]
    /\ UNCHANGED <<needed, opener, approvers>>

Next ==
    \E i \in Items, u \in Users :
        \/ \E n \in 0..2 : Open(i, u, n)
        \/ Approve(i, u)
        \/ Reject(i, u)

Spec == Init /\ [][Next]_<<stage, needed, opener, approvers>>

=============================================================================
