---------------------------- MODULE TaskDispatch ----------------------------
(***************************************************************************)
(* What create_task promises its callers (the operations console, the      *)
(* playbooks and the maintenance scheduler): under one idempotency key one *)
(* request body is accepted, once, and accepting it orders one command for *)
(* each agent the body names, all of them or none.                         *)
(***************************************************************************)
CONSTANTS Keys, Bodies, Agents, TargetsOf

VARIABLES
    accepted,  \* the bodies accepted under each key
    orders     \* the agents that were sent a command under each key

Init ==
    /\ accepted = [k \in Keys |-> {}]
    /\ orders = [k \in Keys |-> {}]

Accept(k, b) ==
    /\ accepted[k] = {}
    /\ accepted' = [accepted EXCEPT ![k] = {b}]
    /\ orders' = [orders EXCEPT ![k] = TargetsOf[b]]

Next == \E k \in Keys, b \in Bodies : Accept(k, b)

Spec == Init /\ [][Next]_<<accepted, orders>>

=============================================================================
