-------------------------- MODULE MCRemoteActions --------------------------
(* Instances of RemoteActions for TLC.                                     *)
EXTENDS TaskResults, TLC

CONSTANTS a1, a2, b1, b2

\* Every body names all agents.
AllTargets == [b \in Bodies |-> Agents]

\* Two bodies that share agent a2.
SharedTargets == [b \in Bodies |-> IF b = b1 THEN {a1, a2} ELSE {a2}]

VARIABLE part

\* Three instances side by side, and not their product: two retries of
\* different bodies in create_task, agents that are revoked at any moment, and
\* two acknowledgements in ack.  Of those of agent a2 there is one at a time,
\* and the agents take turns to execute, but do not wait for each other's handlers.
Busy(records) == {h \in DOMAIN records : records[h].pc # "idle"}
OneTask == \A h \in Busy(creators') : creators'[h].body = b1 /\ Busy(creators') = {h}
Served(a) == {w \in Busy(workers') : workers'[w].agent = a}
TasksInit == ResultInit /\ part \in {"retries", "revocations", "acknowledgements"}
TasksNext ==
    /\ ResultNext
    /\ UNCHANGED part
    /\ part = "retries" => Busy(loop') = {}
    /\ part # "retries" => OneTask
    /\ part = "revocations" => Cardinality(Busy(workers')) <= 1
    /\ part = "acknowledgements" =>
          /\ \A a \in Agents : agents'[a] # "revoked"
          /\ Cardinality(Served(a2)) <= 1
          /\ Cardinality(Busy(loop')) <= 1
TasksSpec == TasksInit /\ [][TasksNext]_<<resultVars, part>>

\* The instance with fairness has one thread of each kind.
OrderInit == ResultInit /\ part = "revocations"
OrderSpec ==
    OrderInit /\ [][ResultNext /\ UNCHANGED part]_<<resultVars, part>> /\ Fairness

Symmetry == Permutations(Creators) \cup Permutations(Workers)

=============================================================================
