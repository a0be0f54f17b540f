---------------------------- MODULE MCEnrollment ----------------------------
(* Who may join and what unlocks the server: instances of Enrollment and   *)
(* of Activation.  They share no table, and the gate stands before every   *)
(* route of Enrollment: "part" picks the one that a behaviour exercises.   *)
EXTENDS Enrollment, Activation, TLC

CONSTANTS t1, t2, c1, c2, c3

VARIABLE part

TwoAndOne == [t \in Tokens |-> IF t = t1 THEN 2 ELSE 1]

\* c3 is c2 with a blank before its name.
BlankBefore == [c \in Clients |-> IF c = c3 THEN c2 ELSE c]

AdmissionInit ==
    /\ part \in {"enrollment", "activation"}
    /\ Init /\ ActivationInit
    /\ part = "enrollment" => license_file = NoLicense /\ rejected = {} /\ untampered
AdmissionNext ==
    \/ part = "enrollment" /\ Next /\ UNCHANGED <<part, activationVars>>
    \/ part = "activation" /\ ActivationNext /\ UNCHANGED <<part, vars>>
AdmissionSpec == AdmissionInit /\ [][AdmissionNext]_<<part, vars, activationVars>>

\* h1, h2 are requests of both.
Symmetry == Permutations(Handlers) \cup Permutations(Licenses)

=============================================================================
