------------------------- MODULE MCMaintenanceRuns -------------------------
(* Instances of MaintenanceRuns for TLC.                                   *)
EXTENDS MaintenanceRuns, TLC

CONSTANTS s1, s2

\* A shutdown-and-start schedule (four stages) and a restart-only one.
FourAndOne == [s \in Schedules |-> IF s = s1 THEN 4 ELSE 1]

Symmetry == Permutations(Executors)

=============================================================================
