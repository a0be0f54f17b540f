---------------------------- MODULE MCGovernance ----------------------------
(* One instance of each of the administrators' services, and the life of   *)
(* the scheduler's threads.  They share no table and no thread of control, *)
(* so that their interleavings would add nothing:                          *)
(* "service" picks the one that a behaviour exercises.                     *)
EXTENDS ChangeControl, PlaybookRuns, FeatureFlags, PatchUpdates, FleetMonitor,
        SchedulerThread, TLC

VARIABLE service

all == <<service, vars, flagVars, patchVars, fleetVars, playbookVars, threadVars>>

GovernanceInit ==
    /\ service \in {"changes", "playbooks", "flags", "patches", "fleet", "scheduler"}
    /\ Init /\ PlaybookInit /\ FlagInit /\ PatchInit /\ FleetInit /\ ThreadInit
    /\ service # "playbooks" => \A r \in Runs : approval_mode[r] = "AUTO"

ChangesNext == service = "changes" /\ Next /\
    UNCHANGED <<service, flagVars, patchVars, fleetVars, playbookVars, threadVars>>
PlaybooksNext == service = "playbooks" /\ PlaybookNext /\
    UNCHANGED <<service, vars, flagVars, patchVars, fleetVars, threadVars>>
FlagsNext == service = "flags" /\ FlagNext /\
    UNCHANGED <<service, vars, patchVars, fleetVars, playbookVars, threadVars>>
PatchesNext == service = "patches" /\ PatchNext /\
    UNCHANGED <<service, vars, flagVars, fleetVars, playbookVars, threadVars>>
MonitorNext == service = "fleet" /\ FleetNext /\
    UNCHANGED <<service, vars, flagVars, patchVars, playbookVars, threadVars>>
SchedulerNext == service = "scheduler" /\ ThreadNext /\
    UNCHANGED <<service, vars, flagVars, patchVars, fleetVars, playbookVars>>

GovernanceSpec == GovernanceInit /\
    [][\/ ChangesNext \/ PlaybooksNext \/ FlagsNext
       \/ PatchesNext \/ MonitorNext \/ SchedulerNext]_all

\* Change requests and playbook runs both implement Approval.
ApprovalsImplemented == ImplementsApproval /\ RunsImplementApproval

\* The threads of all services are the same, and so are the administrators.
Symmetry == Permutations(Users) \cup Permutations(Reasons) \cup Permutations(Handlers)

=============================================================================
