---------------------------- MODULE PlaybookRuns ----------------------------
(***************************************************************************)
(* Runs of playbooks (PlaybookService.execute_playbook and decide_run).    *)
(* The approval that completes a run calls create_task, whose promise is   *)
(* TaskDispatch: the idempotency key is the run, the body tells apart the  *)
(* reason that was typed.  The run's row is read on one connection, the    *)
(* task is created on a second and the row is written on a third: three    *)
(* steps another request may come between.                                 *)
(***************************************************************************)
EXTENDS Naturals, FiniteSets

CONSTANTS
    Runs,         \* run ids, drawn at random, never twice
    Undisturbed,  \* the runs whose requests neither overlap nor are cut short
    Admins,       \* administrators
    Reasons,      \* reasons, as far as request_hash tells them apart
    Agents,       \* the agents the playbooks target
    Handlers,     \* server threads that serve the two requests
    NoValue

ASSUME PlaybookAssumption ==
    /\ Undisturbed \subseteq Runs
    /\ NoValue \notin Runs \cup Admins \cup Reasons
    /\ IsFiniteSet(Admins)

VARIABLES
    approval_mode,  \* of the playbook that a run executes
    playbook_runs,  \* table playbook_runs
    accepted,       \* the task accepted under the key of a run
    orders,         \* the agents that were sent its command
    handlers,       \* requests in flight
    run_approvals   \* <<run, user>>: approvals that took effect (history)

taskVars == <<accepted, orders>>
playbookVars == <<approval_mode, playbook_runs, taskVars, handlers, run_approvals>>

Tasks == INSTANCE TaskDispatch WITH
    Keys <- Runs, Bodies <- Reasons, TargetsOf <- [b \in Reasons |-> Agents]

PENDING_RUN_STATUSES == {"PENDING_APPROVAL", "PARTIALLY_APPROVED"}
RunStatuses == PENDING_RUN_STATUSES \cup {"none", "REJECTED", "DISPATCHED", "FAILED"}

NoRun == [status |-> "none", requested_by |-> NoValue, first |-> NoValue,
          second |-> NoValue, task |-> FALSE]
IdleHandler == [pc |-> "idle", run |-> NoValue, actor |-> NoValue, reason |-> NoValue,
                record |-> NoRun, next_status |-> "none"]

PlaybookInit ==
    /\ approval_mode \in [Runs -> {"AUTO", "MANUAL", "TWO_PERSON"}]
    /\ playbook_runs = [r \in Runs |-> NoRun]
    /\ Tasks!Init
    /\ handlers = [h \in Handlers |-> IdleHandler]
    /\ run_approvals = {}

Busy(r) == \E h \in Handlers : handlers[h].run = r

End(h) == handlers' = [handlers EXCEPT ![h] = IdleHandler]

----------------------------------------------------------------------------
(* execute_playbook.                                                       *)

Unused(r) ==
    /\ playbook_runs[r] = NoRun
    /\ accepted[r] = {}
    /\ ~Busy(r)

\* An AUTO run is dispatched before its row exists.
ExecutePlaybook(h, r, u, b) ==
    /\ handlers[h].pc = "idle"
    /\ Unused(r)
    /\ handlers' = [handlers EXCEPT ![h] =
          [IdleHandler EXCEPT !.pc = IF approval_mode[r] = "AUTO" THEN "auto" ELSE "insert",
                              !.run = r, !.actor = u, !.reason = b,
                              !.next_status = "PENDING_APPROVAL"]]
    /\ UNCHANGED <<approval_mode, playbook_runs, taskVars, run_approvals>>

InsertRun(h) ==
    LET e == handlers[h] IN
    /\ e.pc = "insert"
    /\ playbook_runs' = [playbook_runs EXCEPT ![e.run] =
          [NoRun EXCEPT !.status = e.next_status, !.requested_by = e.actor,
                        !.task = e.next_status = "DISPATCHED"]]
    /\ End(h)
    /\ UNCHANGED <<approval_mode, taskVars, run_approvals>>

----------------------------------------------------------------------------
(* decide_run.                                                             *)

SelfDecidable(row, u) == row.status \in PENDING_RUN_STATUSES

\* RUN_NOT_PENDING and APPROVER_MUST_BE_DISTINCT.
Decidable(row, u) == row.status \in PENDING_RUN_STATUSES /\ u # row.requested_by

AnyApprover(row, u) == TRUE

\* APPROVER_MUST_BE_DISTINCT, for the approval that completes the run.
OtherApprover(row, u) == u # row.first

\* The SELECT and the branch taken on the row it returned.
DecideRunRead(h, r, u, b) ==
    LET row == playbook_runs[r] IN
    /\ handlers[h].pc = "idle"
    /\ r \in Undisturbed => ~Busy(r)
    /\ Decidable(row, u)
    /\ \E pc \in {"reject", "first", "dispatch"} :
         /\ pc = "first" => approval_mode[r] = "TWO_PERSON" /\ row.first = NoValue
         /\ pc = "dispatch" => /\ ~(approval_mode[r] = "TWO_PERSON" /\ row.first = NoValue)
                               /\ OtherApprover(row, u)
         /\ handlers' = [handlers EXCEPT ![h] =
               [pc |-> pc, run |-> r, actor |-> u, reason |-> b,
                record |-> row, next_status |-> row.status]]
    /\ UNCHANGED <<approval_mode, playbook_runs, taskVars, run_approvals>>

WriteRunReject(h) ==
    LET e == handlers[h] IN
    /\ e.pc = "reject"
    /\ playbook_runs' = [playbook_runs EXCEPT ![e.run].status = "REJECTED"]
    /\ End(h)
    /\ UNCHANGED <<approval_mode, taskVars, run_approvals>>

Partial(row, u) == [row EXCEPT !.status = "PARTIALLY_APPROVED", !.first = u]

WriteFirstApproval(h) ==
    LET e == handlers[h] IN
    /\ e.pc = "first"
    /\ playbook_runs' = [playbook_runs EXCEPT ![e.run] = Partial(@, e.actor)]
    /\ run_approvals' = run_approvals \cup {<<e.run, e.actor>>}
    /\ End(h)
    /\ UNCHANGED <<approval_mode, taskVars>>

----------------------------------------------------------------------------
(* _dispatch_task: create_task under the key playbook-run:<run_id>.        *)

Dispatched(h, status) ==
    /\ handlers' = [handlers EXCEPT
          ![h].pc = IF @ = "auto" THEN "insert" ELSE "apply",
          ![h].next_status = status]
    /\ run_approvals' = IF handlers[h].pc = "auto" THEN run_approvals
                    ELSE run_approvals \cup {<<handlers[h].run, handlers[h].actor>>}
    /\ UNCHANGED <<approval_mode, playbook_runs>>

\* A new task, or the one that was accepted with the same reason.
DispatchTask(h) ==
    LET e == handlers[h] IN
    /\ e.pc \in {"auto", "dispatch"}
    /\ \/ Tasks!Accept(e.run, e.reason)
       \/ accepted[e.run] = {e.reason} /\ UNCHANGED taskVars
    /\ Dispatched(h, "DISPATCHED")

RefusalIsSuccess(h) ==
    /\ handlers[h].pc \in {"auto", "dispatch"}
    /\ accepted[handlers[h].run] # {handlers[h].reason}
    /\ Dispatched(h, "DISPATCHED")
    /\ UNCHANGED taskVars

\* A ValueError: IDEMPOTENCY_KEY_CONFLICT, MISSING_AGENTS or REVOKED_AGENTS.
DispatchRefused(h) ==
    /\ handlers[h].pc \in {"auto", "dispatch"}
    /\ accepted[handlers[h].run] # {handlers[h].reason}
    /\ Dispatched(h, "FAILED")
    /\ UNCHANGED taskVars

\* The IntegrityError of create_task that lost a race for the key.
DispatchRaises(h) ==
    /\ handlers[h].pc \in {"auto", "dispatch"}
    /\ accepted[handlers[h].run] # {}
    /\ End(h)
    /\ UNCHANGED <<approval_mode, playbook_runs, taskVars, run_approvals>>

\* first_approver_user_id = COALESCE(first_approver_user_id, ?); task_id NULL
\* after a refusal, whatever it was.
Decided(row, e) ==
    [row EXCEPT !.status = e.next_status,
                !.first = IF @ = NoValue THEN e.actor ELSE @,
                !.second = IF approval_mode[e.run] = "TWO_PERSON" THEN e.actor ELSE @,
                !.task = e.next_status = "DISPATCHED"]

ApplyDecision(h) ==
    LET e == handlers[h] IN
    /\ e.pc = "apply"
    /\ playbook_runs' = [playbook_runs EXCEPT ![e.run] = Decided(@, e)]
    /\ End(h)
    /\ UNCHANGED <<approval_mode, taskVars, run_approvals>>

HandlerDies(h) ==
    /\ handlers[h].pc # "idle"
    /\ handlers[h].run \notin Undisturbed
    /\ End(h)
    /\ UNCHANGED <<approval_mode, playbook_runs, taskVars, run_approvals>>

PlaybookNext ==
    \/ \E h \in Handlers, r \in Runs, u \in Admins, b \in Reasons :
          ExecutePlaybook(h, r, u, b) \/ DecideRunRead(h, r, u, b)
    \/ \E h \in Handlers :
          \/ InsertRun(h) \/ WriteRunReject(h) \/ WriteFirstApproval(h)
          \/ DispatchTask(h) \/ DispatchRefused(h) \/ DispatchRaises(h)
          \/ ApplyDecision(h) \/ HandlerDies(h)

PlaybookSpec == PlaybookInit /\ [][PlaybookNext]_playbookVars

----------------------------------------------------------------------------
RunRow == [status : RunStatuses, requested_by : Admins \cup {NoValue},
        first : Admins \cup {NoValue}, second : Admins \cup {NoValue}, task : BOOLEAN]

PlaybookTypeOK ==
    /\ approval_mode \in [Runs -> {"AUTO", "MANUAL", "TWO_PERSON"}]
    /\ playbook_runs \in [Runs -> RunRow]
    /\ accepted \in [Runs -> SUBSET Reasons]
    /\ orders \in [Runs -> SUBSET Agents]
    /\ handlers \in [Handlers ->
          [pc : {"idle", "insert", "auto", "reject", "first", "dispatch", "apply"},
           run : Runs \cup {NoValue}, actor : Admins \cup {NoValue},
           reason : Reasons \cup {NoValue}, record : RunRow, next_status : RunStatuses]]
    /\ run_approvals \subseteq Runs \X Admins

Needed(r) == CASE approval_mode[r] = "AUTO" -> 0
               [] approval_mode[r] = "MANUAL" -> 1
               [] approval_mode[r] = "TWO_PERSON" -> 2

(* No agent gets the command of a run before as many distinct people as    *)
(* its mode asks for have approved it, the requester not counted, whatever *)
(* decisions were made at the same time or cut short.                      *)
DispatchNeedsApproval ==
    \A r \in Runs :
        orders[r] # {} =>
            Cardinality({u \in Admins \ {playbook_runs[r].requested_by} :
                            <<r, u>> \in run_approvals}) >= Needed(r)

(* A run is shown with a task only when its agents were sent the command.  *)
(* And when no request for it is in flight, a run whose command was sent   *)
(* says so and names the approvers, provided that its requests did not     *)
(* overlap and none was cut short, whatever happened to other runs.        *)
RunTellsDispatch ==
    /\ \A r \in Runs :
          playbook_runs[r].status = "DISPATCHED" \/ playbook_runs[r].task =>
              accepted[r] # {} /\ orders[r] = Agents
    /\ \A r \in Undisturbed :
          orders[r] # {} /\ ~Busy(r) =>
              /\ playbook_runs[r].status = "DISPATCHED"
              /\ Needed(r) = 2 => playbook_runs[r].first # playbook_runs[r].second

RunStageOf(status) ==
    CASE status = "none"                     -> "none"
      [] status \in PENDING_RUN_STATUSES     -> "pending"
      [] status \in {"DISPATCHED", "FAILED"} -> "approved"
      [] status = "REJECTED"                 -> "rejected"

RunApprovers(row) == {row.first, row.second} \ {NoValue}

RunWorkflow == INSTANCE Approval WITH
    Items     <- Undisturbed,
    Users     <- Admins,
    stage     <- [r \in Undisturbed |-> RunStageOf(playbook_runs[r].status)],
    needed    <- [r \in Undisturbed |-> IF playbook_runs[r].status = "none" THEN 0
                                 ELSE Needed(r)],
    opener    <- [r \in Undisturbed |-> {playbook_runs[r].requested_by} \ {NoValue}],
    approvers <- [r \in Undisturbed |-> RunApprovers(playbook_runs[r])]

(* The row of such a run follows the approval workflow: nobody approves    *)
(* twice or a request of one's own, and a decided run is never decided     *)
(* again.                                                                  *)
RunsImplementApproval == RunWorkflow!Spec

=============================================================================
