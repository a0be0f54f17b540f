-------------------------- MODULE MaintenanceRuns --------------------------
(***************************************************************************)
(* Maintenance schedules and the runs of their windows                     *)
(* (MaintenanceScheduleService).  run_due_schedules is called by the       *)
(* scheduler thread and by the administrators' run-due request; each call  *)
(* is an executor that claims an occurrence of a schedule by inserting a   *)
(* row with a UNIQUE run_key, dispatches its stages as remote action tasks *)
(* and then writes the result and the next occurrence.                     *)
(*                                                                         *)
(* The clock counts occurrences: the n-th window of a schedule is due when *)
(* now >= n, and _next_run_after(n) is n + 1, the first one strictly later.*)
(***************************************************************************)
EXTENDS Naturals, FiniteSets

CONSTANTS
    Schedules,
    Administered,  \* the schedules whose state administrators change
    StagesOf,      \* number of stages of the orchestration mode of a schedule
    Agents,        \* the agents the schedules target (_validate_target_agents: some)
    Executors,     \* calls of run_due_schedules that may overlap
    Admins,        \* update_schedule_state requests that may overlap
    Limits,        \* the limits calls use: the configured batch, the request's limit
    Horizon,       \* bound on the clock
    Crashes,       \* whether a call may die between two transactions
    None

MaxStages == 4  \* SAFE_SHUTDOWN_START

ASSUME MaintenanceRunsAssumption ==
    /\ Administered \subseteq Schedules
    /\ StagesOf \in [Schedules -> {1, MaxStages}]
    /\ Limits \subseteq Nat \ {0}
    /\ Horizon \in Nat
    /\ Crashes \in BOOLEAN
    /\ None \notin Schedules
    /\ Agents # {}

VARIABLES
    now,
    schedules,  \* table maintenance_schedules: status and next_run_at
    runs,       \* table maintenance_schedule_runs: status by schedule and occurrence
    accepted,   \* stage tasks accepted, by <<schedule, occurrence, stage>>
    orders,     \* the agents that were sent the command of a stage
    executors,
    admins

taskVars == <<accepted, orders>>
vars == <<now, schedules, runs, taskVars, executors, admins>>

Occurrences == 1..Horizon
StageKeys == Schedules \X Occurrences \X (1..MaxStages)

Tasks == INSTANCE TaskDispatch WITH
    Keys <- StageKeys, Bodies <- {"stage"}, TargetsOf <- [b \in {"stage"} |-> Agents]

NoSchedule == [status |-> "none", next_run |-> 0]    \* 0 is NULL
IdleExecutor == [pc |-> "idle", due |-> {}, row |-> <<None, 0>>, stage |-> 0,
                 failed |-> FALSE]
IdleAdmin == [pc |-> "idle", schedule |-> None, status |-> "none", next_run |-> 0]

Init ==
    /\ now = 0
    /\ schedules = [s \in Schedules |-> NoSchedule]
    /\ runs = [s \in Schedules |-> [n \in Occurrences |-> "none"]]
    /\ Tasks!Init
    /\ executors = [e \in Executors |-> IdleExecutor]
    /\ admins = [d \in Admins |-> IdleAdmin]

NotStrictlyLater(n) == n

\* _next_run_after skips a start that is not later than its argument.
NextRunAfter(n) == n + 1

Tick ==
    /\ now < Horizon
    /\ now' = now + 1
    /\ UNCHANGED <<schedules, runs, taskVars, executors, admins>>

----------------------------------------------------------------------------
(* create_schedule and update_schedule_state.                              *)

CreateSchedule(s, status) ==
    /\ schedules[s].status = "none"
    /\ schedules' = [schedules EXCEPT ![s] =
          [status |-> status,
           next_run |-> IF status = "ACTIVE" THEN NextRunAfter(now) ELSE 0]]
    /\ UNCHANGED <<now, runs, taskVars, executors, admins>>

\* The SELECT, and the next_run_at it will write back.
UpdateRead(d, s, status) ==
    /\ admins[d].pc = "idle"
    /\ s \in Administered
    /\ schedules[s].status # "none"
    /\ admins' = [admins EXCEPT ![d] =
          [pc |-> "write", schedule |-> s, status |-> status,
           next_run |-> IF status = "ACTIVE" THEN NextRunAfter(now)
                        ELSE schedules[s].next_run]]
    /\ UNCHANGED <<now, schedules, runs, taskVars, executors>>

UpdateWrite(d) ==
    /\ admins[d].pc = "write"
    /\ schedules' = [schedules EXCEPT ![admins[d].schedule] =
          [status |-> admins[d].status, next_run |-> admins[d].next_run]]
    /\ admins' = [admins EXCEPT ![d] = IdleAdmin]
    /\ UNCHANGED <<now, runs, taskVars, executors>>

----------------------------------------------------------------------------
(* run_due_schedules.                                                      *)

Due(s) == /\ schedules[s].status = "ACTIVE"
          /\ schedules[s].next_run \in 1..now

\* ORDER BY next_run_at ASC LIMIT ?
ReadDue(e) ==
    LET due == {s \in Schedules : Due(s)} IN
    /\ executors[e].pc = "idle"
    /\ \E S \in SUBSET due \ {{}}, limit \in Limits :
         /\ Cardinality(S) <= limit
         /\ S # due => Cardinality(S) = limit
         /\ \A s \in S, t \in due \ S : schedules[s].next_run <= schedules[t].next_run
         /\ executors' = [executors EXCEPT ![e].pc = "row",
               ![e].due = {<<s, schedules[s].next_run>> : s \in S}]
    /\ UNCHANGED <<now, schedules, runs, taskVars, admins>>

\* The executor goes to the next row it read, or returns.
RowDone(x) ==
    IF x.due = {} THEN IdleExecutor ELSE [IdleExecutor EXCEPT !.pc = "row", !.due = x.due]

\* SELECT ... WHERE run_key = ?: an occurrence that has a run is skipped.
CheckRow(e) ==
    LET x == executors[e] IN
    /\ x.pc = "row"
    /\ \E row \in x.due :
         /\ \A other \in x.due : row[2] <= other[2]
         /\ LET y == [x EXCEPT !.due = @ \ {row}] IN
            executors' = [executors EXCEPT ![e] =
               IF runs[row[1]][row[2]] = "none"
               THEN [y EXCEPT !.pc = "insert", !.row = row] ELSE RowDone(y)]
    /\ UNCHANGED <<now, schedules, runs, taskVars, admins>>

NoRunKeyIndex(row) == TRUE

\* run_key TEXT NOT NULL UNIQUE
RunKeyIsFree(row) == runs[row[1]][row[2]] = "none"

ClaimRun(e) ==
    LET row == executors[e].row IN
    /\ executors[e].pc = "insert"
    /\ RunKeyIsFree(row)
    /\ runs' = [runs EXCEPT ![row[1]][row[2]] = "RUNNING"]
    /\ executors' = [executors EXCEPT ![e].pc = "stage", ![e].stage = 1]
    /\ UNCHANGED <<now, schedules, taskVars, admins>>

\* The IntegrityError ends the call, with the rows it had still to serve.
ClaimLost(e) ==
    /\ executors[e].pc = "insert"
    /\ ~RunKeyIsFree(executors[e].row)
    /\ executors' = [executors EXCEPT ![e] = IdleExecutor]
    /\ UNCHANGED <<now, schedules, runs, taskVars, admins>>

\* create_task under the key <run_key>-stage-<i>.
DispatchStage(e) ==
    LET x == executors[e] IN
    /\ x.pc = "stage"
    /\ Tasks!Accept(<<x.row[1], x.row[2], x.stage>>, "stage")
    /\ executors' = [executors EXCEPT ![e] =
          IF x.stage = StagesOf[x.row[1]] THEN [@ EXCEPT !.pc = "finish"]
          ELSE [@ EXCEPT !.stage = x.stage + 1]]
    /\ UNCHANGED <<now, schedules, runs, admins>>

RefusedStageSkipped(e) ==
    LET x == executors[e] IN
    /\ x.pc = "stage"
    /\ executors' = [executors EXCEPT ![e] =
          IF x.stage = StagesOf[x.row[1]] THEN [@ EXCEPT !.pc = "finish", !.failed = TRUE]
          ELSE [@ EXCEPT !.stage = @ + 1, !.failed = TRUE]]
    /\ UNCHANGED <<now, schedules, runs, taskVars, admins>>

\* A ValueError of create_task (MISSING_AGENTS, REVOKED_AGENTS): break.
StageRefused(e) ==
    /\ executors[e].pc = "stage"
    /\ executors' = [executors EXCEPT ![e].pc = "finish", ![e].failed = TRUE]
    /\ UNCHANGED <<now, schedules, runs, taskVars, admins>>

AlwaysDone(failed) == "DONE"
RunStatus(failed) == IF failed THEN "FAILED" ELSE "DONE"

\* One transaction: the run, and the schedule's next occurrence.
FinishRun(e) ==
    LET x == executors[e] IN
    /\ x.pc = "finish"
    /\ runs' = [runs EXCEPT ![x.row[1]][x.row[2]] = RunStatus(x.failed)]
    /\ schedules' = [schedules EXCEPT ![x.row[1]].next_run = NextRunAfter(x.row[2])]
    /\ executors' = [executors EXCEPT ![e] = RowDone(x)]
    /\ UNCHANGED <<now, taskVars, admins>>

\* A crash of the server, or an exception other than ValueError.
ExecutorDies(e) ==
    /\ Crashes
    /\ executors[e].pc # "idle"
    /\ executors' = [executors EXCEPT ![e] = IdleExecutor]
    /\ UNCHANGED <<now, schedules, runs, taskVars, admins>>

Step(e) == \/ ReadDue(e) \/ CheckRow(e) \/ ClaimRun(e) \/ ClaimLost(e)
           \/ DispatchStage(e) \/ StageRefused(e) \/ FinishRun(e)

Next ==
    \/ Tick
    \/ \E s \in Schedules, status \in {"DRAFT", "ACTIVE", "PAUSED"} :
          \/ CreateSchedule(s, status)
          \/ \E d \in Admins : UpdateRead(d, s, status)
    \/ \E d \in Admins : UpdateWrite(d)
    \/ \E e \in Executors : Step(e) \/ ExecutorDies(e)

Spec == Init /\ [][Next]_vars

(* The scheduler thread calls run_due_schedules again after every interval *)
(* and a call makes progress.                                              *)
FairSpec == Spec /\ \A e \in Executors : WF_vars(Step(e))

----------------------------------------------------------------------------
TypeOK ==
    /\ now \in 0..Horizon
    /\ schedules \in [Schedules ->
          [status : {"none", "DRAFT", "ACTIVE", "PAUSED"}, next_run : 0..Horizon + 1]]
    /\ runs \in [Schedules -> [Occurrences -> {"none", "RUNNING", "DONE", "FAILED"}]]
    /\ accepted \in [StageKeys -> SUBSET {"stage"}]
    /\ orders \in [StageKeys -> SUBSET Agents]
    /\ executors \in [Executors ->
          [pc : {"idle", "row", "insert", "stage", "finish"},
           due : SUBSET (Schedules \X Occurrences),
           row : (Schedules \cup {None}) \X (0..Horizon), stage : Nat,
           failed : BOOLEAN]]
    /\ admins \in [Admins ->
          [pc : {"idle", "write"}, schedule : Schedules \cup {None},
           status : {"none", "DRAFT", "ACTIVE", "PAUSED"}, next_run : 0..Horizon + 1]]

Sent(s, n, i) == orders[<<s, n, i>>] # {}

(* A window's stages are sent in their order and none before its time: an  *)
(* agent never gets the restart of a window without the shutdown, nor one  *)
(* stage after an earlier one was refused, whichever calls overlap or die. *)
StagesInOrder ==
    \A s \in Schedules, n \in Occurrences : \A i \in 1..StagesOf[s] :
        Sent(s, n, i) =>
            /\ n <= now
            /\ runs[s][n] # "none"
            /\ \A j \in 1..i : Sent(s, n, j)

(* One call executes an occurrence, however many found it due, and only    *)
(* while its run is open.                                                  *)
OneExecutorPerRun ==
    \A e, f \in Executors :
        executors[e].pc \in {"stage", "finish"} =>
            /\ runs[executors[e].row[1]][executors[e].row[2]] = "RUNNING"
            /\ /\ executors[f].pc \in {"stage", "finish"}
               /\ executors[e].row = executors[f].row
               => e = f

(* A run shown as DONE sent every stage of its window; a FAILED one did    *)
(* not.                                                                    *)
RunTellsStages ==
    \A s \in Schedules, n \in Occurrences :
        /\ runs[s][n] = "DONE" => \A i \in 1..StagesOf[s] : Sent(s, n, i)
        /\ runs[s][n] = "FAILED" => \E i \in 1..StagesOf[s] : ~Sent(s, n, i)

(* Calls that overlap never move a schedule back to an earlier window and  *)
(* never over a window that was not run, when administrators leave its     *)
(* state alone.                                                            *)
NextRunAdvances ==
    [][\A s \in Schedules \ Administered :
          schedules[s].next_run # 0 /\ schedules[s]' # schedules[s] =>
              /\ schedules'[s].next_run = schedules[s].next_run + 1
              /\ runs'[s][schedules[s].next_run] \in {"DONE", "FAILED"}]_vars

(* A due window is run (test_phase12_background_scheduler:                 *)
(* test_background_scheduler_runs_due_windows_automatically) and the       *)
(* schedule moves on, unless an administrator takes it out of service.     *)
DueIsServed ==
    \A s \in Schedules, n \in Occurrences :
        Due(s) /\ schedules[s].next_run = n ~>
            \/ schedules[s].status # "ACTIVE"
            \/ schedules[s].next_run # n /\ runs[s][n] # "RUNNING"

=============================================================================
