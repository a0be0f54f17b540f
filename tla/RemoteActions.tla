--------------------------- MODULE RemoteActions ---------------------------
(***************************************************************************)
(* Remote action tasks of the ECIMS server, the agent command queue they   *)
(* feed, and the agent loop that executes and acknowledges commands.       *)
(*                                                                         *)
(* Every HTTP handler runs in a thread of its own over SQLite.  A handler  *)
(* that begins with a SELECT reads in autocommit mode and opens its write  *)
(* transaction only at its first INSERT or UPDATE, so a handler is one     *)
(* action per SELECT-then-decide plus one action for the transaction.      *)
(*                                                                         *)
(* A command is named by its task and its agent: create_task is the only   *)
(* writer of task commands and issues one per (task, agent), the table     *)
(* agent_task_targets having UNIQUE(task_id, agent_id).  Commands of one   *)
(* agent are ordered by their task, as their row ids are.                  *)
(***************************************************************************)
EXTENDS Integers, FiniteSets

CONSTANTS
    Agents,        \* rows the agents table can hold
    Keys,          \* idempotency keys
    Bodies,        \* what request_hash tells apart: action, agents, reason, metadata
    TargetsOf,     \* the agents a request body names
    MaxTasks,      \* bound on the rows of agent_tasks
    Creators,      \* server threads that serve create_task
    Workers,       \* server threads that serve acknowledgements
    MtlsRequired,  \* settings.mtls_required and settings.mtls_enabled and policy
    None           \* no value

ASSUME RemoteActionsAssumption ==
    /\ IsFiniteSet(Agents)
    /\ MaxTasks \in Nat
    /\ TargetsOf \in [Bodies -> (SUBSET Agents) \ {{}}]
    /\ MtlsRequired \in BOOLEAN
    /\ None \notin Keys \cup Bodies \cup Workers

VARIABLES
    agents,              \* agents: not registered, active or agent_revoked
    agent_tasks,         \* table agent_tasks
    agent_task_targets,  \* status column of agent_task_targets
    agent_commands,      \* status column of agent_commands
    last_task,           \* highest row id of agent_tasks
    creators,            \* create_task handlers in flight
    workers,             \* ack handlers in flight
    loop,                \* process_commands of each agent
    outcomes,            \* how its executions of a command ended (history)
    replies              \* <<key, body, task>> answered by create_task (history)

serverVars == <<agent_tasks, agent_task_targets, agent_commands, last_task>>
vars == <<agents, serverVars, creators, workers, loop, outcomes, replies>>

TaskIds == 1..MaxTasks
TargetStatus == {"none", "SENT", "DONE", "FAILED"}
CommandStatus == {"none", "PENDING", "APPLIED", "FAILED"}
TaskStatus == {"none", "PENDING", "SENT", "ACK", "DONE", "FAILED"}
Outcome == {"ok", "fail", "raise"}

NoTask == [key |-> None, body |-> None, status |-> "none", target_count |-> 0,
           sent_count |-> 0, ack_count |-> 0, done_count |-> 0,
           failed_count |-> 0, completed |-> FALSE]
IdleCreator == [pc |-> "idle", key |-> None, body |-> None]
IdleWorker == [pc |-> "idle", agent |-> None, task |-> 0, applied |-> FALSE]
IdleLoop == [pc |-> "idle", batch |-> {}, cur |-> 0, res |-> "fail", on |-> None]

Init ==
    /\ agents = [a \in Agents |-> "absent"]
    /\ agent_tasks = [t \in TaskIds |-> NoTask]
    /\ agent_task_targets = [t \in TaskIds |-> [a \in Agents |-> "none"]]
    /\ agent_commands = [t \in TaskIds |-> [a \in Agents |-> "none"]]
    /\ last_task = 0
    /\ creators = [h \in Creators |-> IdleCreator]
    /\ workers = [w \in Workers |-> IdleWorker]
    /\ loop = [a \in Agents |-> IdleLoop]
    /\ outcomes = [t \in TaskIds |-> [a \in Agents |-> {}]]
    /\ replies = {}

----------------------------------------------------------------------------
(* The agents table.                                                       *)

RegisterAgent(a) ==
    /\ agents[a] = "absent"
    /\ agents' = [agents EXCEPT ![a] = "active"]
    /\ UNCHANGED <<serverVars, creators, workers, loop, outcomes, replies>>

RevokeAgent(a) ==
    /\ agents[a] # "absent"
    /\ agents' = [agents EXCEPT ![a] = "revoked"]
    /\ UNCHANGED <<serverVars, creators, workers, loop, outcomes, replies>>

RestoreAgent(a) ==
    /\ agents[a] # "absent"
    /\ agents' = [agents EXCEPT ![a] = "active"]
    /\ UNCHANGED <<serverVars, creators, workers, loop, outcomes, replies>>

----------------------------------------------------------------------------
(* RemoteActionTaskService.create_task.  A body stands for a request that  *)
(* has passed the validations made before the first query.                 *)

TasksWith(k) == {t \in 1..last_task : agent_tasks[t].key = k}

\* idempotency_key TEXT NOT NULL UNIQUE
KeyIsFree(k) == TasksWith(k) = {}

CreateLookup(h, k, b) ==
    /\ creators[h].pc = "idle"
    /\ IF KeyIsFree(k)
       THEN /\ creators' = [creators EXCEPT
                              ![h] = [pc |-> "checked", key |-> k, body |-> b]]
            /\ UNCHANGED replies
       ELSE \E t \in TasksWith(k) :
            /\ agent_tasks[t].body = b        \* else IDEMPOTENCY_KEY_CONFLICT
            /\ replies' = replies \cup {<<k, b, t>>}
            /\ UNCHANGED creators
    /\ UNCHANGED <<agents, serverVars, workers, loop, outcomes>>

\* The second SELECT: MISSING_AGENTS and REVOKED_AGENTS end the request.
CreateValidate(h) ==
    /\ creators[h].pc = "checked"
    /\ creators' = [creators EXCEPT ![h] =
          IF \A a \in TargetsOf[creators[h].body] : agents[a] = "active"
          THEN [@ EXCEPT !.pc = "validated"]
          ELSE IdleCreator]
    /\ UNCHANGED <<agents, serverVars, workers, loop, outcomes, replies>>

SentTask(k, b) ==
    [NoTask EXCEPT !.key = k, !.body = b, !.status = "SENT",
                   !.target_count = Cardinality(TargetsOf[b]),
                   !.sent_count = Cardinality(TargetsOf[b])]

IssuedWhileActive(b, status) ==
    [a \in Agents |-> IF a \in TargetsOf[b] /\ agents[a] = "active"
                      THEN status ELSE "none"]

\* The loop over the agents of the request: one row each.
IssuedTo(b, status) ==
    [a \in Agents |-> IF a \in TargetsOf[b] THEN status ELSE "none"]

\* One transaction: the task, its targets and their commands.
CreateInsert(h) ==
    LET k == creators[h].key
        b == creators[h].body
        t == last_task + 1
    IN  /\ creators[h].pc = "validated"
        /\ last_task < MaxTasks
        /\ KeyIsFree(k)
        /\ last_task' = t
        /\ agent_tasks' = [agent_tasks EXCEPT ![t] = SentTask(k, b)]
        /\ agent_task_targets' = [agent_task_targets EXCEPT ![t] = IssuedTo(b, "SENT")]
        /\ agent_commands' = [agent_commands EXCEPT ![t] = IssuedTo(b, "PENDING")]
        /\ replies' = replies \cup {<<k, b, t>>}
        /\ creators' = [creators EXCEPT ![h] = IdleCreator]
        /\ UNCHANGED <<agents, workers, loop, outcomes>>

\* idempotency_key is UNIQUE: the later of two racing inserts is refused.
CreateRefused(h) ==
    /\ creators[h].pc = "validated"
    /\ ~KeyIsFree(creators[h].key)
    /\ creators' = [creators EXCEPT ![h] = IdleCreator]
    /\ UNCHANGED <<agents, serverVars, workers, loop, outcomes, replies>>

----------------------------------------------------------------------------
(* DeviceControlManager.process_commands.  The loop fetches the PENDING    *)
(* commands of its agent, executes each and acknowledges it.  A failing    *)
(* acknowledgement is answered by a second one with applied = False, and   *)
(* when that fails too the rest of the batch is dropped.                   *)

\* require_mtls_client_identity refuses a revoked agent when mTLS is on.
Admitted(a) == MtlsRequired => agents[a] = "active"

OfferedOnce(a) ==
    {t \in 1..last_task : agent_commands[t][a] = "PENDING" /\ outcomes[t][a] = {}}

\* list_pending
PendingOf(a) == {t \in 1..last_task : agent_commands[t][a] = "PENDING"}

Poll(a) ==
    LET batch == PendingOf(a) IN
    /\ loop[a].pc = "idle"
    /\ Admitted(a)
    /\ batch # {}
    /\ loop' = [loop EXCEPT ![a] = [IdleLoop EXCEPT !.pc = "run", !.batch = batch]]
    /\ UNCHANGED <<agents, serverVars, creators, workers, outcomes, replies>>

LatestFirst(t, batch) == \A u \in batch : t >= u

\* ORDER BY id ASC
OldestFirst(t, batch) == \A u \in batch : t <= u

Recorded(res) == IF res = "ok" THEN "ok" ELSE "fail"

\* A result of "raise" is an exception: only the second ack is attempted.
Execute(a) ==
    /\ loop[a].pc = "run"
    /\ \E t \in loop[a].batch, res \in Outcome :
         /\ OldestFirst(t, loop[a].batch)
         /\ loop' = [loop EXCEPT ![a].pc = IF res = "raise" THEN "nack" ELSE "ack",
                                 ![a].cur = t, ![a].res = res]
         /\ outcomes' = [outcomes EXCEPT ![t][a] = @ \cup {Recorded(res)}]
    /\ UNCHANGED <<agents, serverVars, creators, workers, replies>>

\* What the loop does when an acknowledgement raises.
AfterFailedCall(l) ==
    IF l.pc \in {"ack", "wait_ack"} THEN [l EXCEPT !.pc = "nack", !.on = None]
                                    ELSE IdleLoop

AfterAck(l) ==
    LET rest == l.batch \ {l.cur} IN
    IF rest = {} THEN IdleLoop
                 ELSE [IdleLoop EXCEPT !.pc = "run", !.batch = rest]

AlwaysApplied(l) == l.pc = "ack"

\* The applied flag of the call: the second call always carries False.
AppliedFlag(l) == l.pc = "ack" /\ l.res = "ok"

SendAck(a, w) ==
    /\ loop[a].pc \in {"ack", "nack"}
    /\ workers[w].pc = "idle"
    /\ Admitted(a)
    /\ workers' = [workers EXCEPT ![w] =
          [pc |-> "received", agent |-> a, task |-> loop[a].cur,
           applied |-> AppliedFlag(loop[a])]]
    /\ loop' = [loop EXCEPT
          ![a].pc = IF @ = "ack" THEN "wait_ack" ELSE "wait_nack", ![a].on = w]
    /\ UNCHANGED <<agents, serverVars, creators, outcomes, replies>>

\* The request is lost or refused, or the answer does not come in time.
CallFails(a) ==
    /\ loop[a].pc \in {"ack", "nack", "wait_ack", "wait_nack"}
    /\ loop' = [loop EXCEPT ![a] = AfterFailedCall(@)]
    /\ UNCHANGED <<agents, serverVars, creators, workers, outcomes, replies>>

AgentRestart(a) ==
    /\ loop[a].pc # "idle"
    /\ loop' = [loop EXCEPT ![a] = IdleLoop]
    /\ UNCHANGED <<agents, serverVars, creators, workers, outcomes, replies>>

----------------------------------------------------------------------------
(* AgentCommandService.ack and sync_after_command_ack.                     *)

\* The handler of w ends; an agent still waiting for it gets the answer.
Answer(w, ok) ==
    LET a == workers[w].agent IN
    /\ workers' = [workers EXCEPT ![w] = IdleWorker]
    /\ loop' = IF loop[a].on = w
               THEN [loop EXCEPT ![a] = IF ok THEN AfterAck(@) ELSE AfterFailedCall(@)]
               ELSE loop

\* WHERE id = ? AND agent_id = ? AND status = 'PENDING'
StillPending(c) == agent_commands[c.task][c.agent] = "PENDING"

\* SELECT of the command; 404 when it is not PENDING.
AckRead(w) ==
    /\ workers[w].pc = "received"
    /\ IF StillPending(workers[w])
       THEN workers' = [workers EXCEPT ![w].pc = "pending"] /\ UNCHANGED loop
       ELSE Answer(w, FALSE)
    /\ UNCHANGED <<agents, serverVars, creators, outcomes, replies>>

TargetResult(applied) == IF applied THEN "DONE" ELSE "FAILED"
AckStatus(applied) == IF applied THEN "APPLIED" ELSE "FAILED"

\* UPDATE ... WHERE id = ?, committed before the task is synchronised.
AckUpdate(w) ==
    LET c == workers[w] IN
    /\ c.pc = "pending"
    /\ agent_commands' = [agent_commands EXCEPT ![c.task][c.agent] =
                            AckStatus(c.applied)]
    /\ workers' = [workers EXCEPT ![w].pc = "sync"]
    /\ UNCHANGED <<agents, agent_tasks, agent_task_targets, last_task, creators,
                   loop, outcomes, replies>>

FailedUpdateIgnored(w) ==
    /\ workers[w].pc = "pending"
    /\ workers' = [workers EXCEPT ![w].pc = "sync"]
    /\ UNCHANGED <<agents, serverVars, creators, loop, outcomes, replies>>

\* The UPDATE raises (database is locked): rolled back, the agent sees a 500.
AckError(w) ==
    /\ workers[w].pc = "pending"
    /\ Answer(w, FALSE)
    /\ UNCHANGED <<agents, serverVars, creators, outcomes, replies>>

SyncRead(w) ==
    LET c == workers[w] IN
    /\ c.pc = "sync"
    /\ IF agent_task_targets[c.task][c.agent] \in {"DONE", "FAILED"}
       THEN Answer(w, TRUE)
       ELSE workers' = [workers EXCEPT ![w].pc = "refresh"] /\ UNCHANGED loop
    /\ UNCHANGED <<agents, serverVars, creators, outcomes, replies>>

CountOf(tgt, S) == Cardinality({a \in Agents : tgt[a] \in S})

DoneFirst(total, sent, done, failed) ==
    IF total > 0 /\ done + failed = total THEN "DONE"
    ELSE IF failed > 0 THEN "FAILED"
    ELSE IF done > 0 THEN "ACK" ELSE IF sent > 0 THEN "SENT" ELSE "PENDING"

MostlyFailed(total, sent, done, failed) ==
    IF failed > done THEN "FAILED"
    ELSE IF total > 0 /\ done = total THEN "DONE"
    ELSE IF done > 0 THEN "ACK" ELSE IF sent > 0 THEN "SENT" ELSE "PENDING"

NeverFailed(total, sent, done, failed) ==
    IF total > 0 /\ done = total THEN "DONE"
    ELSE IF done + failed > 0 THEN "ACK" ELSE IF sent > 0 THEN "SENT" ELSE "PENDING"

StatusOf(total, sent, done, failed) ==
    IF failed > 0 THEN "FAILED"
    ELSE IF total > 0 /\ done = total THEN "DONE"
    ELSE IF done > 0 THEN "ACK" ELSE IF sent > 0 THEN "SENT" ELSE "PENDING"

\* _refresh_task_status_with_conn over the targets tgt of the task.
Refreshed(task, tgt) ==
    LET total  == CountOf(tgt, {"SENT", "DONE", "FAILED"})
        sent   == CountOf(tgt, {"SENT"})
        done   == CountOf(tgt, {"DONE"})
        failed == CountOf(tgt, {"FAILED"})
        status == StatusOf(total, sent, done, failed)
    IN  [task EXCEPT !.status = status, !.target_count = total,
                     !.sent_count = sent, !.ack_count = CountOf(tgt, {"DONE", "FAILED"}),
                     !.done_count = done, !.failed_count = failed,
                     !.completed = @ \/ status \in {"DONE", "FAILED"}]

\* One transaction: the target and the counts and status of its task.
SyncWrite(w) ==
    LET c == workers[w]
        tgt == [agent_task_targets[c.task] EXCEPT ![c.agent] =
                  TargetResult(c.applied)]
    IN  /\ c.pc = "refresh"
        /\ agent_task_targets' = [agent_task_targets EXCEPT ![c.task] = tgt]
        /\ agent_tasks' = [agent_tasks EXCEPT ![c.task] = Refreshed(@, tgt)]
        /\ Answer(w, TRUE)
        /\ UNCHANGED <<agents, agent_commands, last_task, creators, outcomes, replies>>

\* An exception of the synchronisation is swallowed and the ack succeeds.
SyncLost(w) ==
    /\ workers[w].pc \in {"sync", "refresh"}
    /\ Answer(w, TRUE)
    /\ UNCHANGED <<agents, serverVars, creators, outcomes, replies>>

\* The server process dies: committed rows stay, handlers vanish.
ServerCrash ==
    /\ creators' = [h \in Creators |-> IdleCreator]
    /\ workers' = [w \in Workers |-> IdleWorker]
    /\ UNCHANGED <<agents, serverVars, loop, outcomes, replies>>

----------------------------------------------------------------------------
Next ==
    \/ \E a \in Agents : RegisterAgent(a) \/ RevokeAgent(a) \/ RestoreAgent(a)
    \/ \E h \in Creators, k \in Keys, b \in Bodies : CreateLookup(h, k, b)
    \/ \E h \in Creators : CreateValidate(h) \/ CreateInsert(h) \/ CreateRefused(h)
    \/ \E a \in Agents : Poll(a) \/ Execute(a) \/ CallFails(a) \/ AgentRestart(a)
    \/ \E a \in Agents, w \in Workers : SendAck(a, w)
    \/ \E w \in Workers : \/ AckRead(w) \/ AckUpdate(w) \/ AckError(w)
                          \/ SyncRead(w) \/ SyncWrite(w) \/ SyncLost(w)
    \/ ServerCrash

Spec == Init /\ [][Next]_vars

(* The agent's loop runs for ever and the server's threads are scheduled;  *)
(* losses, restarts and crashes may recur but not for ever at the same     *)
(* step, which is what strong fairness of the steps they undo says.        *)
Fairness ==
    /\ \A a \in Agents : /\ WF_vars(CallFails(a))   \* requests carry a timeout
                         /\ SF_vars(Poll(a))
                         /\ SF_vars(Execute(a))
                         /\ SF_vars(\E w \in Workers : SendAck(a, w))
    /\ \A w \in Workers : /\ SF_vars(AckRead(w))
                          /\ SF_vars(AckUpdate(w))
                          /\ SF_vars(SyncRead(w))
                          /\ SF_vars(SyncWrite(w))

FairSpec == Spec /\ Fairness

----------------------------------------------------------------------------
(* Properties.                                                             *)

Issued(t, a) == agent_commands[t][a] # "none"

TaskType == [key : Keys \cup {None}, body : Bodies \cup {None}, status : TaskStatus,
             target_count : Nat, sent_count : Nat, ack_count : Nat,
             done_count : Nat, failed_count : Nat, completed : BOOLEAN]
CreatorType == [pc : {"idle", "checked", "validated"}, key : Keys \cup {None},
                body : Bodies \cup {None}]
WorkerType == [pc : {"idle", "received", "pending", "sync", "refresh"},
               agent : Agents \cup {None}, task : 0..MaxTasks, applied : BOOLEAN]
LoopType == [pc : {"idle", "run", "ack", "nack", "wait_ack", "wait_nack"},
             batch : SUBSET TaskIds, cur : 0..MaxTasks, res : Outcome,
             on : Workers \cup {None}]

TypeOK ==
    /\ agents \in [Agents -> {"absent", "active", "revoked"}]
    /\ last_task \in 0..MaxTasks
    /\ agent_tasks \in [TaskIds -> TaskType]
    /\ agent_task_targets \in [TaskIds -> [Agents -> TargetStatus]]
    /\ agent_commands \in [TaskIds -> [Agents -> CommandStatus]]
    /\ creators \in [Creators -> CreatorType]
    /\ workers \in [Workers -> WorkerType]
    /\ loop \in [Agents -> LoopType]
    /\ outcomes \in [TaskIds -> [Agents -> SUBSET {"ok", "fail"}]]
    /\ replies \subseteq Keys \X Bodies \X TaskIds

(* The counters and the status a task shows are those its targets have,    *)
(* whatever acknowledgements, crashes and lost synchronisations came: they *)
(* are written only together with a target, in one transaction.            *)
CountsMatchTargets ==
    \A t \in 1..last_task :
        LET task == agent_tasks[t]
            With(S) == {a \in Agents : agent_task_targets[t][a] \in S}
        IN  /\ task.target_count = Cardinality(TargetsOf[task.body])
            /\ task.sent_count = Cardinality(With({"SENT"}))
            /\ task.ack_count = Cardinality(With({"DONE", "FAILED"}))
            /\ task.done_count = Cardinality(With({"DONE"}))
            /\ task.failed_count = Cardinality(With({"FAILED"}))
            /\ task.status = "FAILED" <=> With({"FAILED"}) # {}
            /\ task.status = "DONE" <=> With({"DONE"}) = TargetsOf[task.body]

(* A target is settled only after its command has been acknowledged: the   *)
(* console never reports an action finished while the queue still offers   *)
(* it to the agent.                                                        *)
PendingCommandHasOpenTarget ==
    \A t \in TaskIds, a \in Agents :
        agent_commands[t][a] = "PENDING" => agent_task_targets[t][a] = "SENT"

(* A command the server shows as APPLIED, and a target it shows as DONE,   *)
(* was executed by its agent with success at least once.                   *)
AppliedWasExecuted ==
    \A t \in TaskIds, a \in Agents :
        (agent_commands[t][a] = "APPLIED" \/ agent_task_targets[t][a] = "DONE")
            => "ok" \in outcomes[t][a]

(* Idempotency: every successful answer to requests with one key names one *)
(* task and carries one body, and one agent gets at most one command for   *)
(* the key, however many threads serve the retries.                        *)
IdempotentDispatch ==
    /\ \A r, s \in replies : r[1] = s[1] => r = s
    /\ \A t, u \in 1..last_task, a \in Agents :
          /\ agent_tasks[t].key = agent_tasks[u].key
          /\ Issued(t, a) /\ Issued(u, a)
          => t = u

(* An agent executes its commands in the order they were issued: no        *)
(* command is started before every earlier one has been tried, in spite of *)
(* aborted batches and restarts.                                           *)
InOrderExecution ==
    \A t, u \in TaskIds, a \in Agents :
        t < u /\ Issued(t, a) /\ outcomes[u][a] # {} => outcomes[t][a] # {}

(* Every command is acknowledged in the end, unless its agent is revoked.  *)
CommandIsAcknowledged ==
    \A t \in TaskIds, a \in Agents :
        agent_commands[t][a] = "PENDING" ~>
            (agent_commands[t][a] # "PENDING" \/ agents[a] = "revoked")

\* The acknowledgement of the command was recorded and its synchronisation
\* was lost: no later acknowledgement can settle the target.
Orphaned(t, a) ==
    /\ agent_commands[t][a] \in {"APPLIED", "FAILED"}
    /\ agent_task_targets[t][a] = "SENT"
    /\ \A w \in Workers : ~ /\ workers[w].pc \in {"sync", "refresh"}
                            /\ workers[w].task = t /\ workers[w].agent = a

(* A task ends DONE or FAILED unless an agent of it is revoked or the      *)
(* synchronisation after an acknowledgement was lost.                      *)
TaskFinishes ==
    \A t \in TaskIds :
        t <= last_task ~>
            \/ agent_tasks[t].status \in {"DONE", "FAILED"}
            \/ \E a \in Agents : Orphaned(t, a) \/ agents[a] = "revoked"

(* The table of tasks and the command queue, seen as accepted requests and *)
(* ordered commands.                                                       *)
AcceptedBodies == [k \in Keys |-> {agent_tasks[t].body : t \in TasksWith(k)}]
OrderedAgents ==
    [k \in Keys |-> {a \in Agents : \E t \in TasksWith(k) : Issued(t, a)}]

Dispatch == INSTANCE TaskDispatch WITH accepted <- AcceptedBodies,
                                       orders <- OrderedAgents

(* create_task with its three statements, and every interleaving of the    *)
(* threads serving it, implements one atomic acceptance per key.           *)
ImplementsDispatch == Dispatch!Spec

=============================================================================
