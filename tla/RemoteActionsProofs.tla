------------------------ MODULE RemoteActionsProofs ------------------------
(* Proofs about RemoteActions and TaskResults, for all agents, keys, bodies *)
(* and threads, and every bound on the number of tasks.                     *)
EXTENDS TaskResults, FiniteSetTheorems, TLAPS

USE RemoteActionsAssumption DEF TaskIds

(* The number of agents whose target has one of some statuses is a number. *)
LEMMA CountIsNat ==
    ASSUME NEW tgt, NEW S
    PROVE  CountOf(tgt, S) \in Nat
<1>1. IsFiniteSet({a \in Agents : tgt[a] \in S})
  BY FS_Subset
<1>. QED BY <1>1, FS_CardinalityType DEF CountOf

(* _refresh_task_status_with_conn keeps the shape of a task.               *)
LEMMA RefreshedType ==
    ASSUME NEW task \in TaskType, NEW tgt
    PROVE  Refreshed(task, tgt) \in TaskType
<1> DEFINE total  == CountOf(tgt, {"SENT", "DONE", "FAILED"})
           sent   == CountOf(tgt, {"SENT"})
           ack    == CountOf(tgt, {"DONE", "FAILED"})
           done   == CountOf(tgt, {"DONE"})
           failed == CountOf(tgt, {"FAILED"})
           status == StatusOf(total, sent, done, failed)
<1>1. /\ total \in Nat /\ sent \in Nat /\ ack \in Nat
      /\ done \in Nat /\ failed \in Nat
  BY CountIsNat
<1>2. status \in TaskStatus
  BY DEF StatusOf, TaskStatus
<1> HIDE DEF total, sent, ack, done, failed, status
<1>3. Refreshed(task, tgt) =
        [task EXCEPT !.status = status, !.target_count = total, !.sent_count = sent,
                     !.ack_count = ack, !.done_count = done, !.failed_count = failed,
                     !.completed = @ \/ status \in {"DONE", "FAILED"}]
  BY DEF Refreshed, total, sent, ack, done, failed, status
<1>4. (task.completed \/ status \in {"DONE", "FAILED"}) \in BOOLEAN
  OBVIOUS
<1>. QED BY <1>1, <1>2, <1>3, <1>4 DEF TaskType

LEMMA SentTaskType ==
    ASSUME NEW k \in Keys \cup {None}, NEW b \in Bodies
    PROVE  SentTask(k, b) \in TaskType
<1>1. Cardinality(TargetsOf[b]) \in Nat
  <2>1. IsFiniteSet(TargetsOf[b])
    BY FS_Subset
  <2>. QED BY <2>1, FS_CardinalityType
<1>. QED BY <1>1 DEF SentTask, NoTask, TaskType, TaskStatus

----------------------------------------------------------------------------
(* Type correctness.  TypeOK lets an idle thread carry no value; that a     *)
(* busy one carries values is what makes it inductive.                      *)

CreatorsTyped == \A h \in Creators : creators[h].pc # "idle" =>
    creators[h].key \in Keys /\ creators[h].body \in Bodies

WorkersTyped == \A w \in Workers : workers[w].pc # "idle" =>
    workers[w].agent \in Agents /\ workers[w].task \in TaskIds

LoopTyped == \A a \in Agents : loop[a].pc \notin {"idle", "run"} =>
    loop[a].cur \in TaskIds

Typed == TypeOK /\ CreatorsTyped /\ WorkersTyped /\ LoopTyped

LEMMA IdleTypes ==
    /\ IdleCreator \in CreatorType
    /\ IdleWorker \in WorkerType
    /\ IdleLoop \in LoopType
BY DEF IdleCreator, IdleWorker, IdleLoop, CreatorType, WorkerType, LoopType, Outcome

(* The agent's loop after a call keeps its shape.                           *)
LEMMA LoopSteps ==
    ASSUME NEW l \in LoopType
    PROVE  /\ AfterAck(l) \in LoopType
           /\ AfterAck(l).pc \in {"idle", "run"}
           /\ AfterFailedCall(l) \in LoopType
           /\ AfterFailedCall(l).pc \in {"idle", "nack"}
           /\ AfterFailedCall(l).pc = "nack" =>
                  AfterFailedCall(l).cur = l.cur /\ l.pc \in {"ack", "wait_ack"}
BY IdleTypes DEF AfterAck, AfterFailedCall, LoopType, IdleLoop

LEMMA TypedInit == Init => Typed
BY DEF Init, Typed, TypeOK, CreatorsTyped, WorkersTyped, LoopTyped, NoTask, IdleCreator,
       IdleWorker, IdleLoop, Outcome, TaskStatus, TargetStatus, CommandStatus, TaskType,
       CreatorType, WorkerType, LoopType

LEMMA TypedAgents ==
    ASSUME Typed, NEW a \in Agents,
           RegisterAgent(a) \/ RevokeAgent(a) \/ RestoreAgent(a)
    PROVE  Typed'
BY DEF RegisterAgent, RevokeAgent, RestoreAgent, serverVars, Typed, TypeOK,
       CreatorsTyped, WorkersTyped, LoopTyped

(* One record of a table of threads is replaced.                            *)
LEMMA SetCreator ==
    ASSUME Typed, NEW h \in Creators, NEW r \in CreatorType,
           r.pc # "idle" => r.key \in Keys /\ r.body \in Bodies,
           creators' = [creators EXCEPT ![h] = r]
    PROVE  creators' \in [Creators -> CreatorType] /\ CreatorsTyped'
BY DEF Typed, TypeOK, CreatorsTyped

LEMMA SetWorker ==
    ASSUME Typed, NEW w \in Workers, NEW r \in WorkerType,
           r.pc # "idle" => r.agent \in Agents /\ r.task \in TaskIds,
           workers' = [workers EXCEPT ![w] = r]
    PROVE  workers' \in [Workers -> WorkerType] /\ WorkersTyped'
BY DEF Typed, TypeOK, WorkersTyped

LEMMA SetLoop ==
    ASSUME Typed, NEW a \in Agents, NEW r \in LoopType,
           r.pc \notin {"idle", "run"} => r.cur \in TaskIds,
           loop' = [loop EXCEPT ![a] = r]
    PROVE  loop' \in [Agents -> LoopType] /\ LoopTyped'
BY DEF Typed, TypeOK, LoopTyped

(* The updates of a record that keep its shape.                             *)
LEMMA LoopRan ==
    ASSUME NEW l \in LoopType, NEW t \in TaskIds, NEW res \in Outcome,
           NEW pc \in {"ack", "nack"}
    PROVE  [l EXCEPT !.pc = pc, !.cur = t, !.res = res] \in LoopType
<1>1. t \in 0..MaxTasks
  OBVIOUS
<1>2. [l EXCEPT !.cur = t] \in LoopType
  BY <1>1 DEF LoopType
<1>3. ASSUME NEW m \in LoopType
      PROVE  [m EXCEPT !.pc = pc, !.res = res] \in LoopType
  BY DEF LoopType
<1>4. [[l EXCEPT !.cur = t] EXCEPT !.pc = pc, !.res = res] \in LoopType
  BY <1>2, <1>3
<1>. QED BY <1>4 DEF LoopType

LEMMA LoopSent ==
    ASSUME NEW l \in LoopType, NEW w \in Workers
    PROVE  [l EXCEPT !.pc = IF l.pc = "ack" THEN "wait_ack" ELSE "wait_nack",
                     !.on = w] \in LoopType
BY DEF LoopType

LEMMA WorkerUpdates ==
    ASSUME NEW c \in WorkerType, NEW pc \in {"pending", "sync", "refresh"}
    PROVE  [c EXCEPT !.pc = pc] \in WorkerType
BY DEF WorkerType

(* create_task.                                                             *)
LEMMA TypedCreators ==
    ASSUME Typed, NEW h \in Creators,
           \/ \E k \in Keys, b \in Bodies : CreateLookup(h, k, b)
           \/ CreateValidate(h) \/ CreateInsert(h) \/ CreateRefused(h)
    PROVE  Typed'
<1> USE DEF Typed
<1>1. ASSUME NEW k \in Keys, NEW b \in Bodies, CreateLookup(h, k, b)
      PROVE  Typed'
  <2>1. creators' \in [Creators -> CreatorType] /\ CreatorsTyped'
    <3>1. \/ creators' = creators
          \/ creators' = [creators EXCEPT ![h] =
                            [pc |-> "checked", key |-> k, body |-> b]]
      BY <1>1 DEF CreateLookup
    <3>2. [pc |-> "checked", key |-> k, body |-> b] \in CreatorType
      BY DEF CreatorType
    <3>. QED BY <3>1, <3>2, SetCreator DEF TypeOK, CreatorsTyped
  <2>2. replies' \subseteq Keys \X Bodies \X TaskIds
    BY <1>1 DEF CreateLookup, TasksWith, TypeOK
  <2>. QED BY <1>1, <2>1, <2>2
           DEF CreateLookup, serverVars, TypeOK, WorkersTyped, LoopTyped
<1>2. CASE CreateValidate(h)
  <2>1. creators' \in [Creators -> CreatorType] /\ CreatorsTyped'
    BY <1>2, IdleTypes DEF CreateValidate, TypeOK, CreatorsTyped, CreatorType, IdleCreator
  <2>. QED BY <1>2, <2>1
           DEF CreateValidate, serverVars, TypeOK, WorkersTyped, LoopTyped
<1>3. CASE CreateInsert(h)
  <2> DEFINE k == creators[h].key
             b == creators[h].body
             t == last_task + 1
  <2>1. k \in Keys /\ b \in Bodies /\ t \in TaskIds
    BY <1>3 DEF CreateInsert, CreatorsTyped, TypeOK
  <2>2. creators' \in [Creators -> CreatorType] /\ CreatorsTyped'
    BY <1>3, IdleTypes DEF CreateInsert, TypeOK, CreatorsTyped, CreatorType, IdleCreator
  <2>3. agent_tasks' \in [TaskIds -> TaskType]
    BY <1>3, <2>1, SentTaskType DEF CreateInsert, TypeOK
  <2>4. /\ agent_task_targets' \in [TaskIds -> [Agents -> TargetStatus]]
        /\ agent_commands' \in [TaskIds -> [Agents -> CommandStatus]]
    BY <1>3, <2>1 DEF CreateInsert, IssuedTo, TypeOK, TargetStatus, CommandStatus
  <2>5. last_task' \in 0..MaxTasks /\ replies' \subseteq Keys \X Bodies \X TaskIds
    BY <1>3, <2>1 DEF CreateInsert, TypeOK
  <2>. QED BY <1>3, <2>2, <2>3, <2>4, <2>5
           DEF CreateInsert, TypeOK, WorkersTyped, LoopTyped
<1>4. CASE CreateRefused(h)
  <2>1. creators' \in [Creators -> CreatorType] /\ CreatorsTyped'
    BY <1>4, IdleTypes DEF CreateRefused, TypeOK, CreatorsTyped, CreatorType, IdleCreator
  <2>. QED BY <1>4, <2>1
           DEF CreateRefused, serverVars, TypeOK, WorkersTyped, LoopTyped
<1>. QED BY <1>1, <1>2, <1>3, <1>4

(* The agent.                                                               *)
LEMMA TypedLoop ==
    ASSUME Typed, NEW a \in Agents,
           Poll(a) \/ Execute(a) \/ CallFails(a) \/ AgentRestart(a)
    PROVE  Typed'
<1> USE DEF Typed
<1>1. CASE Poll(a)
  <2>1. PendingOf(a) \in SUBSET TaskIds
    BY DEF PendingOf, TypeOK
  <2>2. loop' \in [Agents -> LoopType] /\ LoopTyped'
    BY <1>1, <2>1, IdleTypes DEF Poll, TypeOK, LoopTyped, LoopType
  <2>. QED BY <1>1, <2>2 DEF Poll, serverVars, TypeOK, CreatorsTyped, WorkersTyped
<1>2. CASE Execute(a)
  <2>1. PICK t \in loop[a].batch, res \in Outcome :
          /\ loop' = [loop EXCEPT ![a].pc = IF res = "raise" THEN "nack" ELSE "ack",
                                  ![a].cur = t, ![a].res = res]
          /\ outcomes' = [outcomes EXCEPT ![t][a] = @ \cup {Recorded(res)}]
    BY <1>2 DEF Execute
  <2>2. t \in TaskIds
    BY DEF TypeOK, LoopType
  <2>3. loop' \in [Agents -> LoopType] /\ LoopTyped'
    <3> DEFINE pc == IF res = "raise" THEN "nack" ELSE "ack"
               r == [loop[a] EXCEPT !.pc = pc, !.cur = t, !.res = res]
    <3>1. loop' = [loop EXCEPT ![a] = r]
      BY <2>1
    <3>2. loop[a] \in LoopType
      BY DEF TypeOK
    <3>3. r \in LoopType
      <4>1. pc \in {"ack", "nack"}
        OBVIOUS
      <4> HIDE DEF pc
      <4>. QED BY <2>2, <3>2, <4>1, LoopRan
    <3>4. r.cur \in TaskIds
      BY <2>2, <3>2 DEF LoopType
    <3>. QED BY <3>1, <3>3, <3>4, SetLoop
  <2>4. outcomes' \in [TaskIds -> [Agents -> SUBSET {"ok", "fail"}]]
    BY <2>1, <2>2 DEF TypeOK, Recorded
  <2>. QED BY <1>2, <2>3, <2>4 DEF Execute, serverVars, TypeOK, CreatorsTyped, WorkersTyped
<1>3. CASE CallFails(a)
  <2>1. loop' \in [Agents -> LoopType] /\ LoopTyped'
    BY <1>3, LoopSteps DEF CallFails, TypeOK, LoopTyped
  <2>. QED BY <1>3, <2>1 DEF CallFails, serverVars, TypeOK, CreatorsTyped, WorkersTyped
<1>4. CASE AgentRestart(a)
  <2>1. loop' \in [Agents -> LoopType] /\ LoopTyped'
    BY <1>4, IdleTypes DEF AgentRestart, TypeOK, LoopTyped, IdleLoop
  <2>. QED BY <1>4, <2>1 DEF AgentRestart, serverVars, TypeOK, CreatorsTyped, WorkersTyped
<1>. QED BY <1>1, <1>2, <1>3, <1>4

LEMMA TypedSendAck ==
    ASSUME Typed, NEW a \in Agents, NEW w \in Workers, SendAck(a, w)
    PROVE  Typed'
<1> USE DEF Typed
<1>1. loop[a].cur \in TaskIds /\ AppliedFlag(loop[a]) \in BOOLEAN
  BY DEF SendAck, LoopTyped, AppliedFlag
<1>2. workers' \in [Workers -> WorkerType] /\ WorkersTyped'
  BY <1>1 DEF SendAck, TypeOK, WorkersTyped, WorkerType
<1>3. loop' \in [Agents -> LoopType] /\ LoopTyped'
  <2> DEFINE pc == IF loop[a].pc = "ack" THEN "wait_ack" ELSE "wait_nack"
             r == [loop[a] EXCEPT !.pc = pc, !.on = w]
  <2>1. loop' = [loop EXCEPT ![a] = r]
    BY DEF SendAck
  <2>2. loop[a] \in LoopType
    BY DEF TypeOK
  <2>3. r \in LoopType
    BY <2>2, LoopSent
  <2>4. r.cur \in TaskIds
    BY <1>1, <2>2 DEF LoopType
  <2>. QED BY <2>1, <2>3, <2>4, SetLoop
<1>. QED BY <1>2, <1>3 DEF SendAck, serverVars, TypeOK, CreatorsTyped

(* The end of an acknowledgement handler.                                   *)
LEMMA TypedAnswer ==
    ASSUME Typed, NEW w \in Workers, workers[w].pc # "idle",
           NEW ok \in BOOLEAN, Answer(w, ok)
    PROVE  /\ workers' \in [Workers -> WorkerType] /\ WorkersTyped'
           /\ loop' \in [Agents -> LoopType] /\ LoopTyped'
<1> USE DEF Typed
<1>1. workers[w].agent \in Agents
  BY DEF WorkersTyped
<1>2. workers' \in [Workers -> WorkerType] /\ WorkersTyped'
  BY IdleTypes DEF Answer, TypeOK, WorkersTyped, IdleWorker
<1>3. loop' \in [Agents -> LoopType] /\ LoopTyped'
  <2> DEFINE a == workers[w].agent
             l == IF ok THEN AfterAck(loop[a]) ELSE AfterFailedCall(loop[a])
  <2>1. loop \in [Agents -> LoopType] /\ loop[a] \in LoopType
    BY <1>1 DEF TypeOK
  <2>2. CASE loop[a].on = w
    <3>1. loop' = [loop EXCEPT ![a] = l]
      BY <2>2 DEF Answer
    <3>2. l \in LoopType /\ (l.pc \notin {"idle", "run"} => l.cur \in TaskIds)
      BY <1>1, <2>1, LoopSteps DEF LoopTyped
    <3> HIDE DEF l
    <3>. QED BY <1>1, <3>1, <3>2, SetLoop
  <2>3. CASE loop[a].on # w
    BY <2>1, <2>3 DEF Answer, LoopTyped
  <2>. QED BY <2>2, <2>3
<1>. QED BY <1>2, <1>3

LEMMA StatusTypes ==
    ASSUME NEW applied \in BOOLEAN
    PROVE  /\ AckStatus(applied) \in {"APPLIED", "FAILED"}
           /\ TargetResult(applied) \in {"DONE", "FAILED"}
BY DEF AckStatus, TargetResult

(* The acknowledgement handler.                                             *)
LEMMA TypedWorkers ==
    ASSUME Typed, NEW w \in Workers,
           \/ AckRead(w) \/ AckUpdate(w) \/ AckError(w)
           \/ SyncRead(w) \/ SyncWrite(w) \/ SyncLost(w)
    PROVE  Typed'
<1> USE DEF Typed
<1>0. workers[w].pc # "idle" /\ workers[w].agent \in Agents /\ workers[w].task \in TaskIds
  BY DEF AckRead, AckUpdate, AckError, SyncRead, SyncWrite, SyncLost, WorkersTyped
<1>1. CASE AckRead(w)
  <2> DEFINE r == [workers[w] EXCEPT !.pc = "pending"]
  <2>1. CASE workers' = [workers EXCEPT ![w] = r] /\ loop' = loop
    <3>0. workers[w] \in WorkerType
      BY DEF TypeOK
    <3>1. r \in WorkerType /\ r.agent \in Agents /\ r.task \in TaskIds
      BY <1>0, <3>0, WorkerUpdates DEF WorkerType
    <3>2. workers' \in [Workers -> WorkerType] /\ WorkersTyped'
      BY <2>1, <3>1, SetWorker
    <3>. QED BY <1>1, <2>1, <3>2 DEF AckRead, serverVars, TypeOK, CreatorsTyped, LoopTyped
  <2>2. CASE Answer(w, FALSE)
    BY <1>0, <1>1, <2>2, TypedAnswer DEF AckRead, serverVars, TypeOK, CreatorsTyped
  <2>. QED BY <1>1, <2>1, <2>2 DEF AckRead
<1>2. CASE AckUpdate(w)
  <2>1. AckStatus(workers[w].applied) \in CommandStatus
    BY StatusTypes DEF TypeOK, WorkerType, CommandStatus
  <2>2. workers' \in [Workers -> WorkerType] /\ WorkersTyped'
    BY <1>0, <1>2, WorkerUpdates, SetWorker DEF AckUpdate, TypeOK, WorkerType
  <2>3. agent_commands' \in [TaskIds -> [Agents -> CommandStatus]]
    BY <1>0, <1>2, <2>1 DEF AckUpdate, TypeOK
  <2>. QED BY <1>2, <2>2, <2>3 DEF AckUpdate, TypeOK, CreatorsTyped, LoopTyped
<1>3. CASE AckError(w)
  <2>1. /\ workers' \in [Workers -> WorkerType] /\ WorkersTyped'
        /\ loop' \in [Agents -> LoopType] /\ LoopTyped'
    BY <1>0, <1>3, TypedAnswer DEF AckError
  <2>. QED BY <1>3, <2>1 DEF AckError, serverVars, TypeOK, CreatorsTyped
<1>4. CASE SyncRead(w)
  <2> DEFINE r == [workers[w] EXCEPT !.pc = "refresh"]
  <2>1. CASE workers' = [workers EXCEPT ![w] = r] /\ loop' = loop
    <3>0. workers[w] \in WorkerType
      BY DEF TypeOK
    <3>1. r \in WorkerType /\ r.agent \in Agents /\ r.task \in TaskIds
      BY <1>0, <3>0, WorkerUpdates DEF WorkerType
    <3>2. workers' \in [Workers -> WorkerType] /\ WorkersTyped'
      BY <2>1, <3>1, SetWorker
    <3>. QED BY <1>4, <2>1, <3>2 DEF SyncRead, serverVars, TypeOK, CreatorsTyped, LoopTyped
  <2>2. CASE Answer(w, TRUE)
    BY <1>0, <1>4, <2>2, TypedAnswer DEF SyncRead, serverVars, TypeOK, CreatorsTyped
  <2>. QED BY <1>4, <2>1, <2>2 DEF SyncRead
<1>5. CASE SyncWrite(w)
  <2> DEFINE c == workers[w]
             tgt == [agent_task_targets[c.task] EXCEPT ![c.agent] =
                       TargetResult(c.applied)]
  <2>1. /\ workers' \in [Workers -> WorkerType] /\ WorkersTyped'
        /\ loop' \in [Agents -> LoopType] /\ LoopTyped'
    BY <1>0, <1>5, TypedAnswer DEF SyncWrite
  <2>2. tgt \in [Agents -> TargetStatus]
    BY <1>0, StatusTypes DEF TypeOK, WorkerType, TargetStatus
  <2>3. agent_task_targets' \in [TaskIds -> [Agents -> TargetStatus]]
    BY <1>0, <1>5, <2>2 DEF SyncWrite, TypeOK
  <2>4. agent_tasks[c.task] \in TaskType
    BY <1>0 DEF TypeOK
  <2>5. Refreshed(agent_tasks[c.task], tgt) \in TaskType
    BY <2>4, RefreshedType
  <2>6. agent_tasks' \in [TaskIds -> TaskType]
    BY <1>0, <1>5, <2>5 DEF SyncWrite, TypeOK
  <2>. QED BY <1>5, <2>1, <2>3, <2>6 DEF SyncWrite, TypeOK, CreatorsTyped
<1>6. CASE SyncLost(w)
  <2>1. /\ workers' \in [Workers -> WorkerType] /\ WorkersTyped'
        /\ loop' \in [Agents -> LoopType] /\ LoopTyped'
    BY <1>0, <1>6, TypedAnswer DEF SyncLost
  <2>. QED BY <1>6, <2>1 DEF SyncLost, serverVars, TypeOK, CreatorsTyped
<1>. QED BY <1>1, <1>2, <1>3, <1>4, <1>5, <1>6

LEMMA TypedCrash == Typed /\ ServerCrash => Typed'
BY IdleTypes DEF ServerCrash, serverVars, IdleCreator, IdleWorker, Typed, TypeOK,
                 CreatorsTyped, WorkersTyped, LoopTyped

LEMMA TypedNext == Typed /\ [Next]_vars => Typed'
<1> SUFFICES ASSUME Typed, [Next]_vars PROVE Typed'
  OBVIOUS
<1>1. CASE UNCHANGED vars
  BY <1>1 DEF vars, serverVars, Typed, TypeOK, CreatorsTyped, WorkersTyped, LoopTyped
<1>2. CASE Next
  BY <1>2, TypedAgents, TypedCreators, TypedLoop, TypedSendAck, TypedWorkers, TypedCrash
     DEF Next
<1>. QED BY <1>1, <1>2

LEMMA TypedAlways == Spec => []Typed
BY TypedInit, TypedNext, PTL DEF Spec

(* Every state of every execution is well typed.                            *)
THEOREM TypeCorrect == Spec => []TypeOK
<1>1. Typed => TypeOK
  BY DEF Typed
<1>. QED BY <1>1, TypedAlways, PTL

----------------------------------------------------------------------------
(* Idempotent dispatch.                                                     *)

(* Rows of agent_tasks that were not inserted yet have no commands.         *)
FreshTasks == \A t \in TaskIds, a \in Agents : t > last_task =>
    agent_commands[t][a] = "none" /\ agent_task_targets[t][a] = "none"

TasksHaveKeys == \A t \in 1..last_task :
    agent_tasks[t].key \in Keys /\ agent_tasks[t].body \in Bodies

OneTaskPerKey == \A t, u \in 1..last_task :
    agent_tasks[t].key = agent_tasks[u].key => t = u

(* A task has a command and a target for the agents of its body, no other.  *)
IssuedToTargets == \A t \in 1..last_task, a \in Agents :
    /\ agent_commands[t][a] # "none" <=> a \in TargetsOf[agent_tasks[t].body]
    /\ agent_task_targets[t][a] # "none" <=> a \in TargetsOf[agent_tasks[t].body]

RepliesNameTasks == \A r \in replies :
    /\ r[3] \in 1..last_task
    /\ agent_tasks[r[3]].key = r[1]
    /\ agent_tasks[r[3]].body = r[2]

DispatchInv == /\ FreshTasks /\ TasksHaveKeys /\ OneTaskPerKey
               /\ IssuedToTargets /\ RepliesNameTasks

----------------------------------------------------------------------------
(* Acknowledgements.                                                        *)

WorkersIssued == \A w \in Workers : workers[w].pc # "idle" =>
    LET c == workers[w] IN
    /\ Issued(c.task, c.agent)
    /\ c.pc \in {"sync", "refresh"} => agent_commands[c.task][c.agent] # "PENDING"
    /\ c.applied => "ok" \in outcomes[c.task][c.agent]

LoopIssued == \A a \in Agents :
    /\ \A t \in loop[a].batch : Issued(t, a)
    /\ loop[a].pc \notin {"idle", "run"} => Issued(loop[a].cur, a)
    /\ AppliedFlag(loop[a]) => "ok" \in outcomes[loop[a].cur][a]

AckInv == /\ WorkersIssued /\ LoopIssued
          /\ PendingCommandHasOpenTarget /\ AppliedWasExecuted

(* What steps other than those of create_task leave alone.                  *)
SameRows ==
    /\ last_task' = last_task
    /\ replies' = replies
    /\ \A t \in TaskIds : /\ agent_tasks'[t].key = agent_tasks[t].key
                          /\ agent_tasks'[t].body = agent_tasks[t].body
    /\ \A t \in TaskIds, a \in Agents :
          /\ agent_commands'[t][a] = "none" <=> agent_commands[t][a] = "none"
          /\ agent_task_targets'[t][a] = "none" <=> agent_task_targets[t][a] = "none"

LEMMA RefreshedKeeps ==
    ASSUME NEW task \in TaskType, NEW tgt
    PROVE  Refreshed(task, tgt).key = task.key /\ Refreshed(task, tgt).body = task.body
BY DEF Refreshed, TaskType

LEMMA UnchangedSame == UNCHANGED <<serverVars, replies>> => SameRows
BY DEF serverVars, SameRows

LEMMA AckUpdateSame ==
    ASSUME Typed, AckInv, NEW w \in Workers, AckUpdate(w)
    PROVE  SameRows
<1> DEFINE c == workers[w]
<1>1. c.task \in TaskIds /\ c.agent \in Agents /\ agent_commands[c.task][c.agent] # "none"
  BY DEF Typed, WorkersTyped, AckInv, WorkersIssued, Issued, AckUpdate
<1>2. AckStatus(c.applied) # "none"
  BY DEF AckStatus
<1>3. agent_commands' = [agent_commands EXCEPT ![c.task][c.agent] = AckStatus(c.applied)]
  BY DEF AckUpdate
<1>. QED BY <1>1, <1>2, <1>3 DEF AckUpdate, SameRows, Typed, TypeOK

LEMMA SyncWriteSame ==
    ASSUME Typed, AckInv, DispatchInv, NEW w \in Workers, SyncWrite(w)
    PROVE  SameRows
<1> DEFINE c == workers[w]
           tgt == [agent_task_targets[c.task] EXCEPT ![c.agent] = TargetResult(c.applied)]
<1>1. c.task \in TaskIds /\ c.agent \in Agents /\ agent_commands[c.task][c.agent] # "none"
  BY DEF Typed, WorkersTyped, AckInv, WorkersIssued, Issued, SyncWrite
<1>2. agent_task_targets[c.task][c.agent] # "none"
  BY <1>1 DEF DispatchInv, FreshTasks, IssuedToTargets, Typed, TypeOK
<1>3. TargetResult(c.applied) # "none"
  BY DEF TargetResult
<1>4. /\ agent_task_targets' = [agent_task_targets EXCEPT ![c.task] = tgt]
      /\ agent_tasks' = [agent_tasks EXCEPT ![c.task] = Refreshed(@, tgt)]
      /\ UNCHANGED <<agent_commands, last_task, replies>>
  BY DEF SyncWrite
<1>5. \A t \in TaskIds, a \in Agents :
          agent_task_targets'[t][a] = "none" <=> agent_task_targets[t][a] = "none"
  BY <1>1, <1>2, <1>3, <1>4 DEF Typed, TypeOK
<1>6. \A t \in TaskIds : /\ agent_tasks'[t].key = agent_tasks[t].key
                         /\ agent_tasks'[t].body = agent_tasks[t].body
  <2>1. agent_tasks[c.task] \in TaskType
    BY <1>1 DEF Typed, TypeOK
  <2>. QED BY <1>1, <1>4, <2>1, RefreshedKeeps DEF Typed, TypeOK
<1>. QED BY <1>4, <1>5, <1>6 DEF SameRows

LEMMA DispatchFrame ==
    ASSUME Typed, DispatchInv, SameRows
    PROVE  DispatchInv'
<1>1. 1..last_task \subseteq TaskIds
  BY DEF Typed, TypeOK
<1>2. FreshTasks' /\ TasksHaveKeys' /\ OneTaskPerKey'
  BY <1>1 DEF DispatchInv, SameRows, FreshTasks, TasksHaveKeys, OneTaskPerKey
<1>3. IssuedToTargets'
  BY <1>1 DEF DispatchInv, SameRows, IssuedToTargets
<1>4. RepliesNameTasks'
  BY <1>1 DEF DispatchInv, SameRows, RepliesNameTasks
<1>. QED BY <1>2, <1>3, <1>4 DEF DispatchInv

LEMMA DispatchLookup ==
    ASSUME Typed, DispatchInv, NEW h \in Creators, NEW k \in Keys, NEW b \in Bodies,
           CreateLookup(h, k, b)
    PROVE  DispatchInv'
<1>1. FreshTasks' /\ TasksHaveKeys' /\ OneTaskPerKey' /\ IssuedToTargets'
  BY DEF CreateLookup, serverVars, DispatchInv, FreshTasks, TasksHaveKeys,
         OneTaskPerKey, IssuedToTargets
<1>2. \/ replies' = replies
      \/ \E t \in TasksWith(k) : agent_tasks[t].body = b /\ replies' = replies \cup {<<k, b, t>>}
  BY DEF CreateLookup
<1>3. RepliesNameTasks'
  BY <1>2 DEF CreateLookup, serverVars, DispatchInv, RepliesNameTasks, TasksWith
<1>. QED BY <1>1, <1>3 DEF DispatchInv

LEMMA DispatchInsert ==
    ASSUME Typed, DispatchInv, NEW h \in Creators, CreateInsert(h)
    PROVE  DispatchInv'
<1> DEFINE k == creators[h].key
           b == creators[h].body
           t == last_task + 1
<1>1. /\ k \in Keys /\ b \in Bodies /\ t \in TaskIds /\ last_task \in Nat
      /\ 1..last_task \subseteq TaskIds
  BY DEF CreateInsert, Typed, CreatorsTyped, TypeOK
<1>2. /\ last_task' = t
      /\ agent_tasks' = [agent_tasks EXCEPT ![t] = SentTask(k, b)]
      /\ agent_task_targets' = [agent_task_targets EXCEPT ![t] = IssuedTo(b, "SENT")]
      /\ agent_commands' = [agent_commands EXCEPT ![t] = IssuedTo(b, "PENDING")]
      /\ replies' = replies \cup {<<k, b, t>>}
      /\ \A u \in 1..last_task : agent_tasks[u].key # k
  BY DEF CreateInsert, KeyIsFree, TasksWith
<1>3. SentTask(k, b).key = k /\ SentTask(k, b).body = b
  BY DEF SentTask, NoTask
<1>4. /\ agent_tasks'[t] = SentTask(k, b)
      /\ \A u \in 1..last_task : agent_tasks'[u] = agent_tasks[u]
  BY <1>1, <1>2 DEF Typed, TypeOK
<1>5. \A u \in TaskIds \ {t} : /\ agent_commands'[u] = agent_commands[u]
                               /\ agent_task_targets'[u] = agent_task_targets[u]
  BY <1>1, <1>2 DEF Typed, TypeOK
<1>6. \A a \in Agents :
         /\ agent_commands'[t][a] = IF a \in TargetsOf[b] THEN "PENDING" ELSE "none"
         /\ agent_task_targets'[t][a] = IF a \in TargetsOf[b] THEN "SENT" ELSE "none"
  BY <1>1, <1>2 DEF IssuedTo, Typed, TypeOK
<1>7. 1..last_task' = 1..last_task \cup {t}
  BY <1>1, <1>2
<1>8. FreshTasks'
  BY <1>1, <1>2, <1>5 DEF DispatchInv, FreshTasks
<1>9. TasksHaveKeys'
  BY <1>1, <1>3, <1>4, <1>7 DEF DispatchInv, TasksHaveKeys
<1>10. OneTaskPerKey'
  BY <1>2, <1>3, <1>4, <1>7 DEF DispatchInv, OneTaskPerKey
<1>11. IssuedToTargets'
  <2> SUFFICES ASSUME NEW u \in 1..last_task', NEW a \in Agents
               PROVE  /\ agent_commands'[u][a] # "none" <=> a \in TargetsOf[agent_tasks'[u].body]
                      /\ agent_task_targets'[u][a] # "none"
                            <=> a \in TargetsOf[agent_tasks'[u].body]
    BY DEF IssuedToTargets
  <2>1. CASE u = t
    BY <1>3, <1>4, <1>6, <2>1
  <2>2. CASE u \in 1..last_task
    BY <1>1, <1>4, <1>5, <2>2 DEF DispatchInv, IssuedToTargets
  <2>. QED BY <1>7, <2>1, <2>2
<1>12. RepliesNameTasks'
  BY <1>2, <1>3, <1>4, <1>7 DEF DispatchInv, RepliesNameTasks
<1>. QED BY <1>8, <1>9, <1>10, <1>11, <1>12 DEF DispatchInv

----------------------------------------------------------------------------
(* The acknowledgement invariant is inductive.                              *)

LEMMA AckFrame ==
    ASSUME AckInv,
           UNCHANGED <<agent_commands, agent_task_targets, workers, loop, outcomes>>
    PROVE  AckInv'
BY DEF AckInv, WorkersIssued, LoopIssued, Issued, PendingCommandHasOpenTarget,
       AppliedWasExecuted

LEMMA AckInsert ==
    ASSUME Typed, DispatchInv, AckInv, NEW h \in Creators, CreateInsert(h)
    PROVE  AckInv'
<1> DEFINE b == creators[h].body
           t == last_task + 1
<1>1. t \in TaskIds /\ t > last_task
  BY DEF CreateInsert, Typed, TypeOK
<1>2. /\ agent_task_targets' = [agent_task_targets EXCEPT ![t] = IssuedTo(b, "SENT")]
      /\ agent_commands' = [agent_commands EXCEPT ![t] = IssuedTo(b, "PENDING")]
      /\ UNCHANGED <<workers, loop, outcomes>>
  BY DEF CreateInsert
<1>3. \A a \in Agents : agent_commands[t][a] = "none"
  BY <1>1 DEF DispatchInv, FreshTasks
<1>4. \A u \in TaskIds \ {t} : /\ agent_commands'[u] = agent_commands[u]
                               /\ agent_task_targets'[u] = agent_task_targets[u]
  BY <1>1, <1>2 DEF Typed, TypeOK
<1>5. \A a \in Agents :
         /\ agent_commands'[t][a] = IF a \in TargetsOf[b] THEN "PENDING" ELSE "none"
         /\ agent_task_targets'[t][a] = IF a \in TargetsOf[b] THEN "SENT" ELSE "none"
  BY <1>1, <1>2 DEF IssuedTo, Typed, TypeOK
<1>6. WorkersIssued'
  <2> SUFFICES ASSUME NEW w \in Workers, workers[w].pc # "idle"
               PROVE  LET c == workers[w] IN
                      /\ agent_commands'[c.task][c.agent] # "none"
                      /\ c.pc \in {"sync", "refresh"}
                            => agent_commands'[c.task][c.agent] # "PENDING"
                      /\ c.applied => "ok" \in outcomes[c.task][c.agent]
    BY <1>2 DEF WorkersIssued, Issued
  <2>1. workers[w].task \in TaskIds \ {t}
    BY <1>3 DEF AckInv, WorkersIssued, Issued, Typed, WorkersTyped
  <2>. QED BY <1>4, <2>1 DEF AckInv, WorkersIssued, Issued
<1>7. LoopIssued'
  <2> SUFFICES ASSUME NEW a \in Agents
               PROVE  /\ \A u \in loop[a].batch : agent_commands'[u][a] # "none"
                      /\ loop[a].pc \notin {"idle", "run"} =>
                            agent_commands'[loop[a].cur][a] # "none"
    BY <1>2 DEF AckInv, LoopIssued, Issued, AppliedFlag
  <2>1. loop[a].batch \subseteq TaskIds \ {t}
    BY <1>3 DEF AckInv, LoopIssued, Issued, Typed, TypeOK, LoopType
  <2>2. loop[a].pc \notin {"idle", "run"} => loop[a].cur \in TaskIds \ {t}
    BY <1>3 DEF AckInv, LoopIssued, Issued, Typed, LoopTyped
  <2>. QED BY <1>4, <2>1, <2>2 DEF AckInv, LoopIssued, Issued
<1>8. PendingCommandHasOpenTarget' /\ AppliedWasExecuted'
  BY <1>2, <1>4, <1>5 DEF AckInv, PendingCommandHasOpenTarget, AppliedWasExecuted
<1>. QED BY <1>6, <1>7, <1>8 DEF AckInv

(* The agent's steps change its loop and the history, the queue never.      *)
LEMMA AckLoop ==
    ASSUME Typed, AckInv, NEW a \in Agents,
           Poll(a) \/ Execute(a) \/ CallFails(a) \/ AgentRestart(a)
    PROVE  AckInv'
<1>1. CASE Poll(a)
  <2>1. loop' = [loop EXCEPT ![a] = [IdleLoop EXCEPT !.pc = "run", !.batch = PendingOf(a)]]
    BY <1>1 DEF Poll
  <2>2. \A t \in PendingOf(a) : Issued(t, a)
    BY DEF PendingOf, Issued
  <2>3. LoopIssued'
    BY <1>1, <2>1, <2>2 DEF Poll, serverVars, AckInv, LoopIssued, Issued, AppliedFlag,
                            IdleLoop, Typed, TypeOK
  <2>. QED BY <1>1, <2>3 DEF Poll, serverVars, AckInv, WorkersIssued, Issued,
                             PendingCommandHasOpenTarget, AppliedWasExecuted
<1>2. CASE Execute(a)
  <2>1. PICK t \in loop[a].batch, res \in Outcome :
          /\ loop' = [loop EXCEPT ![a].pc = IF res = "raise" THEN "nack" ELSE "ack",
                                  ![a].cur = t, ![a].res = res]
          /\ outcomes' = [outcomes EXCEPT ![t][a] = @ \cup {Recorded(res)}]
    BY <1>2 DEF Execute
  <2>2. t \in TaskIds /\ Issued(t, a) /\ loop[a] \in LoopType
    BY DEF Typed, TypeOK, LoopType, AckInv, LoopIssued
  <2>3. /\ \A u \in TaskIds, d \in Agents : outcomes[u][d] \subseteq outcomes'[u][d]
        /\ Recorded(res) \in outcomes'[t][a]
    BY <2>1, <2>2 DEF Typed, TypeOK
  <2>4. /\ loop'[a].batch = loop[a].batch /\ loop'[a].cur = t /\ loop'[a].res = res
        /\ \A d \in Agents \ {a} : loop'[d] = loop[d]
    BY <2>1, <2>2 DEF Typed, TypeOK, LoopType
  <2>5. UNCHANGED <<agent_commands, agent_task_targets, workers>>
    BY <1>2 DEF Execute, serverVars
  <2>6. LoopIssued'
    <3> SUFFICES ASSUME NEW d \in Agents
                 PROVE  /\ \A u \in loop'[d].batch : Issued(u, d)
                        /\ loop'[d].pc \notin {"idle", "run"} => Issued(loop'[d].cur, d)
                        /\ AppliedFlag(loop'[d]) => "ok" \in outcomes'[loop'[d].cur][d]
      BY <2>5 DEF LoopIssued, Issued
    <3>1. CASE d = a
      BY <2>2, <2>3, <2>4, <3>1 DEF AckInv, LoopIssued, AppliedFlag, Recorded
    <3>2. CASE d # a
      BY <2>3, <2>4, <3>2 DEF AckInv, LoopIssued, AppliedFlag, Typed, LoopTyped
    <3>. QED BY <3>1, <3>2
  <2>7. WorkersIssued'
    BY <2>3, <2>5 DEF AckInv, WorkersIssued, Issued, Typed, WorkersTyped
  <2>8. PendingCommandHasOpenTarget' /\ AppliedWasExecuted'
    BY <2>3, <2>5 DEF AckInv, PendingCommandHasOpenTarget, AppliedWasExecuted
  <2>. QED BY <2>6, <2>7, <2>8 DEF AckInv
<1>3. CASE CallFails(a)
  <2>1. loop' = [loop EXCEPT ![a] = AfterFailedCall(@)] /\ loop[a] \in LoopType
    BY <1>3 DEF CallFails, Typed, TypeOK
  <2>2. LoopIssued'
    BY <1>3, <2>1 DEF CallFails, serverVars, AckInv, LoopIssued, Issued, AppliedFlag,
                      AfterFailedCall, IdleLoop, LoopType, Typed, TypeOK
  <2>. QED BY <1>3, <2>2 DEF CallFails, serverVars, AckInv, WorkersIssued, Issued,
                             PendingCommandHasOpenTarget, AppliedWasExecuted
<1>4. CASE AgentRestart(a)
  <2>1. LoopIssued'
    BY <1>4 DEF AgentRestart, serverVars, AckInv, LoopIssued, Issued, AppliedFlag,
                IdleLoop, Typed, TypeOK
  <2>. QED BY <1>4, <2>1 DEF AgentRestart, serverVars, AckInv, WorkersIssued, Issued,
                             PendingCommandHasOpenTarget, AppliedWasExecuted
<1>. QED BY <1>1, <1>2, <1>3, <1>4

LEMMA AckSend ==
    ASSUME Typed, AckInv, NEW a \in Agents, NEW w \in Workers, SendAck(a, w)
    PROVE  AckInv'
<1> DEFINE c == [pc |-> "received", agent |-> a, task |-> loop[a].cur,
                 applied |-> AppliedFlag(loop[a])]
           pc == IF loop[a].pc = "ack" THEN "wait_ack" ELSE "wait_nack"
<1>1. /\ workers' = [workers EXCEPT ![w] = c]
      /\ loop' = [loop EXCEPT ![a].pc = pc, ![a].on = w]
      /\ UNCHANGED <<agent_commands, agent_task_targets, outcomes>>
      /\ loop[a].pc \in {"ack", "nack"}
  BY DEF SendAck, serverVars
<1>2. Issued(loop[a].cur, a) /\ (AppliedFlag(loop[a]) => "ok" \in outcomes[loop[a].cur][a])
  BY <1>1 DEF AckInv, LoopIssued
<1>3. WorkersIssued'
  BY <1>1, <1>2 DEF AckInv, WorkersIssued, Issued, Typed, TypeOK
<1>4. LoopIssued'
  <2>1. /\ loop'[a].batch = loop[a].batch /\ loop'[a].cur = loop[a].cur
        /\ loop'[a].pc = pc
        /\ \A d \in Agents \ {a} : loop'[d] = loop[d]
    <3>1. loop[a] \in LoopType
      BY DEF Typed, TypeOK
    <3>. QED BY <1>1, <3>1 DEF LoopType, Typed, TypeOK
  <2>2. ~AppliedFlag(loop'[a])
    BY <2>1 DEF AppliedFlag
  <2> HIDE DEF pc
  <2> SUFFICES ASSUME NEW d \in Agents
               PROVE  /\ \A t \in loop'[d].batch : Issued(t, d)
                      /\ loop'[d].pc \notin {"idle", "run"} => Issued(loop'[d].cur, d)
                      /\ AppliedFlag(loop'[d]) => "ok" \in outcomes[loop'[d].cur][d]
    BY <1>1 DEF LoopIssued, Issued, AppliedFlag
  <2>3. CASE d = a
    BY <1>2, <2>1, <2>2, <2>3 DEF AckInv, LoopIssued
  <2>4. CASE d # a
    BY <2>1, <2>4 DEF AckInv, LoopIssued
  <2>. QED BY <2>3, <2>4
<1>. QED BY <1>1, <1>3, <1>4 DEF AckInv, PendingCommandHasOpenTarget, AppliedWasExecuted

LEMMA AckAnswer ==
    ASSUME Typed, AckInv, NEW w \in Workers, workers[w].pc # "idle",
           NEW ok \in BOOLEAN, Answer(w, ok), UNCHANGED <<agent_commands, outcomes>>
    PROVE  WorkersIssued' /\ LoopIssued'
<1>1. WorkersIssued'
  BY DEF Answer, IdleWorker, AckInv, WorkersIssued, Issued, Typed, TypeOK
<1>2. workers[w].agent \in Agents
  BY DEF Typed, WorkersTyped
<1>3. CASE loop' = loop
  BY <1>1, <1>3 DEF AckInv, LoopIssued, Issued, AppliedFlag
<1>4. CASE loop' # loop
  <2> DEFINE a == workers[w].agent
  <2>1. loop' = [loop EXCEPT ![a] = IF ok THEN AfterAck(@) ELSE AfterFailedCall(@)]
    BY <1>4 DEF Answer
  <2>2. /\ loop'[a] = IF ok THEN AfterAck(loop[a]) ELSE AfterFailedCall(loop[a])
        /\ \A d \in Agents \ {a} : loop'[d] = loop[d]
        /\ loop[a] \in LoopType
    BY <1>2, <2>1 DEF Typed, TypeOK
  <2>3. /\ loop'[a].batch \subseteq loop[a].batch
        /\ loop'[a].pc \notin {"idle", "run"} =>
              loop'[a].cur = loop[a].cur /\ loop[a].pc \notin {"idle", "run"}
        /\ loop'[a].pc # "ack"
    BY <2>2 DEF AfterAck, AfterFailedCall, IdleLoop, LoopType
  <2>. QED BY <1>1, <1>2, <2>2, <2>3 DEF AckInv, LoopIssued, Issued, AppliedFlag
<1>. QED BY <1>1, <1>3, <1>4

(* A handler that has read the command moves on without a write.            *)
LEMMA AckWorkerMoves ==
    ASSUME Typed, AckInv, NEW w \in Workers, workers[w].pc # "idle",
           NEW pc \in {"pending", "refresh"},
           pc = "refresh" => workers[w].pc = "sync",
           workers' = [workers EXCEPT ![w].pc = pc],
           UNCHANGED <<agent_commands, outcomes, loop>>
    PROVE  WorkersIssued' /\ LoopIssued'
<1>1. /\ workers'[w].pc = pc
      /\ workers'[w].task = workers[w].task
      /\ workers'[w].agent = workers[w].agent
      /\ workers'[w].applied = workers[w].applied
      /\ \A v \in Workers \ {w} : workers'[v] = workers[v]
  <2>1. workers[w] \in WorkerType
    BY DEF Typed, TypeOK
  <2>. QED BY <2>1 DEF WorkerType, Typed, TypeOK
<1>2. WorkersIssued'
  BY <1>1 DEF AckInv, WorkersIssued, Issued
<1>. QED BY <1>2 DEF AckInv, LoopIssued, Issued, AppliedFlag

LEMMA AckWorkers ==
    ASSUME Typed, AckInv, NEW w \in Workers,
           \/ AckRead(w) \/ AckUpdate(w) \/ AckError(w)
           \/ SyncRead(w) \/ SyncWrite(w) \/ SyncLost(w)
    PROVE  AckInv'
<1> DEFINE c == workers[w]
<1>0. /\ c.pc # "idle" /\ c.agent \in Agents /\ c.task \in TaskIds /\ c \in WorkerType
      /\ Issued(c.task, c.agent)
      /\ c.applied => "ok" \in outcomes[c.task][c.agent]
  BY DEF AckRead, AckUpdate, AckError, SyncRead, SyncWrite, SyncLost, Typed, TypeOK,
         WorkersTyped, AckInv, WorkersIssued
<1>1. CASE AckRead(w) \/ AckError(w) \/ SyncRead(w) \/ SyncLost(w)
  <2>1. UNCHANGED <<agent_commands, agent_task_targets, outcomes>>
    BY <1>1 DEF AckRead, AckError, SyncRead, SyncLost, serverVars
  <2>2. \/ workers' = [workers EXCEPT ![w].pc = "pending"] /\ loop' = loop
        \/ workers' = [workers EXCEPT ![w].pc = "refresh"] /\ loop' = loop /\ c.pc = "sync"
        \/ \E ok \in BOOLEAN : Answer(w, ok)
    BY <1>1 DEF AckRead, AckError, SyncRead, SyncLost
  <2>3. WorkersIssued' /\ LoopIssued'
    BY <1>0, <2>1, <2>2, AckAnswer, AckWorkerMoves
  <2>. QED BY <2>1, <2>3 DEF AckInv, PendingCommandHasOpenTarget, AppliedWasExecuted
<1>2. CASE AckUpdate(w)
  <2>1. /\ agent_commands' = [agent_commands EXCEPT ![c.task][c.agent] = AckStatus(c.applied)]
        /\ workers' = [workers EXCEPT ![w].pc = "sync"]
        /\ UNCHANGED <<agent_task_targets, loop, outcomes>>
    BY <1>2 DEF AckUpdate
  <2>2. /\ AckStatus(c.applied) \in {"APPLIED", "FAILED"}
        /\ AckStatus(c.applied) = "APPLIED" => c.applied
    BY DEF AckStatus
  <2>3. \A t \in TaskIds, a \in Agents :
           /\ t = c.task /\ a = c.agent => agent_commands'[t][a] = AckStatus(c.applied)
           /\ ~(t = c.task /\ a = c.agent) => agent_commands'[t][a] = agent_commands[t][a]
    BY <1>0, <2>1 DEF Typed, TypeOK
  <2>4. /\ workers'[w].task = c.task /\ workers'[w].agent = c.agent
        /\ workers'[w].applied = c.applied
        /\ \A v \in Workers \ {w} : workers'[v] = workers[v]
    BY <1>0, <2>1 DEF WorkerType, Typed, TypeOK
  <2>5. \A t \in TaskIds, a \in Agents : Issued(t, a) => Issued(t, a)'
    BY <2>2, <2>3 DEF Issued
  <2>6. WorkersIssued'
    <3> SUFFICES ASSUME NEW v \in Workers, workers'[v].pc # "idle"
                 PROVE  LET e == workers'[v] IN
                        /\ agent_commands'[e.task][e.agent] # "none"
                        /\ e.pc \in {"sync", "refresh"}
                              => agent_commands'[e.task][e.agent] # "PENDING"
                        /\ e.applied => "ok" \in outcomes[e.task][e.agent]
      BY <2>1 DEF WorkersIssued, Issued
    <3>1. CASE v = w
      BY <1>0, <2>2, <2>3, <2>4, <2>5, <3>1
    <3>2. CASE v # w
      <4>1. workers[v].task \in TaskIds /\ workers[v].agent \in Agents
        BY <2>4, <3>2 DEF Typed, WorkersTyped
      <4>2. agent_commands'[workers[v].task][workers[v].agent] \in
              {agent_commands[workers[v].task][workers[v].agent], AckStatus(c.applied)}
        BY <2>3, <4>1
      <4>. QED BY <2>2, <2>4, <3>2, <4>2 DEF AckInv, WorkersIssued, Issued
    <3>. QED BY <3>1, <3>2
  <2>7. LoopIssued'
    BY <2>1, <2>5 DEF AckInv, LoopIssued, AppliedFlag, Typed, TypeOK, LoopTyped, LoopType
  <2>8. PendingCommandHasOpenTarget' /\ AppliedWasExecuted'
    BY <1>0, <2>1, <2>2, <2>3 DEF AckInv, PendingCommandHasOpenTarget, AppliedWasExecuted
  <2>. QED BY <2>6, <2>7, <2>8 DEF AckInv
<1>3. CASE SyncWrite(w)
  <2>1. /\ agent_task_targets' = [agent_task_targets EXCEPT ![c.task] =
             [agent_task_targets[c.task] EXCEPT ![c.agent] = TargetResult(c.applied)]]
        /\ Answer(w, TRUE)
        /\ UNCHANGED <<agent_commands, outcomes>>
        /\ c.pc = "refresh"
    BY <1>3 DEF SyncWrite
  <2>2. agent_commands[c.task][c.agent] # "PENDING"
    BY <2>1 DEF AckInv, WorkersIssued
  <2>3. TargetResult(c.applied) = "DONE" => c.applied
    BY DEF TargetResult
  <2>4. \A t \in TaskIds, a \in Agents :
           /\ t = c.task /\ a = c.agent => agent_task_targets'[t][a] = TargetResult(c.applied)
           /\ ~(t = c.task /\ a = c.agent) =>
                 agent_task_targets'[t][a] = agent_task_targets[t][a]
    BY <1>0, <2>1 DEF Typed, TypeOK
  <2>5. WorkersIssued' /\ LoopIssued'
    BY <1>0, <2>1, AckAnswer
  <2>6. PendingCommandHasOpenTarget' /\ AppliedWasExecuted'
    BY <1>0, <2>1, <2>2, <2>3, <2>4
       DEF AckInv, PendingCommandHasOpenTarget, AppliedWasExecuted
  <2>. QED BY <2>5, <2>6 DEF AckInv
<1>. QED BY <1>1, <1>2, <1>3

LEMMA AckCrash == AckInv /\ ServerCrash => AckInv'
BY DEF ServerCrash, serverVars, IdleWorker, AckInv, WorkersIssued, LoopIssued, Issued,
       AppliedFlag, PendingCommandHasOpenTarget, AppliedWasExecuted

----------------------------------------------------------------------------
(* The inductive invariant: well typed states, rows of agent_tasks that     *)
(* agree with the commands issued for them and with what create_task has    *)
(* answered, and handlers that act on commands that were really issued.     *)

ActionInv == Typed /\ DispatchInv /\ AckInv

LEMMA ActionInit == Init => ActionInv
<1> SUFFICES ASSUME Init PROVE ActionInv
  OBVIOUS
<1>1. Typed
  BY TypedInit
<1>2. DispatchInv
  BY DEF Init, DispatchInv, FreshTasks, TasksHaveKeys, OneTaskPerKey, IssuedToTargets,
         RepliesNameTasks
<1>3. AckInv
  BY DEF Init, AckInv, WorkersIssued, LoopIssued, PendingCommandHasOpenTarget,
         AppliedWasExecuted, AppliedFlag, IdleLoop, IdleWorker
<1>. QED BY <1>1, <1>2, <1>3 DEF ActionInv

(* Every step but those of create_task leaves the rows as SameRows says.    *)
LEMMA StepsKeepRows ==
    ASSUME Typed, DispatchInv, AckInv, Next,
           ~\E h \in Creators : CreateInsert(h),
           ~\E h \in Creators, k \in Keys, b \in Bodies : CreateLookup(h, k, b)
    PROVE  SameRows
<1>1. ASSUME NEW a \in Agents, RegisterAgent(a) \/ RevokeAgent(a) \/ RestoreAgent(a)
      PROVE  SameRows
  BY <1>1, UnchangedSame DEF RegisterAgent, RevokeAgent, RestoreAgent
<1>2. ASSUME NEW h \in Creators, CreateValidate(h) \/ CreateRefused(h)
      PROVE  SameRows
  BY <1>2, UnchangedSame DEF CreateValidate, CreateRefused
<1>3. ASSUME NEW a \in Agents, Poll(a) \/ Execute(a) \/ CallFails(a) \/ AgentRestart(a)
      PROVE  SameRows
  BY <1>3, UnchangedSame DEF Poll, Execute, CallFails, AgentRestart
<1>4. ASSUME NEW a \in Agents, NEW w \in Workers, SendAck(a, w)
      PROVE  SameRows
  BY <1>4, UnchangedSame DEF SendAck
<1>5. ASSUME NEW w \in Workers, AckRead(w) \/ AckError(w) \/ SyncRead(w) \/ SyncLost(w)
      PROVE  SameRows
  BY <1>5, UnchangedSame DEF AckRead, AckError, SyncRead, SyncLost
<1>6. ServerCrash => SameRows
  BY UnchangedSame DEF ServerCrash
<1>. QED BY <1>1, <1>2, <1>3, <1>4, <1>5, <1>6, AckUpdateSame, SyncWriteSame DEF Next

LEMMA DispatchNext ==
    ASSUME Typed, DispatchInv, AckInv, Next
    PROVE  DispatchInv'
BY StepsKeepRows, DispatchFrame, DispatchLookup, DispatchInsert

LEMMA AckNext ==
    ASSUME Typed, DispatchInv, AckInv, Next
    PROVE  AckInv'
<1>1. ASSUME NEW a \in Agents, RegisterAgent(a) \/ RevokeAgent(a) \/ RestoreAgent(a)
      PROVE  AckInv'
  BY <1>1, AckFrame DEF RegisterAgent, RevokeAgent, RestoreAgent, serverVars
<1>2. ASSUME NEW h \in Creators, NEW k \in Keys, NEW b \in Bodies, CreateLookup(h, k, b)
      PROVE  AckInv'
  BY <1>2, AckFrame DEF CreateLookup, serverVars
<1>3. ASSUME NEW h \in Creators, CreateValidate(h) \/ CreateRefused(h)
      PROVE  AckInv'
  BY <1>3, AckFrame DEF CreateValidate, CreateRefused, serverVars
<1>. QED BY <1>1, <1>2, <1>3, AckInsert, AckLoop, AckSend, AckWorkers, AckCrash DEF Next

LEMMA ActionNext == ActionInv /\ [Next]_vars => ActionInv'
<1> SUFFICES ASSUME ActionInv, [Next]_vars PROVE ActionInv'
  OBVIOUS
<1>1. Typed'
  BY TypedNext DEF ActionInv
<1>2. CASE UNCHANGED vars
  <2>1. DispatchInv'
    BY <1>2, UnchangedSame, DispatchFrame DEF ActionInv, vars
  <2>2. AckInv'
    BY <1>2, AckFrame DEF ActionInv, vars, serverVars
  <2>. QED BY <1>1, <2>1, <2>2 DEF ActionInv
<1>3. CASE Next
  BY <1>1, <1>3, DispatchNext, AckNext DEF ActionInv
<1>. QED BY <1>2, <1>3

LEMMA ActionAlways == Spec => []ActionInv
BY ActionInit, ActionNext, PTL DEF Spec

(* The answers of create_task to one idempotency key name one task and one  *)
(* body, and an agent gets one command per key, however the threads that    *)
(* serve create_task interleave and whenever the server dies.               *)
THEOREM DispatchIsIdempotent == Spec => []IdempotentDispatch
<1>1. ActionInv => IdempotentDispatch
  <2> SUFFICES ASSUME ActionInv PROVE IdempotentDispatch
    OBVIOUS
  <2>1. \A t, u \in 1..last_task : agent_tasks[t].key = agent_tasks[u].key => t = u
    BY DEF ActionInv, DispatchInv, OneTaskPerKey
  <2>2. ASSUME NEW r \in replies, NEW s \in replies, r[1] = s[1]
        PROVE  r = s
    <3>1. r \in Keys \X Bodies \X TaskIds /\ s \in Keys \X Bodies \X TaskIds
      BY DEF ActionInv, Typed, TypeOK
    <3>2. r[3] = s[3] /\ r[2] = s[2]
      BY <2>1, <2>2 DEF ActionInv, DispatchInv, RepliesNameTasks
    <3>. QED BY <2>2, <3>1, <3>2
  <2>. QED BY <2>1, <2>2 DEF IdempotentDispatch
<1>. QED BY <1>1, ActionAlways, PTL

(* No target is settled while its command is still offered to the agent.    *)
THEOREM PendingIsOpen == Spec => []PendingCommandHasOpenTarget
<1>1. ActionInv => PendingCommandHasOpenTarget
  BY DEF ActionInv, AckInv
<1>. QED BY <1>1, ActionAlways, PTL

(* What the server shows as applied or done was executed with success, for  *)
(* any number of agents, overlapping handlers, losses and restarts.         *)
THEOREM AppliedIsExecuted == Spec => []AppliedWasExecuted
<1>1. ActionInv => AppliedWasExecuted
  BY DEF ActionInv, AckInv
<1>. QED BY <1>1, ActionAlways, PTL

----------------------------------------------------------------------------
(* Refinement: the three statements of create_task, interleaved in every    *)
(* way, are one atomic Accept per idempotency key.                          *)

(* Steps that keep the rows keep what the abstract specification sees.      *)
LEMMA SameRowsStutter ==
    ASSUME Typed, SameRows
    PROVE  UNCHANGED <<AcceptedBodies, OrderedAgents>>
<1>1. 1..last_task \subseteq TaskIds /\ last_task' = last_task
  BY DEF Typed, TypeOK, SameRows
<1>2. \A k \in Keys : TasksWith(k)' = TasksWith(k) /\ TasksWith(k) \subseteq TaskIds
  BY <1>1 DEF TasksWith, SameRows
<1>3. ASSUME NEW k \in Keys
      PROVE  /\ {agent_tasks'[t].body : t \in TasksWith(k)'}
                  = {agent_tasks[t].body : t \in TasksWith(k)}
             /\ {a \in Agents : \E t \in TasksWith(k)' : agent_commands'[t][a] # "none"}
                  = {a \in Agents : \E t \in TasksWith(k) : agent_commands[t][a] # "none"}
  BY <1>2 DEF SameRows
<1>4. UNCHANGED AcceptedBodies
  BY <1>3 DEF AcceptedBodies
<1>5. UNCHANGED OrderedAgents
  BY <1>3 DEF OrderedAgents, Issued
<1>. QED BY <1>4, <1>5

LEMMA InsertIsAccept ==
    ASSUME Typed, DispatchInv, NEW h \in Creators, CreateInsert(h)
    PROVE  Dispatch!Next
<1>0. PICK k \in Keys, b \in Bodies, t \in TaskIds :
         /\ k = creators[h].key /\ b = creators[h].body /\ t = last_task + 1
  BY DEF CreateInsert, Typed, CreatorsTyped, TypeOK
<1>1. /\ k \in Keys /\ b \in Bodies /\ t \in TaskIds /\ last_task \in Nat /\ t = last_task + 1
      /\ 1..last_task \subseteq TaskIds /\ TargetsOf[b] \subseteq Agents
  BY <1>0 DEF Typed, TypeOK
<1>2. /\ last_task' = t
      /\ agent_tasks' = [agent_tasks EXCEPT ![t] = SentTask(k, b)]
      /\ agent_commands' = [agent_commands EXCEPT ![t] = IssuedTo(b, "PENDING")]
      /\ TasksWith(k) = {}
  BY <1>0 DEF CreateInsert, KeyIsFree
<1>3. /\ SentTask(k, b).key = k /\ SentTask(k, b).body = b
      /\ agent_tasks'[t] = SentTask(k, b)
      /\ \A u \in 1..last_task : agent_tasks'[u] = agent_tasks[u]
  BY <1>1, <1>2 DEF SentTask, NoTask, Typed, TypeOK
<1>4. /\ \A u \in 1..last_task : agent_commands'[u] = agent_commands[u]
      /\ \A a \in Agents : agent_commands'[t][a] # "none" <=> a \in TargetsOf[b]
  BY <1>1, <1>2 DEF IssuedTo, Typed, TypeOK
<1>5. 1..last_task' = 1..last_task \cup {t}
  BY <1>1, <1>2
<1>6. TasksWith(k)' = {t}
  BY <1>2, <1>3, <1>5 DEF TasksWith
<1>7. \A j \in Keys \ {k} : TasksWith(j)' = TasksWith(j) /\ t \notin TasksWith(j)
  <2>1. \A j \in Keys : TasksWith(j)' = {u \in 1..last_task \cup {t} : agent_tasks'[u].key = j}
    BY <1>5 DEF TasksWith
  <2>2. t \notin 1..last_task
    BY <1>1
  <2>. QED BY <1>3, <2>1, <2>2 DEF TasksWith
<1>8. AcceptedBodies[k] = {}
  BY <1>1, <1>2 DEF AcceptedBodies
<1>9. AcceptedBodies' = [AcceptedBodies EXCEPT ![k] = {b}]
  <2>1. {agent_tasks'[u].body : u \in TasksWith(k)'} = {b}
    BY <1>3, <1>6
  <2>2. ASSUME NEW j \in Keys \ {k}
        PROVE  {agent_tasks'[u].body : u \in TasksWith(j)'}
                 = {agent_tasks[u].body : u \in TasksWith(j)}
    <3>1. \A u \in TasksWith(j) : agent_tasks'[u] = agent_tasks[u]
      BY <1>3 DEF TasksWith
    <3>. QED BY <1>7, <3>1
  <2>3. AcceptedBodies' = [j \in Keys |-> {agent_tasks'[u].body : u \in TasksWith(j)'}]
    BY DEF AcceptedBodies
  <2>4. \A j \in Keys \ {k} : AcceptedBodies'[j] = AcceptedBodies[j]
    BY <2>2, <2>3 DEF AcceptedBodies
  <2>5. AcceptedBodies'[k] = {b}
    BY <1>1, <2>1, <2>3
  <2>6. /\ AcceptedBodies = [j \in Keys |-> AcceptedBodies[j]]
        /\ AcceptedBodies' = [j \in Keys |-> AcceptedBodies'[j]]
    BY DEF AcceptedBodies
  <2>. QED BY <2>4, <2>5, <2>6
<1>10. OrderedAgents' = [OrderedAgents EXCEPT ![k] = TargetsOf[b]]
  <2>1. {a \in Agents : \E u \in TasksWith(k)' : agent_commands'[u][a] # "none"} = TargetsOf[b]
    BY <1>1, <1>4, <1>6
  <2>2. ASSUME NEW j \in Keys \ {k}
        PROVE  {a \in Agents : \E u \in TasksWith(j)' : agent_commands'[u][a] # "none"}
                 = {a \in Agents : \E u \in TasksWith(j) : agent_commands[u][a] # "none"}
    <3>1. \A u \in TasksWith(j) : agent_commands'[u] = agent_commands[u]
      BY <1>4 DEF TasksWith
    <3>. QED BY <1>7, <3>1
  <2>3. OrderedAgents' = [j \in Keys |->
           {a \in Agents : \E u \in TasksWith(j)' : agent_commands'[u][a] # "none"}]
    BY DEF OrderedAgents, Issued
  <2>4. \A j \in Keys \ {k} : OrderedAgents'[j] = OrderedAgents[j]
    BY <2>2, <2>3 DEF OrderedAgents, Issued
  <2>5. OrderedAgents'[k] = TargetsOf[b]
    BY <1>1, <2>1, <2>3
  <2>6. /\ OrderedAgents = [j \in Keys |-> OrderedAgents[j]]
        /\ OrderedAgents' = [j \in Keys |-> OrderedAgents'[j]]
    BY DEF OrderedAgents
  <2>. QED BY <2>4, <2>5, <2>6
<1>. QED BY <1>1, <1>8, <1>9, <1>10 DEF Dispatch!Next, Dispatch!Accept

LEMMA DispatchStep ==
    ASSUME ActionInv, [Next]_vars
    PROVE  [Dispatch!Next]_<<AcceptedBodies, OrderedAgents>>
<1>1. CASE UNCHANGED vars
  BY <1>1, UnchangedSame, SameRowsStutter DEF vars, ActionInv
<1>2. CASE Next /\ \E h \in Creators : CreateInsert(h)
  BY <1>2, InsertIsAccept DEF ActionInv
<1>3. CASE Next /\ ~\E h \in Creators : CreateInsert(h)
  <2>1. CASE \E h \in Creators, k \in Keys, b \in Bodies : CreateLookup(h, k, b)
    BY <2>1 DEF CreateLookup, serverVars, AcceptedBodies, OrderedAgents, TasksWith, Issued
  <2>2. CASE ~\E h \in Creators, k \in Keys, b \in Bodies : CreateLookup(h, k, b)
    BY <1>3, <2>2, StepsKeepRows, SameRowsStutter DEF ActionInv
  <2>. QED BY <2>1, <2>2
<1>. QED BY <1>1, <1>2, <1>3

(* Remote action tasks implement the atomic dispatch of TaskDispatch.       *)
THEOREM DispatchRefined == Spec => ImplementsDispatch
<1>1. Init => Dispatch!Init
  BY DEF Init, Dispatch!Init, AcceptedBodies, OrderedAgents, TasksWith
<1>2. ActionInv /\ [Next]_vars => [Dispatch!Next]_<<AcceptedBodies, OrderedAgents>>
  BY DispatchStep
<1>. QED BY <1>1, <1>2, ActionAlways, PTL DEF Spec, ImplementsDispatch, Dispatch!Spec


----------------------------------------------------------------------------
(* The counters and the status of a task agree with its targets, for every  *)
(* number of agents and of overlapping acknowledgement handlers.            *)

Targets(tgt, S) == {a \in Agents : tgt[a] \in S}

(* What CountsMatchTargets says of one task with targets tgt.               *)
Matches(task, tgt) ==
    /\ task.target_count = Cardinality(TargetsOf[task.body])
    /\ task.sent_count = Cardinality(Targets(tgt, {"SENT"}))
    /\ task.ack_count = Cardinality(Targets(tgt, {"DONE", "FAILED"}))
    /\ task.done_count = Cardinality(Targets(tgt, {"DONE"}))
    /\ task.failed_count = Cardinality(Targets(tgt, {"FAILED"}))
    /\ task.status = "FAILED" <=> Targets(tgt, {"FAILED"}) # {}
    /\ task.status = "DONE" <=> Targets(tgt, {"DONE"}) = TargetsOf[task.body]

TasksMatch == \A t \in 1..last_task : Matches(agent_tasks[t], agent_task_targets[t])

LEMMA TargetsFinite ==
    ASSUME NEW tgt, NEW S
    PROVE  /\ IsFiniteSet(Targets(tgt, S))
           /\ Cardinality(Targets(tgt, S)) \in Nat
           /\ Cardinality(Targets(tgt, S)) = 0 <=> Targets(tgt, S) = {}
<1>1. IsFiniteSet(Targets(tgt, S))
  BY FS_Subset DEF Targets
<1>. QED BY <1>1, FS_CardinalityType, FS_EmptySet

(* The status computed from the counts is the status of the targets.        *)
LEMMA StatusFromTargets ==
    ASSUME NEW tgt \in [Agents -> TargetStatus], NEW b \in Bodies,
           \A a \in Agents : tgt[a] # "none" <=> a \in TargetsOf[b]
    PROVE  LET total  == CountOf(tgt, {"SENT", "DONE", "FAILED"})
               status == StatusOf(total, CountOf(tgt, {"SENT"}), CountOf(tgt, {"DONE"}),
                                  CountOf(tgt, {"FAILED"}))
           IN  /\ total = Cardinality(TargetsOf[b])
               /\ status = "FAILED" <=> Targets(tgt, {"FAILED"}) # {}
               /\ status = "DONE" <=> Targets(tgt, {"DONE"}) = TargetsOf[b]
<1> DEFINE done   == CountOf(tgt, {"DONE"})
           failed == CountOf(tgt, {"FAILED"})
           total  == CountOf(tgt, {"SENT", "DONE", "FAILED"})
<1>1. /\ done = Cardinality(Targets(tgt, {"DONE"}))
      /\ failed = Cardinality(Targets(tgt, {"FAILED"}))
      /\ total = Cardinality(Targets(tgt, {"SENT", "DONE", "FAILED"}))
  BY DEF CountOf, Targets
<1>2. TargetsOf[b] \subseteq Agents /\ TargetsOf[b] # {}
  OBVIOUS
<1>3. Targets(tgt, {"SENT", "DONE", "FAILED"}) = TargetsOf[b]
  BY <1>2 DEF Targets, TargetStatus
<1>4. done \in Nat /\ failed \in Nat /\ total \in Nat /\ total # 0
  BY <1>1, <1>2, <1>3, TargetsFinite
<1>5. failed > 0 <=> Targets(tgt, {"FAILED"}) # {}
  BY <1>1, <1>4, TargetsFinite
<1>6. done = total <=> Targets(tgt, {"DONE"}) = TargetsOf[b]
  <2>1. Targets(tgt, {"DONE"}) \subseteq TargetsOf[b]
    BY <1>3 DEF Targets
  <2>2. IsFiniteSet(TargetsOf[b])
    BY <1>2, FS_Subset
  <2>. QED BY <1>1, <1>3, <2>1, <2>2, FS_Subset
<1>7. Targets(tgt, {"DONE"}) = TargetsOf[b] => Targets(tgt, {"FAILED"}) = {}
  BY <1>3 DEF Targets
<1> HIDE DEF done, failed, total
<1>8. /\ StatusOf(total, CountOf(tgt, {"SENT"}), done, failed) = "FAILED" <=> failed > 0
      /\ StatusOf(total, CountOf(tgt, {"SENT"}), done, failed) = "DONE"
            <=> ~(failed > 0) /\ done = total
  BY <1>4 DEF StatusOf
<1>. QED BY <1>1, <1>3, <1>5, <1>6, <1>7, <1>8 DEF done, failed, total

LEMMA RefreshedMatches ==
    ASSUME NEW task \in TaskType, NEW tgt \in [Agents -> TargetStatus],
           task.body \in Bodies,
           \A a \in Agents : tgt[a] # "none" <=> a \in TargetsOf[task.body]
    PROVE  Matches(Refreshed(task, tgt), tgt)
<1> DEFINE total  == CountOf(tgt, {"SENT", "DONE", "FAILED"})
           status == StatusOf(total, CountOf(tgt, {"SENT"}), CountOf(tgt, {"DONE"}),
                              CountOf(tgt, {"FAILED"}))
           row    == Refreshed(task, tgt)
<1>1. /\ row.body = task.body
      /\ row.status = status
      /\ row.target_count = total
      /\ row.sent_count = CountOf(tgt, {"SENT"})
      /\ row.ack_count = CountOf(tgt, {"DONE", "FAILED"})
      /\ row.done_count = CountOf(tgt, {"DONE"})
      /\ row.failed_count = CountOf(tgt, {"FAILED"})
  BY DEF Refreshed, TaskType
<1>2. \A S : CountOf(tgt, S) = Cardinality(Targets(tgt, S))
  BY DEF CountOf, Targets
<1>3. /\ total = Cardinality(TargetsOf[task.body])
      /\ status = "FAILED" <=> Targets(tgt, {"FAILED"}) # {}
      /\ status = "DONE" <=> Targets(tgt, {"DONE"}) = TargetsOf[task.body]
  BY StatusFromTargets
<1> HIDE DEF total, status, row
<1>4. Matches(row, tgt)
  BY <1>1, <1>2, <1>3 DEF Matches
<1>. QED BY <1>4 DEF row

LEMMA InsertedMatches ==
    ASSUME NEW k, NEW b \in Bodies
    PROVE  Matches(SentTask(k, b), IssuedTo(b, "SENT"))
<1> DEFINE row == SentTask(k, b)
           tgt == IssuedTo(b, "SENT")
<1>1. TargetsOf[b] \subseteq Agents /\ TargetsOf[b] # {}
  OBVIOUS
<1>2. /\ Targets(tgt, {"SENT"}) = TargetsOf[b]
      /\ Targets(tgt, {"DONE", "FAILED"}) = {}
      /\ Targets(tgt, {"DONE"}) = {}
      /\ Targets(tgt, {"FAILED"}) = {}
  BY <1>1 DEF Targets, IssuedTo
<1>3. /\ row.body = b /\ row.status = "SENT"
      /\ row.target_count = Cardinality(TargetsOf[b])
      /\ row.sent_count = Cardinality(TargetsOf[b])
      /\ row.ack_count = 0 /\ row.done_count = 0 /\ row.failed_count = 0
  BY DEF SentTask, NoTask
<1> HIDE DEF row, tgt
<1>4. Matches(row, tgt)
  BY <1>1, <1>2, <1>3, FS_EmptySet DEF Matches
<1>. QED BY <1>4 DEF row, tgt

LEMMA MatchInsert ==
    ASSUME Typed, TasksMatch, NEW h \in Creators, CreateInsert(h)
    PROVE  TasksMatch'
<1>0. PICK k \in Keys, b \in Bodies, t \in TaskIds :
         /\ k = creators[h].key /\ b = creators[h].body /\ t = last_task + 1
  BY DEF CreateInsert, Typed, CreatorsTyped, TypeOK
<1>1. /\ last_task' = t
      /\ agent_tasks' = [agent_tasks EXCEPT ![t] = SentTask(k, b)]
      /\ agent_task_targets' = [agent_task_targets EXCEPT ![t] = IssuedTo(b, "SENT")]
  BY <1>0 DEF CreateInsert
<1>2. last_task \in Nat /\ 1..last_task \subseteq TaskIds
  BY DEF Typed, TypeOK
<1>3. /\ agent_tasks'[t] = SentTask(k, b) /\ agent_task_targets'[t] = IssuedTo(b, "SENT")
      /\ \A u \in 1..last_task : /\ agent_tasks'[u] = agent_tasks[u]
                                 /\ agent_task_targets'[u] = agent_task_targets[u]
  BY <1>0, <1>1, <1>2 DEF Typed, TypeOK
<1>4. 1..last_task' = 1..last_task \cup {t}
  BY <1>0, <1>1, <1>2
<1>5. ASSUME NEW u \in 1..last_task'
      PROVE  Matches(agent_tasks'[u], agent_task_targets'[u])
  BY <1>3, <1>4, InsertedMatches DEF TasksMatch
<1>. QED BY <1>5 DEF TasksMatch, Matches, Targets

LEMMA MatchSync ==
    ASSUME ActionInv, TasksMatch, NEW w \in Workers, SyncWrite(w)
    PROVE  TasksMatch'
<1>0. PICK t \in TaskIds, a \in Agents, applied \in BOOLEAN :
         t = workers[w].task /\ a = workers[w].agent /\ applied = workers[w].applied
  <2>1. workers[w] \in WorkerType
    BY DEF ActionInv, Typed, TypeOK
  <2>. QED BY <2>1 DEF SyncWrite, ActionInv, Typed, WorkersTyped, WorkerType
<1> DEFINE tgt == [agent_task_targets[t] EXCEPT ![a] = TargetResult(applied)]
<1>1. /\ agent_task_targets' = [agent_task_targets EXCEPT ![t] = tgt]
      /\ agent_tasks' = [agent_tasks EXCEPT ![t] = Refreshed(@, tgt)]
      /\ last_task' = last_task
  BY <1>0 DEF SyncWrite
<1>2. t \in 1..last_task
  <2>1. agent_commands[t][a] # "none"
    BY <1>0 DEF SyncWrite, ActionInv, AckInv, WorkersIssued, Issued
  <2>. QED BY <2>1 DEF ActionInv, DispatchInv, FreshTasks, Typed, TypeOK
<1>3. /\ agent_tasks[t] \in TaskType /\ agent_tasks[t].body \in Bodies
      /\ agent_task_targets[t] \in [Agents -> TargetStatus]
  BY <1>2 DEF ActionInv, Typed, TypeOK, DispatchInv, TasksHaveKeys
<1>4. agent_commands[t][a] # "none" /\ a \in TargetsOf[agent_tasks[t].body]
  BY <1>0, <1>2 DEF SyncWrite, ActionInv, AckInv, WorkersIssued, Issued, DispatchInv,
                    IssuedToTargets
<1>5. /\ tgt \in [Agents -> TargetStatus]
      /\ \A d \in Agents : tgt[d] # "none" <=> d \in TargetsOf[agent_tasks[t].body]
  BY <1>2, <1>3, <1>4 DEF TargetResult, TargetStatus, ActionInv, DispatchInv, IssuedToTargets
<1> HIDE DEF tgt
<1>6. Matches(Refreshed(agent_tasks[t], tgt), tgt)
  BY <1>3, <1>5, RefreshedMatches
<1>7. /\ agent_tasks'[t] = Refreshed(agent_tasks[t], tgt) /\ agent_task_targets'[t] = tgt
      /\ \A u \in TaskIds \ {t} : /\ agent_tasks'[u] = agent_tasks[u]
                                  /\ agent_task_targets'[u] = agent_task_targets[u]
  BY <1>1 DEF ActionInv, Typed, TypeOK
<1>8. 1..last_task \subseteq TaskIds
  BY DEF ActionInv, Typed, TypeOK
<1>9. ASSUME NEW u \in 1..last_task
      PROVE  Matches(agent_tasks'[u], agent_task_targets'[u])
  BY <1>6, <1>7, <1>8 DEF TasksMatch
<1>. QED BY <1>1, <1>9 DEF TasksMatch, Matches, Targets

(* No other step touches the tables of tasks and targets.                   *)
LEMMA TablesChange ==
    ASSUME [Next]_vars,
           ~\E h \in Creators : CreateInsert(h),
           ~\E w \in Workers : SyncWrite(w)
    PROVE  UNCHANGED <<agent_tasks, agent_task_targets, last_task>>
<1>1. CASE UNCHANGED vars
  BY <1>1 DEF vars, serverVars
<1>2. CASE Next
  <2>1. ASSUME NEW a \in Agents,
               \/ RegisterAgent(a) \/ RevokeAgent(a) \/ RestoreAgent(a)
               \/ Poll(a) \/ Execute(a) \/ CallFails(a) \/ AgentRestart(a)
               \/ \E w \in Workers : SendAck(a, w)
        PROVE  UNCHANGED <<agent_tasks, agent_task_targets, last_task>>
    BY <2>1 DEF RegisterAgent, RevokeAgent, RestoreAgent, Poll, Execute, CallFails,
                AgentRestart, SendAck, serverVars
  <2>2. ASSUME NEW h \in Creators,
               \/ CreateValidate(h) \/ CreateRefused(h)
               \/ \E k \in Keys, b \in Bodies : CreateLookup(h, k, b)
        PROVE  UNCHANGED <<agent_tasks, agent_task_targets, last_task>>
    BY <2>2 DEF CreateValidate, CreateRefused, CreateLookup, serverVars
  <2>3. ASSUME NEW w \in Workers,
               AckRead(w) \/ AckUpdate(w) \/ AckError(w) \/ SyncRead(w) \/ SyncLost(w)
        PROVE  UNCHANGED <<agent_tasks, agent_task_targets, last_task>>
    BY <2>3 DEF AckRead, AckUpdate, AckError, SyncRead, SyncLost, serverVars
  <2>4. ServerCrash => UNCHANGED <<agent_tasks, agent_task_targets, last_task>>
    BY DEF ServerCrash, serverVars
  <2>. QED BY <1>2, <2>1, <2>2, <2>3, <2>4 DEF Next
<1>. QED BY <1>1, <1>2

LEMMA MatchNext == ActionInv /\ TasksMatch /\ [Next]_vars => TasksMatch'
<1> SUFFICES ASSUME ActionInv, TasksMatch, [Next]_vars PROVE TasksMatch'
  OBVIOUS
<1>1. CASE \E h \in Creators : CreateInsert(h)
  BY <1>1, MatchInsert DEF ActionInv
<1>2. CASE \E w \in Workers : SyncWrite(w)
  BY <1>2, MatchSync
<1>3. CASE ~(\E h \in Creators : CreateInsert(h)) /\ ~(\E w \in Workers : SyncWrite(w))
  <2>1. UNCHANGED <<agent_tasks, agent_task_targets, last_task>>
    BY <1>3, TablesChange
  <2>2. ASSUME NEW t \in 1..last_task'
        PROVE  Matches(agent_tasks'[t], agent_task_targets'[t])
    BY <2>1 DEF TasksMatch
  <2>. QED BY <2>2 DEF TasksMatch, Matches, Targets
<1>. QED BY <1>1, <1>2, <1>3

(* The counters and the status the console reads agree with the targets of  *)
(* the task, whatever handlers overlap or die: a target and the counts of   *)
(* its task are written in one transaction.                                 *)
THEOREM CountsAreRight == Spec => []CountsMatchTargets
<1>1. Init => TasksMatch
  BY DEF Init, TasksMatch
<1>2. TasksMatch => CountsMatchTargets
  BY DEF TasksMatch, Matches, Targets, CountsMatchTargets
<1>. QED BY <1>1, <1>2, ActionAlways, MatchNext, PTL DEF Spec

----------------------------------------------------------------------------
(* In-order execution.  The queue forgets a command only when it has been   *)
(* acknowledged, so a command not yet tried is still offered, and each      *)
(* batch holds every untried command older than the ones in it.             *)

Tried(t, a) == outcomes[t][a] # {}

UntriedIsPending == \A t \in TaskIds, a \in Agents :
    Issued(t, a) /\ ~Tried(t, a) => agent_commands[t][a] = "PENDING"

TriedIsIssued == \A t \in TaskIds, a \in Agents : Tried(t, a) => Issued(t, a)

\* An acknowledgement is about a command that was tried.
AckedIsTried == \A w \in Workers :
    workers[w].pc # "idle" => Tried(workers[w].task, workers[w].agent)

CurrentIsTried == \A a \in Agents : loop[a].cur \in TaskIds => Tried(loop[a].cur, a)

BatchIsOrdered == \A a \in Agents, t, u \in TaskIds :
    t < u /\ u \in loop[a].batch /\ Issued(t, a) => t \in loop[a].batch \/ Tried(t, a)

OrderInv == /\ UntriedIsPending /\ TriedIsIssued /\ AckedIsTried
            /\ CurrentIsTried /\ BatchIsOrdered /\ InOrderExecution

LEMMA OrderInit == Init => OrderInv
BY DEF Init, OrderInv, UntriedIsPending, TriedIsIssued, AckedIsTried, CurrentIsTried,
       BatchIsOrdered, InOrderExecution, Issued, Tried, IdleWorker, IdleLoop

(* Steps that keep the queue, the history and the handlers' commands.       *)
LEMMA OrderFrame ==
    ASSUME OrderInv, UNCHANGED <<agent_commands, outcomes>>,
           AckedIsTried', CurrentIsTried', BatchIsOrdered'
    PROVE  OrderInv'
BY DEF OrderInv, UntriedIsPending, TriedIsIssued, InOrderExecution, Issued, Tried

LEMMA OrderStutter ==
    ASSUME OrderInv, UNCHANGED <<agent_commands, outcomes, workers, loop>>
    PROVE  OrderInv'
<1>1. AckedIsTried' /\ CurrentIsTried' /\ BatchIsOrdered'
  BY DEF OrderInv, AckedIsTried, CurrentIsTried, BatchIsOrdered, Issued, Tried
<1>. QED BY <1>1, OrderFrame

(* A new command is younger than every command tried or in a batch.         *)
LEMMA OrderInsert ==
    ASSUME ActionInv, OrderInv, NEW h \in Creators, CreateInsert(h)
    PROVE  OrderInv'
<1>0. PICK n \in TaskIds, b \in Bodies : n = last_task + 1 /\ b = creators[h].body
  BY DEF CreateInsert, ActionInv, Typed, CreatorsTyped, TypeOK
<1>1. /\ agent_commands' = [agent_commands EXCEPT ![n] = IssuedTo(b, "PENDING")]
      /\ UNCHANGED <<outcomes, workers, loop>>
  BY <1>0 DEF CreateInsert
<1>2. /\ \A t \in TaskIds \ {n} : agent_commands'[t] = agent_commands[t]
      /\ \A a \in Agents : agent_commands'[n][a] \in {"none", "PENDING"}
  BY <1>1 DEF IssuedTo, ActionInv, Typed, TypeOK
<1>3. last_task \in Nat /\ n > last_task
  BY <1>0 DEF ActionInv, Typed, TypeOK
<1>4. \A t \in TaskIds, a \in Agents : t >= n => ~Issued(t, a)
  BY <1>0, <1>3 DEF ActionInv, DispatchInv, FreshTasks, Issued
<1>5. \A t \in TaskIds, a \in Agents : Tried(t, a) => t < n
  BY <1>4 DEF OrderInv, TriedIsIssued
<1>6. \A a \in Agents : \A u \in loop[a].batch : u \in TaskIds /\ u < n
  BY <1>4 DEF ActionInv, AckInv, LoopIssued, Typed, TypeOK, LoopType
<1>7. \A t \in TaskIds, a \in Agents : t # n => (Issued(t, a)' <=> Issued(t, a))
  BY <1>2 DEF Issued
<1>8. UntriedIsPending' /\ TriedIsIssued'
  BY <1>1, <1>2, <1>5, <1>7 DEF OrderInv, UntriedIsPending, TriedIsIssued, Issued, Tried
<1>9. AckedIsTried' /\ CurrentIsTried'
  BY <1>1 DEF OrderInv, AckedIsTried, CurrentIsTried, Tried
<1>10. BatchIsOrdered'
  BY <1>1, <1>6, <1>7 DEF OrderInv, BatchIsOrdered, Tried
<1>11. InOrderExecution'
  BY <1>1, <1>5, <1>7 DEF OrderInv, InOrderExecution, Tried
<1>. QED BY <1>8, <1>9, <1>10, <1>11 DEF OrderInv

LEMMA OrderPoll ==
    ASSUME ActionInv, OrderInv, NEW a \in Agents, Poll(a)
    PROVE  OrderInv'
<1>1. /\ loop' = [loop EXCEPT ![a] = [IdleLoop EXCEPT !.pc = "run", !.batch = PendingOf(a)]]
      /\ UNCHANGED <<agent_commands, outcomes, workers>>
  BY DEF Poll, serverVars
<1>2. /\ loop'[a].batch = PendingOf(a) /\ loop'[a].cur = 0
      /\ \A d \in Agents \ {a} : loop'[d] = loop[d]
  BY <1>1 DEF IdleLoop, ActionInv, Typed, TypeOK
<1>3. \A t, u \in TaskIds :
         t < u /\ u \in PendingOf(a) /\ Issued(t, a) => t \in PendingOf(a) \/ Tried(t, a)
  BY DEF PendingOf, OrderInv, UntriedIsPending, ActionInv, Typed, TypeOK
<1>4. BatchIsOrdered'
  BY <1>1, <1>2, <1>3 DEF OrderInv, BatchIsOrdered, Issued, Tried
<1>5. AckedIsTried'
  BY <1>1 DEF OrderInv, AckedIsTried, Tried
<1>6. \A d \in Agents : loop'[d].cur \in {0, loop[d].cur}
  BY <1>2
<1>n. 0 \notin TaskIds
  OBVIOUS
<1>7. CurrentIsTried'
  BY <1>1, <1>6, <1>n DEF OrderInv, CurrentIsTried, Tried
<1>. QED BY <1>1, <1>4, <1>5, <1>7, OrderFrame

(* The oldest command of a batch is executed: what is older was tried.      *)
LEMMA OrderExecute ==
    ASSUME ActionInv, OrderInv, NEW a \in Agents, Execute(a)
    PROVE  OrderInv'
<1>1. PICK n \in loop[a].batch, res \in Outcome :
        /\ OldestFirst(n, loop[a].batch)
        /\ loop' = [loop EXCEPT ![a].pc = IF res = "raise" THEN "nack" ELSE "ack",
                                ![a].cur = n, ![a].res = res]
        /\ outcomes' = [outcomes EXCEPT ![n][a] = @ \cup {Recorded(res)}]
  BY DEF Execute
<1>2. n \in TaskIds /\ Issued(n, a) /\ loop[a] \in LoopType
  BY DEF ActionInv, Typed, TypeOK, LoopType, AckInv, LoopIssued
<1>3. UNCHANGED <<agent_commands, workers>>
  BY DEF Execute, serverVars
<1>4. /\ Tried(n, a)'
      /\ \A t \in TaskIds, d \in Agents : Tried(t, d) => Tried(t, d)'
      /\ \A t \in TaskIds, d \in Agents : Tried(t, d)' => Tried(t, d) \/ (t = n /\ d = a)
  BY <1>1, <1>2 DEF Tried, ActionInv, Typed, TypeOK
<1>5. /\ loop'[a].batch = loop[a].batch /\ loop'[a].cur = n
      /\ \A d \in Agents \ {a} : loop'[d] = loop[d]
  BY <1>1, <1>2 DEF ActionInv, Typed, TypeOK, LoopType
<1>6. \A t \in TaskIds : t < n /\ Issued(t, a) => Tried(t, a)
  <2> SUFFICES ASSUME NEW t \in TaskIds, t < n, Issued(t, a) PROVE Tried(t, a)
    OBVIOUS
  <2>1. t \in loop[a].batch => n <= t
    BY <1>1 DEF OldestFirst
  <2>2. t \notin loop[a].batch
    BY <1>2, <2>1
  <2>. QED BY <1>2, <2>2 DEF OrderInv, BatchIsOrdered
<1>7. UntriedIsPending' /\ TriedIsIssued'
  BY <1>2, <1>3, <1>4 DEF OrderInv, UntriedIsPending, TriedIsIssued, Issued
<1>8. AckedIsTried'
  BY <1>3, <1>4 DEF OrderInv, AckedIsTried, ActionInv, Typed, WorkersTyped
<1>9. CurrentIsTried'
  BY <1>4, <1>5 DEF OrderInv, CurrentIsTried
<1>10. BatchIsOrdered'
  <2>1. \A d \in Agents : loop'[d].batch = loop[d].batch
    BY <1>5
  <2>. QED BY <1>3, <1>4, <2>1 DEF OrderInv, BatchIsOrdered, Issued
<1>11. InOrderExecution'
  <2> SUFFICES ASSUME NEW t \in TaskIds, NEW u \in TaskIds, NEW d \in Agents,
                      t < u, Issued(t, d), Tried(u, d)'
               PROVE  Tried(t, d)'
    BY <1>3 DEF InOrderExecution, Issued, Tried
  <2>1. CASE u = n /\ d = a
    BY <1>4, <1>6, <2>1
  <2>2. CASE Tried(u, d)
    BY <1>4, <2>2 DEF OrderInv, InOrderExecution, Tried
  <2>. QED BY <1>4, <2>1, <2>2
<1>. QED BY <1>7, <1>8, <1>9, <1>10, <1>11 DEF OrderInv

(* After an acknowledgement the rest of the batch is still ordered.         *)
LEMMA LoopKeepsOrder ==
    ASSUME ActionInv, OrderInv, NEW a \in Agents, NEW l,
           l \in {AfterAck(loop[a]), AfterFailedCall(loop[a]), IdleLoop},
           loop' = [loop EXCEPT ![a] = l],
           UNCHANGED <<agent_commands, outcomes>>
    PROVE  CurrentIsTried' /\ BatchIsOrdered'
<1>1. loop[a] \in LoopType
  BY DEF ActionInv, Typed, TypeOK
<1>2. /\ l.cur \in {0, loop[a].cur}
      /\ l.batch \in {{}, loop[a].batch, loop[a].batch \ {loop[a].cur}}
  <2>1. CASE l = IdleLoop
    BY <2>1 DEF IdleLoop
  <2>2. CASE l = AfterAck(loop[a])
    BY <2>2 DEF AfterAck, IdleLoop
  <2>3. CASE l = AfterFailedCall(loop[a])
    <3>1. CASE l = [loop[a] EXCEPT !.pc = "nack", !.on = None]
      BY <1>1, <3>1 DEF LoopType
    <3>2. CASE l = IdleLoop
      BY <3>2 DEF IdleLoop
    <3>. QED BY <2>3, <3>1, <3>2 DEF AfterFailedCall
  <2>. QED BY <2>1, <2>2, <2>3
<1>3. loop'[a] = l /\ \A d \in Agents \ {a} : loop'[d] = loop[d]
  BY DEF ActionInv, Typed, TypeOK
<1>n. 0 \notin TaskIds
  OBVIOUS
<1>4. CurrentIsTried'
  <2>1. \A d \in Agents : loop'[d].cur \in {0, loop[d].cur}
    BY <1>2, <1>3
  <2>. QED BY <1>n, <2>1 DEF OrderInv, CurrentIsTried, Tried
<1>5. \A t \in TaskIds : t \in loop[a].batch => t \in loop[a].batch \ {loop[a].cur} \/ Tried(t, a)
  BY DEF OrderInv, CurrentIsTried
<1>6. \A t, u \in TaskIds : t < u /\ u \in l.batch /\ Issued(t, a) => t \in l.batch \/ Tried(t, a)
  BY <1>2, <1>5 DEF OrderInv, BatchIsOrdered
<1>7. BatchIsOrdered'
  BY <1>3, <1>6 DEF OrderInv, BatchIsOrdered, Issued, Tried
<1>. QED BY <1>4, <1>7

LEMMA OrderCallFails ==
    ASSUME ActionInv, OrderInv, NEW a \in Agents, CallFails(a) \/ AgentRestart(a)
    PROVE  OrderInv'
<1>1. PICK l : /\ l \in {AfterAck(loop[a]), AfterFailedCall(loop[a]), IdleLoop}
               /\ loop' = [loop EXCEPT ![a] = l]
  BY DEF CallFails, AgentRestart
<1>2. UNCHANGED <<agent_commands, outcomes, workers>>
  BY DEF CallFails, AgentRestart, serverVars
<1>3. CurrentIsTried' /\ BatchIsOrdered'
  BY <1>1, <1>2, LoopKeepsOrder
<1>4. AckedIsTried'
  BY <1>2 DEF OrderInv, AckedIsTried, Tried
<1>. QED BY <1>2, <1>3, <1>4, OrderFrame

LEMMA OrderSend ==
    ASSUME ActionInv, OrderInv, NEW a \in Agents, NEW w \in Workers, SendAck(a, w)
    PROVE  OrderInv'
<1> DEFINE pc == IF loop[a].pc = "ack" THEN "wait_ack" ELSE "wait_nack"
<1>1. /\ workers' = [workers EXCEPT ![w] = [pc |-> "received", agent |-> a,
                         task |-> loop[a].cur, applied |-> AppliedFlag(loop[a])]]
      /\ loop' = [loop EXCEPT ![a].pc = pc, ![a].on = w]
      /\ UNCHANGED <<agent_commands, outcomes>>
      /\ loop[a].pc \in {"ack", "nack"}
  BY DEF SendAck, serverVars
<1> HIDE DEF pc
<1>2. Tried(loop[a].cur, a)
  BY <1>1 DEF OrderInv, CurrentIsTried, ActionInv, Typed, LoopTyped
<1>3. AckedIsTried'
  BY <1>1, <1>2 DEF OrderInv, AckedIsTried, Tried, ActionInv, Typed, TypeOK
<1>4. \A d \in Agents : loop'[d].batch = loop[d].batch /\ loop'[d].cur = loop[d].cur
  <2>1. loop[a] \in LoopType
    BY DEF ActionInv, Typed, TypeOK
  <2>. QED BY <1>1, <2>1 DEF LoopType, ActionInv, Typed, TypeOK
<1>5. CurrentIsTried' /\ BatchIsOrdered'
  BY <1>1, <1>4 DEF OrderInv, CurrentIsTried, BatchIsOrdered, Issued, Tried
<1>. QED BY <1>1, <1>3, <1>5, OrderFrame

LEMMA OrderAnswer ==
    ASSUME ActionInv, OrderInv, NEW w \in Workers, workers[w].pc # "idle",
           NEW ok \in BOOLEAN, Answer(w, ok), UNCHANGED <<agent_commands, outcomes>>
    PROVE  OrderInv'
<1>1. workers' = [workers EXCEPT ![w] = IdleWorker]
  BY DEF Answer
<1>2. AckedIsTried'
  BY <1>1 DEF IdleWorker, OrderInv, AckedIsTried, Tried, ActionInv, Typed, TypeOK
<1>3. CASE loop' = loop
  BY <1>2, <1>3, OrderFrame
     DEF OrderInv, CurrentIsTried, BatchIsOrdered, Issued, Tried
<1>4. CASE loop' # loop
  <2>1. PICK a \in Agents : a = workers[w].agent
    BY DEF ActionInv, Typed, WorkersTyped
  <2>2. PICK l : /\ l \in {AfterAck(loop[a]), AfterFailedCall(loop[a]), IdleLoop}
                 /\ loop' = [loop EXCEPT ![a] = l]
    BY <1>4, <2>1 DEF Answer
  <2>3. CurrentIsTried' /\ BatchIsOrdered'
    BY <2>2, LoopKeepsOrder
  <2>. QED BY <1>2, <2>3, OrderFrame
<1>. QED BY <1>3, <1>4

LEMMA OrderWorkers ==
    ASSUME ActionInv, OrderInv, NEW w \in Workers,
           \/ AckRead(w) \/ AckUpdate(w) \/ AckError(w)
           \/ SyncRead(w) \/ SyncWrite(w) \/ SyncLost(w)
    PROVE  OrderInv'
<1>0. /\ workers[w].pc # "idle" /\ workers[w] \in WorkerType
      /\ workers[w].agent \in Agents /\ workers[w].task \in TaskIds
      /\ Tried(workers[w].task, workers[w].agent)
  BY DEF AckRead, AckUpdate, AckError, SyncRead, SyncWrite, SyncLost, ActionInv, Typed,
         TypeOK, WorkersTyped, OrderInv, AckedIsTried
<1>1. outcomes' = outcomes
  BY DEF AckRead, AckUpdate, AckError, SyncRead, SyncWrite, SyncLost
<1>2. CASE \E ok \in BOOLEAN : Answer(w, ok)
  <2>1. agent_commands' = agent_commands \/ AckUpdate(w)
    BY DEF AckRead, AckError, SyncRead, SyncWrite, SyncLost, serverVars
  <2>2. ~AckUpdate(w)
    BY <1>0, <1>2 DEF AckUpdate, Answer, IdleWorker, ActionInv, Typed, TypeOK, WorkerType
  <2>. QED BY <1>0, <1>1, <1>2, <2>1, <2>2, OrderAnswer
<1>3. CASE ~\E ok \in BOOLEAN : Answer(w, ok)
  <2>1. PICK pc \in {"pending", "sync", "refresh"} : workers' = [workers EXCEPT ![w].pc = pc]
    BY <1>3 DEF AckRead, AckUpdate, AckError, SyncRead, SyncWrite, SyncLost
  <2>2. loop' = loop
    BY <1>3 DEF AckRead, AckUpdate, AckError, SyncRead, SyncWrite, SyncLost
  <2>3. \A v \in Workers : /\ workers'[v].task = workers[v].task
                           /\ workers'[v].agent = workers[v].agent
                           /\ workers'[v].pc # "idle" => workers[v].pc # "idle"
    BY <1>0, <2>1 DEF WorkerType, ActionInv, Typed, TypeOK
  <2>4. AckedIsTried'
    BY <1>1, <2>3 DEF OrderInv, AckedIsTried, Tried
  <2>5. CASE AckUpdate(w)
    <3>1. agent_commands' = [agent_commands EXCEPT ![workers[w].task][workers[w].agent] =
                               AckStatus(workers[w].applied)]
      BY <2>5 DEF AckUpdate
    <3>2. AckStatus(workers[w].applied) \in {"APPLIED", "FAILED"}
      BY DEF AckStatus
    <3>3. \A t \in TaskIds, a \in Agents :
             \/ agent_commands'[t][a] = agent_commands[t][a]
             \/ Tried(t, a) /\ agent_commands'[t][a] # "none"
      BY <1>0, <3>1, <3>2 DEF ActionInv, Typed, TypeOK
    <3>4. \A t \in TaskIds, a \in Agents : Issued(t, a)' => Issued(t, a)
      BY <3>3 DEF Issued, OrderInv, TriedIsIssued
    <3>5. UntriedIsPending' /\ TriedIsIssued'
      BY <1>1, <3>3 DEF OrderInv, UntriedIsPending, TriedIsIssued, Issued, Tried
    <3>6. BatchIsOrdered' /\ InOrderExecution'
      BY <1>1, <2>2, <3>4 DEF OrderInv, BatchIsOrdered, InOrderExecution, Tried
    <3>7. CurrentIsTried'
      BY <1>1, <2>2 DEF OrderInv, CurrentIsTried, Tried
    <3>. QED BY <2>4, <3>5, <3>6, <3>7 DEF OrderInv
  <2>6. CASE ~AckUpdate(w)
    <3>1. agent_commands' = agent_commands
      BY <2>6 DEF AckRead, AckError, SyncRead, SyncWrite, SyncLost, serverVars
    <3>2. CurrentIsTried' /\ BatchIsOrdered'
      BY <1>1, <2>2, <3>1 DEF OrderInv, CurrentIsTried, BatchIsOrdered, Issued, Tried
    <3>. QED BY <1>1, <2>4, <3>1, <3>2, OrderFrame
  <2>. QED BY <2>5, <2>6
<1>. QED BY <1>2, <1>3

LEMMA OrderNext == ActionInv /\ OrderInv /\ [Next]_vars => OrderInv'
<1> SUFFICES ASSUME ActionInv, OrderInv, [Next]_vars PROVE OrderInv'
  OBVIOUS
<1>1. CASE UNCHANGED vars
  BY <1>1, OrderStutter DEF vars, serverVars
<1>2. CASE Next
  <2>1. ASSUME NEW a \in Agents, RegisterAgent(a) \/ RevokeAgent(a) \/ RestoreAgent(a)
        PROVE  OrderInv'
    BY <2>1, OrderStutter DEF RegisterAgent, RevokeAgent, RestoreAgent, serverVars
  <2>2. ASSUME NEW h \in Creators,
               \/ CreateValidate(h) \/ CreateRefused(h)
               \/ \E k \in Keys, b \in Bodies : CreateLookup(h, k, b)
        PROVE  OrderInv'
    BY <2>2, OrderStutter DEF CreateValidate, CreateRefused, CreateLookup, serverVars
  <2>3. ServerCrash => OrderInv'
    <3>1. ServerCrash => AckedIsTried' /\ CurrentIsTried' /\ BatchIsOrdered'
                         /\ UNCHANGED <<agent_commands, outcomes>>
      BY DEF ServerCrash, serverVars, IdleWorker, OrderInv, AckedIsTried, CurrentIsTried,
             BatchIsOrdered, Issued, Tried
    <3>. QED BY <3>1, OrderFrame
  <2>. QED BY <1>2, <2>1, <2>2, <2>3, OrderInsert, OrderPoll, OrderExecute, OrderCallFails,
              OrderSend, OrderWorkers DEF Next
<1>. QED BY <1>1, <1>2

(* Every agent tries its commands in the order they were issued, for any    *)
(* number of handlers that answer late, lost calls, restarts and crashes.   *)
THEOREM ExecutedInOrder == Spec => []InOrderExecution
<1>1. OrderInv => InOrderExecution
  BY DEF OrderInv
<1>. QED BY <1>1, ActionAlways, OrderInit, OrderNext, PTL DEF Spec

----------------------------------------------------------------------------
(* A finished task keeps its result unless two handlers of one of its       *)
(* commands were both between the read and the write of its target.  The    *)
(* server does not exclude that: a first acknowledgement that timed out and *)
(* the second one can both have read the target as SENT, and the later      *)
(* write wins.  "contested" remembers the tasks to which it has happened.   *)

SyncsCounted == \A v, w \in Workers : Meet(v, w) => workers[v].task \in contested

\* What a handler has read of its target is still so when it writes.
ReadIsFresh == \A w \in Workers :
    workers[w].pc = "refresh" /\ workers[w].task \notin contested =>
       agent_task_targets[workers[w].task][workers[w].agent] = "SENT"

Finished(task) == task.status \in {"DONE", "FAILED"}

CompletedIsFinished == \A t \in TaskIds \ contested :
    agent_tasks[t].completed <=> Finished(agent_tasks[t])

FreshIsOpen == \A t \in TaskIds : t > last_task => ~Finished(agent_tasks[t])

FinishInv ==
    TasksMatch /\ SyncsCounted /\ ReadIsFresh /\ CompletedIsFinished /\ FreshIsOpen

\* What FinishedTaskIsStable says of a step.
ResultsKept == \A t \in TaskIds \ contested :
    Finished(agent_tasks[t]) => agent_tasks'[t].status = agent_tasks[t].status

LEMMA FinishInit == ResultInit => FinishInv
BY DEF ResultInit, Init, FinishInv, TasksMatch, SyncsCounted, Meet, ReadIsFresh,
       CompletedIsFinished, FreshIsOpen, Finished, NoTask, IdleWorker

(* Every step is one of RemoteActions and forgets no meeting.               *)
LEMMA ResultStep ==
    ASSUME ActionInv, FinishInv, [ResultNext]_resultVars
    PROVE  [Next]_vars /\ contested \subseteq contested' /\ SyncsCounted'
<1>1. CASE ResultNext
  <2>1. [Next]_vars /\ contested' = contested \cup Meeting'
    BY <1>1 DEF ResultNext
  <2>2. WorkersTyped'
    BY <2>1, ActionNext DEF ActionInv, Typed
  <2>3. SyncsCounted'
    <3> SUFFICES ASSUME NEW v \in Workers, NEW w \in Workers, Meet(v, w)'
                 PROVE  workers'[v].task \in contested'
      BY DEF SyncsCounted
    <3>1. workers'[v].task \in TaskIds
      BY <2>2 DEF Meet, WorkersTyped
    <3>. QED BY <2>1, <3>1 DEF Meeting
  <2>. QED BY <2>1, <2>3
<1>2. CASE UNCHANGED resultVars
  <2>1. UNCHANGED <<vars, contested>>
    BY <1>2 DEF resultVars
  <2>2. workers' = workers
    BY <2>1 DEF vars
  <2>. QED BY <2>1, <2>2 DEF FinishInv, SyncsCounted, Meet
<1>. QED BY <1>1, <1>2

(* A handler enters the write only with a target it has read as SENT.       *)
LEMMA EntersWithSent ==
    ASSUME ActionInv, [Next]_vars, NEW w \in Workers, workers'[w].pc = "refresh"
    PROVE  \/ workers'[w] = workers[w]
           \/ /\ SyncRead(w)
              /\ workers'[w].task = workers[w].task /\ workers'[w].agent = workers[w].agent
              /\ agent_task_targets[workers[w].task][workers[w].agent] = "SENT"
<1>1. workers \in [Workers -> WorkerType]
  BY DEF ActionInv, Typed, TypeOK
<1>2. CASE workers' = workers
  BY <1>2
<1>3. CASE \E a \in Agents, v \in Workers : SendAck(a, v)
  <2>1. PICK a \in Agents, v \in Workers : SendAck(a, v)
    BY <1>3
  <2>2. workers' = [workers EXCEPT ![v] = [pc |-> "received", agent |-> a,
                         task |-> loop[a].cur, applied |-> AppliedFlag(loop[a])]]
    BY <2>1 DEF SendAck
  <2>. QED BY <1>1, <2>2
<1>4. CASE ServerCrash
  BY <1>4 DEF ServerCrash, IdleWorker
<1>5. ASSUME NEW v \in Workers, NEW r, r.pc # "refresh",
             workers' = [workers EXCEPT ![v] = r]
      PROVE  workers'[w] = workers[w]
  BY <1>1, <1>5
<1>6. CASE \E v \in Workers, ok \in BOOLEAN : Answer(v, ok)
  BY <1>5, <1>6 DEF Answer, IdleWorker
<1>7. CASE \E v \in Workers, pc \in {"pending", "sync"} :
             workers' = [workers EXCEPT ![v].pc = pc]
  BY <1>1, <1>7 DEF WorkerType
<1>8. CASE \E v \in Workers : SyncRead(v) /\ workers' = [workers EXCEPT ![v].pc = "refresh"]
  <2>1. PICK v \in Workers :
          SyncRead(v) /\ workers' = [workers EXCEPT ![v].pc = "refresh"]
    BY <1>8
  <2>2. CASE v # w
    BY <1>1, <2>1, <2>2
  <2>3. CASE v = w
    <3>1. workers'[w].task = workers[w].task /\ workers'[w].agent = workers[w].agent
      BY <1>1, <2>1, <2>3 DEF WorkerType
    <3>2. workers[w].pc = "sync" /\ workers[w].task \in TaskIds /\ workers[w].agent \in Agents
          /\ Issued(workers[w].task, workers[w].agent)
      BY <2>1, <2>3 DEF SyncRead, ActionInv, Typed, WorkersTyped, AckInv, WorkersIssued
    <3>3. agent_task_targets[workers[w].task][workers[w].agent] # "none"
      BY <3>2 DEF Issued, ActionInv, DispatchInv, FreshTasks, IssuedToTargets, Typed, TypeOK
    <3>4. agent_task_targets[workers[w].task][workers[w].agent] \notin {"DONE", "FAILED"}
      <4>1. ~Answer(w, TRUE)
        BY <1>1 DEF Answer, IdleWorker
      <4>. QED BY <2>1, <2>3, <4>1 DEF SyncRead
    <3>5. agent_task_targets[workers[w].task][workers[w].agent] \in TargetStatus
      BY <3>2 DEF ActionInv, Typed, TypeOK
    <3>. QED BY <2>1, <2>3, <3>1, <3>3, <3>4, <3>5 DEF TargetStatus
  <2>. QED BY <2>2, <2>3
<1>9. \/ workers' = workers
      \/ \E a \in Agents, v \in Workers : SendAck(a, v)
      \/ ServerCrash
      \/ \E v \in Workers, ok \in BOOLEAN : Answer(v, ok)
      \/ \E v \in Workers, pc \in {"pending", "sync"} :
            workers' = [workers EXCEPT ![v].pc = pc]
      \/ \E v \in Workers : SyncRead(v) /\ workers' = [workers EXCEPT ![v].pc = "refresh"]
  <2>1. ASSUME NEW v \in Workers, \/ AckRead(v) \/ AckUpdate(v) \/ AckError(v)
                                  \/ SyncRead(v) \/ SyncWrite(v) \/ SyncLost(v)
        PROVE  \/ \E ok \in BOOLEAN : Answer(v, ok)
               \/ \E pc \in {"pending", "sync"} : workers' = [workers EXCEPT ![v].pc = pc]
               \/ SyncRead(v) /\ workers' = [workers EXCEPT ![v].pc = "refresh"]
    BY <2>1 DEF AckRead, AckUpdate, AckError, SyncRead, SyncWrite, SyncLost
  <2>2. ASSUME NEW a \in Agents,
               \/ RegisterAgent(a) \/ RevokeAgent(a) \/ RestoreAgent(a)
               \/ Poll(a) \/ Execute(a) \/ CallFails(a) \/ AgentRestart(a)
        PROVE  workers' = workers
    BY <2>2 DEF RegisterAgent, RevokeAgent, RestoreAgent, Poll, Execute, CallFails,
                AgentRestart
  <2>3. ASSUME NEW h \in Creators,
               \/ CreateValidate(h) \/ CreateInsert(h) \/ CreateRefused(h)
               \/ \E k \in Keys, b \in Bodies : CreateLookup(h, k, b)
        PROVE  workers' = workers
    BY <2>3 DEF CreateValidate, CreateInsert, CreateRefused, CreateLookup
  <2>4. UNCHANGED vars => workers' = workers
    BY DEF vars
  <2>. QED BY <2>1, <2>2, <2>3, <2>4 DEF Next
<1>. QED BY <1>2, <1>3, <1>4, <1>6, <1>7, <1>8, <1>9

(* The rows stay: so does what each handler has read of them.               *)
LEMMA FinishFrame ==
    ASSUME ActionInv, FinishInv, [Next]_vars, contested \subseteq contested',
           UNCHANGED <<agent_tasks, agent_task_targets, last_task>>
    PROVE  ReadIsFresh' /\ CompletedIsFinished' /\ FreshIsOpen' /\ ResultsKept
<1>1. ReadIsFresh'
  <2> SUFFICES ASSUME NEW w \in Workers, workers'[w].pc = "refresh",
                      workers'[w].task \notin contested'
               PROVE  agent_task_targets[workers'[w].task][workers'[w].agent] = "SENT"
    BY DEF ReadIsFresh
  <2>. QED BY EntersWithSent DEF FinishInv, ReadIsFresh
<1>. QED BY <1>1 DEF FinishInv, CompletedIsFinished, FreshIsOpen, ResultsKept, Finished

LEMMA FinishInsert ==
    ASSUME ActionInv, FinishInv, contested \subseteq contested',
           NEW h \in Creators, CreateInsert(h)
    PROVE  ReadIsFresh' /\ CompletedIsFinished' /\ FreshIsOpen' /\ ResultsKept
<1>0. PICK k \in Keys, b \in Bodies, n \in TaskIds :
         k = creators[h].key /\ b = creators[h].body /\ n = last_task + 1
  BY DEF CreateInsert, ActionInv, Typed, CreatorsTyped, TypeOK
<1>1. /\ last_task' = n
      /\ agent_tasks' = [agent_tasks EXCEPT ![n] = SentTask(k, b)]
      /\ agent_task_targets' = [agent_task_targets EXCEPT ![n] = IssuedTo(b, "SENT")]
      /\ workers' = workers
  BY <1>0 DEF CreateInsert
<1>2. last_task \in Nat /\ n > last_task
  BY <1>0 DEF ActionInv, Typed, TypeOK
<1>3. /\ agent_tasks'[n] = SentTask(k, b)
      /\ \A t \in TaskIds \ {n} : agent_tasks'[t] = agent_tasks[t]
      /\ \A t \in TaskIds \ {n} : agent_task_targets'[t] = agent_task_targets[t]
  BY <1>1 DEF ActionInv, Typed, TypeOK
<1>4. SentTask(k, b).status = "SENT" /\ SentTask(k, b).completed = FALSE
  BY DEF SentTask, NoTask
<1>5. ~Finished(agent_tasks[n])
  BY <1>2 DEF FinishInv, FreshIsOpen
<1>6. ReadIsFresh'
  <2> SUFFICES ASSUME NEW w \in Workers, workers[w].pc = "refresh",
                      workers[w].task \notin contested
               PROVE  agent_task_targets'[workers[w].task][workers[w].agent] = "SENT"
    BY <1>1 DEF ReadIsFresh
  <2>1. /\ workers[w].task \in TaskIds /\ workers[w].agent \in Agents
        /\ Issued(workers[w].task, workers[w].agent)
    BY DEF ActionInv, Typed, WorkersTyped, AckInv, WorkersIssued
  <2>2. workers[w].task # n
    BY <1>2, <2>1 DEF Issued, ActionInv, DispatchInv, FreshTasks
  <2>. QED BY <1>3, <2>1, <2>2 DEF FinishInv, ReadIsFresh
<1>7. CompletedIsFinished'
  <2> SUFFICES ASSUME NEW t \in TaskIds, t \notin contested
               PROVE  agent_tasks'[t].completed <=> Finished(agent_tasks'[t])
    BY DEF CompletedIsFinished, Finished
  <2>1. CASE t = n
    BY <1>3, <1>4, <2>1 DEF Finished
  <2>2. CASE t # n
    BY <1>3, <2>2 DEF FinishInv, CompletedIsFinished, Finished
  <2>. QED BY <2>1, <2>2
<1>8. FreshIsOpen'
  <2> SUFFICES ASSUME NEW t \in TaskIds, t > n
               PROVE  ~Finished(agent_tasks'[t])
    BY <1>1 DEF FreshIsOpen, Finished
  <2>1. t > last_task /\ t # n
    BY <1>2
  <2>. QED BY <1>3, <2>1 DEF FinishInv, FreshIsOpen, Finished
<1>9. ResultsKept
  BY <1>3, <1>5 DEF ResultsKept
<1>. QED BY <1>6, <1>7, <1>8, <1>9

LEMMA FinishSync ==
    ASSUME ActionInv, FinishInv, TasksMatch', contested \subseteq contested', [Next]_vars,
           NEW w \in Workers, SyncWrite(w)
    PROVE  ReadIsFresh' /\ CompletedIsFinished' /\ FreshIsOpen' /\ ResultsKept
<1>0. PICK n \in TaskIds, a \in Agents, applied \in BOOLEAN :
         n = workers[w].task /\ a = workers[w].agent /\ applied = workers[w].applied
  <2>1. workers[w] \in WorkerType
    BY DEF ActionInv, Typed, TypeOK
  <2>. QED BY <2>1 DEF SyncWrite, ActionInv, Typed, WorkersTyped, WorkerType
<1> DEFINE tgt == [agent_task_targets[n] EXCEPT ![a] = TargetResult(applied)]
<1>1. /\ agent_task_targets' = [agent_task_targets EXCEPT ![n] = tgt]
      /\ agent_tasks' = [agent_tasks EXCEPT ![n] = Refreshed(@, tgt)]
      /\ last_task' = last_task
      /\ workers[w].pc = "refresh"
      /\ workers' = [workers EXCEPT ![w] = IdleWorker]
  BY <1>0 DEF SyncWrite, Answer
<1>2. n \notin contested => agent_task_targets[n][a] = "SENT"
  BY <1>0, <1>1 DEF FinishInv, ReadIsFresh
<1>3. n \in 1..last_task
  BY <1>0, <1>1 DEF ActionInv, AckInv, WorkersIssued, Issued, DispatchInv, FreshTasks, Typed, TypeOK
<1>4. \A t \in TaskIds, d \in Agents :
         ~(t = n /\ d = a) => agent_task_targets'[t][d] = agent_task_targets[t][d]
  BY <1>1 DEF ActionInv, Typed, TypeOK
<1>5. /\ agent_tasks'[n] = Refreshed(agent_tasks[n], tgt)
      /\ \A t \in TaskIds \ {n} : agent_tasks'[t] = agent_tasks[t]
      /\ agent_tasks[n] \in TaskType
  BY <1>1 DEF ActionInv, Typed, TypeOK
<1>6. /\ agent_tasks'[n].body = agent_tasks[n].body
      /\ agent_tasks'[n].completed <=>
            agent_tasks[n].completed \/ Finished(agent_tasks'[n])
  <2> HIDE DEF tgt
  <2>. QED BY <1>5 DEF Refreshed, Finished, TaskType
<1>7. ReadIsFresh'
  <2> SUFFICES ASSUME NEW v \in Workers, workers'[v].pc = "refresh",
                      workers'[v].task \notin contested'
               PROVE  agent_task_targets'[workers'[v].task][workers'[v].agent] = "SENT"
    BY DEF ReadIsFresh
  <2>1. v # w /\ workers'[v] = workers[v]
    BY <1>1 DEF IdleWorker, ActionInv, Typed, TypeOK
  <2>2. ~(workers[v].task = n /\ workers[v].agent = a)
    BY <1>0, <1>1, <2>1 DEF FinishInv, SyncsCounted, Meet
  <2>3. workers[v].task \in TaskIds /\ workers[v].agent \in Agents
    BY <2>1 DEF ActionInv, Typed, WorkersTyped
  <2>. QED BY <1>4, <2>1, <2>2, <2>3 DEF FinishInv, ReadIsFresh
<1>8. /\ Matches(agent_tasks[n], agent_task_targets[n])
      /\ Matches(agent_tasks'[n], agent_task_targets'[n])
  <2>1. n \in 1..last_task'
    BY <1>1, <1>3
  <2>. QED BY <1>3, <2>1 DEF FinishInv, TasksMatch, Matches, Targets
<1>9. n \notin contested => agent_tasks[n].status # "DONE"
  <2> SUFFICES ASSUME n \notin contested  PROVE agent_tasks[n].status # "DONE"
    OBVIOUS
  <2>1. a \in TargetsOf[agent_tasks[n].body]
    BY <1>2, <1>3 DEF ActionInv, DispatchInv, IssuedToTargets
  <2>2. a \notin Targets(agent_task_targets[n], {"DONE"})
    BY <1>2 DEF Targets
  <2>. QED BY <1>8, <2>1, <2>2 DEF Matches
<1>10. n \notin contested /\ agent_tasks[n].status = "FAILED"
          => agent_tasks'[n].status = "FAILED"
  <2> SUFFICES ASSUME n \notin contested, agent_tasks[n].status = "FAILED"
               PROVE  agent_tasks'[n].status = "FAILED"
    OBVIOUS
  <2>1. Targets(agent_task_targets[n], {"FAILED"})
           \subseteq Targets(agent_task_targets'[n], {"FAILED"})
    BY <1>2, <1>4 DEF Targets
  <2>. QED BY <1>8, <2>1 DEF Matches
<1>11. ResultsKept
  BY <1>5, <1>9, <1>10 DEF ResultsKept, Finished
<1>12. CompletedIsFinished'
  BY <1>5, <1>6, <1>11 DEF FinishInv, CompletedIsFinished, ResultsKept, Finished
<1>13. FreshIsOpen'
  BY <1>1, <1>3, <1>5 DEF FinishInv, FreshIsOpen, ActionInv, Typed, TypeOK
<1>. QED BY <1>7, <1>11, <1>12, <1>13

LEMMA FinishNext ==
    ASSUME ActionInv, FinishInv, [ResultNext]_resultVars
    PROVE  FinishInv' /\ ResultsKept /\ contested \subseteq contested'
<1> [Next]_vars /\ contested \subseteq contested' /\ SyncsCounted'
  BY ResultStep
<1>0. TasksMatch'
  BY MatchNext DEF FinishInv
<1>1. CASE \E h \in Creators : CreateInsert(h)
  BY <1>0, <1>1, FinishInsert DEF FinishInv
<1>2. CASE \E w \in Workers : SyncWrite(w)
  BY <1>0, <1>2, FinishSync DEF FinishInv
<1>3. CASE ~(\E h \in Creators : CreateInsert(h)) /\ ~(\E w \in Workers : SyncWrite(w))
  BY <1>0, <1>3, TablesChange, FinishFrame DEF FinishInv
<1>. QED BY <1>1, <1>2, <1>3

(* What is always true of RemoteActions is so when the meetings are counted. *)
LEMMA ResultActions == ResultSpec => []ActionInv
<1>1. ResultInit => Init
  BY DEF ResultInit
<1>2. [ResultNext]_resultVars => [Next]_vars
  BY DEF ResultNext, resultVars
<1>. QED BY <1>1, <1>2, ActionAlways, PTL DEF Spec, ResultSpec

(* A finished task keeps its result and a task is completed exactly when it *)
(* is finished, for any number of acknowledgement handlers, unless two of   *)
(* them have synchronised one command of the task at the same time.         *)
THEOREM ResultsAreFinal == ResultSpec => FinishedTaskIsStable
<1>1. ActionInv /\ FinishInv /\ [ResultNext]_resultVars
         => FinishInv' /\ ResultsKept /\ contested \subseteq contested'
  BY FinishNext
<1>2. FinishInv' /\ ResultsKept /\ contested \subseteq contested' =>
        \A t \in TaskIds \ contested' :
          /\ agent_tasks[t].status \in {"DONE", "FAILED"} =>
                agent_tasks'[t].status = agent_tasks[t].status
          /\ agent_tasks'[t].completed <=>
                agent_tasks'[t].status \in {"DONE", "FAILED"}
  BY DEF FinishInv, CompletedIsFinished, ResultsKept, Finished
<1>. QED BY <1>1, <1>2, ResultActions, FinishInit, PTL DEF ResultSpec, FinishedTaskIsStable

=============================================================================
