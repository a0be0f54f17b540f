-------------------------- MODULE MaintenanceProofs --------------------------
(***************************************************************************)
(* Runs of maintenance windows and the threads that make them, for any     *)
(* number of schedules, windows, overlapping calls and threads.            *)
(*                                                                         *)
(* The properties are about orders and runs; RunsInv adds what each call   *)
(* in flight knows of the window it claimed: how far its stages are sent,  *)
(* and that no other call holds the window.                                *)
(***************************************************************************)
EXTENDS MaintenanceRuns, SchedulerThread, TLAPS

----------------------------------------------------------------------------
(* The loops.                                                              *)

ThreadInv ==
    /\ loops \in [Threads -> {"new", "check", "tick", "wait", "ended"}]
    /\ LoopsAreKnown

LEMMA ThreadStep ==
    ASSUME ThreadInv, [ThreadNext]_threadVars
    PROVE  ThreadInv'
<1> USE DEF ThreadInv, LoopsAreKnown, Running
<1>0. CASE UNCHANGED threadVars
  BY <1>0 DEF threadVars
<1>1. ASSUME NEW t \in Threads, StartScheduler(t) PROVE ThreadInv'
  <2>1. \A u \in Threads : loops'[u] = IF u = t THEN "check" ELSE loops[u]
    BY <1>1 DEF StartScheduler
  <2>2. \A u \in Threads : u # t /\ Running(u) => u \in left
    BY <1>1, SchedulerAssumption DEF StartScheduler, ThreadNeeded
  <2> QED
    BY <1>1, <2>1, <2>2 DEF StartScheduler
<1>2. ASSUME NEW t \in Threads, CheckStop(t) \/ TickDone(t) \/ WaitDone(t) PROVE ThreadInv'
  <2>1. \A u \in Threads : loops'[u] \notin {"new", "ended"} => Running(u)
    BY <1>2 DEF CheckStop, TickDone, WaitDone
  <2> QED
    BY <1>2, <2>1 DEF CheckStop, TickDone, WaitDone
<1>3. CASE StopScheduler
  BY <1>3 DEF StopScheduler
<1>4. CASE Joined
  BY <1>4 DEF Joined
<1> QED
  BY <1>0, <1>1, <1>2, <1>3, <1>4 DEF ThreadNext

(* A scheduler loop that runs is the one the application keeps or one that *)
(* a stop gave up on, for any number of starts and stops (main.py).        *)
THEOREM NoUnknownLoop == ThreadSpec => []LoopsAreKnown
<1>1. ThreadInit => ThreadInv
  BY DEF ThreadInit, ThreadInv, LoopsAreKnown, Running
<1>2. ThreadInv => LoopsAreKnown
  BY DEF ThreadInv
<1> QED
  BY <1>1, <1>2, ThreadStep, PTL DEF ThreadSpec

----------------------------------------------------------------------------
(* The runs of windows.                                                    *)

Rows == Schedules \X Occurrences
Holding == {"stage", "finish"}
Calls == [pc : {"idle", "row", "insert", "stage", "finish"}, due : SUBSET Rows,
          row : (Schedules \cup {None}) \X (0..Horizon), stage : Nat, failed : BOOLEAN]

\* The command of a stage has been accepted.
Taken(row, i, acc) == acc[<<row[1], row[2], i>>] # {}

\* What a call in flight knows.
CallOK(x, rs, acc, time) ==
    /\ \A row \in x.due : row[2] <= time
    /\ x.pc # "finish" => ~x.failed
    /\ x.pc \in {"insert"} \cup Holding => x.row \in Rows /\ x.row[2] <= time
    /\ x.pc \in Holding => rs[x.row[1]][x.row[2]] = "RUNNING"
    /\ x.pc = "stage" =>
          /\ x.stage \in 1..StagesOf[x.row[1]]
          /\ \A i \in 1..MaxStages : Taken(x.row, i, acc) <=> i < x.stage
    /\ x.pc = "finish" =>
          IF x.failed THEN \E i \in 1..StagesOf[x.row[1]] : ~Taken(x.row, i, acc)
          ELSE \A i \in 1..StagesOf[x.row[1]] : Taken(x.row, i, acc)

\* What the run of a window tells of its stages.
WindowOK(row, status, acc, time) ==
    /\ status # "none" => row[2] <= time
    /\ status = "none" => \A i \in 1..MaxStages : ~Taken(row, i, acc)
    /\ \A i \in 1..MaxStages : Taken(row, i, acc) => \A j \in 1..i : Taken(row, j, acc)
    /\ status = "DONE" => \A i \in 1..StagesOf[row[1]] : Taken(row, i, acc)
    /\ status = "FAILED" => \E i \in 1..StagesOf[row[1]] : ~Taken(row, i, acc)

\* One call holds a window.
Exclusive(calls) == \A e, f \in Executors :
    calls[e].pc \in Holding /\ calls[f].pc \in Holding /\ calls[e].row = calls[f].row => e = f

ScheduleRows == [status : {"none", "DRAFT", "ACTIVE", "PAUSED"}, next_run : 0..Horizon + 1]
AdminRows == [pc : {"idle", "write"}, schedule : Schedules \cup {None},
              status : {"none", "DRAFT", "ACTIVE", "PAUSED"}, next_run : 0..Horizon + 1]

RunsTypeOK ==
    /\ now \in 0..Horizon
    /\ runs \in [Schedules -> [Occurrences -> {"none", "RUNNING", "DONE", "FAILED"}]]
    /\ accepted \in [StageKeys -> SUBSET {"stage"}]
    /\ orders = [k \in StageKeys |-> IF accepted[k] = {} THEN {} ELSE Agents]
    /\ executors \in [Executors -> Calls]

TablesTypeOK ==
    /\ schedules \in [Schedules -> ScheduleRows]
    /\ admins \in [Admins -> AdminRows]
    /\ \A d \in Admins : admins[d].pc = "write" => admins[d].schedule \in Schedules

RunsInv ==
    /\ RunsTypeOK /\ TablesTypeOK
    /\ \A e \in Executors : CallOK(executors[e], runs, accepted, now)
    /\ \A row \in Rows : WindowOK(row, runs[row[1]][row[2]], accepted, now)
    /\ Exclusive(executors)

LEMMA Constants ==
    /\ Horizon \in Nat /\ MaxStages = 4
    /\ \A s \in Schedules : StagesOf[s] \in 1..MaxStages
BY MaintenanceRunsAssumption DEF MaxStages

LEMMA IdleCall ==
    /\ IdleExecutor \in Calls /\ IdleExecutor.pc = "idle" /\ IdleExecutor.due = {}
    /\ ~IdleExecutor.failed
BY Constants DEF IdleExecutor, Calls, Rows

LEMMA CallFields ==
    ASSUME NEW x \in Calls
    PROVE  /\ x.due \subseteq Rows /\ x.failed \in BOOLEAN /\ x.stage \in Nat
           /\ x.pc \in {"idle", "row", "insert", "stage", "finish"}
BY DEF Calls

\* The call goes to its next row, or returns.
LEMMA RowDoneIs ==
    ASSUME NEW x, x.due \subseteq Rows
    PROVE  /\ RowDone(x) \in Calls /\ RowDone(x).pc \in {"idle", "row"}
           /\ RowDone(x).due \subseteq x.due /\ ~RowDone(x).failed
<1> DEFINE y == [IdleExecutor EXCEPT !.pc = "row", !.due = x.due]
<1>1. y \in Calls /\ y.pc = "row" /\ y.due = x.due /\ ~y.failed
  BY IdleCall DEF Calls, IdleExecutor
<1>2. RowDone(x) = IF x.due = {} THEN IdleExecutor ELSE y
  BY DEF RowDone
<1> HIDE DEF y
<1> QED
  BY <1>1, <1>2, IdleCall

\* A call that holds no window may move to another such state at any time.
LEMMA CallMoves ==
    ASSUME RunsInv, NEW e \in Executors, NEW new \in Calls,
           executors' = [executors EXCEPT ![e] = new],
           UNCHANGED <<now, runs, taskVars>>, TablesTypeOK',
           new.pc \notin Holding \/ (executors[e].pc \in Holding /\ new.row = executors[e].row),
           CallOK(new, runs, accepted, now)
    PROVE  RunsInv'
<1>1. \A f \in Executors : executors'[f] = IF f = e THEN new ELSE executors[f]
  BY DEF RunsInv, RunsTypeOK
<1>2. RunsTypeOK'
  BY DEF RunsInv, RunsTypeOK, taskVars
<1>3. \A f \in Executors : CallOK(executors'[f], runs', accepted', now')
  BY <1>1 DEF RunsInv, taskVars
<1>4. Exclusive(executors')
  BY <1>1 DEF RunsInv, Exclusive
<1>5. \A row \in Rows : WindowOK(row, runs'[row[1]][row[2]], accepted', now')
  BY DEF RunsInv, taskVars
<1> QED
  BY <1>2, <1>3, <1>4, <1>5 DEF RunsInv

\* The clock and the administrators.
LEMMA TickStep == ASSUME RunsInv, Tick PROVE RunsInv'
<1>1. /\ now' = now + 1 /\ now' \in 0..Horizon
      /\ UNCHANGED <<schedules, runs, accepted, orders, executors, admins>>
  BY Constants DEF Tick, RunsInv, RunsTypeOK, taskVars
<1>2. \A row \in Rows : row[2] <= now => row[2] <= now'
  BY <1>1, Constants DEF Rows, Occurrences, RunsInv, RunsTypeOK
<1>3. RunsTypeOK' /\ TablesTypeOK' /\ Exclusive(executors')
  BY <1>1 DEF RunsInv, RunsTypeOK, TablesTypeOK
<1>4. ASSUME NEW e \in Executors PROVE CallOK(executors'[e], runs', accepted', now')
  <2>1. CallOK(executors[e], runs, accepted, now) /\ executors[e].due \subseteq Rows
    BY CallFields DEF RunsInv, RunsTypeOK
  <2> QED
    BY <1>1, <1>2, <2>1 DEF CallOK
<1>5. ASSUME NEW row \in Rows PROVE WindowOK(row, runs'[row[1]][row[2]], accepted', now')
  BY <1>1, <1>2 DEF RunsInv, WindowOK
<1> QED
  BY <1>3, <1>4, <1>5 DEF RunsInv

LEMMA AdminStep ==
    ASSUME RunsInv,
           \/ \E s \in Schedules, status \in {"DRAFT", "ACTIVE", "PAUSED"} :
                 \/ CreateSchedule(s, status)
                 \/ \E d \in Admins : UpdateRead(d, s, status)
           \/ \E d \in Admins : UpdateWrite(d)
    PROVE  RunsInv'
<1>n. now + 1 \in 0..Horizon + 1 /\ 0 \in 0..Horizon + 1
  BY Constants DEF RunsInv, RunsTypeOK
<1>t. /\ schedules \in [Schedules -> ScheduleRows] /\ admins \in [Admins -> AdminRows]
      /\ \A d \in Admins : admins[d].pc = "write" => admins[d].schedule \in Schedules
  BY DEF RunsInv, TablesTypeOK
<1>1. ASSUME NEW s \in Schedules, NEW status \in {"DRAFT", "ACTIVE", "PAUSED"},
             CreateSchedule(s, status)
      PROVE  TablesTypeOK'
  <2> DEFINE row == [status |-> status,
                     next_run |-> IF status = "ACTIVE" THEN NextRunAfter(now) ELSE 0]
  <2>1. row \in ScheduleRows
    BY <1>n DEF ScheduleRows, NextRunAfter
  <2>2. schedules' = [schedules EXCEPT ![s] = row] /\ admins' = admins
    BY <1>1 DEF CreateSchedule
  <2> HIDE DEF row
  <2> QED
    BY <1>t, <2>1, <2>2 DEF TablesTypeOK
<1>2. ASSUME NEW s \in Schedules, NEW status \in {"DRAFT", "ACTIVE", "PAUSED"},
             NEW d \in Admins, UpdateRead(d, s, status)
      PROVE  TablesTypeOK'
  <2> DEFINE row == [pc |-> "write", schedule |-> s, status |-> status,
                     next_run |-> IF status = "ACTIVE" THEN NextRunAfter(now)
                                  ELSE schedules[s].next_run]
  <2>1. schedules[s].next_run \in 0..Horizon + 1
    BY <1>t DEF ScheduleRows
  <2>2. row \in AdminRows /\ row.schedule = s
    BY <1>n, <2>1 DEF AdminRows, NextRunAfter
  <2>3. admins' = [admins EXCEPT ![d] = row] /\ schedules' = schedules
    BY <1>2 DEF UpdateRead
  <2> HIDE DEF row
  <2> QED
    BY <1>t, <2>2, <2>3 DEF TablesTypeOK
<1>3. ASSUME NEW d \in Admins, UpdateWrite(d) PROVE TablesTypeOK'
  <2> DEFINE row == [status |-> admins[d].status, next_run |-> admins[d].next_run]
  <2>1. row \in ScheduleRows /\ admins[d].schedule \in Schedules
    BY <1>3, <1>t DEF UpdateWrite, ScheduleRows, AdminRows
  <2>2. IdleAdmin \in AdminRows /\ IdleAdmin.pc = "idle"
    BY <1>n DEF IdleAdmin, AdminRows
  <2>3. /\ schedules' = [schedules EXCEPT ![admins[d].schedule] = row]
        /\ admins' = [admins EXCEPT ![d] = IdleAdmin]
    BY <1>3 DEF UpdateWrite
  <2> HIDE DEF row
  <2> QED
    BY <1>t, <2>1, <2>2, <2>3 DEF TablesTypeOK
<1>4. TablesTypeOK'
  BY <1>1, <1>2, <1>3
<1>5. UNCHANGED <<now, runs, accepted, orders, executors>>
  BY DEF CreateSchedule, UpdateRead, UpdateWrite, taskVars
<1>6. RunsTypeOK' /\ Exclusive(executors')
  BY <1>5 DEF RunsInv, RunsTypeOK
<1>7. /\ \A e \in Executors : CallOK(executors'[e], runs', accepted', now')
      /\ \A row \in Rows : WindowOK(row, runs'[row[1]][row[2]], accepted', now')
  BY <1>5 DEF RunsInv
<1> QED
  BY <1>4, <1>6, <1>7 DEF RunsInv

\* The statements of a call that only move the call itself.
LEMMA MovingStep ==
    ASSUME RunsInv, NEW e \in Executors,
           ReadDue(e) \/ CheckRow(e) \/ ClaimLost(e) \/ StageRefused(e) \/ ExecutorDies(e)
    PROVE  RunsInv'
<1> DEFINE x == executors[e]
<1>t. /\ x \in Calls /\ executors \in [Executors -> Calls]
      /\ CallOK(x, runs, accepted, now) /\ TablesTypeOK
  BY DEF RunsInv, RunsTypeOK
<1>u. UNCHANGED <<now, runs, taskVars>> /\ schedules' = schedules /\ admins' = admins
  BY DEF ReadDue, CheckRow, ClaimLost, StageRefused, ExecutorDies
<1>v. TablesTypeOK'
  BY <1>t, <1>u DEF TablesTypeOK
<1>1. CASE ReadDue(e)
  <2>1. PICK S \in SUBSET {s \in Schedules : Due(s)} :
           executors' = [executors EXCEPT ![e].pc = "row",
              ![e].due = {<<s, schedules[s].next_run>> : s \in S}]
    BY <1>1 DEF ReadDue
  <2> DEFINE due == {<<s, schedules[s].next_run>> : s \in S}
             new == [x EXCEPT !.pc = "row", !.due = due]
  <2>2. \A s \in S : s \in Schedules /\ schedules[s].next_run \in 1..now
    BY DEF Due
  <2>3. \A row \in due : row \in Rows /\ row[2] <= now
    BY <2>2, Constants DEF Rows, Occurrences, RunsInv, RunsTypeOK
  <2> HIDE DEF due
  <2>4. new \in Calls /\ new.pc = "row" /\ new.due = due /\ new.failed = x.failed
    BY <1>t, <2>3 DEF Calls
  <2>a. x.pc = "idle" /\ ~x.failed
    BY <1>1, <1>t DEF ReadDue, CallOK
  <2>5. executors' = [executors EXCEPT ![e] = new]
    BY <2>1 DEF due
  <2> HIDE DEF new
  <2>6. CallOK(new, runs, accepted, now)
    BY <2>3, <2>4, <2>a DEF CallOK, Holding
  <2> QED
    BY <1>u, <1>v, <2>4, <2>5, <2>6, CallMoves DEF Holding
<1>2. CASE CheckRow(e)
  <2>1. PICK row \in x.due : executors' = [executors EXCEPT ![e] =
             IF runs[row[1]][row[2]] = "none"
             THEN [[x EXCEPT !.due = x.due \ {row}] EXCEPT !.pc = "insert", !.row = row]
             ELSE RowDone([x EXCEPT !.due = x.due \ {row}])]
    BY <1>2 DEF CheckRow
  <2> DEFINE y == [x EXCEPT !.due = x.due \ {row}]
             inserts == [y EXCEPT !.pc = "insert", !.row = row]
  <2>2. /\ x.due \subseteq Rows /\ row \in Rows /\ row[2] <= now
        /\ \A other \in x.due : other[2] <= now
    BY <1>t, CallFields DEF CallOK
  <2>a. x.pc = "row" /\ ~x.failed
    BY <1>2, <1>t DEF CheckRow, CallOK
  <2>3. y \in Calls /\ y.due = x.due \ {row} /\ y.failed = x.failed
    BY <1>t, <2>2 DEF Calls
  <2>4. row \in (Schedules \cup {None}) \X (0..Horizon)
    BY <2>2, Constants DEF Rows, Occurrences
  <2> HIDE DEF y
  <2>5. /\ inserts \in Calls /\ inserts.pc = "insert" /\ inserts.row = row
        /\ inserts.due = y.due /\ inserts.failed = y.failed
    BY <2>3, <2>4 DEF Calls
  <2> HIDE DEF inserts
  <2>6. CallOK(inserts, runs, accepted, now)
    BY <2>2, <2>3, <2>5, <2>a DEF CallOK, Holding
  <2>7. /\ RowDone(y) \in Calls /\ RowDone(y).pc \notin Holding
        /\ CallOK(RowDone(y), runs, accepted, now)
    BY <2>2, <2>3, RowDoneIs DEF CallOK, Holding
  <2>8. \/ executors' = [executors EXCEPT ![e] = inserts]
        \/ executors' = [executors EXCEPT ![e] = RowDone(y)]
    BY <2>1 DEF y, inserts
  <2> QED
    BY <1>u, <1>v, <2>5, <2>6, <2>7, <2>8, CallMoves DEF Holding
<1>3. CASE ClaimLost(e) \/ ExecutorDies(e)
  <2>1. executors' = [executors EXCEPT ![e] = IdleExecutor]
    BY <1>3 DEF ClaimLost, ExecutorDies
  <2>2. CallOK(IdleExecutor, runs, accepted, now)
    BY IdleCall DEF CallOK, Holding
  <2> QED
    BY <1>u, <1>v, <2>1, <2>2, IdleCall, CallMoves DEF Holding
<1>4. CASE StageRefused(e)
  <2> DEFINE new == [x EXCEPT !.pc = "finish", !.failed = TRUE]
  <2>1. executors' = [executors EXCEPT ![e] = new] /\ x.pc = "stage"
    BY <1>4 DEF StageRefused
  <2>2. /\ new \in Calls /\ new.pc = "finish" /\ new.failed = TRUE /\ new.row = x.row
        /\ new.due = x.due
    BY <1>t DEF Calls
  <2> HIDE DEF new
  <2>3. x.row \in Rows /\ x.row[1] \in Schedules /\ x.stage \in 1..StagesOf[x.row[1]]
    BY <1>t, <2>1 DEF CallOK, Holding, Rows
  <2>4. ~Taken(x.row, x.stage, accepted)
    BY <1>t, <2>1, <2>3, Constants DEF CallOK
  <2>5. CallOK(new, runs, accepted, now)
    BY <1>t, <2>1, <2>2, <2>3, <2>4 DEF CallOK, Holding
  <2> QED
    BY <1>u, <1>v, <2>1, <2>2, <2>5, CallMoves DEF Holding
<1> QED
  BY <1>1, <1>2, <1>3, <1>4

\* The statements that change a run or its orders.
LEMMA ClaimStep ==
    ASSUME RunsInv, NEW e \in Executors, ClaimRun(e)
    PROVE  RunsInv'
<1> DEFINE x == executors[e]
           row == x.row
           new == [x EXCEPT !.pc = "stage", !.stage = 1]
<1>t. /\ x \in Calls /\ executors \in [Executors -> Calls]
      /\ runs \in [Schedules -> [Occurrences -> {"none", "RUNNING", "DONE", "FAILED"}]]
      /\ CallOK(x, runs, accepted, now) /\ TablesTypeOK
  BY DEF RunsInv, RunsTypeOK
<1>1. /\ x.pc = "insert" /\ runs[row[1]][row[2]] = "none"
      /\ runs' = [runs EXCEPT ![row[1]][row[2]] = "RUNNING"]
      /\ UNCHANGED <<now, schedules, accepted, orders, admins>>
  BY DEF ClaimRun, RunKeyIsFree, taskVars
<1>2. executors' = [executors EXCEPT ![e] = new]
  BY DEF ClaimRun
<1>3. /\ row \in Rows /\ row[2] <= now /\ row[1] \in Schedules /\ row[2] \in Occurrences
      /\ row = <<row[1], row[2]>> /\ ~x.failed
  BY <1>1, <1>t DEF CallOK, Rows
<1>4. /\ new \in Calls /\ new.pc = "stage" /\ new.stage = 1 /\ new.row = row
      /\ new.due = x.due /\ new.failed = x.failed
  BY <1>t DEF Calls
<1>a. \A i \in 1..MaxStages : ~Taken(row, i, accepted)
  BY <1>1, <1>3 DEF RunsInv, WindowOK
<1>b. \A f \in Executors : executors[f].pc \in Holding => executors[f].row # row
  BY <1>1 DEF RunsInv, CallOK
<1>s. StagesOf[row[1]] \in 1..4 /\ MaxStages = 4
  BY <1>3, Constants
<1> HIDE DEF new, row
<1>5. \A f \in Executors : executors'[f] = IF f = e THEN new ELSE executors[f]
  BY <1>t, <1>2, <1>4
<1>6. /\ runs' \in [Schedules -> [Occurrences -> {"none", "RUNNING", "DONE", "FAILED"}]]
      /\ \A r \in Rows : runs'[r[1]][r[2]] = IF r = row THEN "RUNNING" ELSE runs[r[1]][r[2]]
  BY <1>t, <1>1, <1>3 DEF Rows
<1>7. RunsTypeOK' /\ TablesTypeOK'
  BY <1>t, <1>1, <1>2, <1>4, <1>6 DEF RunsInv, RunsTypeOK, TablesTypeOK
<1>8. ASSUME NEW f \in Executors PROVE CallOK(executors'[f], runs', accepted', now')
  <2>1. CASE f = e
    <3>1. runs'[row[1]][row[2]] = "RUNNING"
      BY <1>3, <1>6
    <3>2. CallOK(x, runs, accepted, now)
      BY <1>t
    <3>3. \A i \in 1..MaxStages : Taken(row, i, accepted) <=> i < 1
      BY <1>a, <1>s
    <3>4. 1 \in 1..StagesOf[row[1]]
      BY <1>s
    <3>5. CallOK(new, runs', accepted, now)
      BY <3>1, <3>2, <3>3, <3>4, <1>3, <1>4 DEF CallOK, Holding
    <3> QED
      BY <2>1, <3>5, <1>1, <1>5
  <2>2. CASE f # e
    <3>1. CallOK(executors[f], runs, accepted, now)
      BY DEF RunsInv
    <3>2. executors[f].pc \in Holding =>
             executors[f].row \in Rows /\ executors[f].row # row
      BY <3>1, <1>b DEF CallOK
    <3>3. executors[f].pc \in Holding =>
             runs'[executors[f].row[1]][executors[f].row[2]] = "RUNNING"
      BY <3>1, <3>2, <1>6 DEF CallOK
    <3>4. CallOK(executors[f], runs', accepted, now)
      BY <3>1, <3>3 DEF CallOK
    <3> QED
      BY <2>2, <3>4, <1>1, <1>5
  <2> QED
    BY <2>1, <2>2
<1>9. ASSUME NEW r \in Rows PROVE WindowOK(r, runs'[r[1]][r[2]], accepted', now')
  <2>1. WindowOK(r, runs[r[1]][r[2]], accepted, now)
    BY DEF RunsInv
  <2> QED
    BY <2>1, <1>1, <1>3, <1>6 DEF WindowOK
<1>10. Exclusive(executors')
  BY <1>4, <1>5, <1>b DEF RunsInv, Exclusive
<1> QED
  BY <1>7, <1>8, <1>9, <1>10 DEF RunsInv

LEMMA FinishStep ==
    ASSUME RunsInv, NEW e \in Executors, FinishRun(e)
    PROVE  RunsInv'
<1> DEFINE x == executors[e]
           row == x.row
           new == RowDone(x)
           status == RunStatus(x.failed)
<1>t. /\ x \in Calls /\ executors \in [Executors -> Calls]
      /\ runs \in [Schedules -> [Occurrences -> {"none", "RUNNING", "DONE", "FAILED"}]]
      /\ CallOK(x, runs, accepted, now) /\ TablesTypeOK
  BY DEF RunsInv, RunsTypeOK
<1>1. /\ x.pc = "finish" /\ runs' = [runs EXCEPT ![row[1]][row[2]] = status]
      /\ schedules' = [schedules EXCEPT ![row[1]].next_run = NextRunAfter(row[2])]
      /\ executors' = [executors EXCEPT ![e] = new]
      /\ UNCHANGED <<now, accepted, orders, admins>>
  BY DEF FinishRun, taskVars
<1>3. /\ row \in Rows /\ row[2] <= now /\ row[1] \in Schedules /\ row[2] \in Occurrences
      /\ row = <<row[1], row[2]>>
  BY <1>1, <1>t DEF CallOK, Rows, Holding
<1>4. /\ new \in Calls /\ new.pc \in {"idle", "row"} /\ new.due \subseteq x.due
      /\ ~new.failed
  BY <1>t, CallFields, RowDoneIs
<1>a. /\ status \in {"DONE", "FAILED"}
      /\ status = "DONE" => \A i \in 1..StagesOf[row[1]] : Taken(row, i, accepted)
      /\ status = "FAILED" => \E i \in 1..StagesOf[row[1]] : ~Taken(row, i, accepted)
  BY <1>1, <1>t DEF CallOK, RunStatus
<1>b. \A f \in Executors : f # e /\ executors[f].pc \in Holding => executors[f].row # row
  BY <1>1 DEF RunsInv, Exclusive, Holding
<1>n. NextRunAfter(row[2]) \in 0..Horizon + 1
  BY <1>3, Constants DEF NextRunAfter, Occurrences
<1> HIDE DEF new, row, status
<1>5. \A f \in Executors : executors'[f] = IF f = e THEN new ELSE executors[f]
  BY <1>t, <1>1, <1>4
<1>6. /\ runs' \in [Schedules -> [Occurrences -> {"none", "RUNNING", "DONE", "FAILED"}]]
      /\ \A r \in Rows : runs'[r[1]][r[2]] = IF r = row THEN status ELSE runs[r[1]][r[2]]
  BY <1>t, <1>1, <1>3, <1>a DEF Rows
<1>7. RunsTypeOK'
  BY <1>t, <1>1, <1>4, <1>6 DEF RunsInv, RunsTypeOK
<1>c. TablesTypeOK'
  BY <1>t, <1>1, <1>3, <1>n DEF TablesTypeOK, ScheduleRows
<1>8. ASSUME NEW f \in Executors PROVE CallOK(executors'[f], runs', accepted', now')
  <2>1. CASE f = e
    <3>1. CallOK(new, runs', accepted, now)
      BY <1>t, <1>4 DEF CallOK, Holding
    <3> QED
      BY <2>1, <3>1, <1>1, <1>5
  <2>2. CASE f # e
    <3>1. CallOK(executors[f], runs, accepted, now)
      BY DEF RunsInv
    <3>2. executors[f].pc \in Holding =>
             executors[f].row \in Rows /\ executors[f].row # row
      BY <2>2, <3>1, <1>b DEF CallOK
    <3>3. executors[f].pc \in Holding =>
             runs'[executors[f].row[1]][executors[f].row[2]] = "RUNNING"
      BY <3>1, <3>2, <1>6 DEF CallOK
    <3>4. CallOK(executors[f], runs', accepted, now)
      BY <3>1, <3>3 DEF CallOK
    <3> QED
      BY <2>2, <3>4, <1>1, <1>5
  <2> QED
    BY <2>1, <2>2
<1>9. ASSUME NEW r \in Rows PROVE WindowOK(r, runs'[r[1]][r[2]], accepted', now')
  <2>1. WindowOK(r, runs[r[1]][r[2]], accepted, now)
    BY DEF RunsInv
  <2> QED
    BY <2>1, <1>1, <1>3, <1>6, <1>a DEF WindowOK
<1>10. Exclusive(executors')
  BY <1>4, <1>5 DEF RunsInv, Exclusive, Holding
<1> QED
  BY <1>7, <1>c, <1>8, <1>9, <1>10 DEF RunsInv

LEMMA DispatchStep ==
    ASSUME RunsInv, NEW e \in Executors, DispatchStage(e)
    PROVE  RunsInv'
<1> DEFINE x == executors[e]
           row == x.row
           stage == x.stage
           last == stage = StagesOf[row[1]]
           new == IF last THEN [x EXCEPT !.pc = "finish"] ELSE [x EXCEPT !.stage = stage + 1]
<1>t. /\ x \in Calls /\ executors \in [Executors -> Calls]
      /\ accepted \in [StageKeys -> SUBSET {"stage"}]
      /\ CallOK(x, runs, accepted, now) /\ TablesTypeOK
  BY DEF RunsInv, RunsTypeOK
<1>1. /\ x.pc = "stage" /\ UNCHANGED <<now, schedules, runs, admins>>
      /\ accepted' = [accepted EXCEPT ![<<row[1], row[2], stage>>] = {"stage"}]
      /\ orders' = [orders EXCEPT ![<<row[1], row[2], stage>>] = Agents]
      /\ executors' = [executors EXCEPT ![e] = new]
  <2>1. x.pc = "stage" /\ UNCHANGED <<now, schedules, runs, admins>>
    BY DEF DispatchStage
  <2>4. Tasks!Accept(<<row[1], row[2], stage>>, "stage")
    BY Zenon DEF DispatchStage
  <2>5. executors' = [executors EXCEPT ![e] = new]
    <3>1. CASE last
      BY <3>1 DEF DispatchStage
    <3>2. CASE ~last
      BY <3>2 DEF DispatchStage
    <3> QED
      BY <3>1, <3>2
  <2>2. [b \in {"stage"} |-> Agents]["stage"] = Agents
    OBVIOUS
  <2>3. /\ accepted' = [accepted EXCEPT ![<<row[1], row[2], stage>>] = {"stage"}]
        /\ orders' = [orders EXCEPT ![<<row[1], row[2], stage>>] =
                                     [b \in {"stage"} |-> Agents]["stage"]]
    BY <2>4, Zenon DEF Tasks!Accept
  <2> HIDE DEF last
  <2> QED
    BY <2>1, <2>2, <2>3, <2>5, Zenon
<1>3. /\ row \in Rows /\ row[1] \in Schedules /\ row[2] \in Occurrences /\ row[2] <= now
      /\ row = <<row[1], row[2]>> /\ ~x.failed
      /\ stage \in 1..StagesOf[row[1]]
      /\ \A i \in 1..MaxStages : Taken(row, i, accepted) <=> i < stage
      /\ runs[row[1]][row[2]] = "RUNNING"
  BY <1>1, <1>t DEF CallOK, Holding, Rows
<1>s. StagesOf[row[1]] \in 1..4 /\ MaxStages = 4
  BY <1>3, Constants
<1>k. <<row[1], row[2], stage>> \in StageKeys
  BY <1>3, <1>s DEF StageKeys
<1>4. /\ new \in Calls /\ new.row = row /\ new.due = x.due /\ new.failed = x.failed
      /\ last => new.pc = "finish"
      /\ ~last => new.pc = "stage" /\ new.stage = stage + 1
  <2>1. x.stage \in Nat /\ x.pc = "stage"
    BY <1>t, <1>1, CallFields
  <2>2. CASE last
    BY <2>2, <1>t, <2>1 DEF Calls
  <2>3. CASE ~last
    <3>1. new = [x EXCEPT !.stage = stage + 1] /\ stage + 1 \in Nat
      BY <2>1, <2>3
    <3> HIDE DEF new, last
    <3> QED
      BY <2>1, <2>3, <3>1, <1>t DEF Calls
  <2> QED
    BY <2>2, <2>3
<1>b. \A f \in Executors : f # e /\ executors[f].pc \in Holding => executors[f].row # row
  BY <1>1 DEF RunsInv, Exclusive, Holding
<1> HIDE DEF new, row, stage
<1>5. \A f \in Executors : executors'[f] = IF f = e THEN new ELSE executors[f]
  BY <1>t, <1>1, <1>4
<1>6. /\ accepted' \in [StageKeys -> SUBSET {"stage"}]
      /\ orders' = [k \in StageKeys |-> IF accepted'[k] = {} THEN {} ELSE Agents]
  BY <1>t, <1>1, <1>k DEF RunsInv, RunsTypeOK
<1>7. RunsTypeOK' /\ TablesTypeOK'
  BY <1>t, <1>1, <1>4, <1>6 DEF RunsInv, RunsTypeOK, TablesTypeOK
<1>a. ASSUME NEW r \in Rows, NEW i \in 1..MaxStages
      PROVE  Taken(r, i, accepted') <=> (r = row /\ i = stage) \/ Taken(r, i, accepted)
  <2>1. r = <<r[1], r[2]>> /\ <<r[1], r[2], i>> \in StageKeys
    BY DEF Rows, StageKeys
  <2> QED
    BY <2>1, <1>t, <1>1, <1>3, <1>k DEF Taken
<1>8. ASSUME NEW f \in Executors PROVE CallOK(executors'[f], runs', accepted', now')
  <2>1. CASE f = e
    <3>1. \A i \in 1..MaxStages : Taken(row, i, accepted') <=> i < stage + 1
      BY <1>3, <1>a, <1>s
    <3>2. last => \A i \in 1..StagesOf[row[1]] : Taken(row, i, accepted')
      BY <3>1, <1>3, <1>s
    <3>3. ~last => stage + 1 \in 1..StagesOf[row[1]]
      BY <1>3, <1>s
    <3>4. CallOK(x, runs, accepted, now)
      BY <1>t
    <3> HIDE DEF last
    <3>5. CallOK(new, runs, accepted', now)
      BY <3>1, <3>2, <3>3, <3>4, <1>3, <1>4 DEF CallOK, Holding
    <3> QED
      BY <2>1, <3>5, <1>1, <1>5
  <2>2. CASE f # e
    <3>1. CallOK(executors[f], runs, accepted, now)
      BY DEF RunsInv
    <3>2. executors[f].pc \in Holding =>
             /\ executors[f].row \in Rows /\ executors[f].row # row
             /\ executors[f].row[1] \in Schedules
      BY <2>2, <3>1, <1>b DEF CallOK, Rows
    <3>3. executors[f].pc \in Holding => \A i \in 1..MaxStages :
             Taken(executors[f].row, i, accepted') <=> Taken(executors[f].row, i, accepted)
      BY <3>2, <1>a
    <3>4. executors[f].pc \in Holding => \A i \in 1..StagesOf[executors[f].row[1]] : i \in 1..MaxStages
      BY <3>2, Constants
    <3>5. CallOK(executors[f], runs, accepted', now)
      BY <3>1, <3>3, <3>4 DEF CallOK, Holding
    <3> QED
      BY <2>2, <3>5, <1>1, <1>5
  <2> QED
    BY <2>1, <2>2
<1>9. ASSUME NEW r \in Rows PROVE WindowOK(r, runs'[r[1]][r[2]], accepted', now')
  <2>1. WindowOK(r, runs[r[1]][r[2]], accepted, now) /\ StagesOf[r[1]] \in 1..4
    BY Constants DEF RunsInv, Rows
  <2>2. CASE r = row
    <3>1. \A i \in 1..MaxStages : Taken(r, i, accepted') <=> i < stage + 1
      BY <2>2, <1>3, <1>a, <1>s
    <3> QED
      BY <2>2, <3>1, <2>1, <1>1, <1>3, <1>s DEF WindowOK
  <2>3. CASE r # row
    <3>1. \A i \in 1..MaxStages : Taken(r, i, accepted') <=> Taken(r, i, accepted)
      BY <2>3, <1>a
    <3>2. /\ \A i \in 1..StagesOf[r[1]] : i \in 1..MaxStages
          /\ \A i \in 1..MaxStages : \A j \in 1..i : j \in 1..MaxStages
      BY <2>1, <1>s
    <3> QED
      BY <3>1, <3>2, <2>1, <1>1 DEF WindowOK
  <2> QED
    BY <2>2, <2>3
<1>10. Exclusive(executors')
  BY <1>4, <1>5, <1>b DEF RunsInv, Exclusive
<1> QED
  BY <1>7, <1>8, <1>9, <1>10 DEF RunsInv

LEMMA RunsStep ==
    ASSUME RunsInv, [Next]_vars
    PROVE  RunsInv'
<1>0. CASE UNCHANGED vars
  BY <1>0 DEF vars, taskVars, RunsInv, RunsTypeOK, TablesTypeOK
<1> QED
  BY <1>0, TickStep, AdminStep, MovingStep, ClaimStep, FinishStep, DispatchStep DEF Next, Step

LEMMA RunsStart == Init => RunsInv
<1> SUFFICES ASSUME Init PROVE RunsInv
  OBVIOUS
<1>1. /\ now = 0 /\ schedules = [s \in Schedules |-> NoSchedule]
      /\ runs = [s \in Schedules |-> [n \in Occurrences |-> "none"]]
      /\ accepted = [k \in StageKeys |-> {}] /\ orders = [k \in StageKeys |-> {}]
      /\ executors = [e \in Executors |-> IdleExecutor]
      /\ admins = [d \in Admins |-> IdleAdmin]
  BY DEF Init, Tasks!Init
<1>2. RunsTypeOK
  BY <1>1, IdleCall, Constants DEF RunsTypeOK
<1>3. NoSchedule \in ScheduleRows /\ IdleAdmin \in AdminRows /\ IdleAdmin.pc = "idle"
  BY Constants DEF NoSchedule, IdleAdmin, ScheduleRows, AdminRows
<1>4. TablesTypeOK
  BY <1>1, <1>3 DEF TablesTypeOK
<1>5. ASSUME NEW e \in Executors PROVE CallOK(executors[e], runs, accepted, now)
  BY <1>1, IdleCall DEF CallOK, Holding
<1>6. ASSUME NEW row \in Rows PROVE WindowOK(row, runs[row[1]][row[2]], accepted, now)
  <2>1. runs[row[1]][row[2]] = "none"
    BY <1>1 DEF Rows
  <2>2. \A i \in 1..MaxStages : <<row[1], row[2], i>> \in StageKeys
    BY DEF Rows, StageKeys
  <2>3. \A i \in 1..MaxStages : ~Taken(row, i, accepted)
    BY <1>1, <2>2 DEF Taken
  <2> QED
    BY <2>1, <2>3 DEF WindowOK
<1>7. Exclusive(executors)
  BY <1>1, IdleCall DEF Exclusive, Holding
<1> QED
  BY <1>2, <1>4, <1>5, <1>6, <1>7 DEF RunsInv

LEMMA RunsInvariance == Spec => []RunsInv
BY RunsStart, RunsStep, PTL DEF Spec

\* A command is out exactly when its stage has been accepted.
LEMMA SentIsTaken ==
    ASSUME RunsInv, NEW s \in Schedules, NEW n \in Occurrences, NEW i \in 1..MaxStages
    PROVE  Sent(s, n, i) <=> Taken(<<s, n>>, i, accepted)
<1>1. <<s, n, i>> \in StageKeys
  BY DEF StageKeys
<1> QED
  BY <1>1, MaintenanceRunsAssumption DEF RunsInv, RunsTypeOK, Sent, Taken

(* One call executes a window, however many calls overlap and die          *)
(* (run_due_schedules).                                                    *)
THEOREM OneCallRunsAWindow == Spec => []OneExecutorPerRun
<1>1. RunsInv => OneExecutorPerRun
  BY DEF RunsInv, CallOK, Exclusive, Holding, OneExecutorPerRun
<1> QED
  BY <1>1, RunsInvariance, PTL

(* The stages of a window go out in their order, none before its time and  *)
(* none after a refused one, for any number of overlapping calls           *)
(* (run_due_schedules).                                                    *)
THEOREM StagesKeepOrder == Spec => []StagesInOrder
<1>1. RunsInv => StagesInOrder
  <2> SUFFICES ASSUME RunsInv, NEW s \in Schedules, NEW n \in Occurrences,
                      NEW i \in 1..StagesOf[s], Sent(s, n, i)
               PROVE  n <= now /\ runs[s][n] # "none" /\ \A j \in 1..i : Sent(s, n, j)
    BY DEF StagesInOrder
  <2>1. i \in 1..MaxStages /\ \A j \in 1..i : j \in 1..MaxStages
    BY Constants
  <2>2. <<s, n>> \in Rows /\ <<s, n>>[1] = s /\ <<s, n>>[2] = n
    BY DEF Rows
  <2>3. WindowOK(<<s, n>>, runs[s][n], accepted, now)
    BY <2>2 DEF RunsInv
  <2>4. Taken(<<s, n>>, i, accepted)
    BY <2>1, SentIsTaken
  <2>5. \A j \in 1..i : Taken(<<s, n>>, j, accepted)
    BY <2>1, <2>3, <2>4 DEF WindowOK
  <2> QED
    BY <2>1, <2>2, <2>3, <2>4, <2>5, SentIsTaken DEF WindowOK
<1> QED
  BY <1>1, RunsInvariance, PTL

(* A run shown as DONE sent every stage of its window and a FAILED one did *)
(* not, whichever calls died (run_due_schedules).                          *)
THEOREM RunsTellTheirStages == Spec => []RunTellsStages
<1>1. RunsInv => RunTellsStages
  <2> SUFFICES ASSUME RunsInv, NEW s \in Schedules, NEW n \in Occurrences
               PROVE  /\ runs[s][n] = "DONE" => \A i \in 1..StagesOf[s] : Sent(s, n, i)
                      /\ runs[s][n] = "FAILED" => \E i \in 1..StagesOf[s] : ~Sent(s, n, i)
    BY DEF RunTellsStages
  <2>1. \A i \in 1..StagesOf[s] : i \in 1..MaxStages
    BY Constants
  <2>2. <<s, n>> \in Rows /\ <<s, n>>[1] = s /\ <<s, n>>[2] = n
    BY DEF Rows
  <2>3. WindowOK(<<s, n>>, runs[s][n], accepted, now)
    BY <2>2 DEF RunsInv
  <2> QED
    BY <2>1, <2>2, <2>3, SentIsTaken DEF WindowOK
<1> QED
  BY <1>1, RunsInvariance, PTL

----------------------------------------------------------------------------
(* The next window.  A call that read a schedule long ago can still write   *)
(* its next occurrence; it never moves it back, because the window it read  *)
(* is the next one or has been claimed since.                               *)

Quiet == Schedules \ Administered

\* A call will still look at the window n of schedule s.
Knows(x, s, n) == <<s, n>> \in x.due \/ (x.pc = "insert" /\ x.row = <<s, n>>)

AdminsElsewhere == \A d \in Admins : admins[d].pc = "write" => admins[d].schedule \in Administered

NewIsIdle == \A s \in Quiet : schedules[s].status = "none" => schedules[s].next_run = 0

OpenRunIsNext == \A s \in Quiet, n \in Occurrences :
    runs[s][n] = "RUNNING" => n = schedules[s].next_run

KnownIsNext == \A e \in Executors, s \in Quiet, n \in Occurrences :
    Knows(executors[e], s, n) => n = schedules[s].next_run \/ runs[s][n] # "none"

AdvanceInv == AdminsElsewhere /\ NewIsIdle /\ OpenRunIsNext /\ KnownIsNext

\* What NextRunAdvances says of a step.
Advances == \A s \in Quiet :
    schedules[s].next_run # 0 /\ schedules'[s] # schedules[s] =>
        /\ schedules'[s].next_run = schedules[s].next_run + 1
        /\ runs'[s][schedules[s].next_run] \in {"DONE", "FAILED"}

LEMMA AdvanceStart == Init => AdvanceInv
<1> SUFFICES ASSUME Init PROVE AdvanceInv
  OBVIOUS
<1>1. /\ schedules = [s \in Schedules |-> NoSchedule]
      /\ runs = [s \in Schedules |-> [n \in Occurrences |-> "none"]]
      /\ executors = [e \in Executors |-> IdleExecutor]
      /\ admins = [d \in Admins |-> IdleAdmin]
  BY DEF Init
<1>2. AdminsElsewhere /\ NewIsIdle /\ OpenRunIsNext
  BY <1>1 DEF AdminsElsewhere, NewIsIdle, OpenRunIsNext, IdleAdmin, NoSchedule, Quiet
<1>3. KnownIsNext
  BY <1>1, IdleCall DEF KnownIsNext, Knows
<1> QED
  BY <1>2, <1>3 DEF AdvanceInv

\* Schedules and runs stay, and calls learn of no window but the next.
LEMMA AdvanceFrame ==
    ASSUME AdvanceInv, UNCHANGED <<schedules, runs>>, AdminsElsewhere',
           \A e \in Executors, s \in Quiet, n \in Occurrences :
              Knows(executors'[e], s, n) =>
                 Knows(executors[e], s, n) \/ n = schedules[s].next_run
    PROVE  AdvanceInv' /\ Advances
<1>1. NewIsIdle' /\ OpenRunIsNext'
  BY DEF AdvanceInv, NewIsIdle, OpenRunIsNext
<1>2. KnownIsNext'
  BY DEF AdvanceInv, KnownIsNext
<1> QED
  BY <1>1, <1>2 DEF AdvanceInv, Advances

\* What a call has still to look at, after each of its statements.
LEMMA KnowsStep ==
    ASSUME RunsInv, NEW e \in Executors, Step(e) \/ ExecutorDies(e),
           NEW f \in Executors, NEW s \in Quiet, NEW n \in Occurrences,
           Knows(executors'[f], s, n)
    PROVE  Knows(executors[f], s, n) \/ n = schedules[s].next_run
<1> DEFINE x == executors[e]
<1>t. x \in Calls /\ executors \in [Executors -> Calls]
  BY DEF RunsInv, RunsTypeOK
<1>i. ~Knows(IdleExecutor, s, n)
  BY IdleCall DEF Knows
<1>d. ASSUME NEW y, y.due \subseteq Rows, Knows(RowDone(y), s, n)
      PROVE  <<s, n>> \in y.due
  BY <1>d, RowDoneIs DEF Knows
<1>1. CASE f # e
  <2>1. PICK new : executors' = [executors EXCEPT ![e] = new]
    BY DEF Step, ReadDue, CheckRow, ClaimRun, ClaimLost, DispatchStage, StageRefused,
           FinishRun, ExecutorDies
  <2>2. executors'[f] = executors[f]
    BY <1>1, <1>t, <2>1
  <2> QED
    BY <2>2
<1>2. CASE f = e /\ ReadDue(e)
  <2>1. PICK S \in SUBSET {r \in Schedules : Due(r)} :
           executors' = [executors EXCEPT ![e].pc = "row",
              ![e].due = {<<r, schedules[r].next_run>> : r \in S}]
    BY <1>2 DEF ReadDue
  <2>2. /\ executors'[e].pc = "row"
        /\ executors'[e].due = {<<r, schedules[r].next_run>> : r \in S}
    BY <1>t, <2>1 DEF Calls
  <2>3. <<s, n>> \in {<<r, schedules[r].next_run>> : r \in S}
    BY <1>2, <2>2 DEF Knows
  <2> QED
    BY <2>3
<1>3. CASE f = e /\ CheckRow(e)
  <2>1. PICK row \in x.due : executors' = [executors EXCEPT ![e] =
             IF runs[row[1]][row[2]] = "none"
             THEN [[x EXCEPT !.due = x.due \ {row}] EXCEPT !.pc = "insert", !.row = row]
             ELSE RowDone([x EXCEPT !.due = x.due \ {row}])]
    BY <1>3 DEF CheckRow
  <2>2. PICK y : y = [x EXCEPT !.due = x.due \ {row}]
    OBVIOUS
  <2>3. y.due = x.due \ {row} /\ y.due \subseteq Rows /\ row \in x.due
    BY <1>t, <2>2, CallFields DEF Calls
  <2>4. CASE executors'[e] = RowDone(y)
    BY <1>3, <1>d, <2>3, <2>4 DEF Knows
  <2>5. CASE executors'[e] = [y EXCEPT !.pc = "insert", !.row = row]
    <3>1. executors'[e].due = x.due \ {row} /\ executors'[e].row = row
      BY <1>t, <2>2, <2>5 DEF Calls
    <3> QED
      BY <1>3, <2>3, <3>1 DEF Knows
  <2> QED
    BY <1>t, <2>1, <2>2, <2>4, <2>5
<1>4. CASE f = e /\ (ClaimLost(e) \/ ExecutorDies(e))
  <2>1. executors' = [executors EXCEPT ![e] = IdleExecutor]
    BY <1>4 DEF ClaimLost, ExecutorDies
  <2> QED
    BY <1>4, <1>t, <1>i, <2>1
<1>5. CASE f = e /\ (ClaimRun(e) \/ DispatchStage(e) \/ StageRefused(e))
  <2>1. executors'[e].due = x.due /\ executors'[e].pc \in {"stage", "finish"}
    <3>1. CASE ClaimRun(e)
      BY <3>1, <1>t DEF ClaimRun, Calls
    <3>2. CASE StageRefused(e)
      BY <3>2, <1>t DEF StageRefused, Calls
    <3>3. CASE DispatchStage(e)
      <4>1. /\ x.pc = "stage"
            /\ \/ executors' = [executors EXCEPT ![e] = [x EXCEPT !.pc = "finish"]]
               \/ executors' = [executors EXCEPT ![e] = [x EXCEPT !.stage = x.stage + 1]]
        BY <3>3 DEF DispatchStage
      <4> QED
        BY <4>1, <1>t DEF Calls
    <3> QED
      BY <1>5, <3>1, <3>2, <3>3
  <2> QED
    BY <1>5, <2>1 DEF Knows
<1>6. CASE f = e /\ FinishRun(e)
  <2>1. executors'[e] = RowDone(x) /\ x.due \subseteq Rows
    BY <1>6, <1>t, CallFields DEF FinishRun
  <2> QED
    BY <1>6, <1>d, <2>1 DEF Knows
<1> QED
  BY <1>1, <1>2, <1>3, <1>4, <1>5, <1>6 DEF Step

\* A new schedule: no call knows it and none of its windows is open.
LEMMA AdvanceCreate ==
    ASSUME RunsInv, AdvanceInv, NEW s \in Schedules,
           NEW status \in {"DRAFT", "ACTIVE", "PAUSED"}, CreateSchedule(s, status)
    PROVE  AdvanceInv' /\ Advances
<1> DEFINE next == IF status = "ACTIVE" THEN NextRunAfter(now) ELSE 0
<1>1. /\ schedules[s].status = "none"
      /\ schedules' = [schedules EXCEPT ![s] = [status |-> status, next_run |-> next]]
      /\ UNCHANGED <<runs, executors, admins>>
  BY DEF CreateSchedule
<1> HIDE DEF next
<1>2. /\ schedules'[s].status = status
      /\ \A r \in Schedules \ {s} : schedules'[r] = schedules[r]
  BY <1>1 DEF RunsInv, TablesTypeOK
<1>3. s \in Quiet => schedules[s].next_run = 0
  BY <1>1 DEF AdvanceInv, NewIsIdle
<1>4. 0 \notin Occurrences
  BY DEF Occurrences
<1>5. s \in Quiet => \A n \in Occurrences : runs[s][n] # "RUNNING"
  BY <1>3, <1>4 DEF AdvanceInv, OpenRunIsNext
<1>6. s \in Quiet => \A e \in Executors, n \in Occurrences :
          Knows(executors[e], s, n) => runs[s][n] # "none"
  BY <1>3, <1>4 DEF AdvanceInv, KnownIsNext
<1>7. AdminsElsewhere' /\ NewIsIdle'
  BY <1>1, <1>2 DEF AdvanceInv, AdminsElsewhere, NewIsIdle, Quiet
<1>8. OpenRunIsNext'
  BY <1>1, <1>2, <1>5 DEF AdvanceInv, OpenRunIsNext, Quiet
<1>9. KnownIsNext'
  BY <1>1, <1>2, <1>6 DEF AdvanceInv, KnownIsNext, Quiet
<1>10. Advances
  BY <1>2, <1>3 DEF Advances, Quiet
<1> QED
  BY <1>7, <1>8, <1>9, <1>10 DEF AdvanceInv

\* Administrators write only the schedules they change.
LEMMA AdvanceUpdate ==
    ASSUME RunsInv, AdvanceInv, NEW d \in Admins,
           \/ UpdateWrite(d)
           \/ \E s \in Schedules, status \in {"DRAFT", "ACTIVE", "PAUSED"} :
                 UpdateRead(d, s, status)
    PROVE  AdvanceInv' /\ Advances
<1>t. admins \in [Admins -> AdminRows] /\ schedules \in [Schedules -> ScheduleRows]
  BY DEF RunsInv, TablesTypeOK
<1>1. UNCHANGED <<runs, executors>>
  BY DEF UpdateRead, UpdateWrite
<1>2. AdminsElsewhere'
  <2>1. CASE UpdateWrite(d)
    BY <1>t, <2>1 DEF UpdateWrite, IdleAdmin, AdvanceInv, AdminsElsewhere
  <2>2. ASSUME NEW s \in Schedules, NEW status \in {"DRAFT", "ACTIVE", "PAUSED"},
               UpdateRead(d, s, status)
        PROVE  AdminsElsewhere'
    <3>1. s \in Administered
      BY <2>2 DEF UpdateRead
    <3> DEFINE row == [pc |-> "write", schedule |-> s, status |-> status,
                       next_run |-> IF status = "ACTIVE" THEN NextRunAfter(now)
                                    ELSE schedules[s].next_run]
    <3>2. row.schedule = s /\ admins' = [admins EXCEPT ![d] = row]
      BY <2>2 DEF UpdateRead
    <3> HIDE DEF row
    <3> QED
      BY <1>t, <3>1, <3>2 DEF AdvanceInv, AdminsElsewhere
  <2> QED
    BY <2>1, <2>2
<1>3. \A s \in Quiet : schedules'[s] = schedules[s]
  <2>1. CASE UpdateWrite(d)
    <3>1. admins[d].schedule \in Administered
      BY <2>1 DEF UpdateWrite, AdvanceInv, AdminsElsewhere
    <3> QED
      BY <1>t, <2>1, <3>1 DEF UpdateWrite, Quiet
  <2>2. CASE ~UpdateWrite(d)
    BY <2>2 DEF UpdateRead
  <2> QED
    BY <2>1, <2>2
<1>4. NewIsIdle' /\ OpenRunIsNext'
  BY <1>1, <1>3 DEF AdvanceInv, NewIsIdle, OpenRunIsNext
<1>5. KnownIsNext'
  BY <1>1, <1>3 DEF AdvanceInv, KnownIsNext
<1> QED
  BY <1>2, <1>3, <1>4, <1>5 DEF AdvanceInv, Advances

\* The claim of a window: it was the next one, for no earlier one is free.
LEMMA AdvanceClaim ==
    ASSUME RunsInv, AdvanceInv, NEW e \in Executors, ClaimRun(e)
    PROVE  AdvanceInv' /\ Advances
<1>1. PICK s \in Schedules, n \in Occurrences : executors[e].row = <<s, n>>
  <2>1. executors[e].row \in Rows
    BY DEF ClaimRun, RunsInv, CallOK, Holding
  <2> QED
    BY <2>1 DEF Rows
<1>2. /\ executors[e].pc = "insert" /\ runs[s][n] = "none"
      /\ runs' = [runs EXCEPT ![s][n] = "RUNNING"]
      /\ UNCHANGED <<schedules, admins>>
  BY <1>1 DEF ClaimRun, RunKeyIsFree
<1>3. \A r \in Schedules, m \in Occurrences :
         runs'[r][m] = IF r = s /\ m = n THEN "RUNNING" ELSE runs[r][m]
  BY <1>2 DEF RunsInv, RunsTypeOK
<1>4. s \in Quiet => n = schedules[s].next_run
  BY <1>1, <1>2 DEF AdvanceInv, KnownIsNext, Knows
<1>5. AdminsElsewhere' /\ NewIsIdle' /\ Advances
  BY <1>2 DEF AdvanceInv, AdminsElsewhere, NewIsIdle, Advances
<1>6. OpenRunIsNext'
  BY <1>2, <1>3, <1>4 DEF AdvanceInv, OpenRunIsNext, Quiet
<1>7. KnownIsNext'
  <2> SUFFICES ASSUME NEW f \in Executors, NEW r \in Quiet, NEW m \in Occurrences,
                      Knows(executors'[f], r, m)
               PROVE  m = schedules[r].next_run \/ runs'[r][m] # "none"
    BY <1>2 DEF KnownIsNext
  <2>1. m = schedules[r].next_run \/ runs[r][m] # "none"
    BY KnowsStep DEF Step, AdvanceInv, KnownIsNext
  <2> QED
    BY <1>3, <2>1 DEF Quiet
<1> QED
  BY <1>5, <1>6, <1>7 DEF AdvanceInv

\* The end of a run: the schedule moves from this window to the one after.
LEMMA AdvanceFinish ==
    ASSUME RunsInv, AdvanceInv, NEW e \in Executors, FinishRun(e)
    PROVE  AdvanceInv' /\ Advances
<1>1. PICK s \in Schedules, n \in Occurrences : executors[e].row = <<s, n>>
  <2>1. executors[e].row \in Rows
    BY DEF FinishRun, RunsInv, CallOK, Holding
  <2> QED
    BY <2>1 DEF Rows
<1>2. PICK status \in {"DONE", "FAILED"} : status = RunStatus(executors[e].failed)
  BY DEF RunStatus
<1>3. /\ runs[s][n] = "RUNNING"
      /\ runs' = [runs EXCEPT ![s][n] = status]
      /\ schedules' = [schedules EXCEPT ![s].next_run = n + 1]
      /\ admins' = admins
  BY <1>1, <1>2 DEF FinishRun, NextRunAfter, RunsInv, CallOK, Holding
<1>4. \A r \in Schedules, m \in Occurrences :
         runs'[r][m] = IF r = s /\ m = n THEN status ELSE runs[r][m]
  BY <1>3 DEF RunsInv, RunsTypeOK
<1>5. /\ schedules'[s].next_run = n + 1 /\ schedules'[s].status = schedules[s].status
      /\ \A r \in Schedules \ {s} : schedules'[r] = schedules[r]
  BY <1>3 DEF RunsInv, TablesTypeOK, ScheduleRows
<1>6. s \in Quiet => n = schedules[s].next_run
  BY <1>3 DEF AdvanceInv, OpenRunIsNext
<1>7. 0 \notin Occurrences
  BY DEF Occurrences
<1>8. AdminsElsewhere' /\ NewIsIdle'
  BY <1>3, <1>5, <1>6, <1>7 DEF AdvanceInv, AdminsElsewhere, NewIsIdle, Quiet
<1>9. OpenRunIsNext'
  BY <1>4, <1>5, <1>6 DEF AdvanceInv, OpenRunIsNext, Quiet
<1>10. KnownIsNext'
  <2> SUFFICES ASSUME NEW f \in Executors, NEW r \in Quiet, NEW m \in Occurrences,
                      Knows(executors'[f], r, m)
               PROVE  m = schedules'[r].next_run \/ runs'[r][m] # "none"
    BY DEF KnownIsNext
  <2>1. m = schedules[r].next_run \/ runs[r][m] # "none"
    BY KnowsStep DEF Step, AdvanceInv, KnownIsNext
  <2>2. CASE r = s /\ m = n
    BY <1>4, <2>2
  <2>3. CASE ~(r = s /\ m = n)
    BY <1>4, <1>5, <1>6, <2>1, <2>3 DEF Quiet
  <2> QED
    BY <2>2, <2>3
<1>11. Advances
  BY <1>4, <1>5, <1>6 DEF Advances, Quiet
<1> QED
  BY <1>8, <1>9, <1>10, <1>11 DEF AdvanceInv

LEMMA AdvanceStep ==
    ASSUME RunsInv, AdvanceInv, [Next]_vars
    PROVE  AdvanceInv' /\ Advances
<1>0. CASE UNCHANGED vars \/ Tick
  <2>1. UNCHANGED <<schedules, runs, executors, admins>>
    BY <1>0 DEF vars, Tick
  <2> QED
    BY <2>1, AdvanceFrame DEF AdvanceInv, AdminsElsewhere
<1>1. ASSUME NEW e \in Executors, Step(e) \/ ExecutorDies(e)
      PROVE  AdvanceInv' /\ Advances
  <2>1. CASE ClaimRun(e)
    BY <2>1, AdvanceClaim
  <2>2. CASE FinishRun(e)
    BY <2>2, AdvanceFinish
  <2>3. CASE ~ClaimRun(e) /\ ~FinishRun(e)
    <3>1. UNCHANGED <<schedules, runs, admins>>
      BY <1>1, <2>3 DEF Step, ReadDue, CheckRow, ClaimLost, DispatchStage, StageRefused,
                        ExecutorDies
    <3>2. AdminsElsewhere'
      BY <3>1 DEF AdvanceInv, AdminsElsewhere
    <3>3. \A f \in Executors, s \in Quiet, n \in Occurrences :
             Knows(executors'[f], s, n) =>
                Knows(executors[f], s, n) \/ n = schedules[s].next_run
      BY <1>1, KnowsStep
    <3> QED
      BY <3>1, <3>2, <3>3, AdvanceFrame
  <2> QED
    BY <2>1, <2>2, <2>3
<1> QED
  BY <1>0, <1>1, AdvanceCreate, AdvanceUpdate DEF Next

(* Calls that overlap or die never move a schedule back to an earlier       *)
(* window, nor on from a window that was not run (run_due_schedules).       *)
THEOREM ScheduleAdvances == Spec => NextRunAdvances
<1>1. Advances =>
        \A s \in Schedules \ Administered :
          schedules[s].next_run # 0 /\ schedules[s]' # schedules[s] =>
              /\ schedules'[s].next_run = schedules[s].next_run + 1
              /\ runs'[s][schedules[s].next_run] \in {"DONE", "FAILED"}
  BY DEF Advances, Quiet
<1> QED
  BY <1>1, AdvanceStart, AdvanceStep, RunsInvariance, PTL DEF Spec, NextRunAdvances

=============================================================================
