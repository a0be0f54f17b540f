--------------------------- MODULE PlaybookProofs ---------------------------
(* The approvals behind the command of a playbook run, what its row says of *)
(* it, and that the row follows the approval workflow, for every number of  *)
(* runs, administrators, agents and overlapping requests.                   *)
EXTENDS PlaybookRuns, FiniteSetTheorems, TLAPS

USE PlaybookAssumption

Request == [pc : {"idle", "insert", "auto", "reject", "first", "dispatch", "apply"},
            run : Runs \cup {NoValue}, actor : Admins \cup {NoValue},
            reason : Reasons \cup {NoValue}, record : RunRow, next_status : RunStatuses]

Executing(e) == e.pc \in {"auto", "insert"}
Deciding(e) == e.pc \in {"reject", "first", "dispatch", "apply"}

(* An idle thread serves no run; a busy one serves a run that exists.       *)
Serves(e) == IF e.pc = "idle" THEN e.run = NoValue
             ELSE e.run \in Runs /\ e.actor \in Admins /\ e.reason \in Reasons

Typed == PlaybookTypeOK /\ \A h \in Handlers : Serves(handlers[h])

----------------------------------------------------------------------------
(* What every row says, the one in the table and the one that a request     *)
(* read some time ago, when A are the approvals and K the bodies accepted   *)
(* under the key of the run.                                                *)
RowInv(r, row, A, K) ==
    /\ row.status = "none" => row = NoRun
    /\ row.status # "none" => row.requested_by \in Admins
    /\ row.first # NoValue => row.first # row.requested_by /\ <<r, row.first>> \in A
    /\ row.status \in PENDING_RUN_STATUSES => approval_mode[r] # "AUTO"
    /\ row.status = "DISPATCHED" \/ row.task => K # {}

(* The outcome of a dispatch that was reported to the request.              *)
Reported(e, K) == e.next_status \in {"DISPATCHED", "FAILED"} /\
                  (e.next_status = "DISPATCHED" => K # {})

(* execute_playbook writes the first row of its run.                        *)
ExecutionInv(e, row, K) ==
    /\ row = NoRun
    /\ e.pc = "auto" => approval_mode[e.run] = "AUTO"
    /\ e.pc = "insert" => IF approval_mode[e.run] = "AUTO" THEN Reported(e, K)
                          ELSE e.next_status = "PENDING_APPROVAL"

(* decide_run acts on a row that was pending when it was read; who asked    *)
(* for the run cannot have changed since.                                   *)
DecisionInv(e, row, A, K) ==
    /\ RowInv(e.run, e.record, A, K)
    /\ e.record.status \in PENDING_RUN_STATUSES
    /\ row.status # "none" /\ row.requested_by = e.record.requested_by
    /\ e.actor # e.record.requested_by
    /\ e.pc = "first" => approval_mode[e.run] = "TWO_PERSON" /\ e.record.first = NoValue
    /\ e.pc \in {"dispatch", "apply"} /\ approval_mode[e.run] = "TWO_PERSON" =>
          e.record.first \notin {NoValue, e.actor}
    /\ e.pc = "apply" => <<e.run, e.actor>> \in A /\ Reported(e, K)

RequestInv(e, row, A, K) ==
    /\ Executing(e) => ExecutionInv(e, row, K)
    /\ Deciding(e) => DecisionInv(e, row, A, K)

Alone(h) == \A g \in Handlers : handlers[g].run = handlers[h].run => g = h

(* The people the mode of a run asks for, the requester not counted.        *)
Enough(r, A) ==
    approval_mode[r] # "AUTO" =>
        /\ playbook_runs[r].status # "none"
        /\ \E u, v \in Admins \ {playbook_runs[r].requested_by} :
              /\ <<r, u>> \in A /\ <<r, v>> \in A
              /\ approval_mode[r] = "TWO_PERSON" => u # v

RowsInv == \A r \in Runs : RowInv(r, playbook_runs[r], run_approvals, accepted[r])
RequestsInv == \A h \in Handlers :
    handlers[h].run \in Runs =>
        RequestInv(handlers[h], playbook_runs[handlers[h].run], run_approvals,
                   accepted[handlers[h].run])
AloneInv == \A h \in Handlers :
    Executing(handlers[h]) \/ handlers[h].run \in Undisturbed => Alone(h)
OrdersInv == \A r \in Runs :
    IF accepted[r] = {} THEN orders[r] = {}
    ELSE orders[r] = Agents /\ Enough(r, run_approvals)

RunInv == Typed /\ RowsInv /\ RequestsInv /\ AloneInv /\ OrdersInv

----------------------------------------------------------------------------
(* The runs whose requests neither overlap nor are cut short.               *)
QuietRow(r, row) ==
    /\ row.status = "PENDING_APPROVAL" => row.first = NoValue /\ row.second = NoValue
    /\ row.status = "PARTIALLY_APPROVED" =>
          row.first # NoValue /\ row.second = NoValue /\ approval_mode[r] = "TWO_PERSON"
    /\ row.status = "DISPATCHED" /\ approval_mode[r] = "TWO_PERSON" =>
          row.first # row.second

ToWrite(e) == e.pc \in {"insert", "apply"} /\ e.next_status = "DISPATCHED"

Quiet(r) ==
    /\ QuietRow(r, playbook_runs[r])
    /\ \A h \in Handlers : handlers[h].run = r /\ Deciding(handlers[h]) =>
          handlers[h].record = playbook_runs[r]
    /\ accepted[r] # {} => \/ playbook_runs[r].status = "DISPATCHED"
                           \/ \E h \in Handlers : handlers[h].run = r /\ ToWrite(handlers[h])

QuietInv == \A r \in Undisturbed : Quiet(r)

----------------------------------------------------------------------------
(* Types.                                                                   *)

LEMMA TypedFacts ==
    ASSUME Typed
    PROVE  /\ approval_mode \in [Runs -> {"AUTO", "MANUAL", "TWO_PERSON"}]
           /\ playbook_runs \in [Runs -> RunRow]
           /\ accepted \in [Runs -> SUBSET Reasons]
           /\ orders \in [Runs -> SUBSET Agents]
           /\ handlers \in [Handlers -> Request]
           /\ run_approvals \subseteq Runs \X Admins
           /\ \A h \in Handlers : Serves(handlers[h])
BY DEF Typed, PlaybookTypeOK, Request

LEMMA IdleTypes == NoRun \in RunRow /\ IdleHandler \in Request /\ Serves(IdleHandler)
<1>1. NoRun \in RunRow
  BY DEF NoRun, RunRow, RunStatuses
<1>. QED BY <1>1 DEF IdleHandler, Request, RunStatuses, Serves

(* The three ways the row of a decided run is rewritten.                    *)
LEMMA RewrittenRow ==
    ASSUME NEW row \in RunRow, NEW e \in Request, e.actor \in Admins
    PROVE  /\ [row EXCEPT !.status = "REJECTED"] \in RunRow
           /\ Partial(row, e.actor) \in RunRow
           /\ Decided(row, e) \in RunRow
<1>1. DOMAIN row = {"status", "requested_by", "first", "second", "task"}
  BY DEF RunRow
<1>2. /\ row.status \in RunStatuses /\ row.requested_by \in Admins \cup {NoValue}
      /\ row.first \in Admins \cup {NoValue} /\ row.second \in Admins \cup {NoValue}
      /\ row.task \in BOOLEAN
  BY DEF RunRow
<1>3. ASSUME NEW s \in RunStatuses, NEW f \in Admins \cup {NoValue},
             NEW g \in Admins \cup {NoValue}, NEW t \in BOOLEAN
      PROVE  [row EXCEPT !.status = s, !.first = f, !.second = g, !.task = t] \in RunRow
  BY <1>1, <1>2, <1>3, Zenon DEF RunRow
<1>4. [row EXCEPT !.status = "REJECTED"] \in RunRow
  BY <1>1, <1>2, Zenon DEF RunRow, RunStatuses
<1>5. Partial(row, e.actor) \in RunRow
  <2>1. "PARTIALLY_APPROVED" \in RunStatuses
    BY DEF RunStatuses, PENDING_RUN_STATUSES
  <2>. QED BY <1>1, <1>2, <2>1, Zenon DEF RunRow, Partial
<1>6. Decided(row, e) \in RunRow
  <2>1. /\ e.next_status \in RunStatuses
        /\ (IF row.first = NoValue THEN e.actor ELSE row.first) \in Admins \cup {NoValue}
        /\ (IF approval_mode[e.run] = "TWO_PERSON" THEN e.actor ELSE row.second)
              \in Admins \cup {NoValue}
        /\ (e.next_status = "DISPATCHED") \in BOOLEAN
    BY <1>2 DEF Request
  <2>. QED BY <1>3, <2>1 DEF Decided
<1>. QED BY <1>4, <1>5, <1>6

(* A step that gives thread h the request e.                                *)
LEMMA HandlerSet ==
    ASSUME Typed, NEW h \in Handlers, NEW e \in Request, Serves(e),
           handlers' = [handlers EXCEPT ![h] = e]
    PROVE  /\ handlers' \in [Handlers -> Request]
           /\ \A g \in Handlers : Serves(handlers'[g])
           /\ \A g \in Handlers : handlers'[g] = IF g = h THEN e ELSE handlers[g]
BY TypedFacts

(* The report of a dispatch changes pc and outcome of the request only.     *)
LEMMA DispatchedHandler ==
    ASSUME Typed, NEW h \in Handlers, NEW s \in RunStatuses, Dispatched(h, s),
           handlers[h].pc \in {"auto", "dispatch"}
    PROVE  \E e \in Request :
              /\ Serves(e)
              /\ handlers' = [handlers EXCEPT ![h] = e]
              /\ e.pc = IF handlers[h].pc = "auto" THEN "insert" ELSE "apply"
              /\ e.next_status = s
              /\ e.run = handlers[h].run /\ e.actor = handlers[h].actor
              /\ e.reason = handlers[h].reason /\ e.record = handlers[h].record
<1> DEFINE x == handlers[h]
           e == [x EXCEPT !.pc = IF x.pc = "auto" THEN "insert" ELSE "apply", !.next_status = s]
<1>1. x \in Request /\ Serves(x)
  BY TypedFacts
<1>2. /\ e \in Request /\ Serves(e)
      /\ e.pc = IF x.pc = "auto" THEN "insert" ELSE "apply"
      /\ e.next_status = s /\ e.run = x.run /\ e.actor = x.actor
      /\ e.reason = x.reason /\ e.record = x.record
  BY <1>1 DEF Request, Serves
<1>3. handlers' = [handlers EXCEPT ![h] = e]
  BY TypedFacts DEF Dispatched
<1>. QED BY <1>2, <1>3

LEMMA TypedInit == PlaybookInit => Typed
BY IdleTypes DEF PlaybookInit, Tasks!Init, Typed, PlaybookTypeOK, Request

LEMMA TypedNext == Typed /\ [PlaybookNext]_playbookVars => Typed'
<1> SUFFICES ASSUME Typed, [PlaybookNext]_playbookVars PROVE Typed'
  OBVIOUS
<1>0. /\ approval_mode \in [Runs -> {"AUTO", "MANUAL", "TWO_PERSON"}]
      /\ playbook_runs \in [Runs -> RunRow]
      /\ accepted \in [Runs -> SUBSET Reasons]
      /\ orders \in [Runs -> SUBSET Agents]
      /\ handlers \in [Handlers -> Request]
      /\ run_approvals \subseteq Runs \X Admins
      /\ \A h \in Handlers : Serves(handlers[h])
  BY TypedFacts
<1>t. ASSUME approval_mode' = approval_mode, playbook_runs' \in [Runs -> RunRow],
             accepted' \in [Runs -> SUBSET Reasons], orders' \in [Runs -> SUBSET Agents],
             handlers' \in [Handlers -> Request], run_approvals' \subseteq Runs \X Admins,
             \A h \in Handlers : Serves(handlers'[h])
      PROVE  Typed'
  BY <1>0, <1>t DEF Typed, PlaybookTypeOK, Request
<1>e. ASSUME NEW h \in Handlers, End(h)
      PROVE  handlers' \in [Handlers -> Request] /\ \A g \in Handlers : Serves(handlers'[g])
  BY <1>e, IdleTypes, HandlerSet DEF End
<1>r. ASSUME NEW h \in Handlers, handlers[h].pc # "idle"
      PROVE  /\ handlers[h].run \in Runs /\ handlers[h].actor \in Admins
             /\ handlers[h].reason \in Reasons /\ handlers[h].next_status \in RunStatuses
  BY <1>0, <1>r DEF Serves, Request
<1>1. ASSUME NEW h \in Handlers, NEW r \in Runs, NEW u \in Admins, NEW b \in Reasons,
             ExecutePlaybook(h, r, u, b)
      PROVE  Typed'
  <2> DEFINE e == [IdleHandler EXCEPT !.pc = IF approval_mode[r] = "AUTO" THEN "auto" ELSE "insert",
                              !.run = r, !.actor = u, !.reason = b,
                              !.next_status = "PENDING_APPROVAL"]
  <2>1. e \in Request /\ Serves(e)
    BY IdleTypes DEF IdleHandler, Request, Serves, RunStatuses, PENDING_RUN_STATUSES
  <2>2. handlers' = [handlers EXCEPT ![h] = e]
    BY <1>1 DEF ExecutePlaybook
  <2>3. UNCHANGED <<approval_mode, playbook_runs, taskVars, run_approvals>>
    BY <1>1 DEF ExecutePlaybook
  <2> HIDE DEF e
  <2>. QED BY <1>0, <1>t, <2>1, <2>2, <2>3, HandlerSet DEF taskVars
<1>2. ASSUME NEW h \in Handlers, NEW r \in Runs, NEW u \in Admins, NEW b \in Reasons,
             DecideRunRead(h, r, u, b)
      PROVE  Typed'
  <2>1. PICK pc \in {"reject", "first", "dispatch"} :
          handlers' = [handlers EXCEPT ![h] =
               [pc |-> pc, run |-> r, actor |-> u, reason |-> b,
                record |-> playbook_runs[r], next_status |-> playbook_runs[r].status]]
    BY <1>2 DEF DecideRunRead
  <2> DEFINE e == [pc |-> pc, run |-> r, actor |-> u, reason |-> b,
                   record |-> playbook_runs[r], next_status |-> playbook_runs[r].status]
  <2>2. e \in Request /\ Serves(e)
    BY <1>0 DEF Request, RunRow, Serves
  <2>3. UNCHANGED <<approval_mode, playbook_runs, taskVars, run_approvals>>
    BY <1>2 DEF DecideRunRead
  <2> HIDE DEF e
  <2>. QED BY <1>0, <1>t, <2>1, <2>2, <2>3, HandlerSet DEF taskVars, e
<1>3. ASSUME NEW h \in Handlers, InsertRun(h) PROVE Typed'
  <2> DEFINE x == handlers[h]
             new == [NoRun EXCEPT !.status = x.next_status, !.requested_by = x.actor,
                                  !.task = x.next_status = "DISPATCHED"]
  <2>1. x.run \in Runs /\ x.actor \in Admins /\ x.next_status \in RunStatuses
    BY <1>3, <1>r DEF InsertRun
  <2>2. new \in RunRow
    BY <2>1 DEF NoRun, RunRow, RunStatuses
  <2>3. playbook_runs' = [playbook_runs EXCEPT ![x.run] = new]
    BY <1>3 DEF InsertRun
  <2>4. playbook_runs' \in [Runs -> RunRow]
    BY <1>0, <2>1, <2>2, <2>3
  <2>. QED BY <1>0, <1>3, <1>e, <1>t, <2>4 DEF InsertRun, taskVars
<1>4. ASSUME NEW h \in Handlers, WriteRunReject(h) PROVE Typed'
  <2>1. handlers[h].run \in Runs /\ handlers[h].actor \in Admins
    BY <1>4, <1>r DEF WriteRunReject
  <2>2. [playbook_runs[handlers[h].run] EXCEPT !.status = "REJECTED"] \in RunRow
    BY <1>0, <2>1, RewrittenRow
  <2>3. playbook_runs' \in [Runs -> RunRow]
    BY <1>0, <1>4, <2>1, <2>2 DEF WriteRunReject
  <2>. QED BY <1>0, <1>4, <1>e, <1>t, <2>3 DEF WriteRunReject, taskVars
<1>5. ASSUME NEW h \in Handlers, WriteFirstApproval(h) PROVE Typed'
  <2>1. handlers[h].run \in Runs /\ handlers[h].actor \in Admins
    BY <1>5, <1>r DEF WriteFirstApproval
  <2>2. Partial(playbook_runs[handlers[h].run], handlers[h].actor) \in RunRow
    BY <1>0, <2>1, RewrittenRow
  <2>3. playbook_runs' \in [Runs -> RunRow] /\ run_approvals' \subseteq Runs \X Admins
    BY <1>0, <1>5, <2>1, <2>2 DEF WriteFirstApproval
  <2>. QED BY <1>0, <1>5, <1>e, <1>t, <2>3 DEF WriteFirstApproval, taskVars
<1>d. ASSUME NEW h \in Handlers, NEW s \in RunStatuses, Dispatched(h, s),
             handlers[h].pc \in {"auto", "dispatch"}
      PROVE  /\ handlers' \in [Handlers -> Request] /\ \A g \in Handlers : Serves(handlers'[g])
             /\ run_approvals' \subseteq Runs \X Admins
             /\ UNCHANGED <<approval_mode, playbook_runs>>
  <2>1. PICK e \in Request : Serves(e) /\ handlers' = [handlers EXCEPT ![h] = e]
    BY <1>d, DispatchedHandler
  <2>2. run_approvals' \subseteq run_approvals \cup {<<handlers[h].run, handlers[h].actor>>}
    BY <1>d DEF Dispatched
  <2>3. handlers[h].run \in Runs /\ handlers[h].actor \in Admins
    BY <1>d, <1>r
  <2>. QED BY <1>0, <1>d, <2>1, <2>2, <2>3, HandlerSet DEF Dispatched
<1>6. ASSUME NEW h \in Handlers, DispatchTask(h) PROVE Typed'
  <2>1. handlers[h].pc \in {"auto", "dispatch"} /\ Dispatched(h, "DISPATCHED")
    BY <1>6 DEF DispatchTask
  <2>2. handlers[h].run \in Runs /\ handlers[h].reason \in Reasons
    BY <2>1, <1>r
  <2>3. accepted' \in [Runs -> SUBSET Reasons] /\ orders' \in [Runs -> SUBSET Agents]
    BY <1>0, <1>6, <2>2 DEF DispatchTask, Tasks!Accept, taskVars
  <2>. QED BY <1>0, <1>d, <1>t, <2>1, <2>3 DEF RunStatuses
<1>7. ASSUME NEW h \in Handlers, DispatchRefused(h) PROVE Typed'
  BY <1>0, <1>7, <1>d, <1>t DEF DispatchRefused, RunStatuses, taskVars
<1>8. ASSUME NEW h \in Handlers, DispatchRaises(h) PROVE Typed'
  BY <1>0, <1>8, <1>e, <1>t DEF DispatchRaises, taskVars
<1>9. ASSUME NEW h \in Handlers, ApplyDecision(h) PROVE Typed'
  <2> DEFINE x == handlers[h]
  <2>1. x.run \in Runs /\ x.actor \in Admins /\ x.next_status \in RunStatuses
    BY <1>9, <1>r DEF ApplyDecision
  <2>2. Decided(playbook_runs[x.run], x) \in RunRow
    BY <1>0, <2>1, RewrittenRow
  <2>3. playbook_runs' = [playbook_runs EXCEPT ![x.run] = Decided(playbook_runs[x.run], x)]
    BY <1>9 DEF ApplyDecision
  <2>4. playbook_runs' \in [Runs -> RunRow]
    BY <1>0, <2>1, <2>2, <2>3
  <2>. QED BY <1>0, <1>9, <1>e, <1>t, <2>4 DEF ApplyDecision, taskVars
<1>10. ASSUME NEW h \in Handlers, HandlerDies(h) PROVE Typed'
  BY <1>0, <1>10, <1>e, <1>t DEF HandlerDies, taskVars
<1>11. CASE UNCHANGED playbookVars
  BY <1>0, <1>11, <1>t DEF playbookVars, taskVars
<1>. QED BY <1>1, <1>2, <1>3, <1>4, <1>5, <1>6, <1>7, <1>8, <1>9, <1>10, <1>11 DEF PlaybookNext

(* Every state of every execution is well typed.                            *)
THEOREM PlaybookTypeCorrect == PlaybookSpec => []PlaybookTypeOK
<1>1. Typed => PlaybookTypeOK
  BY DEF Typed
<1>. QED BY <1>1, TypedInit, TypedNext, PTL DEF PlaybookSpec

----------------------------------------------------------------------------
(* Enough people approved a run whose command was sent.                     *)

(* More approvals and more accepted bodies disturb neither a row nor a      *)
(* request, and a request does not depend on the approvers its row has now. *)
LEMMA RowInvGrows ==
    ASSUME NEW r, NEW row, NEW A, NEW B, NEW K, NEW L, RowInv(r, row, A, K),
           A \subseteq B, K # {} => L # {}
    PROVE  RowInv(r, row, B, L)
BY DEF RowInv

LEMMA DecisionInvGrows ==
    ASSUME NEW e, NEW row, NEW new, NEW A, NEW B, NEW K, NEW L, DecisionInv(e, row, A, K),
           A \subseteq B, K # {} => L # {},
           new.status # "none", new.requested_by = row.requested_by
    PROVE  DecisionInv(e, new, B, L)
<1>1. RowInv(e.run, e.record, B, L)
  BY RowInvGrows DEF DecisionInv
<1>. QED BY <1>1 DEF DecisionInv, Reported

LEMMA RequestInvGrows ==
    ASSUME NEW e, NEW row, NEW A, NEW B, NEW K, NEW L, RequestInv(e, row, A, K),
           A \subseteq B, K # {} => L # {}
    PROVE  RequestInv(e, row, B, L)
<1>1. Deciding(e) => DecisionInv(e, row, B, L)
  BY DecisionInvGrows DEF RequestInv, DecisionInv
<1>2. Executing(e) => ExecutionInv(e, row, L)
  BY DEF RequestInv, ExecutionInv, Reported
<1>. QED BY <1>1, <1>2 DEF RequestInv

(* The parts of the invariant after a step, from what holds of each row and *)
(* each request.                                                            *)
LEMMA RunInvAfter ==
    ASSUME approval_mode' = approval_mode,
           \A r \in Runs : RowInv(r, playbook_runs'[r], run_approvals', accepted'[r]),
           \A h \in Handlers : handlers'[h].run \in Runs =>
              RequestInv(handlers'[h], playbook_runs'[handlers'[h].run], run_approvals',
                         accepted'[handlers'[h].run]),
           \A h, g \in Handlers :
              /\ Executing(handlers'[h]) \/ handlers'[h].run \in Undisturbed
              /\ handlers'[g].run = handlers'[h].run
              => g = h
    PROVE  RowsInv' /\ RequestsInv' /\ AloneInv'
<1>1. RowsInv'
  BY DEF RowsInv, RowInv
<1>2. RequestsInv'
  BY DEF RequestsInv, RequestInv, Executing, Deciding, ExecutionInv, DecisionInv, RowInv, Reported
<1>3. AloneInv'
  BY DEF AloneInv, Alone, Executing
<1>. QED BY <1>1, <1>2, <1>3

(* A step of thread h, after which it serves the request e, and the tables  *)
(* of runs are as they were.                                                *)
LEMMA HandlerStep ==
    ASSUME RunInv, NEW h \in Handlers, NEW e \in Request,
           handlers' = [handlers EXCEPT ![h] = e],
           UNCHANGED <<approval_mode, playbook_runs>>,
           run_approvals \subseteq run_approvals',
           \A r \in Runs : accepted[r] # {} => accepted'[r] # {},
           e.run \in Runs => RequestInv(e, playbook_runs[e.run], run_approvals', accepted'[e.run]),
           \A g \in Handlers \ {h} : e.run \in Runs /\ handlers[g].run = e.run =>
              ~Executing(e) /\ e.run \notin Undisturbed /\ ~Executing(handlers[g]),
           Executing(e) => e.run \in Runs
    PROVE  RowsInv' /\ RequestsInv' /\ AloneInv'
<1>0. /\ handlers \in [Handlers -> Request]
      /\ \A g \in Handlers : handlers'[g] = IF g = h THEN e ELSE handlers[g]
      /\ \A g \in Handlers : Serves(handlers[g])
  BY TypedFacts DEF RunInv
<1>1. \A r \in Runs : RowInv(r, playbook_runs'[r], run_approvals', accepted'[r])
  BY RowInvGrows DEF RunInv, RowsInv
<1>2. ASSUME NEW g \in Handlers, handlers'[g].run \in Runs
      PROVE  RequestInv(handlers'[g], playbook_runs'[handlers'[g].run], run_approvals',
                        accepted'[handlers'[g].run])
  <2>1. CASE g = h
    BY <1>0, <1>2, <2>1
  <2>2. CASE g # h
    <3>1. RequestInv(handlers[g], playbook_runs[handlers[g].run], run_approvals,
                     accepted[handlers[g].run]) /\ handlers[g].run \in Runs
      BY <1>0, <1>2, <2>2 DEF RunInv, RequestsInv
    <3>. QED BY <1>0, <2>2, <3>1, RequestInvGrows
  <2>. QED BY <2>1, <2>2
<1>3. ASSUME NEW g \in Handlers, NEW f \in Handlers,
             Executing(handlers'[g]) \/ handlers'[g].run \in Undisturbed,
             handlers'[f].run = handlers'[g].run
      PROVE  f = g
  <2>1. CASE g = h
    BY <1>0, <1>3, <2>1
  <2>2. CASE g # h /\ f = h
    BY <1>0, <1>3, <2>2 DEF Serves, Executing
  <2>3. CASE g # h /\ f # h
    BY <1>0, <1>3, <2>3 DEF RunInv, AloneInv, Alone
  <2>. QED BY <2>1, <2>2, <2>3
<1>. QED BY <1>1, <1>2, <1>3, RunInvAfter

(* A thread that becomes idle.                                              *)
LEMMA EndStep ==
    ASSUME RunInv, NEW h \in Handlers, End(h), UNCHANGED <<approval_mode, playbook_runs>>,
           UNCHANGED <<run_approvals, taskVars>>
    PROVE  RowsInv' /\ RequestsInv' /\ AloneInv'
<1>1. IdleHandler \in Request /\ IdleHandler.run \notin Runs /\ ~Executing(IdleHandler)
  BY IdleTypes DEF IdleHandler, Executing
<1>2. handlers' = [handlers EXCEPT ![h] = IdleHandler]
  BY DEF End
<1>. QED BY <1>1, <1>2, HandlerStep DEF taskVars

(* The last step of the request of thread h, which gives its run the row    *)
(* new.                                                                     *)
LEMMA RowStep ==
    ASSUME RunInv, NEW h \in Handlers, NEW r \in Runs, NEW new,
           handlers[h].run = r, End(h),
           playbook_runs' = [playbook_runs EXCEPT ![r] = new],
           UNCHANGED <<approval_mode, taskVars>>,
           run_approvals \subseteq run_approvals',
           RowInv(r, new, run_approvals', accepted[r]), new.status # "none",
           Executing(handlers[h]) \/ new.requested_by = playbook_runs[r].requested_by
    PROVE  RowsInv' /\ RequestsInv' /\ AloneInv' /\ OrdersInv'
<1>0. /\ handlers \in [Handlers -> Request]
      /\ \A g \in Handlers : handlers'[g] = IF g = h THEN IdleHandler ELSE handlers[g]
      /\ \A s \in Runs : playbook_runs'[s] = IF s = r THEN new ELSE playbook_runs[s]
      /\ accepted' = accepted /\ orders' = orders
  BY TypedFacts DEF RunInv, End, taskVars
<1>i. IdleHandler.run \notin Runs /\ ~Executing(IdleHandler)
  BY DEF IdleHandler, Executing
<1>1. \A s \in Runs : RowInv(s, playbook_runs'[s], run_approvals', accepted'[s])
  BY <1>0, RowInvGrows DEF RunInv, RowsInv
<1>2. ASSUME NEW g \in Handlers, handlers'[g].run \in Runs
      PROVE  RequestInv(handlers'[g], playbook_runs'[handlers'[g].run], run_approvals',
                        accepted'[handlers'[g].run])
  <2>1. /\ g # h /\ handlers'[g] = handlers[g] /\ handlers[g].run \in Runs
        /\ RequestInv(handlers[g], playbook_runs[handlers[g].run], run_approvals,
                      accepted[handlers[g].run])
    BY <1>0, <1>2, <1>i DEF RunInv, RequestsInv
  <2>2. CASE handlers[g].run # r
    BY <1>0, <2>1, <2>2, RequestInvGrows
  <2>3. CASE handlers[g].run = r
    <3>1. ~Executing(handlers[g]) /\ ~Executing(handlers[h])
      BY <2>1, <2>3 DEF RunInv, AloneInv, Alone
    <3>2. Deciding(handlers[g]) =>
             DecisionInv(handlers[g], playbook_runs[r], run_approvals, accepted[r])
      BY <2>1, <2>3 DEF RequestInv
    <3>3. Deciding(handlers[g]) => DecisionInv(handlers[g], new, run_approvals', accepted[r])
      BY <3>1, <3>2, DecisionInvGrows
    <3>. QED BY <1>0, <2>1, <2>3, <3>1, <3>3 DEF RequestInv
  <2>. QED BY <2>2, <2>3
<1>3. \A g, f \in Handlers :
        /\ Executing(handlers'[g]) \/ handlers'[g].run \in Undisturbed
        /\ handlers'[f].run = handlers'[g].run
        => f = g
  <2> SUFFICES ASSUME NEW g \in Handlers, NEW f \in Handlers,
                      Executing(handlers'[g]) \/ handlers'[g].run \in Undisturbed,
                      handlers'[f].run = handlers'[g].run
               PROVE  f = g
    OBVIOUS
  <2>1. g # h /\ handlers'[g] = handlers[g] /\ handlers[g].run \in Runs
    BY <1>0, <1>i, TypedFacts DEF RunInv, Serves, Executing
  <2>2. f # h /\ handlers'[f] = handlers[f]
    BY <1>0, <1>i, <2>1
  <2>. QED BY <2>1, <2>2 DEF RunInv, AloneInv, Alone
<1>4. OrdersInv'
  <2> SUFFICES ASSUME NEW s \in Runs
               PROVE  (IF accepted[s] = {} THEN orders[s] = {}
                       ELSE orders[s] = Agents /\ Enough(s, run_approvals)')
    BY <1>0 DEF OrdersInv
  <2>1. CASE accepted[s] = {}
    BY <2>1 DEF RunInv, OrdersInv
  <2>2. CASE accepted[s] # {}
    <3>1. orders[s] = Agents /\ Enough(s, run_approvals)
      BY <2>2 DEF RunInv, OrdersInv
    <3>2. CASE approval_mode[s] = "AUTO"
      BY <2>2, <3>1, <3>2 DEF Enough
    <3>3. CASE approval_mode[s] # "AUTO"
      <4>1. playbook_runs[s].status # "none"
        BY <3>1, <3>3 DEF Enough
      <4>2. s = r => ~Executing(handlers[h])
        BY <4>1 DEF RunInv, RequestsInv, RequestInv, ExecutionInv, NoRun
      <4>3. /\ playbook_runs'[s].requested_by = playbook_runs[s].requested_by
            /\ playbook_runs'[s].status # "none"
        BY <1>0, <4>1, <4>2
      <4>. QED BY <2>2, <3>1, <4>3 DEF Enough
    <3>. QED BY <3>2, <3>3
  <2>. QED BY <2>1, <2>2
<1>. QED BY <1>0, <1>1, <1>2, <1>3, <1>4, RunInvAfter

(* More approvals leave enough of them.                                     *)
LEMMA OrdersKept ==
    ASSUME OrdersInv, UNCHANGED <<approval_mode, playbook_runs, taskVars>>,
           run_approvals \subseteq run_approvals'
    PROVE  OrdersInv'
BY DEF OrdersInv, Enough, taskVars

(* The request of a thread that has a dispatch reported to it.              *)
LEMMA ReportStep ==
    ASSUME RunInv, NEW h \in Handlers, NEW s \in {"DISPATCHED", "FAILED"},
           handlers[h].pc \in {"auto", "dispatch"}, Dispatched(h, s),
           \A r \in Runs : accepted[r] # {} => accepted'[r] # {},
           s = "DISPATCHED" => accepted'[handlers[h].run] # {}
    PROVE  RowsInv' /\ RequestsInv' /\ AloneInv'
<1> DEFINE x == handlers[h]
           r == x.run
<1>s. s \in RunStatuses
  BY DEF RunStatuses
<1>1. PICK e \in Request :
        /\ handlers' = [handlers EXCEPT ![h] = e]
        /\ e.pc = IF x.pc = "auto" THEN "insert" ELSE "apply"
        /\ e.next_status = s /\ e.run = r /\ e.actor = x.actor /\ e.record = x.record
  BY <1>s, DispatchedHandler DEF RunInv
<1>2. /\ r \in Runs /\ UNCHANGED <<approval_mode, playbook_runs>>
      /\ run_approvals' = IF x.pc = "auto" THEN run_approvals
                          ELSE run_approvals \cup {<<r, x.actor>>}
  BY TypedFacts DEF RunInv, Serves, Dispatched
<1>3. RequestInv(x, playbook_runs[r], run_approvals', accepted'[r])
  <2>1. RequestInv(x, playbook_runs[r], run_approvals, accepted[r])
    BY <1>2 DEF RunInv, RequestsInv
  <2>. QED BY <1>2, <2>1, RequestInvGrows
<1>4. RequestInv(e, playbook_runs[r], run_approvals', accepted'[r])
  <2>1. CASE x.pc = "auto"
    BY <1>1, <1>3, <2>1 DEF RequestInv, Executing, Deciding, ExecutionInv, Reported
  <2>2. CASE x.pc = "dispatch"
    <3>1. DecisionInv(x, playbook_runs[r], run_approvals', accepted'[r])
      BY <1>3, <2>2 DEF RequestInv, Deciding
    <3>2. <<e.run, e.actor>> \in run_approvals' /\ Reported(e, accepted'[r])
      BY <1>1, <1>2, <2>2 DEF Reported
    <3>3. DecisionInv(e, playbook_runs[r], run_approvals', accepted'[r])
      BY <1>1, <2>2, <3>1, <3>2 DEF DecisionInv
    <3>. QED BY <1>1, <2>2, <3>3 DEF RequestInv, Executing
  <2>. QED BY <2>1, <2>2
<1>5. \A g \in Handlers \ {h} : handlers[g].run = r =>
         ~Executing(e) /\ r \notin Undisturbed /\ ~Executing(handlers[g])
  BY <1>1 DEF RunInv, AloneInv, Alone, Executing
<1>6. run_approvals \subseteq run_approvals'
  BY <1>2
<1>7. /\ e.run = r /\ e.run \in Runs
      /\ RequestInv(e, playbook_runs[e.run], run_approvals', accepted'[e.run])
      /\ \A g \in Handlers \ {h} : handlers[g].run = e.run =>
            ~Executing(e) /\ e.run \notin Undisturbed /\ ~Executing(handlers[g])
  BY <1>1, <1>2, <1>4, <1>5
<1>. QED BY <1>1, <1>2, <1>6, <1>7, HandlerStep

LEMMA RunInit == PlaybookInit => RunInv
<1> SUFFICES ASSUME PlaybookInit PROVE RunInv
  OBVIOUS
<1>1. RowsInv /\ RequestsInv /\ AloneInv /\ OrdersInv
  BY DEF PlaybookInit, Tasks!Init, RowsInv, RowInv, RequestsInv, AloneInv, Alone, OrdersInv,
         NoRun, IdleHandler, Executing, PENDING_RUN_STATUSES
<1>. QED BY <1>1, TypedInit DEF RunInv

LEMMA RunNext == RunInv /\ [PlaybookNext]_playbookVars => RunInv'
<1> SUFFICES ASSUME RunInv, [PlaybookNext]_playbookVars PROVE RunInv'
  OBVIOUS
<1>0. /\ playbook_runs \in [Runs -> RunRow]
      /\ accepted \in [Runs -> SUBSET Reasons]
      /\ orders \in [Runs -> SUBSET Agents]
      /\ handlers \in [Handlers -> Request]
      /\ \A h \in Handlers : Serves(handlers[h])
      /\ Typed'
  BY TypedFacts, TypedNext DEF RunInv
<1>q. ASSUME RowsInv' /\ RequestsInv' /\ AloneInv' /\ OrdersInv' PROVE RunInv'
  BY <1>0, <1>q DEF RunInv
<1>b. ASSUME NEW h \in Handlers, handlers[h].pc # "idle"
      PROVE  /\ handlers[h].run \in Runs /\ handlers[h].actor \in Admins
             /\ handlers[h].reason \in Reasons
             /\ RequestInv(handlers[h], playbook_runs[handlers[h].run], run_approvals,
                           accepted[handlers[h].run])
             /\ RowInv(handlers[h].run, playbook_runs[handlers[h].run], run_approvals,
                       accepted[handlers[h].run])
  BY <1>0, <1>b DEF Serves, RunInv, RequestsInv, RowsInv
<1>1. ASSUME NEW h \in Handlers, NEW r \in Runs, NEW u \in Admins, NEW b \in Reasons,
             ExecutePlaybook(h, r, u, b)
      PROVE  RunInv'
  <2> DEFINE e == [IdleHandler EXCEPT !.pc = IF approval_mode[r] = "AUTO" THEN "auto" ELSE "insert",
                              !.run = r, !.actor = u, !.reason = b,
                              !.next_status = "PENDING_APPROVAL"]
  <2>1. /\ e \in Request
        /\ e.run = r /\ e.next_status = "PENDING_APPROVAL"
        /\ e.pc = IF approval_mode[r] = "AUTO" THEN "auto" ELSE "insert"
    BY IdleTypes DEF IdleHandler, Request, RunStatuses, PENDING_RUN_STATUSES
  <2>2. handlers' = [handlers EXCEPT ![h] = e]
    BY <1>1 DEF ExecutePlaybook
  <2>3. UNCHANGED <<approval_mode, playbook_runs, taskVars, run_approvals>> /\ Unused(r)
    BY <1>1 DEF ExecutePlaybook
  <2> HIDE DEF e
  <2>4. RequestInv(e, playbook_runs[r], run_approvals, accepted[r])
    BY <2>1, <2>3 DEF RequestInv, Executing, Deciding, ExecutionInv, Unused
  <2>5. RowsInv' /\ RequestsInv' /\ AloneInv'
    BY <2>1, <2>2, <2>3, <2>4, HandlerStep DEF Unused, Busy, taskVars
  <2>. QED BY <1>q, <2>3, <2>5, OrdersKept DEF RunInv
<1>2. ASSUME NEW h \in Handlers, NEW r \in Runs, NEW u \in Admins, NEW b \in Reasons,
             DecideRunRead(h, r, u, b)
      PROVE  RunInv'
  <2> DEFINE row == playbook_runs[r]
  <2>1. PICK pc \in {"reject", "first", "dispatch"} :
          /\ pc = "first" => approval_mode[r] = "TWO_PERSON" /\ row.first = NoValue
          /\ pc = "dispatch" => /\ ~(approval_mode[r] = "TWO_PERSON" /\ row.first = NoValue)
                                /\ OtherApprover(row, u)
          /\ handlers' = [handlers EXCEPT ![h] =
               [pc |-> pc, run |-> r, actor |-> u, reason |-> b,
                record |-> row, next_status |-> row.status]]
    BY <1>2 DEF DecideRunRead
  <2> DEFINE e == [pc |-> pc, run |-> r, actor |-> u, reason |-> b,
                   record |-> row, next_status |-> row.status]
  <2>2. e \in Request
    BY <1>0 DEF Request, RunRow
  <2>3. /\ UNCHANGED <<approval_mode, playbook_runs, taskVars, run_approvals>>
        /\ Decidable(row, u) /\ (r \in Undisturbed => ~Busy(r))
    BY <1>2 DEF DecideRunRead
  <2>4. DecisionInv(e, row, run_approvals, accepted[r])
    BY <2>1, <2>3 DEF DecisionInv, Decidable, OtherApprover, RunInv, RowsInv, PENDING_RUN_STATUSES
  <2>5. /\ handlers' = [handlers EXCEPT ![h] = e]
        /\ e.run = r /\ ~Executing(e)
    BY <2>1 DEF Executing
  <2> HIDE DEF e
  <2>6. ASSUME NEW g \in Handlers, handlers[g].run = r PROVE ~Executing(handlers[g])
    <3>1. row.status # "none"
      BY <2>4 DEF DecisionInv
    <3>. QED BY <2>6, <3>1 DEF RunInv, RequestsInv, RequestInv, ExecutionInv, NoRun
  <2>7. RequestInv(e, row, run_approvals, accepted[r])
    BY <2>4, <2>5 DEF RequestInv
  <2>8. RowsInv' /\ RequestsInv' /\ AloneInv'
    BY <2>2, <2>3, <2>5, <2>6, <2>7, HandlerStep DEF Busy, taskVars
  <2>. QED BY <1>q, <2>3, <2>8, OrdersKept DEF RunInv
<1>3. ASSUME NEW h \in Handlers, InsertRun(h) PROVE RunInv'
  <2> DEFINE x == handlers[h]
             r == x.run
             new == [NoRun EXCEPT !.status = x.next_status, !.requested_by = x.actor,
                                  !.task = x.next_status = "DISPATCHED"]
  <2>1. x.pc = "insert" /\ playbook_runs' = [playbook_runs EXCEPT ![r] = new] /\ End(h)
        /\ UNCHANGED <<approval_mode, taskVars, run_approvals>>
    BY <1>3 DEF InsertRun
  <2>2. r \in Runs /\ x.actor \in Admins /\ ExecutionInv(x, playbook_runs[r], accepted[r])
    BY <1>b, <2>1 DEF RequestInv, Executing
  <2>3. /\ new.status = x.next_status /\ new.requested_by = x.actor /\ new.first = NoValue
        /\ new.task = (x.next_status = "DISPATCHED")
    BY DEF NoRun
  <2>4. Executing(x)
    BY <2>1 DEF Executing
  <2> HIDE DEF new
  <2>5. RowInv(r, new, run_approvals, accepted[r]) /\ new.status # "none"
    BY <2>1, <2>2, <2>3 DEF RowInv, ExecutionInv, Reported, PENDING_RUN_STATUSES
  <2>. QED BY <1>q, <2>1, <2>2, <2>4, <2>5, RowStep
<1>4. ASSUME NEW h \in Handlers, WriteRunReject(h) PROVE RunInv'
  <2> DEFINE r == handlers[h].run
             new == [playbook_runs[r] EXCEPT !.status = "REJECTED"]
  <2>1. /\ handlers[h].pc = "reject" /\ End(h)
        /\ UNCHANGED <<approval_mode, taskVars, run_approvals>>
    BY <1>4 DEF WriteRunReject
  <2>2. /\ r \in Runs /\ RowInv(r, playbook_runs[r], run_approvals, accepted[r])
        /\ DecisionInv(handlers[h], playbook_runs[r], run_approvals, accepted[r])
    BY <1>b, <2>1 DEF RequestInv, Deciding
  <2>3. playbook_runs' = [playbook_runs EXCEPT ![r] = new]
    BY <1>4 DEF WriteRunReject
  <2>4. /\ new.status = "REJECTED" /\ new.requested_by = playbook_runs[r].requested_by
        /\ new.first = playbook_runs[r].first /\ new.task = playbook_runs[r].task
    BY <1>0, <2>2 DEF RunRow
  <2> HIDE DEF new
  <2>5. RowInv(r, new, run_approvals, accepted[r]) /\ new.status # "none"
    BY <2>2, <2>4 DEF RowInv, DecisionInv, PENDING_RUN_STATUSES
  <2>. QED BY <1>q, <2>1, <2>2, <2>3, <2>4, <2>5, RowStep
<1>5. ASSUME NEW h \in Handlers, WriteFirstApproval(h) PROVE RunInv'
  <2> DEFINE x == handlers[h]
             r == x.run
             new == Partial(playbook_runs[r], x.actor)
  <2>1. /\ x.pc = "first" /\ End(h) /\ UNCHANGED <<approval_mode, taskVars>>
        /\ run_approvals' = run_approvals \cup {<<r, x.actor>>}
    BY <1>5 DEF WriteFirstApproval
  <2>2. /\ r \in Runs /\ RowInv(r, playbook_runs[r], run_approvals, accepted[r])
        /\ DecisionInv(x, playbook_runs[r], run_approvals, accepted[r])
    BY <1>b, <2>1 DEF RequestInv, Deciding
  <2>3. playbook_runs' = [playbook_runs EXCEPT ![r] = new]
    BY <1>5 DEF WriteFirstApproval
  <2>4. /\ new.status = "PARTIALLY_APPROVED" /\ new.requested_by = playbook_runs[r].requested_by
        /\ new.first = x.actor /\ new.task = playbook_runs[r].task
    BY <1>0, <2>2 DEF RunRow, Partial
  <2> HIDE DEF new
  <2>5. RowInv(r, new, run_approvals', accepted[r]) /\ new.status # "none"
    BY <2>1, <2>2, <2>4 DEF RowInv, DecisionInv, PENDING_RUN_STATUSES
  <2>. QED BY <1>q, <2>1, <2>2, <2>3, <2>4, <2>5, RowStep
<1>6. ASSUME NEW h \in Handlers, DispatchTask(h) PROVE RunInv'
  <2> DEFINE x == handlers[h]
             r == x.run
  <2>1. x.pc \in {"auto", "dispatch"} /\ Dispatched(h, "DISPATCHED")
    BY <1>6 DEF DispatchTask
  <2>2. /\ r \in Runs /\ x.reason \in Reasons /\ x.actor \in Admins
        /\ RequestInv(x, playbook_runs[r], run_approvals, accepted[r])
    BY <1>b, <2>1
  <2>3. /\ accepted'[r] # {}
        /\ \A s \in Runs \ {r} : accepted'[s] = accepted[s] /\ orders'[s] = orders[s]
        /\ (orders'[r] = Agents \/ (accepted[r] # {} /\ orders'[r] = orders[r]))
    BY <1>0, <1>6, <2>2 DEF DispatchTask, Tasks!Accept, taskVars
  <2>4. RowsInv' /\ RequestsInv' /\ AloneInv'
    BY <2>1, <2>3, ReportStep
  <2>5. /\ UNCHANGED <<approval_mode, playbook_runs>>
        /\ run_approvals' = IF x.pc = "auto" THEN run_approvals
                            ELSE run_approvals \cup {<<r, x.actor>>}
    BY <2>1 DEF Dispatched
  <2>6. Enough(r, run_approvals')
    <3>1. CASE x.pc = "auto"
      BY <2>2, <3>1 DEF Enough, RequestInv, ExecutionInv, Executing
    <3>2. CASE x.pc = "dispatch"
      <4> DEFINE q == playbook_runs[r].requested_by
                 v == IF approval_mode[r] = "TWO_PERSON" THEN x.record.first ELSE x.actor
      <4>1. DecisionInv(x, playbook_runs[r], run_approvals, accepted[r])
        BY <2>2, <3>2 DEF RequestInv, Deciding
      <4>2. x.record.first \in Admins \cup {NoValue}
        BY <1>0 DEF Request, RunRow
      <4>3. playbook_runs[r].status # "none" /\ x.actor \in Admins \ {q}
        BY <2>2, <4>1 DEF DecisionInv
      <4>4. /\ v \in Admins \ {q} /\ <<r, v>> \in run_approvals'
            /\ approval_mode[r] = "TWO_PERSON" => x.actor # v
        BY <2>5, <3>2, <4>1, <4>2, <4>3 DEF DecisionInv, RowInv
      <4>5. <<r, x.actor>> \in run_approvals'
        BY <2>5, <3>2
      <4> HIDE DEF q, v
      <4>. QED BY <4>3, <4>4, <4>5 DEF Enough, q
    <3>. QED BY <2>1, <3>1, <3>2
  <2>7. OrdersInv'
    <3> SUFFICES ASSUME NEW s \in Runs
                 PROVE  (IF accepted[s] = {} THEN orders[s] = {}
                         ELSE orders[s] = Agents /\ Enough(s, run_approvals))'
      BY DEF OrdersInv
    <3>1. IF accepted[s] = {} THEN orders[s] = {}
          ELSE orders[s] = Agents /\ Enough(s, run_approvals)
      BY DEF RunInv, OrdersInv
    <3>2. CASE s = r
      <4>1. orders'[r] = Agents
        BY <2>3, <3>1, <3>2
      <4>. QED BY <2>3, <2>5, <2>6, <3>2, <4>1 DEF Enough
    <3>3. CASE s # r
      <4>1. Enough(s, run_approvals) => Enough(s, run_approvals')
        BY <2>5 DEF Enough
      <4>2. Enough(s, run_approvals') => Enough(s, run_approvals)'
        BY <2>5 DEF Enough
      <4>. QED BY <2>3, <3>1, <3>3, <4>1, <4>2
    <3>. QED BY <3>2, <3>3
  <2>. QED BY <1>q, <2>4, <2>7
<1>7. ASSUME NEW h \in Handlers, DispatchRefused(h) PROVE RunInv'
  <2>1. /\ handlers[h].pc \in {"auto", "dispatch"} /\ Dispatched(h, "FAILED")
        /\ UNCHANGED taskVars
    BY <1>7 DEF DispatchRefused
  <2>2. RowsInv' /\ RequestsInv' /\ AloneInv'
    BY <2>1, ReportStep DEF taskVars
  <2>3. UNCHANGED <<approval_mode, playbook_runs>> /\ run_approvals \subseteq run_approvals'
    BY <2>1 DEF Dispatched
  <2>. QED BY <1>q, <2>1, <2>2, <2>3, OrdersKept DEF RunInv
<1>8. ASSUME NEW h \in Handlers, DispatchRaises(h) \/ HandlerDies(h) PROVE RunInv'
  <2>1. End(h) /\ UNCHANGED <<approval_mode, playbook_runs, taskVars, run_approvals>>
    BY <1>8 DEF DispatchRaises, HandlerDies
  <2>. QED BY <1>q, <2>1, EndStep, OrdersKept DEF RunInv
<1>9. ASSUME NEW h \in Handlers, ApplyDecision(h) PROVE RunInv'
  <2> DEFINE x == handlers[h]
             r == x.run
             new == Decided(playbook_runs[r], x)
  <2>1. /\ x.pc = "apply" /\ End(h) /\ UNCHANGED <<approval_mode, taskVars, run_approvals>>
        /\ playbook_runs' = [playbook_runs EXCEPT ![r] = new]
    BY <1>9 DEF ApplyDecision
  <2>2. /\ r \in Runs /\ RowInv(r, playbook_runs[r], run_approvals, accepted[r])
        /\ DecisionInv(x, playbook_runs[r], run_approvals, accepted[r])
    BY <1>b, <2>1 DEF RequestInv, Deciding
  <2>3. /\ new.status = x.next_status /\ new.requested_by = playbook_runs[r].requested_by
        /\ new.first = (IF playbook_runs[r].first = NoValue THEN x.actor
                        ELSE playbook_runs[r].first)
        /\ new.task = (x.next_status = "DISPATCHED")
    BY <1>0, <2>2 DEF RunRow, Decided
  <2> HIDE DEF new
  <2>4. RowInv(r, new, run_approvals, accepted[r]) /\ new.status # "none"
    BY <2>1, <2>2, <2>3 DEF RowInv, DecisionInv, Reported, PENDING_RUN_STATUSES
  <2>. QED BY <1>q, <2>1, <2>2, <2>3, <2>4, RowStep
<1>10. CASE UNCHANGED playbookVars
  <2>1. UNCHANGED <<approval_mode, playbook_runs, accepted, orders, handlers, run_approvals>>
    BY <1>10 DEF playbookVars, taskVars
  <2>2. RowsInv' /\ RequestsInv' /\ AloneInv'
    <3>1. \A h, g \in Handlers :
            /\ Executing(handlers'[h]) \/ handlers'[h].run \in Undisturbed
            /\ handlers'[g].run = handlers'[h].run
            => g = h
      BY <2>1 DEF RunInv, AloneInv, Alone
    <3>. QED BY <2>1, <3>1, RunInvAfter DEF RunInv, RowsInv, RequestsInv
  <2>. QED BY <1>q, <2>1, <2>2, OrdersKept DEF RunInv, taskVars
<1>. QED BY <1>1, <1>2, <1>3, <1>4, <1>5, <1>6, <1>7, <1>8, <1>9, <1>10 DEF PlaybookNext

(* No agent gets the command of a run before as many people as its mode     *)
(* asks for have approved it, however the requests overlap and wherever     *)
(* they are cut short.                                                      *)
THEOREM RunNeedsApproval == PlaybookSpec => []DispatchNeedsApproval
<1>1. RunInv => DispatchNeedsApproval
  <2> SUFFICES ASSUME RunInv, NEW r \in Runs, orders[r] # {}
               PROVE  Cardinality({u \in Admins \ {playbook_runs[r].requested_by} :
                                      <<r, u>> \in run_approvals}) >= Needed(r)
    BY DEF DispatchNeedsApproval
  <2> DEFINE S == {u \in Admins \ {playbook_runs[r].requested_by} : <<r, u>> \in run_approvals}
  <2>1. Enough(r, run_approvals)
    BY DEF RunInv, OrdersInv
  <2>2. IsFiniteSet(S) /\ Cardinality(S) \in Nat
    <3>1. S \subseteq Admins
      OBVIOUS
    <3>. QED BY <3>1, FS_Subset, FS_CardinalityType
  <2>3. approval_mode[r] \in {"AUTO", "MANUAL", "TWO_PERSON"}
    BY TypedFacts DEF RunInv
  <2>4. ASSUME approval_mode[r] = "AUTO" PROVE Cardinality(S) >= Needed(r)
    BY <2>2, <2>4 DEF Needed
  <2> HIDE DEF S
  <2>5. ASSUME approval_mode[r] # "AUTO" PROVE Cardinality(S) >= Needed(r)
    <3>1. PICK u \in S, v \in S : approval_mode[r] = "TWO_PERSON" => u # v
      BY <2>1, <2>5 DEF Enough, S
    <3>2. IsFiniteSet({u}) /\ Cardinality({u}) = 1
      BY FS_Singleton
    <3>3. u # v => Cardinality({u} \cup {v}) = 2
      <4>1. Cardinality({u} \cup {v}) = IF v \in {u} THEN Cardinality({u}) ELSE Cardinality({u}) + 1
        BY <3>2, FS_AddElement
      <4>. QED BY <3>2, <4>1
    <3>4. Cardinality({u}) <= Cardinality(S) /\ Cardinality({u} \cup {v}) <= Cardinality(S)
      <4>1. {u} \subseteq S /\ {u} \cup {v} \subseteq S
        OBVIOUS
      <4>. QED BY <2>2, <4>1, FS_Subset
    <3>5. CASE approval_mode[r] = "MANUAL"
      BY <2>2, <3>2, <3>4, <3>5 DEF Needed
    <3>6. CASE approval_mode[r] = "TWO_PERSON"
      BY <2>2, <3>1, <3>3, <3>4, <3>6 DEF Needed
    <3>. QED BY <2>3, <2>5, <3>5, <3>6
  <2>. QED BY <2>4, <2>5 DEF S
<1>. QED BY <1>1, RunInit, RunNext, PTL DEF PlaybookSpec

----------------------------------------------------------------------------
(* What the row of an undisturbed run tells.                                *)

(* A run that thread h serves neither before nor after its step.            *)
LEMMA QuietOther ==
    ASSUME NEW r \in Undisturbed, Quiet(r), NEW h \in Handlers,
           \A g \in Handlers \ {h} : handlers'[g] = handlers[g],
           handlers[h].run # r, handlers'[h].run # r,
           approval_mode' = approval_mode,
           playbook_runs'[r] = playbook_runs[r], accepted'[r] = accepted[r]
    PROVE  Quiet(r)'
<1>1. QuietRow(r, playbook_runs[r])'
  BY DEF Quiet, QuietRow
<1>2. \A g \in Handlers : handlers'[g].run = r => g # h /\ handlers'[g] = handlers[g]
  OBVIOUS
<1>3. ASSUME NEW g \in Handlers, handlers'[g].run = r, Deciding(handlers'[g])
      PROVE  handlers'[g].record = playbook_runs'[r]
  BY <1>2, <1>3 DEF Quiet
<1>4. ASSUME accepted'[r] # {}, playbook_runs'[r].status # "DISPATCHED"
      PROVE  \E g \in Handlers : handlers'[g].run = r /\ ToWrite(handlers'[g])
  <2>1. PICK g \in Handlers : handlers[g].run = r /\ ToWrite(handlers[g])
    BY <1>4 DEF Quiet
  <2>. QED BY <2>1
<1>. QED BY <1>1, <1>3, <1>4 DEF Quiet, Deciding, ToWrite

(* The run that thread h serves, alone, after its step.                     *)
LEMMA QuietOwn ==
    ASSUME NEW r \in Undisturbed, NEW h \in Handlers,
           \A g \in Handlers \ {h} : handlers'[g].run # r,
           approval_mode' = approval_mode,
           QuietRow(r, playbook_runs'[r]),
           handlers'[h].run = r /\ Deciding(handlers'[h]) => handlers'[h].record = playbook_runs'[r],
           accepted'[r] # {} => \/ playbook_runs'[r].status = "DISPATCHED"
                                \/ handlers'[h].run = r /\ ToWrite(handlers'[h])
    PROVE  Quiet(r)'
<1>1. QuietRow(r, playbook_runs[r])'
  BY DEF QuietRow
<1>. QED BY <1>1 DEF Quiet, Deciding, ToWrite

(* Nothing was accepted under the key of a run that is not yet dispatched.  *)
LEMMA NothingAccepted ==
    ASSUME RunInv, QuietInv, NEW h \in Handlers, handlers[h].run \in Undisturbed,
           handlers[h].pc # "idle", ~ToWrite(handlers[h])
    PROVE  accepted[handlers[h].run] = {}
<1> DEFINE x == handlers[h]
           r == x.run
<1>1. Alone(h) /\ Quiet(r) /\ x \in Request /\ r \in Runs
  BY TypedFacts DEF RunInv, AloneInv, QuietInv
<1>2. playbook_runs[r].status # "DISPATCHED"
  <2>1. RequestInv(x, playbook_runs[r], run_approvals, accepted[r])
    BY <1>1 DEF RunInv, RequestsInv
  <2>2. CASE Executing(x)
    BY <2>1, <2>2 DEF RequestInv, ExecutionInv, NoRun
  <2>3. CASE Deciding(x)
    <3>1. x.record = playbook_runs[r]
      BY <1>1, <2>3 DEF Quiet
    <3>. QED BY <2>1, <2>3, <3>1 DEF RequestInv, DecisionInv, PENDING_RUN_STATUSES
  <2>. QED BY <1>1, <2>2, <2>3 DEF Request, Executing, Deciding
<1>. QED BY <1>1, <1>2 DEF Quiet, Alone

LEMMA QuietInit == PlaybookInit => QuietInv
BY DEF PlaybookInit, Tasks!Init, QuietInv, Quiet, QuietRow, NoRun, IdleHandler, Deciding

LEMMA QuietNext == RunInv /\ QuietInv /\ [PlaybookNext]_playbookVars => QuietInv'
<1> SUFFICES ASSUME RunInv, QuietInv, [PlaybookNext]_playbookVars, NEW r \in Undisturbed
             PROVE  Quiet(r)'
  BY DEF QuietInv
<1>0. /\ playbook_runs \in [Runs -> RunRow]
      /\ accepted \in [Runs -> SUBSET Reasons]
      /\ handlers \in [Handlers -> Request]
      /\ \A h \in Handlers : Serves(handlers[h])
      /\ r \in Runs /\ Quiet(r)
  BY TypedFacts DEF RunInv, QuietInv
<1>i. IdleHandler.run = NoValue /\ IdleHandler.run # r
  BY DEF IdleHandler
<1>b. ASSUME NEW h \in Handlers, handlers[h].pc # "idle", handlers[h].run = r
      PROVE  /\ Alone(h)
             /\ RequestInv(handlers[h], playbook_runs[r], run_approvals, accepted[r])
             /\ Deciding(handlers[h]) => handlers[h].record = playbook_runs[r]
             /\ ToWrite(handlers[h]) \/ accepted[r] = {}
  BY <1>0, <1>b, NothingAccepted DEF RunInv, AloneInv, RequestsInv, Quiet
<1>1. ASSUME NEW h \in Handlers, NEW s \in Runs, NEW u \in Admins, NEW b \in Reasons,
             ExecutePlaybook(h, s, u, b)
      PROVE  Quiet(r)'
  <2>1. /\ handlers'[h].run = s /\ Executing(handlers'[h])
        /\ \A g \in Handlers \ {h} : handlers'[g] = handlers[g]
        /\ handlers[h].pc = "idle" /\ Unused(s)
        /\ UNCHANGED <<approval_mode, playbook_runs, accepted>>
    BY <1>0, <1>1 DEF ExecutePlaybook, taskVars, IdleHandler, Executing
  <2>2. CASE s = r
    <3>1. \A g \in Handlers : handlers[g].run # r
      BY <2>1, <2>2 DEF Unused, Busy
    <3>2. accepted'[r] = {} /\ QuietRow(r, playbook_runs'[r])
      BY <1>0, <2>1, <2>2 DEF Unused, Quiet
    <3>3. ~Deciding(handlers'[h])
      BY <2>1 DEF Executing, Deciding
    <3>. QED BY <2>1, <3>1, <3>2, <3>3, QuietOwn
  <2>3. CASE s # r
    <3>1. handlers[h].run # r
      BY <1>0, <2>1 DEF Serves
    <3>. QED BY <1>0, <2>1, <2>3, <3>1, QuietOther
  <2>. QED BY <2>2, <2>3
<1>2. ASSUME NEW h \in Handlers, NEW s \in Runs, NEW u \in Admins, NEW b \in Reasons,
             DecideRunRead(h, s, u, b)
      PROVE  Quiet(r)'
  <2>1. /\ handlers'[h].run = s /\ handlers'[h].record = playbook_runs[s]
        /\ \A g \in Handlers \ {h} : handlers'[g] = handlers[g]
        /\ handlers[h].pc = "idle" /\ Decidable(playbook_runs[s], u)
        /\ s \in Undisturbed => ~Busy(s)
        /\ UNCHANGED <<approval_mode, playbook_runs, accepted>>
    BY <1>0, <1>2 DEF DecideRunRead, taskVars
  <2>2. CASE s = r
    <3>1. \A g \in Handlers : handlers[g].run # r
      BY <2>1, <2>2 DEF Busy
    <3>2. accepted'[r] = {} /\ QuietRow(r, playbook_runs'[r])
      BY <1>0, <2>1, <2>2, <3>1 DEF Quiet, Decidable, PENDING_RUN_STATUSES
    <3>. QED BY <2>1, <2>2, <3>1, <3>2, QuietOwn
  <2>3. CASE s # r
    <3>1. handlers[h].run # r
      BY <1>0, <2>1 DEF Serves
    <3>. QED BY <1>0, <2>1, <2>3, <3>1, QuietOther
  <2>. QED BY <2>2, <2>3
<1>e. ASSUME NEW h \in Handlers, End(h)
      PROVE  handlers'[h].run # r /\ \A g \in Handlers \ {h} : handlers'[g] = handlers[g]
  BY <1>0, <1>e, <1>i DEF End
<1>w. ASSUME NEW h \in Handlers, NEW new, End(h), handlers[h].pc # "idle",
             playbook_runs' = [playbook_runs EXCEPT ![handlers[h].run] = new],
             UNCHANGED <<approval_mode, taskVars>>,
             handlers[h].run = r => QuietRow(r, new) /\
                                    (accepted[r] # {} => new.status = "DISPATCHED")
      PROVE  Quiet(r)'
  <2>1. /\ handlers'[h].run # r /\ accepted' = accepted
        /\ \A g \in Handlers \ {h} : handlers'[g] = handlers[g]
    BY <1>e, <1>w DEF taskVars
  <2>2. CASE handlers[h].run = r
    <3>1. \A g \in Handlers \ {h} : handlers'[g].run # r
      BY <1>b, <1>w, <2>1, <2>2 DEF Alone
    <3>2. playbook_runs'[r] = new
      BY <1>0, <1>w, <2>2
    <3>. QED BY <1>w, <2>1, <2>2, <3>1, <3>2, QuietOwn
  <2>3. CASE handlers[h].run # r
    <3>1. playbook_runs'[r] = playbook_runs[r]
      BY <1>0, <1>w, <2>3
    <3>. QED BY <1>0, <1>w, <2>1, <2>3, <3>1, QuietOther
  <2>. QED BY <2>2, <2>3
<1>3. ASSUME NEW h \in Handlers, InsertRun(h) PROVE Quiet(r)'
  <2> DEFINE x == handlers[h]
             new == [NoRun EXCEPT !.status = x.next_status, !.requested_by = x.actor,
                                  !.task = x.next_status = "DISPATCHED"]
  <2>1. /\ x.pc = "insert" /\ playbook_runs' = [playbook_runs EXCEPT ![x.run] = new] /\ End(h)
        /\ UNCHANGED <<approval_mode, taskVars>>
    BY <1>3 DEF InsertRun
  <2>2. new.status = x.next_status /\ new.first = NoValue /\ new.second = NoValue
    BY DEF NoRun
  <2> HIDE DEF new
  <2>3. ASSUME x.run = r
        PROVE  QuietRow(r, new) /\ (accepted[r] # {} => new.status = "DISPATCHED")
    <3>1. ExecutionInv(x, playbook_runs[r], accepted[r]) /\ (ToWrite(x) \/ accepted[r] = {})
      BY <1>b, <2>1, <2>3 DEF RequestInv, Executing
    <3>. QED BY <2>1, <2>2, <2>3, <3>1 DEF ExecutionInv, Reported, QuietRow, ToWrite
  <2>. QED BY <1>w, <2>1, <2>3
<1>4. ASSUME NEW h \in Handlers, WriteRunReject(h) PROVE Quiet(r)'
  <2> DEFINE x == handlers[h]
             new == [playbook_runs[x.run] EXCEPT !.status = "REJECTED"]
  <2>1. /\ x.pc = "reject" /\ End(h) /\ UNCHANGED <<approval_mode, taskVars>>
        /\ playbook_runs' = [playbook_runs EXCEPT ![x.run] = new]
    BY <1>4 DEF WriteRunReject
  <2>2. ASSUME x.run = r PROVE QuietRow(r, new) /\ accepted[r] = {}
    <3>1. new.status = "REJECTED"
      BY <1>0, <2>2 DEF RunRow
    <3>2. accepted[r] = {}
      BY <1>b, <2>1, <2>2 DEF ToWrite
    <3>. QED BY <3>1, <3>2 DEF QuietRow
  <2> HIDE DEF new
  <2>. QED BY <1>w, <2>1, <2>2
<1>5. ASSUME NEW h \in Handlers, WriteFirstApproval(h) PROVE Quiet(r)'
  <2> DEFINE x == handlers[h]
             new == Partial(playbook_runs[x.run], x.actor)
  <2>1. /\ x.pc = "first" /\ End(h) /\ UNCHANGED <<approval_mode, taskVars>>
        /\ playbook_runs' = [playbook_runs EXCEPT ![x.run] = new]
    BY <1>5 DEF WriteFirstApproval
  <2>2. ASSUME x.run = r PROVE QuietRow(r, new) /\ accepted[r] = {}
    <3>1. /\ accepted[r] = {} /\ x.record = playbook_runs[r]
          /\ DecisionInv(x, playbook_runs[r], run_approvals, accepted[r])
      BY <1>b, <2>1, <2>2 DEF ToWrite, Deciding, RequestInv
    <3>2. /\ new.status = "PARTIALLY_APPROVED" /\ new.first = x.actor
          /\ new.second = playbook_runs[r].second
      BY <1>0, <2>2 DEF RunRow, Partial
    <3>3. x.actor # NoValue /\ approval_mode[r] = "TWO_PERSON"
      BY <1>0, <2>1, <2>2, <3>1 DEF Serves, DecisionInv
    <3>4. playbook_runs[r].second = NoValue
      BY <1>0, <2>1, <3>1 DEF DecisionInv, Quiet, QuietRow, PENDING_RUN_STATUSES
    <3>. QED BY <3>1, <3>2, <3>3, <3>4 DEF QuietRow
  <2> HIDE DEF new
  <2>. QED BY <1>w, <2>1, <2>2
<1>d. ASSUME NEW h \in Handlers, NEW s \in {"DISPATCHED", "FAILED"},
             handlers[h].pc \in {"auto", "dispatch"}, Dispatched(h, s),
             \A q \in Runs \ {handlers[h].run} : accepted'[q] = accepted[q],
             s = "FAILED" => accepted' = accepted
      PROVE  Quiet(r)'
  <2> DEFINE x == handlers[h]
  <2>s. s \in RunStatuses
    BY DEF RunStatuses
  <2>1. PICK e \in Request :
          /\ handlers' = [handlers EXCEPT ![h] = e]
          /\ e.pc = IF x.pc = "auto" THEN "insert" ELSE "apply"
          /\ e.next_status = s /\ e.run = x.run /\ e.record = x.record
    BY <1>d, <2>s, DispatchedHandler DEF RunInv
  <2>2. /\ handlers'[h] = e /\ UNCHANGED <<approval_mode, playbook_runs>>
        /\ \A g \in Handlers \ {h} : handlers'[g] = handlers[g]
    BY <1>0, <1>d, <2>1 DEF Dispatched
  <2>3. CASE x.run = r
    <3>1. \A g \in Handlers \ {h} : handlers'[g].run # r
      BY <1>b, <1>d, <2>2, <2>3 DEF Alone
    <3>2. Deciding(e) => e.record = playbook_runs[r]
      BY <1>b, <1>d, <2>1, <2>3 DEF Deciding
    <3>3. accepted[r] = {}
      BY <1>b, <1>d, <2>3 DEF ToWrite
    <3>4. accepted'[r] # {} => ToWrite(e)
      BY <1>d, <2>1, <3>3 DEF ToWrite
    <3>5. QuietRow(r, playbook_runs'[r])
      BY <1>0, <2>2 DEF Quiet
    <3>. QED BY <2>1, <2>2, <2>3, <3>1, <3>2, <3>4, <3>5, QuietOwn
  <2>4. CASE x.run # r
    BY <1>0, <1>d, <2>1, <2>2, <2>4, QuietOther
  <2>. QED BY <2>3, <2>4
<1>6. ASSUME NEW h \in Handlers, DispatchTask(h) PROVE Quiet(r)'
  <2>1. \A q \in Runs \ {handlers[h].run} : accepted'[q] = accepted[q]
    BY <1>0, <1>6 DEF DispatchTask, Tasks!Accept, taskVars
  <2>. QED BY <1>6, <1>d, <2>1 DEF DispatchTask
<1>7. ASSUME NEW h \in Handlers, DispatchRefused(h) PROVE Quiet(r)'
  BY <1>7, <1>d DEF DispatchRefused, taskVars
<1>8. ASSUME NEW h \in Handlers, DispatchRaises(h) \/ HandlerDies(h) PROVE Quiet(r)'
  <2>1. /\ End(h) /\ UNCHANGED <<approval_mode, playbook_runs, accepted>>
        /\ handlers[h].pc # "idle"
    BY <1>8 DEF DispatchRaises, HandlerDies, taskVars
  <2>2. handlers[h].run # r
    <3>1. CASE DispatchRaises(h)
      BY <1>b, <2>1, <3>1 DEF DispatchRaises, ToWrite
    <3>2. CASE HandlerDies(h)
      BY <3>2 DEF HandlerDies
    <3>. QED BY <1>8, <3>1, <3>2
  <2>. QED BY <1>0, <1>e, <2>1, <2>2, QuietOther
<1>9. ASSUME NEW h \in Handlers, ApplyDecision(h) PROVE Quiet(r)'
  <2> DEFINE x == handlers[h]
             new == Decided(playbook_runs[x.run], x)
  <2>1. /\ x.pc = "apply" /\ End(h) /\ UNCHANGED <<approval_mode, taskVars>>
        /\ playbook_runs' = [playbook_runs EXCEPT ![x.run] = new]
    BY <1>9 DEF ApplyDecision
  <2>2. ASSUME x.run = r
        PROVE  QuietRow(r, new) /\ (accepted[r] # {} => new.status = "DISPATCHED")
    <3>1. /\ ToWrite(x) \/ accepted[r] = {}
          /\ x.record = playbook_runs[r]
          /\ DecisionInv(x, playbook_runs[r], run_approvals, accepted[r])
      BY <1>b, <2>1, <2>2 DEF Deciding, RequestInv
    <3>2. /\ new.status = x.next_status
          /\ approval_mode[r] = "TWO_PERSON" => new.second = x.actor
          /\ playbook_runs[r].first # NoValue => new.first = playbook_runs[r].first
      BY <1>0, <2>2 DEF RunRow, Decided
    <3> HIDE DEF new
    <3>. QED BY <2>1, <2>2, <3>1, <3>2 DEF DecisionInv, Reported, QuietRow, ToWrite
  <2> HIDE DEF new
  <2>. QED BY <1>w, <2>1, <2>2
<1>10. CASE UNCHANGED playbookVars
  <2>1. UNCHANGED <<approval_mode, playbook_runs, accepted, handlers>>
    BY <1>10 DEF playbookVars, taskVars
  <2>. QED BY <1>0, <2>1 DEF Quiet, QuietRow, Deciding, ToWrite
<1>. QED BY <1>1, <1>2, <1>3, <1>4, <1>5, <1>6, <1>7, <1>8, <1>9, <1>10 DEF PlaybookNext

(* A run is shown with a task only when all its agents were sent the        *)
(* command; and a run whose requests did not overlap and were not cut short *)
(* says that its command was sent, and names two people if it needed two.   *)
THEOREM RunTellsTruth == PlaybookSpec => []RunTellsDispatch
<1>1. RunInv /\ QuietInv => RunTellsDispatch
  <2> SUFFICES ASSUME RunInv, QuietInv PROVE RunTellsDispatch
    OBVIOUS
  <2>1. ASSUME NEW r \in Runs, playbook_runs[r].status = "DISPATCHED" \/ playbook_runs[r].task
        PROVE  accepted[r] # {} /\ orders[r] = Agents
    <3>1. accepted[r] # {}
      BY <2>1 DEF RunInv, RowsInv, RowInv
    <3>. QED BY <3>1 DEF RunInv, OrdersInv
  <2>2. ASSUME NEW r \in Undisturbed, orders[r] # {}, ~Busy(r)
        PROVE  /\ playbook_runs[r].status = "DISPATCHED"
               /\ Needed(r) = 2 => playbook_runs[r].first # playbook_runs[r].second
    <3>1. accepted[r] # {}
      BY <2>2 DEF RunInv, OrdersInv
    <3>2. playbook_runs[r].status = "DISPATCHED" /\ QuietRow(r, playbook_runs[r])
      BY <2>2, <3>1 DEF QuietInv, Quiet, Busy
    <3>3. approval_mode[r] \in {"AUTO", "MANUAL", "TWO_PERSON"}
      BY TypedFacts DEF RunInv
    <3>. QED BY <3>2, <3>3 DEF QuietRow, Needed
  <2>. QED BY <2>1, <2>2 DEF RunTellsDispatch
<1>. QED BY <1>1, RunInit, RunNext, QuietInit, QuietNext, PTL DEF PlaybookSpec

----------------------------------------------------------------------------
(* The row of an undisturbed run follows the approval workflow.             *)

StageMap == [r \in Undisturbed |-> RunStageOf(playbook_runs[r].status)]
NeededMap == [r \in Undisturbed |-> IF playbook_runs[r].status = "none" THEN 0 ELSE Needed(r)]
OpenerMap == [r \in Undisturbed |-> {playbook_runs[r].requested_by} \ {NoValue}]
ApproverMap == [r \in Undisturbed |-> RunApprovers(playbook_runs[r])]

LEMMA Stages ==
    /\ RunStageOf("none") = "none"
    /\ \A s \in PENDING_RUN_STATUSES : RunStageOf(s) = "pending"
    /\ \A s \in {"DISPATCHED", "FAILED"} : RunStageOf(s) = "approved"
    /\ RunStageOf("REJECTED") = "rejected"
BY DEF RunStageOf, PENDING_RUN_STATUSES

(* A function that differs from another in one place.                       *)
LEMMA MapUpdate ==
    ASSUME NEW U, NEW f, NEW g, NEW r \in U, NEW v,
           f = [s \in U |-> f[s]], g = [s \in U |-> g[s]],
           g[r] = v, \A s \in U \ {r} : g[s] = f[s]
    PROVE  g = [f EXCEPT ![r] = v]
OBVIOUS

(* The four mapped variables when run r gets the row new.                   *)
LEMMA MapsAfter ==
    ASSUME RunInv, NEW r \in Undisturbed, NEW new,
           playbook_runs' = [playbook_runs EXCEPT ![r] = new], approval_mode' = approval_mode
    PROVE  /\ StageMap' = [StageMap EXCEPT ![r] = RunStageOf(new.status)]
           /\ NeededMap' = [NeededMap EXCEPT ![r] = IF new.status = "none" THEN 0 ELSE Needed(r)]
           /\ OpenerMap' = [OpenerMap EXCEPT ![r] = {new.requested_by} \ {NoValue}]
           /\ ApproverMap' = [ApproverMap EXCEPT ![r] = RunApprovers(new)]
<1>1. \A s \in Undisturbed : playbook_runs'[s] = IF s = r THEN new ELSE playbook_runs[s]
  BY TypedFacts DEF RunInv
<1>2. \A s \in Undisturbed : Needed(s)' = Needed(s)
  BY DEF Needed
<1>3. StageMap' = [StageMap EXCEPT ![r] = RunStageOf(new.status)]
  <2>1. StageMap = [s \in Undisturbed |-> RunStageOf(playbook_runs[s].status)]
    BY DEF StageMap
  <2>2. StageMap' = [s \in Undisturbed |-> RunStageOf(playbook_runs'[s].status)]
    BY DEF StageMap, RunStageOf
  <2>3. \A s \in Undisturbed : StageMap'[s] = RunStageOf(playbook_runs'[s].status)
    BY <2>2
  <2>4. \A s \in Undisturbed : StageMap[s] = RunStageOf(playbook_runs[s].status)
    BY <2>1
  <2>5. /\ StageMap'[r] = RunStageOf(new.status)
        /\ \A s \in Undisturbed \ {r} : StageMap'[s] = StageMap[s]
    BY <1>1, <2>3, <2>4
  <2>6. /\ StageMap = [s \in Undisturbed |-> StageMap[s]]
        /\ StageMap' = [s \in Undisturbed |-> StageMap'[s]]
    BY <2>1, <2>2
  <2>. QED BY <2>5, <2>6, MapUpdate
<1>4. NeededMap' = [NeededMap EXCEPT ![r] = IF new.status = "none" THEN 0 ELSE Needed(r)]
  BY <1>1, <1>2 DEF NeededMap
<1>5. OpenerMap' = [OpenerMap EXCEPT ![r] = {new.requested_by} \ {NoValue}]
  BY <1>1 DEF OpenerMap
<1>6. ApproverMap' = [ApproverMap EXCEPT ![r] = RunApprovers(new)]
  BY <1>1 DEF ApproverMap, RunApprovers
<1>. QED BY <1>3, <1>4, <1>5, <1>6

(* The workflow's actions, from the four maps.                              *)
LEMMA WorkflowOpens ==
    ASSUME NEW r \in Undisturbed, NEW u \in Admins, NEW n \in 0..2, StageMap[r] = "none",
           StageMap' = [StageMap EXCEPT ![r] = IF n = 0 THEN "approved" ELSE "pending"],
           NeededMap' = [NeededMap EXCEPT ![r] = n],
           OpenerMap' = [OpenerMap EXCEPT ![r] = {u}],
           ApproverMap' = ApproverMap
    PROVE  RunWorkflow!Next
<1>1. RunWorkflow!Open(r, u, n)
  BY DEF RunWorkflow!Open, StageMap, NeededMap, OpenerMap, ApproverMap
<1>. QED BY <1>1 DEF RunWorkflow!Next

LEMMA WorkflowApproves ==
    ASSUME NEW r \in Undisturbed, NEW u \in Admins, StageMap[r] = "pending",
           u \notin OpenerMap[r] \cup ApproverMap[r],
           StageMap' = [StageMap EXCEPT ![r] =
              IF Cardinality(ApproverMap[r]) + 1 >= NeededMap[r] THEN "approved" ELSE StageMap[r]],
           ApproverMap' = [ApproverMap EXCEPT ![r] = ApproverMap[r] \cup {u}],
           NeededMap' = NeededMap, OpenerMap' = OpenerMap
    PROVE  RunWorkflow!Next
<1>0. \A S : RunWorkflow!Cardinality(S) = Cardinality(S)
  BY DEF RunWorkflow!Cardinality, Cardinality
<1>1. RunWorkflow!Approve(r, u)
  BY <1>0 DEF RunWorkflow!Approve, StageMap, NeededMap, OpenerMap, ApproverMap
<1>. QED BY <1>1 DEF RunWorkflow!Next

LEMMA WorkflowRejects ==
    ASSUME NEW r \in Undisturbed, NEW u \in Admins, StageMap[r] = "pending",
           u \notin OpenerMap[r],
           StageMap' = [StageMap EXCEPT ![r] = "rejected"],
           UNCHANGED <<NeededMap, OpenerMap, ApproverMap>>
    PROVE  RunWorkflow!Next
<1>1. RunWorkflow!Reject(r, u)
  BY DEF RunWorkflow!Reject, StageMap, NeededMap, OpenerMap, ApproverMap
<1>. QED BY <1>1 DEF RunWorkflow!Next

(* What the request of a thread knows of its undisturbed run.               *)
LEMMA Deciders ==
    ASSUME RunInv, QuietInv, NEW h \in Handlers, Deciding(handlers[h]),
           NEW r \in Undisturbed, handlers[h].run = r, NEW u, u = handlers[h].actor
    PROVE  /\ u \in Admins
           /\ DecisionInv(handlers[h], playbook_runs[r], run_approvals, accepted[r])
           /\ handlers[h].record = playbook_runs[r]
           /\ playbook_runs[r].status # "none"
           /\ StageMap[r] = "pending" /\ NeededMap[r] = Needed(r)
           /\ OpenerMap[r] = {playbook_runs[r].requested_by}
           /\ u \notin OpenerMap[r]
           /\ ApproverMap[r] = RunApprovers(playbook_runs[r])
<1>1. /\ u \in Admins /\ r \in Runs
      /\ DecisionInv(handlers[h], playbook_runs[r], run_approvals, accepted[r])
      /\ handlers[h].record = playbook_runs[r]
      /\ RowInv(r, playbook_runs[r], run_approvals, accepted[r])
  BY TypedFacts DEF RunInv, Serves, Deciding, RequestsInv, RequestInv, QuietInv, Quiet, RowsInv
<1>2. playbook_runs[r].status \in PENDING_RUN_STATUSES /\ playbook_runs[r].status # "none"
  BY <1>1 DEF DecisionInv, PENDING_RUN_STATUSES
<1>3. playbook_runs[r].requested_by \in Admins /\ u # playbook_runs[r].requested_by
  BY <1>1, <1>2 DEF RowInv, DecisionInv
<1>4. StageMap[r] = "pending" /\ NeededMap[r] = Needed(r)
  <2>1. StageMap[r] = RunStageOf(playbook_runs[r].status)
    BY DEF StageMap
  <2>2. RunStageOf(playbook_runs[r].status) = "pending"
    BY <1>2, Stages
  <2>. QED BY <1>2, <2>1, <2>2 DEF NeededMap
<1>5. OpenerMap[r] = {playbook_runs[r].requested_by}
  BY <1>3 DEF OpenerMap
<1>6. ApproverMap[r] = RunApprovers(playbook_runs[r])
  BY DEF ApproverMap
<1>. QED BY <1>1, <1>2, <1>3, <1>4, <1>5, <1>6

(* A row that keeps its requester, once decided upon.                       *)
LEMMA MapsKept ==
    ASSUME RunInv, NEW r \in Undisturbed, NEW new, new.status # "none",
           playbook_runs' = [playbook_runs EXCEPT ![r] = new], approval_mode' = approval_mode,
           NeededMap[r] = Needed(r), OpenerMap[r] = {new.requested_by},
           new.requested_by \in Admins
    PROVE  /\ NeededMap' = NeededMap /\ OpenerMap' = OpenerMap
           /\ StageMap' = [StageMap EXCEPT ![r] = RunStageOf(new.status)]
           /\ ApproverMap' = [ApproverMap EXCEPT ![r] = RunApprovers(new)]
<1>1. /\ StageMap' = [StageMap EXCEPT ![r] = RunStageOf(new.status)]
      /\ NeededMap' = [NeededMap EXCEPT ![r] = IF new.status = "none" THEN 0 ELSE Needed(r)]
      /\ OpenerMap' = [OpenerMap EXCEPT ![r] = {new.requested_by} \ {NoValue}]
      /\ ApproverMap' = [ApproverMap EXCEPT ![r] = RunApprovers(new)]
  BY MapsAfter
<1>2. NeededMap' = [NeededMap EXCEPT ![r] = NeededMap[r]]
  BY <1>1
<1>3. OpenerMap' = [OpenerMap EXCEPT ![r] = OpenerMap[r]]
  <2>1. {new.requested_by} \ {NoValue} = {new.requested_by}
    OBVIOUS
  <2>. QED BY <1>1, <2>1
<1>4. NeededMap' = NeededMap
  BY <1>2 DEF NeededMap
<1>5. OpenerMap' = OpenerMap
  BY <1>3 DEF OpenerMap
<1>. QED BY <1>1, <1>4, <1>5

LEMMA InsertOpens ==
    ASSUME RunInv, QuietInv, NEW h \in Handlers, InsertRun(h), handlers[h].run \in Undisturbed
    PROVE  RunWorkflow!Next
<1>0. PICK x \in Request, r \in Undisturbed, u \in {handlers[h].actor} :
         x = handlers[h] /\ r = x.run /\ u = x.actor
  BY TypedFacts DEF RunInv
<1> DEFINE new == [NoRun EXCEPT !.status = x.next_status, !.requested_by = u,
                                !.task = x.next_status = "DISPATCHED"]
<1>1. /\ x.pc = "insert" /\ playbook_runs' = [playbook_runs EXCEPT ![r] = new]
      /\ approval_mode' = approval_mode
  BY <1>0 DEF InsertRun
<1>2. /\ new.status = x.next_status /\ new.requested_by = u
      /\ new.first = NoValue /\ new.second = NoValue
  BY DEF NoRun
<1> HIDE DEF new
<1>3. /\ r \in Runs /\ u \in Admins /\ ExecutionInv(x, playbook_runs[r], accepted[r])
  BY <1>0, <1>1, TypedFacts DEF RunInv, Serves, RequestsInv, RequestInv, Executing
<1>4. StageMap[r] = "none" /\ ApproverMap[r] = {}
  <2>1. StageMap[r] = RunStageOf(playbook_runs[r].status)
    BY DEF StageMap
  <2>2. playbook_runs[r] = NoRun
    BY <1>3 DEF ExecutionInv
  <2>. QED BY <2>1, <2>2, Stages DEF NoRun, ApproverMap, RunApprovers
<1>5. /\ Needed(r) \in 0..2 /\ new.status # "none"
      /\ RunStageOf(new.status) = IF Needed(r) = 0 THEN "approved" ELSE "pending"
  <2>1. CASE approval_mode[r] = "AUTO"
    BY <1>0, <1>1, <1>2, <1>3, <2>1, Stages DEF ExecutionInv, Reported, Needed
  <2>2. CASE approval_mode[r] \in {"MANUAL", "TWO_PERSON"}
    <3>1. new.status = "PENDING_APPROVAL"
      BY <1>0, <1>1, <1>2, <1>3, <2>2 DEF ExecutionInv
    <3>. QED BY <2>2, <3>1, Stages DEF Needed, PENDING_RUN_STATUSES
  <2>. QED BY <1>3, <2>1, <2>2, TypedFacts DEF RunInv
<1>6. /\ StageMap' = [StageMap EXCEPT ![r] = RunStageOf(new.status)]
      /\ NeededMap' = [NeededMap EXCEPT ![r] = IF new.status = "none" THEN 0 ELSE Needed(r)]
      /\ OpenerMap' = [OpenerMap EXCEPT ![r] = {new.requested_by} \ {NoValue}]
      /\ ApproverMap' = [ApproverMap EXCEPT ![r] = RunApprovers(new)]
  BY <1>1, MapsAfter
<1>7. {new.requested_by} \ {NoValue} = {u} /\ RunApprovers(new) = {}
  BY <1>2, <1>3 DEF RunApprovers
<1>8. ApproverMap' = ApproverMap
  <2>1. ApproverMap' = [ApproverMap EXCEPT ![r] = ApproverMap[r]]
    BY <1>4, <1>6, <1>7
  <2>. QED BY <2>1 DEF ApproverMap
<1>. QED BY <1>3, <1>4, <1>5, <1>6, <1>7, <1>8, WorkflowOpens

LEMMA RejectRejects ==
    ASSUME RunInv, QuietInv, NEW h \in Handlers, WriteRunReject(h), handlers[h].run \in Undisturbed
    PROVE  RunWorkflow!Next
<1>0. PICK x \in Request, r \in Undisturbed, u \in {handlers[h].actor} :
         x = handlers[h] /\ r = x.run /\ u = x.actor
  BY TypedFacts DEF RunInv
<1> DEFINE row == playbook_runs[r]
           new == [row EXCEPT !.status = "REJECTED"]
<1>1. /\ Deciding(handlers[h]) /\ playbook_runs' = [playbook_runs EXCEPT ![r] = new]
      /\ approval_mode' = approval_mode
  BY <1>0 DEF WriteRunReject, Deciding
<1>2. /\ u \in Admins /\ StageMap[r] = "pending" /\ NeededMap[r] = Needed(r)
      /\ OpenerMap[r] = {row.requested_by} /\ u \notin OpenerMap[r]
      /\ ApproverMap[r] = RunApprovers(row) /\ row.status # "none"
  BY <1>0, <1>1, Deciders
<1>3. /\ new.status = "REJECTED" /\ new.requested_by = row.requested_by
      /\ RunApprovers(new) = RunApprovers(row) /\ row.requested_by \in Admins
  <2>1. row \in RunRow /\ RowInv(r, row, run_approvals, accepted[r])
    BY TypedFacts DEF RunInv, RowsInv
  <2>2. /\ new.status = "REJECTED" /\ new.requested_by = row.requested_by
        /\ new.first = row.first /\ new.second = row.second
    BY <2>1 DEF RunRow
  <2> HIDE DEF row, new
  <2>. QED BY <1>2, <2>1, <2>2 DEF RowInv, RunApprovers
<1> HIDE DEF row, new
<1>4. /\ NeededMap' = NeededMap /\ OpenerMap' = OpenerMap
      /\ StageMap' = [StageMap EXCEPT ![r] = RunStageOf(new.status)]
      /\ ApproverMap' = [ApproverMap EXCEPT ![r] = RunApprovers(new)]
  <2>1. /\ new.status # "none" /\ OpenerMap[r] = {new.requested_by}
        /\ new.requested_by \in Admins
    BY <1>2, <1>3
  <2>. QED BY <1>1, <1>2, <2>1, MapsKept
<1>5. ApproverMap' = ApproverMap
  <2>1. ApproverMap' = [ApproverMap EXCEPT ![r] = ApproverMap[r]]
    BY <1>2, <1>3, <1>4
  <2>. QED BY <2>1 DEF ApproverMap
<1>6. RunStageOf(new.status) = "rejected"
  BY <1>3, Stages
<1>. QED BY <1>2, <1>4, <1>5, <1>6, WorkflowRejects

(* An approval of an undisturbed run adds its author to the approvers of    *)
(* the row, and decides the run when they are as many as it needs.          *)
LEMMA RowApproves ==
    ASSUME RunInv, QuietInv, NEW h \in Handlers, Deciding(handlers[h]),
           NEW r \in Undisturbed, handlers[h].run = r, NEW u, u = handlers[h].actor,
           NEW new, playbook_runs' = [playbook_runs EXCEPT ![r] = new],
           approval_mode' = approval_mode, new.status # "none",
           new.requested_by = playbook_runs[r].requested_by,
           u \notin RunApprovers(playbook_runs[r]),
           RunApprovers(new) = RunApprovers(playbook_runs[r]) \cup {u},
           RunStageOf(new.status) =
              IF Cardinality(RunApprovers(playbook_runs[r])) + 1 >= Needed(r)
              THEN "approved" ELSE "pending"
    PROVE  RunWorkflow!Next
<1>1. /\ u \in Admins /\ StageMap[r] = "pending" /\ NeededMap[r] = Needed(r)
      /\ OpenerMap[r] = {playbook_runs[r].requested_by} /\ u \notin OpenerMap[r]
      /\ ApproverMap[r] = RunApprovers(playbook_runs[r]) /\ playbook_runs[r].status # "none"
  BY Deciders
<1>2. new.requested_by \in Admins
  BY <1>1 DEF RunInv, RowsInv, RowInv
<1>3. /\ NeededMap' = NeededMap /\ OpenerMap' = OpenerMap
      /\ StageMap' = [StageMap EXCEPT ![r] = RunStageOf(new.status)]
      /\ ApproverMap' = [ApproverMap EXCEPT ![r] = RunApprovers(new)]
  <2>1. OpenerMap[r] = {new.requested_by} /\ NeededMap[r] = Needed(r)
    BY <1>1
  <2>. QED BY <1>2, <2>1, MapsKept
<1>4. /\ StageMap' = [StageMap EXCEPT ![r] =
             IF Cardinality(ApproverMap[r]) + 1 >= NeededMap[r] THEN "approved" ELSE StageMap[r]]
      /\ ApproverMap' = [ApproverMap EXCEPT ![r] = ApproverMap[r] \cup {u}]
  BY <1>1, <1>3
<1>5. u \notin OpenerMap[r] \cup ApproverMap[r]
  BY <1>1
<1>. QED BY <1>1, <1>3, <1>4, <1>5, WorkflowApproves

LEMMA FirstApproves ==
    ASSUME RunInv, QuietInv, NEW h \in Handlers, WriteFirstApproval(h),
           handlers[h].run \in Undisturbed
    PROVE  RunWorkflow!Next
<1>0. PICK x \in Request, r \in Undisturbed, u \in {handlers[h].actor} :
         x = handlers[h] /\ r = x.run /\ u = x.actor
  BY TypedFacts DEF RunInv
<1> DEFINE row == playbook_runs[r]
           new == Partial(row, u)
<1>1. /\ Deciding(x) /\ x.pc = "first" /\ playbook_runs' = [playbook_runs EXCEPT ![r] = new]
      /\ approval_mode' = approval_mode
  BY <1>0 DEF WriteFirstApproval, Deciding
<1>2. /\ u \in Admins /\ x.record = row /\ DecisionInv(x, row, run_approvals, accepted[r])
  BY <1>0, <1>1, Deciders
<1>3. /\ new.status = "PARTIALLY_APPROVED" /\ new.requested_by = row.requested_by
      /\ new.first = u /\ new.second = row.second
  BY TypedFacts DEF RunInv, RunRow, Partial
<1>4. row.first = NoValue /\ row.second = NoValue /\ Needed(r) = 2
  BY <1>0, <1>1, <1>2 DEF DecisionInv, QuietInv, Quiet, QuietRow, PENDING_RUN_STATUSES, Needed
<1>5. /\ RunApprovers(row) = {} /\ RunApprovers(new) = {u}
      /\ Cardinality(RunApprovers(row)) = 0
  BY <1>2, <1>3, <1>4, FS_EmptySet DEF RunApprovers
<1>6. RunStageOf(new.status) = "pending"
  BY <1>3, Stages DEF PENDING_RUN_STATUSES
<1> HIDE DEF new
<1>7. Deciding(handlers[h]) /\ handlers[h].run = r /\ u = handlers[h].actor
  BY <1>0, <1>1
<1>8. /\ new.status # "none" /\ new.requested_by = playbook_runs[r].requested_by
      /\ u \notin RunApprovers(playbook_runs[r])
      /\ RunApprovers(new) = RunApprovers(playbook_runs[r]) \cup {u}
  BY <1>3, <1>5
<1>9. RunStageOf(new.status) =
         IF Cardinality(RunApprovers(playbook_runs[r])) + 1 >= Needed(r)
         THEN "approved" ELSE "pending"
  BY <1>4, <1>5, <1>6
<1> HIDE DEF row
<1>. QED BY <1>1, <1>7, <1>8, <1>9, RowApproves

LEMMA ApplyApproves ==
    ASSUME RunInv, QuietInv, NEW h \in Handlers, ApplyDecision(h),
           handlers[h].run \in Undisturbed
    PROVE  RunWorkflow!Next
<1>0. PICK x \in Request, r \in Undisturbed, u \in {handlers[h].actor} :
         x = handlers[h] /\ r = x.run /\ u = x.actor
  BY TypedFacts DEF RunInv
<1> DEFINE row == playbook_runs[r]
           new == Decided(row, x)
<1>1. /\ Deciding(x) /\ x.pc = "apply" /\ playbook_runs' = [playbook_runs EXCEPT ![r] = new]
      /\ approval_mode' = approval_mode
  BY <1>0 DEF ApplyDecision, Deciding
<1>2. /\ u \in Admins /\ x.record = row /\ DecisionInv(x, row, run_approvals, accepted[r])
  BY <1>0, <1>1, Deciders
<1>3. /\ new.status = x.next_status /\ new.requested_by = row.requested_by
      /\ new.first = (IF row.first = NoValue THEN u ELSE row.first)
      /\ new.second = (IF approval_mode[r] = "TWO_PERSON" THEN u ELSE row.second)
  BY <1>0, TypedFacts DEF RunInv, RunRow, Decided
<1>4. /\ row.second = NoValue /\ approval_mode[r] \in {"MANUAL", "TWO_PERSON"}
      /\ approval_mode[r] = "MANUAL" => row.first = NoValue
      /\ approval_mode[r] = "TWO_PERSON" => row.first # NoValue /\ row.first # u
      /\ x.next_status \in {"DISPATCHED", "FAILED"}
  <2>1. row.status \in PENDING_RUN_STATUSES /\ x.next_status \in {"DISPATCHED", "FAILED"}
    BY <1>1, <1>2 DEF DecisionInv, Reported
  <2>2. QuietRow(r, row) /\ approval_mode[r] # "AUTO"
    BY <1>2, <2>1 DEF QuietInv, Quiet, DecisionInv, RunInv, RowsInv, RowInv
  <2>3. approval_mode[r] \in {"AUTO", "MANUAL", "TWO_PERSON"}
    BY TypedFacts DEF RunInv
  <2>4. approval_mode[r] = "TWO_PERSON" => row.first # NoValue /\ row.first # u
    BY <1>0, <1>1, <1>2 DEF DecisionInv
  <2>. QED BY <2>1, <2>2, <2>3, <2>4 DEF QuietRow, PENDING_RUN_STATUSES
<1>5. /\ u \notin RunApprovers(row) /\ RunApprovers(new) = RunApprovers(row) \cup {u}
      /\ Cardinality(RunApprovers(row)) + 1 >= Needed(r)
  <2>1. CASE approval_mode[r] = "MANUAL"
    <3>1. RunApprovers(row) = {} /\ RunApprovers(new) = {u}
      BY <1>2, <1>3, <1>4, <2>1 DEF RunApprovers
    <3>2. Cardinality(RunApprovers(row)) = 0
      BY <3>1, FS_EmptySet
    <3>. QED BY <2>1, <3>1, <3>2 DEF Needed
  <2>2. CASE approval_mode[r] = "TWO_PERSON"
    <3>1. RunApprovers(row) = {row.first} /\ RunApprovers(new) = {row.first, u}
      BY <1>2, <1>3, <1>4, <2>2 DEF RunApprovers
    <3>2. Cardinality(RunApprovers(row)) = 1
      BY <3>1, FS_Singleton
    <3>. QED BY <1>4, <2>2, <3>1, <3>2 DEF Needed
  <2>. QED BY <1>4, <2>1, <2>2
<1>6. RunStageOf(new.status) = "approved" /\ new.status # "none"
  BY <1>3, <1>4, Stages
<1> HIDE DEF new
<1>7. Deciding(handlers[h]) /\ handlers[h].run = r /\ u = handlers[h].actor
  BY <1>0, <1>1
<1>. QED BY <1>1, <1>3, <1>5, <1>6, <1>7, RowApproves

LEMMA WorkflowStep ==
    RunInv /\ QuietInv /\ [PlaybookNext]_playbookVars =>
        [RunWorkflow!Next]_<<StageMap, NeededMap, OpenerMap, ApproverMap>>
<1> SUFFICES ASSUME RunInv, QuietInv, [PlaybookNext]_playbookVars
             PROVE  \/ RunWorkflow!Next
                    \/ UNCHANGED <<StageMap, NeededMap, OpenerMap, ApproverMap>>
  OBVIOUS
<1>s. ASSUME approval_mode' = approval_mode,
             \A r \in Undisturbed : playbook_runs'[r] = playbook_runs[r]
      PROVE  UNCHANGED <<StageMap, NeededMap, OpenerMap, ApproverMap>>
  <2>1. StageMap' = StageMap
    <3>1. StageMap = [r \in Undisturbed |-> RunStageOf(playbook_runs[r].status)]
      BY DEF StageMap
    <3>2. StageMap' = [r \in Undisturbed |-> RunStageOf(playbook_runs'[r].status)]
      BY DEF StageMap, RunStageOf
    <3>3. \A r \in Undisturbed :
             RunStageOf(playbook_runs'[r].status) = RunStageOf(playbook_runs[r].status)
      BY <1>s
    <3>. QED BY <3>1, <3>2, <3>3
  <2>2. NeededMap' = NeededMap
    <3>1. \A r \in Undisturbed : Needed(r)' = Needed(r)
      BY <1>s DEF Needed
    <3>. QED BY <1>s, <3>1 DEF NeededMap
  <2>3. OpenerMap' = OpenerMap /\ ApproverMap' = ApproverMap
    BY <1>s DEF OpenerMap, ApproverMap, RunApprovers
  <2>. QED BY <2>1, <2>2, <2>3
<1>w. ASSUME NEW h \in Handlers, NEW new, handlers[h].run \notin Undisturbed,
             playbook_runs' = [playbook_runs EXCEPT ![handlers[h].run] = new],
             approval_mode' = approval_mode
      PROVE  UNCHANGED <<StageMap, NeededMap, OpenerMap, ApproverMap>>
  <2>1. \A r \in Undisturbed : playbook_runs'[r] = playbook_runs[r]
    BY <1>w, TypedFacts DEF RunInv
  <2>. QED BY <1>s, <1>w, <2>1
<1>1. ASSUME NEW h \in Handlers, NEW r \in Runs, NEW u \in Admins, NEW b \in Reasons,
             ExecutePlaybook(h, r, u, b) \/ DecideRunRead(h, r, u, b)
      PROVE  UNCHANGED <<StageMap, NeededMap, OpenerMap, ApproverMap>>
  BY <1>1, <1>s DEF ExecutePlaybook, DecideRunRead
<1>2. ASSUME NEW h \in Handlers,
             DispatchTask(h) \/ DispatchRefused(h) \/ DispatchRaises(h) \/ HandlerDies(h)
      PROVE  UNCHANGED <<StageMap, NeededMap, OpenerMap, ApproverMap>>
  BY <1>2, <1>s DEF DispatchTask, DispatchRefused, Dispatched, DispatchRaises, HandlerDies
<1>3. ASSUME NEW h \in Handlers, handlers[h].run \notin Undisturbed,
             \/ InsertRun(h) \/ WriteRunReject(h) \/ WriteFirstApproval(h) \/ ApplyDecision(h)
      PROVE  UNCHANGED <<StageMap, NeededMap, OpenerMap, ApproverMap>>
  <2>1. /\ approval_mode' = approval_mode
        /\ \E new : playbook_runs' = [playbook_runs EXCEPT ![handlers[h].run] = new]
    BY <1>3 DEF InsertRun, WriteRunReject, WriteFirstApproval, ApplyDecision
  <2>. QED BY <1>3, <1>w, <2>1
<1>4. ASSUME NEW h \in Handlers, handlers[h].run \in Undisturbed,
             \/ InsertRun(h) \/ WriteRunReject(h) \/ WriteFirstApproval(h) \/ ApplyDecision(h)
      PROVE  RunWorkflow!Next
  BY <1>4, InsertOpens, RejectRejects, FirstApproves, ApplyApproves
<1>5. CASE UNCHANGED playbookVars
  BY <1>5, <1>s DEF playbookVars
<1>. QED BY <1>1, <1>2, <1>3, <1>4, <1>5 DEF PlaybookNext

LEMMA WorkflowInit == PlaybookInit => RunWorkflow!Init
<1> SUFFICES ASSUME PlaybookInit PROVE RunWorkflow!Init
  OBVIOUS
<1>1. \A r \in Undisturbed : playbook_runs[r] = NoRun
  BY DEF PlaybookInit
<1>2. /\ NoRun.status = "none" /\ NoRun.requested_by = NoValue
      /\ NoRun.first = NoValue /\ NoRun.second = NoValue
  BY DEF NoRun
<1>3. StageMap = [r \in Undisturbed |-> "none"]
  <2>1. \A r \in Undisturbed : RunStageOf(playbook_runs[r].status) = "none"
    BY <1>1, <1>2, Stages
  <2>. QED BY <2>1 DEF StageMap
<1>4. NeededMap = [r \in Undisturbed |-> 0] /\ OpenerMap = [r \in Undisturbed |-> {}]
  BY <1>1, <1>2 DEF NeededMap, OpenerMap
<1>5. ApproverMap = [r \in Undisturbed |-> {}]
  BY <1>1, <1>2 DEF ApproverMap, RunApprovers
<1>. QED BY <1>3, <1>4, <1>5 DEF RunWorkflow!Init, StageMap, NeededMap, OpenerMap, ApproverMap

(* The row of a run whose requests neither overlap nor are cut short        *)
(* follows the approval workflow, whatever happens to the other runs.       *)
THEOREM RunsFollowWorkflow == PlaybookSpec => RunsImplementApproval
<1>1. PlaybookSpec => []RunInv
  BY RunInit, RunNext, PTL DEF PlaybookSpec
<1>2. PlaybookSpec => []QuietInv
  BY <1>1, QuietInit, QuietNext, PTL DEF PlaybookSpec
<1>3. RunInv /\ QuietInv /\ [PlaybookNext]_playbookVars =>
         [RunWorkflow!Next]_<<StageMap, NeededMap, OpenerMap, ApproverMap>>
  BY WorkflowStep
<1>. QED BY <1>1, <1>2, <1>3, WorkflowInit, PTL
     DEF PlaybookSpec, RunsImplementApproval, RunWorkflow!Spec, StageMap, NeededMap, OpenerMap,
         ApproverMap

=============================================================================
