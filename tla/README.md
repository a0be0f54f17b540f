# A TLA+ model of ECIMS 2

ECIMS 2 (`src/ecims2`) is an endpoint control system: a FastAPI server over one
SQLite file, a Python agent on each client machine, a small client GUI, and an
administration console over the server's HTTP API.  This directory holds
specifications of the parts of it whose correctness depends on the order in which
threads, requests, crashes and retries happen, the TLC configurations that check
them and TLAPS proofs of the most important results.

## How the code runs, and what that means for a model

* Every HTTP handler, and every synchronous dependency before it, is a call of its own
  in FastAPI's thread pool, so any number of requests overlap, and one that waits
  between its dependency and its handler holds no thread.  The maintenance scheduler is
  one more thread (`server/app/main.py:160-212`).
* `get_db` (`server/app/db/database.py:128-147`) opens a fresh SQLite connection
  for each block, commits at its end and closes it.  Python's `sqlite3` begins a
  transaction only before the first INSERT, UPDATE or DELETE.  A block that starts
  with a SELECT therefore reads in autocommit mode: another handler can commit
  between that read and the first write of the same block.  From the first write on
  the block is atomic, and a crash or an exception takes back all of it.
* The models follow that rule: a handler is one action for each read it decides on
  and one action for each transaction.  An audit record is an INSERT inside the
  transaction it documents and is left out.  A crash makes the handler vanish.
* UNIQUE columns (`agent_tasks.idempotency_key`, `maintenance_schedule_runs.run_key`,
  `evidence_custody_events(evidence_id, sequence_no)`, ...) are the only mutual
  exclusion there is in the server.
* Files (licence, activation state, agent state, event queue, used allow tokens,
  adapter state) are written by a plain truncate and write that no lock guards.  A
  model lets a writer stop in between; what the reader makes of a cut file is taken
  from its code: the event queue, the used tokens, the adapter state and the activation
  state read as empty, the agent's `load_state` raises.
* The agent is one loop; every call it makes has a timeout and may be lost before or
  after the server acted on it.

## Inventory

| Part | State | Operations | What is hard | What makes it correct |
|---|---|---|---|---|
| Remote action tasks (`remote_action_task_service.py`) | `agent_tasks`, `agent_task_targets` | `create_task`, `sync_after_command_ack` | racing retries, revocation between check and insert, lost synchronisation | one task per key, all agents or none, counters follow targets |
| Command queue (`agent_command_service.py`) | `agent_commands` | `enqueue`, `list_pending`, `ack` | overlapping acknowledgements, at-least-once delivery | in order, never applied without execution |
| Agents (`agent_service.py`) | `agents`, offline alerts | register, revoke, heartbeat, offline check | overlapping checks | one open alert per outage |
| Change control (`change_control_service.py`) | `change_requests` | `create_request`, `decide_request` | decisions from stale rows | two-person rule, decisions final |
| Playbooks (`playbook_service.py`) | `playbooks`, `playbook_runs` | `create_playbook`, `execute_playbook`, `decide_run` | dispatch between read and write, crash in between | no command without its approvals |
| Maintenance (`maintenance_schedule_service.py`, `main.py`) | `maintenance_schedules`, `maintenance_schedule_runs`, the scheduler thread | create, update, `run_due_schedules`; start, stop | two callers, crash inside a run, a stop that gives up | each window once, stages in order, windows do run |
| Feature flags (`feature_flag_service.py`) | `feature_flags`, kill switch in `device_control_state` | list, create, set, kill switch | two copies repaired in separate steps | the flag shown is the one obeyed, agents are told |
| Patch updates (`patch_update_service.py`) | `patch_updates` | upload, apply | backup and mark in separate transactions | a backup from before the patch |
| Device allow tokens (`device_allow_token_service.py`, agent, GUI) | `device_allow_tokens`, used-token files | issue, revoke, consume, unblock | redelivery, revocation racing a use, two programs, a store cut short | one use per token and program, and one more for each loss of the store |
| Unblock requests (`routes.py:2264-2388`) | `device_unblock_requests` | create, review | check-then-act over four transactions | one token per request |
| Users (`user_service.py`, `routes.py`) | `users` | create, change, disable, delete, reset | admission, count and update apart | an administrator remains |
| Break-glass (`break_glass_service.py`) | `break_glass_sessions` | create, list, revoke | expiry that is only marked by a later request | a session ends once |
| Enrollment (`enrollment_service.py`, `routes.py:528-593`) | `enrollment_tokens`, `enrollment_token_uses`, `agents` | issue, revoke, consume, import, enroll, register | three transactions per enrolment, expiry marks that are rolled back, a seat check before them | never more agents than uses, ended tokens stay ended, no more seats than overlapping requests overbook |
| Activation (`licensing_core`, `routes.py`, the licence authority) | licence file, activation state file, verdict in memory | import, request, verify, sign | unlocked files, a verdict renewed from two reads | unlocked only for an answered licence |
| Evidence vault (`evidence_vault_service.py`) | objects, hash chain of custody events | create, append, export | racing appends, a status written from an old read | the chain verifies |
| State backups (`state_backup_service.py`) | bundles, restore jobs | create, restore | tables that change under a restore, cascading deletes | a restore does what its preview said |
| Device adapter and loop (`device_adapter.py`, `device_control.py`, `main.py` of the agent) | Start value, disabled instances, state file | block, unblock, reconcile, commands | several commands that each may fail, then one save | a block can be undone |
| Event delivery (`scanner.py`, `offline_store.py`, `event_service.py`) | snapshot, queue file, baseline, alerts | scan, submit or queue, flush, process, approve | abandoned iterations, crashes between post and save | no event lost or reordered, changes alerted |
| Runtime lock (`runtime.py`) | lock file | acquire, release | stale locks, reused pids | one process per runtime |
| AI scoring, discovery, administration console | | | numeric, pure I/O, presentation | not modelled |

Interactions: playbooks and the maintenance scheduler call `create_task`; tasks feed
the command queue; the agent polls the queue, executes, and acknowledges over HTTP;
an acknowledgement updates the task in a second transaction.  A reviewed unblock
request issues an allow token, which reaches the agent through the same queue and an
operator's GUI through a string.  The kill switch enqueues a command for every agent.
Applying a patch and restoring a backup both go through the backup service.  The
activation gate stands before every other route.

## Modules

| Module | Models |
|---|---|
| `TaskDispatch` | what `create_task` promises: under one key, one body is accepted once and each agent of it is ordered once |
| `RemoteActions` | `create_task`, the agents table, the command queue, the agent's `process_commands`, `ack` and its synchronisation |
| `TaskResults` | `RemoteActions` with a history of the synchronisations of one command that met |
| `Approval` | what an approval workflow promises: an opener, distinct approvers, a final decision |
| `ChangeControl` | change requests; refines `Approval` where decisions do not overlap |
| `PlaybookRuns` | runs of playbooks over `TaskDispatch`; refines `Approval` where requests do not overlap |
| `MaintenanceRuns` | schedules, their runs and the callers of `run_due_schedules`, over `TaskDispatch` |
| `SchedulerThread` | the threads that make those calls, their start and stop |
| `FeatureFlags`, `PatchUpdates`, `FleetMonitor` | flags and kill switch; patches and their backups; heartbeats, offline check, retention |
| `AllowTokens`, `UnblockRequests` | tokens on the server, in the agent and in the GUI; the requests they are issued for |
| `Accounts`, `BreakGlass` | user accounts; emergency sessions |
| `Enrollment`, `Activation` | enrolment tokens and registration; licence and activation with the authority that signs |
| `EvidenceVault`, `StateBackups` | evidence and its hash chain; backups and restores of those tables |
| `DeviceControl`, `EventDelivery`, `RuntimeLock` | the endpoint: adapter and device loop; scanner, queue and server-side baseline; lock file |
| `RemoteActionsProofs`, `PlaybookProofs`, `MaintenanceProofs` | TLAPS proofs about the three modules of tasks (the last also about `SchedulerThread`) |
| `ChangeControlProofs` | proofs about `ChangeControl`, `FeatureFlags`, `PatchUpdates`, `FleetMonitor` |
| `AccessProofs` | proofs about `Accounts`, `BreakGlass`, `UnblockRequests`, `AllowTokens` |
| `AdmissionProofs` | proofs about `Enrollment`, `Activation` |
| `VaultProofs` | proofs about `StateBackups`, and so about `EvidenceVault` |
| `EndpointProofs` | proofs about `RuntimeLock`, `DeviceControl`, `EventDelivery` |
| `MC...` | instances for TLC: constant functions, symmetry, and which components a run holds |

`RemoteActions` is shown to implement `TaskDispatch` (`ImplementsDispatch`), and the
two callers of `create_task` use `TaskDispatch` by INSTANCE instead of its three
statements, so the composition of a caller with the dispatcher rests on that
refinement.  The callers use distinct keys (`playbook-run:<run>`,
`schedule-<id>-<stamp>-stage-<i>`), so they do not meet in the dispatcher.
`StateBackups` extends `EvidenceVault`: restores, appends and exports interleave
statement by statement on the same two tables.

`MCGovernance`, `MCAccess`, `MCEndpoint` and `MCEnrollment` put
several components into one instance.  Their components share no table, file or
thread, so that no interleaving between them can matter; a variable picks the one a
behaviour exercises, and the state space is the sum of theirs and not the product.

### RemoteActions

State: the three tables, one record per create handler and per acknowledgement
handler with the step it stands at, one record per agent loop, and two histories
(`outcomes`, `replies`) that no action reads.  A command is named by its task and
agent; `agent_task_targets` has UNIQUE(task_id, agent_id) and the target holds the
command's id.

| Actions | Code |
|---|---|
| `CreateLookup`, `CreateValidate`, `CreateInsert`, `CreateRefused` | the two SELECTs of `create_task`, its transaction, and the IntegrityError of the loser |
| `Poll`, `Execute`, `SendAck`, `CallFails`, `AgentRestart` | `process_commands`: the batch, one command, the first and the second acknowledgement, lost calls |
| `AckRead`, `AckUpdate`, `AckError` | `ack`: autocommit SELECT, then its transaction |
| `SyncRead`, `SyncWrite`, `SyncLost` | `sync_after_command_ack` after that commit; its exceptions are swallowed |
| `ServerCrash` | in-flight handlers vanish, committed rows stay |

`TaskResults` adds the history `contested`: the tasks for which two acknowledgements of
one command both stood between the read of the target and its write.  There the later
write wins, also over the result of a task that was finished, so FinishedTaskIsStable
is about the other tasks.

### ChangeControl and PlaybookRuns

`DecideRead` is the SELECT with the branch taken on its row; the row stays in the
handler as `record`.  Each `Write...` is the update, by id alone.  In `PlaybookRuns`
the dispatch comes between the two, on its own connection.  A reason stands for the
request hash: two approvers who type different reasons make a key conflict.  A run's
`approval_mode` is that of its playbook, which nothing changes; the initial states
range over all modes.  Three things the models show about contended rows and no
property claims: a rejection and an approval that read the same pending change
request are both written, the later over the earlier; a run that was DISPATCHED can
turn FAILED without a task when a second approver typed another reason; and a
rejection can be written over a run whose command was already sent.

### FeatureFlags, PatchUpdates and FleetMonitor

Every flag request begins with `ensure_builtin_flags`, which reads the kill switch,
reads the flag's row and repairs it, in three steps (`Begin`, `EnsureRead`,
`EnsureWrite`); `set_builtin_kill_switch` does that twice (`EnsureAgain`).  `WriteFlag`
is the one transaction that writes row and switch, `SendObserve` one enqueue.  The
fields `alone`, `turned_on` and `known` are histories.  In `PatchUpdates` the apply
route is `StartApply`, `TakeBackup`, `ReadPatchStatus`, `WriteApplied`; a backup is
its number.  In `FleetMonitor` the first UPDATE of `run_offline_check` opens the
transaction that marks all agents, so that `MarkAgents` is one step, and the look-up
of open alerts lies within it.

### MaintenanceRuns and SchedulerThread

The clock counts windows: window n is due from now = n on, and the first start
strictly later than n is n + 1, which is what `_next_run_after` computes for a daily
and a weekly recurrence.  A schedule has four stages (SAFE_SHUTDOWN_START) or one
(the other modes).  Executors are calls of `run_due_schedules`; admins are
`update_schedule_state` requests, whose read and write are apart.  A call reads at
most as many due schedules as its limit, the configured batch of the scheduler or the
`limit` of the request.  `SchedulerThread` models the loop (`CheckStop`, `TickDone`,
`WaitDone`) and the start and stop around it with the one stop event they share;
`Joined` is the join whose timeout forgets a thread that still runs.

### AllowTokens and UnblockRequests

The agent and the GUI are one record each; a server thread serves a consume request
and may die, answer late, or answer after a revocation.  What it answers does not
matter: the agent goes on to unblock the device also when the server refuses the
token (`device_control.py:155`), which is why `Reply` carries no result.  Each program has its own
store of used tokens because only the agent calls `configure_runtime_storage`.
Expiry may happen at any moment.

The store is loaded and checked in `AgentUse` and `GuiUse` and written in `Save`.
`save_used_allow_tokens` truncates the file and writes it again, and a cut file is read
as `{}`: a program that dies at `Save`, or whose write fails, may leave its store empty
(`StoreCut`), and every token it had spent is accepted again.  The history `losses`
counts these per token and program, and MaxLosses bounds them.  `withdrawn` is the
history of the revocations that came while no consume request was about to write; any
other is overwritten by that request's CONSUMED or EXPIRED.  One GUI window is at work
at a time, and a read of an intact file does not fail.

`UnblockRequests` ends where `AllowTokens` begins:
`ReviewRead`, `ReviewWrite`, `ReviewIssue` and twice `ReviewEnqueue` are the
transactions of one review.

### Accounts and BreakGlass

A request that changes a user is admitted (`Admit`), reads its target (`ReadTarget`),
may count the other administrators (`CountAdmins`) and writes (`WriteUser`).  The
handlers of `BreakGlassService` begin with the UPDATE that marks expired sessions,
so each is one step; only the password check before `create_session` is apart.

### Enrollment

A request to `/agents/enroll` passes the seat check (`Admit`), spends a use
(`Consume`), registers (`Register`) and links its agent to the use (`LinkRead`,
`LinkWrite`); a request to `/agents/register` has the token `None` and only
registers.  Unlike other services, `EnrollmentService` begins every block with an
UPDATE, so each of its functions is one atomic step, and a refused token leaves
nothing behind, not even the EXPIRED mark that refused it (`ConsumeRefused`).  The
link looks the use up by token, client and `agent_id IS NULL`; the name it looks for
is stripped, the one `consume_token_for_enrollment` stored is not.  The constant
`Stripped` says which clients that matters for: the use of a client whose name comes
with blanks is never linked, and its request may be linked to a use of its
namesake.  `agents` carries the token of each agent and `spent` the use a request
inserted; both are histories, the code keeps neither.

`README.md:379` of the repository says that registration is blocked when registered
agents reached `max_agents`.  The check, `require_registration_allowed`, is a call of
its own in the thread pool: a request that has passed it and waits for its handler
holds no thread, and no number of threads bounds how many such requests there are.
`Handlers` bounds the requests in flight in the model and stands for no resource of the
server.  `Pending` are the requests between their count and their INSERT, and the
history `overlap` is the most of them there have been at once: SeatsBounded says that
the licence is overbooked by fewer agents than that, hence not at all by requests that
come one at a time.

### Activation

Each route is a thread that reads, empties and fills one file at a time: `ImportKey`
and `WriteKey` the licence, `OpenState` and `WriteState` the activation state, then
`ReadLicense`, `ReadGate` and `SetVerdict` renew the verdict that the middleware's gate
reads.  A challenge stands for the random values of a request, a token for the claims
the authority signed; `Verify` accepts the token that equals the pending request.
The operator hands a request code on only after it was answered (`issued`).

`untampered` stands for two checks of `load_license` that nothing else in the model
tells apart: the digest of `loader.py` against the one pinned in
`licensing_core/integrity.py`, and the clock against the last run.  At this commit
the pinned digest is not that of the file (its comment asks to update it "during
release hardening when source changes"), so as committed every `load_license` answers
TAMPER_DETECTED; that is the behaviour with `untampered` FALSE.  The model has both
values and lets them change.

### EvidenceVault and StateBackups

A custody event's hash covers all its columns and its row id is never used twice, so
the row id stands for the hash and `prev` for the hash it was chained to.
`StartAppend` reads the status, `ReadLast` the last event, `AppendEvent` is the
transaction in which UNIQUE(evidence_id, sequence_no) decides a race.  A restore reads
the rows of its first table before its transaction (`FirstRestored` writes from them)
and those of the second within it (`Restored`).  The foreign key cascades: a restore
of the objects alone can delete custody events, and its preview, which counts only the
selected tables, does not say so.  Two properties exclude what the code does not
promise.  `history.raced` has the chains that a restore cut while another request was
about to append to them, that it cut from rows it had read before the chain grew, or
that another restore cut after this one had read them.  `Whole` excludes a backup that
was torn because an object was created between the reads of its two tables.

### The endpoint

`DeviceControl` has one action per command of the adapter, each of which may fail, and
one for the save at the end, with a process that may die between any two; `Return`
goes back to where the loop called from.  An iteration of the loop is
`DetectMassStorage`, then `ReportDevice` and `HandleDevice` for each new device,
`DevicesDone`, commands, `EndIteration`.  `EventDelivery` has the other half of the
iteration: `ScanPaths` with the post and its processing by the server, `SubmitOrQueue`,
`StartFlush`, `ReplayEvent`, `SaveRemaining`, `SaveSnapshot`.  `RuntimeLock` separates
the exclusive open, the write of the pid, the stale check and the unlink.  It assumes
POSIX files and a `_pid_alive` that is right; a restart under the same pid is covered,
because a pid is used again after its process is gone.  On Windows `os.kill(pid, 0)`
and unlinking an open file behave otherwise, which is not modelled.

## Runs

All numbers are distinct states found by TLC; each run takes about two minutes or less.

| Run | Instance | States | Checks |
|---|---|---|---|
| RemoteTasks | 2 agents, 1 key, 2 bodies sharing an agent; in three parts 2 creating threads, revocations, 2 acknowledgement threads | 432,909 | CountsMatchTargets, PendingCommandHasOpenTarget, AppliedWasExecuted, FinishedTaskIsStable, ImplementsDispatch |
| RemoteOrder | 1 agent, 2 tasks, 1 acknowledgement thread, fairness | 21,469 | InOrderExecution, CommandIsAcknowledged, TaskFinishes |
| GovernanceRaces | 2 change requests, 2 runs in all pairs of modes, 2 flags, 2 patches, 2 monitored agents; 2 overlapping handlers each, 3 users; 3 scheduler threads | 340,400 | ApprovedByEnough, DispatchNeedsApproval, RunTellsDispatch, SwitchIsKept, BackupPrecedesPatch, OneAlertPerOutage, LoopsAreKnown, ApprovalsImplemented |
| AccessRaces | 2 tokens in the agent's commands, 2 in the operator's hands or 1 in both, 1 consume thread, a store that loses each token once at most; 2 unblock requests and 2 reviewers; 3 users and 2 threads; 2 session keys, 2 bodies, 2 consoles | 418,235 | OncePerProgram, StatusTellsUse, UnblocksOnce, AdminsKept, SessionsEndOnce |
| MaintenanceRaces | a four-stage schedule, 2 executors that may die, 1 administrator, 3 windows | 1,529,196 | StagesInOrder, OneExecutorPerRun, RunTellsStages |
| MaintenanceLive | a four-stage and a one-stage schedule, 2 executors, limits 1 and 2, 2 windows, fairness | 74,190 | DueIsServed, NextRunAdvances |
| EnrollmentRaces | a token of two uses and one of one use, 3 clients (one sends one request at a time, one is another with a blank before its name), 2 requests in flight, 1 seat; 2 licences, 2 threads, 2 challenges | 1,137,094 | EnrolledWithinUses, UseNamesItsAgent, SeatsBounded, UnlockedIsSigned, EndedIsFinal |
| VaultRestores | 2 evidence objects (one served one request at a time), 2 clerks, 3 custody rows, 2 event types, 1 restorer with 4 selections and orders of the tables, 1 backup | 622,836 | ChainVerifies, RowTellsChain, RestoresAsPreviewed |
| Endpoint | 2 devices; 1 file with 2 contents, 3 device events, 1 death; 3 processes at a lock | 1,649,505 | Reversible, ObserveBlocksNothing, DeliveredOrQueued, ReplayedInOrder, OneRunsAtATime, ChangesAreAlerted |

RemoteTasks holds three instances side by side and not their product.  In *retries* two
threads create tasks and no agent polls; in *revocations* agents are revoked and
restored at any moment and one acknowledgement is served at a time; in
*acknowledgements* two are, for one command of one agent or for commands of both; there
the agents take turns to execute, without waiting for each other's handlers, and none is
revoked.  RemoteOrder has one acknowledgement thread, because what it
asks is about the agent and not about overlapping handlers; the safety of both runs is
proved below for any number of threads.

Why the bounds are enough to be of interest: a race needs two handlers on one row; a
task with mixed results needs two agents; a stale batch needs two tasks; the
two-person rule needs a requester and two others; starvation by LIMIT needs one row
more than LIMIT; two administrators who disable each other leave a third to see; a
replay that is interrupted needs two queued events and a third that comes later; a
stale lock that two processes clear needs its dead owner and those two; an abandoned
scheduler loop needs a second start; a licence that is exchanged under its activation
needs two licences and a challenge for each.  The counters `last_task`, `now`,
`issued.rows`, `backups`, `challenges`, `snapshots`, `record.events` and `record.deaths` are
bounded by `MaxTasks`, `Horizon`, `MaxRows`, `MaxBackups`, `MaxChallenges`, `MaxSnapshots`,
`MaxEvents` and `MaxDeaths` in their guards, the losses of a token by `MaxLosses`.  Deadlock checking is off because every
instance comes to an end when its keys, requests or windows are used up.

Some properties hold only where handlers of one row do not overlap.  The server does
not ensure that, so it is a condition, and each model names it:

* the history `contested` (TaskResults): tasks for which two acknowledgements of one
  command, one that timed out and the one that replaced it, met between the read of the
  target and its write.  FinishedTaskIsStable is about the others, with any number of
  threads; every other safety property of RemoteActions has no condition;
* the histories `overlap` (Enrollment), `losses` and `withdrawn` (AllowTokens):
  SeatsBounded, OncePerProgram and RevocationStands say how far the code may miss
  `max_agents`, one use per program, and a revocation;
* the constants `Uncontended` (ChangeControl), `Undisturbed` (PlaybookRuns),
  `Undisputed` (UnblockRequests), `Sequential` (Enrollment) and `QuietEvidence`
  (EvidenceVault): requests, runs, clients and objects that are served one request at
  a time.  ImplementsApproval, the second half of RunTellsDispatch and of
  UnblocksOnce, and the status in RowTellsChain are about these, everything else is
  about all;
* the histories `alone` (Accounts, FeatureFlags) and `raced` (RuntimeLock,
  StateBackups): whether requests did overlap.  AdminsKept, SwitchIsKept,
  OneRunsAtATime and ChainVerifies say what holds of the requests that did not, after
  any overlaps before them;
* the constant `Administered` of MaintenanceRuns: schedules whose state administrators
  change.  NextRunAdvances is about the others.

In each instance the busy rows live beside the quiet ones, so that a property about
quiet rows is checked amid the races on the busy one.  What the conditions exclude can
really happen: without them TLC finds two administrators who disable each other, two
tokens for one unblock request, an overlap that leaves flag and switch apart, a finished
task whose result changes, a chain
that a restore cut under an append, and two processes that each clear the other's lock.

A property with such a condition does not catch the overlap it leaves out: the model
contains it, the code does not prevent it, and the hazard's note in `PROJECT.json` says
so.  That is the case of the overlapping decisions of a change request and of a run, the
overlapping reviews of an unblock request, the administrators who disable each other,
the two processes at one stale lock, a status written from an old read in the vault, a
restore of a table that changed since its preview, flag and switch after an overlap, and
the second scheduler loop, which LoopsAreKnown allows.  TaskFinishes names a lost
synchronisation among its excuses, so it does not catch the loss itself either.

Two checks are narrower than they may look.  MaintenanceLive has no deaths and no
administrator, so that it shows neither the starvation by rows that a death left stuck
(MaintenanceStuck has the death, but one schedule) nor what a reactivation does that
resets `next_run_at` to a window that was run.  DeliveredOrQueued is about the events of
`_submit_or_queue`; the detection events that the agent's `main.py:104-105` posts
directly are lost with a post that raises.

Two more exclusions are about files: Reversible and ObserveBlocksNothing exclude a
process that died within an adapter call (`seen.torn`), because the adapter saves what
it did only afterwards; DeliveredOrQueued excludes events older than a queue file that
was cut short (`record.cut`), because such a file is read as an empty queue.

### What the code does otherwise than it says

Each of these runs checks one statement of the repository and finds a behaviour of
the code that breaks it.

| Run | Statement | Behaviour |
|---|---|---|
| MaintenanceStuck | `test_phase12_background_scheduler.py:82` due windows are run | after a crash between the RUNNING row and the schedule's update, every tick skips the schedule |
| TokenTwice | `ECIMS_User_Manual.md:779` single use | the agent and the GUI each accept the token once |
| EndpointUndecided | `README.md:606` "mass-storage is blocked locally by default even when server is unreachable" | a device found while a post fails is entered into `known_devices` first and never looked at again |

### Fairness

RemoteOrder: the agent's loop never ends (`main.py:92-136`), so polling, executing and
acknowledging are retried for ever, and the server's threads are scheduled.  The
steps are strongly fair because each can be undone by a loss, a restart or a crash
that may recur: the assumption is that not every attempt is hit.  `CallFails` is
weakly fair because every request has a timeout of 15 seconds.  Nothing is assumed of
administrators: a revoked agent, and a synchronisation that was lost, are excused by
the properties and named in them.

MaintenanceLive and MaintenanceStuck: the scheduler thread repeats
`run_due_schedules` after each interval and catches every exception
(`main.py:166-190`), so an executor's steps are weakly fair.  Crashes are not.

The other runs check safety and state no fairness.

## Theorems

| Theorem | Statement |
|---|---|
| `RemoteActionsProofs!TypeCorrect` | Spec => []TypeOK |
| `RemoteActionsProofs!DispatchIsIdempotent` | Spec => []IdempotentDispatch |
| `RemoteActionsProofs!PendingIsOpen` | Spec => []PendingCommandHasOpenTarget |
| `RemoteActionsProofs!AppliedIsExecuted` | Spec => []AppliedWasExecuted |
| `RemoteActionsProofs!DispatchRefined` | Spec => ImplementsDispatch |
| `RemoteActionsProofs!CountsAreRight` | Spec => []CountsMatchTargets |
| `RemoteActionsProofs!ExecutedInOrder` | Spec => []InOrderExecution |
| `RemoteActionsProofs!ResultsAreFinal` | ResultSpec => FinishedTaskIsStable |
| `ChangeControlProofs!ChangeTypeCorrect` | Spec => []TypeOK |
| `ChangeControlProofs!TwoPersonRule` | Spec => []ApprovedByEnough |
| `ChangeControlProofs!ChangesFollowWorkflow` | Spec => ImplementsApproval |
| `ChangeControlProofs!SwitchStaysKept` | FlagSpec => []SwitchIsKept |
| `ChangeControlProofs!PatchKeepsBackup` | PatchSpec => []BackupPrecedesPatch |
| `ChangeControlProofs!AlertedOnce` | FleetSpec => []OneAlertPerOutage |
| `PlaybookProofs!PlaybookTypeCorrect` | PlaybookSpec => []PlaybookTypeOK |
| `PlaybookProofs!RunNeedsApproval` | PlaybookSpec => []DispatchNeedsApproval |
| `PlaybookProofs!RunTellsTruth` | PlaybookSpec => []RunTellsDispatch |
| `PlaybookProofs!RunsFollowWorkflow` | PlaybookSpec => RunsImplementApproval |
| `AdmissionProofs!EnrollmentTypeCorrect` | Spec => []TypeOK |
| `AdmissionProofs!NeverMoreThanUses` | Spec => []EnrolledWithinUses |
| `AdmissionProofs!StatusIsRight` | Spec => []StatusTellsBudget |
| `AdmissionProofs!UsesNameTheirAgents` | Spec => []UseNamesItsAgent |
| `AdmissionProofs!OwnUseIsLinked` | Spec => []LinksOwnUse |
| `AdmissionProofs!SeatsAreBounded` | Spec => []SeatsBounded |
| `AdmissionProofs!EndsAreFinal` | Spec => EndedIsFinal |
| `AdmissionProofs!ActivationTypeCorrect` | ActivationSpec => []ActivationTypeOK |
| `AdmissionProofs!UnlockedOnlyIfSigned` | ActivationSpec => []UnlockedIsSigned |
| `AccessProofs!EndsAreUnique` | GlassSpec => SessionsEndOnce |
| `AccessProofs!LastAdminIsKept` | AccountSpec => AdminsKept |
| `AccessProofs!ReviewUnblocksOnce` | ReviewSpec => []UnblocksOnce |
| `AccessProofs!TokenUnblocksOnce` | Spec => []OncePerProgram |
| `AccessProofs!TokenStatusIsTrue` | Spec => []StatusTellsUse |
| `VaultProofs!VaultTypeCorrect` | Spec => []TypeOK |
| `VaultProofs!ChainsVerify` | Spec => []ChainVerifies |
| `VaultProofs!RowsTellChain` | Spec => []RowTellsChain |
| `VaultProofs!RestoresKeepPreview` | Spec => RestoresAsPreviewed |
| `EndpointProofs!OneProcessRuns` | LockSpec => []OneRunsAtATime |
| `EndpointProofs!BlocksAreReversible` | DeviceSpec => []Reversible |
| `EndpointProofs!ObserveIsHarmless` | DeviceSpec => []ObserveBlocksNothing |
| `EndpointProofs!EventsAreKept` | DeliverySpec => []DeliveredOrQueued |
| `EndpointProofs!EventsKeepTheirOrder` | DeliverySpec => []ReplayedInOrder |
| `EndpointProofs!ChangesRaiseAlerts` | DeliverySpec => ChangesAreAlerted |
| `MaintenanceProofs!NoUnknownLoop` | ThreadSpec => []LoopsAreKnown |
| `MaintenanceProofs!OneCallRunsAWindow` | Spec => []OneExecutorPerRun |
| `MaintenanceProofs!StagesKeepOrder` | Spec => []StagesInOrder |
| `MaintenanceProofs!RunsTellTheirStages` | Spec => []RunTellsStages |
| `MaintenanceProofs!ScheduleAdvances` | Spec => NextRunAdvances |

They hold for every set of agents, keys, bodies, threads, users, tokens, clients,
licences, flags, patches, evidence objects, devices, files, processes, schedules and
windows, and for chains and queues of any length, with these assumptions, each
evaluated by TLC in the runs of its module: `RemoteActionsAssumption` (finitely many
agents, each body names at least one, `None` is no key, body or thread),
`ChangeControlAssumption` (`None` is no request or user), `EnrollmentAssumption` (a
token has at least one use, finitely many requests are in flight at a time, a
sequential client's name has no blanks around it and nobody else's strips to it),
`PlaybookAssumption` (`NoValue` is no run, administrator or reason, and there are
finitely many administrators), `FlagsAssumption` (the kill switch is one of the flags
and of high risk, as `ensure_builtin_flags` inserts it), `ActivationAssumption`, `PatchAssumption` and
`EventsAssumption` (bounds are numbers; no content is the absent one),
`AllowTokensAssumption`, `GlassAssumption`, `LockAssumption` and `SchedulerAssumption`
(the value for "none" is no token or thread, operator, process, thread; the bound on
losses is a number),
`ReviewAssumption` (finitely many reviewers), `VaultAssumption` (the types a request may
append are those the service knows, CREATED apart), `BackupAssumption` (a restore
selects one or both tables of the vault, in any order) and
`MaintenanceRunsAssumption` (one or four stages, a schedule has target agents, as
`create_schedule` demands).

RemoteActions: one inductive invariant `ActionInv`, the conjunction of three:

* `Typed`, the type invariant together with the bounds of what handlers hold;
* `DispatchInv`: rows up to `last_task` carry a key no other row carries and have
  commands and targets exactly for the agents of their body, later rows are empty,
  and every reply names an existing row with its key and body.  IdempotentDispatch
  alone is not inductive because it does not say that a reply and a row agree;
* `AckInv`: a handler past `AckUpdate` has a command that is no longer pending, and
  a handler or a loop that carries applied = True stands for a command with a
  successful outcome.  AppliedWasExecuted alone does not survive `SyncWrite`, which
  writes from a handler's memory.

`DispatchRefined` uses `DispatchInv` to map `CreateInsert` to `Accept`, and every
other step to a stutter.  `TasksMatch` adds that counters equal cardinalities of sets of targets; its
key lemma is that `Refreshed` reestablishes them from any targets, which is why
overlapping synchronisations cannot break them.

`OrderInv`, for InOrderExecution, is about batches rather than executions.  A batch that
holds a command holds every earlier one of its agent that was issued before and not
tried yet (`BatchIsOrdered`): a poll takes all pending commands, an untried one is
pending because only a tried one is acknowledged (`UntriedIsPending`, `AckedIsTried`),
and tasks created after the poll have higher numbers.  `FinishInv` gives
FinishedTaskIsStable of TaskResults: handlers of one command that stand between read and
write together are counted in `contested` (`SyncsCounted`), so for any other task what a
handler has read as SENT is still SENT when it writes (`ReadIsFresh`), and the task still
has an open target and was not finished.  The condition is on what happened and not on
the number of threads; the handlers of different commands overlap freely.

ChangeControl: `ApprovalInv` says that every row an in-flight handler has read is
itself well-formed: its first approver, if any, approved and is not the requester;
the requester and the number required never change.  ApprovedByEnough alone cannot
be inductive, since the write uses that old row and not the current one.  `ChangesFollowWorkflow`
adds `SoloInv`, that the row an uncontended request was read as is its row; reading
is a stutter of the workflow, each write is one step of it, and every step on another
row is a stutter.  In the same module, `PatchInv` says that a request about to mark a patch has a backup that exists,
and an older one than the first mark should the patch be marked by now: the status it
read may be stale, but its backup was taken before that read.  `FlagInv` says what
a request that overlaps no other one knows at each of its steps: the switch and the row
it read are current, and the agents that were there when it turned the switch on are
told or still on its list.  It starts from rows that may disagree, as overlaps and
crashes before it leave them; the repair that begins every request settles them.

Playbooks: `RunInv` joins the row of a run, what each request has read of it, and
the abstract dispatcher.  A request between its dispatch and its write holds the proof
of the approvals in its own memory only, since the row still shows an earlier state;
OrdersInv therefore speaks of who approved (`run_approvals`) and not of the row.
`QuietInv` says of an undisturbed run that a task which its row does not show yet is
about to be written by the one request on it.  The refinement follows from it in the
same way as for change requests.

Enrollment: `Typed` adds to the types what a request in flight remembers: the
use it spent, the agent it registered and the use it is about to write, each with its
token and client.  Four invariants rest on it.  `BudgetInv` counts the requests that
have spent a use and not registered yet together with the agents, because
EnrolledWithinUses alone would not survive `Register`.  `NamedInv` follows from what
the request about to write remembers.  `SeatInv` adds the pending requests to the
agents for the same reason, and says that there are no more of them than `overlap`.  `OwnInv` says that the use a sequential client has spent
is open and the latest under its name, which is why the highest id is the right one
to pick.

Activation: `SignedInv` extends the property from the verdict to everything that can
become one: the activation in the file, and the state and the verdict that each
thread holds, are backed by a signed challenge for their licence.  The licence file
does not occur in it, which is why it does not matter at which moment it is read.

Access: `GlassInv` ties the tokens given out to the rows present.  `AccountInv` says of
a request that is served alone that its actor is still an active administrator (or
that it only changes a password) and that no other request is in flight; the last
administrator is then either the actor, whom `OwnAccountKept` protects, or not the
last.  `ReviewInv` counts, for each request, the reviews that have issued a token and
not sent the command yet, a cardinality, and for an undisputed request that there is
at most one review, which has found it PENDING.  `TokenInv` says of a program that
has saved its token and not unblocked yet that the token is in its own store and that it
has unblocked with it no more often than the store has lost it (`ProgramInv`), and of a
token that is in no store of a program that it was used once for each loss (`UsesInv`):
the mark comes first and only a cut save takes it back, so a redelivered token finds it.
What the server is told of was marked (`WorkerInv`), and no request that is about to
write is about a token whose revocation stands (`WithdrawnInv`).

Endpoint: `LockInv` says, as long as nobody raced, that a running process is the one
in the file and has written it, and that none is running while another is about to
unlink.  `DeviceInv` says for each step of an adapter call what the file, the state
that will be saved and the machine have in common, and for the loop that it waits
while a call is in progress.  `QueueInv` says that the queue is sorted, that it and the
server together have every event that no cut write lost, that what the server got late
comes before what it is still to get late, and that a replay under way has sent exactly
a prefix of the queue (`Replaying`): that
is why saving the rest, stopping after any event, or dying before the save neither loses
an event nor puts a later one before an earlier.  Events that a replay sends twice
arrive in order the first time, which is what ReplayedInOrder counts.  `AlertInv` says
that where a finished scan differs from the saved snapshot, the change has its alert,
or an approver trusted the content (manual mode), or an abandoned iteration told of it;
in AUTO mode that needs the same of the baseline (`BaselineTold`), which the server moves
on with each event and the agent's snapshot follows only at the end.

Vault: `VaultInv` has five parts.  `StoreInv` types the tables and bundles, every event
with a sequence number no larger than its row id.  `KnownInv` says that an id is drawn
once: the object under creation is in no table, no bundle and no other request.
`ChainInv` says `ChainOK` of each chain that was not raced, in the table and in every
bundle: sequence numbers are unique and each event but the first is linked to its
predecessor.  From that a timeline verifies (`ChainVerified`): the event that comes just
before in the order of `_verify_timeline` is the one with the number before.  A restore
that deletes nothing adds the rows of the bundle that the table lacks;
UNIQUE(evidence_id, sequence_no) refuses it when one of them meets another row, and
otherwise the union is a chain (`MergedChain`).  One that deletes leaves the chain of the
bundle, unless it deletes from rows it read too early, and that is what `raced` records.
`RestoreInv` ties a restore's first read to
the tables of now, and `RowInv` the row of an object to its chain's last event.

Maintenance: `ThreadInv` is LoopsAreKnown with its types.  `RunsInv` adds to the runs
what a call knows of the window it holds (`CallOK`: its run is RUNNING, exactly the
stages before the current one are taken), what a run's status tells of its stages
(`WindowOK`) and that no two calls hold one window (`Exclusive`), which is where the
UNIQUE run_key enters.  `AdvanceInv` adds, for schedules no administrator changes, that
a run under way is that of the schedule's next window and that a call which still
looks at a window looks at that one or at one that has a run already.  NextRunAdvances
follows with and without crashes.

Only model-checked: the liveness properties CommandIsAcknowledged, TaskFinishes and
DueIsServed, because TLAPS has no support for fairness and ENABLED, and
ApprovalsImplemented, which is the conjunction of the two workflow refinements over the
specification that holds both components; its halves are the theorems
`ChangesFollowWorkflow` and `RunsFollowWorkflow`.  The three properties of the runs
that find a disagreement are false of the code.  Every other property of a run is the
conclusion of a theorem above.

## What is left out of the modelled parts

* Field validation before the first query (lengths, enumerations, sizes), listing,
  formatting and audit rows.
* LIMIT 50 of `list_pending`, and in the queue the command types other than those of
  tasks and of `DEVICE_UNBLOCK`; they take the same path.
* Disabled playbooks: no operation of the code disables one.
* The time zone arithmetic of `_next_run_after`; a window missed by more than its
  duration is still run late, in the model as in the code.
* Scope matching of allow tokens and `_consume_matching_allow_token`, whose token
  file nothing in the repository fills.
* SQLite's lock timeout, except that an update may fail (`AckError`).
* The TEMP_ALLOW decision of `EventService`, which enqueues a command on a second
  connection while the first holds the write lock: it needs `prior_blocks` in an
  event, and this agent never sends it.
* Of a FULL backup, the fourteen tables besides the two of the vault; they go through
  the same statements with fewer constraints.
* The cap of 10000 rows (`MAX_ROWS_PER_TABLE`, `state_backup_service.py:16,534-537`):
  a backup holds the first 10000 rows of a table and a restore compares with the first
  10000, silently.  The tables of the model are complete, so what is shown of backups
  and restores is shown of tables that do not exceed the cap.
* Expiry of a verification token: it only refuses.

## Not modelled

* AI scoring: numeric training and scoring without state that another part relies on.
* Discovery: network broadcast and mDNS, pure I/O.
* The administration console and the windows of the GUI and of the licence authority:
  presentation over the modelled operations.
* Cryptography: signatures, password hashes, TLS and storage encryption are predicates
  where a decision depends on them.
* Rate and size limits of the middleware: per-request checks with one deque in memory.

Worth doing next: the device policy's rollout counters, TEMP_ALLOW with SQLite's lock
as a resource, and liveness of the offline queue under a server that comes back.
