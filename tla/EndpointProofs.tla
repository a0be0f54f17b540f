---------------------------- MODULE EndpointProofs ----------------------------
(***************************************************************************)
(* The runtime lock, the device adapter and the delivery of events, for    *)
(* any number of processes, pids, devices, files and events.               *)
(*                                                                         *)
(* OneRunsAtATime is about running processes only; LockInv adds what the   *)
(* lock file holds while a process writes, runs or is about to clear it.   *)
(* Reversible and ObserveBlocksNothing speak of the times between two      *)
(* calls of the adapter; DeviceInv adds, for every command within a call,  *)
(* what the machine already shows and the file does not say yet.           *)
(*                                                                         *)
(* QueueInv says of the event queue that it is ordered, holds only what    *)
(* the server has or was deferred, and that a replay is at one place of    *)
(* it.  AlertInv relates the baseline, the saved snapshot and the scan     *)
(* under way to what the server has been told of each path.                *)
(***************************************************************************)
EXTENDS RuntimeLock, DeviceControl, EventDelivery, FiniteSetTheorems, TLAPS

----------------------------------------------------------------------------
(* The lock.                                                               *)

ProcessStates == Acquiring \cup {"gone", "running"}

LockTypeOK ==
    /\ lock_file \in [pid : Pids \cup {NoFile}, written : BOOLEAN]
    /\ processes \in [Pids -> ProcessStates]
    /\ raced \in BOOLEAN

\* Without a race one process acquires at a time, the file is the one of the
\* process that writes or runs, and nothing runs while a lock is cleared.
LockHeldBy(file, at) ==
    /\ \A p, q \in Pids : at[p] \in Acquiring /\ at[q] \in Acquiring => p = q
    /\ \A p \in Pids : at[p] = "running" => file.pid = p /\ file.written
    /\ \A p \in Pids : at[p] = "write" => file.pid = p /\ ~file.written
    /\ \A p, q \in Pids : at[p] = "clear" => at[q] # "running"

LockInv == LockTypeOK /\ (~raced => LockHeldBy(lock_file, processes))

LEMMA ProcessMoves ==
    ASSUME LockTypeOK, NEW p \in Pids, NEW pc \in ProcessStates, Goto(p, pc)
    PROVE  /\ processes' \in [Pids -> ProcessStates]
           /\ \A q \in Pids : processes'[q] = IF q = p THEN pc ELSE processes[q]
BY DEF LockTypeOK, Goto

LEMMA LockStep ==
    ASSUME LockInv, [LockNext]_lockVars
    PROVE  LockInv'
<1> USE LockAssumption DEF ProcessStates, Acquiring
<1>t. LockTypeOK /\ (~raced => LockHeldBy(lock_file, processes))
  BY DEF LockInv
<1>0. CASE UNCHANGED lockVars
  BY <1>0, <1>t DEF lockVars, LockInv, LockTypeOK
<1>1. ASSUME NEW p \in Pids, StartProcess(p) PROVE LockInv'
  <2>1. /\ processes' \in [Pids -> ProcessStates]
        /\ \A q \in Pids : processes'[q] = IF q = p THEN "open" ELSE processes[q]
    BY <1>1, <1>t, ProcessMoves DEF StartProcess
  <2>2. LockTypeOK'
    BY <1>1, <1>t, <2>1 DEF StartProcess, LockTypeOK
  <2>3. ASSUME ~raced' PROVE LockHeldBy(lock_file', processes')
    BY <2>3, <1>1, <1>t, <2>1 DEF StartProcess, LockHeldBy
  <2> QED
    BY <2>2, <2>3 DEF LockInv
<1>2. ASSUME NEW p \in Pids, OpenExclusive(p) PROVE LockInv'
  <2>1. CASE lock_file.pid = NoFile
    <3>1. /\ processes' \in [Pids -> ProcessStates]
          /\ \A q \in Pids : processes'[q] = IF q = p THEN "write" ELSE processes[q]
      BY <1>2, <2>1, <1>t, ProcessMoves DEF OpenExclusive
    <3>a. lock_file' = [pid |-> p, written |-> FALSE] /\ raced' = raced
      BY <1>2, <2>1 DEF OpenExclusive
    <3>2. LockTypeOK'
      BY <3>a, <1>t, <3>1 DEF LockTypeOK
    <3>3. ASSUME ~raced' PROVE LockHeldBy(lock_file', processes')
      BY <3>3, <3>a, <1>2, <2>1, <1>t, <3>1 DEF OpenExclusive, LockHeldBy
    <3> QED
      BY <3>2, <3>3 DEF LockInv
  <2>2. CASE lock_file.pid # NoFile
    <3>1. /\ processes' \in [Pids -> ProcessStates]
          /\ \A q \in Pids : processes'[q] = IF q = p THEN "check" ELSE processes[q]
      BY <1>2, <2>2, <1>t, ProcessMoves DEF OpenExclusive
    <3>2. LockTypeOK'
      BY <1>2, <2>2, <1>t, <3>1 DEF OpenExclusive, LockTypeOK
    <3>3. ASSUME ~raced' PROVE LockHeldBy(lock_file', processes')
      BY <3>3, <1>2, <2>2, <1>t, <3>1 DEF OpenExclusive, LockHeldBy
    <3> QED
      BY <3>2, <3>3 DEF LockInv
  <2> QED
    BY <2>1, <2>2
<1>3. ASSUME NEW p \in Pids, WritePid(p) PROVE LockInv'
  <2>1. /\ processes' \in [Pids -> ProcessStates]
        /\ \A q \in Pids : processes'[q] = IF q = p THEN "running" ELSE processes[q]
    BY <1>3, <1>t, ProcessMoves DEF WritePid
  <2>2. lock_file' \in [pid : Pids \cup {NoFile}, written : BOOLEAN]
    BY <1>3, <1>t DEF WritePid, LockTypeOK
  <2>3. lock_file.pid = p => lock_file'.pid = p /\ lock_file'.written
    BY <1>3, <1>t DEF WritePid, LockTypeOK
  <2>4. ASSUME ~raced' PROVE LockHeldBy(lock_file', processes')
    BY <2>4, <1>3, <1>t, <2>1, <2>3 DEF WritePid, LockHeldBy
  <2> QED
    BY <1>3, <1>t, <2>1, <2>2, <2>4 DEF WritePid, LockInv, LockTypeOK
<1>4. ASSUME NEW p \in Pids, CheckStale(p) PROVE LockInv'
  <2>1. /\ processes' \in [Pids -> ProcessStates]
        /\ \A q \in Pids : processes'[q] =
              IF q = p THEN IF LockIsHeld(lock_file) THEN "gone" ELSE "clear" ELSE processes[q]
    BY <1>4, <1>t, ProcessMoves DEF CheckStale
  <2>2. LockTypeOK'
    BY <1>4, <1>t, <2>1 DEF CheckStale, LockTypeOK
  <2>3. ASSUME ~raced' PROVE LockHeldBy(lock_file', processes')
    BY <2>3, <1>4, <1>t, <2>1 DEF CheckStale, LockHeldBy, LockIsHeld, Alive
  <2> QED
    BY <2>2, <2>3 DEF LockInv
<1>5. ASSUME NEW p \in Pids, ClearStale(p) PROVE LockInv'
  <2>1. /\ processes' \in [Pids -> ProcessStates]
        /\ \A q \in Pids : processes'[q] = IF q = p THEN "open" ELSE processes[q]
    BY <1>5, <1>t, ProcessMoves DEF ClearStale
  <2>2. LockTypeOK'
    BY <1>5, <1>t, <2>1 DEF ClearStale, Unlink, LockTypeOK
  <2>3. ASSUME ~raced' PROVE LockHeldBy(lock_file', processes')
    BY <2>3, <1>5, <1>t, <2>1 DEF ClearStale, LockHeldBy
  <2> QED
    BY <2>2, <2>3 DEF LockInv
<1>6. ASSUME NEW p \in Pids, Exit(p) PROVE LockInv'
  <2>1. /\ processes' \in [Pids -> ProcessStates]
        /\ \A q \in Pids : processes'[q] = IF q = p THEN "gone" ELSE processes[q]
    BY <1>6, <1>t, ProcessMoves DEF Exit
  <2>2. LockTypeOK'
    BY <1>6, <1>t, <2>1 DEF Exit, Unlink, LockTypeOK
  <2>3. ASSUME ~raced' PROVE LockHeldBy(lock_file', processes')
    BY <2>3, <1>6, <1>t, <2>1 DEF Exit, LockHeldBy
  <2> QED
    BY <2>2, <2>3 DEF LockInv
<1>7. ASSUME NEW p \in Pids, Killed(p) PROVE LockInv'
  <2>1. /\ processes' \in [Pids -> ProcessStates]
        /\ \A q \in Pids : processes'[q] = IF q = p THEN "gone" ELSE processes[q]
    BY <1>7, <1>t, ProcessMoves DEF Killed
  <2>2. LockTypeOK'
    BY <1>7, <1>t, <2>1 DEF Killed, LockTypeOK
  <2>3. ASSUME ~raced' PROVE LockHeldBy(lock_file', processes')
    BY <2>3, <1>7, <1>t, <2>1 DEF Killed, LockHeldBy
  <2> QED
    BY <2>2, <2>3 DEF LockInv
<1> QED
  BY <1>0, <1>1, <1>2, <1>3, <1>4, <1>5, <1>6, <1>7 DEF LockNext

(* Processes that never acquired the lock at the same time never run       *)
(* together, for any number of processes and restarts (RuntimeLock).       *)
THEOREM OneProcessRuns == LockSpec => []OneRunsAtATime
<1>1. LockInit => LockInv
  <2> SUFFICES ASSUME LockInit PROVE LockInv
    OBVIOUS
  <2>1. \A p \in Pids : processes[p] = "gone"
    BY DEF LockInit
  <2>2. LockTypeOK
    BY DEF LockInit, LockTypeOK, ProcessStates
  <2>3. LockHeldBy(lock_file, processes)
    BY <2>1 DEF LockHeldBy, Acquiring
  <2> QED
    BY <2>2, <2>3 DEF LockInv
<1>2. LockInv => OneRunsAtATime
  BY DEF LockInv, LockHeldBy, OneRunsAtATime
<1> QED
  BY <1>1, <1>2, LockStep, PTL DEF LockSpec

----------------------------------------------------------------------------
(* The device adapter.                                                     *)

Instances == Devices \cup {NoDevice}
AdapterFiles == [prior_start : {0, DEFAULT, DENIED}, blocked : BOOLEAN,
                 instances : SUBSET Instances]
AdapterCalls == [pc : {"none", "disable", "deny", "enable", "save"}, device : Instances,
                 state : AdapterFiles, todo : SUBSET Instances, ok : BOOLEAN]
MainLoops == [pc : {"down", "rest", "reconciling", "devices", "handle", "blocking",
                    "commands", "commanded"},
              mode : Modes, known : SUBSET Devices, current : SUBSET Devices,
              todo : SUBSET Devices, device : Instances]

DeviceTypeOK ==
    /\ plugged \subseteq Devices
    /\ usb \in [start : {DEFAULT, DENIED}, disabled : SUBSET Instances]
    /\ adapter_file \in AdapterFiles
    /\ call \in AdapterCalls
    /\ loop \in MainLoops
    /\ offline \in BOOLEAN
    /\ seen \in [torn : BOOLEAN, failed : BOOLEAN, decided : SUBSET Devices]

\* A file that accounts for what the machine shows.
Tells(file, machine) ==
    /\ machine.disabled \subseteq file.instances
    /\ machine.start = DENIED => file.blocked /\ file.prior_start = DEFAULT

Clean(machine) == machine.start = DEFAULT /\ machine.disabled = {}

\* What an adapter call has done so far is in its state or in the file.
CallTells(c, file, machine) ==
    /\ file.prior_start # DENIED /\ c.state.prior_start # DENIED
    /\ c.pc \in {"none", "disable", "enable"} => Tells(file, machine)
    /\ c.pc \in {"disable", "deny"} =>
          /\ c.state.prior_start = DEFAULT
          /\ machine.disabled \subseteq c.state.instances
    /\ c.pc = "deny" =>
          /\ ~c.ok => machine.disabled \subseteq file.instances
          /\ machine.start = DENIED => file.blocked /\ file.prior_start = DEFAULT
    /\ c.pc = "enable" /\ c.ok => machine.disabled \subseteq c.todo
    /\ c.pc = "save" => Tells(c.state, machine)

\* In observe mode nothing is blocked, except while an unblock goes on or
\* after one that failed.
ObserveIsClean(c, l, machine, failed) ==
    /\ c.pc = "enable" /\ ~c.ok => failed
    /\ l.mode = "observe" =>
          /\ c.pc \notin {"disable", "deny"}
          /\ c.pc = "save" => Clean(machine)
          /\ l.pc \notin {"down", "reconciling", "commanded"} /\ ~failed => Clean(machine)

\* The loop waits for the adapter's call to return.
LoopWaits(c, l) == c.pc # "none" => l.pc \in {"reconciling", "blocking", "commanded"}

DeviceInv ==
    /\ DeviceTypeOK
    /\ LoopWaits(call, loop)
    /\ ~seen.torn => /\ CallTells(call, adapter_file, usb)
                     /\ ObserveIsClean(call, loop, usb, seen.failed)

LEMMA DeviceStarts == DeviceInit => DeviceInv
<1> SUFFICES ASSUME DeviceInit PROVE DeviceInv
  OBVIOUS
<1> USE DEF DeviceInit, DEFAULT, DENIED, Instances
<1>1. NoState \in AdapterFiles
  BY DEF NoState, AdapterFiles
<1>2. NoCall \in AdapterCalls
  BY <1>1 DEF NoCall, AdapterCalls
<1>3. Down \in MainLoops
  BY DEF Down, MainLoops, Modes
<1>4. DeviceTypeOK
  BY <1>1, <1>2, <1>3 DEF DeviceTypeOK
<1>5. LoopWaits(call, loop)
  BY DEF LoopWaits, NoCall
<1>6. CallTells(call, adapter_file, usb)
  BY DEF CallTells, Tells, NoCall, NoState
<1>7. ObserveIsClean(call, loop, usb, seen.failed)
  BY DEF ObserveIsClean, Clean, NoCall, Down
<1> QED
  BY <1>4, <1>5, <1>6, <1>7 DEF DeviceInv

\* The fields of each variable.
LEMMA DeviceFields ==
    ASSUME DeviceTypeOK
    PROVE  /\ usb.start \in {DEFAULT, DENIED} /\ usb.disabled \subseteq Instances
           /\ adapter_file.prior_start \in {0, DEFAULT, DENIED}
           /\ adapter_file.blocked \in BOOLEAN /\ adapter_file.instances \subseteq Instances
           /\ call.state \in AdapterFiles /\ call.todo \subseteq Instances
           /\ call.device \in Instances /\ call.ok \in BOOLEAN
           /\ call.state.prior_start \in {0, DEFAULT, DENIED}
           /\ call.state.blocked \in BOOLEAN /\ call.state.instances \subseteq Instances
           /\ loop.mode \in Modes /\ loop.device \in Instances
           /\ loop.known \subseteq Devices /\ loop.todo \subseteq Devices
           /\ loop.current \subseteq Devices
           /\ seen.torn \in BOOLEAN /\ seen.failed \in BOOLEAN /\ seen.decided \subseteq Devices
<1>1. call.state \in AdapterFiles
  BY DEF DeviceTypeOK, AdapterCalls
<1> QED
  BY <1>1 DEF DeviceTypeOK, AdapterFiles, AdapterCalls, MainLoops

\* A call of block_device begins.
LEMMA BlockBegins ==
    ASSUME DeviceInv, call.pc = "none", NEW d \in Instances, BlockDevice(d)
    PROVE  /\ call' \in AdapterCalls /\ call'.pc \in {"disable", "deny"} /\ call' # NoCall
           /\ ~seen.torn => CallTells(call', adapter_file, usb)
<1> USE DEF DEFAULT, DENIED
<1> DEFINE state == Recorded(adapter_file)
           pc == IF d = NoDevice THEN "deny" ELSE "disable"
<1>1. /\ state \in AdapterFiles
      /\ state.instances = adapter_file.instances
      /\ state.prior_start = IF adapter_file.prior_start # 0 THEN adapter_file.prior_start
                             ELSE usb.start
  BY DeviceFields DEF DeviceInv, DeviceTypeOK, Recorded, AdapterFiles
<1>2. /\ NoState \in AdapterFiles
      /\ call' = [pc |-> pc, device |-> d, state |-> state, todo |-> {}, ok |-> FALSE]
  BY DEF BlockDevice, NoCall, NoState, AdapterFiles
<1> HIDE DEF state
<1>3. call' \in AdapterCalls /\ call'.pc \in {"disable", "deny"} /\ call' # NoCall
  BY <1>1, <1>2 DEF AdapterCalls, NoCall
<1>4. call'.state = state /\ call'.ok = FALSE
  BY <1>2
<1>5. ASSUME ~seen.torn PROVE CallTells(call', adapter_file, usb)
  BY <1>1, <1>3, <1>4, <1>5, DeviceFields DEF DeviceInv, CallTells, Tells
<1> QED
  BY <1>3, <1>5

\* A call of unblock_device begins.
LEMMA UnblockBegins ==
    ASSUME DeviceInv, call.pc = "none", NEW d \in Instances, UnblockDevice(d)
    PROVE  /\ call' \in AdapterCalls /\ call'.pc = "enable" /\ call'.ok /\ call' # NoCall
           /\ seen' \in [torn : BOOLEAN, failed : BOOLEAN, decided : SUBSET Devices]
           /\ seen'.torn = seen.torn
           /\ ~seen.torn => CallTells(call', adapter_file, usb)
<1> USE DEF DEFAULT, DENIED
<1> DEFINE todo == adapter_file.instances \cup ({d} \ {NoDevice})
<1>1. /\ NoState \in AdapterFiles
      /\ call' = [pc |-> "enable", device |-> d, state |-> adapter_file, todo |-> todo,
                  ok |-> TRUE]
  BY DEF UnblockDevice, NoCall, NoState, AdapterFiles
<1>2. todo \subseteq Instances /\ adapter_file.instances \subseteq todo
  BY DeviceFields DEF DeviceInv
<1>3. adapter_file \in AdapterFiles
  BY DEF DeviceInv, DeviceTypeOK
<1> HIDE DEF todo
<1>4. call' \in AdapterCalls /\ call'.pc = "enable" /\ call'.ok /\ call' # NoCall
  BY <1>1, <1>2, <1>3 DEF AdapterCalls, NoCall
<1>5. call'.state = adapter_file /\ call'.todo = todo
  BY <1>1
<1>6. /\ seen' \in [torn : BOOLEAN, failed : BOOLEAN, decided : SUBSET Devices]
      /\ seen'.torn = seen.torn
  BY DEF UnblockDevice, DeviceInv, DeviceTypeOK
<1>7. ASSUME ~seen.torn PROVE CallTells(call', adapter_file, usb)
  BY <1>2, <1>4, <1>5, <1>7, DeviceFields DEF DeviceInv, CallTells, Tells
<1> QED
  BY <1>4, <1>6, <1>7

\* What reconcile_state leads to.
LEMMA Reconciles ==
    ASSUME DeviceInv, call.pc = "none", NEW m \in Modes, ReconcileState(m)
    PROVE  /\ call' \in AdapterCalls /\ (call'.pc # "none" => call' # NoCall)
           /\ seen' \in [torn : BOOLEAN, failed : BOOLEAN, decided : SUBSET Devices]
           /\ seen'.torn = seen.torn
           /\ ~seen.torn => CallTells(call', adapter_file, usb)
           /\ call'.pc = "enable" => call'.ok
           /\ m = "observe" =>
                 /\ call'.pc \in {"none", "enable"}
                 /\ call'.pc = "none" /\ ~seen.torn => Clean(usb)
<1> DEFINE blocked == adapter_file.blocked \/ adapter_file.instances # {}
<1>1. CASE m = "observe" /\ blocked
  <2>1. UnblockDevice(NoDevice)
    BY <1>1 DEF ReconcileState
  <2> QED
    BY <2>1, UnblockBegins DEF Instances
<1>2. CASE m = "enforce" /\ ~blocked
  <2>1. BlockDevice(NoDevice) /\ seen' = seen
    BY <1>2 DEF ReconcileState
  <2> QED
    BY <1>2, <2>1, BlockBegins DEF Instances, DeviceInv, DeviceTypeOK
<1>3. CASE ~(m = "observe" /\ blocked) /\ ~(m = "enforce" /\ ~blocked)
  <2>1. call' = call /\ seen' = seen
    BY <1>3 DEF ReconcileState
  <2>2. ASSUME m = "observe", ~seen.torn PROVE Clean(usb)
    <3>1. adapter_file.blocked = FALSE /\ adapter_file.instances = {}
      BY <1>3, <2>2, DeviceFields DEF DeviceInv
    <3>2. Tells(adapter_file, usb)
      BY <2>2 DEF DeviceInv, CallTells
    <3> QED
      BY <3>1, <3>2, DeviceFields DEF DeviceInv, Tells, Clean
  <2> QED
    BY <2>1, <2>2 DEF DeviceInv, DeviceTypeOK, NoCall
<1> QED
  BY <1>1, <1>2, <1>3

\* Steps of the loop and of the world around it, without a call.
LEMMA OutsideCalls ==
    ASSUME DeviceInv, call' = call, usb' = usb, adapter_file' = adapter_file,
           plugged' \subseteq Devices, offline' \in BOOLEAN,
           seen' \in [torn : BOOLEAN, failed : BOOLEAN, decided : SUBSET Devices],
           seen'.torn = seen.torn, seen'.failed = seen.failed,
           loop' \in MainLoops, loop'.mode = loop.mode,
           loop' = loop \/ loop.pc \in {"rest", "devices", "handle", "commands"}
    PROVE  DeviceInv'
<1>1. DeviceTypeOK'
  BY DEF DeviceInv, DeviceTypeOK
<1>2. LoopWaits(call', loop')
  BY DEF DeviceInv, LoopWaits
<1>3. ASSUME ~seen.torn PROVE ObserveIsClean(call', loop', usb', seen'.failed)
  BY <1>3 DEF DeviceInv, LoopWaits, ObserveIsClean
<1> QED
  BY <1>1, <1>2, <1>3 DEF DeviceInv

\* The call comes back to the loop.
LEMMA CallReturns ==
    ASSUME DeviceInv, call.pc # "none", Return, plugged' = plugged,
           usb' \in [start : {DEFAULT, DENIED}, disabled : SUBSET Instances],
           adapter_file' \in AdapterFiles,
           seen' \in [torn : BOOLEAN, failed : BOOLEAN, decided : SUBSET Devices],
           seen'.torn = seen.torn,
           ~seen.torn => /\ Tells(adapter_file', usb') /\ adapter_file'.prior_start # DENIED
                         /\ loop.mode = "observe" => Clean(usb') \/ seen'.failed
    PROVE  DeviceInv'
<1> USE DEF DEFAULT, DENIED
<1>1. loop.pc \in {"reconciling", "blocking", "commanded"} /\ loop \in MainLoops
  BY DEF DeviceInv, LoopWaits, DeviceTypeOK
<1>2. Returned(loop.pc) \in {"rest", "devices", "commands"}
  BY <1>1 DEF Returned
<1>3. loop' \in MainLoops /\ loop'.mode = loop.mode /\ loop'.pc = Returned(loop.pc)
  BY <1>1, <1>2 DEF Return, MainLoops
<1>4. /\ call' \in AdapterCalls /\ call'.pc = "none" /\ call'.state.prior_start = 0
      /\ offline' \in BOOLEAN
  <2>1. NoState \in AdapterFiles /\ NoState.prior_start = 0
    BY DEF NoState, AdapterFiles
  <2>2. NoCall \in AdapterCalls /\ NoCall.pc = "none" /\ NoCall.state = NoState
    BY <2>1 DEF NoCall, AdapterCalls, Instances
  <2>3. call' = NoCall /\ offline' = (offline /\ loop.pc # "blocking")
    BY DEF Return
  <2>4. offline' \in BOOLEAN
    BY <2>3, Zenon
  <2> QED
    BY <2>1, <2>2, <2>3, <2>4
<1>5. DeviceTypeOK'
  BY <1>3, <1>4 DEF DeviceInv, DeviceTypeOK
<1>6. LoopWaits(call', loop')
  BY <1>4 DEF LoopWaits
<1>7. ASSUME ~seen'.torn
      PROVE  CallTells(call', adapter_file', usb') /\ ObserveIsClean(call', loop', usb', seen'.failed)
  <2>1. CallTells(call', adapter_file', usb')
    BY <1>4, <1>7 DEF CallTells
  <2>2. ObserveIsClean(call', loop', usb', seen'.failed)
    BY <1>3, <1>4, <1>7 DEF ObserveIsClean
  <2> QED
    BY <2>1, <2>2
<1> QED
  BY <1>5, <1>6, <1>7 DEF DeviceInv

\* A command of a call that goes on.
LEMMA CallGoesOn ==
    ASSUME DeviceInv, call.pc # "none", loop' = loop, plugged' = plugged,
           adapter_file' = adapter_file, offline' = offline,
           usb' \in [start : {DEFAULT, DENIED}, disabled : SUBSET Instances],
           call' \in AdapterCalls,
           seen' \in [torn : BOOLEAN, failed : BOOLEAN, decided : SUBSET Devices],
           seen'.torn = seen.torn,
           ~seen.torn => /\ CallTells(call', adapter_file, usb')
                         /\ ObserveIsClean(call', loop, usb', seen'.failed)
    PROVE  DeviceInv'
BY DEF DeviceInv, DeviceTypeOK, LoopWaits

\* The commands of a call, one by one.
LEMMA BlockStep ==
    ASSUME DeviceInv, DisableInstance \/ DenyService
    PROVE  DeviceInv'
<1> USE DEF DEFAULT, DENIED
<1>t. DeviceTypeOK
  BY DEF DeviceInv
<1>c. ~seen.torn => CallTells(call, adapter_file, usb) /\ ObserveIsClean(call, loop, usb, seen.failed)
  BY DEF DeviceInv
<1>s. seen \in [torn : BOOLEAN, failed : BOOLEAN, decided : SUBSET Devices]
  BY <1>t DEF DeviceTypeOK
<1>1. ASSUME DisableInstance, usb' = usb, call' = [call EXCEPT !.pc = "deny"]
      PROVE  DeviceInv'
  <2>1. /\ call' \in AdapterCalls /\ call'.pc = "deny" /\ call'.ok = call.ok
        /\ call'.state = call.state
    BY <1>1, <1>t DEF DeviceTypeOK, AdapterCalls
  <2>2. ASSUME ~seen.torn
        PROVE  CallTells(call', adapter_file, usb) /\ ObserveIsClean(call', loop, usb, seen.failed)
    BY <1>1, <1>c, <2>1, <2>2 DEF DisableInstance, CallTells, Tells, ObserveIsClean
  <2> QED
    BY <1>1, <1>t, <1>s, <2>1, <2>2, CallGoesOn DEF DisableInstance, DeviceTypeOK
<1>2. ASSUME DisableInstance, usb' = [usb EXCEPT !.disabled = @ \cup {call.device}],
             call' = [call EXCEPT !.pc = "deny", !.ok = TRUE,
                                  !.state.instances = @ \cup {call.device}]
      PROVE  DeviceInv'
  <2> DEFINE disabled == usb.disabled \cup {call.device}
             instances == call.state.instances \cup {call.device}
  <2>1. /\ usb' \in [start : {DEFAULT, DENIED}, disabled : SUBSET Instances]
        /\ usb'.start = usb.start /\ usb'.disabled = disabled
    BY <1>2, <1>t, DeviceFields DEF DeviceTypeOK
  <2>2. /\ call' \in AdapterCalls /\ call'.pc = "deny" /\ call'.ok = TRUE
        /\ call'.state.prior_start = call.state.prior_start
        /\ call'.state.blocked = call.state.blocked
        /\ call'.state.instances = instances
    BY <1>2, <1>t, DeviceFields DEF DeviceTypeOK, AdapterCalls, AdapterFiles
  <2>3. ASSUME ~seen.torn
        PROVE  CallTells(call', adapter_file, usb') /\ ObserveIsClean(call', loop, usb', seen.failed)
    BY <1>2, <1>c, <2>1, <2>2, <2>3 DEF DisableInstance, CallTells, Tells, ObserveIsClean
  <2> QED
    BY <1>2, <1>t, <1>s, <2>1, <2>2, <2>3, CallGoesOn DEF DisableInstance, DeviceTypeOK
<1>3. ASSUME DenyService, usb' \in {usb, [usb EXCEPT !.start = DENIED]},
             call' = [call EXCEPT !.pc = "save", !.state.blocked = TRUE],
             UNCHANGED <<loop, offline>>
      PROVE  DeviceInv'
  <2>1. /\ usb' \in [start : {DEFAULT, DENIED}, disabled : SUBSET Instances]
        /\ usb'.disabled = usb.disabled
    BY <1>3, <1>t, DeviceFields DEF DeviceTypeOK
  <2>2. /\ call' \in AdapterCalls /\ call'.pc = "save" /\ call'.ok = call.ok
        /\ call'.state.prior_start = call.state.prior_start
        /\ call'.state.blocked = TRUE
        /\ call'.state.instances = call.state.instances
    BY <1>3, <1>t, DeviceFields DEF DeviceTypeOK, AdapterCalls, AdapterFiles
  <2>3. ASSUME ~seen.torn
        PROVE  CallTells(call', adapter_file, usb') /\ ObserveIsClean(call', loop, usb', seen.failed)
    BY <1>3, <1>c, <2>1, <2>2, <2>3 DEF DenyService, CallTells, Tells, ObserveIsClean
  <2> QED
    BY <1>3, <1>t, <1>s, <2>1, <2>2, <2>3, CallGoesOn DEF DenyService, DeviceTypeOK
<1>4. ASSUME DenyService, usb' = usb, ~call.ok, Return
      PROVE  DeviceInv'
  <2>1. ASSUME ~seen.torn
        PROVE  /\ Tells(adapter_file, usb) /\ adapter_file.prior_start # DENIED
               /\ loop.mode # "observe"
    BY <1>4, <1>c, <2>1 DEF DenyService, CallTells, Tells, ObserveIsClean
  <2> QED
    BY <1>4, <1>t, <1>s, <2>1, CallReturns DEF DenyService, DeviceTypeOK
<1>5. DisableInstance => \/ usb' = usb /\ call' = [call EXCEPT !.pc = "deny"]
                         \/ /\ usb' = [usb EXCEPT !.disabled = @ \cup {call.device}]
                            /\ call' = [call EXCEPT !.pc = "deny", !.ok = TRUE,
                                           !.state.instances = @ \cup {call.device}]
  BY DEF DisableInstance
<1>6. DenyService =>
         \/ /\ usb' \in {usb, [usb EXCEPT !.start = DENIED]}
            /\ call' = [call EXCEPT !.pc = "save", !.state.blocked = TRUE]
            /\ UNCHANGED <<loop, offline>>
         \/ usb' = usb /\ ~call.ok /\ Return
  BY DEF DenyService
<1> QED
  BY <1>1, <1>2, <1>3, <1>4, <1>5, <1>6

LEMMA UnblockStep ==
    ASSUME DeviceInv, EnableInstance \/ RestoreService
    PROVE  DeviceInv'
<1> USE DEF DEFAULT, DENIED
<1>t. DeviceTypeOK
  BY DEF DeviceInv
<1>c. ~seen.torn => CallTells(call, adapter_file, usb) /\ ObserveIsClean(call, loop, usb, seen.failed)
  BY DEF DeviceInv
<1>s. seen \in [torn : BOOLEAN, failed : BOOLEAN, decided : SUBSET Devices]
  BY <1>t DEF DeviceTypeOK
<1>1. ASSUME EnableInstance, NEW i \in call.todo,
             usb' = [usb EXCEPT !.disabled = @ \ {i}],
             call' = [call EXCEPT !.todo = @ \ {i}], UNCHANGED seen
      PROVE  DeviceInv'
  <2>1. /\ usb' \in [start : {DEFAULT, DENIED}, disabled : SUBSET Instances]
        /\ usb'.start = usb.start /\ usb'.disabled = usb.disabled \ {i}
    BY <1>1, <1>t, DeviceFields DEF DeviceTypeOK
  <2>2. /\ call' \in AdapterCalls /\ call'.pc = call.pc /\ call'.ok = call.ok
        /\ call'.state = call.state /\ call'.todo = call.todo \ {i}
    BY <1>1, <1>t, DeviceFields DEF DeviceTypeOK, AdapterCalls
  <2>3. ASSUME ~seen.torn
        PROVE  CallTells(call', adapter_file, usb') /\ ObserveIsClean(call', loop, usb', seen.failed)
    BY <1>1, <1>c, <2>1, <2>2, <2>3 DEF EnableInstance, CallTells, Tells, ObserveIsClean, Clean
  <2> QED
    BY <1>1, <1>t, <1>s, <2>1, <2>2, <2>3, CallGoesOn DEF EnableInstance, DeviceTypeOK
<1>2. ASSUME EnableInstance, NEW i \in call.todo, usb' = usb,
             call' = [call EXCEPT !.todo = @ \ {i}, !.ok = FALSE],
             seen' = [seen EXCEPT !.failed = TRUE]
      PROVE  DeviceInv'
  <2>1. /\ seen' \in [torn : BOOLEAN, failed : BOOLEAN, decided : SUBSET Devices]
        /\ seen'.torn = seen.torn /\ seen'.failed = TRUE
    BY <1>2, <1>s
  <2>2. /\ call' \in AdapterCalls /\ call'.pc = call.pc /\ call'.ok = FALSE
        /\ call'.state = call.state /\ call'.todo = call.todo \ {i}
    BY <1>2, <1>t, DeviceFields DEF DeviceTypeOK, AdapterCalls
  <2>3. ASSUME ~seen.torn
        PROVE  CallTells(call', adapter_file, usb) /\ ObserveIsClean(call', loop, usb, TRUE)
    BY <1>2, <1>c, <2>2, <2>3 DEF EnableInstance, CallTells, Tells, ObserveIsClean
  <2> QED
    BY <1>2, <1>t, <2>1, <2>2, <2>3, CallGoesOn DEF EnableInstance, DeviceTypeOK
<1>3. ASSUME RestoreService, ~call.ok, usb' = [usb EXCEPT !.start = PriorStart(call.state)],
             Return, UNCHANGED seen
      PROVE  DeviceInv'
  <2>1. /\ usb' \in [start : {DEFAULT, DENIED}, disabled : SUBSET Instances]
        /\ usb'.start = PriorStart(call.state) /\ usb'.disabled = usb.disabled
    BY <1>3, <1>t, DeviceFields DEF DeviceTypeOK, PriorStart
  <2>2. ASSUME ~seen.torn
        PROVE  /\ Tells(adapter_file, usb') /\ adapter_file.prior_start # DENIED
               /\ seen.failed
    BY <1>3, <1>t, <1>c, <2>1, <2>2, DeviceFields
       DEF RestoreService, CallTells, Tells, ObserveIsClean, PriorStart
  <2> QED
    BY <1>3, <1>t, <1>s, <2>1, <2>2, CallReturns DEF RestoreService, DeviceTypeOK
<1>4. ASSUME RestoreService, call.ok, usb' = [usb EXCEPT !.start = PriorStart(call.state)],
             call' = [call EXCEPT !.pc = "save", !.state = Unblocked(@)],
             UNCHANGED <<loop, offline, seen>>
      PROVE  DeviceInv'
  <2>1. /\ usb' \in [start : {DEFAULT, DENIED}, disabled : SUBSET Instances]
        /\ usb'.start = PriorStart(call.state) /\ usb'.disabled = usb.disabled
    BY <1>4, <1>t, DeviceFields DEF DeviceTypeOK, PriorStart
  <2>2. /\ Unblocked(call.state) \in AdapterFiles
        /\ Unblocked(call.state).prior_start = call.state.prior_start
        /\ Unblocked(call.state).instances = {}
    BY <1>t, DeviceFields DEF Unblocked, AdapterFiles
  <2>3. /\ call' \in AdapterCalls /\ call'.pc = "save"
        /\ call'.state = Unblocked(call.state)
    BY <1>4, <1>t, <2>2 DEF DeviceTypeOK, AdapterCalls
  <2>4. ASSUME ~seen.torn
        PROVE  CallTells(call', adapter_file, usb') /\ ObserveIsClean(call', loop, usb', seen.failed)
    <3>1. usb'.disabled = {} /\ usb'.start = DEFAULT
      BY <1>4, <1>t, <1>c, <2>1, <2>4, DeviceFields DEF RestoreService, CallTells, PriorStart
    <3> QED
      BY <3>1, <2>2, <2>3, <2>4, <1>c DEF CallTells, Tells, ObserveIsClean, Clean
  <2> QED
    BY <1>4, <1>t, <1>s, <2>1, <2>3, <2>4, CallGoesOn DEF RestoreService, DeviceTypeOK
<1>5. ASSUME RestoreService, Return, seen' = [seen EXCEPT !.failed = TRUE], usb' = usb
      PROVE  DeviceInv'
  <2>1. /\ seen' \in [torn : BOOLEAN, failed : BOOLEAN, decided : SUBSET Devices]
        /\ seen'.torn = seen.torn /\ seen'.failed = TRUE
    BY <1>5, <1>s
  <2>2. ASSUME ~seen.torn
        PROVE  Tells(adapter_file, usb) /\ adapter_file.prior_start # DENIED
    BY <1>5, <1>c, <2>2 DEF RestoreService, CallTells
  <2> QED
    BY <1>5, <1>t, <2>1, <2>2, CallReturns DEF RestoreService, DeviceTypeOK
<1>6. EnableInstance => \E i \in call.todo :
          \/ /\ usb' = [usb EXCEPT !.disabled = @ \ {i}]
             /\ call' = [call EXCEPT !.todo = @ \ {i}]
             /\ UNCHANGED seen
          \/ /\ usb' = usb
             /\ call' = [call EXCEPT !.todo = @ \ {i}, !.ok = FALSE]
             /\ seen' = [seen EXCEPT !.failed = TRUE]
  BY DEF EnableInstance
<1>7. RestoreService =>
          \/ /\ usb' = [usb EXCEPT !.start = PriorStart(call.state)] /\ UNCHANGED seen
             /\ \/ /\ call.ok /\ call' = [call EXCEPT !.pc = "save", !.state = Unblocked(@)]
                   /\ UNCHANGED <<loop, offline, seen>>
                \/ ~call.ok /\ Return
          \/ Return /\ seen' = [seen EXCEPT !.failed = TRUE] /\ usb' = usb
  BY DEF RestoreService
<1> QED
  BY <1>1, <1>2, <1>3, <1>4, <1>5, <1>6, <1>7

LEMMA SaveStep ==
    ASSUME DeviceInv, SaveState
    PROVE  DeviceInv'
<1>1. DeviceTypeOK /\ call.state \in AdapterFiles
  BY DeviceFields DEF DeviceInv
<1>2. ASSUME ~seen.torn
      PROVE  /\ Tells(call.state, usb) /\ call.state.prior_start # DENIED
             /\ loop.mode = "observe" => Clean(usb)
  BY <1>2 DEF DeviceInv, SaveState, CallTells, ObserveIsClean
<1>3. /\ call.pc # "none" /\ Return /\ UNCHANGED <<plugged, usb, seen>>
      /\ adapter_file' = call.state
  BY DEF SaveState
<1> QED
  BY <1>1, <1>2, <1>3, CallReturns DEF DeviceTypeOK

\* The actions of the loop that call the adapter.
LEMMA CallingStep ==
    ASSUME DeviceInv,
           \/ \E m \in Modes : BootAgent(m) \/ SetMode(m)
           \/ \E d \in Devices \cup {NoDevice} : Unblock(d)
           \/ HandleDevice
    PROVE  DeviceInv'
<1>t. DeviceTypeOK
  BY DEF DeviceInv
<1>q. loop.pc \in {"down", "commands", "handle"} => call.pc = "none"
  BY DEF DeviceInv, LoopWaits
<1>1. ASSUME NEW m \in Modes, BootAgent(m) PROVE DeviceInv'
  <2> DEFINE pc == IF call' = NoCall THEN "rest" ELSE "reconciling"
  <2>1. ReconcileState(m) /\ call.pc = "none" /\ UNCHANGED <<plugged, usb, adapter_file>>
    BY <1>1, <1>q DEF BootAgent
  <2>2. /\ loop' \in MainLoops /\ loop'.mode = m /\ loop'.pc = pc /\ offline' \in BOOLEAN
    BY <1>1 DEF BootAgent, Down, MainLoops, Instances
  <2>3. DeviceTypeOK'
    BY <1>t, <2>1, <2>2, Reconciles DEF DeviceTypeOK
  <2>4. LoopWaits(call', loop')
    BY <2>1, <2>2, Reconciles DEF LoopWaits
  <2>5. ASSUME ~seen'.torn
        PROVE  CallTells(call', adapter_file', usb') /\ ObserveIsClean(call', loop', usb', seen'.failed)
    BY <2>1, <2>2, <2>5, Reconciles DEF ObserveIsClean, NoCall
  <2> QED
    BY <2>3, <2>4, <2>5 DEF DeviceInv
<1>2. ASSUME NEW m \in Modes, SetMode(m) PROVE DeviceInv'
  <2> DEFINE pc == IF call' = NoCall THEN "commands" ELSE "commanded"
  <2>1. ReconcileState(m) /\ call.pc = "none" /\ UNCHANGED <<plugged, usb, adapter_file, offline>>
    BY <1>2, <1>q DEF SetMode
  <2>2. /\ loop' \in MainLoops /\ loop'.mode = m /\ loop'.pc = pc
    BY <1>2, <1>t DEF SetMode, DeviceTypeOK, MainLoops
  <2>3. DeviceTypeOK'
    BY <1>t, <2>1, <2>2, Reconciles DEF DeviceTypeOK
  <2>4. LoopWaits(call', loop')
    BY <2>1, <2>2, Reconciles DEF LoopWaits
  <2>5. ASSUME ~seen'.torn
        PROVE  CallTells(call', adapter_file', usb') /\ ObserveIsClean(call', loop', usb', seen'.failed)
    BY <2>1, <2>2, <2>5, Reconciles DEF ObserveIsClean, NoCall
  <2> QED
    BY <2>3, <2>4, <2>5 DEF DeviceInv
<1>3. ASSUME NEW d \in Devices \cup {NoDevice}, Unblock(d) PROVE DeviceInv'
  <2>1. /\ UnblockDevice(d) /\ call.pc = "none" /\ d \in Instances
        /\ UNCHANGED <<plugged, usb, adapter_file, offline>>
    BY <1>3, <1>q DEF Unblock, Instances
  <2>2. loop' \in MainLoops /\ loop'.mode = loop.mode /\ loop'.pc = "commanded"
    BY <1>3, <1>t DEF Unblock, DeviceTypeOK, MainLoops
  <2>3. DeviceTypeOK'
    BY <1>t, <2>1, <2>2, UnblockBegins DEF DeviceTypeOK
  <2>4. LoopWaits(call', loop')
    BY <2>2 DEF LoopWaits
  <2>5. ASSUME ~seen'.torn
        PROVE  CallTells(call', adapter_file', usb') /\ ObserveIsClean(call', loop', usb', seen'.failed)
    BY <2>1, <2>2, <2>5, UnblockBegins DEF ObserveIsClean
  <2> QED
    BY <2>3, <2>4, <2>5 DEF DeviceInv
<1>4. ASSUME HandleDevice PROVE DeviceInv'
  <2>1. /\ seen' \in [torn : BOOLEAN, failed : BOOLEAN, decided : SUBSET Devices]
        /\ seen'.torn = seen.torn /\ seen'.failed = seen.failed
    BY <1>4, <1>t DEF HandleDevice, DeviceTypeOK
  <2>2. loop.pc = "handle" /\ UNCHANGED <<plugged, usb, adapter_file>>
    BY <1>4 DEF HandleDevice
  <2>3. CASE /\ loop' = [loop EXCEPT !.pc = "devices", !.device = NoDevice]
             /\ offline' = FALSE /\ call' = call
    <3>1. loop' \in MainLoops /\ loop'.mode = loop.mode
      BY <2>3, <1>t DEF DeviceTypeOK, MainLoops, Instances
    <3> QED
      BY <1>t, <2>1, <2>2, <2>3, <3>1, OutsideCalls DEF DeviceTypeOK
  <2>4. CASE /\ loop.mode = "enforce" /\ BlockDevice(loop.device)
             /\ loop' = [loop EXCEPT !.pc = "blocking", !.device = NoDevice]
             /\ offline' = offline
    <3>1. loop' \in MainLoops /\ loop'.mode = "enforce" /\ loop'.pc = "blocking"
      BY <2>4, <1>t DEF DeviceTypeOK, MainLoops, Instances
    <3>2. loop.device \in Instances /\ call.pc = "none"
      BY <1>t, <1>q, <2>2, DeviceFields
    <3>3. /\ call' \in AdapterCalls /\ call'.pc \in {"disable", "deny"}
          /\ ~seen.torn => CallTells(call', adapter_file, usb)
      BY <2>4, <3>2, BlockBegins
    <3>4. DeviceTypeOK'
      BY <1>t, <2>1, <2>2, <2>4, <3>1, <3>3 DEF DeviceTypeOK
    <3>5. LoopWaits(call', loop')
      BY <3>1 DEF LoopWaits
    <3>6. ASSUME ~seen'.torn
          PROVE  CallTells(call', adapter_file', usb') /\ ObserveIsClean(call', loop', usb', seen'.failed)
      BY <2>1, <2>2, <3>1, <3>3, <3>6 DEF ObserveIsClean
    <3> QED
      BY <3>4, <3>5, <3>6 DEF DeviceInv
  <2> QED
    BY <1>4, <2>3, <2>4 DEF HandleDevice
<1> QED
  BY <1>1, <1>2, <1>3, <1>4

LEMMA AgentStopsStep ==
    ASSUME DeviceInv, AgentStops
    PROVE  DeviceInv'
<1>t. DeviceTypeOK
  BY DEF DeviceInv
<1>1. /\ loop' = Down /\ call' = NoCall /\ UNCHANGED <<plugged, usb, offline>>
      /\ adapter_file' \in {adapter_file, NoState}
  BY DEF AgentStops
<1>2. NoState \in AdapterFiles
  BY DEF NoState, AdapterFiles
<1>3. NoCall \in AdapterCalls /\ NoCall.pc = "none" /\ NoCall.state.prior_start = 0
  BY <1>2 DEF NoCall, NoState, AdapterCalls, Instances
<1>4. Down \in MainLoops /\ Down.pc = "down"
  BY DEF Down, MainLoops, Modes, Instances
<1>5. /\ seen' \in [torn : BOOLEAN, failed : BOOLEAN, decided : SUBSET Devices]
      /\ seen'.torn = (seen.torn \/ call # NoCall) /\ seen'.failed = seen.failed
  BY <1>t DEF AgentStops, DeviceTypeOK
<1>6. DeviceTypeOK'
  BY <1>t, <1>1, <1>2, <1>3, <1>4, <1>5 DEF DeviceTypeOK
<1>7. LoopWaits(call', loop')
  BY <1>1, <1>3 DEF LoopWaits
<1>8. ASSUME ~seen'.torn
      PROVE  CallTells(call', adapter_file', usb') /\ ObserveIsClean(call', loop', usb', seen'.failed)
  <2>1. ~seen.torn /\ call = NoCall
    BY <1>5, <1>8
  <2>2. adapter_file' = adapter_file
    BY <2>1, <1>3 DEF AgentStops
  <2>3. CallTells(call', adapter_file', usb')
    BY <1>1, <2>1, <2>2 DEF DeviceInv
  <2>4. ObserveIsClean(call', loop', usb', seen'.failed)
    BY <1>1, <1>3, <1>4 DEF ObserveIsClean
  <2> QED
    BY <2>3, <2>4
<1> QED
  BY <1>6, <1>7, <1>8 DEF DeviceInv

\* The actions that neither call the adapter nor change the machine.
LEMMA QuietStep ==
    ASSUME DeviceInv,
           \/ \E d \in Devices : Plug(d) \/ Unplug(d) \/ ReportDevice(d)
           \/ DetectMassStorage \/ DevicesDone \/ EndIteration \/ ContactGrowsOld
    PROVE  DeviceInv'
<1>t. DeviceTypeOK
  BY DEF DeviceInv
<1>1. ASSUME NEW d \in Devices, Plug(d) \/ Unplug(d) PROVE DeviceInv'
  <2>1. /\ seen' \in [torn : BOOLEAN, failed : BOOLEAN, decided : SUBSET Devices]
        /\ seen'.torn = seen.torn /\ seen'.failed = seen.failed
    BY <1>1, <1>t DEF Plug, Unplug, DeviceTypeOK
  <2> QED
    BY <1>1, <1>t, <2>1, OutsideCalls DEF Plug, Unplug, DeviceTypeOK
<1>2. ASSUME NEW d \in Devices, ReportDevice(d) PROVE DeviceInv'
  <2> DEFINE known == [loop EXCEPT !.known = @ \cup {d}, !.todo = @ \ {d}]
  <2>1. known \in MainLoops /\ known.mode = loop.mode /\ known.pc = loop.pc
    BY <1>t, DeviceFields DEF DeviceTypeOK, MainLoops
  <2>2. loop' = [known EXCEPT !.pc = "handle", !.device = d] \/ loop' = Abandoned(known)
    BY <1>2 DEF ReportDevice
  <2> HIDE DEF known
  <2>3. loop' \in MainLoops /\ loop'.mode = loop.mode
    BY <2>1, <2>2 DEF Abandoned, MainLoops, Instances
  <2> QED
    BY <1>2, <1>t, <2>3, OutsideCalls DEF ReportDevice, DeviceTypeOK
<1>3. ASSUME DetectMassStorage PROVE DeviceInv'
  <2>1. loop' \in MainLoops /\ loop'.mode = loop.mode
    BY <1>3, <1>t, DeviceFields DEF DetectMassStorage, DeviceTypeOK, MainLoops
  <2> QED
    BY <1>3, <1>t, <2>1, OutsideCalls DEF DetectMassStorage, DeviceTypeOK
<1>4. ASSUME DevicesDone PROVE DeviceInv'
  <2>1. loop' \in MainLoops /\ loop'.mode = loop.mode
    BY <1>4, <1>t, DeviceFields DEF DevicesDone, DeviceTypeOK, MainLoops
  <2> QED
    BY <1>4, <1>t, <2>1, OutsideCalls DEF DevicesDone, DeviceTypeOK
<1>5. ASSUME EndIteration PROVE DeviceInv'
  <2>1. loop' \in MainLoops /\ loop'.mode = loop.mode
    BY <1>5, <1>t, DeviceFields DEF EndIteration, Abandoned, DeviceTypeOK, MainLoops
  <2> QED
    BY <1>5, <1>t, <2>1, OutsideCalls DEF EndIteration, DeviceTypeOK
<1>6. ASSUME ContactGrowsOld PROVE DeviceInv'
  BY <1>6, <1>t, OutsideCalls DEF ContactGrowsOld, DeviceTypeOK
<1> QED
  BY <1>1, <1>2, <1>3, <1>4, <1>5, <1>6

LEMMA DeviceStep ==
    ASSUME DeviceInv, [DeviceNext]_deviceVars
    PROVE  DeviceInv'
<1>0. CASE UNCHANGED deviceVars
  BY <1>0 DEF deviceVars, DeviceInv, DeviceTypeOK
<1>1. CASE ApplySecureKey
  <2>1. /\ usb' \in [start : {DEFAULT, DENIED}, disabled : SUBSET Instances]
        /\ usb'.start = DEFAULT /\ usb'.disabled = usb.disabled
    BY <1>1 DEF ApplySecureKey, DeviceInv, DeviceTypeOK, DEFAULT, DENIED
  <2>2. UNCHANGED <<plugged, adapter_file, call, loop, offline, seen>>
    BY <1>1 DEF ApplySecureKey
  <2>3. DeviceTypeOK' /\ LoopWaits(call', loop')
    BY <2>1, <2>2 DEF DeviceInv, DeviceTypeOK
  <2>4. ASSUME ~seen'.torn
        PROVE  CallTells(call', adapter_file', usb') /\ ObserveIsClean(call', loop', usb', seen'.failed)
    BY <2>1, <2>2, <2>4 DEF DeviceInv, CallTells, Tells, ObserveIsClean, Clean, DEFAULT, DENIED
  <2> QED
    BY <2>3, <2>4 DEF DeviceInv
<1> QED
  BY <1>0, <1>1, BlockStep, UnblockStep, SaveStep, CallingStep, AgentStopsStep, QuietStep
     DEF DeviceNext

LEMMA DeviceInvariance == DeviceSpec => []DeviceInv
BY DeviceStarts, DeviceStep, PTL DEF DeviceSpec

(* Between two calls of the adapter its file names every instance it       *)
(* disabled and the Start value to restore, for any number of devices and  *)
(* any pattern of failed commands (WindowsDeviceAdapter).                  *)
THEOREM BlocksAreReversible == DeviceSpec => []Reversible
<1>1. DeviceInv => Reversible
  BY DEF DeviceInv, CallTells, Tells, Reversible, NoCall
<1> QED
  BY <1>1, DeviceInvariance, PTL

(* An agent in observe mode has taken back what it blocked, when its last  *)
(* unblock worked and it never died within a call (reconcile_state).       *)
THEOREM ObserveIsHarmless == DeviceSpec => []ObserveBlocksNothing
<1>1. DeviceInv => ObserveBlocksNothing
  <2> SUFFICES ASSUME DeviceInv, loop.mode = "observe", ~seen.torn, ~seen.failed,
                      loop.pc \notin {"down", "reconciling", "commanded"}
               PROVE  usb = [start |-> DEFAULT, disabled |-> {}]
    BY DEF ObserveBlocksNothing
  <2>1. Clean(usb) /\ usb \in [start : {DEFAULT, DENIED}, disabled : SUBSET Instances]
    BY DEF DeviceInv, DeviceTypeOK, ObserveIsClean
  <2> QED
    BY <2>1 DEF Clean
<1> QED
  BY <1>1, DeviceInvariance, PTL

----------------------------------------------------------------------------
(* Events on their way to the server.                                      *)

AgentStates == [pc : {"down", "rest", "submit", "flush", "save"},
                scan : [Paths -> Hashes \cup {Absent}], replay : Seq(Nat), sent : SUBSET Nat]
Records == [events : Nat, deaths : Nat, cut : Nat, received : Seq(Nat), deferred : SUBSET Nat,
            alerts : SUBSET Paths, trusted : SUBSET Paths, unsaved : SUBSET Paths]

DeliveryTypeOK ==
    /\ files \in [Paths -> Hashes \cup {Absent}]
    /\ agent \in AgentStates
    /\ queue \in Seq(Nat)
    /\ record \in Records

Got(rec) == ToSet(rec.received)

\* The queue holds, in the order of their numbers, events that were submitted;
\* the server has got each of them, or it is one of the deferred.
QueueOK(q, rec) ==
    /\ \A i, j \in DOMAIN q : i < j => q[i] < q[j]
    /\ \A i \in DOMAIN q : q[i] \in 1..rec.events /\ q[i] \in rec.deferred \cup Got(rec)
    /\ Got(rec) \subseteq 1..rec.events
    /\ rec.deferred \subseteq 1..rec.events

Kept(q, rec) ==
    \A e \in 1..rec.events : e > rec.cut => e \in Got(rec) \cup ToSet(q)

\* What came late came in order, and before all that is still to come late.
InOrder(q, rec) ==
    /\ \A i, j \in DOMAIN rec.received :
          i < j /\ {rec.received[i], rec.received[j]} \subseteq rec.deferred =>
              rec.received[i] < rec.received[j]
    /\ \A e \in Got(rec), i \in DOMAIN q :
          e \in rec.deferred /\ q[i] \in rec.deferred /\ q[i] \notin Got(rec) => e < q[i]

\* A replay has sent the first k events of the queue, and the server has them;
\* it goes on with the next one, unless it has stopped.
Replaying(k, x, q, rec) ==
    /\ x.sent = {q[i] : i \in 1..k}
    /\ x.sent \subseteq Got(rec)
    /\ \/ x.replay = <<>>
       \/ /\ Len(x.replay) = Len(q) - k
          /\ \A i \in DOMAIN x.replay : x.replay[i] = q[k + i]

ReplayOK(x, q, rec) ==
    IF x.pc = "flush" THEN \E k \in 0..Len(q) : Replaying(k, x, q, rec) ELSE x.sent = {}

QueueInv ==
    /\ DeliveryTypeOK
    /\ QueueOK(queue, record)
    /\ Kept(queue, record)
    /\ InOrder(queue, record)
    /\ ReplayOK(agent, queue, record)

LEMMA AppendedSet ==
    ASSUME NEW s \in Seq(Nat), NEW e \in Nat
    PROVE  /\ ToSet(Append(s, e)) = ToSet(s) \cup {e}
           /\ Append(s, e) \in Seq(Nat)
           /\ DOMAIN Append(s, e) = 1..(Len(s) + 1) /\ DOMAIN s = 1..Len(s) /\ Len(s) \in Nat
           /\ \A i \in 1..Len(s) : Append(s, e)[i] = s[i]
           /\ Append(s, e)[Len(s) + 1] = e
<1>1. /\ DOMAIN Append(s, e) = 1..(Len(s) + 1) /\ DOMAIN s = 1..Len(s) /\ Len(s) \in Nat
      /\ \A i \in 1..Len(s) : Append(s, e)[i] = s[i]
      /\ Append(s, e)[Len(s) + 1] = e
      /\ Append(s, e) \in Seq(Nat)
  OBVIOUS
<1>2. ToSet(Append(s, e)) = ToSet(s) \cup {e}
  BY <1>1 DEF ToSet
<1>. QED BY <1>1, <1>2

\* What of the record the queue is about.
SameEvents(new, rec) ==
    /\ new.events = rec.events /\ new.cut = rec.cut
    /\ new.received = rec.received /\ new.deferred = rec.deferred

LEMMA QueueKept ==
    ASSUME QueueInv, DeliveryTypeOK', queue' = queue, SameEvents(record', record),
           ReplayOK(agent', queue, record)
    PROVE  QueueInv'
BY DEF QueueInv, SameEvents, QueueOK, Kept, InOrder, ReplayOK, Replaying, Got

\* The server gets event e, for the first time or again.
LEMMA ReceivedFields ==
    ASSUME NEW rec \in Records, NEW e \in Nat
    PROVE  /\ Received(rec, e) \in Records
           /\ Received(rec, e).events = rec.events /\ Received(rec, e).cut = rec.cut
           /\ Received(rec, e).deferred = rec.deferred
           /\ Received(rec, e).received =
                 IF e \in Got(rec) THEN rec.received ELSE Append(rec.received, e)
           /\ Got(Received(rec, e)) = Got(rec) \cup {e}
           /\ Received(rec, e).alerts = rec.alerts /\ Received(rec, e).trusted = rec.trusted
           /\ Received(rec, e).unsaved = rec.unsaved
<1>1. /\ rec.received \in Seq(Nat)
      /\ (IF e \in Got(rec) THEN rec.received ELSE Append(rec.received, e)) \in Seq(Nat)
  BY AppendedSet DEF Records
<1>2. /\ Received(rec, e) \in Records
      /\ Received(rec, e).events = rec.events /\ Received(rec, e).cut = rec.cut
      /\ Received(rec, e).deferred = rec.deferred
      /\ Received(rec, e).received =
            IF e \in Got(rec) THEN rec.received ELSE Append(rec.received, e)
      /\ Received(rec, e).alerts = rec.alerts /\ Received(rec, e).trusted = rec.trusted
      /\ Received(rec, e).unsaved = rec.unsaved
  BY <1>1 DEF Received, Got, Records
<1>3. Got(Received(rec, e)) = Got(rec) \cup {e}
  BY <1>1, <1>2, AppendedSet DEF Got
<1>. QED BY <1>2, <1>3

LEMMA ReceivedInOrder ==
    ASSUME NEW rec \in Records, NEW q \in Seq(Nat), NEW e \in 1..rec.events,
           QueueOK(q, rec), InOrder(q, rec),
           e \notin Got(rec) /\ e \in rec.deferred =>
              /\ \A d \in Got(rec) : d \in rec.deferred => d < e
              /\ \A i \in DOMAIN q :
                    q[i] \in rec.deferred /\ q[i] \notin Got(rec) /\ q[i] # e => e < q[i]
    PROVE  /\ QueueOK(q, Received(rec, e))
           /\ InOrder(q, Received(rec, e))
<1> DEFINE new == Received(rec, e)
<1>0. /\ new \in Records /\ new.events = rec.events /\ new.cut = rec.cut
      /\ new.deferred = rec.deferred /\ Got(new) = Got(rec) \cup {e}
      /\ new.received = IF e \in Got(rec) THEN rec.received ELSE Append(rec.received, e)
      /\ rec.received \in Seq(Nat) /\ e \in Nat /\ rec.events \in Nat
  <2>1. rec.received \in Seq(Nat) /\ rec.events \in Nat /\ e \in Nat
    BY DEF Records
  <2>. QED BY <2>1, ReceivedFields
<1> HIDE DEF new
<1>1. QueueOK(q, new)
  <2>1. \A i \in DOMAIN q : q[i] \in 1..new.events /\ q[i] \in new.deferred \cup Got(new)
    BY <1>0 DEF QueueOK
  <2>2. Got(new) \subseteq 1..new.events /\ new.deferred \subseteq 1..new.events
    BY <1>0 DEF QueueOK
  <2>. QED BY <2>1, <2>2 DEF QueueOK
<1>3. ASSUME NEW d \in Got(new), NEW i \in DOMAIN q,
             d \in new.deferred, q[i] \in new.deferred, q[i] \notin Got(new)
      PROVE  d < q[i]
  BY <1>0, <1>3 DEF InOrder
<1>4. ASSUME NEW i \in DOMAIN new.received, NEW j \in DOMAIN new.received, i < j,
             new.received[i] \in new.deferred, new.received[j] \in new.deferred
      PROVE  new.received[i] < new.received[j]
  <2>1. CASE e \in Got(rec)
    BY <1>0, <1>4, <2>1 DEF InOrder
  <2>2. CASE e \notin Got(rec)
    <3>1. /\ DOMAIN new.received = 1..(Len(rec.received) + 1) /\ Len(rec.received) \in Nat
          /\ DOMAIN rec.received = 1..Len(rec.received)
          /\ \A m \in 1..Len(rec.received) : new.received[m] = rec.received[m]
          /\ new.received[Len(rec.received) + 1] = e
      BY <1>0, <2>2, AppendedSet
    <3>2. i \in 1..Len(rec.received)
      BY <1>4, <3>1
    <3>3. CASE j \in 1..Len(rec.received)
      BY <1>0, <1>4, <3>1, <3>2, <3>3 DEF InOrder
    <3>4. CASE j = Len(rec.received) + 1
      <4>1. new.received[i] \in Got(rec)
        BY <3>1, <3>2 DEF Got, ToSet
      <4>. QED BY <1>0, <1>4, <2>2, <3>1, <3>4, <4>1
    <3>. QED BY <3>1, <3>3, <3>4
  <2>. QED BY <2>1, <2>2
<1>5. InOrder(q, new)
  BY <1>3, <1>4 DEF InOrder
<1>. QED BY <1>1, <1>5 DEF new

\* A new event is submitted: nothing is said of it yet.
LEMMA Submitted ==
    ASSUME QueueInv, NEW e, e = record.events + 1, NEW rec, rec = [record EXCEPT !.events = e]
    PROVE  /\ rec \in Records /\ rec.events = e /\ e \in Nat /\ e \in 1..e
           /\ rec.cut = record.cut /\ rec.received = record.received
           /\ rec.deferred = record.deferred /\ Got(rec) = Got(record)
           /\ e \notin Got(rec) /\ e \notin rec.deferred
           /\ QueueOK(queue, rec) /\ InOrder(queue, rec)
           /\ \A i \in DOMAIN queue : queue[i] < e
           /\ \A d \in rec.deferred : d < e
<1>1. record \in Records /\ record.events \in Nat
  BY DEF QueueInv, DeliveryTypeOK, Records
<1>2. /\ rec \in Records /\ rec.events = e /\ e \in Nat /\ e \in 1..e
      /\ rec.cut = record.cut /\ rec.received = record.received
      /\ rec.deferred = record.deferred
  BY <1>1 DEF Records
<1>3. Got(rec) = Got(record)
  BY <1>2 DEF Got
<1>4. QueueOK(queue, record)
  BY DEF QueueInv
<1>5. 1..record.events \subseteq 1..e /\ \A n \in 1..record.events : n < e
  BY <1>1
<1>6. /\ e \notin Got(rec) /\ e \notin rec.deferred
      /\ \A i \in DOMAIN queue : queue[i] < e
      /\ \A d \in rec.deferred : d < e
  BY <1>2, <1>3, <1>4, <1>5 DEF QueueOK
<1>7. QueueOK(queue, rec)
  BY <1>2, <1>3, <1>4, <1>5 DEF QueueOK
<1>8. InOrder(queue, rec)
  BY <1>2, <1>3 DEF QueueInv, InOrder
<1>. QED BY <1>2, <1>3, <1>6, <1>7, <1>8

\* It is appended to the queue, got by the server or deferred.
LEMMA Enqueued ==
    ASSUME NEW q \in Seq(Nat), NEW rec \in Records, NEW e \in Nat, rec.events = e, e > 0,
           QueueOK(q, rec), InOrder(q, rec), \A i \in DOMAIN q : q[i] < e,
           \A d \in Got(rec) : d \in rec.deferred => d < e,
           \A n \in 1..(e - 1) : n > rec.cut => n \in Got(rec) \cup ToSet(q),
           e \in rec.deferred \cup Got(rec)
    PROVE  /\ Append(q, e) \in Seq(Nat)
           /\ QueueOK(Append(q, e), rec) /\ Kept(Append(q, e), rec)
           /\ InOrder(Append(q, e), rec)
<1> DEFINE p == Append(q, e)
<1>0. /\ p \in Seq(Nat) /\ DOMAIN p = 1..(Len(q) + 1) /\ DOMAIN q = 1..Len(q) /\ Len(q) \in Nat
      /\ \A i \in 1..Len(q) : p[i] = q[i]
      /\ p[Len(q) + 1] = e /\ ToSet(p) = ToSet(q) \cup {e}
  BY AppendedSet
<1> HIDE DEF p
<1>1. \A i, j \in DOMAIN p : i < j => p[i] < p[j]
  <2> SUFFICES ASSUME NEW i \in DOMAIN p, NEW j \in DOMAIN p, i < j PROVE p[i] < p[j]
    OBVIOUS
  <2>1. i \in DOMAIN q
    BY <1>0
  <2>2. CASE j \in DOMAIN q
    BY <1>0, <2>1, <2>2 DEF QueueOK
  <2>3. CASE j = Len(q) + 1
    BY <1>0, <2>1, <2>3
  <2>. QED BY <1>0, <2>2, <2>3
<1>2. \A i \in DOMAIN p : p[i] \in 1..rec.events /\ p[i] \in rec.deferred \cup Got(rec)
  <2> SUFFICES ASSUME NEW i \in DOMAIN p
               PROVE  p[i] \in 1..rec.events /\ p[i] \in rec.deferred \cup Got(rec)
    OBVIOUS
  <2>1. CASE i \in DOMAIN q
    BY <1>0, <2>1 DEF QueueOK
  <2>2. CASE i = Len(q) + 1
    BY <1>0, <2>2
  <2>. QED BY <1>0, <2>1, <2>2
<1>3. QueueOK(p, rec)
  BY <1>1, <1>2 DEF QueueOK
<1>4. Kept(p, rec)
  BY <1>0 DEF Kept
<1>5. InOrder(p, rec)
  <2>1. ASSUME NEW d \in Got(rec), NEW i \in DOMAIN p,
               d \in rec.deferred, p[i] \in rec.deferred, p[i] \notin Got(rec)
        PROVE  d < p[i]
    <3>1. CASE i \in DOMAIN q
      BY <1>0, <2>1, <3>1 DEF InOrder
    <3>2. CASE i = Len(q) + 1
      BY <1>0, <2>1, <3>2
    <3>. QED BY <1>0, <3>1, <3>2
  <2>. QED BY <2>1 DEF InOrder
<1>. QED BY <1>0, <1>3, <1>4, <1>5 DEF p

\* What remains of a queue without its first k events.
LEMMA RemainingQueue ==
    ASSUME QueueInv, NEW k \in 0..Len(queue), NEW sent, sent = {queue[i] : i \in 1..k}
    PROVE  /\ Remaining(sent) \in Seq(Nat)
           /\ Len(Remaining(sent)) = Len(queue) - k
           /\ \A n \in 1..(Len(queue) - k) : Remaining(sent)[n] = queue[k + n]
<1> DEFINE left == {i \in DOMAIN queue : queue[i] \notin sent}
           L == Len(queue)
<1>1. /\ queue \in Seq(Nat) /\ DOMAIN queue = 1..L /\ L \in Nat /\ k \in Nat
      /\ \A i, j \in 1..L : i < j => queue[i] < queue[j]
      /\ \A i \in 1..L : queue[i] \in Nat
  BY DEF QueueInv, DeliveryTypeOK, QueueOK
<1>2. left = (k + 1)..L
  <2>1. ASSUME NEW i \in 1..L PROVE queue[i] \in sent <=> i \in 1..k
    <3>1. ASSUME NEW j \in 1..k, queue[i] = queue[j] PROVE i = j
      BY <1>1, <3>1
    <3>. QED BY <1>1, <3>1
  <2>. QED BY <1>1, <2>1
<1>3. Cardinality(left) = L - k
  <2>1. k + 1 \in Int /\ L \in Int /\ k <= L
    BY <1>1
  <2>2. Cardinality((k + 1)..L) = IF k + 1 > L THEN 0 ELSE L - (k + 1) + 1
    BY <2>1, FS_Interval
  <2> HIDE DEF left, L
  <2>. QED BY <1>1, <1>2, <2>1, <2>2
<1>4. ASSUME NEW n \in 1..(L - k)
      PROVE  (CHOOSE i \in left : Cardinality(left \cap (1..i)) = n) = k + n
  <2>1. \A i \in left : left \cap (1..i) = (k + 1)..i
    BY <1>1, <1>2
  <2>2. ASSUME NEW i \in left PROVE Cardinality((k + 1)..i) = i - k
    BY <1>1, <1>2, FS_Interval
  <2>3. \A i \in left : Cardinality(left \cap (1..i)) = i - k
    BY <2>1, <2>2
  <2>4. k + n \in left /\ k + n - k = n
    BY <1>1, <1>2
  <2>5. ASSUME NEW i \in left, i - k = n PROVE i = k + n
    <3>1. i \in Nat /\ k \in Nat /\ n \in Nat
      BY <1>1, <1>2
    <3>. QED BY <2>5, <3>1
  <2> HIDE DEF left
  <2>. QED BY <2>3, <2>4, <2>5
<1>5. Remaining(sent) = [n \in 1..(L - k) |->
         queue[CHOOSE i \in left : Cardinality(left \cap (1..i)) = n]]
  BY <1>3 DEF Remaining
<1>6. /\ DOMAIN Remaining(sent) = 1..(L - k)
      /\ \A n \in 1..(L - k) : Remaining(sent)[n] = queue[k + n]
  BY <1>4, <1>5
<1>7. \A n \in 1..(L - k) : Remaining(sent)[n] \in Nat
  BY <1>1, <1>6
<1>8. Remaining(sent) \in Seq(Nat) /\ Len(Remaining(sent)) = L - k
  <2>1. L - k \in Nat
    BY <1>1
  <2>2. Remaining(sent) \in [1..(L - k) -> Nat]
    BY <1>5, <1>6, <1>7
  <2> HIDE DEF L
  <2>. QED BY <2>1, <2>2
<1>. QED BY <1>6, <1>8

LEMMA TailFacts ==
    ASSUME NEW s \in Seq(Nat), s # <<>>
    PROVE  /\ Tail(s) \in Seq(Nat) /\ Len(s) \in Nat /\ Len(s) > 0
           /\ Len(Tail(s)) = Len(s) - 1 /\ DOMAIN Tail(s) = 1..(Len(s) - 1)
           /\ DOMAIN s = 1..Len(s) /\ Head(s) = s[1] /\ Head(s) \in Nat
           /\ \A i \in 1..(Len(s) - 1) : Tail(s)[i] = s[i + 1]
<1>1. /\ Len(s) \in Nat /\ Len(s) > 0 /\ DOMAIN s = 1..Len(s)
      /\ Head(s) = s[1] /\ Head(s) \in Nat
  OBVIOUS
<1>2. Tail(s) \in Seq(Nat) /\ Len(Tail(s)) = Len(s) - 1
  OBVIOUS
<1>3. DOMAIN Tail(s) = 1..(Len(s) - 1)
  BY <1>2
<1>4. \A i \in 1..(Len(s) - 1) : Tail(s)[i] = s[i + 1]
  BY <1>1
<1>. QED BY <1>1, <1>2, <1>3, <1>4

\* A replay that still has something to send is at the queue's next event.
LEMMA ReplayAt ==
    ASSUME NEW q \in Seq(Nat), NEW k \in 0..Len(q), NEW x \in AgentStates, NEW rec,
           Replaying(k, x, q, rec), x.replay # <<>>
    PROVE  /\ x.replay \in Seq(Nat) /\ Len(x.replay) = Len(q) - k /\ Len(q) \in Nat /\ k \in Nat
           /\ k < Len(q) /\ Head(x.replay) = q[k + 1] /\ Head(x.replay) \in Nat
           /\ \A i \in 1..k : q[i] \in Got(rec)
<1> DEFINE r == x.replay
<1>1. /\ r \in Seq(Nat) /\ r # <<>> /\ Len(r) = Len(q) - k
      /\ \A i \in DOMAIN r : r[i] = q[k + i]
  BY DEF Replaying, AgentStates
<1>2. \A i \in 1..k : q[i] \in Got(rec)
  BY DEF Replaying
<1> HIDE DEF r
<1>3. Len(r) > 0 /\ Head(r) = r[1] /\ Head(r) \in Nat /\ 1 \in DOMAIN r
  BY <1>1
<1>4. Len(q) \in Nat /\ k \in Nat /\ k < Len(q)
  BY <1>1, <1>3
<1>. QED BY <1>1, <1>2, <1>3, <1>4 DEF r

\* The agent's process once the next event of its replay is answered.
Advanced(x) == [x EXCEPT !.replay = Tail(@), !.sent = @ \cup {Head(x.replay)}]

LEMMA ReplayGoesOn ==
    ASSUME NEW q \in Seq(Nat), NEW k \in 0..Len(q), NEW x \in AgentStates, NEW rec, NEW new,
           Replaying(k, x, q, rec), x.replay # <<>>,
           Got(rec) \subseteq Got(new), Head(x.replay) \in Got(new)
    PROVE  /\ Advanced(x) \in AgentStates /\ Advanced(x).pc = x.pc
           /\ k + 1 \in 0..Len(q) /\ Replaying(k + 1, Advanced(x), q, new)
<1> DEFINE r == x.replay
           y == Advanced(x)
<1>1. /\ r \in Seq(Nat) /\ Len(r) = Len(q) - k /\ Len(q) \in Nat /\ k \in Nat
      /\ k < Len(q) /\ Head(r) = q[k + 1] /\ Head(r) \in Nat /\ r # <<>>
  BY ReplayAt
<1>2. /\ \A i \in DOMAIN r : r[i] = q[k + i]
      /\ x.sent = {q[i] : i \in 1..k} /\ x.sent \subseteq Got(rec)
  BY DEF Replaying
<1>3. /\ Tail(r) \in Seq(Nat) /\ Len(Tail(r)) = Len(r) - 1 /\ DOMAIN Tail(r) = 1..(Len(r) - 1)
      /\ DOMAIN r = 1..Len(r) /\ \A i \in 1..(Len(r) - 1) : Tail(r)[i] = r[i + 1]
  <2> HIDE DEF r
  <2>. QED BY <1>1, TailFacts
<1>4. /\ y \in AgentStates /\ y.pc = x.pc /\ y.replay = Tail(r)
      /\ y.sent = x.sent \cup {Head(r)}
  <2>1. x.sent \cup {Head(r)} \in SUBSET Nat
    BY <1>1 DEF AgentStates
  <2>2. y = [x EXCEPT !.replay = Tail(r), !.sent = x.sent \cup {Head(r)}]
    BY DEF Advanced
  <2> HIDE DEF r, y
  <2>. QED BY <1>3, <2>1, <2>2 DEF AgentStates
<1> HIDE DEF r, y
<1>5. Len(y.replay) = Len(q) - (k + 1)
  BY <1>1, <1>3, <1>4
<1>6. \A i \in DOMAIN y.replay : y.replay[i] = q[k + 1 + i]
  <2>1. ASSUME NEW i \in 1..(Len(r) - 1) PROVE Tail(r)[i] = q[k + 1 + i]
    <3>0. PICK L : L = Len(r)
      OBVIOUS
    <3>1. i + 1 \in DOMAIN r /\ k + (i + 1) = k + 1 + i
      <4>1. L \in Nat /\ k \in Nat
        BY <1>1, <3>0
      <4>2. i \in 1..(L - 1) /\ DOMAIN r = 1..L
        BY <1>3, <2>1, <3>0
      <4>3. i + 1 \in 1..L /\ k + (i + 1) = k + 1 + i
        BY <4>1, <4>2
      <4>. QED BY <4>2, <4>3
    <3>2. Tail(r)[i] = r[i + 1]
      BY <1>3
    <3>3. r[i + 1] = q[k + (i + 1)]
      BY <1>2, <3>1 DEF r
    <3>. QED BY <3>1, <3>2, <3>3
  <2>. QED BY <1>3, <1>4, <2>1
<1>7. y.sent = {q[i] : i \in 1..(k + 1)}
  <2>1. 1..(k + 1) = (1..k) \cup {k + 1}
    BY <1>1
  <2>2. y.sent = {q[i] : i \in 1..k} \cup {q[k + 1]}
    BY <1>1, <1>2, <1>4
  <2>. QED BY <2>1, <2>2
<1>8. y.sent \subseteq Got(new)
  BY <1>2, <1>4 DEF r
<1>9. k + 1 \in 0..Len(q)
  BY <1>1
<1>10. Replaying(k + 1, y, q, new)
  BY <1>5, <1>6, <1>7, <1>8 DEF Replaying
<1>. QED BY <1>4, <1>9, <1>10 DEF y

\* The agent's process, when the iteration is over or has been cut off.
LEMMA AtRest ==
    /\ Stopped \in AgentStates /\ Stopped.pc = "down" /\ Stopped.sent = {}
    /\ [Stopped EXCEPT !.pc = "rest"] \in AgentStates
    /\ [Stopped EXCEPT !.pc = "rest"].pc = "rest" /\ [Stopped EXCEPT !.pc = "rest"].sent = {}
<1>1. Nowhere \in [Paths -> Hashes \cup {Absent}] /\ <<>> \in Seq(Nat) /\ {} \in SUBSET Nat
  BY DEF Nowhere
<1>. QED BY <1>1 DEF Stopped, AgentStates

LEMMA QueueStep ==
    ASSUME QueueInv, [DeliveryNext]_deliveryVars
    PROVE  QueueInv'
<1>0. /\ files \in [Paths -> Hashes \cup {Absent}] /\ agent \in AgentStates
      /\ queue \in Seq(Nat) /\ record \in Records
      /\ QueueOK(queue, record) /\ Kept(queue, record) /\ InOrder(queue, record)
      /\ ReplayOK(agent, queue, record)
  BY DEF QueueInv, DeliveryTypeOK
<1>s. /\ Stopped \in AgentStates /\ [Stopped EXCEPT !.pc = "rest"] \in AgentStates
      /\ \A q, rec : /\ ReplayOK(Stopped, q, rec)
                     /\ ReplayOK([Stopped EXCEPT !.pc = "rest"], q, rec)
  BY AtRest DEF ReplayOK
<1>1. ASSUME NEW p \in Paths, NEW h \in Hashes \cup {Absent}, ChangeFile(p, h) PROVE QueueInv'
  BY <1>0, <1>1, QueueKept DEF ChangeFile, QueueInv, DeliveryTypeOK, SameEvents
<1>2. CASE UpdateBaseline \/ \E p \in Paths, h \in Hashes : ReadBaseline(p, h)
  BY <1>0, <1>2, QueueKept DEF UpdateBaseline, ReadBaseline, QueueInv, DeliveryTypeOK, SameEvents
<1>3. CASE StartAgent
  BY <1>0, <1>3, <1>s, QueueKept DEF StartAgent, DeliveryTypeOK, SameEvents
<1>4. CASE ScanPaths
  <2>1. /\ UNCHANGED <<files, queue>>
        /\ \E forgotten \in BOOLEAN : ProcessFileEvents(files, forgotten)
        /\ agent' \in {agent, [agent EXCEPT !.pc = "submit", !.scan = files]}
        /\ agent.pc = "rest"
    BY <1>4 DEF ScanPaths
  <2>2. agent' \in AgentStates /\ ReplayOK(agent', queue, record)
    BY <1>0, <2>1 DEF AgentStates, ReplayOK
  <2>3. PICK f \in BOOLEAN : ProcessFileEvents(files, f)
    BY <2>1
  <2>4. record' \in Records /\ SameEvents(record', record)
    BY <1>0, <2>3 DEF ProcessFileEvents, Records, SameEvents, Alerts, Deleted, Present
  <2>. QED BY <1>0, <2>1, <2>2, <2>4, QueueKept DEF DeliveryTypeOK
<1>5. CASE SubmitOrQueue
  <2>1. PICK e, rec : e = record.events + 1 /\ rec = [record EXCEPT !.events = e]
    OBVIOUS
  <2>2. /\ \/ record' = Received(rec, e) /\ UNCHANGED queue
           \/ /\ record' \in {Received(rec, e), [rec EXCEPT !.deferred = @ \cup {e}]}
              /\ queue' = Append(queue, e)
        /\ UNCHANGED <<files, agent>> /\ agent.pc = "submit"
    BY <1>5, <2>1 DEF SubmitOrQueue, Queued
  <2>3. /\ rec \in Records /\ rec.events = e /\ e \in Nat /\ e \in 1..e /\ e > 0
        /\ rec.cut = record.cut /\ Got(rec) = Got(record) /\ record.events = e - 1
        /\ e \notin Got(rec) /\ e \notin rec.deferred
        /\ QueueOK(queue, rec) /\ InOrder(queue, rec)
        /\ \A i \in DOMAIN queue : queue[i] < e
        /\ \A d \in rec.deferred : d < e
    <3>1. record.events \in Nat
      BY <1>0 DEF Records
    <3>. QED BY <2>1, <3>1, Submitted
  <2>4. \A n \in 1..(e - 1) : n > rec.cut => n \in Got(rec) \cup ToSet(queue)
    BY <1>0, <2>3 DEF Kept
  <2>5. /\ Received(rec, e) \in Records /\ Received(rec, e).events = e
        /\ Received(rec, e).cut = rec.cut /\ Received(rec, e).deferred = rec.deferred
        /\ Got(Received(rec, e)) = Got(rec) \cup {e}
    BY <2>3, ReceivedFields
  <2>6. /\ QueueOK(queue, Received(rec, e)) /\ InOrder(queue, Received(rec, e))
    BY <1>0, <2>3, ReceivedInOrder
  <2>7. CASE record' = Received(rec, e) /\ UNCHANGED queue
    <3>1. Kept(queue, Received(rec, e))
      BY <2>3, <2>4, <2>5 DEF Kept
    <3>. QED BY <1>0, <2>2, <2>5, <2>6, <2>7, <3>1 DEF QueueInv, DeliveryTypeOK, ReplayOK
  <2>8. CASE record' = Received(rec, e) /\ queue' = Append(queue, e)
    <3>1. \A n \in 1..(e - 1) : n > rec.cut => n \in Got(record') \cup ToSet(queue)
      BY <2>4, <2>5, <2>8
    <3>2. \A d \in Got(record') : d \in record'.deferred => d < e
      BY <2>3, <2>5, <2>8
    <3>3. /\ queue' \in Seq(Nat) /\ QueueOK(queue', record') /\ Kept(queue', record')
          /\ InOrder(queue', record')
      BY <1>0, <2>3, <2>5, <2>6, <2>8, <3>1, <3>2, Enqueued
    <3>. QED BY <1>0, <2>2, <2>5, <2>8, <3>3 DEF QueueInv, DeliveryTypeOK, ReplayOK
  <2>9. CASE record' = [rec EXCEPT !.deferred = @ \cup {e}] /\ queue' = Append(queue, e)
    <3>1. /\ record' \in Records /\ record'.events = e /\ record'.cut = rec.cut
          /\ record'.deferred = rec.deferred \cup {e} /\ record'.received = rec.received
      BY <2>3, <2>9 DEF Records
    <3>2. Got(record') = Got(rec)
      BY <3>1 DEF Got
    <3>3. QueueOK(queue, record')
      BY <2>3, <3>1, <3>2 DEF QueueOK
    <3>4. InOrder(queue, record')
      <4>1. \A i \in DOMAIN rec.received : rec.received[i] # e
        BY <2>3 DEF Got, ToSet
      <4>2. \A i \in DOMAIN queue : queue[i] # e
        BY <2>3
      <4>. QED BY <2>3, <3>1, <3>2, <4>1, <4>2 DEF InOrder
    <3>5. /\ queue' \in Seq(Nat) /\ QueueOK(queue', record') /\ Kept(queue', record')
          /\ InOrder(queue', record')
      BY <1>0, <2>3, <2>4, <2>9, <3>1, <3>2, <3>3, <3>4, Enqueued
    <3>. QED BY <1>0, <2>2, <2>9, <3>1, <3>5 DEF QueueInv, DeliveryTypeOK, ReplayOK
  <2>. QED BY <2>2, <2>7, <2>8, <2>9

<1>6. CASE IterationFails
  <2>1. /\ UNCHANGED <<files, queue>> /\ agent' = [Stopped EXCEPT !.pc = "rest"]
        /\ record' = [record EXCEPT !.unsaved = @ \cup Present(agent.scan)]
    BY <1>6 DEF IterationFails
  <2>2. record' \in Records /\ SameEvents(record', record)
    BY <1>0, <2>1 DEF Records, SameEvents, Present
  <2>. QED BY <1>0, <1>s, <2>1, <2>2, QueueKept DEF DeliveryTypeOK
<1>7. CASE StartFlush
  <2>1. /\ UNCHANGED <<files, queue, record>> /\ agent.pc = "submit"
        /\ agent' = [agent EXCEPT !.replay = queue,
                                  !.pc = IF queue = <<>> THEN "save" ELSE "flush"]
    BY <1>7 DEF StartFlush
  <2>2. agent' \in AgentStates /\ agent'.sent = {} /\ agent'.replay = queue
    BY <1>0, <2>1 DEF AgentStates, ReplayOK
  <2>3. Replaying(0, agent', queue, record)
    BY <1>0, <2>2 DEF Replaying
  <2>4. ReplayOK(agent', queue, record)
    BY <1>0, <2>2, <2>3 DEF ReplayOK
  <2>. QED BY <1>0, <2>1, <2>2, <2>4, QueueKept DEF DeliveryTypeOK, SameEvents
<1>8. CASE ReplayEvent
  <2>1. /\ agent.pc = "flush" /\ agent.replay # <<>> /\ UNCHANGED <<files, queue>>
        /\ \/ record' = Received(record, Head(agent.replay)) /\ agent' = AfterPost(TRUE)
           \/ /\ record' \in {record, Received(record, Head(agent.replay))}
              /\ agent' = AfterPost(FALSE)
    BY <1>8 DEF ReplayEvent
  <2>2. PICK k \in 0..Len(queue) : Replaying(k, agent, queue, record)
    BY <1>0, <2>1 DEF ReplayOK
  <2>3. PICK e : e = Head(agent.replay)
    OBVIOUS
  <2>4. /\ Len(queue) \in Nat /\ k \in Nat /\ DOMAIN queue = 1..Len(queue)
        /\ k < Len(queue) /\ e = queue[k + 1] /\ e \in Nat
        /\ \A i \in 1..k : queue[i] \in Got(record)
    BY <1>0, <2>1, <2>2, <2>3, ReplayAt
  <2>5. k < Len(queue) /\ e = queue[k + 1] /\ k + 1 \in DOMAIN queue
    BY <2>4
  <2>6. e \in 1..record.events /\ e \in Nat /\ e \in record.deferred \cup Got(record)
    BY <1>0, <2>5 DEF QueueOK
  <2>8. \A i \in DOMAIN queue : queue[i] \notin Got(record) /\ queue[i] # e => e < queue[i]
    <3>1. ASSUME NEW i \in DOMAIN queue, queue[i] \notin Got(record), queue[i] # e
          PROVE  e < queue[i]
      <4>1. i \notin 1..k /\ i # k + 1 /\ i \in 1..Len(queue)
        BY <2>4, <3>1
      <4>2. k + 1 < i
        BY <2>4, <4>1
      <4>. QED BY <1>0, <2>5, <4>2 DEF QueueOK
    <3>. QED BY <3>1
  <2>9. \A d \in Got(record) : d \in record.deferred /\ e \in record.deferred /\ e \notin Got(record) => d < e
    BY <1>0, <2>5 DEF InOrder
  <2>10. /\ Received(record, e) \in Records /\ Received(record, e).events = record.events
         /\ Received(record, e).cut = record.cut
         /\ Got(Received(record, e)) = Got(record) \cup {e}
    BY <1>0, <2>6, ReceivedFields
  <2>11. QueueOK(queue, Received(record, e)) /\ InOrder(queue, Received(record, e))
    BY <1>0, <2>6, <2>8, <2>9, ReceivedInOrder
  <2>12. Kept(queue, Received(record, e))
    BY <1>0, <2>10 DEF Kept
  <2>13. /\ record' \in Records /\ QueueOK(queue, record') /\ InOrder(queue, record')
         /\ Kept(queue, record') /\ Got(record) \subseteq Got(record')
    BY <1>0, <2>1, <2>3, <2>10, <2>11, <2>12
  <2>14. agent' \in AgentStates /\ ReplayOK(agent', queue, record')
    <3>1. CASE record' = Received(record, e) /\ agent' = AfterPost(TRUE)
      <4>1. agent' = Advanced(agent)
        BY <3>1 DEF AfterPost, Advanced
      <4>2. Got(record) \subseteq Got(record') /\ Head(agent.replay) \in Got(record')
        BY <2>3, <2>10, <3>1
      <4>3. /\ agent \in AgentStates /\ agent.replay # <<>>
            /\ Replaying(k, agent, queue, record) /\ queue \in Seq(Nat)
        BY <1>0, <2>1, <2>2
      <4>4. /\ Advanced(agent) \in AgentStates /\ Advanced(agent).pc = agent.pc
            /\ k + 1 \in 0..Len(queue) /\ Replaying(k + 1, Advanced(agent), queue, record')
        BY <4>2, <4>3, ReplayGoesOn
      <4>. QED BY <2>1, <4>1, <4>4 DEF ReplayOK
    <3>2. CASE agent' = AfterPost(FALSE)
      <4>1. /\ agent' \in AgentStates /\ agent'.pc = "flush"
            /\ agent'.replay = <<>> /\ agent'.sent = agent.sent
        <5>1. agent' = [agent EXCEPT !.replay = <<>>] /\ <<>> \in Seq(Nat)
          BY <3>2 DEF AfterPost
        <5>. QED BY <1>0, <2>1, <5>1 DEF AgentStates
      <4>2. Replaying(k, agent', queue, record')
        BY <2>2, <2>13, <4>1 DEF Replaying
      <4>. QED BY <4>1, <4>2 DEF ReplayOK
    <3>. QED BY <2>1, <2>3, <3>1, <3>2
  <2>. QED BY <1>0, <2>1, <2>13, <2>14 DEF QueueInv, DeliveryTypeOK
<1>9. CASE SaveRemaining
  <2>1. /\ agent.pc = "flush" /\ queue' = Remaining(agent.sent) /\ UNCHANGED <<files, record>>
        /\ agent' = [agent EXCEPT !.pc = "save", !.sent = {}]
    BY <1>9 DEF SaveRemaining
  <2>2. PICK k \in 0..Len(queue) : Replaying(k, agent, queue, record)
    BY <1>0, <2>1 DEF ReplayOK
  <2>3. /\ queue' \in Seq(Nat) /\ Len(queue') = Len(queue) - k
        /\ \A n \in 1..(Len(queue) - k) : queue'[n] = queue[k + n]
        /\ Len(queue) \in Nat /\ k \in Nat /\ DOMAIN queue = 1..Len(queue)
        /\ DOMAIN queue' = 1..(Len(queue) - k)
    <3>1. PICK q : q = Remaining(agent.sent)
      OBVIOUS
    <3>2. /\ q \in Seq(Nat) /\ Len(q) = Len(queue) - k
          /\ \A n \in 1..(Len(queue) - k) : q[n] = queue[k + n]
      BY <2>2, <3>1, RemainingQueue DEF Replaying
    <3>3. Len(queue) \in Nat /\ k \in Nat /\ DOMAIN queue = 1..Len(queue)
      BY <1>0
    <3>. QED BY <2>1, <3>1, <3>2, <3>3
  <2>4. agent' \in AgentStates /\ ReplayOK(agent', queue', record)
    BY <1>0, <2>1 DEF AgentStates, ReplayOK
  <2>5. \A n \in DOMAIN queue' : k + n \in DOMAIN queue /\ queue'[n] = queue[k + n]
    BY <2>3
  <2>6. QueueOK(queue', record)
    <3>1. ASSUME NEW i \in DOMAIN queue', NEW j \in DOMAIN queue', i < j
          PROVE  queue'[i] < queue'[j]
      <4>1. k + i < k + j
        BY <2>3, <3>1
      <4>. QED BY <1>0, <2>5, <4>1 DEF QueueOK
    <3>. QED BY <1>0, <2>5, <3>1 DEF QueueOK
  <2>7. InOrder(queue', record)
    BY <1>0, <2>5 DEF InOrder
  <2>8. ToSet(queue) \subseteq ToSet(queue') \cup Got(record)
    <3>1. ASSUME NEW i \in DOMAIN queue PROVE queue[i] \in ToSet(queue') \cup Got(record)
      <4>1. CASE i \in 1..k
        BY <2>2, <4>1 DEF Replaying
      <4>2. CASE i \notin 1..k
        <5>1. i - k \in DOMAIN queue' /\ queue'[i - k] = queue[i]
          BY <2>3, <4>2
        <5>. QED BY <5>1 DEF ToSet
      <4>. QED BY <4>1, <4>2
    <3>. QED BY <3>1 DEF ToSet
  <2>9. Kept(queue', record)
    BY <1>0, <2>8 DEF Kept
  <2>. QED BY <1>0, <2>1, <2>3, <2>4, <2>6, <2>7, <2>9 DEF QueueInv, DeliveryTypeOK
<1>10. CASE SaveSnapshot
  <2>1. /\ UNCHANGED <<files, queue>> /\ agent' = [Stopped EXCEPT !.pc = "rest"]
        /\ record' = [record EXCEPT !.alerts = {}, !.trusted = {},
                                    !.unsaved = @ \ Present(agent.scan)]
    BY <1>10 DEF SaveSnapshot
  <2>2. record' \in Records /\ SameEvents(record', record)
    BY <1>0, <2>1 DEF Records, SameEvents
  <2>. QED BY <1>0, <1>s, <2>1, <2>2, QueueKept DEF DeliveryTypeOK
<1>11. CASE AgentDies
  <2>1. PICK cut \in BOOLEAN : /\ queue' = IF cut THEN <<>> ELSE queue
                               /\ record' = [record EXCEPT
                                      !.deaths = @ + 1,
                                      !.cut = IF cut THEN record.events ELSE @,
                                      !.unsaved = @ \cup Present(agent.scan)]
    BY <1>11 DEF AgentDies
  <2>2. agent' = Stopped /\ files' = files
    BY <1>11 DEF AgentDies
  <2>3. /\ record' \in Records /\ record'.events = record.events
        /\ record'.received = record.received /\ record'.deferred = record.deferred
        /\ record'.cut = IF cut THEN record.events ELSE record.cut
    <3>1. /\ record.deaths + 1 \in Nat /\ record.events \in Nat /\ record.cut \in Nat
          /\ record.unsaved \cup Present(agent.scan) \in SUBSET Paths
      BY <1>0 DEF Records, Present
    <3>2. (IF cut THEN record.events ELSE record.cut) \in Nat
      BY <3>1
    <3>. QED BY <1>0, <2>1, <3>1, <3>2 DEF Records
  <2>4. CASE cut
    <3>1. queue' = <<>> /\ queue' \in Seq(Nat) /\ DOMAIN queue' = {} /\ record'.cut = record'.events
      BY <2>1, <2>3, <2>4
    <3>2. QueueOK(queue', record') /\ InOrder(queue', record')
      BY <1>0, <2>3, <3>1 DEF QueueOK, InOrder, Got
    <3>3. Kept(queue', record')
      BY <2>3, <3>1 DEF Kept, Records
    <3>. QED BY <1>0, <1>s, <2>2, <2>3, <3>1, <3>2, <3>3 DEF QueueInv, DeliveryTypeOK
  <2>5. CASE ~cut
    BY <1>0, <1>s, <2>1, <2>2, <2>3, <2>5, QueueKept DEF DeliveryTypeOK, SameEvents
  <2>. QED BY <2>4, <2>5
<1>12. CASE UNCHANGED deliveryVars
  BY <1>0, <1>12, QueueKept DEF deliveryVars, DeliveryTypeOK, SameEvents
<1>. QED BY <1>1, <1>2, <1>3, <1>4, <1>5, <1>6, <1>7, <1>8, <1>9, <1>10, <1>11, <1>12
         DEF DeliveryNext

LEMMA QueueStart == DeliveryInit => QueueInv
<1> SUFFICES ASSUME DeliveryInit PROVE QueueInv
  OBVIOUS
<1>1. DeliveryTypeOK
  BY DEF DeliveryInit, DeliveryTypeOK, Nowhere, Stopped, AgentStates, Records
<1>2. /\ record.events = 0 /\ record.received = <<>> /\ record.deferred = {} /\ queue = <<>>
      /\ agent.pc = "down" /\ agent.sent = {}
  BY DEF DeliveryInit, Stopped
<1>3. Got(record) = {} /\ DOMAIN queue = {} /\ DOMAIN record.received = {}
  BY <1>2 DEF Got, ToSet
<1>4. QueueOK(queue, record) /\ Kept(queue, record) /\ InOrder(queue, record)
  BY <1>2, <1>3 DEF QueueOK, Kept, InOrder
<1>. QED BY <1>1, <1>2, <1>4 DEF QueueInv, ReplayOK

(* No device event that was submitted is lost, for any number of events,    *)
(* failed posts and deaths of the process, but those that a write of the    *)
(* queue file was cut short on.                                             *)
THEOREM EventsAreKept == DeliverySpec => []DeliveredOrQueued
<1>1. QueueInv => DeliveredOrQueued
  BY DEF QueueInv, Kept, Got, DeliveredOrQueued
<1>. QED BY <1>1, QueueStart, QueueStep, PTL DEF DeliverySpec

(* The events that waited in the queue reach the server in their order.     *)
THEOREM EventsKeepTheirOrder == DeliverySpec => []ReplayedInOrder
<1>1. QueueInv => ReplayedInOrder
  BY DEF QueueInv, InOrder, ReplayedInOrder
<1>. QED BY <1>1, QueueStart, QueueStep, PTL DEF DeliverySpec

----------------------------------------------------------------------------
(* What an iteration has told the server of the files it scanned.          *)

Scanned(x) == x.pc \in {"submit", "flush", "save"}
Told(rec, p) == p \in rec.alerts \/ (snapshot[p] = Absent /\ p \in rec.unsaved)

\* In AUTO mode nobody but the agent changes the baseline.  Where it differs
\* from the saved snapshot the server has been told, and an abandoned iteration
\* has told of a path the snapshot does not have.  Where it differs from what
\* the iteration under way has scanned, the file is gone again.
BaselineTold ==
    /\ approver.pc = "idle"
    /\ \A p \in Paths : baseline[p] # snapshot[p] =>
          /\ Told(record, p)
          /\ ~Scanned(agent) /\ snapshot[p] = Absent => p \in record.unsaved
    /\ \A p \in Paths : Scanned(agent) /\ baseline[p] # agent.scan[p] =>
          agent.scan[p] = Absent /\ p \in record.unsaved

ApproverStates == [pc : {"idle", "update"}, path : Paths \cup {Absent},
                   hash : Hashes \cup {Absent}, row : BOOLEAN]

ScanTold ==
    \A p \in Paths : agent.scan[p] # snapshot[p] =>
        Told(record, p) \/ (mode = "MANUAL" /\ p \in record.trusted)

AlertInv ==
    /\ snapshot \in [Paths -> Hashes \cup {Absent}]
    /\ baseline \in [Paths -> Hashes \cup {Absent}]
    /\ mode \in {"AUTO", "MANUAL"}
    /\ approver \in ApproverStates
    /\ mode = "AUTO" => BaselineTold
    /\ Scanned(agent) => ScanTold

\* What of the record the alerts are about.
SameAlerts(new, rec) ==
    /\ new.alerts = rec.alerts /\ new.trusted = rec.trusted /\ new.unsaved = rec.unsaved

LEMMA AlertsKept ==
    ASSUME AlertInv, UNCHANGED <<snapshot, baseline, mode, approver>>,
           SameAlerts(record', record), agent'.scan = agent.scan,
           Scanned(agent') <=> Scanned(agent)
    PROVE  AlertInv'
BY DEF AlertInv, BaselineTold, ScanTold, Told, SameAlerts

\* An iteration ends without a saved snapshot.
LEMMA AlertsForgotten ==
    ASSUME AlertInv, UNCHANGED <<snapshot, baseline, mode, approver>>,
           record'.alerts = record.alerts, ~Scanned(agent'),
           record'.unsaved = record.unsaved \cup Present(agent.scan)
    PROVE  AlertInv'
BY DEF AlertInv, BaselineTold, ScanTold, Told, Present

LEMMA AlertsScanned ==
    ASSUME AlertInv, record \in Records, agent \in AgentStates, ScanPaths,
           files \in [Paths -> Hashes \cup {Absent}]
    PROVE  AlertInv'
<1>1. PICK forgotten \in BOOLEAN :
         /\ ProcessFileEvents(files, forgotten)
         /\ IF forgotten THEN agent' = agent
            ELSE agent' = [agent EXCEPT !.pc = "submit", !.scan = files]
  BY DEF ScanPaths
<1>2. UNCHANGED <<snapshot, mode>> /\ agent.pc = "rest"
  BY DEF ScanPaths
<1>3. /\ Scanned(agent') <=> ~forgotten
      /\ ~forgotten => agent'.scan = files
      /\ ~Scanned(agent)
  BY <1>1, <1>2 DEF Scanned, AgentStates
<1>4. /\ baseline' = [p \in Paths |-> BaselineAfter(files, p)]
      /\ record'.alerts = record.alerts \cup Alerts(files)
      /\ record'.trusted = record.trusted \cup {p \in Paths : files[p] = baseline[p]}
      /\ record'.unsaved =
            (record.unsaved \ Deleted(files)) \cup (IF forgotten THEN Present(files) ELSE {})
  BY <1>1 DEF ProcessFileEvents, Records
<1>5. /\ snapshot' \in [Paths -> Hashes \cup {Absent}]
      /\ baseline' \in [Paths -> Hashes \cup {Absent}]
      /\ mode' \in {"AUTO", "MANUAL"}
  BY <1>2, <1>4 DEF AlertInv, BaselineAfter
<1>a. approver' \in ApproverStates /\ approver'.pc = approver.pc
  <2>1. approver \in ApproverStates
    BY DEF AlertInv
  <2>2. PICK r : r = (approver.row /\ approver.path \notin Deleted(files))
    OBVIOUS
  <2>3. r \in BOOLEAN
    BY <2>1, <2>2 DEF ApproverStates
  <2>4. approver' = [approver EXCEPT !.row = r]
    BY <1>1, <2>2 DEF ProcessFileEvents
  <2>. QED BY <2>1, <2>3, <2>4 DEF ApproverStates
<1>6. ASSUME mode = "AUTO" PROVE approver'.pc = "idle"
  BY <1>6, <1>a DEF AlertInv, BaselineTold
<1>7. ASSUME mode = "AUTO", NEW p \in Paths
      PROVE  /\ baseline'[p] # snapshot[p] =>
                  /\ p \in record'.alerts \/ (snapshot[p] = Absent /\ p \in record'.unsaved)
                  /\ forgotten /\ snapshot[p] = Absent => p \in record'.unsaved
             /\ ~forgotten /\ baseline'[p] # files[p] => files[p] = Absent /\ p \in record'.unsaved
  <2>1. baseline[p] # snapshot[p] =>
           /\ p \in record.alerts \/ (snapshot[p] = Absent /\ p \in record.unsaved)
           /\ snapshot[p] = Absent => p \in record.unsaved
    BY <1>3, <1>7 DEF AlertInv, BaselineTold, Told
  <2>2. baseline'[p] = IF files[p] # Absent THEN files[p]
                       ELSE IF snapshot[p] # Absent THEN Absent ELSE baseline[p]
    BY <1>4, <1>7 DEF BaselineAfter, Deleted
  <2>3. /\ (files[p] = Absent /\ snapshot[p] # Absent) => p \in record'.alerts
        /\ (files[p] # Absent /\ files[p] # baseline[p]) => p \in record'.alerts
        /\ p \in record.alerts => p \in record'.alerts
        /\ (snapshot[p] = Absent /\ p \in record.unsaved) => p \in record'.unsaved
        /\ (forgotten /\ files[p] # Absent) => p \in record'.unsaved
    BY <1>4 DEF Alerts, Deleted, Present
  <2>. QED BY <2>1, <2>2, <2>3
<1>8. ASSUME ~forgotten, NEW p \in Paths, files[p] # snapshot[p]
      PROVE  \/ p \in record'.alerts \/ (snapshot[p] = Absent /\ p \in record'.unsaved)
             \/ (mode = "MANUAL" /\ p \in record'.trusted)
  <2>1. CASE files[p] = Absent
    BY <1>4, <1>8, <2>1 DEF Alerts, Deleted
  <2>2. CASE files[p] # Absent /\ files[p] # baseline[p]
    BY <1>4, <2>2 DEF Alerts
  <2>3. CASE files[p] = baseline[p] /\ mode = "MANUAL"
    BY <1>4, <2>3
  <2>4. CASE files[p] = baseline[p] /\ mode = "AUTO" /\ files[p] # Absent
    <3>1. baseline'[p] = files[p]
      BY <1>4, <2>4 DEF BaselineAfter
    <3>. QED BY <1>7, <1>8, <2>4, <3>1
  <2>. QED BY <2>1, <2>2, <2>3, <2>4 DEF AlertInv
<1>9. mode' = "AUTO" => BaselineTold'
  BY <1>2, <1>3, <1>6, <1>7 DEF BaselineTold, Told
<1>10. Scanned(agent') => ScanTold'
  BY <1>2, <1>3, <1>8 DEF ScanTold, Told
<1>. QED BY <1>5, <1>9, <1>10, <1>a DEF AlertInv

LEMMA AlertsSaved ==
    ASSUME AlertInv, record \in Records, agent \in AgentStates, SaveSnapshot
    PROVE  AlertInv'
<1>1. /\ agent.pc = "save" /\ snapshot' = agent.scan /\ UNCHANGED <<baseline, mode, approver>>
      /\ ~Scanned(agent') /\ record'.unsaved = record.unsaved \ Present(agent.scan)
  BY AtRest DEF SaveSnapshot, Scanned, Records
<1>2. snapshot' \in [Paths -> Hashes \cup {Absent}]
  BY <1>1 DEF AgentStates
<1>3. ASSUME mode = "AUTO" PROVE BaselineTold'
  <2>1. Scanned(agent)
    BY <1>1 DEF Scanned
  <2>2. ASSUME NEW p \in Paths, baseline[p] # agent.scan[p]
        PROVE  agent.scan[p] = Absent /\ p \in record'.unsaved
    BY <1>1, <1>3, <2>1, <2>2 DEF AlertInv, BaselineTold, Present
  <2>. QED BY <1>1, <1>3, <2>2 DEF AlertInv, BaselineTold, Told
<1>. QED BY <1>1, <1>2, <1>3 DEF AlertInv

LEMMA AlertStep ==
    ASSUME QueueInv, AlertInv, [DeliveryNext]_deliveryVars
    PROVE  AlertInv'
<1>0. /\ files \in [Paths -> Hashes \cup {Absent}] /\ agent \in AgentStates
      /\ record \in Records
  BY DEF QueueInv, DeliveryTypeOK
<1>s. ~Scanned(Stopped) /\ ~Scanned([Stopped EXCEPT !.pc = "rest"])
  BY AtRest DEF Scanned
<1>1. CASE \E p \in Paths, h \in Hashes \cup {Absent} : ChangeFile(p, h)
  BY <1>1, AlertsKept DEF ChangeFile, SameAlerts
<1>2. CASE \E p \in Paths, h \in Hashes : ReadBaseline(p, h)
  <2>1. PICK p \in Paths, h \in Hashes : ReadBaseline(p, h)
    BY <1>2
  <2>2. approver' \in ApproverStates
    BY <2>1 DEF ReadBaseline, ApproverStates
  <2>. QED BY <2>1, <2>2 DEF ReadBaseline, AlertInv, ScanTold, Told
<1>3. CASE UpdateBaseline
  <2>1. /\ approver.pc = "update" /\ UNCHANGED <<snapshot, mode, agent, record>>
        /\ baseline' \in {baseline, [baseline EXCEPT ![approver.path] = approver.hash]}
    BY <1>3 DEF UpdateBaseline
  <2>2. approver' \in ApproverStates
    BY <1>3 DEF UpdateBaseline, NoApproval, ApproverStates
  <2>3. baseline' \in [Paths -> Hashes \cup {Absent}] /\ mode # "AUTO"
    BY <2>1 DEF AlertInv, BaselineTold, ApproverStates
  <2>. QED BY <2>1, <2>2, <2>3 DEF AlertInv, ScanTold, Told
<1>4. CASE StartAgent
  <2>1. ~Scanned(agent) /\ ~Scanned(agent')
    BY <1>4, <1>s DEF StartAgent, Scanned
  <2>. QED BY <1>4, <2>1 DEF StartAgent, AlertInv, BaselineTold, Told
<1>5. CASE ScanPaths
  BY <1>0, <1>5, AlertsScanned
<1>6. CASE SubmitOrQueue
  <2>1. PICK e, rec : e = record.events + 1 /\ rec = [record EXCEPT !.events = e]
    OBVIOUS
  <2>2. /\ UNCHANGED <<snapshot, baseline, mode, approver, agent>>
        /\ record' \in {Received(rec, e), [rec EXCEPT !.deferred = @ \cup {e}]}
    BY <1>6, <2>1 DEF SubmitOrQueue
  <2>3. rec \in Records /\ SameAlerts(rec, record) /\ e \in Nat
    <3>1. record.events \in Nat /\ e \in Nat
      BY <1>0, <2>1 DEF Records
    <3>. QED BY <1>0, <2>1, <3>1 DEF Records, SameAlerts
  <2>4. SameAlerts(Received(rec, e), rec)
    BY <2>3, ReceivedFields DEF SameAlerts
  <2>5. SameAlerts([rec EXCEPT !.deferred = @ \cup {e}], rec)
    BY <2>3 DEF SameAlerts, Records
  <2>6. SameAlerts(record', record)
    BY <2>2, <2>3, <2>4, <2>5 DEF SameAlerts
  <2>. QED BY <2>2, <2>6, AlertsKept
<1>7. CASE IterationFails
  BY <1>0, <1>7, <1>s, AlertsForgotten DEF IterationFails, Records
<1>8. CASE StartFlush
  <2>1. agent'.scan = agent.scan /\ Scanned(agent) /\ Scanned(agent')
    BY <1>0, <1>8 DEF StartFlush, AgentStates, Scanned
  <2>. QED BY <1>8, <2>1, AlertsKept DEF StartFlush, SameAlerts
<1>9. CASE ReplayEvent
  <2>1. PICK e : e = Head(agent.replay)
    OBVIOUS
  <2>2. /\ UNCHANGED <<snapshot, baseline, mode, approver>> /\ agent.pc = "flush"
        /\ record' \in {record, Received(record, e)}
        /\ agent' \in {AfterPost(TRUE), AfterPost(FALSE)} /\ agent.replay # <<>>
    BY <1>9, <2>1 DEF ReplayEvent
  <2>3. agent'.pc = agent.pc /\ agent'.scan = agent.scan
    BY <1>0, <2>2 DEF AfterPost, AgentStates
  <2>4. e \in Nat
    BY <1>0, <2>1, <2>2, TailFacts DEF AgentStates
  <2>5. SameAlerts(record', record)
    BY <1>0, <2>2, <2>4, ReceivedFields DEF SameAlerts
  <2>. QED BY <2>2, <2>3, <2>5, AlertsKept DEF Scanned
<1>10. CASE SaveRemaining
  <2>1. agent'.scan = agent.scan /\ Scanned(agent) /\ Scanned(agent')
    BY <1>0, <1>10 DEF SaveRemaining, AgentStates, Scanned
  <2>. QED BY <1>10, <2>1, AlertsKept DEF SaveRemaining, SameAlerts
<1>11. CASE SaveSnapshot
  BY <1>0, <1>11, AlertsSaved
<1>12. CASE AgentDies
  <2>1. /\ UNCHANGED <<snapshot, baseline, mode, approver>> /\ agent' = Stopped
        /\ record'.alerts = record.alerts
        /\ record'.unsaved = record.unsaved \cup Present(agent.scan)
    BY <1>0, <1>12 DEF AgentDies, Records
  <2>. QED BY <1>s, <2>1, AlertsForgotten
<1>13. CASE UNCHANGED deliveryVars
  BY <1>13, AlertsKept DEF deliveryVars, SameAlerts
<1>. QED BY <1>1, <1>2, <1>3, <1>4, <1>5, <1>6, <1>7, <1>8, <1>9, <1>10, <1>11, <1>12, <1>13
         DEF DeliveryNext

LEMMA AlertStart == DeliveryInit => AlertInv
<1> SUFFICES ASSUME DeliveryInit PROVE AlertInv
  OBVIOUS
<1>1. /\ snapshot = Nowhere /\ baseline = Nowhere /\ agent = Stopped /\ approver = NoApproval
      /\ mode \in {"AUTO", "MANUAL"}
  BY DEF DeliveryInit
<1>2. Nowhere \in [Paths -> Hashes \cup {Absent}] /\ ~Scanned(Stopped)
  BY AtRest DEF Nowhere, Scanned
<1>. QED BY <1>1, <1>2 DEF AlertInv, BaselineTold, NoApproval, ApproverStates

LEMMA AlertedStep ==
    ASSUME AlertInv, [DeliveryNext]_deliveryVars, snapshot' # snapshot, NEW p \in Paths,
           snapshot'[p] # snapshot[p]
    PROVE  \/ p \in record.alerts
           \/ snapshot[p] = Absent /\ p \in record.unsaved
           \/ (mode = "MANUAL" /\ p \in record.trusted)
<1>1. SaveSnapshot
  BY DEF DeliveryNext, deliveryVars, ChangeFile, ReadBaseline, UpdateBaseline, StartAgent,
         ScanPaths, SubmitOrQueue, IterationFails, StartFlush, ReplayEvent, SaveRemaining,
         AgentDies
<1>2. Scanned(agent) /\ snapshot' = agent.scan
  BY <1>1 DEF SaveSnapshot, Scanned
<1>. QED BY <1>2 DEF AlertInv, ScanTold, Told

(* What changes between two saved snapshots has raised an alert, for any    *)
(* files, failed posts, approved baselines and deaths of the process.       *)
THEOREM ChangesRaiseAlerts == DeliverySpec => ChangesAreAlerted
<1>1. DeliveryInit => QueueInv /\ AlertInv
  BY QueueStart, AlertStart
<1>2. QueueInv /\ AlertInv /\ [DeliveryNext]_deliveryVars => (QueueInv /\ AlertInv)'
  BY QueueStep, AlertStep
<1>3. AlertInv /\ [DeliveryNext]_deliveryVars =>
         [\A p \in Paths : snapshot'[p] # snapshot[p] =>
             \/ p \in record.alerts
             \/ snapshot[p] = Absent /\ p \in record.unsaved
             \/ (mode = "MANUAL" /\ p \in record.trusted)]_snapshot
  BY AlertedStep
<1>. QED BY <1>1, <1>2, <1>3, PTL DEF DeliverySpec, ChangesAreAlerted

=============================================================================
