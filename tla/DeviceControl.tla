---------------------------- MODULE DeviceControl ----------------------------
(***************************************************************************)
(* Device enforcement on an endpoint: the device half of the agent's main  *)
(* loop (main.run, DeviceControlManager) and the WindowsDeviceAdapter it   *)
(* calls.                                                                  *)
(*                                                                         *)
(* The adapter changes two things of the machine, the instance of a device *)
(* and the Start value of the USBSTOR service, by commands that each may   *)
(* fail, and only then writes down what it did in its state file.  A block *)
(* or an unblock is one action per command, so that the process can die    *)
(* between two of them.                                                    *)
(*                                                                         *)
(* Events, tokens and the command queue are modelled elsewhere: a post or  *)
(* a poll here succeeds or fails, a token matches or does not.             *)
(***************************************************************************)
EXTENDS Naturals, FiniteSets

CONSTANTS
    Devices,   \* mass-storage devices; a device and its PnP instance are one
    NoDevice   \* a call without an instance: reconciliation, a whole-endpoint unblock

DEFAULT == 3   \* the Start value of the machine before any block
DENIED == 4    \* the Start value of a disabled service

VARIABLES
    plugged,       \* devices in the machine
    usb,           \* [start, disabled]: the service, and the disabled instances
    adapter_file,  \* the adapter's state file: [prior_start (0: absent), blocked, instances]
    call,          \* the adapter call in progress
    loop,          \* the agent process: [pc, mode, known, current, todo, device]
    offline,       \* no contact with the server for failsafe_offline_minutes
    seen           \* [torn: a process died in an adapter call, failed: a command of the
                   \*  last unblock failed, decided: plugged devices that were decided on]

deviceVars == <<plugged, usb, adapter_file, call, loop, offline, seen>>

Modes == {"observe", "enforce"}
NoState == [prior_start |-> 0, blocked |-> FALSE, instances |-> {}]
NoCall == [pc |-> "none", device |-> NoDevice, state |-> NoState, todo |-> {}, ok |-> FALSE]
Down == [pc |-> "down", mode |-> "observe", known |-> {}, current |-> {}, todo |-> {},
         device |-> NoDevice]

DeviceInit ==
    /\ plugged = {}
    /\ usb = [start |-> DEFAULT, disabled |-> {}]
    /\ adapter_file = NoState
    /\ call = NoCall
    /\ loop = Down
    /\ offline = FALSE
    /\ seen = [torn |-> FALSE, failed |-> FALSE, decided |-> {}]

----------------------------------------------------------------------------
(* The adapter.                                                            *)

\* (a mutant: the prior value is recorded at every block)
RecordedAgain(state) == [state EXCEPT !.prior_start = usb.start]

\* The prior Start value is recorded once; a query that fails answers DEFAULT.
Recorded(state) ==
    IF state.prior_start # 0 THEN state ELSE [state EXCEPT !.prior_start = usb.start]

\* block_device: the state is loaded and the prior value read.
BlockDevice(d) ==
    call' = [NoCall EXCEPT !.pc = IF d = NoDevice THEN "deny" ELSE "disable",
                           !.device = d, !.state = Recorded(adapter_file)]

\* _disable_device_instance: pnputil, then PowerShell.
DisableInstance ==
    /\ call.pc = "disable"
    /\ \/ /\ usb' = [usb EXCEPT !.disabled = @ \cup {call.device}]
          /\ call' = [call EXCEPT !.pc = "deny", !.ok = TRUE,
                                  !.state.instances = @ \cup {call.device}]
       \/ /\ call' = [call EXCEPT !.pc = "deny"]
          /\ UNCHANGED usb
    /\ UNCHANGED <<plugged, adapter_file, loop, offline, seen>>

\* What the caller does when the call has come back, below.
Returned(pc) ==
    CASE pc = "reconciling" -> "rest"
      [] pc = "blocking" -> "devices"
      [] pc = "commanded" -> "commands"

Return ==
    /\ call' = NoCall
    /\ loop' = [loop EXCEPT !.pc = Returned(@)]
    \* run() marks the contact after maybe_block_device, whatever came of it.
    /\ offline' = (offline /\ loop.pc # "blocking")

\* The service is denied in any case; the file is written if either worked.
DenyService ==
    /\ call.pc = "deny"
    /\ \/ /\ usb' = [usb EXCEPT !.start = DENIED]
          /\ call' = [call EXCEPT !.pc = "save", !.state.blocked = TRUE]
          /\ UNCHANGED <<loop, offline>>
       \/ /\ UNCHANGED usb
          /\ IF call.ok
             THEN /\ call' = [call EXCEPT !.pc = "save", !.state.blocked = TRUE]
                  /\ UNCHANGED <<loop, offline>>
             ELSE Return
    /\ UNCHANGED <<plugged, adapter_file, seen>>

\* unblock_device: every recorded instance and the device's own ...
UnblockDevice(d) ==
    LET instances == adapter_file.instances \cup ({d} \ {NoDevice}) IN
    /\ call' = [NoCall EXCEPT !.pc = "enable", !.device = d, !.state = adapter_file,
                              !.todo = instances, !.ok = TRUE]
    /\ seen' = [seen EXCEPT !.failed = FALSE]

EnableInstance ==
    /\ call.pc = "enable"
    /\ \E i \in call.todo :
          \/ /\ usb' = [usb EXCEPT !.disabled = @ \ {i}]
             /\ call' = [call EXCEPT !.todo = @ \ {i}]
             /\ UNCHANGED seen
          \/ /\ call' = [call EXCEPT !.todo = @ \ {i}, !.ok = FALSE]
             /\ seen' = [seen EXCEPT !.failed = TRUE]
             /\ UNCHANGED usb
    /\ UNCHANGED <<plugged, adapter_file, loop, offline>>

\* ... and the Start value, the default when none was recorded; the block is
\* struck from the file if all of it worked.
PriorStart(state) == IF state.prior_start = 0 THEN DEFAULT ELSE state.prior_start
Unblocked(state) == [state EXCEPT !.blocked = FALSE, !.instances = {}]

RestoreService ==
    /\ call.pc = "enable" /\ call.todo = {}
    /\ \/ /\ usb' = [usb EXCEPT !.start = PriorStart(call.state)]
          /\ IF call.ok
             THEN /\ call' = [call EXCEPT !.pc = "save", !.state = Unblocked(@)]
                  /\ UNCHANGED <<loop, offline>>
             ELSE Return
          /\ UNCHANGED seen
       \/ /\ Return
          /\ seen' = [seen EXCEPT !.failed = TRUE]
          /\ UNCHANGED usb
    /\ UNCHANGED <<plugged, adapter_file>>

SaveState ==
    /\ call.pc = "save"
    /\ adapter_file' = call.state
    /\ Return
    /\ UNCHANGED <<plugged, usb, seen>>

\* (a mutant: a mode is set without reconciling)
NotReconciled(mode) == UNCHANGED <<call, seen>>

\* reconcile_state; what its call comes to is not looked at.
ReconcileState(mode) ==
    LET blocked == adapter_file.blocked \/ adapter_file.instances # {} IN
    IF mode = "observe" /\ blocked THEN UnblockDevice(NoDevice)
    ELSE IF mode = "enforce" /\ ~blocked THEN BlockDevice(NoDevice) /\ UNCHANGED seen
    ELSE UNCHANGED <<call, seen>>

----------------------------------------------------------------------------
(* The main loop.  A "rest" is the sleep between two iterations.           *)

\* run(): the mode is the configured one again, whatever the last command said.
BootAgent(mode) ==
    /\ loop.pc = "down"
    /\ ReconcileState(mode)
    /\ loop' = [Down EXCEPT !.mode = mode, !.pc = IF call' = NoCall THEN "rest" ELSE "reconciling"]
    /\ offline' = FALSE
    /\ UNCHANGED <<plugged, usb, adapter_file>>

\* The scan has been posted, which marks a contact, or has found nothing to
\* post; when the post fails the iteration is over and nothing has changed.
DetectMassStorage ==
    /\ loop.pc = "rest"
    /\ loop' = [loop EXCEPT !.pc = "devices", !.current = plugged, !.todo = plugged \ loop.known]
    /\ \/ offline' = FALSE
       \/ UNCHANGED offline
    /\ UNCHANGED <<plugged, usb, adapter_file, call, seen>>

\* A new device counts as known before its detection is posted; a post that
\* fails abandons the iteration.
Abandoned(l) == [l EXCEPT !.pc = "rest", !.current = {}, !.todo = {}]

ReportDevice(d) ==
    LET known == [loop EXCEPT !.known = @ \cup {d}, !.todo = @ \ {d}] IN
    /\ loop.pc = "devices" /\ d \in loop.todo
    /\ \/ loop' = [known EXCEPT !.pc = "handle", !.device = d]
       \/ loop' = Abandoned(known)
    /\ UNCHANGED <<plugged, usb, adapter_file, call, offline, seen>>

\* maybe_block_device, without the event that tells of it.  The local failsafe
\* file is there or not; in observe mode, with an allow token or in the grace
\* period nothing is blocked, and run() marks the contact.
HandleDevice ==
    /\ loop.pc = "handle"
    /\ seen' = [seen EXCEPT !.decided = @ \cup ({loop.device} \cap plugged)]
    /\ \/ /\ loop' = [loop EXCEPT !.pc = "devices", !.device = NoDevice]
          /\ offline' = FALSE
          /\ UNCHANGED call
       \/ /\ loop.mode = "enforce" /\ ~offline
          /\ BlockDevice(loop.device)
          /\ loop' = [loop EXCEPT !.pc = "blocking", !.device = NoDevice]
          /\ UNCHANGED offline
    /\ UNCHANGED <<plugged, usb, adapter_file>>

DevicesDone ==
    /\ loop.pc = "devices" /\ loop.todo = {}
    /\ loop' = [loop EXCEPT !.pc = "commands", !.known = loop.current, !.current = {}]
    /\ UNCHANGED <<plugged, usb, adapter_file, call, offline, seen>>

\* process_commands: DEVICE_SET_MODE, DEVICE_FORCE_OBSERVE, REMOTE_LOCKDOWN.
SetMode(mode) ==
    /\ loop.pc = "commands"
    /\ ReconcileState(mode)
    /\ loop' = [loop EXCEPT !.mode = mode, !.pc = IF call' = NoCall THEN "commands" ELSE "commanded"]
    /\ UNCHANGED <<plugged, usb, adapter_file, offline>>

\* DEVICE_UNBLOCK, of a known device or of the endpoint.
Unblock(d) ==
    /\ loop.pc = "commands"
    /\ d \in loop.known \cup {NoDevice}
    /\ UnblockDevice(d)
    /\ loop' = [loop EXCEPT !.pc = "commanded"]
    /\ UNCHANGED <<plugged, usb, adapter_file, offline>>

\* The rest of the iteration, with the poll, the acknowledgements, the status
\* and the heartbeat: some of it reached the server or none did.
EndIteration ==
    /\ loop.pc = "commands"
    /\ loop' = Abandoned(loop)
    /\ \/ offline' = FALSE
       \/ UNCHANGED offline
    /\ UNCHANGED <<plugged, usb, adapter_file, call, seen>>

----------------------------------------------------------------------------
(* What happens around the loop.                                           *)

\* A write_text cut short leaves a file that reads as no state at all.
AgentStops ==
    /\ loop.pc # "down"
    /\ adapter_file' \in IF call.pc = "save" THEN {adapter_file, NoState} ELSE {adapter_file}
    /\ seen' = [seen EXCEPT !.torn = @ \/ call # NoCall]
    /\ call' = NoCall
    /\ loop' = Down
    /\ UNCHANGED <<plugged, usb, offline>>

Plug(d) ==
    /\ d \notin plugged
    /\ plugged' = plugged \cup {d}
    /\ UNCHANGED <<usb, adapter_file, call, loop, offline, seen>>

Unplug(d) ==
    /\ d \in plugged
    /\ plugged' = plugged \ {d}
    /\ seen' = [seen EXCEPT !.decided = @ \ {d}]
    /\ UNCHANGED <<usb, adapter_file, call, loop, offline>>

ContactGrowsOld ==
    /\ loop.pc # "down" /\ ~offline
    /\ offline' = TRUE
    /\ UNCHANGED <<plugged, usb, adapter_file, call, loop, seen>>

\* apply_secure_key unblocks from the GUI's own process and with a state file
\* of its own, in which nothing was ever recorded.
ApplySecureKey ==
    /\ usb' = [usb EXCEPT !.start = DEFAULT]
    /\ UNCHANGED <<plugged, adapter_file, call, loop, offline, seen>>

DeviceNext ==
    \/ \E m \in Modes : BootAgent(m) \/ SetMode(m)
    \/ \E d \in Devices : Plug(d) \/ Unplug(d) \/ ReportDevice(d)
    \/ \E d \in Devices \cup {NoDevice} : Unblock(d)
    \/ DetectMassStorage \/ HandleDevice \/ DevicesDone \/ EndIteration
    \/ DisableInstance \/ DenyService \/ EnableInstance \/ RestoreService \/ SaveState
    \/ AgentStops \/ ContactGrowsOld \/ ApplySecureKey

DeviceSpec == DeviceInit /\ [][DeviceNext]_deviceVars

----------------------------------------------------------------------------
(* A block can be taken back ("reversible USBSTOR service-start control    *)
(* with local state persistence", README): between two calls of the        *)
(* adapter its file names every instance it disabled and, while the        *)
(* service is denied, the Start value to restore, whatever commands failed *)
(* and however often the process was started again, unless it died in the  *)
(* middle of a call.                                                       *)
Reversible ==
    call = NoCall /\ ~seen.torn =>
        /\ usb.disabled \subseteq adapter_file.instances
        /\ usb.start = DENIED => adapter_file.blocked /\ adapter_file.prior_start = DEFAULT

(* An agent in observe mode has taken back what it blocked before ("in     *)
(* observe no hard block action", README), when no command of its last     *)
(* unblock failed and it never died in the middle of a call.               *)
ObserveBlocksNothing ==
    loop.pc \notin {"down", "reconciling", "commanded"} /\ loop.mode = "observe"
      /\ ~seen.torn /\ ~seen.failed =>
        usb = [start |-> DEFAULT, disabled |-> {}]

(* At the end of an iteration in enforce mode each device that is known    *)
(* and plugged in was decided on: blocked, allowed, or reported as one     *)
(* ("In enforce mode, mass-storage is blocked locally by default even when *)
(* server is unreachable", README).                                        *)
KnownIsDecided ==
    loop.pc = "rest" /\ loop.mode = "enforce" => loop.known \cap plugged \subseteq seen.decided

=============================================================================
