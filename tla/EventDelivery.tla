---------------------------- MODULE EventDelivery ----------------------------
(***************************************************************************)
(* Events on their way from an endpoint to the server: the file scanner    *)
(* with its saved snapshot, the offline event queue and its replay         *)
(* (agent), and EventService with the baseline and its alerts (server).    *)
(*                                                                         *)
(* One iteration of the agent's loop scans the monitored files and posts   *)
(* what it found in one batch, submits device events one by one, replays   *)
(* the queue and saves the snapshot.  A post that raises abandons the      *)
(* iteration, unless it is one of those that queue instead.                *)
(***************************************************************************)
EXTENDS Naturals, Sequences, SequencesExt

CONSTANTS
    Paths,      \* paths of monitored files
    Hashes,     \* sha256 of their contents
    Absent,     \* no such file, no such row
    MaxEvents,  \* bound on the device events ever submitted
    MaxDeaths   \* bound on the times the agent's process dies

ASSUME EventsAssumption == Absent \notin Hashes /\ MaxEvents \in Nat /\ MaxDeaths \in Nat

VARIABLES
    files,       \* the monitored files
    snapshot,    \* state file: the snapshot saved last
    torn,        \* the last write of the state file was cut short
    agent,       \* the agent's process: [pc, scan, replay, sent]
    queue,       \* event queue file: device events, numbered as they were submitted
    baseline,    \* table baseline: the hash of each path
    mode,        \* baseline_update_mode: AUTO or MANUAL
    approver,    \* approve_baseline in flight: [pc, path, hash, row]
    record       \* history: [events: device events submitted, deaths, cut: events there
                 \*  were when a write of the queue was cut short, received: events in
                 \*  the order they were first processed, deferred: those queued before
                 \*  the server had got them, alerts: paths alerted since the last saved
                 \*  snapshot, trusted: those found as the baseline has them, unsaved:
                 \*  paths reported as present by an abandoned iteration]

deliveryVars == <<files, snapshot, torn, agent, queue, baseline, mode, approver, record>>

Nowhere == [p \in Paths |-> Absent]
Stopped == [pc |-> "down", scan |-> Nowhere, replay |-> <<>>, sent |-> {}]
NoApproval == [pc |-> "idle", path |-> Absent, hash |-> Absent, row |-> FALSE]

DeliveryInit ==
    /\ files = Nowhere
    /\ snapshot = Nowhere
    /\ torn = FALSE
    /\ agent = Stopped
    /\ queue = <<>>
    /\ baseline = Nowhere
    /\ mode \in {"AUTO", "MANUAL"}
    /\ approver = NoApproval
    /\ record = [events |-> 0, deaths |-> 0, cut |-> 0, received |-> <<>>, deferred |-> {},
                 alerts |-> {}, trusted |-> {}, unsaved |-> {}]

ChangeFile(p, h) ==
    /\ files[p] # h
    /\ files' = [files EXCEPT ![p] = h]
    /\ UNCHANGED <<snapshot, torn, agent, queue, baseline, mode, approver, record>>

----------------------------------------------------------------------------
(* The server.  A batch is processed in one transaction.                   *)

\* FILE_PRESENT of every file of the scan, FILE_DELETED of every path of the
\* previous snapshot that is gone.
Deleted(scan) == {p \in Paths : scan[p] = Absent /\ snapshot[p] # Absent}

\* (a mutant: FILE_DELETED leaves the row of the baseline)
NeverRemoved(scan, p) ==
    IF scan[p] # Absent /\ (baseline[p] = Absent \/ mode = "AUTO") THEN scan[p] ELSE baseline[p]

\* A new path enters the baseline; a changed hash only replaces it in AUTO mode.
BaselineAfter(scan, p) ==
    IF scan[p] # Absent THEN IF baseline[p] = Absent \/ mode = "AUTO" THEN scan[p] ELSE baseline[p]
    ELSE IF p \in Deleted(scan) THEN Absent ELSE baseline[p]

\* NEW_FILE, FILE_MODIFIED and FILE_DELETED alerts, by the path they name.
Alerts(scan) == Deleted(scan) \cup {p \in Paths : scan[p] \notin {Absent, baseline[p]}}

Present(scan) == {p \in Paths : scan[p] # Absent}

ProcessFileEvents(scan, forgotten) ==
    /\ baseline' = [p \in Paths |-> BaselineAfter(scan, p)]
    /\ approver' = [approver EXCEPT !.row = @ /\ approver.path \notin Deleted(scan)]
    /\ record' = [record EXCEPT
          !.alerts = @ \cup Alerts(scan),
          !.trusted = @ \cup {p \in Paths : scan[p] = baseline[p]},
          !.unsaved = (@ \ Deleted(scan)) \cup (IF forgotten THEN Present(scan) ELSE {})]

Received(rec, e) ==
    [rec EXCEPT !.received = IF e \in ToSet(@) THEN @ ELSE Append(@, e)]

\* approve_baseline (MANUAL mode): the row is read ...
ReadBaseline(p, h) ==
    /\ mode = "MANUAL" /\ approver.pc = "idle"
    /\ baseline[p] # Absent
    /\ approver' = [pc |-> "update", path |-> p, hash |-> h, row |-> TRUE]
    /\ UNCHANGED <<files, snapshot, torn, agent, queue, baseline, mode, record>>

\* ... and updated by its id, if it is still there.
UpdateBaseline ==
    /\ approver.pc = "update"
    /\ baseline' = IF approver.row THEN [baseline EXCEPT ![approver.path] = approver.hash]
                   ELSE baseline
    /\ approver' = NoApproval
    /\ UNCHANGED <<files, snapshot, torn, agent, queue, mode, record>>

----------------------------------------------------------------------------
(* The agent.                                                              *)

\* load_state raises on a file cut short, and the process ends.
StartAgent ==
    /\ agent.pc = "down"
    /\ ~torn
    /\ agent' = [Stopped EXCEPT !.pc = "rest"]
    /\ UNCHANGED <<files, snapshot, torn, queue, baseline, mode, approver, record>>

\* scan_paths, and the post of what it found.  The batch is processed and
\* answered, processed without an answer, or not processed.
ScanPaths ==
    /\ agent.pc = "rest"
    /\ \/ /\ agent' = [agent EXCEPT !.pc = "submit", !.scan = files]
          /\ ProcessFileEvents(files, FALSE)
       \/ /\ UNCHANGED agent
          /\ ProcessFileEvents(files, TRUE)
    /\ UNCHANGED <<files, snapshot, torn, queue, mode>>

\* (a mutant: the event goes to the head of the queue)
InFront(e) == <<e>> \o queue
Queued(e) == Append(queue, e)

\* _submit_or_queue: the event is queued when its post raises, whether or not
\* the server has processed it.
SubmitOrQueue ==
    LET e == record.events + 1
        rec == [record EXCEPT !.events = e]
    IN  /\ agent.pc = "submit" /\ e <= MaxEvents
        /\ \/ record' = Received(rec, e) /\ UNCHANGED queue
           \/ /\ record' \in {Received(rec, e), [rec EXCEPT !.deferred = @ \cup {e}]}
              /\ queue' = Queued(e)
        /\ UNCHANGED <<files, snapshot, torn, agent, baseline, mode, approver>>

\* Anything else of the iteration raises: what was scanned is forgotten.
IterationFails ==
    /\ agent.pc = "submit"
    /\ agent' = [Stopped EXCEPT !.pc = "rest"]
    /\ record' = [record EXCEPT !.unsaved = @ \cup Present(agent.scan)]
    /\ UNCHANGED <<files, snapshot, torn, queue, baseline, mode, approver>>

\* flush_event_queue: the queue is loaded; an empty one is left alone.
StartFlush ==
    /\ agent.pc = "submit"
    /\ agent' = [agent EXCEPT !.replay = queue, !.pc = IF queue = <<>> THEN "save" ELSE "flush"]
    /\ UNCHANGED <<files, snapshot, torn, queue, baseline, mode, approver, record>>

\* The replay stops at the first event that cannot be posted.
AfterPost(answered) ==
    IF answered THEN [agent EXCEPT !.replay = Tail(@), !.sent = @ \cup {Head(agent.replay)}]
    ELSE [agent EXCEPT !.replay = <<>>]

ReplayEvent ==
    /\ agent.pc = "flush" /\ agent.replay # <<>>
    /\ \/ record' = Received(record, Head(agent.replay)) /\ agent' = AfterPost(TRUE)
       \/ record' \in {record, Received(record, Head(agent.replay))} /\ agent' = AfterPost(FALSE)
    /\ UNCHANGED <<files, snapshot, torn, queue, baseline, mode, approver>>

\* (a mutant: everything replayed is dropped)
NothingLeft(sent) == <<>>

\* ... and what was not sent is saved, in the order of the queue.
Remaining(sent) ==
    LET left == {i \in DOMAIN queue : queue[i] \notin sent}
    IN  [n \in 1..Cardinality(left) |->
            queue[CHOOSE i \in left : Cardinality(left \cap (1..i)) = n]]

SaveRemaining ==
    /\ agent.pc = "flush" /\ agent.replay = <<>>
    /\ queue' = Remaining(agent.sent)
    /\ agent' = [agent EXCEPT !.pc = "save", !.sent = {}]
    /\ UNCHANGED <<files, snapshot, torn, baseline, mode, approver, record>>

\* save_state.
SaveSnapshot ==
    /\ agent.pc = "save"
    /\ snapshot' = agent.scan
    /\ agent' = [Stopped EXCEPT !.pc = "rest"]
    /\ record' = [record EXCEPT !.alerts = {}, !.trusted = {},
                                !.unsaved = @ \ Present(agent.scan)]
    /\ UNCHANGED <<files, torn, queue, baseline, mode, approver>>

\* The process dies.  A file it was writing is cut short: load_event_queue
\* reads such a file as an empty queue, load_state raises.
WritingQueue == agent.pc = "submit" \/ (agent.pc = "flush" /\ agent.replay = <<>>)

AgentDies ==
    /\ agent.pc # "down" /\ record.deaths < MaxDeaths
    /\ agent' = Stopped
    /\ torn' \in IF agent.pc = "save" THEN BOOLEAN ELSE {torn}
    /\ \E cut \in BOOLEAN :
          /\ cut => WritingQueue
          /\ queue' = IF cut THEN <<>> ELSE queue
          /\ record' = [record EXCEPT
                !.deaths = @ + 1,
                !.cut = IF cut THEN record.events ELSE @,
                !.unsaved = @ \cup Present(agent.scan)]
    /\ UNCHANGED <<files, snapshot, baseline, mode, approver>>

DeliveryNext ==
    \/ \E p \in Paths, h \in Hashes \cup {Absent} : ChangeFile(p, h)
    \/ \E p \in Paths, h \in Hashes : ReadBaseline(p, h)
    \/ UpdateBaseline
    \/ StartAgent \/ ScanPaths \/ SubmitOrQueue \/ IterationFails
    \/ StartFlush \/ ReplayEvent \/ SaveRemaining \/ SaveSnapshot \/ AgentDies

DeliverySpec == DeliveryInit /\ [][DeliveryNext]_deliveryVars

----------------------------------------------------------------------------
(* A device event that was submitted is not lost ("If server is            *)
(* unreachable, device events are queued to local disk", README): the      *)
(* server has processed it or it is in the queue file, unless a later      *)
(* write of that file was cut short.                                       *)
DeliveredOrQueued ==
    \A e \in 1..record.events :
        e > record.cut => e \in ToSet(record.received) \cup ToSet(queue)

(* Events that wait in the queue reach the server in the order they were   *)
(* queued ("replayed in-order on reconnect", README), however often the    *)
(* replay is interrupted, fails, or is started again after a crash.        *)
ReplayedInOrder ==
    \A i, j \in DOMAIN record.received :
        i < j /\ {record.received[i], record.received[j]} \subseteq record.deferred =>
            record.received[i] < record.received[j]

(* What changed between two saved snapshots has raised an alert about that *)
(* path in between ("NEW_FILE, FILE_MODIFIED, FILE_DELETED"), unless an    *)
(* administrator's baseline already had the file like that (MANUAL mode)   *)
(* or an abandoned iteration had told the server of a new file before.     *)
ChangesAreAlerted ==
    [][\A p \in Paths : snapshot'[p] # snapshot[p] =>
          \/ p \in record.alerts
          \/ snapshot[p] = Absent /\ p \in record.unsaved
          \/ (mode = "MANUAL" /\ p \in record.trusted)]_snapshot

=============================================================================
