----------------------------- MODULE RuntimeLock -----------------------------
(***************************************************************************)
(* The lock file that keeps a second agent process off the files of a      *)
(* runtime (RuntimeLock): created exclusively, then written, and taken     *)
(* over when the process it names is gone.  Files behave as under POSIX:   *)
(* unlink removes the name, whoever has the file open.                     *)
(***************************************************************************)
EXTENDS FiniteSets

CONSTANTS
    Pids,   \* processes, by pid; a pid is used again after its process is gone
    NoFile

ASSUME LockAssumption == NoFile \notin Pids

VARIABLES
    lock_file,  \* [pid, written]: who created the file, and whether it says so yet
    processes,  \* where each process is: gone, open, write, check, clear, running
    raced       \* two processes were acquiring the lock at the same time (history)

lockVars == <<lock_file, processes, raced>>

Acquiring == {"open", "write", "check", "clear"}

LockInit ==
    /\ lock_file = [pid |-> NoFile, written |-> FALSE]
    /\ processes = [p \in Pids |-> "gone"]
    /\ raced = FALSE

Goto(p, pc) == processes' = [processes EXCEPT ![p] = pc]
Unlink == lock_file' = [pid |-> NoFile, written |-> FALSE]
Alive(p) == processes[p] # "gone"

StartProcess(p) ==
    /\ processes[p] = "gone"
    /\ Goto(p, "open")
    /\ raced' = (raced \/ \E q \in Pids : processes[q] \in Acquiring)
    /\ UNCHANGED lock_file

\* open("x")
OpenExclusive(p) ==
    /\ processes[p] = "open"
    /\ IF lock_file.pid = NoFile
       THEN lock_file' = [pid |-> p, written |-> FALSE] /\ Goto(p, "write")
       ELSE UNCHANGED lock_file /\ Goto(p, "check")
    /\ UNCHANGED raced

\* The pid is written when the handle is closed; into nothing, if the file was
\* unlinked meanwhile.
WritePid(p) ==
    /\ processes[p] = "write"
    /\ lock_file' = IF lock_file.pid = p THEN [lock_file EXCEPT !.written = TRUE] ELSE lock_file
    /\ Goto(p, "running")
    /\ UNCHANGED raced

\* (a mutant: every lock is stale)
NobodyAlive(file) == FALSE

\* _pid_alive of the pid in the file; a file without one is stale.
LockIsHeld(file) == file.written /\ Alive(file.pid)

\* _clear_stale_lock reads the file; a lock that is held ends this process ...
CheckStale(p) ==
    /\ processes[p] = "check"
    /\ Goto(p, IF LockIsHeld(lock_file) THEN "gone" ELSE "clear")
    /\ UNCHANGED <<lock_file, raced>>

\* ... a stale one is unlinked, and the loop goes round.
ClearStale(p) ==
    /\ processes[p] = "clear"
    /\ Unlink
    /\ Goto(p, "open")
    /\ UNCHANGED raced

\* atexit: release
Exit(p) ==
    /\ processes[p] = "running"
    /\ Unlink
    /\ Goto(p, "gone")
    /\ UNCHANGED raced

Killed(p) ==
    /\ processes[p] # "gone"
    /\ Goto(p, "gone")
    /\ UNCHANGED <<lock_file, raced>>

LockNext ==
    \E p \in Pids :
        \/ StartProcess(p) \/ OpenExclusive(p) \/ WritePid(p) \/ CheckStale(p)
        \/ ClearStale(p) \/ Exit(p) \/ Killed(p)

LockSpec == LockInit /\ [][LockNext]_lockVars

----------------------------------------------------------------------------
(* Processes that never tried to take the lock at the same time never run  *)
(* together on one runtime ("Runtime ... already running"), whatever locks *)
(* killed processes left behind and whichever pids came back.              *)
OneRunsAtATime ==
    ~raced => \A p, q \in Pids : processes[p] = "running" /\ processes[q] = "running" => p = q

=============================================================================
