--------------------------- MODULE SchedulerThread ---------------------------
(***************************************************************************)
(* The background thread that calls run_due_schedules (server/app/main.py):*)
(* the loop, and its start and stop around the life of the application.    *)
(* All loops share one stop event.                                         *)
(***************************************************************************)
EXTENDS FiniteSets

CONSTANTS
    Threads,   \* threads, each started once
    NoThread

ASSUME SchedulerAssumption == NoThread \notin Threads

VARIABLES
    stop_event,        \* _maintenance_scheduler_stop
    scheduler_thread,  \* _maintenance_scheduler_thread
    stopping,          \* a stop waits for the thread
    loops,             \* new, check, tick, wait or ended, by thread
    left               \* threads a stop gave up on (history)

threadVars == <<stop_event, scheduler_thread, stopping, loops, left>>

ThreadInit ==
    /\ stop_event = FALSE
    /\ scheduler_thread = NoThread
    /\ stopping = FALSE
    /\ loops = [t \in Threads |-> "new"]
    /\ left = {}

Running(t) == loops[t] \notin {"new", "ended"}

\* (a mutant: the thread that was started is not looked at)
AlwaysNeeded(thread) == TRUE

\* A thread that is alive is left alone.
ThreadNeeded(thread) == ~(thread # NoThread /\ Running(thread))

StartScheduler(t) ==
    /\ ~stopping
    /\ ThreadNeeded(scheduler_thread)
    /\ loops[t] = "new"
    /\ stop_event' = FALSE
    /\ scheduler_thread' = t
    /\ loops' = [loops EXCEPT ![t] = "check"]
    /\ UNCHANGED <<stopping, left>>

StopScheduler ==
    /\ ~stopping
    /\ scheduler_thread # NoThread
    /\ stop_event' = TRUE
    /\ stopping' = TRUE
    /\ UNCHANGED <<scheduler_thread, loops, left>>

\* join returns when the thread has ended or the timeout is over; the thread
\* is forgotten in both cases.
Joined ==
    /\ stopping
    /\ left' = left \cup {t \in {scheduler_thread} : Running(t)}
    /\ scheduler_thread' = NoThread
    /\ stopping' = FALSE
    /\ UNCHANGED <<stop_event, loops>>

\* while not stop.is_set()
CheckStop(t) ==
    /\ loops[t] = "check"
    /\ loops' = [loops EXCEPT ![t] = IF stop_event THEN "ended" ELSE "tick"]
    /\ UNCHANGED <<stop_event, scheduler_thread, stopping, left>>

\* run_due_schedules, which is modelled in MaintenanceRuns; an exception of it
\* is logged.
TickDone(t) ==
    /\ loops[t] = "tick"
    /\ loops' = [loops EXCEPT ![t] = "wait"]
    /\ UNCHANGED <<stop_event, scheduler_thread, stopping, left>>

\* stop.wait: ended by the event or by the interval.
WaitDone(t) ==
    /\ loops[t] = "wait"
    /\ loops' = [loops EXCEPT ![t] = IF stop_event THEN "ended" ELSE "check"]
    /\ UNCHANGED <<stop_event, scheduler_thread, stopping, left>>

ThreadNext ==
    \/ \E t \in Threads : StartScheduler(t) \/ CheckStop(t) \/ TickDone(t) \/ WaitDone(t)
    \/ StopScheduler
    \/ Joined

ThreadSpec == ThreadInit /\ [][ThreadNext]_threadVars

----------------------------------------------------------------------------
(* A second loop runs only beside one that a stop gave up on; and once no  *)
(* thread is kept and none was given up, nothing runs any more.            *)
LoopsAreKnown ==
    \A t \in Threads : Running(t) => t = scheduler_thread \/ t \in left

=============================================================================
