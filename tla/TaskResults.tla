----------------------------- MODULE TaskResults -----------------------------
(***************************************************************************)
(* RemoteActions with a history of the synchronisations that overlapped.   *)
(* sync_after_command_ack reads a target, and on another connection state  *)
(* writes it: an acknowledgement that timed out and the one that replaced  *)
(* it can both have read the target as SENT, and the later write wins.     *)
(* What a finished task promises holds of the tasks to which this has not  *)
(* happened; no action reads the history.                                  *)
(***************************************************************************)
EXTENDS RemoteActions

VARIABLE contested  \* tasks two of whose handlers met between read and write

\* Handlers of one command that both stand between the read and the write.
Meet(v, w) ==
    /\ v # w
    /\ workers[v].pc = "refresh" /\ workers[w].pc = "refresh"
    /\ workers[v].task = workers[w].task /\ workers[v].agent = workers[w].agent

Meeting == {t \in TaskIds : \E v, w \in Workers : Meet(v, w) /\ workers[v].task = t}

ResultInit == Init /\ contested = {}
ResultNext == Next /\ contested' = contested \cup Meeting'

resultVars == <<vars, contested>>
ResultSpec == ResultInit /\ [][ResultNext]_resultVars

(* A finished task keeps its result, and has a completion time exactly     *)
(* when it is finished, unless two acknowledgements of one of its commands *)
(* were synchronised at the same time: late, repeated and lost ones, and   *)
(* those of different commands that overlap, never change it.              *)
FinishedTaskIsStable ==
    [][\A t \in TaskIds \ contested' :
          /\ agent_tasks[t].status \in {"DONE", "FAILED"} =>
                agent_tasks'[t].status = agent_tasks[t].status
          /\ agent_tasks'[t].completed <=>
                agent_tasks'[t].status \in {"DONE", "FAILED"}]_resultVars

=============================================================================
