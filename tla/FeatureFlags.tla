---------------------------- MODULE FeatureFlags ----------------------------
(***************************************************************************)
(* Feature flags and the device kill switch (FeatureFlagService).  The     *)
(* switch is kept twice: in the row of the built-in flag and in            *)
(* device_control_state, which the device policy reads.  Every request     *)
(* first repairs the row from that state (ensure_builtin_flags) in steps   *)
(* of its own, then reads the row, writes both, and sends the agents       *)
(* DEVICE_FORCE_OBSERVE one transaction at a time.                         *)
(***************************************************************************)
EXTENDS FiniteSets

CONSTANTS
    Flags,        \* flags by key and scope
    KILL_SWITCH,  \* BUILTIN_KILL_SWITCH_KEY
    HighRisk,     \* the flags with risk_level HIGH
    FleetAgents,  \* agents
    FlagThreads   \* server threads that serve the requests

ASSUME FlagsAssumption == KILL_SWITCH \in Flags \cap HighRisk

VARIABLES
    feature_flags,  \* is_enabled of each flag, "missing" when it has no row
    kill_switch,    \* device_control_state, key device_kill_switch
    fleet,          \* table agents
    told,           \* agents sent DEVICE_FORCE_OBSERVE since the switch was off
    flag_requests   \* requests in flight; alone: no other was in flight, known:
                    \* the agents there were when the switch was turned (history)

flagVars == <<feature_flags, kill_switch, fleet, told, flag_requests>>

Enabled(b) == IF b THEN "on" ELSE "off"

Idle == [pc |-> "idle", op |-> "list", flag |-> KILL_SWITCH, enabled |-> FALSE,
         confirm |-> FALSE, state |-> FALSE, row |-> "missing", todo |-> {},
         alone |-> TRUE, turned_on |-> FALSE, known |-> {}]

FlagInit ==
    /\ feature_flags = [f \in Flags |-> "missing"]
    /\ kill_switch = FALSE
    /\ fleet = {}
    /\ told = {}
    /\ flag_requests = [h \in FlagThreads |-> Idle]

Answered(h) == flag_requests' = [flag_requests EXCEPT ![h] = Idle]

RegisterFleetAgent(a) ==
    /\ a \notin fleet
    /\ fleet' = fleet \cup {a}
    /\ UNCHANGED <<feature_flags, kill_switch, told, flag_requests>>

----------------------------------------------------------------------------
(* ensure_builtin_flags, the first call of list_flags, create_flag,        *)
(* set_flag_state and set_builtin_kill_switch (which makes it twice).      *)

\* get_kill_switch, on a connection of its own.
Begin(h, op, f, enabled, confirm) ==
    /\ flag_requests[h].pc = "idle"
    /\ LET free == \A g \in FlagThreads : flag_requests[g].pc = "idle"
           begun == [Idle EXCEPT !.pc = "ensure", !.op = op, !.flag = f,
                         !.enabled = enabled, !.confirm = confirm,
                         !.state = kill_switch, !.alone = free]
       IN  flag_requests' = [g \in FlagThreads |->
               IF g = h THEN begun ELSE [flag_requests[g] EXCEPT !.alone =
                   @ /\ flag_requests[g].pc = "idle"]]
    /\ UNCHANGED <<feature_flags, kill_switch, fleet, told>>

\* What was read is forgotten.
AfterEnsure(e) == [e EXCEPT !.pc = IF e.op = "kill-switch" THEN "again" ELSE e.op,
                            !.state = FALSE, !.row = "missing"]

RepairNeeded(e, row) == row # Enabled(e.state)

\* The row is read in autocommit mode.
EnsureRead(h) ==
    LET e == flag_requests[h]
        row == feature_flags[KILL_SWITCH]
    IN  /\ e.pc = "ensure"
        /\ flag_requests' = [flag_requests EXCEPT ![h] =
              IF RepairNeeded(e, row) THEN [e EXCEPT !.pc = "repair", !.row = row]
              ELSE AfterEnsure(e)]
        /\ UNCHANGED <<feature_flags, kill_switch, fleet, told>>

\* The INSERT or the UPDATE; the INSERT raises when another was first.
EnsureWrite(h) ==
    LET e == flag_requests[h] IN
    /\ e.pc = "repair"
    /\ IF e.row = "missing" /\ feature_flags[KILL_SWITCH] # "missing"
       THEN Answered(h) /\ UNCHANGED feature_flags
       ELSE /\ feature_flags' = [feature_flags EXCEPT ![KILL_SWITCH] = Enabled(e.state)]
            /\ flag_requests' = [flag_requests EXCEPT ![h] = AfterEnsure(e)]
    /\ UNCHANGED <<kill_switch, fleet, told>>

\* set_builtin_kill_switch has found the id and calls set_flag_state.
EnsureAgain(h) ==
    /\ flag_requests[h].pc = "again"
    /\ flag_requests' = [flag_requests EXCEPT ![h].pc = "ensure", ![h].op = "set",
                                              ![h].state = kill_switch]
    /\ UNCHANGED <<feature_flags, kill_switch, fleet, told>>

----------------------------------------------------------------------------
(* list_flags, create_flag, set_flag_state.                                *)

\* The answer shows the rows.
ListFlags(h) ==
    /\ flag_requests[h].pc = "list"
    /\ Answered(h)
    /\ UNCHANGED <<feature_flags, kill_switch, fleet, told>>

NoConfirmation(e, current) == TRUE

\* RISK_CONFIRMATION_REQUIRED.
RiskConfirmed(e, current) ==
    e.flag \in HighRisk /\ current # Enabled(e.enabled) => e.confirm

CreateFlag(h) ==
    LET e == flag_requests[h] IN
    /\ e.pc = "create"
    /\ feature_flags' =
          IF e.flag = KILL_SWITCH \/ feature_flags[e.flag] # "missing"
             \/ ~RiskConfirmed(e, "off")
          THEN feature_flags   \* FLAG_KEY_RESERVED, FLAG_ALREADY_EXISTS
          ELSE [feature_flags EXCEPT ![e.flag] = Enabled(e.enabled)]
    /\ Answered(h)
    /\ UNCHANGED <<kill_switch, fleet, told>>

\* The SELECT, in autocommit mode.
ReadFlag(h) ==
    LET e == flag_requests[h]
        row == feature_flags[e.flag]
    IN  /\ e.pc = "set"
        /\ IF row = "missing" \/ ~RiskConfirmed(e, row)
           THEN Answered(h)
           ELSE flag_requests' = [flag_requests EXCEPT ![h].row = row, ![h].pc = "write"]
        /\ UNCHANGED <<feature_flags, kill_switch, fleet, told>>

AnnouncesOff(e) == e.flag = KILL_SWITCH /\ e.row = "on" /\ ~e.enabled

\* should_broadcast_enforce.
Announces(e) == e.flag = KILL_SWITCH /\ e.row = "off" /\ e.enabled

\* One transaction: the row if it was read different, the state in any case.
WriteFlag(h) ==
    LET e == flag_requests[h]
        changed == e.row # Enabled(e.enabled)
        is_kill_switch == e.flag = KILL_SWITCH
        on == is_kill_switch /\ e.enabled /\ ~kill_switch
    IN  /\ e.pc = "write"
        /\ feature_flags' = IF changed
               THEN [feature_flags EXCEPT ![e.flag] = Enabled(e.enabled)] ELSE feature_flags
        /\ kill_switch' = IF is_kill_switch THEN e.enabled ELSE kill_switch
        /\ told' = IF on THEN {} ELSE told
        /\ flag_requests' = [flag_requests EXCEPT ![h] =
              [Idle EXCEPT !.pc = IF Announces(e) THEN "agents" ELSE "answer",
                           !.alone = e.alone, !.turned_on = on,
                           !.known = IF on THEN fleet ELSE {}]]
        /\ UNCHANGED fleet

ListAgents(h) ==
    /\ flag_requests[h].pc = "agents"
    /\ flag_requests' = [flag_requests EXCEPT ![h].todo = fleet, ![h].pc = "send"]
    /\ UNCHANGED <<feature_flags, kill_switch, fleet, told>>

\* enqueue(DEVICE_FORCE_OBSERVE), each in a transaction of its own.
SendObserve(h) ==
    LET e == flag_requests[h] IN
    /\ e.pc = "send"
    /\ IF e.todo = {}
       THEN /\ flag_requests' = [flag_requests EXCEPT ![h].pc = "answer"]
            /\ UNCHANGED told
       ELSE \E a \in e.todo :
            /\ told' = told \cup {a}
            /\ flag_requests' = [flag_requests EXCEPT ![h].todo = @ \ {a}]
    /\ UNCHANGED <<feature_flags, kill_switch, fleet>>

AnswerSet(h) ==
    /\ flag_requests[h].pc = "answer"
    /\ Answered(h)
    /\ UNCHANGED <<feature_flags, kill_switch, fleet, told>>

FlagRequestDies(h) ==
    /\ flag_requests[h].pc \notin {"idle", "answer"}
    /\ Answered(h)
    /\ UNCHANGED <<feature_flags, kill_switch, fleet, told>>

FlagNext ==
    \/ \E a \in FleetAgents : RegisterFleetAgent(a)
    \/ \E h \in FlagThreads, op \in {"list", "create", "set", "kill-switch"}, f \in Flags,
          enabled, confirm \in BOOLEAN :
             /\ op \in {"list", "kill-switch"} => f = KILL_SWITCH /\ confirm
             /\ op = "list" => enabled
             /\ Begin(h, op, f, enabled, confirm)
    \/ \E h \in FlagThreads :
          \/ EnsureRead(h) \/ EnsureWrite(h) \/ EnsureAgain(h)
          \/ ListFlags(h) \/ CreateFlag(h) \/ ReadFlag(h) \/ WriteFlag(h)
          \/ ListAgents(h) \/ SendObserve(h) \/ AnswerSet(h) \/ FlagRequestDies(h)

FlagSpec == FlagInit /\ [][FlagNext]_flagVars

----------------------------------------------------------------------------
(* A request that overlapped no other one and was not cut short has told   *)
(* every agent it turned the switch on for to observe when it answers      *)
(* ("emits DEVICE_FORCE_OBSERVE commands", README); the row it shows to an *)
(* administrator is then the state the device policy obeys, whatever the   *)
(* overlaps and crashes before it left there; and it never turns the       *)
(* switch without the confirmation that a high risk asks for.              *)
SwitchIsKept ==
    \A h \in FlagThreads :
        LET e == flag_requests[h] IN
        e.alone =>
            /\ e.pc = "answer" /\ e.turned_on => e.known \subseteq told
            /\ e.pc \in {"list", "again", "set", "write"} =>
                  feature_flags[KILL_SWITCH] = Enabled(kill_switch)
            /\ e.pc = "write" /\ e.flag = KILL_SWITCH /\ e.enabled # kill_switch => e.confirm

=============================================================================
