---------------------------- MODULE FleetMonitor ----------------------------
(***************************************************************************)
(* Agents that are seen and agents that are missed: heartbeats, the        *)
(* offline check with its alerts, and retention.  run_offline_check reads  *)
(* the agents in autocommit mode; its first UPDATE opens the transaction   *)
(* that marks them all and raises the alerts.                              *)
(***************************************************************************)
EXTENDS FiniteSets, Naturals

CONSTANTS
    Endpoints,  \* agents
    Watchers    \* server threads that run the offline check

VARIABLES
    fresh,           \* agents whose last_seen is younger than the threshold
    agent_status,    \* agents.status
    offline_alerts,  \* OPEN alerts of type AGENT_OFFLINE, by agent
    watchers         \* checks in flight: [pc, stale: agents read as overdue, open: agents
                     \*  with an open alert at that time]

fleetVars == <<fresh, agent_status, offline_alerts, watchers>>

IdleWatcher == [pc |-> "idle", stale |-> {}, open |-> {}]

FleetInit ==
    /\ fresh = Endpoints
    /\ agent_status = [a \in Endpoints |-> "ONLINE"]
    /\ offline_alerts = [a \in Endpoints |-> 0]
    /\ watchers = [w \in Watchers |-> IdleWatcher]

GoesSilent(a) ==
    /\ a \in fresh
    /\ fresh' = fresh \ {a}
    /\ UNCHANGED <<agent_status, offline_alerts, watchers>>

Heartbeat(a) ==
    /\ fresh' = fresh \cup {a}
    /\ agent_status' = [agent_status EXCEPT ![a] = "ONLINE"]
    /\ UNCHANGED <<offline_alerts, watchers>>

ReadLastSeen(w) ==
    /\ watchers[w].pc = "idle"
    /\ watchers' = [watchers EXCEPT ![w] =
          [pc |-> "mark", stale |-> Endpoints \ fresh,
           open |-> {a \in Endpoints : offline_alerts[a] > 0}]]
    /\ UNCHANGED <<fresh, agent_status, offline_alerts>>

\* (a mutant: the open alerts are read with the agents)
OpenWhenRead(watcher) == watcher.open

\* An agent with an open alert gets no second one; looked up within the
\* transaction.
OpenAlerts(watcher) == {a \in Endpoints : offline_alerts[a] > 0}

MarkAgents(w) ==
    LET stale == watchers[w].stale IN
    /\ watchers[w].pc = "mark"
    /\ agent_status' = [a \in Endpoints |-> IF a \in stale THEN "OFFLINE" ELSE "ONLINE"]
    /\ offline_alerts' = [a \in Endpoints |->
          IF a \in stale \ OpenAlerts(watchers[w]) THEN offline_alerts[a] + 1
          ELSE offline_alerts[a]]
    /\ watchers' = [watchers EXCEPT ![w] = IdleWatcher]
    /\ UNCHANGED fresh

\* RetentionService.run deletes alerts by their age, open ones too.
RunRetention(a) ==
    /\ offline_alerts[a] > 0
    /\ offline_alerts' = [offline_alerts EXCEPT ![a] = @ - 1]
    /\ UNCHANGED <<fresh, agent_status, watchers>>

WatcherDies(w) ==
    /\ watchers[w].pc # "idle"
    /\ watchers' = [watchers EXCEPT ![w] = IdleWatcher]
    /\ UNCHANGED <<fresh, agent_status, offline_alerts>>

FleetNext ==
    \/ \E a \in Endpoints : GoesSilent(a) \/ Heartbeat(a) \/ RunRetention(a)
    \/ \E w \in Watchers : ReadLastSeen(w) \/ MarkAgents(w) \/ WatcherDies(w)

FleetSpec == FleetInit /\ [][FleetNext]_fleetVars

----------------------------------------------------------------------------
(* Checks that overlap raise one alert for an agent that is gone: an agent *)
(* never has two open AGENT_OFFLINE alerts.                                *)
OneAlertPerOutage == \A a \in Endpoints : offline_alerts[a] <= 1

=============================================================================
