----------------------------- MODULE BreakGlass -----------------------------
(***************************************************************************)
(* Break-glass emergency sessions (BreakGlassService).  Each handler       *)
(* starts its transaction with the UPDATE of _touch_expired_with_conn and  *)
(* so is one step after the password check; a session past its expiry      *)
(* still reads ACTIVE until a handler commits that mark.                   *)
(***************************************************************************)
EXTENDS Naturals

CONSTANTS
    SessionKeys,   \* idempotency keys; one session each, the column is UNIQUE
    SessionBodies, \* request bodies, as far as request_hash tells them apart
    Operators,     \* administrators
    Consoles,      \* server threads that serve create_session
    NoOperator

ASSUME GlassAssumption == NoOperator \notin Operators

VARIABLES
    sessions,   \* table break_glass_sessions
    overdue,    \* sessions whose expires_at has passed by the handlers' clock
    reauthed,   \* create_session handlers that have verified the password
    secrets     \* tokens given out for each session (history)

glassVars == <<sessions, overdue, reauthed, secrets>>

NoSession == [status |-> "none", body |-> NoOperator, revoked_by |-> NoOperator,
              ended |-> FALSE]
NoReauth == [key |-> NoOperator, body |-> NoOperator]

GlassInit ==
    /\ sessions = [k \in SessionKeys |-> NoSession]
    /\ overdue = {}
    /\ reauthed = [c \in Consoles |-> NoReauth]
    /\ secrets = [k \in SessionKeys |-> 0]

TimePasses(k) ==
    /\ sessions[k].status # "none" /\ k \notin overdue
    /\ overdue' = overdue \cup {k}
    /\ UNCHANGED <<sessions, reauthed, secrets>>

Untouched(table) == table

\* _touch_expired_with_conn.
Touched(table) ==
    [k \in SessionKeys |->
        IF table[k].status = "ACTIVE" /\ k \in overdue
        THEN [table[k] EXCEPT !.status = "EXPIRED", !.ended = TRUE] ELSE table[k]]

\* A list request with a wrong status raises after the UPDATE and undoes it.
ListSessions ==
    /\ sessions' = Touched(sessions)
    /\ UNCHANGED <<overdue, reauthed, secrets>>

\* verify_credentials, on a connection of its own.
Reauthenticate(c, k, b) ==
    /\ reauthed[c] = NoReauth
    /\ reauthed' = [reauthed EXCEPT ![c] = [key |-> k, body |-> b]]
    /\ UNCHANGED <<sessions, overdue, secrets>>

KeyIsNew(row) == row.status = "none"

\* Only the request that inserts the session answers with its token; the
\* IDEMPOTENCY_KEY_CONFLICT of another body undoes the marks.
CreateSession(c) ==
    LET e == reauthed[c]
        new == KeyIsNew(Touched(sessions)[e.key])
        conflict == ~new /\ sessions[e.key].body # e.body
    IN  /\ e # NoReauth
        /\ sessions' = IF conflict THEN sessions
              ELSE IF new
              THEN [Touched(sessions) EXCEPT ![e.key] =
                      [NoSession EXCEPT !.status = "ACTIVE", !.body = e.body]]
              ELSE Touched(sessions)
        /\ secrets' = IF new THEN [secrets EXCEPT ![e.key] = @ + 1] ELSE secrets
        /\ reauthed' = [reauthed EXCEPT ![c] = NoReauth]
        /\ UNCHANGED overdue

ConsoleDies(c) ==
    /\ reauthed[c] # NoReauth
    /\ reauthed' = [reauthed EXCEPT ![c] = NoReauth]
    /\ UNCHANGED <<sessions, overdue, secrets>>

\* A session that has ended is answered as it is.
RevokeSession(k, u) ==
    /\ sessions[k].status # "none"
    /\ sessions' = [Touched(sessions) EXCEPT ![k] =
          IF @.status = "ACTIVE"
          THEN [@ EXCEPT !.status = "REVOKED", !.revoked_by = u, !.ended = TRUE] ELSE @]
    /\ UNCHANGED <<overdue, reauthed, secrets>>

GlassNext ==
    \/ ListSessions
    \/ \E k \in SessionKeys : TimePasses(k)
    \/ \E k \in SessionKeys, u \in Operators : RevokeSession(k, u)
    \/ \E c \in Consoles, k \in SessionKeys, b \in SessionBodies : Reauthenticate(c, k, b)
    \/ \E c \in Consoles : CreateSession(c) \/ ConsoleDies(c)

GlassSpec == GlassInit /\ [][GlassNext]_glassVars

----------------------------------------------------------------------------
(* A session ends once: by its time, or revoked by a named administrator   *)
(* before its time, and a row that has ended never changes again; its      *)
(* token is given out once, for all the requests under its key.            *)
EndsOnce ==
    \A k \in SessionKeys :
        /\ secrets'[k] <= 1
        /\ sessions[k].status \in {"EXPIRED", "REVOKED"} => sessions'[k] = sessions[k]
        /\ sessions[k].status = "ACTIVE" /\ sessions'[k].status = "REVOKED" =>
               k \notin overdue /\ sessions'[k].revoked_by # NoOperator
        /\ sessions[k].status = "ACTIVE" /\ sessions'[k].status = "EXPIRED" => k \in overdue

SessionsEndOnce == [][EndsOnce]_glassVars

=============================================================================
