------------------------------ MODULE Accounts ------------------------------
(***************************************************************************)
(* User accounts of the server (UserService and the /admin/users routes).  *)
(* A request is admitted on one connection, reads its target on a second,  *)
(* may count the other administrators on a third and writes on a fourth:   *)
(* what it read may have changed when it writes.  ANALYST and VIEWER are   *)
(* one role here: no handler below tells them apart.                       *)
(***************************************************************************)
EXTENDS FiniteSets

CONSTANTS
    UserIds,      \* ids of accounts (AUTOINCREMENT: never given out twice)
    UserThreads,  \* server threads that serve the requests
    NoUser

VARIABLES
    users,          \* table users
    user_requests   \* requests in flight; alone: no other was in flight (history)

accountVars == <<users, user_requests>>

Free == [role |-> "none", is_active |-> FALSE, must_reset |-> FALSE]
IdleRequest == [pc |-> "idle", op |-> "none", actor |-> NoUser, target |-> NoUser,
                alone |-> TRUE]

Account == [role : {"ADMIN", "OTHER"}, is_active : BOOLEAN, must_reset : BOOLEAN]
Active(role) == [role |-> role, is_active |-> TRUE, must_reset |-> FALSE]

Removals == {"make_other", "disable", "delete"}
Operations == Removals \cup
    {"make_admin", "enable", "reset_password", "set_password", "password"}

ActiveAdmins == {u \in UserIds : users[u].role = "ADMIN" /\ users[u].is_active}

\* _handle_bootstrap_admin creates the first administrator; another exists.
AccountInit ==
    /\ \E u \in UserIds :
          users = [v \in UserIds |-> IF v = u THEN Active("ADMIN") ELSE Free]
    /\ user_requests = [h \in UserThreads |-> IdleRequest]

Respond(h) == user_requests' = [user_requests EXCEPT ![h] = IdleRequest]

Step(h, pc) == user_requests' = [user_requests EXCEPT ![h].pc = pc]

\* get_current_user and require_admin.  Only the password may be changed by a
\* user who is not an administrator or whose password has been reset.
Admitted(u, op) ==
    /\ users[u].is_active
    /\ op = "password" \/ (users[u].role = "ADMIN" /\ ~users[u].must_reset)

Admit(h, u, op, v) ==
    /\ user_requests[h].pc = "idle"
    /\ Admitted(u, op)
    /\ op = "password" => u = v
    /\ LET free == \A g \in UserThreads : user_requests[g].pc = "idle"
           begun == [pc |-> "target", op |-> op, actor |-> u, target |-> v, alone |-> free]
       IN  user_requests' = [g \in UserThreads |->
               IF g = h THEN begun ELSE [user_requests[g] EXCEPT !.alone =
                   @ /\ user_requests[g].pc = "idle"]]
    /\ UNCHANGED users

\* admin_create_user: one INSERT once its administrator is admitted.
CreateUser(u, v, row) ==
    /\ Admitted(u, "create")
    /\ users[v] = Free
    /\ users' = [users EXCEPT ![v] = row]
    /\ UNCHANGED user_requests

OwnAccountToo(e) == TRUE

\* "Cannot remove own admin role", "Cannot disable own account" and "Cannot
\* delete own account".
OwnAccountKept(e) == e.op \in Removals => e.target # e.actor

\* get_by_id and the checks made on the row it returned.
ReadTarget(h) ==
    LET e == user_requests[h]
        row == users[e.target]
    IN  /\ e.pc = "target"
        /\ IF row = Free \/ ~OwnAccountKept(e)
           THEN Respond(h)
           ELSE Step(h, IF /\ e.op \in {"disable", "delete"}
                           /\ row.role = "ADMIN" /\ row.is_active
                        THEN "count" ELSE "write")
        /\ UNCHANGED users

\* "Cannot disable last active admin", "Cannot delete last active admin".
CountAdmins(h) ==
    LET e == user_requests[h] IN
    /\ e.pc = "count"
    /\ IF ActiveAdmins \ {e.target} = {} THEN Respond(h) ELSE Step(h, "write")
    /\ UNCHANGED users

Changed(row, op) ==
    CASE op = "make_admin"     -> [row EXCEPT !.role = "ADMIN"]
      [] op = "make_other"     -> [row EXCEPT !.role = "OTHER"]
      [] op = "enable"         -> [row EXCEPT !.is_active = TRUE]
      [] op = "disable"        -> [row EXCEPT !.is_active = FALSE]
      [] op = "reset_password" -> [row EXCEPT !.must_reset = TRUE]
      [] op \in {"password", "set_password"} -> [row EXCEPT !.must_reset = FALSE]
      [] op = "delete"         -> [Free EXCEPT !.role = "deleted"]

\* The UPDATE or DELETE by id, which touches no row that is gone.
WriteUser(h) ==
    LET e == user_requests[h] IN
    /\ e.pc = "write"
    /\ users' = IF users[e.target].role = "deleted" THEN users
                ELSE [users EXCEPT ![e.target] = Changed(@, e.op)]
    /\ Respond(h)

\* USER_DELETE_CONFLICT (rows of other tables name the user), a wrong current
\* password, and a handler that dies.
RequestFails(h) ==
    /\ user_requests[h].pc = "write"
    /\ Respond(h)
    /\ UNCHANGED users

\* The server starts: _handle_bootstrap_admin when the table is empty.
ServerStart ==
    /\ user_requests' = [h \in UserThreads |-> IdleRequest]
    /\ IF \E u \in UserIds : users[u].role \notin {"none", "deleted"}
       THEN UNCHANGED users
       ELSE \E u \in UserIds : users[u] = Free /\ users' = [users EXCEPT ![u] = Active("ADMIN")]

AccountNext ==
    \/ \E h \in UserThreads, u, v \in UserIds, op \in Operations : Admit(h, u, op, v)
    \/ \E u, v \in UserIds, row \in Account : CreateUser(u, v, row)
    \/ \E h \in UserThreads :
          ReadTarget(h) \/ CountAdmins(h) \/ WriteUser(h) \/ RequestFails(h)
    \/ ServerStart

AccountSpec == AccountInit /\ [][AccountNext]_accountVars

----------------------------------------------------------------------------
(* Only requests that overlap can leave the server without an active       *)
(* administrator: one that is served alone never takes away the last, with *)
(* any of the three ways to remove one, whatever overlapped before it.     *)
LastAdminStays ==
    ActiveAdmins = {} \/ ActiveAdmins' # {} \/
        \E h \in UserThreads : user_requests[h].pc = "write" /\ ~user_requests[h].alone

AdminsKept == [][LastAdminStays]_accountVars

=============================================================================
