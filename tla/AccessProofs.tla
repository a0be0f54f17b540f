----------------------------- MODULE AccessProofs -----------------------------
(***************************************************************************)
(* Break-glass sessions, accounts, unblock requests and allow tokens, for  *)
(* any number of sessions, users, requests, tokens and server threads.     *)
(***************************************************************************)
EXTENDS BreakGlass, Accounts, UnblockRequests, AllowTokens, FiniteSetTheorems, TLAPS

----------------------------------------------------------------------------
(* Break-glass sessions.                                                   *)

SessionRows == [status : {"none", "ACTIVE", "EXPIRED", "REVOKED"},
                body : SessionBodies \cup {NoOperator},
                revoked_by : Operators \cup {NoOperator}, ended : BOOLEAN]

GlassTypeOK ==
    /\ sessions \in [SessionKeys -> SessionRows]
    /\ secrets \in [SessionKeys -> Nat]
    /\ reauthed \in [Consoles -> [key : SessionKeys, body : SessionBodies] \cup {NoReauth}]

\* A token is given out with the row of its session and not before.
GlassInv ==
    /\ GlassTypeOK
    /\ \A k \in SessionKeys :
          secrets[k] <= 1 /\ (sessions[k].status = "none" => secrets[k] = 0)

\* The mark of _touch_expired_with_conn on one row.
LEMMA TouchedRow ==
    ASSUME GlassTypeOK, NEW k \in SessionKeys
    PROVE  /\ Touched(sessions) \in [SessionKeys -> SessionRows]
           /\ Touched(sessions)[k].revoked_by = sessions[k].revoked_by
           /\ Touched(sessions)[k].status =
                 IF sessions[k].status = "ACTIVE" /\ k \in overdue THEN "EXPIRED"
                 ELSE sessions[k].status
           /\ ~(sessions[k].status = "ACTIVE" /\ k \in overdue) =>
                 Touched(sessions)[k] = sessions[k]
BY DEF GlassTypeOK, Touched, SessionRows

LEMMA GlassStep ==
    ASSUME GlassInv, [GlassNext]_glassVars
    PROVE  GlassInv' /\ [EndsOnce]_glassVars
<1>t. GlassTypeOK
  BY DEF GlassInv
<1>0. CASE UNCHANGED glassVars
  BY <1>0 DEF glassVars, GlassInv, GlassTypeOK
<1>1. ASSUME UNCHANGED <<sessions, secrets>>,
             reauthed' \in [Consoles -> [key : SessionKeys, body : SessionBodies] \cup {NoReauth}]
      PROVE  GlassInv' /\ EndsOnce
  BY <1>1 DEF GlassInv, GlassTypeOK, EndsOnce
<1>2. ASSUME NEW k \in SessionKeys, TimePasses(k) PROVE GlassInv' /\ EndsOnce
  BY <1>1, <1>2, <1>t DEF TimePasses, GlassTypeOK
<1>3. ASSUME NEW c \in Consoles, NEW k \in SessionKeys, NEW b \in SessionBodies,
             Reauthenticate(c, k, b)
      PROVE  GlassInv' /\ EndsOnce
  BY <1>1, <1>3, <1>t DEF Reauthenticate, GlassTypeOK
<1>4. ASSUME NEW c \in Consoles, ConsoleDies(c) PROVE GlassInv' /\ EndsOnce
  BY <1>1, <1>4, <1>t DEF ConsoleDies, GlassTypeOK
<1>5. ASSUME ListSessions PROVE GlassInv' /\ EndsOnce
  <2>1. sessions' = Touched(sessions) /\ secrets' = secrets /\ reauthed' = reauthed
    BY <1>5 DEF ListSessions
  <2>2. GlassInv'
    <3>1. GlassTypeOK'
      <4>1. Touched(sessions) \in [SessionKeys -> SessionRows]
        BY <1>t DEF GlassTypeOK, Touched, SessionRows
      <4> QED
        BY <1>t, <2>1, <4>1 DEF GlassTypeOK
    <3>2. \A k \in SessionKeys : Touched(sessions)[k].status = "none" => sessions[k].status = "none"
      BY <1>t, TouchedRow
    <3> QED
      BY <2>1, <3>1, <3>2 DEF GlassInv
  <2>3. EndsOnce
    BY <1>t, <2>1, TouchedRow DEF GlassInv, EndsOnce
  <2> QED
    BY <2>2, <2>3
<1>6. ASSUME NEW k \in SessionKeys, NEW u \in Operators, RevokeSession(k, u)
      PROVE  GlassInv' /\ EndsOnce
  <2> DEFINE row == Touched(sessions)[k]
             new == IF row.status = "ACTIVE"
                    THEN [row EXCEPT !.status = "REVOKED", !.revoked_by = u, !.ended = TRUE]
                    ELSE row
  <2>1. /\ sessions' = [Touched(sessions) EXCEPT ![k] = new]
        /\ secrets' = secrets /\ reauthed' = reauthed /\ sessions[k].status # "none"
    BY <1>6 DEF RevokeSession
  <2>2. row \in SessionRows
    BY <1>t, TouchedRow
  <2>3. /\ new \in SessionRows
        /\ row.status = "ACTIVE" => new.status = "REVOKED" /\ new.revoked_by = u
        /\ row.status # "ACTIVE" => new = row
    BY <2>2 DEF SessionRows
  <2> HIDE DEF new
  <2>4. /\ sessions' \in [SessionKeys -> SessionRows]
        /\ \A q \in SessionKeys : sessions'[q] = IF q = k THEN new ELSE Touched(sessions)[q]
    BY <1>t, <2>1, <2>3, TouchedRow
  <2>5. GlassInv'
    BY <1>t, <2>1, <2>3, <2>4, TouchedRow DEF GlassInv, GlassTypeOK
  <2>6. EndsOnce
    BY <1>t, <2>1, <2>3, <2>4, TouchedRow, GlassAssumption DEF GlassInv, EndsOnce
  <2> QED
    BY <2>5, <2>6
<1>7. ASSUME NEW c \in Consoles, CreateSession(c) PROVE GlassInv' /\ EndsOnce
  <2> DEFINE e == reauthed[c]
             k == e.key
             row == [NoSession EXCEPT !.status = "ACTIVE", !.body = e.body]
             new == sessions[k].status = "none"
  <2>1. e \in [key : SessionKeys, body : SessionBodies] /\ k \in SessionKeys
    BY <1>7, <1>t DEF CreateSession, GlassTypeOK
  <2>2. row \in SessionRows /\ row.status = "ACTIVE"
    BY <2>1 DEF SessionRows, NoSession
  <2>3. KeyIsNew(Touched(sessions)[k]) <=> new
    BY <1>t, <2>1, TouchedRow DEF KeyIsNew
  <2>4. reauthed' \in [Consoles -> [key : SessionKeys, body : SessionBodies] \cup {NoReauth}]
    BY <1>7, <1>t DEF CreateSession, GlassTypeOK
  <2> HIDE DEF row
  <2>5. CASE new
    <3>1. /\ sessions' = [Touched(sessions) EXCEPT ![k] = row]
          /\ secrets' = [secrets EXCEPT ![k] = secrets[k] + 1]
      BY <1>7, <2>3, <2>5 DEF CreateSession, row
    <3>2. /\ sessions' \in [SessionKeys -> SessionRows]
          /\ \A q \in SessionKeys : sessions'[q] = IF q = k THEN row ELSE Touched(sessions)[q]
      BY <1>t, <2>1, <2>2, <3>1, TouchedRow
    <3>3. /\ secrets' \in [SessionKeys -> Nat]
          /\ \A q \in SessionKeys : secrets'[q] = IF q = k THEN 1 ELSE secrets[q]
      BY <2>1, <2>5, <3>1 DEF GlassInv, GlassTypeOK
    <3>4. GlassInv'
      BY <1>t, <2>2, <2>4, <3>2, <3>3, TouchedRow DEF GlassInv, GlassTypeOK
    <3>5. EndsOnce
      BY <1>t, <2>2, <2>5, <3>2, <3>3, TouchedRow DEF GlassInv, EndsOnce
    <3> QED
      BY <3>4, <3>5
  <2>6. CASE ~new
    <3>1. secrets' = secrets /\ sessions' \in {sessions, Touched(sessions)}
      BY <1>7, <2>3, <2>6 DEF CreateSession
    <3>2. GlassInv'
      <4>1. Touched(sessions) \in [SessionKeys -> SessionRows]
        BY <1>t DEF GlassTypeOK, Touched, SessionRows
      <4>2. GlassTypeOK'
        BY <1>t, <2>4, <3>1, <4>1 DEF GlassTypeOK
      <4>3. \A q \in SessionKeys :
               Touched(sessions)[q].status = "none" => sessions[q].status = "none"
        BY <1>t, TouchedRow
      <4> QED
        BY <3>1, <4>2, <4>3 DEF GlassInv
    <3>3. EndsOnce
      BY <1>t, <3>1, TouchedRow DEF GlassInv, EndsOnce
    <3> QED
      BY <3>2, <3>3
  <2> QED
    BY <2>5, <2>6
<1> QED
  BY <1>0, <1>2, <1>3, <1>4, <1>5, <1>6, <1>7 DEF GlassNext

(* A break-glass session ends once, by its time or revoked before it, and  *)
(* its token is given out once (BreakGlassService).                        *)
THEOREM EndsAreUnique == GlassSpec => SessionsEndOnce
<1>1. GlassInit => GlassInv
  BY DEF GlassInit, GlassInv, GlassTypeOK, NoSession, SessionRows
<1> QED
  BY <1>1, GlassStep, PTL DEF GlassSpec, SessionsEndOnce

----------------------------------------------------------------------------
(* Accounts.                                                               *)

UserRows == [role : {"none", "ADMIN", "OTHER", "deleted"}, is_active : BOOLEAN,
             must_reset : BOOLEAN]
UserRequests == [pc : {"idle", "target", "count", "write"}, op : Operations \cup {"none"},
                 actor : UserIds \cup {NoUser}, target : UserIds \cup {NoUser},
                 alone : BOOLEAN]

AccountTypeOK ==
    /\ users \in [UserIds -> UserRows]
    /\ user_requests \in [UserThreads -> UserRequests]

\* The administrator behind a request that is served alone is still one.
Admin(row) == row.role = "ADMIN" /\ row.is_active
Named(e) ==
    /\ e.op \in Operations /\ e.actor \in UserIds /\ e.target \in UserIds
    /\ e.pc \in {"count", "write"} => OwnAccountKept(e)
ServedAlone(h, table, requests) ==
    /\ \A g \in UserThreads : g # h => requests[g].pc = "idle"
    /\ requests[h].op = "password" \/ Admin(table[requests[h].actor])

AccountInv ==
    /\ AccountTypeOK
    /\ \A h \in UserThreads : user_requests[h].pc # "idle" =>
          /\ Named(user_requests[h])
          /\ user_requests[h].alone => ServedAlone(h, users, user_requests)

LEMMA AdminsAre == ActiveAdmins = {u \in UserIds : Admin(users[u])}
BY DEF ActiveAdmins, Admin

LEMMA IdleTypes == IdleRequest \in UserRequests /\ IdleRequest.pc = "idle"
BY DEF IdleRequest, UserRequests

\* A request that is answered leaves the table as it is or is the only one.
LEMMA Responds ==
    ASSUME AccountInv, NEW h \in UserThreads, user_requests[h].pc # "idle", Respond(h),
           users' \in [UserIds -> UserRows]
    PROVE  AccountInv'
<1>1. /\ user_requests' \in [UserThreads -> UserRequests]
      /\ \A g \in UserThreads :
            user_requests'[g] = IF g = h THEN IdleRequest ELSE user_requests[g]
  BY IdleTypes DEF AccountInv, AccountTypeOK, Respond
<1>2. \A g \in UserThreads : user_requests'[g].pc # "idle" =>
         g # h /\ user_requests'[g] = user_requests[g] /\ ~user_requests[g].alone
  BY <1>1, IdleTypes DEF AccountInv, ServedAlone
<1> QED
  BY <1>1, <1>2 DEF AccountInv, AccountTypeOK

LEMMA StepsOn ==
    ASSUME AccountInv, NEW h \in UserThreads, NEW pc \in {"count", "write"}, Step(h, pc),
           user_requests[h].pc # "idle", OwnAccountKept(user_requests[h]), users' = users
    PROVE  AccountInv'
<1>1. user_requests[h] \in UserRequests
  BY DEF AccountInv, AccountTypeOK
<1> DEFINE e == [user_requests[h] EXCEPT !.pc = pc]
<1>2. /\ e \in UserRequests /\ e.pc = pc /\ e.op = user_requests[h].op
      /\ e.actor = user_requests[h].actor /\ e.target = user_requests[h].target
      /\ e.alone = user_requests[h].alone
  BY <1>1 DEF UserRequests
<1>3. user_requests' = [user_requests EXCEPT ![h] = e]
  BY DEF Step
<1> HIDE DEF e
<1>4. /\ user_requests' \in [UserThreads -> UserRequests]
      /\ \A g \in UserThreads : user_requests'[g] = IF g = h THEN e ELSE user_requests[g]
  BY <1>2, <1>3 DEF AccountInv, AccountTypeOK
<1>5. AccountTypeOK'
  BY <1>4 DEF AccountInv, AccountTypeOK
<1>6. ASSUME NEW g \in UserThreads, user_requests'[g].pc # "idle"
      PROVE  /\ Named(user_requests'[g])
             /\ user_requests'[g].alone => ServedAlone(g, users', user_requests')
  <2>1. CASE g = h
    BY <2>1, <1>2, <1>4 DEF AccountInv, Named, OwnAccountKept, ServedAlone
  <2>2. CASE g # h
    BY <2>2, <1>4, <1>6 DEF AccountInv, ServedAlone
  <2> QED
    BY <2>1, <2>2
<1> QED
  BY <1>5, <1>6 DEF AccountInv

LEMMA AdmitStep ==
    ASSUME AccountInv, NEW h \in UserThreads, NEW u \in UserIds, NEW v \in UserIds,
           NEW op \in Operations, Admit(h, u, op, v)
    PROVE  AccountInv'
<1> DEFINE free == \A g \in UserThreads : user_requests[g].pc = "idle"
           begun == [pc |-> "target", op |-> op, actor |-> u, target |-> v, alone |-> free]
           other(g) == [user_requests[g] EXCEPT
                           !.alone = user_requests[g].alone /\ user_requests[g].pc = "idle"]
<1>1. user_requests' = [g \in UserThreads |-> IF g = h THEN begun ELSE other(g)]
  BY DEF Admit
<1>2. begun \in UserRequests /\ begun.pc = "target" /\ begun.alone = free
  BY DEF UserRequests
<1>3. ASSUME NEW g \in UserThreads
      PROVE  /\ other(g) \in UserRequests /\ other(g).pc = user_requests[g].pc
             /\ other(g).op = user_requests[g].op /\ other(g).actor = user_requests[g].actor
             /\ other(g).target = user_requests[g].target
             /\ other(g).alone = (user_requests[g].alone /\ user_requests[g].pc = "idle")
  BY DEF AccountInv, AccountTypeOK, UserRequests
<1>4. begun.op = op /\ begun.actor = u /\ begun.target = v
  OBVIOUS
<1>5. op = "password" \/ Admin(users[u])
  BY DEF Admit, Admitted, Admin
<1> HIDE DEF begun, other, free
<1>6. user_requests' \in [UserThreads -> UserRequests]
  BY <1>1, <1>2, <1>3
<1>7. /\ user_requests'[h] = begun
      /\ \A g \in UserThreads : g # h => user_requests'[g] = other(g)
  BY <1>1
<1>8. users' = users
  BY DEF Admit
<1>9. ASSUME NEW g \in UserThreads, user_requests'[g].pc # "idle"
      PROVE  /\ Named(user_requests'[g])
             /\ user_requests'[g].alone => ServedAlone(g, users', user_requests')
  <2>1. CASE g = h
    <3>1. Named(begun)
      BY <1>2, <1>4 DEF Named
    <3>2. free => \A k \in UserThreads : k # h => user_requests'[k].pc = "idle"
      BY <1>3, <1>7 DEF free
    <3> QED
      BY <2>1, <3>1, <3>2, <1>2, <1>4, <1>5, <1>7, <1>8 DEF ServedAlone
  <2>2. CASE g # h
    <3>1. user_requests[g].pc # "idle" /\ ~user_requests'[g].alone
      BY <2>2, <1>3, <1>7, <1>9
    <3>2. Named(user_requests'[g])
      BY <2>2, <3>1, <1>3, <1>7 DEF AccountInv, Named, OwnAccountKept
    <3> QED
      BY <3>1, <3>2
  <2> QED
    BY <2>1, <2>2
<1> QED
  BY <1>6, <1>8, <1>9 DEF AccountInv, AccountTypeOK

LEMMA AccountStep ==
    ASSUME AccountInv, [AccountNext]_accountVars
    PROVE  AccountInv' /\ [LastAdminStays]_accountVars
<1>t. users \in [UserIds -> UserRows] /\ user_requests \in [UserThreads -> UserRequests]
  BY DEF AccountInv, AccountTypeOK
<1>0. CASE UNCHANGED accountVars
  BY <1>0 DEF accountVars, AccountInv, AccountTypeOK
<1>k. ASSUME users' = users PROVE LastAdminStays
  BY <1>k DEF LastAdminStays, ActiveAdmins
<1>1. ASSUME NEW h \in UserThreads, NEW u \in UserIds, NEW v \in UserIds, NEW op \in Operations,
             Admit(h, u, op, v)
      PROVE  AccountInv' /\ LastAdminStays
  BY <1>1, <1>k, AdmitStep DEF Admit
<1>2. ASSUME NEW u \in UserIds, NEW v \in UserIds, NEW row \in Account, CreateUser(u, v, row)
      PROVE  AccountInv' /\ LastAdminStays
  <2>1. /\ users' = [users EXCEPT ![v] = row] /\ users[v] = Free
        /\ user_requests' = user_requests
    BY <1>2 DEF CreateUser
  <2>2. users' \in [UserIds -> UserRows]
    BY <1>t, <2>1 DEF Account, UserRows
  <2>3. \A w \in UserIds : Admin(users[w]) => Admin(users'[w])
    BY <1>t, <2>1 DEF Admin, Free
  <2>4. AccountInv'
    <3>1. ASSUME NEW h \in UserThreads, ServedAlone(h, users, user_requests),
                 user_requests[h].actor \in UserIds
          PROVE  ServedAlone(h, users', user_requests')
      BY <3>1, <2>1, <2>3 DEF ServedAlone
    <3> QED
      BY <1>t, <2>1, <2>2, <3>1 DEF AccountInv, AccountTypeOK, Named
  <2>5. LastAdminStays
    BY <2>3 DEF LastAdminStays, ActiveAdmins, Admin
  <2> QED
    BY <2>4, <2>5
<1>3. ASSUME NEW h \in UserThreads, ReadTarget(h) PROVE AccountInv' /\ LastAdminStays
  <2> DEFINE e == user_requests[h]
             row == users[e.target]
             pc == IF /\ e.op \in {"disable", "delete"} /\ row.role = "ADMIN" /\ row.is_active
                   THEN "count" ELSE "write"
  <2>1. users' = users /\ e.pc # "idle"
    BY <1>3 DEF ReadTarget
  <2>2. Respond(h) \/ (OwnAccountKept(e) /\ Step(h, pc))
    BY <1>3 DEF ReadTarget
  <2>3. pc \in {"count", "write"}
    OBVIOUS
  <2> HIDE DEF pc
  <2> QED
    BY <1>k, <1>t, <2>1, <2>2, <2>3, Responds, StepsOn
<1>4. ASSUME NEW h \in UserThreads, CountAdmins(h) PROVE AccountInv' /\ LastAdminStays
  <2>1. users' = users /\ user_requests[h].pc = "count" /\ (Respond(h) \/ Step(h, "write"))
    BY <1>4 DEF CountAdmins
  <2>2. OwnAccountKept(user_requests[h])
    BY <2>1 DEF AccountInv, Named
  <2> QED
    BY <1>k, <1>t, <2>1, <2>2, Responds, StepsOn
<1>5. ASSUME NEW h \in UserThreads, RequestFails(h) PROVE AccountInv' /\ LastAdminStays
  BY <1>5, <1>k, <1>t, Responds DEF RequestFails
<1>6. ASSUME NEW h \in UserThreads, WriteUser(h) PROVE AccountInv' /\ LastAdminStays
  <2> DEFINE e == user_requests[h]
             row == users[e.target]
             new == Changed(row, e.op)
  <2>1. e.pc = "write" /\ Respond(h)
    BY <1>6 DEF WriteUser
  <2>2. e.op \in Operations /\ e.actor \in UserIds /\ e.target \in UserIds /\ OwnAccountKept(e)
    BY <2>1 DEF AccountInv, Named
  <2>3. row \in UserRows
    BY <1>t, <2>2
  <2>4. /\ new \in UserRows
        /\ e.op \notin Removals /\ Admin(row) => Admin(new)
        /\ e.op = "password" => new.role = row.role /\ new.is_active = row.is_active
    BY <2>2, <2>3 DEF Changed, UserRows, Operations, Removals, Admin, Free
  <2>5. users' = users \/ users' = [users EXCEPT ![e.target] = new]
    BY <1>6 DEF WriteUser
  <2> HIDE DEF new
  <2>6. users' \in [UserIds -> UserRows]
    BY <1>t, <2>2, <2>4, <2>5
  <2>7. AccountInv'
    BY <2>1, <2>6, Responds
  <2>8. CASE users' = users
    BY <2>7, <2>8, <1>k
  <2>9. CASE users' = [users EXCEPT ![e.target] = new]
    <3>1. \A w \in UserIds : users'[w] = IF w = e.target THEN new ELSE users[w]
      BY <1>t, <2>9
    <3>2. CASE ~e.alone
      BY <3>2, <2>1, <2>7 DEF LastAdminStays
    <3>3. CASE e.op = "password"
      <4>1. \A w \in UserIds : Admin(users[w]) => Admin(users'[w])
        BY <3>1, <3>3, <2>4 DEF Admin
      <4> QED
        BY <4>1, <2>7 DEF LastAdminStays, ActiveAdmins, Admin
    <3>4. CASE e.alone /\ e.op # "password"
      <4>1. Admin(users[e.actor])
        BY <3>4, <2>1 DEF AccountInv, ServedAlone
      <4>2. Admin(users'[e.actor])
        BY <4>1, <3>1, <2>2, <2>4 DEF OwnAccountKept
      <4> QED
        BY <4>2, <2>2, <2>7 DEF LastAdminStays, ActiveAdmins, Admin
    <3> QED
      BY <2>7, <3>2, <3>3, <3>4
  <2> QED
    BY <2>5, <2>8, <2>9
<1>7. ASSUME ServerStart PROVE AccountInv' /\ LastAdminStays
  <2>1. /\ user_requests' \in [UserThreads -> UserRequests]
        /\ \A h \in UserThreads : user_requests'[h].pc = "idle"
    BY <1>7, IdleTypes DEF ServerStart
  <2>2. CASE users' = users
    BY <1>k, <1>t, <2>1, <2>2 DEF AccountInv, AccountTypeOK
  <2>3. CASE users' # users
    <3>1. /\ \A u \in UserIds : users[u].role \in {"none", "deleted"}
          /\ \E u \in UserIds : users' = [users EXCEPT ![u] = Active("ADMIN")]
      BY <1>7, <2>3 DEF ServerStart
    <3>2. users' \in [UserIds -> UserRows]
      BY <1>t, <3>1 DEF Active, UserRows
    <3>3. ActiveAdmins = {}
      BY <3>1 DEF ActiveAdmins
    <3> QED
      BY <2>1, <3>2, <3>3 DEF AccountInv, AccountTypeOK, LastAdminStays
  <2> QED
    BY <2>2, <2>3
<1> QED
  BY <1>0, <1>1, <1>2, <1>3, <1>4, <1>5, <1>6, <1>7 DEF AccountNext

(* A request that is served alone never takes away the last active         *)
(* administrator, for any number of users and threads (UserService).       *)
THEOREM LastAdminIsKept == AccountSpec => AdminsKept
<1>1. AccountInit => AccountInv
  <2> SUFFICES ASSUME AccountInit PROVE AccountInv
    OBVIOUS
  <2>1. users \in [UserIds -> UserRows]
    BY DEF AccountInit, Active, Free, UserRows
  <2>2. /\ user_requests \in [UserThreads -> UserRequests]
        /\ \A h \in UserThreads : user_requests[h].pc = "idle"
    BY IdleTypes DEF AccountInit
  <2> QED
    BY <2>1, <2>2 DEF AccountInv, AccountTypeOK
<1> QED
  BY <1>1, AccountStep, PTL DEF AccountSpec, AdminsKept

----------------------------------------------------------------------------
(* Unblock requests.                                                       *)

ReviewPcs == {"idle", "write", "issue", "enqueue", "enqueue_unblock"}
Reviews == [pc : ReviewPcs, request : UnblockIds \cup {NoRequest}, approved : BOOLEAN]

ReviewTypeOK ==
    /\ unblock_requests \in [UnblockIds -> {"none", "PENDING", "APPROVED", "DENIED"}]
    /\ reviewers \in [Reviewers -> Reviews]
    /\ issued \in [UnblockIds -> Nat] /\ sent \in [UnblockIds -> Nat]
    /\ \A v \in Reviewers : reviewers[v].pc # "idle" => reviewers[v].request \in UnblockIds

At(v, pcs, q, table) == table[v].pc \in pcs /\ table[v].request = q

\* Reviews that have issued their token and not sent their command yet.
Owing(q, table) == {v \in Reviewers : At(v, {"enqueue", "enqueue_unblock"}, q, table)}

Covered(q, table, tokens, orders) ==
    orders[q] + Cardinality(Owing(q, table)) <= tokens[q]

\* A request that is reviewed by one at a time.
Alone(q, table) == \A v, w \in Reviewers :
    At(v, ReviewPcs \ {"idle"}, q, table) /\ At(w, ReviewPcs \ {"idle"}, q, table) => v = w
Ordered(q, table, status, tokens) ==
    /\ tokens[q] <= 1
    /\ tokens[q] = 1 => status[q] = "APPROVED"
    /\ status[q] = "PENDING" => tokens[q] = 0
    /\ \A v \in Reviewers :
          /\ At(v, {"write"}, q, table) => status[q] = "PENDING"
          /\ At(v, {"issue"}, q, table) => status[q] = "APPROVED" /\ tokens[q] = 0

ReviewInv ==
    /\ ReviewTypeOK
    /\ \A q \in UnblockIds : Covered(q, reviewers, issued, sent)
    /\ \A q \in UnblockIds \cap Undisputed :
          /\ Alone(q, reviewers)
          /\ Ordered(q, reviewers, unblock_requests, issued)

LEMMA OwingIsFinite ==
    ASSUME NEW q, NEW table
    PROVE  IsFiniteSet(Owing(q, table)) /\ Cardinality(Owing(q, table)) \in Nat
<1>1. Owing(q, table) \subseteq Reviewers
  BY DEF Owing
<1> QED
  BY <1>1, ReviewAssumption, FS_Subset, FS_CardinalityType

\* One review moves from one step to another.
LEMMA ReviewMoves ==
    ASSUME ReviewTypeOK, NEW v \in Reviewers, NEW new \in Reviews,
           reviewers' = [reviewers EXCEPT ![v] = new],
           new.pc = "idle" \/ new.request \in UnblockIds
    PROVE  /\ reviewers' \in [Reviewers -> Reviews]
           /\ \A w \in Reviewers : reviewers'[w] = IF w = v THEN new ELSE reviewers[w]
           /\ \A w \in Reviewers : reviewers'[w].pc # "idle" => reviewers'[w].request \in UnblockIds
BY DEF ReviewTypeOK

\* What the set of owing reviews becomes when one of them moves.
Owes(e, q) == e.pc \in {"enqueue", "enqueue_unblock"} /\ e.request = q

LEMMA OwingChanges ==
    ASSUME NEW q, NEW table, NEW after, NEW v \in Reviewers,
           \A w \in Reviewers : w # v => after[w] = table[w]
    PROVE  /\ Owes(after[v], q) /\ ~Owes(table[v], q) =>
                 Cardinality(Owing(q, after)) = Cardinality(Owing(q, table)) + 1
           /\ ~Owes(after[v], q) /\ Owes(table[v], q) =>
                 Cardinality(Owing(q, after)) = Cardinality(Owing(q, table)) - 1
           /\ (Owes(after[v], q) <=> Owes(table[v], q)) =>
                 Cardinality(Owing(q, after)) = Cardinality(Owing(q, table))
<1>1. CASE Owes(after[v], q) /\ ~Owes(table[v], q)
  <2>1. Owing(q, after) = Owing(q, table) \cup {v} /\ v \notin Owing(q, table)
    BY <1>1 DEF Owing, At, Owes
  <2> QED
    BY <1>1, <2>1, OwingIsFinite, FS_AddElement
<1>2. CASE ~Owes(after[v], q) /\ Owes(table[v], q)
  <2>1. Owing(q, after) = Owing(q, table) \ {v} /\ v \in Owing(q, table)
    BY <1>2 DEF Owing, At, Owes
  <2> QED
    BY <1>2, <2>1, OwingIsFinite, FS_RemoveElement
<1>3. CASE Owes(after[v], q) <=> Owes(table[v], q)
  <2>1. Owing(q, after) = Owing(q, table)
    BY <1>3 DEF Owing, At, Owes
  <2> QED
    BY <1>3, <2>1
<1> QED
  BY <1>1, <1>2, <1>3

LEMMA ReviewStep ==
    ASSUME ReviewInv, [ReviewNext]_reviewVars
    PROVE  ReviewInv'
<1> USE DEF ReviewPcs
<1>t. ReviewTypeOK
  BY DEF ReviewInv
<1>n. NoReview \in Reviews /\ NoReview.pc = "idle"
  BY DEF NoReview, Reviews
<1>0. CASE UNCHANGED reviewVars
  BY <1>0 DEF reviewVars, ReviewInv, ReviewTypeOK
<1>1. ASSUME NEW q \in UnblockIds, CreateUnblockRequest(q) PROVE ReviewInv'
  <2>1. ReviewTypeOK'
    BY <1>1, <1>t DEF CreateUnblockRequest, ReviewTypeOK
  <2>2. \A k \in UnblockIds : unblock_requests'[k] = IF k = q THEN "PENDING" ELSE unblock_requests[k]
    BY <1>1, <1>t DEF CreateUnblockRequest, ReviewTypeOK
  <2>3. issued \in [UnblockIds -> Nat] /\ unblock_requests[q] = "none"
    BY <1>1, <1>t DEF ReviewTypeOK, CreateUnblockRequest
  <2>4. UNCHANGED <<reviewers, issued, sent>>
    BY <1>1 DEF CreateUnblockRequest
  <2>5. ASSUME NEW k \in UnblockIds \cap Undisputed
        PROVE  Ordered(k, reviewers', unblock_requests', issued')
    BY <2>2, <2>3, <2>4 DEF ReviewInv, Ordered, At
  <2> QED
    BY <2>1, <2>4, <2>5 DEF ReviewInv
<1>2. ASSUME NEW v \in Reviewers, NEW q \in UnblockIds, NEW approved \in BOOLEAN,
             ReviewRead(v, q, approved)
      PROVE  ReviewInv'
  <2> DEFINE new == [pc |-> "write", request |-> q, approved |-> approved]
  <2>1. /\ new \in Reviews /\ new.pc = "write" /\ new.request = q
        /\ reviewers' = [reviewers EXCEPT ![v] = new]
        /\ UNCHANGED <<unblock_requests, issued, sent>>
        /\ reviewers[v].pc = "idle" /\ unblock_requests[q] = "PENDING"
        /\ q \in Undisputed => ~UnderReview(q)
    BY <1>2 DEF ReviewRead, Reviewable, Reviews
  <2> HIDE DEF new
  <2>2. ReviewTypeOK' /\ \A w \in Reviewers : reviewers'[w] = IF w = v THEN new ELSE reviewers[w]
    BY <1>t, <2>1, ReviewMoves DEF ReviewTypeOK
  <2>3. ASSUME NEW k \in UnblockIds PROVE Covered(k, reviewers', issued', sent')
    <3>1. ~Owes(reviewers[v], k) /\ ~Owes(reviewers'[v], k)
      BY <2>1, <2>2 DEF Owes
    <3>2. Cardinality(Owing(k, reviewers')) = Cardinality(Owing(k, reviewers))
      BY <2>2, <3>1, OwingChanges
    <3> QED
      BY <2>1, <3>2 DEF ReviewInv, Covered
  <2>4. ASSUME NEW k \in UnblockIds \cap Undisputed
        PROVE  Alone(k, reviewers') /\ Ordered(k, reviewers', unblock_requests', issued')
    BY <2>1, <2>2 DEF ReviewInv, Alone, Ordered, At, UnderReview
  <2> QED
    BY <2>2, <2>3, <2>4 DEF ReviewInv
<1>3. ASSUME NEW v \in Reviewers, ReviewWrite(v) PROVE ReviewInv'
  <2> DEFINE e == reviewers[v]
             new == IF e.approved THEN [e EXCEPT !.pc = "issue"] ELSE NoReview
             status == IF e.approved THEN "APPROVED" ELSE "DENIED"
  <2>1. /\ reviewers' = [reviewers EXCEPT ![v] = new]
        /\ unblock_requests' = [unblock_requests EXCEPT ![e.request] = status]
        /\ UNCHANGED <<issued, sent>> /\ e.pc = "write"
    BY <1>3 DEF ReviewWrite
  <2>2. e \in Reviews /\ e.request \in UnblockIds
    BY <1>t, <2>1 DEF ReviewTypeOK
  <2>3. /\ new \in Reviews
        /\ new.pc = "idle" \/ (new.pc = "issue" /\ new.request = e.request /\ status = "APPROVED")
    BY <1>n, <2>2 DEF Reviews
  <2> HIDE DEF new
  <2>4. ReviewTypeOK' /\ \A w \in Reviewers : reviewers'[w] = IF w = v THEN new ELSE reviewers[w]
    BY <1>t, <2>1, <2>2, <2>3, ReviewMoves DEF ReviewTypeOK
  <2>5. /\ \A k \in UnblockIds :
             unblock_requests'[k] = IF k = e.request THEN status ELSE unblock_requests[k]
        /\ issued \in [UnblockIds -> Nat]
    BY <1>t, <2>1 DEF ReviewTypeOK
  <2>6. ASSUME NEW k \in UnblockIds PROVE Covered(k, reviewers', issued', sent')
    <3>1. ~Owes(reviewers[v], k) /\ ~Owes(reviewers'[v], k)
      BY <2>1, <2>3, <2>4 DEF Owes
    <3>2. Cardinality(Owing(k, reviewers')) = Cardinality(Owing(k, reviewers))
      BY <2>4, <3>1, OwingChanges
    <3> QED
      BY <2>1, <3>2 DEF ReviewInv, Covered
  <2> HIDE DEF status
  <2>7. ASSUME NEW k \in UnblockIds \cap Undisputed
        PROVE  Alone(k, reviewers') /\ Ordered(k, reviewers', unblock_requests', issued')
    <3>1. Alone(k, reviewers')
      BY <2>1, <2>3, <2>4, <2>7 DEF ReviewInv, Alone, At
    <3>2. CASE k = e.request
      <4>1. issued[k] = 0 /\ \A w \in Reviewers : w # v => ~At(w, ReviewPcs \ {"idle"}, k, reviewers)
        BY <3>2, <2>1, <2>7 DEF ReviewInv, Alone, Ordered, At
      <4>2. unblock_requests'[k] # "PENDING" \/ issued'[k] = 0
        BY <4>1, <2>1
      <4> QED
        BY <3>1, <4>1, <2>1, <2>3, <2>4, <2>5, <3>2 DEF Ordered, At
    <3>3. CASE k # e.request
      BY <3>1, <3>3, <2>1, <2>3, <2>4, <2>5, <2>7 DEF ReviewInv, Ordered, At
    <3> QED
      BY <3>2, <3>3
  <2> QED
    BY <2>4, <2>6, <2>7 DEF ReviewInv
<1>4. ASSUME NEW v \in Reviewers, ReviewIssue(v) PROVE ReviewInv'
  <2> DEFINE e == reviewers[v]
             q == e.request
             new == [e EXCEPT !.pc = "enqueue"]
  <2>1. /\ reviewers' = [reviewers EXCEPT ![v] = new]
        /\ issued' = [issued EXCEPT ![q] = issued[q] + 1]
        /\ UNCHANGED <<unblock_requests, sent>> /\ e.pc = "issue"
    BY <1>4, <1>t DEF ReviewIssue, ReviewTypeOK
  <2>2. e \in Reviews /\ q \in UnblockIds
    BY <1>t, <2>1 DEF ReviewTypeOK
  <2>3. new \in Reviews /\ new.pc = "enqueue" /\ new.request = q
    BY <2>2 DEF Reviews
  <2> HIDE DEF new
  <2>4. ReviewTypeOK' /\ \A w \in Reviewers : reviewers'[w] = IF w = v THEN new ELSE reviewers[w]
    BY <1>t, <2>1, <2>2, <2>3, ReviewMoves DEF ReviewTypeOK
  <2>5. /\ \A k \in UnblockIds : issued'[k] = IF k = q THEN issued[k] + 1 ELSE issued[k]
        /\ issued \in [UnblockIds -> Nat] /\ sent \in [UnblockIds -> Nat]
    BY <1>t, <2>1 DEF ReviewTypeOK
  <2>6. ASSUME NEW k \in UnblockIds PROVE Covered(k, reviewers', issued', sent')
    <3>1. Covered(k, reviewers, issued, sent)
      BY DEF ReviewInv
    <3>2. CASE k = q
      <4>a. ~Owes(reviewers[v], k) /\ Owes(reviewers'[v], k)
        BY <3>2, <2>1, <2>3, <2>4 DEF Owes
      <4>1. Cardinality(Owing(k, reviewers')) = Cardinality(Owing(k, reviewers)) + 1
        BY <4>a, <2>4, OwingChanges
      <4> QED
        BY <3>1, <3>2, <4>1, <2>1, <2>5, OwingIsFinite DEF Covered
    <3>3. CASE k # q
      <4>a. ~Owes(reviewers[v], k) /\ ~Owes(reviewers'[v], k)
        BY <3>3, <2>1, <2>3, <2>4 DEF Owes
      <4>1. Cardinality(Owing(k, reviewers')) = Cardinality(Owing(k, reviewers))
        BY <4>a, <2>4, OwingChanges
      <4> QED
        BY <3>1, <3>3, <4>1, <2>1, <2>5 DEF Covered
    <3> QED
      BY <3>2, <3>3
  <2>7. ASSUME NEW k \in UnblockIds \cap Undisputed
        PROVE  Alone(k, reviewers') /\ Ordered(k, reviewers', unblock_requests', issued')
    <3>1. Alone(k, reviewers')
      BY <2>1, <2>3, <2>4, <2>7 DEF ReviewInv, Alone, At
    <3>2. CASE k = q
      <4>1. /\ issued[k] = 0 /\ unblock_requests[k] = "APPROVED"
            /\ \A w \in Reviewers : w # v => ~At(w, ReviewPcs \ {"idle"}, k, reviewers)
        BY <3>2, <2>1, <2>7 DEF ReviewInv, Alone, Ordered, At
      <4> QED
        BY <3>1, <4>1, <2>1, <2>3, <2>4, <2>5, <3>2 DEF Ordered, At
    <3>3. CASE k # q
      BY <3>1, <3>3, <2>1, <2>3, <2>4, <2>5, <2>7 DEF ReviewInv, Ordered, At
    <3> QED
      BY <3>2, <3>3
  <2> QED
    BY <2>4, <2>6, <2>7 DEF ReviewInv
<1>5. ASSUME NEW v \in Reviewers, NEW new \in Reviews, reviewers' = [reviewers EXCEPT ![v] = new],
             reviewers[v].pc # "idle",
             \/ new.pc = "idle"
             \/ /\ reviewers[v].pc = "enqueue" /\ new.pc = "enqueue_unblock"
                /\ new.request = reviewers[v].request,
             UNCHANGED <<unblock_requests, issued>>,
             sent' \in [UnblockIds -> Nat],
             \A k \in UnblockIds :
                sent'[k] = sent[k] \/ (At(v, {"enqueue_unblock"}, k, reviewers)
                                       /\ new.pc = "idle" /\ sent'[k] = sent[k] + 1)
      PROVE  ReviewInv'
  <2>1. reviewers[v].request \in UnblockIds
    BY <1>5, <1>t DEF ReviewTypeOK
  <2>2. ReviewTypeOK' /\ \A w \in Reviewers : reviewers'[w] = IF w = v THEN new ELSE reviewers[w]
    BY <1>5, <1>t, <2>1, ReviewMoves DEF ReviewTypeOK
  <2>3. ASSUME NEW k \in UnblockIds PROVE Covered(k, reviewers', issued', sent')
    <3>1. /\ Covered(k, reviewers, issued, sent)
          /\ issued[k] \in Nat /\ sent[k] \in Nat
      BY <1>t DEF ReviewInv, ReviewTypeOK
    <3>2. CASE At(v, {"enqueue", "enqueue_unblock"}, k, reviewers) /\ new.pc = "idle"
      <4>a. Owes(reviewers[v], k) /\ ~Owes(reviewers'[v], k)
        BY <3>2, <2>2 DEF At, Owes
      <4>1. Cardinality(Owing(k, reviewers')) = Cardinality(Owing(k, reviewers)) - 1
        BY <4>a, <2>2, OwingChanges
      <4> QED
        BY <3>1, <4>1, <1>5, OwingIsFinite DEF Covered
    <3>3. CASE ~(At(v, {"enqueue", "enqueue_unblock"}, k, reviewers) /\ new.pc = "idle")
      <4>a. Owes(reviewers[v], k) <=> Owes(reviewers'[v], k)
        BY <3>3, <1>5, <2>2 DEF At, Owes
      <4>1. Cardinality(Owing(k, reviewers')) = Cardinality(Owing(k, reviewers))
        BY <4>a, <2>2, OwingChanges
      <4>2. sent'[k] = sent[k]
        BY <3>3, <1>5 DEF At
      <4> QED
        BY <3>1, <4>1, <4>2, <1>5 DEF Covered
    <3> QED
      BY <3>2, <3>3
  <2>4. ASSUME NEW k \in UnblockIds \cap Undisputed
        PROVE  Alone(k, reviewers') /\ Ordered(k, reviewers', unblock_requests', issued')
    BY <1>5, <2>2 DEF ReviewInv, Alone, Ordered, At
  <2> QED
    BY <2>2, <2>3, <2>4 DEF ReviewInv
<1>6. ASSUME NEW v \in Reviewers, ReviewEnqueue(v) PROVE ReviewInv'
  <2> DEFINE e == reviewers[v]
  <2>1. e \in Reviews /\ e.pc \in {"enqueue", "enqueue_unblock"} /\ e.request \in UnblockIds
    BY <1>6, <1>t DEF ReviewEnqueue, ReviewTypeOK
  <2>2. CASE e.pc = "enqueue"
    <3> DEFINE new == [e EXCEPT !.pc = "enqueue_unblock"]
    <3>1. reviewers' = [reviewers EXCEPT ![v] = new] /\ UNCHANGED <<unblock_requests, issued, sent>>
      BY <1>6, <2>2 DEF ReviewEnqueue
    <3>2. new \in Reviews /\ new.pc = "enqueue_unblock" /\ new.request = e.request
      BY <2>1 DEF Reviews
    <3> HIDE DEF new
    <3> QED
      BY <1>5, <1>t, <2>1, <2>2, <3>1, <3>2 DEF ReviewTypeOK
  <2>3. CASE e.pc = "enqueue_unblock"
    <3>1. /\ reviewers' = [reviewers EXCEPT ![v] = NoReview] /\ UNCHANGED <<unblock_requests, issued>>
          /\ sent' = [sent EXCEPT ![e.request] = sent[e.request] + 1]
      BY <1>6, <2>3 DEF ReviewEnqueue
    <3>2. /\ sent' \in [UnblockIds -> Nat]
          /\ \A k \in UnblockIds :
                sent'[k] = sent[k] \/ (At(v, {"enqueue_unblock"}, k, reviewers)
                                       /\ sent'[k] = sent[k] + 1)
      BY <1>t, <2>1, <2>3, <3>1 DEF ReviewTypeOK, At
    <3> QED
      BY <1>5, <1>n, <2>1, <3>1, <3>2
  <2> QED
    BY <2>1, <2>2, <2>3
<1>7. ASSUME NEW v \in Reviewers, ReviewerDies(v) PROVE ReviewInv'
  BY <1>5, <1>7, <1>n, <1>t DEF ReviewerDies, ReviewTypeOK
<1> QED
  BY <1>0, <1>1, <1>2, <1>3, <1>4, <1>6, <1>7 DEF ReviewNext

(* A request that is reviewed by one administrator at a time unblocks at   *)
(* most once, and no command is sent without a token of its own, for any   *)
(* number of requests and reviewers (approve_device_unblock_request).      *)
THEOREM ReviewUnblocksOnce == ReviewSpec => []UnblocksOnce
<1>1. ReviewInit => ReviewInv
  <2> SUFFICES ASSUME ReviewInit PROVE ReviewInv
    OBVIOUS
  <2>1. ReviewTypeOK
    BY DEF ReviewInit, ReviewTypeOK, NoReview, Reviews, ReviewPcs
  <2>2. ASSUME NEW q \in UnblockIds PROVE Covered(q, reviewers, issued, sent)
    <3>1. Owing(q, reviewers) = {}
      BY DEF ReviewInit, Owing, At, NoReview
    <3> QED
      BY <3>1, FS_EmptySet DEF ReviewInit, Covered
  <2>3. ASSUME NEW q \in UnblockIds
        PROVE  Alone(q, reviewers) /\ Ordered(q, reviewers, unblock_requests, issued)
    BY DEF ReviewInit, Alone, Ordered, At, NoReview
  <2> QED
    BY <2>1, <2>2, <2>3 DEF ReviewInv
<1>2. ReviewInv => UnblocksOnce
  <2> SUFFICES ASSUME ReviewInv, NEW q \in UnblockIds
               PROVE  /\ sent[q] <= issued[q]
                      /\ q \in Undisputed => issued[q] <= 1
                                          /\ (issued[q] = 1 => unblock_requests[q] = "APPROVED")
    BY DEF UnblocksOnce
  <2>1. issued[q] \in Nat /\ sent[q] \in Nat
    BY DEF ReviewInv, ReviewTypeOK
  <2>2. sent[q] <= issued[q]
    BY <2>1, OwingIsFinite DEF ReviewInv, Covered
  <2> QED
    BY <2>2 DEF ReviewInv, Ordered
<1> QED
  BY <1>1, <1>2, ReviewStep, PTL DEF ReviewSpec

----------------------------------------------------------------------------
(* Allow tokens.                                                           *)

TokenPrograms == [pc : {"idle", "save", "call", "wait", "unblock", "ack", "nack"},
                  token : Tokens \cup {None}, on : Workers \cup {None}]
TokenWorkers == [pc : {"idle", "read", "expire", "write"}, token : Tokens \cup {None},
                 program : Programs]

\* Where a program is between marking its token used and using it.
ToUnblock(p) == IF p = "agent" THEN {"call", "wait", "unblock"} ELSE {"unblock"}

\* The store U has the token or, as L counts, has lost it.
Marked(t, p, U, L) == t \in U[p] \/ L[t][p] > 0

\* A program that is about to unblock, or to report a use, has its token in
\* its own store, and has not unblocked with it since the store last lost it;
\* only the agent acknowledges, and only what it did.
ProgramInv(p, x, U, B, L) ==
    /\ x.pc # "idle" => x.token \in Tokens
    /\ x.pc = "save" => x.token \notin U[p]
    /\ x.pc \in {"call", "wait", "unblock"} => x.token \in U[p]
    /\ x.pc \in ToUnblock(p) => B[x.token][p] <= L[x.token][p]
    /\ x.pc = "ack" => p = "agent" /\ B[x.token][p] >= 1
    /\ x.pc = "nack" => p = "agent"
    /\ x.on # None => x.pc = "wait"

\* The server is told of uses only.
WorkerInv(y, U, L) ==
    y.pc # "idle" => y.token \in Tokens /\ Marked(y.token, y.program, U, L)

\* A token that a program has not in its store was used once for each loss.
UsesInv == \A t \in Tokens, p \in Programs :
    /\ unblocks[t][p] <= 1 + losses[t][p]
    /\ t \notin used[p] => unblocks[t][p] <= losses[t][p]

\* No consume request is about to write over a revocation that stands.
WithdrawnInv == \A t \in withdrawn :
    /\ device_allow_tokens[t] = "REVOKED"
    /\ \A w \in Workers : workers[w].pc \in {"expire", "write"} => workers[w].token # t

TokenInv ==
    /\ TypeOK
    /\ \A p \in Programs : ProgramInv(p, programs[p], used, unblocks, losses)
    /\ \A w \in Workers : WorkerInv(workers[w], used, losses)
    /\ UsesInv
    /\ WithdrawnInv
    /\ StatusTellsUse

LEMMA TokenFacts ==
    ASSUME TokenInv
    PROVE  /\ device_allow_tokens \in [Tokens -> TokenStatus]
           /\ issuing \in [Tokens -> {"none", "allow-token", "secure-declare", "unblock-approve"}]
           /\ commands \in [Tokens -> {"none", "PENDING", "APPLIED", "FAILED"}]
           /\ held \subseteq Tokens /\ expired \subseteq Tokens /\ withdrawn \subseteq Tokens
           /\ used \in [Programs -> SUBSET Tokens]
           /\ programs \in [Programs -> TokenPrograms]
           /\ workers \in [Workers -> TokenWorkers]
           /\ unblocks \in [Tokens -> [Programs -> Nat]]
           /\ losses \in [Tokens -> [Programs -> Nat]]
           /\ \A p \in Programs : ProgramInv(p, programs[p], used, unblocks, losses)
           /\ \A w \in Workers : WorkerInv(workers[w], used, losses)
BY DEF TokenInv, TypeOK, TokenPrograms, TokenWorkers

LEMMA IdleTokenUsers ==
    /\ IdleProgram \in TokenPrograms /\ IdleWorker \in TokenWorkers
    /\ IdleProgram.pc = "idle" /\ IdleProgram.on = None /\ IdleWorker.pc = "idle"
    /\ \A p, U, B, L : ProgramInv(p, IdleProgram, U, B, L)
    /\ \A U, L : WorkerInv(IdleWorker, U, L)
BY DEF IdleProgram, IdleWorker, TokenPrograms, TokenWorkers, Programs, ProgramInv, WorkerInv,
       ToUnblock

(* A step that gives program p the state x, leaves the server alone and may *)
(* write the store of p.                                                    *)
LEMMA ProgramStep ==
    ASSUME TokenInv, NEW p \in Programs, NEW x \in TokenPrograms,
           programs' = [programs EXCEPT ![p] = x],
           used' \in [Programs -> SUBSET Tokens],
           losses' \in [Tokens -> [Programs -> Nat]],
           \A q \in Programs \ {p} :
              used'[q] = used[q] /\ \A t \in Tokens : losses'[t][q] = losses[t][q],
           \A t \in Tokens : Marked(t, p, used, losses) => Marked(t, p, used', losses'),
           UsesInv',
           ProgramInv(p, x, used', unblocks, losses'),
           workers' \in [Workers -> TokenWorkers],
           \A w \in Workers : WorkerInv(workers'[w], used', losses'),
           \A w \in Workers :
              workers'[w] = workers[w] \/ workers'[w].pc \notin {"expire", "write"},
           UNCHANGED <<serverVars, unblocks>>
    PROVE  TokenInv'
<1>1. programs' \in [Programs -> TokenPrograms]
  BY TokenFacts
<1>2. TypeOK'
  BY <1>1, TokenFacts DEF TypeOK, TokenPrograms, TokenWorkers, serverVars, requestVars
<1>3. \A q \in Programs : ProgramInv(q, programs'[q], used', unblocks', losses')
  <2> SUFFICES ASSUME NEW q \in Programs
               PROVE  ProgramInv(q, programs'[q], used', unblocks, losses')
    BY DEF serverVars
  <2>1. CASE q = p
    BY <2>1, TokenFacts
  <2>2. CASE q # p
    <3>1. ProgramInv(q, programs[q], used, unblocks, losses) /\ programs'[q] = programs[q]
      BY <2>2, TokenFacts
    <3>2. used'[q] = used[q] /\ \A t \in Tokens : losses'[t][q] = losses[t][q]
      BY <2>2
    <3>. QED BY <3>1, <3>2 DEF ProgramInv, ToUnblock
  <2>. QED BY <2>1, <2>2
<1>4. WithdrawnInv'
  BY DEF TokenInv, WithdrawnInv, serverVars, requestVars
<1>5. StatusTellsUse'
  <2>1. \A t \in Tokens, q \in Programs :
           Marked(t, q, used, losses) => Marked(t, q, used', losses')
    BY DEF Marked
  <2>2. ConsumedWasUsed'
    BY <2>1 DEF TokenInv, StatusTellsUse, ConsumedWasUsed, Marked, serverVars
  <2>3. AppliedDidUnblock' /\ RevocationStands'
    BY DEF TokenInv, StatusTellsUse, AppliedDidUnblock, RevocationStands, serverVars, requestVars
  <2>. QED BY <2>2, <2>3 DEF StatusTellsUse
<1>. QED BY <1>2, <1>3, <1>4, <1>5 DEF TokenInv

(* A step of the server that marks no token as used up by mistake and       *)
(* overwrites no revocation that stands.                                    *)
LEMMA ServerStep ==
    ASSUME TokenInv, TypeOK',
           \A q \in Programs : ProgramInv(q, programs'[q], used, unblocks, losses),
           \A w \in Workers : WorkerInv(workers'[w], used, losses),
           \A t \in Tokens : device_allow_tokens'[t] = "CONSUMED" =>
              \/ device_allow_tokens[t] = "CONSUMED"
              \/ \E q \in Programs : Marked(t, q, used, losses),
           \A t \in Tokens : commands'[t] = "APPLIED" =>
              commands[t] = "APPLIED" \/ unblocks[t]["agent"] >= 1,
           WithdrawnInv',
           UNCHANGED <<used, unblocks, losses>>
    PROVE  TokenInv'
<1>1. UsesInv'
  BY DEF TokenInv, UsesInv
<1>2. ConsumedWasUsed'
  BY DEF TokenInv, StatusTellsUse, ConsumedWasUsed, Marked
<1>3. AppliedDidUnblock' /\ RevocationStands'
  BY DEF TokenInv, StatusTellsUse, AppliedDidUnblock, RevocationStands, WithdrawnInv
<1>. QED BY <1>1, <1>2, <1>3 DEF TokenInv, StatusTellsUse

(* A call that has returned, or was given up.                               *)
LEMMA CallEnds ==
    ASSUME TokenInv, NEW p \in Programs, programs[p].pc \in {"call", "wait"}, AfterCall(p)
    PROVE  \E x \in TokenPrograms : /\ programs' = [programs EXCEPT ![p] = x]
                                    /\ ProgramInv(p, x, used, unblocks, losses)
<1> DEFINE x == programs[p]
           y == IF p = "agent" THEN [x EXCEPT !.pc = "unblock", !.on = None] ELSE IdleProgram
<1>1. programs' = [programs EXCEPT ![p] = y]
  BY DEF AfterCall
<1>2. CASE p = "agent"
  <2>1. y \in TokenPrograms /\ y.pc = "unblock" /\ y.on = None /\ y.token = x.token
    BY <1>2, TokenFacts DEF TokenPrograms
  <2>2. ProgramInv(p, y, used, unblocks, losses)
    BY <1>2, <2>1, TokenFacts DEF ProgramInv, ToUnblock
  <2>. QED BY <1>1, <2>1, <2>2
<1>3. CASE p # "agent"
  BY <1>1, <1>3, IdleTokenUsers
<1>. QED BY <1>2, <1>3

(* The end of a request of worker w.                                        *)
LEMMA ReplyStep ==
    ASSUME TokenInv, NEW w \in Workers, workers[w].pc # "idle", Reply(w)
    PROVE  /\ programs' \in [Programs -> TokenPrograms]
           /\ workers' \in [Workers -> TokenWorkers]
           /\ workers' = [workers EXCEPT ![w] = IdleWorker]
           /\ \A q \in Programs : ProgramInv(q, programs'[q], used, unblocks, losses)
           /\ \A v \in Workers : WorkerInv(workers'[v], used, losses)
<1> DEFINE p == workers[w].program
<1>1. p \in Programs
  BY TokenFacts DEF TokenWorkers
<1>2. /\ workers' = [workers EXCEPT ![w] = IdleWorker]
      /\ IF programs[p].on = w THEN AfterCall(p) ELSE UNCHANGED programs
  BY DEF Reply
<1>3. /\ workers' \in [Workers -> TokenWorkers]
      /\ \A v \in Workers : WorkerInv(workers'[v], used, losses)
  BY <1>2, TokenFacts, IdleTokenUsers
<1> HIDE DEF p
<1>4. CASE programs[p].on = w
  <2>1. programs[p].pc = "wait"
    BY <1>1, <1>4, AllowTokensAssumption, TokenFacts DEF ProgramInv
  <2>2. PICK x \in TokenPrograms : /\ programs' = [programs EXCEPT ![p] = x]
                                   /\ ProgramInv(p, x, used, unblocks, losses)
    BY <1>1, <1>2, <1>4, <2>1, CallEnds
  <2>. QED BY <1>1, <1>2, <1>3, <2>2, TokenFacts
<1>5. CASE programs[p].on # w
  BY <1>2, <1>3, <1>5, TokenFacts
<1>. QED BY <1>4, <1>5

(* Any number of the stored tokens of p may be lost at once.                *)
LEMMA CutStep ==
    ASSUME TokenInv, NEW p \in Programs, programs[p].pc = "save", StoreCut(p),
           NEW x \in TokenPrograms, x.pc \in {"idle", "nack"}, x.on = None,
           x.pc = "nack" => p = "agent" /\ x.token \in Tokens,
           programs' = [programs EXCEPT ![p] = x],
           UNCHANGED <<serverVars, unblocks, workers>>
    PROVE  TokenInv'
<1>1. /\ used' = [used EXCEPT ![p] = {}]
      /\ losses' = [t \in Tokens |-> IF t \in used[p] THEN [losses[t] EXCEPT ![p] = @ + 1]
                                     ELSE losses[t]]
  BY DEF StoreCut
<1>2. /\ used' \in [Programs -> SUBSET Tokens]
      /\ losses' \in [Tokens -> [Programs -> Nat]]
  BY <1>1, TokenFacts
<1>3. /\ used'[p] = {}
      /\ \A t \in Tokens : losses'[t][p] = IF t \in used[p] THEN losses[t][p] + 1 ELSE losses[t][p]
      /\ \A q \in Programs \ {p} :
            used'[q] = used[q] /\ \A t \in Tokens : losses'[t][q] = losses[t][q]
  BY <1>1, TokenFacts
<1>4. \A t \in Tokens : losses[t][p] \in Nat /\ unblocks[t][p] \in Nat
  BY TokenFacts
<1>5. \A t \in Tokens, q \in Programs :
         Marked(t, q, used, losses) => Marked(t, q, used', losses')
  BY <1>3, <1>4 DEF Marked
<1>6. UsesInv'
  <2> SUFFICES ASSUME NEW t \in Tokens, NEW q \in Programs
               PROVE  /\ unblocks[t][q] <= 1 + losses'[t][q]
                      /\ t \notin used'[q] => unblocks[t][q] <= losses'[t][q]
    BY DEF UsesInv
  <2>1. /\ unblocks[t][q] <= 1 + losses[t][q]
        /\ t \notin used[q] => unblocks[t][q] <= losses[t][q]
    BY DEF TokenInv, UsesInv
  <2>2. CASE q = p
    BY <1>3, <1>4, <2>1, <2>2
  <2>3. CASE q # p
    BY <1>3, <2>1, <2>3
  <2>. QED BY <2>2, <2>3
<1>7. ProgramInv(p, x, used', unblocks, losses')
  BY DEF ProgramInv, ToUnblock
<1>8. \A w \in Workers : WorkerInv(workers'[w], used', losses')
  BY <1>5, TokenFacts DEF WorkerInv, TokenWorkers
<1>. QED BY <1>2, <1>3, <1>5, <1>6, <1>7, <1>8, TokenFacts, ProgramStep

LEMMA TokenStep ==
    ASSUME TokenInv, [Next]_vars
    PROVE  TokenInv'
<1>0. /\ device_allow_tokens \in [Tokens -> TokenStatus]
      /\ issuing \in [Tokens -> {"none", "allow-token", "secure-declare", "unblock-approve"}]
      /\ commands \in [Tokens -> {"none", "PENDING", "APPLIED", "FAILED"}]
      /\ held \subseteq Tokens /\ expired \subseteq Tokens /\ withdrawn \subseteq Tokens
      /\ used \in [Programs -> SUBSET Tokens]
      /\ programs \in [Programs -> TokenPrograms]
      /\ workers \in [Workers -> TokenWorkers]
      /\ unblocks \in [Tokens -> [Programs -> Nat]] /\ losses \in [Tokens -> [Programs -> Nat]]
      /\ \A p \in Programs : ProgramInv(p, programs[p], used, unblocks, losses)
      /\ \A w \in Workers : WorkerInv(workers[w], used, losses)
  BY TokenFacts
<1>w. WithdrawnInv /\ UsesInv
  BY DEF TokenInv
<1>t. ASSUME device_allow_tokens' \in [Tokens -> TokenStatus],
             issuing' \in [Tokens -> {"none", "allow-token", "secure-declare", "unblock-approve"}],
             commands' \in [Tokens -> {"none", "PENDING", "APPLIED", "FAILED"}],
             held' \subseteq Tokens, expired' \subseteq Tokens, withdrawn' \subseteq Tokens,
             programs' \in [Programs -> TokenPrograms], workers' \in [Workers -> TokenWorkers],
             UNCHANGED <<used, unblocks, losses>>
      PROVE  TypeOK'
  BY <1>0, <1>t DEF TypeOK, TokenPrograms, TokenWorkers
<1>k. ASSUME UNCHANGED <<used, unblocks, losses, programs>>
      PROVE  \A p \in Programs : ProgramInv(p, programs'[p], used, unblocks, losses)
  BY <1>0, <1>k
<1>1. ASSUME NEW t \in Tokens,
             NEW r \in {"allow-token", "secure-declare", "unblock-approve"}, IssueToken(t, r)
      PROVE  TokenInv'
  <2>1. TypeOK'
    BY <1>0, <1>1, <1>t DEF IssueToken, clientVars, TokenStatus
  <2>2. WithdrawnInv'
    BY <1>0, <1>1, <1>w DEF IssueToken, WithdrawnInv
  <2>. QED BY <1>0, <1>1, <1>k, <2>1, <2>2, ServerStep DEF IssueToken, clientVars
<1>2. ASSUME NEW t \in Tokens, AnswerIssue(t) PROVE TokenInv'
  <2>1. TypeOK'
    BY <1>0, <1>2, <1>t DEF AnswerIssue, clientVars
  <2>2. WithdrawnInv'
    BY <1>2, <1>w DEF AnswerIssue, WithdrawnInv
  <2>. QED BY <1>0, <1>2, <1>k, <2>1, <2>2, ServerStep DEF AnswerIssue, clientVars
<1>3. ASSUME NEW t \in Tokens, IssueDies(t) \/ Expire(t) PROVE TokenInv'
  <2>1. TypeOK'
    BY <1>0, <1>3, <1>t DEF IssueDies, Expire, clientVars
  <2>2. WithdrawnInv'
    BY <1>3, <1>w DEF IssueDies, Expire, WithdrawnInv
  <2>. QED BY <1>0, <1>3, <1>k, <2>1, <2>2, ServerStep DEF IssueDies, Expire, clientVars
<1>r. ASSUME NEW t \in Tokens, RevokeToken(t) PROVE TokenInv'
  <2>1. TypeOK'
    BY <1>0, <1>r, <1>t DEF RevokeToken, requestVars, clientVars, TokenStatus
  <2>2. WithdrawnInv'
    BY <1>0, <1>r, <1>w DEF RevokeToken, WithdrawnInv, Marking
  <2>. QED BY <1>0, <1>r, <1>k, <2>1, <2>2, ServerStep DEF RevokeToken, requestVars, clientVars
<1>s. ASSUME NEW p \in Programs, NEW x \in TokenPrograms,
             programs' = [programs EXCEPT ![p] = x], ProgramInv(p, x, used, unblocks, losses),
             UNCHANGED <<serverVars, used, losses, workers, unblocks>>
      PROVE  TokenInv'
  <2>1. UsesInv'
    BY <1>s, <1>w DEF UsesInv
  <2>. QED BY <1>0, <1>s, <2>1, ProgramStep
<1>4. ASSUME NEW t \in Tokens, AgentUse(t) PROVE TokenInv'
  <2> DEFINE x == [IdleProgram EXCEPT !.pc = IF Usable("agent", t) THEN "save" ELSE "nack",
                                      !.token = t]
  <2>1. /\ x.pc = (IF Usable("agent", t) THEN "save" ELSE "nack") /\ x.token = t /\ x.on = None
        /\ x \in TokenPrograms
    BY DEF IdleProgram, TokenPrograms
  <2>2. /\ programs' = [programs EXCEPT !["agent"] = x] /\ "agent" \in Programs
        /\ UNCHANGED <<serverVars, used, losses, workers, unblocks>>
    BY <1>4 DEF AgentUse, Programs
  <2> HIDE DEF x
  <2>3. ProgramInv("agent", x, used, unblocks, losses)
    BY <2>1 DEF ProgramInv, ToUnblock, Usable
  <2>. QED BY <1>s, <2>1, <2>2, <2>3
<1>5. ASSUME NEW t \in Tokens, GuiUse(t) PROVE TokenInv'
  <2> DEFINE x == [IdleProgram EXCEPT !.pc = "save", !.token = t]
  <2>1. x.pc = "save" /\ x.token = t /\ x.on = None /\ x \in TokenPrograms
    BY DEF IdleProgram, TokenPrograms
  <2>2. /\ programs' = [programs EXCEPT !["gui"] = x] /\ "gui" \in Programs /\ Usable("gui", t)
        /\ UNCHANGED <<serverVars, used, losses, workers, unblocks>>
    BY <1>5 DEF GuiUse, Programs
  <2> HIDE DEF x
  <2>3. ProgramInv("gui", x, used, unblocks, losses)
    BY <2>1, <2>2 DEF ProgramInv, ToUnblock, Usable
  <2>. QED BY <1>s, <2>1, <2>2, <2>3
<1>16. ASSUME NEW p \in Programs, Save(p) PROVE TokenInv'
  <2> DEFINE t == programs[p].token
             n == IF p = "agent" THEN "call" ELSE "unblock"
             x == [programs[p] EXCEPT !.pc = n]
  <2>1. /\ programs[p].pc = "save" /\ programs' = [programs EXCEPT ![p] = x]
        /\ used' = [used EXCEPT ![p] = @ \cup {t}]
        /\ UNCHANGED <<serverVars, losses, unblocks, workers>>
    BY <1>0, <1>16 DEF Save, Goto
  <2>2. t \in Tokens /\ t \notin used[p] /\ programs[p].on = None
    BY <1>0, <2>1 DEF ProgramInv
  <2>3. x \in TokenPrograms /\ x.pc = n /\ x.token = t /\ x.on = None
    BY <1>0, <2>2 DEF TokenPrograms
  <2> HIDE DEF x, n, t
  <2>4. unblocks[t][p] <= losses[t][p]
    BY <1>w, <2>2 DEF UsesInv
  <2>5. /\ used' \in [Programs -> SUBSET Tokens]
        /\ used'[p] = used[p] \cup {t}
        /\ \A q \in Programs \ {p} : used'[q] = used[q]
    BY <1>0, <2>1, <2>2
  <2>6. ProgramInv(p, x, used', unblocks, losses)
    BY <2>3, <2>4, <2>5, <2>2 DEF ProgramInv, ToUnblock, n
  <2>7. UsesInv'
    <3> SUFFICES ASSUME NEW u \in Tokens, NEW q \in Programs
                 PROVE  /\ unblocks[u][q] <= 1 + losses[u][q]
                        /\ u \notin used'[q] => unblocks[u][q] <= losses[u][q]
      BY <2>1 DEF UsesInv
    <3>1. u \notin used'[q] => u \notin used[q]
      BY <2>5
    <3>. QED BY <1>w, <3>1 DEF UsesInv
  <2>8. \A u \in Tokens, q \in Programs :
           Marked(u, q, used, losses) => Marked(u, q, used', losses)
    BY <2>5 DEF Marked
  <2>9. \A w \in Workers : WorkerInv(workers'[w], used', losses)
    BY <1>0, <2>1, <2>8 DEF WorkerInv, TokenWorkers
  <2>. QED BY <1>0, <2>1, <2>3, <2>5, <2>6, <2>7, <2>8, <2>9, ProgramStep
<1>17. ASSUME NEW p \in Programs, SaveFails(p) PROVE TokenInv'
  <2> DEFINE x == IF p = "agent" THEN [programs[p] EXCEPT !.pc = "nack"] ELSE IdleProgram
  <2>1. /\ programs[p].pc = "save" /\ programs' = [programs EXCEPT ![p] = x]
        /\ UNCHANGED <<serverVars, unblocks, workers>>
        /\ StoreCut(p) \/ UNCHANGED <<used, losses>>
    BY <1>0, <1>17 DEF SaveFails, Goto, Stop
  <2>2. programs[p].token \in Tokens /\ programs[p].on = None
    BY <1>0, <2>1 DEF ProgramInv
  <2>3. /\ x \in TokenPrograms /\ x.pc \in {"idle", "nack"} /\ x.on = None
        /\ x.pc = "nack" => p = "agent" /\ x.token \in Tokens
    BY <1>0, <2>2, IdleTokenUsers DEF TokenPrograms
  <2> HIDE DEF x
  <2>4. ProgramInv(p, x, used, unblocks, losses)
    BY <2>3 DEF ProgramInv, ToUnblock
  <2>5. CASE StoreCut(p)
    BY <2>1, <2>3, <2>5, CutStep
  <2>6. CASE UNCHANGED <<used, losses>>
    BY <1>s, <2>1, <2>3, <2>4, <2>6
  <2>. QED BY <2>1, <2>5, <2>6
<1>6. ASSUME NEW p \in Programs, NEW w \in Workers, SendConsume(p, w) PROVE TokenInv'
  <2> DEFINE y == [pc |-> "read", token |-> programs[p].token, program |-> p]
             x == [programs[p] EXCEPT !.pc = "wait", !.on = w]
  <2>1. /\ workers' = [workers EXCEPT ![w] = y]
        /\ programs' = [programs EXCEPT ![p] = x]
        /\ programs[p].pc = "call" /\ UNCHANGED <<serverVars, used, unblocks, losses>>
    BY <1>0, <1>6 DEF SendConsume
  <2>2. /\ x \in TokenPrograms /\ x.pc = "wait" /\ x.token = programs[p].token
        /\ x.token \in Tokens /\ x.token \in used[p]
        /\ unblocks[x.token][p] <= losses[x.token][p] \/ p # "agent"
    <3>1. programs[p] \in TokenPrograms /\ ProgramInv(p, programs[p], used, unblocks, losses)
      BY <1>0
    <3>2. x \in TokenPrograms /\ x.pc = "wait" /\ x.token = programs[p].token
      BY <3>1 DEF TokenPrograms
    <3>3. /\ programs[p].token \in Tokens /\ programs[p].token \in used[p]
          /\ p = "agent" => unblocks[programs[p].token][p] <= losses[programs[p].token][p]
      BY <2>1, <3>1 DEF ProgramInv, ToUnblock
    <3>. QED BY <3>2, <3>3
  <2>3. y \in TokenWorkers /\ WorkerInv(y, used, losses) /\ y.pc = "read"
    BY <2>2 DEF TokenWorkers, WorkerInv, Marked
  <2> HIDE DEF x, y
  <2>4. ProgramInv(p, x, used, unblocks, losses)
    BY <1>0, <2>1, <2>2 DEF ProgramInv, ToUnblock
  <2>5. /\ workers' \in [Workers -> TokenWorkers]
        /\ \A v \in Workers : WorkerInv(workers'[v], used, losses)
        /\ \A v \in Workers : workers'[v] = workers[v] \/ workers'[v].pc \notin {"expire", "write"}
    BY <1>0, <2>1, <2>3
  <2>6. UsesInv'
    BY <1>w, <2>1 DEF UsesInv
  <2>. QED BY <1>0, <2>1, <2>2, <2>4, <2>5, <2>6, ProgramStep
<1>7. ASSUME NEW p \in Programs, ConsumeFails(p) PROVE TokenInv'
  <2>1. PICK x \in TokenPrograms : /\ programs' = [programs EXCEPT ![p] = x]
                                   /\ ProgramInv(p, x, used, unblocks, losses)
    BY <1>7, CallEnds DEF ConsumeFails
  <2>. QED BY <1>7, <1>s, <2>1 DEF ConsumeFails
<1>8. ASSUME NEW p \in Programs, NEW ok \in BOOLEAN, Unblock(p, ok) PROVE TokenInv'
  <2> DEFINE t == programs[p].token
             n == AfterUnblock(p, ok)
             x == IF n = "idle" THEN IdleProgram ELSE [programs[p] EXCEPT !.pc = n]
  <2>1. /\ programs' = [programs EXCEPT ![p] = x] /\ programs[p].pc = "unblock"
        /\ unblocks' = IF ok THEN [unblocks EXCEPT ![t][p] = @ + 1] ELSE unblocks
        /\ UNCHANGED <<serverVars, used, losses, workers>>
    BY <1>0, <1>8 DEF Unblock, Stop, Goto
  <2>2. /\ t \in Tokens /\ t \in used[p] /\ unblocks[t][p] <= losses[t][p]
        /\ programs[p].on = None /\ unblocks[t][p] \in Nat /\ losses[t][p] \in Nat
    <3>1. ProgramInv(p, programs[p], used, unblocks, losses) /\ "unblock" \in ToUnblock(p)
      BY <1>0 DEF ToUnblock
    <3>2. t \in Tokens /\ t \in used[p] /\ unblocks[t][p] <= losses[t][p]
          /\ programs[p].on = None
      BY <2>1, <3>1 DEF ProgramInv
    <3>. QED BY <1>0, <3>2
  <2>3. n = IF p = "agent" THEN IF ok THEN "ack" ELSE "nack" ELSE IF ok THEN "call" ELSE "idle"
    BY DEF AfterUnblock, Programs
  <2>4. /\ x \in TokenPrograms
        /\ x.pc = n /\ x.on = None /\ (n # "idle" => x.token = t)
    BY <1>0, <2>2, <2>3, IdleTokenUsers DEF TokenPrograms
  <2>5. /\ unblocks' \in [Tokens -> [Programs -> Nat]]
        /\ \A s \in Tokens, q \in Programs :
              unblocks'[s][q] = IF s = t /\ q = p /\ ok THEN unblocks[t][p] + 1 ELSE unblocks[s][q]
    BY <1>0, <2>1, <2>2
  <2> HIDE DEF x, n, t
  <2>6. ProgramInv(p, x, used, unblocks', losses)
    BY <2>1, <2>2, <2>3, <2>4, <2>5 DEF ProgramInv, ToUnblock, Programs
  <2>7. ASSUME NEW q \in Programs
        PROVE  ProgramInv(q, programs'[q], used', unblocks', losses')
    <3>1. CASE q = p
      BY <1>0, <2>1, <2>6, <3>1
    <3>2. CASE q # p
      BY <1>0, <2>1, <2>5, <3>2 DEF ProgramInv, ToUnblock
    <3>. QED BY <3>1, <3>2
  <2>8. TypeOK'
    BY <1>0, <2>1, <2>4, <2>5 DEF TypeOK, TokenPrograms, TokenWorkers, serverVars, requestVars
  <2>9. UsesInv'
    BY <1>0, <1>w, <2>1, <2>2, <2>5 DEF UsesInv
  <2>10. StatusTellsUse'
    <3>1. ConsumedWasUsed'
      BY <2>1 DEF TokenInv, StatusTellsUse, ConsumedWasUsed, serverVars
    <3>2. AppliedDidUnblock'
      <4>1. \A s \in Tokens : unblocks[s]["agent"] >= 1 => unblocks'[s]["agent"] >= 1
        BY <1>0, <2>2, <2>5 DEF Programs
      <4>. QED BY <2>1, <4>1 DEF TokenInv, StatusTellsUse, AppliedDidUnblock, serverVars, requestVars
    <3>3. RevocationStands'
      BY <2>1 DEF TokenInv, StatusTellsUse, RevocationStands, serverVars
    <3>. QED BY <3>1, <3>2, <3>3 DEF StatusTellsUse
  <2>11. WithdrawnInv'
    BY <1>w, <2>1 DEF WithdrawnInv, serverVars
  <2>. QED BY <1>0, <2>1, <2>7, <2>8, <2>9, <2>10, <2>11 DEF TokenInv
<1>9. CASE Acknowledge
  <2> DEFINE x == programs["agent"]
  <2>1. /\ x.pc \in {"ack", "nack"}
        /\ commands' = [commands EXCEPT ![x.token] = IF x.pc = "ack" THEN "APPLIED" ELSE "FAILED"]
        /\ programs' = [programs EXCEPT !["agent"] = IdleProgram]
        /\ UNCHANGED <<device_allow_tokens, issuing, held, expired, withdrawn, used, losses, workers,
                       unblocks>>
    BY <1>9 DEF Acknowledge, Stop
  <2>2. /\ "agent" \in Programs /\ x.token \in Tokens
        /\ x.pc = "ack" => unblocks[x.token]["agent"] >= 1
    BY <1>0, <2>1 DEF Programs, ProgramInv
  <2>3. TypeOK'
    BY <1>0, <1>t, <2>1, <2>2, IdleTokenUsers
  <2>4. \A q \in Programs : ProgramInv(q, programs'[q], used, unblocks, losses)
    BY <1>0, <2>1, IdleTokenUsers
  <2>5. \A t \in Tokens : commands'[t] = "APPLIED" =>
           commands[t] = "APPLIED" \/ unblocks[t]["agent"] >= 1
    BY <1>0, <2>1, <2>2
  <2>6. WithdrawnInv'
    BY <1>w, <2>1 DEF WithdrawnInv
  <2>. QED BY <1>0, <2>1, <2>3, <2>4, <2>5, <2>6, ServerStep
<1>10. CASE AcknowledgeFails
  <2> DEFINE x == [programs["agent"] EXCEPT !.pc = "nack"]
  <2>1. "agent" \in Programs /\ UNCHANGED <<serverVars, used, losses, workers, unblocks>>
    BY <1>10 DEF AcknowledgeFails, Programs
  <2>2. CASE programs["agent"].pc = "ack"
    <3>1. programs' = [programs EXCEPT !["agent"] = x]
      BY <1>0, <1>10, <2>1, <2>2 DEF AcknowledgeFails, Goto
    <3>2. programs["agent"].token \in Tokens /\ programs["agent"].on = None
      BY <1>0, <2>1, <2>2 DEF ProgramInv
    <3>3. /\ x \in TokenPrograms /\ x.pc = "nack"
          /\ x.token = programs["agent"].token /\ x.on = None
      BY <1>0, <2>1, <3>2 DEF TokenPrograms
    <3>4. ProgramInv("agent", x, used, unblocks, losses)
      <4> HIDE DEF x
      <4>. QED BY <3>2, <3>3 DEF ProgramInv, ToUnblock
    <3>. QED BY <1>s, <2>1, <3>1, <3>3, <3>4
  <2>3. CASE programs["agent"].pc # "ack"
    <3>1. programs' = [programs EXCEPT !["agent"] = IdleProgram]
      BY <1>10, <2>3 DEF AcknowledgeFails, Stop
    <3>. QED BY <1>s, <2>1, <3>1, IdleTokenUsers
  <2>. QED BY <2>2, <2>3
<1>11. ASSUME NEW p \in Programs, ProgramDies(p) PROVE TokenInv'
  <2>1. programs' = [programs EXCEPT ![p] = IdleProgram]
        /\ UNCHANGED <<serverVars, unblocks, workers>>
    BY <1>11 DEF ProgramDies, Stop
  <2>2. CASE UNCHANGED <<used, losses>>
    BY <1>s, <2>1, <2>2, IdleTokenUsers
  <2>3. CASE programs[p].pc = "save" /\ StoreCut(p)
    BY <2>1, <2>3, CutStep, IdleTokenUsers
  <2>. QED BY <1>11, <2>2, <2>3 DEF ProgramDies
<1>12. ASSUME NEW w \in Workers, ConsumeRead(w) PROVE TokenInv'
  <2>1. workers[w].pc = "read" /\ UNCHANGED <<serverVars, used, unblocks, losses>>
    BY <1>12 DEF ConsumeRead
  <2>2. CASE Reply(w)
    <3>1. /\ programs' \in [Programs -> TokenPrograms] /\ workers' \in [Workers -> TokenWorkers]
          /\ workers' = [workers EXCEPT ![w] = IdleWorker]
          /\ \A q \in Programs : ProgramInv(q, programs'[q], used, unblocks, losses)
          /\ \A v \in Workers : WorkerInv(workers'[v], used, losses)
      BY <2>1, <2>2, ReplyStep
    <3>2. TypeOK'
      BY <1>0, <1>t, <2>1, <3>1 DEF serverVars, requestVars
    <3>3. WithdrawnInv'
      BY <1>0, <1>w, <2>1, <3>1, IdleTokenUsers DEF WithdrawnInv, serverVars
    <3>. QED BY <2>1, <3>1, <3>2, <3>3, ServerStep DEF serverVars, requestVars
  <2>3. CASE ~Reply(w)
    <3>1. PICK pc \in {"expire", "write"} : workers' = [workers EXCEPT ![w].pc = pc]
                                            /\ UNCHANGED programs
      BY <1>12, <2>3 DEF ConsumeRead
    <3>2. device_allow_tokens[workers[w].token] = "ACTIVE"
      BY <1>12, <2>3 DEF ConsumeRead
    <3>3. /\ workers' \in [Workers -> TokenWorkers]
          /\ workers'[w].token = workers[w].token
          /\ \A v \in Workers \ {w} : workers'[v] = workers[v]
          /\ \A v \in Workers : WorkerInv(workers'[v], used, losses)
      BY <1>0, <2>1, <3>1 DEF TokenWorkers, WorkerInv
    <3>4. TypeOK'
      BY <1>0, <1>t, <2>1, <3>1, <3>3 DEF serverVars, requestVars
    <3>5. WithdrawnInv'
      BY <1>w, <2>1, <3>2, <3>3 DEF WithdrawnInv, serverVars
    <3>. QED BY <1>0, <1>k, <2>1, <3>1, <3>3, <3>4, <3>5, ServerStep DEF serverVars, requestVars
  <2>. QED BY <2>2, <2>3
<1>13. ASSUME NEW w \in Workers, ConsumeExpire(w) \/ ConsumeWrite(w) PROVE TokenInv'
  <2> DEFINE t == workers[w].token
  <2>1. /\ workers[w].pc \in {"expire", "write"} /\ Reply(w)
        /\ UNCHANGED <<issuing, commands, held, expired, withdrawn, used, unblocks, losses>>
        /\ \E s \in {"EXPIRED", "CONSUMED"} :
              device_allow_tokens' = [device_allow_tokens EXCEPT ![t] = s]
    BY <1>13 DEF ConsumeExpire, ConsumeWrite, MarkedConsumed, requestVars
  <2>2. t \in Tokens /\ t \notin withdrawn /\ \E q \in Programs : Marked(t, q, used, losses)
    BY <1>0, <1>w, <2>1 DEF WorkerInv, TokenWorkers, WithdrawnInv
  <2>3. /\ programs' \in [Programs -> TokenPrograms] /\ workers' \in [Workers -> TokenWorkers]
        /\ workers' = [workers EXCEPT ![w] = IdleWorker]
        /\ \A q \in Programs : ProgramInv(q, programs'[q], used, unblocks, losses)
        /\ \A v \in Workers : WorkerInv(workers'[v], used, losses)
    BY <2>1, ReplyStep
  <2>4. /\ device_allow_tokens' \in [Tokens -> TokenStatus]
        /\ \A s \in Tokens \ {t} : device_allow_tokens'[s] = device_allow_tokens[s]
    BY <1>0, <2>1, <2>2 DEF TokenStatus
  <2>5. \A s \in Tokens : device_allow_tokens'[s] = "CONSUMED" =>
              \/ device_allow_tokens[s] = "CONSUMED"
              \/ \E q \in Programs : Marked(s, q, used, losses)
    BY <2>2, <2>4
  <2>6. TypeOK'
    BY <1>0, <1>t, <2>1, <2>3, <2>4
  <2>7. WithdrawnInv'
    BY <1>0, <1>w, <2>1, <2>2, <2>3, <2>4, IdleTokenUsers DEF WithdrawnInv
  <2>. QED BY <2>1, <2>3, <2>5, <2>6, <2>7, ServerStep
<1>14. ASSUME NEW w \in Workers, WorkerDies(w) PROVE TokenInv'
  <2>1. /\ workers' = [workers EXCEPT ![w] = IdleWorker]
        /\ UNCHANGED <<serverVars, used, programs, unblocks, losses>>
    BY <1>14 DEF WorkerDies, clientVars
  <2>2. /\ workers' \in [Workers -> TokenWorkers]
        /\ \A v \in Workers : WorkerInv(workers'[v], used, losses)
    BY <1>0, <2>1, IdleTokenUsers
  <2>3. TypeOK'
    BY <1>0, <1>t, <2>1, <2>2 DEF serverVars, requestVars
  <2>4. WithdrawnInv'
    BY <1>0, <1>w, <2>1, IdleTokenUsers DEF WithdrawnInv, serverVars
  <2>. QED BY <1>0, <1>k, <2>1, <2>2, <2>3, <2>4, ServerStep DEF serverVars, requestVars
<1>15. CASE UNCHANGED vars
  <2>1. UNCHANGED <<device_allow_tokens, issuing, commands, held, expired, withdrawn, used,
                    programs, workers, unblocks, losses>>
    BY <1>15 DEF vars, serverVars, requestVars, clientVars
  <2>2. TypeOK'
    BY <1>0, <1>t, <2>1
  <2>3. WithdrawnInv'
    BY <1>w, <2>1 DEF WithdrawnInv
  <2>. QED BY <1>0, <1>k, <2>1, <2>2, <2>3, ServerStep
<1>. QED BY <1>1, <1>2, <1>3, <1>4, <1>5, <1>6, <1>7, <1>8, <1>9, <1>10, <1>11, <1>12, <1>13,
            <1>14, <1>15, <1>16, <1>17, <1>r DEF Next

LEMMA TokenStart == Init => TokenInv
<1> SUFFICES ASSUME Init PROVE TokenInv
  OBVIOUS
<1>1. TypeOK
  BY IdleTokenUsers DEF Init, TypeOK, TokenStatus, TokenPrograms, TokenWorkers
<1>2. /\ \A p \in Programs : ProgramInv(p, programs[p], used, unblocks, losses)
      /\ \A w \in Workers : WorkerInv(workers[w], used, losses)
  BY IdleTokenUsers DEF Init
<1>3. UsesInv /\ WithdrawnInv /\ StatusTellsUse
  BY DEF Init, UsesInv, WithdrawnInv, StatusTellsUse, ConsumedWasUsed, AppliedDidUnblock,
         RevocationStands
<1>. QED BY <1>1, <1>2, <1>3 DEF TokenInv

(* Neither program unblocks twice with one token, for any number of tokens  *)
(* and of overlapping, lost and repeated reports of their use, unless its   *)
(* store was cut short, and then once more for each time it lost the token. *)
THEOREM TokenUnblocksOnce == Spec => []OncePerProgram
<1>1. TokenInv => OncePerProgram
  BY DEF TokenInv, UsesInv, OncePerProgram
<1>. QED BY <1>1, TokenStart, TokenStep, PTL DEF Spec

(* What the server shows of a token and of its command has happened on the  *)
(* client, and a revocation with no consume request about to write stands.  *)
THEOREM TokenStatusIsTrue == Spec => []StatusTellsUse
<1>1. TokenInv => StatusTellsUse
  BY DEF TokenInv
<1>. QED BY <1>1, TokenStart, TokenStep, PTL DEF Spec

=============================================================================
