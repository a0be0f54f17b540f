----------------------------- MODULE Enrollment -----------------------------
(***************************************************************************)
(* Enrolment tokens and the registration of agents.  A request to          *)
(* /agents/enroll is admitted when the licence has a seat left, spends one  *)
(* use of its token in one transaction, registers the agent in a second    *)
(* and writes the agent into the row of the use in a third; requests to    *)
(* /agents/register have no token and only register.  Every function of    *)
(* EnrollmentService begins with an UPDATE, _touch_expired_tokens_with_conn,*)
(* so it holds SQLite's write lock from its first statement on and is one  *)
(* atomic step; when it raises, the marks of that UPDATE are lost again.   *)
(***************************************************************************)
EXTENDS Naturals, Sequences, FiniteSets

CONSTANTS
    Tokens,      \* token ids, each with the idempotency key or kit it comes from
    MaxUses,     \* max_uses of a token
    Clients,     \* name and hostname of a client machine, as a request sends them
    Stripped,    \* the same without surrounding blanks
    Sequential,  \* clients that send one enrolment at a time
    MaxAgents,   \* max_agents of the licence
    Handlers,    \* requests in flight at a time (bound; not the server's threads)
    None

ASSUME EnrollmentAssumption ==
    /\ MaxUses \in [Tokens -> Nat \ {0}]
    /\ Stripped \in [Clients -> Clients]
    /\ Sequential \subseteq Clients
    /\ \A c \in Sequential, d \in Clients : Stripped[d] = c <=> d = c
    /\ MaxAgents \in Nat
    /\ IsFiniteSet(Handlers) /\ Handlers # {}
    /\ None \notin Tokens \cup Clients \cup Nat

VARIABLES
    enrollment_tokens,      \* status and used_count of each token
    expired,                \* tokens whose expires_at has passed
    enrollment_token_uses,  \* rows in the order of their id
    agents,                 \* rows in the order of their id, with the token (history)
    handlers,               \* requests in flight
    overlap                 \* most requests pending at once (history)

vars == <<enrollment_tokens, expired, enrollment_token_uses, agents, handlers, overlap>>

NoToken == [status |-> "none", used_count |-> 0]
\* "spent" is the use this request inserted; the code does not keep it.
Idle == [pc |-> "idle", token |-> None, client |-> None, agent |-> None,
         use |-> None, spent |-> None]

Init ==
    /\ enrollment_tokens = [t \in Tokens |-> NoToken]
    /\ expired = {}
    /\ enrollment_token_uses = <<>>
    /\ agents = <<>>
    /\ handlers = [h \in Handlers |-> Idle]
    /\ overlap = 0

----------------------------------------------------------------------------
(* EnrollmentService for administrators, and the clock.                    *)

Expire(t) ==
    /\ expired' = expired \cup {t}
    /\ UNCHANGED <<enrollment_tokens, enrollment_token_uses, agents, handlers, overlap>>

\* UPDATE ... SET status = 'EXPIRED' WHERE status = 'ACTIVE' AND expires_at <= now
Touched ==
    [t \in Tokens |-> IF t \in expired /\ enrollment_tokens[t].status = "ACTIVE"
                      THEN [enrollment_tokens[t] EXCEPT !.status = "EXPIRED"]
                      ELSE enrollment_tokens[t]]

\* list_tokens; a repeated issue, revocation or import leaves no more than this.
ListTokens ==
    /\ enrollment_tokens' = Touched
    /\ UNCHANGED <<expired, enrollment_token_uses, agents, handlers, overlap>>

IssueToken(t) ==
    /\ enrollment_tokens[t].status = "none"
    /\ t \notin expired
    /\ enrollment_tokens' = [Touched EXCEPT ![t] = [status |-> "ACTIVE", used_count |-> 0]]
    /\ UNCHANGED <<expired, enrollment_token_uses, agents, handlers, overlap>>

ImportAfresh(t) == TRUE
\* A token that is already in the table keeps its row.
ImportInserts(t) == enrollment_tokens[t].status = "none"

ImportOfflineKit(t) ==
    /\ ImportInserts(t)
    /\ enrollment_tokens' = [Touched EXCEPT ![t] =
          [status |-> IF t \in expired THEN "EXPIRED" ELSE "ACTIVE", used_count |-> 0]]
    /\ UNCHANGED <<expired, enrollment_token_uses, agents, handlers, overlap>>

RevokeToken(t) ==
    /\ enrollment_tokens[t].status # "none"
    /\ enrollment_tokens' = [Touched EXCEPT ![t].status = "REVOKED"]
    /\ UNCHANGED <<expired, enrollment_token_uses, agents, handlers, overlap>>

----------------------------------------------------------------------------
(* /agents/enroll and /agents/register.                                    *)

OneSeatMore == Len(agents) <= MaxAgents
SeatFree == Len(agents) < MaxAgents

\* Requests between the count of the agents and their own INSERT.
Pending == {h \in Handlers : handlers[h].pc \in {"admitted", "consumed"}}

\* require_registration_allowed, before the handler runs: they are two calls
\* in the thread pool, and a request between them holds no thread.
Admit(h, c, t) ==
    /\ handlers[h].pc = "idle"
    /\ SeatFree
    /\ c \in Sequential => \A g \in Handlers : handlers[g].client # c
    /\ handlers' = [handlers EXCEPT ![h] =
          [Idle EXCEPT !.pc = "admitted", !.token = t, !.client = c]]
    /\ overlap' = IF overlap > Cardinality(Pending) THEN overlap ELSE Cardinality(Pending) + 1
    /\ UNCHANGED <<enrollment_tokens, expired, enrollment_token_uses, agents>>

Consumable(t) ==
    /\ Touched[t].status = "ACTIVE"
    /\ enrollment_tokens[t].used_count < MaxUses[t]

NextUsed(t) == enrollment_tokens[t].used_count + 1
UsedUp(t) == NextUsed(t) >= MaxUses[t]
NextStatus(t) == IF UsedUp(t) THEN "CONSUMED" ELSE "ACTIVE"

\* consume_token_for_enrollment
Consume(h) ==
    LET t == handlers[h].token
        row == [token |-> t, client |-> handlers[h].client, agent |-> None]
    IN  /\ handlers[h].pc = "admitted"
        /\ t # None
        /\ Consumable(t)
        /\ enrollment_tokens' = [Touched EXCEPT ![t] =
              [status |-> NextStatus(t), used_count |-> NextUsed(t)]]
        /\ enrollment_token_uses' = Append(enrollment_token_uses, row)
        /\ handlers' = [handlers EXCEPT ![h] =
              [@ EXCEPT !.pc = "consumed", !.spent = Len(enrollment_token_uses) + 1]]
        /\ UNCHANGED <<expired, agents, overlap>>

\* TOKEN_INVALID, _REVOKED, _EXPIRED or _CONSUMED: nothing is committed.
ConsumeRefused(h) ==
    /\ handlers[h].pc = "admitted"
    /\ handlers[h].token # None
    /\ ~Consumable(handlers[h].token)
    /\ handlers' = [handlers EXCEPT ![h] = Idle]
    /\ UNCHANGED <<enrollment_tokens, expired, enrollment_token_uses, agents, overlap>>

RegisterFirst(x) == x.pc \in {"admitted", "consumed"}
RegisterNext(x) == x.pc = IF x.token = None THEN "admitted" ELSE "consumed"

\* AgentService.register_agent; /agents/register ends here.
Register(h) ==
    LET x == handlers[h] IN
    /\ RegisterNext(x)
    /\ agents' = Append(agents, [client |-> Stripped[x.client], token |-> x.token])
    /\ handlers' = [handlers EXCEPT ![h] =
          IF x.token = None THEN Idle
          ELSE [x EXCEPT !.pc = "registered", !.agent = Len(agents) + 1]]
    /\ UNCHANGED <<enrollment_tokens, expired, enrollment_token_uses, overlap>>

OpenUsesOfClient(t, c) ==
    {i \in DOMAIN enrollment_token_uses :
        enrollment_token_uses[i].client = c /\ enrollment_token_uses[i].agent = None}
\* WHERE token_id = ? AND agent_id IS NULL AND hostname = ? AND agent_name = ?
OpenUses(t, c) ==
    {i \in OpenUsesOfClient(t, c) : enrollment_token_uses[i].token = t}

\* ORDER BY id DESC LIMIT 1
IsLatest(i, S) == \A j \in S : i >= j

\* The stripped name is looked up; consume has stored the name as sent.
LinkRead(h) ==
    LET x == handlers[h]
        found == OpenUses(x.token, Stripped[x.client])
    IN  /\ x.pc = "registered"
        /\ \/ /\ found = {}
              /\ handlers' = [handlers EXCEPT ![h] = Idle]
           \/ \E i \in found :
                 /\ IsLatest(i, found)
                 /\ handlers' = [handlers EXCEPT ![h] = [x EXCEPT !.pc = "link", !.use = i]]
        /\ UNCHANGED <<enrollment_tokens, expired, enrollment_token_uses, agents, overlap>>

\* UPDATE ... SET agent_id = ? WHERE id = ?
LinkWrite(h) ==
    LET x == handlers[h] IN
    /\ x.pc = "link"
    /\ enrollment_token_uses' = [enrollment_token_uses EXCEPT ![x.use].agent = x.agent]
    /\ handlers' = [handlers EXCEPT ![h] = Idle]
    /\ UNCHANGED <<enrollment_tokens, expired, agents, overlap>>

\* A crash, or an exception of any statement: what is committed stays.
HandlerDies(h) ==
    /\ handlers[h].pc # "idle"
    /\ handlers' = [handlers EXCEPT ![h] = Idle]
    /\ UNCHANGED <<enrollment_tokens, expired, enrollment_token_uses, agents, overlap>>

Next ==
    \/ \E t \in Tokens :
          Expire(t) \/ IssueToken(t) \/ ImportOfflineKit(t) \/ RevokeToken(t)
    \/ ListTokens
    \/ \E h \in Handlers :
          \/ \E c \in Clients, t \in Tokens \cup {None} : Admit(h, c, t)
          \/ Consume(h) \/ ConsumeRefused(h) \/ Register(h)
          \/ LinkRead(h) \/ LinkWrite(h) \/ HandlerDies(h)

Spec == Init /\ [][Next]_vars

----------------------------------------------------------------------------
Statuses == {"none", "ACTIVE", "CONSUMED", "EXPIRED", "REVOKED"}

TypeOK ==
    /\ enrollment_tokens \in [Tokens -> [status : Statuses, used_count : Nat]]
    /\ expired \subseteq Tokens
    /\ enrollment_token_uses \in
          Seq([token : Tokens, client : Clients, agent : Nat \cup {None}])
    /\ agents \in Seq([client : Clients, token : Tokens \cup {None}])
    /\ handlers \in [Handlers ->
          [pc : {"idle", "admitted", "consumed", "registered", "link"},
           token : Tokens \cup {None}, client : Clients \cup {None},
           agent : Nat \cup {None}, use : Nat \cup {None}, spent : Nat \cup {None}]]
    /\ overlap \in Nat

UsesOf(t) == {i \in DOMAIN enrollment_token_uses : enrollment_token_uses[i].token = t}
EnrolledWith(t) == {a \in DOMAIN agents : agents[a].token = t}

(* A token lets no more agents in than it has uses: each agent that was    *)
(* enrolled with it has spent a use, each use is counted and has a row,    *)
(* and there are at most max_uses, whichever requests overlap or die.      *)
EnrolledWithinUses ==
    \A t \in Tokens :
        /\ Cardinality(EnrolledWith(t)) <= Cardinality(UsesOf(t))
        /\ Cardinality(UsesOf(t)) = enrollment_tokens[t].used_count
        /\ enrollment_tokens[t].used_count <= MaxUses[t]

(* The status shown to administrators agrees with the count: an ACTIVE     *)
(* token has a use left and a CONSUMED one has none.                       *)
StatusTellsBudget ==
    \A t \in Tokens :
        LET row == enrollment_tokens[t] IN
        /\ row.status = "ACTIVE" => row.used_count < MaxUses[t]
        /\ row.status = "CONSUMED" => row.used_count = MaxUses[t]

(* The agent a use names was enrolled with that token from that machine:   *)
(* an overlapping or an abandoned request never puts an agent under a use  *)
(* of another token.                                                       *)
UseNamesItsAgent ==
    \A i \in DOMAIN enrollment_token_uses :
        LET row == enrollment_token_uses[i] IN
        row.agent # None => /\ row.agent \in DOMAIN agents
                            /\ agents[row.agent].token = row.token
                            /\ agents[row.agent].client = row.client

(* A client that enrols one request at a time, under a name without        *)
(* blanks around it, has its agent written into the use it spent, also     *)
(* when earlier requests of it died and left uses without an agent.        *)
LinksOwnUse ==
    \A h \in Handlers :
        /\ handlers[h].pc = "link"
        /\ handlers[h].client \in Sequential
        => handlers[h].use = handlers[h].spent

(* The seat check counts before it registers, so requests that overlap     *)
(* overbook the licence, but only they: by fewer agents than requests have *)
(* stood between the count and their own INSERT at once, hence not at all  *)
(* when they come one at a time.                                           *)
SeatsBounded == Len(agents) > MaxAgents => Len(agents) < MaxAgents + overlap

(* What has ended stays ended: a token that was revoked, has expired or is *)
(* used up is not used again, a revocation is not undone, and a kit that   *)
(* is imported once more gives no use back.                                *)
EndedIsFinal ==
    [][\A t \in Tokens :
          LET old == enrollment_tokens[t]  new == enrollment_tokens'[t] IN
          /\ old.status = "REVOKED" => new = old
          /\ old.status \in {"CONSUMED", "EXPIRED"} =>
                new \in {old, [old EXCEPT !.status = "REVOKED"]}
          /\ t \in expired /\ old.status # "none" =>
                new.used_count = old.used_count]_vars

=============================================================================
