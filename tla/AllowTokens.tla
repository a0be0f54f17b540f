---------------------------- MODULE AllowTokens ----------------------------
(***************************************************************************)
(* Device allow tokens: issued and recorded by the server, handed to the   *)
(* agent in a DEVICE_UNBLOCK command or to an operator as a string, and    *)
(* used by two programs of the client machine, the agent loop and the      *)
(* client GUI.  Each program checks and marks a token in its own store of  *)
(* used tokens (configure_runtime_storage is called by the agent only) and *)
(* reports the use to the server, whose answer neither of them heeds.  A   *)
(* store is one file, truncated and written whole: a program killed in the *)
(* middle leaves a cut file, which is read as an empty store.              *)
(***************************************************************************)
EXTENDS Naturals, FiniteSets

CONSTANTS
    Tokens,     \* token ids; all of one agent, at most one command each
    Workers,    \* server threads that serve allow-token/consume
    MaxLosses,  \* how often a program may lose a used token (bound)
    None

ASSUME AllowTokensAssumption ==
    None \notin Tokens \cup Workers /\ MaxLosses \in Nat

Programs == {"agent", "gui"}

VARIABLES
    device_allow_tokens,  \* status column of the server's table
    issuing,              \* the request still at work on a token it issued
    commands,             \* status of the DEVICE_UNBLOCK command with the token
    held,                 \* tokens the operator has as a string
    expired,              \* tokens whose expires_at has passed
    used,                 \* store of used tokens of each program
    programs,             \* what each program is doing
    workers,              \* consume requests in flight
    unblocks,             \* unblock_device calls made on a token (history)
    losses,               \* saves cut short that lost a used token (history)
    withdrawn             \* revoked with no consume request about to write (history)

requestVars == <<issuing, commands, held, expired>>
serverVars == <<device_allow_tokens, requestVars, withdrawn>>
clientVars == <<used, programs, unblocks, losses>>
vars == <<serverVars, clientVars, workers>>

IdleProgram == [pc |-> "idle", token |-> None, on |-> None]
IdleWorker == [pc |-> "idle", token |-> None, program |-> "agent"]

Init ==
    /\ device_allow_tokens = [t \in Tokens |-> "none"]
    /\ issuing = [t \in Tokens |-> "none"]
    /\ commands = [t \in Tokens |-> "none"]
    /\ held = {}
    /\ expired = {}
    /\ used = [p \in Programs |-> {}]
    /\ programs = [p \in Programs |-> IdleProgram]
    /\ workers = [w \in Workers |-> IdleWorker]
    /\ unblocks = [t \in Tokens |-> [p \in Programs |-> 0]]
    /\ losses = [t \in Tokens |-> [p \in Programs |-> 0]]
    /\ withdrawn = {}

----------------------------------------------------------------------------
(* The administrator's requests and the clock.                             *)

\* issue_token, called by allow-token, secure-declare and unblock-approve.
IssueToken(t, request) ==
    /\ device_allow_tokens[t] = "none"
    /\ device_allow_tokens' = [device_allow_tokens EXCEPT ![t] = "ACTIVE"]
    /\ issuing' = [issuing EXCEPT ![t] = request]
    /\ UNCHANGED <<commands, held, expired, withdrawn, clientVars, workers>>

\* The rest of the request: the command, and the token in the answer.
AnswerIssue(t) ==
    /\ issuing[t] # "none"
    /\ issuing' = [issuing EXCEPT ![t] = "none"]
    /\ commands' = IF issuing[t] = "allow-token" THEN commands
                   ELSE [commands EXCEPT ![t] = "PENDING"]
    /\ held' = IF issuing[t] = "unblock-approve" THEN held ELSE held \cup {t}
    /\ UNCHANGED <<device_allow_tokens, expired, withdrawn, clientVars, workers>>

IssueDies(t) ==
    /\ issuing[t] # "none"
    /\ issuing' = [issuing EXCEPT ![t] = "none"]
    /\ UNCHANGED <<device_allow_tokens, commands, held, expired, withdrawn, clientVars,
                   workers>>

\* Consume requests that have read the token and are about to mark it.
Marking(t) ==
    {w \in Workers : workers[w].token = t /\ workers[w].pc \in {"expire", "write"}}

\* revoke_token: UPDATE ... SET status = 'REVOKED', whatever it was.
RevokeToken(t) ==
    /\ device_allow_tokens[t] # "none"
    /\ device_allow_tokens' = [device_allow_tokens EXCEPT ![t] = "REVOKED"]
    /\ withdrawn' = IF Marking(t) = {} THEN withdrawn \cup {t} ELSE withdrawn
    /\ UNCHANGED <<requestVars, clientVars, workers>>

Expire(t) ==
    /\ device_allow_tokens[t] # "none"
    /\ expired' = expired \cup {t}
    /\ UNCHANGED <<device_allow_tokens, issuing, commands, held, withdrawn, clientVars,
                   workers>>

----------------------------------------------------------------------------
(* consume_manual_allow_token, in either program.                          *)

UsableAgain(p, t) == t \notin expired
Usable(p, t) == t \notin expired /\ t \notin used[p]

Goto(p, pc) == programs' = [programs EXCEPT ![p].pc = pc]
Stop(p) == programs' = [programs EXCEPT ![p] = IdleProgram]

\* process_commands reaches the command; a token refused is a nack.
AgentUse(t) ==
    /\ programs["agent"].pc = "idle"
    /\ commands[t] = "PENDING"
    /\ programs' = [programs EXCEPT !["agent"] = [IdleProgram EXCEPT
          !.pc = IF Usable("agent", t) THEN "save" ELSE "nack", !.token = t]]
    /\ UNCHANGED <<serverVars, used, unblocks, losses, workers>>

\* apply_secure_key; a token refused is an error message.
GuiUse(t) ==
    /\ programs["gui"].pc = "idle"
    /\ t \in held
    /\ Usable("gui", t)
    /\ programs' = [programs EXCEPT !["gui"] = [IdleProgram EXCEPT
          !.pc = "save", !.token = t]]
    /\ UNCHANGED <<serverVars, used, unblocks, losses, workers>>

\* save_used_allow_tokens: the store that was loaded, and the token.
Save(p) ==
    /\ programs[p].pc = "save"
    /\ used' = [used EXCEPT ![p] = @ \cup {programs[p].token}]
    /\ Goto(p, IF p = "agent" THEN "call" ELSE "unblock")
    /\ UNCHANGED <<serverVars, unblocks, losses, workers>>

\* The file was truncated and not yet written.
StoreCut(p) ==
    /\ \A t \in used[p] : losses[t][p] < MaxLosses
    /\ used' = [used EXCEPT ![p] = {}]
    /\ losses' = [t \in Tokens |->
          IF t \in used[p] THEN [losses[t] EXCEPT ![p] = @ + 1] ELSE losses[t]]

\* An exception of the save: the agent nacks, the GUI shows a message.
SaveFails(p) ==
    /\ programs[p].pc = "save"
    /\ StoreCut(p) \/ UNCHANGED <<used, losses>>
    /\ IF p = "agent" THEN Goto(p, "nack") ELSE Stop(p)
    /\ UNCHANGED <<serverVars, unblocks, workers>>

SendConsume(p, w) ==
    /\ programs[p].pc = "call"
    /\ workers[w].pc = "idle"
    /\ workers' = [workers EXCEPT ![w] =
          [pc |-> "read", token |-> programs[p].token, program |-> p]]
    /\ programs' = [programs EXCEPT ![p].pc = "wait", ![p].on = w]
    /\ UNCHANGED <<serverVars, used, unblocks, losses>>

\* The agent goes on to unblock the device, the GUI has finished.
AfterCall(p) ==
    programs' = [programs EXCEPT ![p] =
       IF p = "agent" THEN [@ EXCEPT !.pc = "unblock", !.on = None] ELSE IdleProgram]

\* except Exception: pass
ConsumeFails(p) ==
    /\ programs[p].pc \in {"call", "wait"}
    /\ AfterCall(p)
    /\ UNCHANGED <<serverVars, used, unblocks, losses, workers>>

AckAnyway(p, ok) == IF p = "agent" THEN "ack" ELSE "call"

AfterUnblock(p, ok) ==
    CASE p = "agent" /\ ok  -> "ack"
      [] p = "agent" /\ ~ok -> "nack"
      [] p = "gui" /\ ok    -> "call"
      [] p = "gui" /\ ~ok   -> "idle"

Unblock(p, ok) ==
    LET t == programs[p].token IN
    /\ programs[p].pc = "unblock"
    /\ unblocks' = IF ok THEN [unblocks EXCEPT ![t][p] = @ + 1] ELSE unblocks
    /\ IF AfterUnblock(p, ok) = "idle" THEN Stop(p) ELSE Goto(p, AfterUnblock(p, ok))
    /\ UNCHANGED <<serverVars, used, losses, workers>>

\* The acknowledgement of the command, or of its failure, is recorded.
Acknowledge ==
    LET x == programs["agent"] IN
    /\ x.pc \in {"ack", "nack"}
    /\ commands' = [commands EXCEPT ![x.token] =
          IF x.pc = "ack" THEN "APPLIED" ELSE "FAILED"]
    /\ Stop("agent")
    /\ UNCHANGED <<device_allow_tokens, issuing, held, expired, withdrawn, used, unblocks,
                   losses, workers>>

\* It is lost: a lost ack is followed by a nack, a lost nack by nothing.
AcknowledgeFails ==
    /\ programs["agent"].pc \in {"ack", "nack"}
    /\ IF programs["agent"].pc = "ack" THEN Goto("agent", "nack") ELSE Stop("agent")
    /\ UNCHANGED <<serverVars, used, unblocks, losses, workers>>

ProgramDies(p) ==
    /\ programs[p].pc # "idle"
    /\ \/ UNCHANGED <<used, losses>>
       \/ programs[p].pc = "save" /\ StoreCut(p)
    /\ Stop(p)
    /\ UNCHANGED <<serverVars, unblocks, workers>>

----------------------------------------------------------------------------
(* DeviceAllowTokenService.consume_token.                                  *)

\* The program that still waits for w goes on, whatever the answer says.
Reply(w) ==
    LET p == workers[w].program IN
    /\ workers' = [workers EXCEPT ![w] = IdleWorker]
    /\ IF programs[p].on = w THEN AfterCall(p) ELSE UNCHANGED programs

\* The SELECT.  A token the signature check already found expired is not
\* looked up; one that is ACTIVE and expires here goes on to be marked.
ConsumeRead(w) ==
    LET t == workers[w].token
        status == device_allow_tokens[t]
        Goes(pc) == /\ status = "ACTIVE"
                    /\ workers' = [workers EXCEPT ![w].pc = pc]
                    /\ UNCHANGED programs
    IN  /\ workers[w].pc = "read"
        /\ \/ t \in expired /\ (Goes("expire") \/ Reply(w))
           \/ t \notin expired /\ Goes("write")
           \/ status # "ACTIVE" /\ Reply(w)
        /\ UNCHANGED <<serverVars, used, unblocks, losses>>

\* UPDATE ... SET status = 'EXPIRED' WHERE token_id = ?
ConsumeExpire(w) ==
    /\ workers[w].pc = "expire"
    /\ device_allow_tokens' = [device_allow_tokens EXCEPT ![workers[w].token] = "EXPIRED"]
    /\ Reply(w)
    /\ UNCHANGED <<requestVars, withdrawn, used, unblocks, losses>>

MarkedConsumed(table, t) == [table EXCEPT ![t] = "CONSUMED"]

ConsumeWrite(w) ==
    /\ workers[w].pc = "write"
    /\ device_allow_tokens' = MarkedConsumed(device_allow_tokens, workers[w].token)
    /\ Reply(w)
    /\ UNCHANGED <<requestVars, withdrawn, used, unblocks, losses>>

WorkerDies(w) ==
    /\ workers[w].pc # "idle"
    /\ workers' = [workers EXCEPT ![w] = IdleWorker]
    /\ UNCHANGED <<serverVars, clientVars>>

Next ==
    \/ \E t \in Tokens :
          \/ \E r \in {"allow-token", "secure-declare", "unblock-approve"} : IssueToken(t, r)
          \/ AnswerIssue(t) \/ IssueDies(t) \/ RevokeToken(t) \/ Expire(t)
          \/ AgentUse(t) \/ GuiUse(t)
    \/ \E p \in Programs :
          \/ \E w \in Workers : SendConsume(p, w)
          \/ \E ok \in BOOLEAN : Unblock(p, ok)
          \/ Save(p) \/ SaveFails(p) \/ ConsumeFails(p) \/ ProgramDies(p)
    \/ Acknowledge \/ AcknowledgeFails
    \/ \E w \in Workers : \/ ConsumeRead(w) \/ ConsumeExpire(w) \/ ConsumeWrite(w)
                          \/ WorkerDies(w)

Spec == Init /\ [][Next]_vars

----------------------------------------------------------------------------
TokenStatus == {"none", "ACTIVE", "CONSUMED", "REVOKED", "EXPIRED"}

TypeOK ==
    /\ device_allow_tokens \in [Tokens -> TokenStatus]
    /\ issuing \in [Tokens -> {"none", "allow-token", "secure-declare", "unblock-approve"}]
    /\ commands \in [Tokens -> {"none", "PENDING", "APPLIED", "FAILED"}]
    /\ held \subseteq Tokens
    /\ expired \subseteq Tokens
    /\ used \in [Programs -> SUBSET Tokens]
    /\ programs \in [Programs ->
          [pc : {"idle", "save", "call", "wait", "unblock", "ack", "nack"},
           token : Tokens \cup {None}, on : Workers \cup {None}]]
    /\ workers \in [Workers ->
          [pc : {"idle", "read", "expire", "write"}, token : Tokens \cup {None}, program : Programs]]
    /\ unblocks \in [Tokens -> [Programs -> Nat]]
    /\ losses \in [Tokens -> [Programs -> Nat]]
    /\ withdrawn \subseteq Tokens

(* Neither program unblocks twice with one token, whatever is lost,        *)
(* redelivered or restarted in between, but for the tokens its store       *)
(* forgets: each save that is cut short gives a used token back once.      *)
OncePerProgram ==
    \A t \in Tokens, p \in Programs : unblocks[t][p] <= 1 + losses[t][p]

(* The server shows a token as CONSUMED only when a program of the client  *)
(* has marked it used, and has lost the mark or refuses the token still.   *)
ConsumedWasUsed ==
    \A t \in Tokens :
        device_allow_tokens[t] = "CONSUMED" =>
           \E p \in Programs : t \in used[p] \/ losses[t][p] > 0

(* A DEVICE_UNBLOCK command shown as APPLIED did unblock the device, by    *)
(* the agent and not by the operator's use of the same token.              *)
AppliedDidUnblock ==
    \A t \in Tokens : commands[t] = "APPLIED" => unblocks[t]["agent"] >= 1

(* A revocation stands, unless it came when a consume request had read the *)
(* token as ACTIVE and was about to write: that write overwrites it.       *)
RevocationStands ==
    \A t \in withdrawn : device_allow_tokens[t] = "REVOKED"

(* What the server shows of a token and of its command has happened on the *)
(* client, and what it was told to withdraw stays withdrawn.               *)
StatusTellsUse == ConsumedWasUsed /\ AppliedDidUnblock /\ RevocationStands

(* "Token is time-bounded and single-use semantics enforced."              *)
(* (ECIMS_User_Manual.md, success checkpoints of the secure key flow)      *)
SingleUse ==
    \A t \in Tokens : unblocks[t]["agent"] + unblocks[t]["gui"] <= 1

=============================================================================
