------------------------------ MODULE MCAccess ------------------------------
(* Who may do what, and for how long: allow tokens, the requests they are  *)
(* issued for, accounts and break-glass sessions.  These services share no *)
(* row and no thread: "part" picks the one that a behaviour exercises.     *)
EXTENDS AllowTokens, UnblockRequests, Accounts, BreakGlass, TLC

VARIABLE part

\* Two tokens in the commands of the agent, two in the hands of the operator,
\* or one in both.
FewUses ==
    \/ part = "agent" /\ held = {}
    \/ part = "gui" /\ \A t \in Tokens : commands[t] = "none"
    \/ part = "both" /\ Cardinality({t \in Tokens : device_allow_tokens[t] # "none"}) <= 1

AccessInit ==
    /\ part \in {"agent", "gui", "both", "reviews", "accounts", "sessions"}
    /\ Init /\ ReviewInit /\ GlassInit
    /\ IF part = "accounts" THEN AccountInit
       ELSE users = [u \in UserIds |-> Free] /\ user_requests = [h \in UserThreads |-> IdleRequest]
AccessNext ==
    \/ /\ part \in {"agent", "gui", "both"} /\ Next
       /\ UNCHANGED <<part, reviewVars, accountVars, glassVars>>
       /\ FewUses'
    \/ part = "reviews" /\ ReviewNext /\ UNCHANGED <<part, vars, accountVars, glassVars>>
    \/ part = "accounts" /\ AccountNext /\ UNCHANGED <<part, vars, reviewVars, glassVars>>
    \/ part = "sessions" /\ GlassNext /\ UNCHANGED <<part, vars, reviewVars, accountVars>>
AccessSpec == AccessInit /\ [][AccessNext]_<<part, vars, reviewVars, accountVars, glassVars>>

Symmetry ==
    Permutations(Tokens) \cup Permutations(UserIds) \cup Permutations(UserThreads)

=============================================================================
