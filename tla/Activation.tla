------------------------------ MODULE Activation ------------------------------
(***************************************************************************)
(* Server activation (licensing_core, the four /license/activation routes) *)
(* and the authority that answers its challenges (ActivationService of the *)
(* license authority).                                                     *)
(*                                                                         *)
(* The licence and the activation state are two files that no lock guards, *)
(* and the verdict on them is kept in memory, where the activation gate of *)
(* the middleware reads it.  Routes run in threads: each reads a file at   *)
(* one moment, empties it at the next and fills it at a third, and looks   *)
(* at both files again, one after the other, to renew the verdict.  A file *)
(* that was emptied and not filled is read as if it were not there.        *)
(***************************************************************************)
EXTENDS Naturals

CONSTANTS
    Licenses,      \* licences by license_id
    NoLicense,     \* no licence file, or one that cannot be parsed
    Activators,    \* server threads that serve the requests
    MaxChallenges  \* bound on the activation requests the server builds

ASSUME ActivationAssumption == MaxChallenges \in Nat

VARIABLES
    license_file,      \* the licence in the file at license_path
    activation_state,  \* the file at activation_state_path
    license_state,     \* the verdict in memory: [valid, license]
    rejected,          \* licences that fail a check of the document: signature,
                       \* expiry date, machine fingerprint
    untampered,        \* the loader's digest and the clock of the last run are right
    lapsed,            \* activation requests past their expires_at
    challenges,        \* activation requests built so far
    issued,            \* request codes handed to the operator
    registry,          \* requests the authority has signed a verification for
    activations        \* requests of the operator in flight

activationVars == <<license_file, activation_state, license_state, rejected, untampered,
                    lapsed, challenges, issued, registry, activations>>
documents == <<rejected, untampered, lapsed>>

Nothing == [challenge |-> 0, license |-> NoLicense]
DefaultState == [request |-> Nothing, activated |-> Nothing]
NotLoaded == [valid |-> FALSE, license |-> NoLicense]
NoActivation == [pc |-> "idle", op |-> "none", license |-> NoLicense,
                 state |-> DefaultState, verdict |-> NotLoaded]

ActivationInit ==
    /\ license_file \in Licenses \cup {NoLicense}
    /\ activation_state = DefaultState
    /\ license_state = NotLoaded
    /\ rejected \in SUBSET Licenses
    /\ untampered \in BOOLEAN
    /\ lapsed = {}
    /\ challenges = 0
    /\ issued = {}
    /\ registry = {}
    /\ activations = [h \in Activators |-> NoActivation]

\* load_license without the gate: every check of the file and of the document.
Loads(l) == untampered /\ l # NoLicense /\ l \notin rejected

\* (a mutant: the gate does not compare the licence)
GateForAny(l) == activation_state.activated # Nothing

\* get_activation_gate_result
GateOpen(l) == activation_state.activated # Nothing /\ activation_state.activated.license = l

Verdict(l) == [valid |-> Loads(l) /\ GateOpen(l), license |-> l]

\* activation_gate: the other routes answer 423 unless the verdict is valid.
Unlocked == license_state.valid

----------------------------------------------------------------------------
(* The operator's requests: import of a licence key, a new activation      *)
(* request for the licence there is, verification of a token.              *)

\* The document is valid and replaces the file, which is emptied first.
ImportKey(h, l) ==
    /\ activations[h].pc = "idle"
    /\ l \notin rejected
    /\ license_file' = NoLicense
    /\ activations' = [activations EXCEPT ![h] =
           [NoActivation EXCEPT !.pc = "import", !.op = "import", !.license = l]]
    /\ UNCHANGED <<activation_state, license_state, documents, challenges, issued, registry>>

WriteKey(h) ==
    /\ activations[h].pc = "import"
    /\ license_file' = activations[h].license
    /\ activations' = [activations EXCEPT ![h] = [@ EXCEPT !.pc = "build"]]
    /\ UNCHANGED <<activation_state, license_state, documents, challenges, issued, registry>>

\* The licence is loaded without its activation.
AskRequest(h) ==
    /\ activations[h].pc = "idle"
    /\ Loads(license_file)
    /\ activations' = [activations EXCEPT ![h] =
           [NoActivation EXCEPT !.pc = "status", !.op = "request", !.license = license_file]]
    /\ UNCHANGED <<license_file, activation_state, license_state, documents, challenges,
                   issued, registry>>

\* already_activated is the answer unless force_new asks for a new challenge.
AlreadyActive(h, force_new) ==
    /\ activations[h].pc = "status"
    /\ activations' = [activations EXCEPT ![h] =
           IF activation_state.activated # Nothing /\ ~force_new THEN NoActivation
           ELSE [activations[h] EXCEPT !.pc = "build"]]
    /\ UNCHANGED <<license_file, activation_state, license_state, documents, challenges,
                   issued, registry>>

\* build_activation_request: a new challenge, and no activation any more.
BuildRequest(h) ==
    /\ activations[h].pc = "build"
    /\ challenges < MaxChallenges
    /\ challenges' = challenges + 1
    /\ activations' = [activations EXCEPT ![h] = [@ EXCEPT !.pc = "save",
           !.state = [request |-> [challenge |-> challenges + 1,
                                  license |-> activations[h].license],
                      activated |-> Nothing]]]
    /\ UNCHANGED <<license_file, activation_state, license_state, documents, issued, registry>>

\* apply_activation_verification, up to its save; a token that does not fit
\* the pending request in every claim is refused.
Verify(h, token) ==
    /\ activations[h].pc = "idle"
    /\ activation_state.request # Nothing
    /\ activation_state.request \notin lapsed
    /\ token = activation_state.request
    /\ activations' = [activations EXCEPT ![h] =
           [NoActivation EXCEPT !.pc = "save", !.op = "verify", !.license = token.license,
               !.state = [request |-> Nothing, activated |-> token]]]
    /\ UNCHANGED <<license_file, activation_state, license_state, documents, challenges,
                   issued, registry>>

\* save_activation_state empties the file and fills it.
OpenState(h) ==
    /\ activations[h].pc = "save"
    /\ activation_state' = DefaultState
    /\ activations' = [activations EXCEPT ![h] = [@ EXCEPT !.pc = "write"]]
    /\ UNCHANGED <<license_file, license_state, documents, challenges, issued, registry>>

WriteState(h) ==
    /\ activations[h].pc = "write"
    /\ activation_state' = activations[h].state
    /\ activations' = [activations EXCEPT ![h] = [@ EXCEPT !.pc = "refresh"]]
    /\ UNCHANGED <<license_file, license_state, documents, challenges, issued, registry>>

\* _refresh_license_state reads the licence, then the activation, then sets
\* the verdict.
ReadLicense(h) ==
    /\ activations[h].pc = "refresh"
    /\ activations' = [activations EXCEPT ![h] = [@ EXCEPT
           !.pc = IF Loads(license_file) THEN "gate" ELSE "set",
           !.verdict = [valid |-> FALSE, license |-> license_file]]]
    /\ UNCHANGED <<license_file, activation_state, license_state, documents, challenges,
                   issued, registry>>

ReadGate(h) ==
    /\ activations[h].pc = "gate"
    /\ activations' = [activations EXCEPT ![h] = [@ EXCEPT !.pc = "set",
           !.verdict = [valid |-> GateOpen(activations[h].verdict.license),
                        license |-> activations[h].verdict.license]]]
    /\ UNCHANGED <<license_file, activation_state, license_state, documents, challenges,
                   issued, registry>>

\* The answer carries the request code, unless it answers a verification.
SetVerdict(h) ==
    /\ activations[h].pc = "set"
    /\ license_state' = activations[h].verdict
    /\ issued' = IF activations[h].op = "verify" THEN issued
                 ELSE issued \cup {activations[h].state.request}
    /\ activations' = [activations EXCEPT ![h] = NoActivation]
    /\ UNCHANGED <<license_file, activation_state, documents, challenges, registry>>

\* A write that fails answers 500 and renews nothing.
ActivationFails(h) ==
    /\ activations[h].pc \in {"import", "save", "write"}
    /\ activations' = [activations EXCEPT ![h] = NoActivation]
    /\ UNCHANGED <<license_file, activation_state, license_state, documents, challenges,
                   issued, registry>>

----------------------------------------------------------------------------
(* The server starts again, the authority signs, time passes.              *)

StartServer ==
    /\ activations' = [h \in Activators |-> NoActivation]
    /\ license_state' = Verdict(license_file)
    /\ UNCHANGED <<license_file, activation_state, documents, challenges, issued, registry>>

\* parse_request_code, create_verification_id and upsert_registry_entry.
Sign(request) ==
    /\ request \notin lapsed
    /\ registry' = registry \cup {request}
    /\ UNCHANGED <<license_file, activation_state, license_state, documents, challenges,
                   issued, activations>>

LicenseExpires(l) ==
    /\ l \notin rejected
    /\ rejected' = rejected \cup {l}
    /\ UNCHANGED <<license_file, activation_state, license_state, untampered, lapsed,
                   challenges, issued, registry, activations>>

RequestLapses(request) ==
    /\ request \notin lapsed
    /\ lapsed' = lapsed \cup {request}
    /\ UNCHANGED <<license_file, activation_state, license_state, rejected, untampered,
                   challenges, issued, registry, activations>>

ClockMoves ==
    /\ untampered' = ~untampered
    /\ UNCHANGED <<license_file, activation_state, license_state, rejected, lapsed,
                   challenges, issued, registry, activations>>

ActivationNext ==
    \/ \E h \in Activators :
          \/ \E l \in Licenses : ImportKey(h, l)
          \/ WriteKey(h) \/ AskRequest(h) \/ BuildRequest(h)
          \/ \E force_new \in BOOLEAN : AlreadyActive(h, force_new)
          \/ \E token \in registry : Verify(h, token)
          \/ OpenState(h) \/ WriteState(h) \/ ReadLicense(h) \/ ReadGate(h)
          \/ SetVerdict(h) \/ ActivationFails(h)
    \/ StartServer \/ ClockMoves
    \/ \E request \in issued : Sign(request) \/ RequestLapses(request)
    \/ \E l \in Licenses : LicenseExpires(l)

ActivationSpec == ActivationInit /\ [][ActivationNext]_activationVars

----------------------------------------------------------------------------
(* A server that is unlocked serves a licence whose own challenge the      *)
(* authority has signed ("Keeps server APIs locked until trusted           *)
(* activation is completed", ECIMS_User_Manual.md), however imports,       *)
(* requests, verifications and restarts overlap and wherever a write       *)
(* stopped.                                                                *)
UnlockedIsSigned ==
    Unlocked => \E request \in registry : request.license = license_state.license

ActivationRequests == [challenge : 0..MaxChallenges, license : Licenses \cup {NoLicense}]
ActivationFiles == [request : ActivationRequests, activated : ActivationRequests]
Verdicts == [valid : BOOLEAN, license : Licenses \cup {NoLicense}]
ActivationThreads == [
    pc : {"idle", "import", "status", "build", "save", "write", "refresh", "gate", "set"},
    op : {"none", "import", "request", "verify"},
    license : Licenses \cup {NoLicense}, state : ActivationFiles, verdict : Verdicts]

ActivationTypeOK ==
    /\ license_file \in Licenses \cup {NoLicense}
    /\ activation_state \in ActivationFiles
    /\ license_state \in Verdicts
    /\ rejected \subseteq Licenses /\ untampered \in BOOLEAN
    /\ challenges \in 0..MaxChallenges
    /\ issued \subseteq ActivationRequests
    /\ registry \subseteq issued /\ lapsed \subseteq issued
    /\ activations \in [Activators -> ActivationThreads]

=============================================================================
