--------------------------- MODULE AdmissionProofs ---------------------------
(***************************************************************************)
(* Proofs about Enrollment and Activation, for any number of tokens,       *)
(* clients, threads, seats, licences and challenges.                       *)
(***************************************************************************)
EXTENDS Enrollment, Activation, FiniteSetTheorems, TLAPS

----------------------------------------------------------------------------
(* Activation.  UnlockedIsSigned is not inductive: it depends on what the  *)
(* threads carry from one statement to the next.  SignedInv follows a      *)
(* token from the authority's registry through a verification to the file, *)
(* and the licence of the file through a renewal to the verdict.           *)

\* The authority has signed a challenge for licence l.
Signed(l, signed) == \E request \in signed : request.license = l

\* An activation, on file or about to be, is a request that was signed.
Backed(state, signed) == state.activated # Nothing => state.activated \in signed

\* A valid verdict is on a licence with a signed challenge.
Deserved(verdict, signed) == verdict.valid => Signed(verdict.license, signed)

\* What one thread holds.
Sound(thread, signed) == Backed(thread.state, signed) /\ Deserved(thread.verdict, signed)

SignedInv ==
    /\ Backed(activation_state, registry)
    /\ Deserved(license_state, registry)
    /\ \A h \in Activators : Sound(activations[h], registry)

----------------------------------------------------------------------------
(* Types.                                                                  *)

\* The part of the type invariant that is not about the threads.
SharedTypeOK ==
    /\ license_file \in Licenses \cup {NoLicense}
    /\ activation_state \in ActivationFiles /\ license_state \in Verdicts
    /\ rejected \subseteq Licenses /\ untampered \in BOOLEAN
    /\ challenges \in 0..MaxChallenges
    /\ issued \subseteq ActivationRequests
    /\ registry \subseteq issued /\ lapsed \subseteq issued

LEMMA ConstantTypes ==
    /\ Nothing \in ActivationRequests
    /\ DefaultState \in ActivationFiles
    /\ NotLoaded \in Verdicts
    /\ NoActivation \in ActivationThreads
BY ActivationAssumption DEF ActivationRequests, ActivationFiles, Verdicts, ActivationThreads,
   Nothing, DefaultState, NotLoaded, NoActivation

\* The fields of a thread, and what they are after an update of some of them.
LEMMA ThreadFields ==
    ASSUME NEW e \in ActivationThreads
    PROVE  /\ e.state \in ActivationFiles /\ e.verdict \in Verdicts
           /\ e.license \in Licenses \cup {NoLicense}
BY DEF ActivationThreads

LEMMA ThreadMoves ==
    ASSUME NEW e \in ActivationThreads, NEW pc \in {"build", "write", "refresh", "set"}
    PROVE  LET new == [e EXCEPT !.pc = pc] IN
           new \in ActivationThreads /\ new.state = e.state /\ new.verdict = e.verdict
BY DEF ActivationThreads

LEMMA ThreadBuilds ==
    ASSUME NEW e \in ActivationThreads, NEW state \in ActivationFiles
    PROVE  LET new == [e EXCEPT !.pc = "save", !.state = state] IN
           new \in ActivationThreads /\ new.state = state /\ new.verdict = e.verdict
BY DEF ActivationThreads

LEMMA ThreadReads ==
    ASSUME NEW e \in ActivationThreads, NEW pc \in {"gate", "set"}, NEW verdict \in Verdicts
    PROVE  LET new == [e EXCEPT !.pc = pc, !.verdict = verdict] IN
           new \in ActivationThreads /\ new.state = e.state /\ new.verdict = verdict
BY DEF ActivationThreads

\* The thread that serves a new request.
LEMMA NewThread ==
    ASSUME NEW pc \in {"import", "status"}, NEW op \in {"import", "request"},
           NEW l \in Licenses \cup {NoLicense}
    PROVE  LET new == [NoActivation EXCEPT !.pc = pc, !.op = op, !.license = l] IN
           /\ new \in ActivationThreads
           /\ new.state = DefaultState /\ new.verdict = NotLoaded
BY ConstantTypes DEF ActivationThreads, NoActivation

LEMMA NewVerification ==
    ASSUME NEW l \in Licenses \cup {NoLicense}, NEW state \in ActivationFiles
    PROVE  LET new == [NoActivation EXCEPT !.pc = "save", !.op = "verify", !.license = l,
                                          !.state = state] IN
           /\ new \in ActivationThreads
           /\ new.state = state /\ new.verdict = NotLoaded
BY ConstantTypes DEF ActivationThreads, NoActivation

----------------------------------------------------------------------------
(* One action at a time.                                                   *)

\* A step of one thread that leaves the registry alone.
LEMMA OneThread ==
    ASSUME ActivationTypeOK, SignedInv, NEW h \in Activators, NEW new,
           activations' = [activations EXCEPT ![h] = new], registry' = registry,
           new \in ActivationThreads, Sound(new, registry),
           Backed(activation_state', registry), Deserved(license_state', registry)
    PROVE  /\ activations' \in [Activators -> ActivationThreads]
           /\ SignedInv'
<1>1. activations' \in [Activators -> ActivationThreads]
  BY DEF ActivationTypeOK
<1>2. \A g \in Activators : activations'[g] = IF g = h THEN new ELSE activations[g]
  BY DEF ActivationTypeOK
<1>3. \A g \in Activators : Sound(activations'[g], registry')
  BY <1>2 DEF SignedInv
<1> QED
  BY <1>1, <1>3 DEF SignedInv

\* The gate opens for a licence of which the file has an activation.
LEMMA OpenGateIsSigned ==
    ASSUME Backed(activation_state, registry), NEW l, GateOpen(l)
    PROVE  Signed(l, registry)
BY DEF Backed, GateOpen, Signed

LEMMA DefaultsAreSound ==
    ASSUME NEW signed
    PROVE  /\ Backed(DefaultState, signed) /\ Deserved(NotLoaded, signed)
           /\ Sound(NoActivation, signed)
BY DEF Backed, Deserved, Sound, NoActivation, DefaultState, NotLoaded

LEMMA InitSigned == ActivationInit => ActivationTypeOK /\ SignedInv
<1> SUFFICES ASSUME ActivationInit PROVE ActivationTypeOK /\ SignedInv
  OBVIOUS
<1> USE DEF ActivationInit
<1>1. ActivationTypeOK
  BY ConstantTypes, ActivationAssumption DEF ActivationTypeOK
<1>2. SignedInv
  BY DefaultsAreSound DEF SignedInv
<1> QED
  BY <1>1, <1>2

LEMMA SignedStep ==
    ASSUME ActivationTypeOK, SignedInv, [ActivationNext]_activationVars
    PROVE  ActivationTypeOK' /\ SignedInv'
<1>0. CASE UNCHANGED activationVars
  BY <1>0 DEF activationVars, ActivationTypeOK, SignedInv
<1> USE ConstantTypes DEF documents
<1>t. /\ license_file \in Licenses \cup {NoLicense}
      /\ activation_state \in ActivationFiles /\ license_state \in Verdicts
      /\ rejected \subseteq Licenses /\ untampered \in BOOLEAN
      /\ challenges \in 0..MaxChallenges
      /\ issued \subseteq ActivationRequests
      /\ registry \subseteq issued /\ lapsed \subseteq issued
      /\ activations \in [Activators -> ActivationThreads]
  BY DEF ActivationTypeOK
<1>s. /\ Backed(activation_state, registry) /\ Deserved(license_state, registry)
      /\ \A h \in Activators :
            /\ Backed(activations[h].state, registry)
            /\ Deserved(activations[h].verdict, registry)
  BY DEF SignedInv, Sound
<1>1. ASSUME NEW h \in Activators, NEW l \in Licenses, ImportKey(h, l) PROVE ActivationTypeOK' /\ SignedInv'
  <2> DEFINE new == [NoActivation EXCEPT !.pc = "import", !.op = "import", !.license = l]
  <2>1. activations' = [activations EXCEPT ![h] = new] /\ registry' = registry
    BY <1>1 DEF ImportKey
  <2>2. new \in ActivationThreads /\ Sound(new, registry)
    BY <1>1, <1>t, <1>s, NewThread, DefaultsAreSound DEF Sound
  <2>3. Backed(activation_state', registry) /\ Deserved(license_state', registry)
    BY <1>1, <1>s DEF ImportKey
  <2>4. SharedTypeOK'
    BY <1>1, <1>t DEF ImportKey, SharedTypeOK
  <2> HIDE DEF new
  <2>5. activations' \in [Activators -> ActivationThreads] /\ SignedInv'
    BY <2>1, <2>2, <2>3, OneThread
  <2> QED
    BY <2>4, <2>5 DEF ActivationTypeOK, SharedTypeOK
<1>w. \A h \in Activators : activations[h].license \in Licenses \cup {NoLicense}
  BY <1>t, ThreadFields
<1>2. ASSUME NEW h \in Activators, WriteKey(h) PROVE ActivationTypeOK' /\ SignedInv'
  <2> DEFINE new == [activations[h] EXCEPT !.pc = "build"]
  <2>1. activations' = [activations EXCEPT ![h] = new] /\ registry' = registry
    BY <1>2 DEF WriteKey
  <2>2. new \in ActivationThreads /\ Sound(new, registry)
    BY <1>2, <1>t, <1>s, ThreadMoves DEF Sound
  <2>3. Backed(activation_state', registry) /\ Deserved(license_state', registry)
    BY <1>2, <1>s DEF WriteKey
  <2>4. SharedTypeOK'
    BY <1>2, <1>t, <1>w DEF WriteKey, SharedTypeOK
  <2> HIDE DEF new
  <2>5. activations' \in [Activators -> ActivationThreads] /\ SignedInv'
    BY <2>1, <2>2, <2>3, OneThread
  <2> QED
    BY <2>4, <2>5 DEF ActivationTypeOK, SharedTypeOK
<1>3. ASSUME NEW h \in Activators, AskRequest(h) PROVE ActivationTypeOK' /\ SignedInv'
  <2> DEFINE new == [NoActivation EXCEPT !.pc = "status", !.op = "request",
                                        !.license = license_file]
  <2>1. activations' = [activations EXCEPT ![h] = new] /\ registry' = registry
    BY <1>3 DEF AskRequest
  <2>2. new \in ActivationThreads /\ Sound(new, registry)
    BY <1>3, <1>t, <1>s, NewThread, DefaultsAreSound DEF Sound
  <2>3. Backed(activation_state', registry) /\ Deserved(license_state', registry)
    BY <1>3, <1>s DEF AskRequest
  <2>4. SharedTypeOK'
    BY <1>3, <1>t DEF AskRequest, SharedTypeOK
  <2> HIDE DEF new
  <2>5. activations' \in [Activators -> ActivationThreads] /\ SignedInv'
    BY <2>1, <2>2, <2>3, OneThread
  <2> QED
    BY <2>4, <2>5 DEF ActivationTypeOK, SharedTypeOK
<1>4. ASSUME NEW h \in Activators, NEW force_new \in BOOLEAN, AlreadyActive(h, force_new) PROVE ActivationTypeOK' /\ SignedInv'
  <2> DEFINE new == IF activation_state.activated # Nothing /\ ~force_new THEN NoActivation
                    ELSE [activations[h] EXCEPT !.pc = "build"]
  <2>1. activations' = [activations EXCEPT ![h] = new] /\ registry' = registry
    BY <1>4 DEF AlreadyActive
  <2>2. new \in ActivationThreads /\ Sound(new, registry)
    BY <1>4, <1>t, <1>s, ThreadMoves, DefaultsAreSound DEF Sound
  <2>3. Backed(activation_state', registry) /\ Deserved(license_state', registry)
    BY <1>4, <1>s DEF AlreadyActive
  <2>4. SharedTypeOK'
    BY <1>4, <1>t DEF AlreadyActive, SharedTypeOK
  <2> HIDE DEF new
  <2>5. activations' \in [Activators -> ActivationThreads] /\ SignedInv'
    BY <2>1, <2>2, <2>3, OneThread
  <2> QED
    BY <2>4, <2>5 DEF ActivationTypeOK, SharedTypeOK
<1>5. ASSUME NEW h \in Activators, BuildRequest(h) PROVE ActivationTypeOK' /\ SignedInv'
  <2> DEFINE request == [challenge |-> challenges + 1, license |-> activations[h].license]
             built == [request |-> request, activated |-> Nothing]
             new == [activations[h] EXCEPT !.pc = "save", !.state = built]
  <2>a. built \in ActivationFiles /\ Backed(built, registry)
    BY <1>5, <1>t, <1>w, ActivationAssumption
       DEF BuildRequest, ActivationRequests, ActivationFiles, Backed
  <2>1. activations' = [activations EXCEPT ![h] = new] /\ registry' = registry
    BY <1>5 DEF BuildRequest
  <2> HIDE DEF built
  <2>2. new \in ActivationThreads /\ Sound(new, registry)
    <3>1. activations[h] \in ActivationThreads
      BY <1>t
    <3>2. /\ new \in ActivationThreads
          /\ new.state = built /\ new.verdict = activations[h].verdict
      BY <3>1, <2>a, ThreadBuilds
    <3> QED
      BY <3>2, <2>a, <1>s DEF Sound
  <2>3. Backed(activation_state', registry) /\ Deserved(license_state', registry)
    BY <1>5, <1>s DEF BuildRequest
  <2>4. SharedTypeOK'
    BY <1>5, <1>t, ActivationAssumption DEF BuildRequest, SharedTypeOK
  <2> HIDE DEF new
  <2>5. activations' \in [Activators -> ActivationThreads] /\ SignedInv'
    BY <2>1, <2>2, <2>3, OneThread
  <2> QED
    BY <2>4, <2>5 DEF ActivationTypeOK, SharedTypeOK
<1>6. ASSUME NEW h \in Activators, NEW token \in registry, Verify(h, token) PROVE ActivationTypeOK' /\ SignedInv'
  <2> DEFINE used == [request |-> Nothing, activated |-> token]
             new == [NoActivation EXCEPT !.pc = "save", !.op = "verify",
                        !.license = token.license, !.state = used]
  <2>a. /\ used \in ActivationFiles /\ Backed(used, registry)
        /\ token.license \in Licenses \cup {NoLicense}
    BY <1>6, <1>t DEF ActivationRequests, ActivationFiles, Backed
  <2>1. activations' = [activations EXCEPT ![h] = new] /\ registry' = registry
    BY <1>6 DEF Verify
  <2>2. new \in ActivationThreads /\ Sound(new, registry)
    BY <2>a, NewVerification, DefaultsAreSound DEF Sound
  <2>3. Backed(activation_state', registry) /\ Deserved(license_state', registry)
    BY <1>6, <1>s DEF Verify
  <2>4. SharedTypeOK'
    BY <1>6, <1>t DEF Verify, SharedTypeOK
  <2> HIDE DEF new
  <2>5. activations' \in [Activators -> ActivationThreads] /\ SignedInv'
    BY <2>1, <2>2, <2>3, OneThread
  <2> QED
    BY <2>4, <2>5 DEF ActivationTypeOK, SharedTypeOK
<1>7. ASSUME NEW h \in Activators, OpenState(h) PROVE ActivationTypeOK' /\ SignedInv'
  <2> DEFINE new == [activations[h] EXCEPT !.pc = "write"]
  <2>1. activations' = [activations EXCEPT ![h] = new] /\ registry' = registry
    BY <1>7 DEF OpenState
  <2>2. new \in ActivationThreads /\ Sound(new, registry)
    BY <1>7, <1>t, <1>s, ThreadMoves DEF Sound
  <2>3. Backed(activation_state', registry) /\ Deserved(license_state', registry)
    BY <1>7, <1>s, DefaultsAreSound DEF OpenState
  <2>4. SharedTypeOK'
    BY <1>7, <1>t DEF OpenState, SharedTypeOK
  <2> HIDE DEF new
  <2>5. activations' \in [Activators -> ActivationThreads] /\ SignedInv'
    BY <2>1, <2>2, <2>3, OneThread
  <2> QED
    BY <2>4, <2>5 DEF ActivationTypeOK, SharedTypeOK
<1>8. ASSUME NEW h \in Activators, WriteState(h) PROVE ActivationTypeOK' /\ SignedInv'
  <2> DEFINE new == [activations[h] EXCEPT !.pc = "refresh"]
  <2>1. activations' = [activations EXCEPT ![h] = new] /\ registry' = registry
    BY <1>8 DEF WriteState
  <2>2. new \in ActivationThreads /\ Sound(new, registry)
    BY <1>8, <1>t, <1>s, ThreadMoves DEF Sound
  <2>3. Backed(activation_state', registry) /\ Deserved(license_state', registry)
    BY <1>8, <1>s DEF WriteState
  <2>4. SharedTypeOK'
    BY <1>8, <1>t, ThreadFields DEF WriteState, SharedTypeOK
  <2> HIDE DEF new
  <2>5. activations' \in [Activators -> ActivationThreads] /\ SignedInv'
    BY <2>1, <2>2, <2>3, OneThread
  <2> QED
    BY <2>4, <2>5 DEF ActivationTypeOK, SharedTypeOK
<1>9. ASSUME NEW h \in Activators, ReadLicense(h) PROVE ActivationTypeOK' /\ SignedInv'
  <2> DEFINE next == IF Loads(license_file) THEN "gate" ELSE "set"
             read == [valid |-> FALSE, license |-> license_file]
             new == [activations[h] EXCEPT !.pc = next, !.verdict = read]
  <2>a. /\ next \in {"gate", "set"}
        /\ read \in Verdicts /\ Deserved(read, registry)
    BY <1>9, <1>t DEF Verdicts, Deserved
  <2>1. activations' = [activations EXCEPT ![h] = new] /\ registry' = registry
    BY <1>9 DEF ReadLicense
  <2> HIDE DEF next, read
  <2>2. new \in ActivationThreads /\ Sound(new, registry)
    <3>1. activations[h] \in ActivationThreads
      BY <1>t
    <3>2. /\ new \in ActivationThreads
          /\ new.state = activations[h].state /\ new.verdict = read
      BY <3>1, <2>a DEF ActivationThreads
    <3> QED
      BY <3>2, <2>a, <1>s DEF Sound
  <2>3. Backed(activation_state', registry) /\ Deserved(license_state', registry)
    BY <1>9, <1>s DEF ReadLicense
  <2>4. SharedTypeOK'
    BY <1>9, <1>t DEF ReadLicense, SharedTypeOK
  <2> HIDE DEF new
  <2>5. activations' \in [Activators -> ActivationThreads] /\ SignedInv'
    BY <2>1, <2>2, <2>3, OneThread
  <2> QED
    BY <2>4, <2>5 DEF ActivationTypeOK, SharedTypeOK
<1>10. ASSUME NEW h \in Activators, ReadGate(h) PROVE ActivationTypeOK' /\ SignedInv'
  <2> DEFINE seen == activations[h].verdict
             read == [valid |-> GateOpen(seen.license), license |-> seen.license]
             new == [activations[h] EXCEPT !.pc = "set", !.verdict = read]
  <2>a. seen \in Verdicts /\ GateOpen(seen.license) \in BOOLEAN
    BY <1>t, ThreadFields DEF GateOpen
  <2>b. read \in Verdicts /\ read.license = seen.license /\ read.valid = GateOpen(seen.license)
    BY <2>a DEF Verdicts
  <2>c. Deserved(read, registry)
    BY <2>b, <1>s, OpenGateIsSigned DEF Deserved
  <2>1. activations' = [activations EXCEPT ![h] = new] /\ registry' = registry
    BY <1>10 DEF ReadGate
  <2> HIDE DEF read
  <2>2. new \in ActivationThreads /\ Sound(new, registry)
    <3>1. activations[h] \in ActivationThreads
      BY <1>t
    <3>2. /\ new \in ActivationThreads
          /\ new.state = activations[h].state /\ new.verdict = read
      BY <3>1, <2>b, ThreadReads
    <3> QED
      BY <3>2, <2>c, <1>s DEF Sound
  <2>3. Backed(activation_state', registry) /\ Deserved(license_state', registry)
    BY <1>10, <1>s DEF ReadGate
  <2>4. SharedTypeOK'
    BY <1>10, <1>t DEF ReadGate, SharedTypeOK
  <2> HIDE DEF new
  <2>5. activations' \in [Activators -> ActivationThreads] /\ SignedInv'
    BY <2>1, <2>2, <2>3, OneThread
  <2> QED
    BY <2>4, <2>5 DEF ActivationTypeOK, SharedTypeOK
<1>11. ASSUME NEW h \in Activators, SetVerdict(h) PROVE ActivationTypeOK' /\ SignedInv'
  <2> DEFINE new == NoActivation
  <2>1. activations' = [activations EXCEPT ![h] = new] /\ registry' = registry
    BY <1>11 DEF SetVerdict
  <2>2. new \in ActivationThreads /\ Sound(new, registry)
    BY <1>11, <1>t, <1>s, DefaultsAreSound DEF Sound
  <2>3. Backed(activation_state', registry) /\ Deserved(license_state', registry)
    BY <1>11, <1>s DEF SetVerdict
  <2>4. SharedTypeOK'
    BY <1>11, <1>t, ThreadFields DEF SetVerdict, ActivationFiles, SharedTypeOK
  <2> HIDE DEF new
  <2>5. activations' \in [Activators -> ActivationThreads] /\ SignedInv'
    BY <2>1, <2>2, <2>3, OneThread
  <2> QED
    BY <2>4, <2>5 DEF ActivationTypeOK, SharedTypeOK
<1>12. ASSUME NEW h \in Activators, ActivationFails(h) PROVE ActivationTypeOK' /\ SignedInv'
  <2> DEFINE new == NoActivation
  <2>1. activations' = [activations EXCEPT ![h] = new] /\ registry' = registry
    BY <1>12 DEF ActivationFails
  <2>2. new \in ActivationThreads /\ Sound(new, registry)
    BY <1>12, <1>t, <1>s, DefaultsAreSound DEF Sound
  <2>3. Backed(activation_state', registry) /\ Deserved(license_state', registry)
    BY <1>12, <1>s DEF ActivationFails
  <2>4. SharedTypeOK'
    BY <1>12, <1>t DEF ActivationFails, SharedTypeOK
  <2> HIDE DEF new
  <2>5. activations' \in [Activators -> ActivationThreads] /\ SignedInv'
    BY <2>1, <2>2, <2>3, OneThread
  <2> QED
    BY <2>4, <2>5 DEF ActivationTypeOK, SharedTypeOK
<1>13. CASE StartServer
  <2>1. Verdict(license_file) \in Verdicts /\ Deserved(Verdict(license_file), registry)
    BY <1>t, <1>s, OpenGateIsSigned DEF Verdict, Verdicts, Deserved, Loads, GateOpen
  <2>2. activations' \in [Activators -> ActivationThreads]
        /\ \A h \in Activators : activations'[h] = NoActivation
    BY <1>13 DEF StartServer
  <2>3. license_state' = Verdict(license_file) /\ registry' = registry
        /\ activation_state' = activation_state
    BY <1>13 DEF StartServer
  <2>4. SharedTypeOK'
    BY <1>13, <1>t, <2>1 DEF StartServer, SharedTypeOK
  <2>5. \A h \in Activators : Sound(activations'[h], registry')
    BY <2>2, <2>3, DefaultsAreSound
  <2>6. SignedInv'
    BY <1>s, <2>1, <2>3, <2>5 DEF SignedInv
  <2> QED
    BY <2>2, <2>4, <2>6 DEF ActivationTypeOK, SharedTypeOK
<1>14. ASSUME NEW request \in issued, Sign(request) PROVE ActivationTypeOK' /\ SignedInv'
  <2>1. registry' = registry \cup {request}
    BY <1>14 DEF Sign
  <2>2. /\ \A state : Backed(state, registry) => Backed(state, registry')
        /\ \A verdict : Deserved(verdict, registry) => Deserved(verdict, registry')
    BY <2>1 DEF Backed, Deserved, Signed
  <2> QED
    BY <1>14, <1>t, <1>s, <2>1, <2>2 DEF Sign, ActivationTypeOK, SignedInv, Sound
<1>15. CASE \/ ClockMoves
            \/ \E request \in issued : RequestLapses(request)
            \/ \E l \in Licenses : LicenseExpires(l)
  BY <1>15 DEF ClockMoves, RequestLapses, LicenseExpires, ActivationTypeOK, SignedInv
<1> QED
  BY <1>0, <1>1, <1>2, <1>3, <1>4, <1>5, <1>6, <1>7, <1>8, <1>9, <1>10, <1>11, <1>12,
     <1>13, <1>14, <1>15 DEF ActivationNext

----------------------------------------------------------------------------
(* Every variable of Activation keeps its type.                            *)
THEOREM ActivationTypeCorrect == ActivationSpec => []ActivationTypeOK
BY InitSigned, SignedStep, PTL DEF ActivationSpec

(* A server that is unlocked serves a licence whose own challenge the      *)
(* authority has signed, however imports, requests, verifications, failed  *)
(* writes and restarts overlap (activation_gate in main.py).               *)
THEOREM UnlockedOnlyIfSigned == ActivationSpec => []UnlockedIsSigned
<1>1. SignedInv => UnlockedIsSigned
  BY DEF SignedInv, Deserved, Signed, UnlockedIsSigned, Unlocked
<1> QED
  BY <1>1, InitSigned, SignedStep, PTL DEF ActivationSpec

----------------------------------------------------------------------------
(* Enrollment.                                                             *)

USE EnrollmentAssumption

UseRow == [token : Tokens, client : Clients, agent : Nat \cup {None}]
AgentRow == [client : Clients, token : Tokens \cup {None}]
Request == [pc : {"idle", "admitted", "consumed", "registered", "link"},
            token : Tokens \cup {None}, client : Clients \cup {None},
            agent : Nat \cup {None}, use : Nat \cup {None}, spent : Nat \cup {None}]
Row == [status : Statuses, used_count : Nat]

(* What a request in flight remembers of the rows u and a, step by step.   *)
InFlight(x, u, a) ==
    /\ x.pc = "idle" => x = Idle
    /\ x.pc # "idle" => x.client \in Clients
    /\ x.pc \in {"consumed", "registered", "link"} =>
          /\ x.token \in Tokens
          /\ x.spent \in 1..Len(u)
          /\ u[x.spent].client = x.client
          /\ u[x.spent].token = x.token
    /\ x.pc \in {"registered", "link"} =>
          /\ x.agent \in 1..Len(a)
          /\ a[x.agent] = [client |-> Stripped[x.client], token |-> x.token]
    /\ x.pc = "link" =>
          /\ x.use \in 1..Len(u)
          /\ u[x.use].client = Stripped[x.client]
          /\ u[x.use].token = x.token

Remembered == \A h \in Handlers : InFlight(handlers[h], enrollment_token_uses, agents)

Typed == TypeOK /\ Remembered

(* Rows are added and their names are never changed.                       *)
Grown(u, v, a, b) ==
    /\ Len(u) \in Nat /\ Len(v) \in Nat /\ Len(u) <= Len(v)
    /\ \A i \in 1..Len(u) : v[i].client = u[i].client /\ v[i].token = u[i].token
    /\ Len(a) \in Nat /\ Len(b) \in Nat /\ Len(a) <= Len(b)
    /\ \A i \in 1..Len(a) : b[i] = a[i]

LEMMA GrownKeeps ==
    ASSUME NEW x, NEW u, NEW v, NEW a, NEW b, Grown(u, v, a, b), InFlight(x, u, a)
    PROVE  InFlight(x, v, b)
<1>1. 1..Len(u) \subseteq 1..Len(v) /\ 1..Len(a) \subseteq 1..Len(b)
  BY DEF Grown
<1>. QED BY <1>1 DEF Grown, InFlight

LEMMA IdleIsFine ==
    ASSUME NEW u, NEW a
    PROVE  Idle \in Request /\ InFlight(Idle, u, a)
BY DEF Idle, Request, InFlight

(* A step that changes one request and lets the tables grow keeps the rest. *)
LEMMA OneRequest ==
    ASSUME Typed, NEW h \in Handlers, NEW y \in Request,
           handlers' = [handlers EXCEPT ![h] = y],
           enrollment_tokens' \in [Tokens -> Row], expired' = expired,
           enrollment_token_uses' \in Seq(UseRow), agents' \in Seq(AgentRow),
           Grown(enrollment_token_uses, enrollment_token_uses', agents, agents'),
           InFlight(y, enrollment_token_uses', agents'), overlap' \in Nat
    PROVE  Typed'
<1>1. TypeOK'
  BY DEF Typed, TypeOK, Row, UseRow, AgentRow, Request
<1>2. ASSUME NEW g \in Handlers
      PROVE  InFlight(handlers'[g], enrollment_token_uses', agents')
  <2>1. handlers'[g] = IF g = h THEN y ELSE handlers[g]
    BY DEF Typed, TypeOK
  <2>2. InFlight(handlers[g], enrollment_token_uses, agents)
    BY DEF Typed, Remembered
  <2>3. InFlight(handlers[g], enrollment_token_uses', agents')
    BY <2>2, GrownKeeps
  <2>. QED BY <2>1, <2>3
<1>. QED BY <1>1, <1>2 DEF Typed, Remembered

LEMMA TypedInit == Init => Typed
BY DEF Init, Typed, TypeOK, Remembered, InFlight, NoToken, Idle, Statuses

LEMMA TouchedType ==
    ASSUME TypeOK
    PROVE  /\ Touched \in [Tokens -> Row]
           /\ \A t \in Tokens :
                 /\ Touched[t].used_count = enrollment_tokens[t].used_count
                 /\ \/ Touched[t] = enrollment_tokens[t]
                    \/ /\ Touched[t].status = "EXPIRED"
                       /\ enrollment_tokens[t].status = "ACTIVE"
                 /\ t \in expired => Touched[t].status # "ACTIVE"
<1>1. ASSUME NEW t \in Tokens
      PROVE  /\ Touched[t] \in Row
             /\ Touched[t].used_count = enrollment_tokens[t].used_count
             /\ \/ Touched[t] = enrollment_tokens[t]
                \/ /\ Touched[t].status = "EXPIRED"
                   /\ enrollment_tokens[t].status = "ACTIVE"
             /\ t \in expired => Touched[t].status # "ACTIVE"
  <2> DEFINE row == enrollment_tokens[t]
  <2>1. row \in Row /\ [row EXCEPT !.status = "EXPIRED"] \in Row
    <3>1. row \in Row
      BY DEF TypeOK, Row
    <3>. QED BY <3>1 DEF Row, Statuses
  <2>2. Touched[t] = IF t \in expired /\ row.status = "ACTIVE"
                     THEN [row EXCEPT !.status = "EXPIRED"] ELSE row
    BY DEF Touched
  <2> HIDE DEF row
  <2>3. Touched[t] \in Row /\ Touched[t].used_count = row.used_count
    BY <2>1, <2>2 DEF Row
  <2>4. t \in expired /\ row.status = "ACTIVE" => Touched[t].status = "EXPIRED"
    BY <2>1, <2>2 DEF Row
  <2>. QED BY <2>2, <2>3, <2>4 DEF row
<1>2. Touched \in [Tokens -> Row]
  BY <1>1 DEF Touched
<1>. QED BY <1>1, <1>2

LEMMA TypedFacts ==
    ASSUME Typed
    PROVE  /\ enrollment_tokens \in [Tokens -> Row]
           /\ enrollment_token_uses \in Seq(UseRow)
           /\ agents \in Seq(AgentRow)
           /\ handlers \in [Handlers -> Request]
           /\ Len(enrollment_token_uses) \in Nat /\ Len(agents) \in Nat
           /\ Grown(enrollment_token_uses, enrollment_token_uses, agents, agents)
           /\ \A h \in Handlers : InFlight(handlers[h], enrollment_token_uses, agents)
<1>1. Len(enrollment_token_uses) \in Nat /\ Len(agents) \in Nat
  BY DEF Typed, TypeOK
<1>2. Grown(enrollment_token_uses, enrollment_token_uses, agents, agents)
  BY <1>1 DEF Grown
<1>. QED BY <1>1, <1>2 DEF Typed, TypeOK, Remembered, Row, UseRow, AgentRow, Request

(* The row Consume adds, and what it leaves of the table.                  *)
LEMMA ConsumeAdds ==
    ASSUME Typed, NEW h \in Handlers, Consume(h)
    PROVE  LET u == enrollment_token_uses
               x == handlers[h]
           IN  /\ x.token \in Tokens /\ x.client \in Clients
               /\ u' \in Seq(UseRow) /\ Len(u') = Len(u) + 1
               /\ \A i \in 1..Len(u) : u'[i] = u[i]
               /\ u'[Len(u) + 1].token = x.token
               /\ u'[Len(u) + 1].client = x.client
               /\ u'[Len(u) + 1].agent = None
               /\ Grown(u, u', agents, agents')
<1> DEFINE u   == enrollment_token_uses
           row == [token |-> handlers[h].token, client |-> handlers[h].client, agent |-> None]
<1>1. handlers[h].token \in Tokens /\ handlers[h].client \in Clients
  BY TypedFacts DEF Consume, InFlight, Request
<1>2. row \in UseRow /\ u \in Seq(UseRow) /\ u' = Append(u, row) /\ agents' = agents
  BY <1>1, TypedFacts DEF Consume, UseRow
<1> HIDE DEF row
<1>3. /\ u' \in Seq(UseRow) /\ Len(u') = Len(u) + 1
      /\ \A i \in 1..Len(u) : u'[i] = u[i]
      /\ u'[Len(u) + 1] = row
  BY <1>2
<1>4. Grown(u, u', agents, agents')
  BY <1>2, <1>3, TypedFacts DEF Grown
<1>. QED BY <1>1, <1>3, <1>4 DEF row

(* The row Register adds.                                                  *)
LEMMA RegisterAdds ==
    ASSUME Typed, NEW h \in Handlers, Register(h)
    PROVE  LET x == handlers[h]
           IN  /\ x.client \in Clients
               /\ agents' \in Seq(AgentRow) /\ Len(agents') = Len(agents) + 1
               /\ \A i \in 1..Len(agents) : agents'[i] = agents[i]
               /\ agents'[Len(agents) + 1] = [client |-> Stripped[x.client], token |-> x.token]
               /\ agents'[Len(agents) + 1].token = x.token
               /\ Grown(enrollment_token_uses, enrollment_token_uses', agents, agents')
<1> DEFINE x   == handlers[h]
           row == [client |-> Stripped[x.client], token |-> x.token]
<1>1. x.client \in Clients /\ x.token \in Tokens \cup {None}
  BY TypedFacts DEF Register, RegisterNext, InFlight, Request
<1>2. /\ row \in AgentRow /\ agents \in Seq(AgentRow) /\ agents' = Append(agents, row)
      /\ enrollment_token_uses' = enrollment_token_uses
  BY <1>1, TypedFacts DEF Register, AgentRow
<1> HIDE DEF row
<1>3. /\ agents' \in Seq(AgentRow) /\ Len(agents') = Len(agents) + 1
      /\ \A i \in 1..Len(agents) : agents'[i] = agents[i]
      /\ agents'[Len(agents) + 1] = row
  BY <1>2
<1>4. Grown(enrollment_token_uses, enrollment_token_uses', agents, agents')
  BY <1>2, <1>3, TypedFacts DEF Grown
<1>. QED BY <1>1, <1>3, <1>4 DEF row

(* LinkWrite changes the agent of one row.                                 *)
LEMMA LinkWriteChanges ==
    ASSUME Typed, NEW h \in Handlers, LinkWrite(h)
    PROVE  LET u == enrollment_token_uses
               x == handlers[h]
           IN  /\ x.use \in 1..Len(u) /\ x.agent \in 1..Len(agents)
               /\ u' \in Seq(UseRow) /\ Len(u') = Len(u)
               /\ \A i \in 1..Len(u) : /\ u'[i].token = u[i].token
                                       /\ u'[i].client = u[i].client
                                       /\ u'[i].agent = IF i = x.use THEN x.agent ELSE u[i].agent
               /\ Grown(u, u', agents, agents')
<1> DEFINE u == enrollment_token_uses
           x == handlers[h]
           row == [u[x.use] EXCEPT !.agent = x.agent]
<1>1. x.use \in 1..Len(u) /\ x.agent \in 1..Len(agents) /\ x.agent \in Nat
  <2>1. x.use \in 1..Len(u) /\ x.agent \in 1..Len(agents)
    BY TypedFacts DEF LinkWrite, InFlight
  <2>. QED BY <2>1, TypedFacts
<1>2. /\ u \in Seq(UseRow) /\ u[x.use] \in UseRow
      /\ u' = [u EXCEPT ![x.use] = row] /\ agents' = agents
  BY <1>1, TypedFacts DEF LinkWrite
<1>3. /\ row \in UseRow /\ row.agent = x.agent
      /\ row.client = u[x.use].client /\ row.token = u[x.use].token
  BY <1>1, <1>2 DEF UseRow
<1> HIDE DEF row, x
<1>4. /\ u' \in Seq(UseRow) /\ Len(u') = Len(u)
      /\ \A i \in 1..Len(u) : u'[i] = IF i = x.use THEN row ELSE u[i]
  BY <1>1, <1>2, <1>3
<1>5. \A i \in 1..Len(u) : /\ u'[i].token = u[i].token
                          /\ u'[i].client = u[i].client
                          /\ u'[i].agent = IF i = x.use THEN x.agent ELSE u[i].agent
  BY <1>3, <1>4
<1>6. Grown(u, u', agents, agents')
  BY <1>2, <1>4, <1>5, TypedFacts DEF Grown
<1>. QED BY <1>1, <1>4, <1>5, <1>6 DEF x

(* Requests that have passed the seat check are few, and only Admit counts. *)
LEMMA PendingFinite ==
    /\ IsFiniteSet(Pending) /\ Cardinality(Pending) \in Nat
    /\ \A S \in SUBSET Handlers : IsFiniteSet(S) /\ Cardinality(S) \in Nat
<1>1. Pending \subseteq Handlers
  BY DEF Pending
<1>. QED BY <1>1, FS_Subset, FS_CardinalityType

LEMMA OverlapNext ==
    ASSUME TypeOK, [Next]_vars
    PROVE  /\ overlap' \in Nat
           /\ \/ overlap' = overlap
              \/ \E h \in Handlers, c \in Clients, t \in Tokens \cup {None} : Admit(h, c, t)
<1>. overlap \in Nat
  BY DEF TypeOK
<1>1. CASE \E h \in Handlers, c \in Clients, t \in Tokens \cup {None} : Admit(h, c, t)
  <2>1. overlap' = IF overlap > Cardinality(Pending) THEN overlap
                   ELSE Cardinality(Pending) + 1
    BY <1>1 DEF Admit
  <2>. QED BY <1>1, <2>1, PendingFinite
<1>2. ASSUME NEW h \in Handlers, \/ Consume(h) \/ ConsumeRefused(h) \/ Register(h)
                                \/ LinkRead(h) \/ LinkWrite(h) \/ HandlerDies(h)
      PROVE  overlap' = overlap
  BY <1>2 DEF Consume, ConsumeRefused, Register, LinkRead, LinkWrite, HandlerDies
<1>3. CASE \/ ListTokens \/ UNCHANGED vars
           \/ \E t \in Tokens : \/ Expire(t) \/ IssueToken(t)
                               \/ ImportOfflineKit(t) \/ RevokeToken(t)
  BY <1>3 DEF ListTokens, vars, Expire, IssueToken, ImportOfflineKit, RevokeToken
<1>. QED BY <1>1, <1>2, <1>3 DEF Next

LEMMA TypedNext == Typed /\ [Next]_vars => Typed'
<1> SUFFICES ASSUME Typed, [Next]_vars PROVE Typed'
  OBVIOUS
<1>f. TypeOK /\ Remembered
  BY DEF Typed
<1>o. overlap' \in Nat
  BY <1>f, OverlapNext
<1>1. ASSUME NEW t \in Tokens, Expire(t) PROVE Typed'
  BY <1>f, <1>o, <1>1 DEF Typed, Expire, TypeOK, Remembered
<1>2. ASSUME NEW t \in Tokens, IssueToken(t) \/ ImportOfflineKit(t) \/ RevokeToken(t)
      PROVE  Typed'
  <2>1. /\ Touched \in [Tokens -> Row]
        /\ [status |-> "ACTIVE", used_count |-> 0] \in Row
        /\ [status |-> "EXPIRED", used_count |-> 0] \in Row
        /\ [Touched[t] EXCEPT !.status = "REVOKED"] \in Row
    BY <1>f, TouchedType DEF Statuses, Row
  <2>2. \E r \in Row : enrollment_tokens' = [Touched EXCEPT ![t] = r]
    BY <1>2, <2>1 DEF IssueToken, ImportOfflineKit, RevokeToken
  <2>3. UNCHANGED <<expired, enrollment_token_uses, agents, handlers>>
    BY <1>2 DEF IssueToken, ImportOfflineKit, RevokeToken
  <2>. QED BY <1>f, <1>o, <2>1, <2>2, <2>3 DEF Typed, TypeOK, Remembered, Row
<1>3. CASE ListTokens
  BY <1>f, <1>o, <1>3, TouchedType DEF Typed, ListTokens, TypeOK, Remembered, Row
<1>4. ASSUME NEW h \in Handlers, NEW c \in Clients, NEW t \in Tokens \cup {None},
             Admit(h, c, t)
      PROVE  Typed'
  <2> DEFINE y == [Idle EXCEPT !.pc = "admitted", !.token = t, !.client = c]
  <2>1. y \in Request /\ InFlight(y, enrollment_token_uses', agents')
    BY DEF Idle, Request, InFlight
  <2>. QED BY <1>4, <2>1, <1>o, OneRequest, TypedFacts DEF Admit
<1>5. ASSUME NEW h \in Handlers, Consume(h) PROVE Typed'
  <2> DEFINE x == handlers[h]
             y == [x EXCEPT !.pc = "consumed", !.spent = Len(enrollment_token_uses) + 1]
  <2>1. enrollment_tokens' \in [Tokens -> Row]
    <3>1. x.token \in Tokens /\ Touched \in [Tokens -> Row]
      BY <1>f, <1>5, ConsumeAdds, TouchedType
    <3>2. NextUsed(x.token) \in Nat /\ NextStatus(x.token) \in Statuses
      BY <3>1, TypedFacts DEF NextUsed, NextStatus, Statuses, Row
    <3>3. enrollment_tokens' = [Touched EXCEPT ![x.token] =
             [status |-> NextStatus(x.token), used_count |-> NextUsed(x.token)]]
      BY <1>5 DEF Consume
    <3>. QED BY <3>1, <3>2, <3>3 DEF Row
  <2>2. handlers' = [handlers EXCEPT ![h] = y] /\ UNCHANGED <<expired, agents>>
    BY <1>5 DEF Consume
  <2>3. y \in Request /\ InFlight(y, enrollment_token_uses', agents')
    <3>1. x \in Request /\ Len(enrollment_token_uses) + 1 \in Nat
      BY TypedFacts
    <3>2. /\ y \in Request /\ y.pc = "consumed" /\ y.spent = Len(enrollment_token_uses) + 1
          /\ y.token = x.token /\ y.client = x.client
      BY <3>1 DEF Request
    <3>3. LET u == enrollment_token_uses IN
          /\ x.token \in Tokens /\ x.client \in Clients
          /\ Len(u) + 1 \in 1..Len(u')
          /\ u'[Len(u) + 1].client = x.client /\ u'[Len(u) + 1].token = x.token
      BY <1>5, <3>1, ConsumeAdds
    <3> HIDE DEF y
    <3>4. InFlight(y, enrollment_token_uses', agents')
      BY <3>2, <3>3 DEF InFlight
    <3>. QED BY <3>2, <3>4
  <2>. QED BY <1>5, <2>1, <2>2, <2>3, <1>o, OneRequest, TypedFacts, ConsumeAdds
<1>6. ASSUME NEW h \in Handlers, Register(h) PROVE Typed'
  <2> DEFINE x == handlers[h]
             y == [x EXCEPT !.pc = "registered", !.agent = Len(agents) + 1]
  <2>1. UNCHANGED <<enrollment_tokens, expired, enrollment_token_uses>>
    BY <1>6 DEF Register
  <2>2. CASE x.token = None
    <3>1. handlers' = [handlers EXCEPT ![h] = Idle]
      BY <1>6, <2>2 DEF Register
    <3>. QED BY <1>6, <2>1, <3>1, <1>o, OneRequest, TypedFacts, RegisterAdds, IdleIsFine
  <2>3. CASE x.token # None
    <3>1. handlers' = [handlers EXCEPT ![h] = y] /\ x.pc = "consumed"
      BY <1>6, <2>3 DEF Register, RegisterNext
    <3>2. y \in Request /\ InFlight(y, enrollment_token_uses', agents')
      <4>1. x \in Request /\ Len(agents) + 1 \in Nat
            /\ InFlight(x, enrollment_token_uses, agents)
        BY TypedFacts
      <4>2. /\ y \in Request /\ y.pc = "registered" /\ y.agent = Len(agents) + 1
            /\ y.token = x.token /\ y.client = x.client /\ y.spent = x.spent
        BY <4>1 DEF Request
      <4>3. /\ Len(agents') = Len(agents) + 1
            /\ agents'[Len(agents) + 1] = [client |-> Stripped[x.client], token |-> x.token]
        BY <1>6, RegisterAdds
      <4> HIDE DEF y
      <4>. QED BY <2>1, <3>1, <4>1, <4>2, <4>3 DEF InFlight
    <3>. QED BY <1>6, <2>1, <3>1, <3>2, <1>o, OneRequest, TypedFacts, RegisterAdds
  <2>. QED BY <2>2, <2>3
<1>7. ASSUME NEW h \in Handlers, LinkRead(h) PROVE Typed'
  <2> DEFINE x == handlers[h]
             found == OpenUses(x.token, Stripped[x.client])
  <2>1. \A i \in found : /\ i \in 1..Len(enrollment_token_uses)
                         /\ enrollment_token_uses[i].client = Stripped[x.client]
                         /\ enrollment_token_uses[i].token = x.token
    BY TypedFacts DEF OpenUses, OpenUsesOfClient
  <2>2. /\ x.pc = "registered"
        /\ UNCHANGED <<enrollment_tokens, expired, enrollment_token_uses, agents>>
        /\ \/ handlers' = [handlers EXCEPT ![h] = Idle]
           \/ \E i \in found :
                 handlers' = [handlers EXCEPT ![h] = [x EXCEPT !.pc = "link", !.use = i]]
    BY <1>7 DEF LinkRead
  <2> HIDE DEF found
  <2>3. CASE handlers' = [handlers EXCEPT ![h] = Idle]
    BY <2>2, <2>3, <1>o, OneRequest, TypedFacts, IdleIsFine
  <2>4. ASSUME NEW i \in found,
               handlers' = [handlers EXCEPT ![h] = [x EXCEPT !.pc = "link", !.use = i]]
        PROVE  Typed'
    <3> DEFINE y == [x EXCEPT !.pc = "link", !.use = i]
    <3>1. x \in Request /\ i \in Nat /\ InFlight(x, enrollment_token_uses, agents)
      BY <2>1, <2>4, TypedFacts
    <3>2. /\ y \in Request /\ y.pc = "link" /\ y.use = i /\ y.agent = x.agent
          /\ y.token = x.token /\ y.client = x.client /\ y.spent = x.spent
      BY <3>1 DEF Request
    <3> HIDE DEF y
    <3>3. InFlight(y, enrollment_token_uses', agents')
      BY <2>1, <2>2, <2>4, <3>1, <3>2 DEF InFlight
    <3>. QED BY <2>2, <2>4, <3>2, <3>3, <1>o, OneRequest, TypedFacts DEF y
  <2>. QED BY <2>2, <2>3, <2>4
<1>8. ASSUME NEW h \in Handlers, LinkWrite(h) PROVE Typed'
  <2>1. /\ handlers' = [handlers EXCEPT ![h] = Idle]
        /\ UNCHANGED <<enrollment_tokens, expired, agents>>
    BY <1>8 DEF LinkWrite
  <2>. QED BY <1>8, <2>1, <1>o, OneRequest, TypedFacts, LinkWriteChanges, IdleIsFine
<1>9. ASSUME NEW h \in Handlers, ConsumeRefused(h) \/ HandlerDies(h) PROVE Typed'
  <2>1. /\ handlers' = [handlers EXCEPT ![h] = Idle]
        /\ UNCHANGED <<enrollment_tokens, expired, enrollment_token_uses, agents>>
    BY <1>9 DEF ConsumeRefused, HandlerDies
  <2>. QED BY <2>1, <1>o, OneRequest, TypedFacts, IdleIsFine
<1>10. CASE UNCHANGED vars
  BY <1>f, <1>o, <1>10 DEF Typed, vars, TypeOK, Remembered
<1>. QED BY <1>1, <1>2, <1>3, <1>4, <1>5, <1>6, <1>7, <1>8, <1>9, <1>10 DEF Next

LEMMA TypedAlways == Spec => []Typed
BY TypedInit, TypedNext, PTL DEF Spec

(* Enrolment keeps its types: no step leaves a row or a request that the    *)
(* next one cannot read.                                                    *)
THEOREM EnrollmentTypeCorrect == Spec => []TypeOK
<1>1. Typed => TypeOK
  BY DEF Typed
<1>. QED BY <1>1, TypedAlways, PTL

----------------------------------------------------------------------------
(* The budget of a token.                                                  *)

AtWork(t) == {h \in Handlers : handlers[h].pc = "consumed" /\ handlers[h].token = t}

(* EnrolledWithinUses is not inductive: a request that has spent its use    *)
(* and not yet registered has to be counted as well, and a token that is    *)
(* not in the table has no uses.                                            *)
Budget(t) ==
    /\ Cardinality(AtWork(t)) + Cardinality(EnrolledWith(t)) <= Cardinality(UsesOf(t))
    /\ Cardinality(UsesOf(t)) = enrollment_tokens[t].used_count
    /\ enrollment_tokens[t].used_count <= MaxUses[t]
    /\ enrollment_tokens[t].status = "none" => enrollment_tokens[t].used_count = 0
    /\ enrollment_tokens[t].status = "ACTIVE" => enrollment_tokens[t].used_count < MaxUses[t]
    /\ enrollment_tokens[t].status = "CONSUMED" => enrollment_tokens[t].used_count = MaxUses[t]

BudgetInv == \A t \in Tokens : Budget(t)

LEMMA CountedSets ==
    ASSUME Typed, NEW t \in Tokens
    PROVE  /\ IsFiniteSet(AtWork(t)) /\ Cardinality(AtWork(t)) \in Nat
           /\ IsFiniteSet(EnrolledWith(t)) /\ Cardinality(EnrolledWith(t)) \in Nat
           /\ IsFiniteSet(UsesOf(t)) /\ Cardinality(UsesOf(t)) \in Nat
           /\ UsesOf(t) \subseteq 1..Len(enrollment_token_uses)
           /\ EnrolledWith(t) \subseteq 1..Len(agents)
<1>1. /\ UsesOf(t) \subseteq 1..Len(enrollment_token_uses)
      /\ EnrolledWith(t) \subseteq 1..Len(agents)
      /\ AtWork(t) \subseteq Handlers
  BY TypedFacts DEF UsesOf, EnrolledWith, AtWork
<1>2. IsFiniteSet(1..Len(enrollment_token_uses)) /\ IsFiniteSet(1..Len(agents))
  BY TypedFacts, FS_Interval
<1>3. IsFiniteSet(UsesOf(t)) /\ IsFiniteSet(EnrolledWith(t)) /\ IsFiniteSet(AtWork(t))
  BY <1>1, <1>2, FS_Subset
<1>. QED BY <1>1, <1>3, FS_CardinalityType

(* The rows of a table with one token, and after a row was added.           *)
Having(u, t) == {i \in DOMAIN u : u[i].token = t}

LEMMA RowAdded ==
    ASSUME NEW R, NEW u \in Seq(R), NEW v \in Seq(R), NEW t,
           Len(v) = Len(u) + 1, \A i \in 1..Len(u) : v[i] = u[i]
    PROVE  LET n   == Len(u) + 1
               old == Having(u, t)
               new == Having(v, t)
           IN  /\ n \notin old
               /\ v[n].token = t => new = old \cup {n} /\ Cardinality(new) = Cardinality(old) + 1
               /\ v[n].token # t => new = old
<1> DEFINE n   == Len(u) + 1
           old == Having(u, t)
           new == Having(v, t)
<1>1. Len(u) \in Nat /\ DOMAIN u = 1..Len(u) /\ DOMAIN v = 1..n
  OBVIOUS
<1>2. 1..n = 1..Len(u) \cup {n} /\ n \notin 1..Len(u)
  BY <1>1
<1>3. n \notin old /\ IsFiniteSet(old)
  <2>1. old \subseteq 1..Len(u) /\ IsFiniteSet(1..Len(u))
    BY <1>1, FS_Interval DEF Having
  <2>. QED BY <1>2, <2>1, FS_Subset
<1>4. \A i \in 1..Len(u) : i \in new <=> i \in old
  BY <1>1, <1>2 DEF Having
<1>5. /\ v[n].token = t => new = old \cup {n}
      /\ v[n].token # t => new = old
  BY <1>1, <1>2, <1>4 DEF Having
<1>. QED BY <1>3, <1>5, FS_AddElement

(* A step that leaves the counted sets of a token as they are, or takes a   *)
(* request from those at work.                                              *)
LEMMA BudgetKept ==
    ASSUME Typed, NEW t \in Tokens, Budget(t),
           AtWork(t)' \subseteq AtWork(t), EnrolledWith(t)' = EnrolledWith(t),
           UsesOf(t)' = UsesOf(t),
           enrollment_tokens'[t].used_count = enrollment_tokens[t].used_count,
           \/ enrollment_tokens'[t].status = enrollment_tokens[t].status
           \/ enrollment_tokens'[t].status \in {"EXPIRED", "REVOKED"}
    PROVE  Budget(t)'
<1>1. /\ IsFiniteSet(AtWork(t)') /\ Cardinality(AtWork(t)') \in Nat
      /\ Cardinality(AtWork(t)') <= Cardinality(AtWork(t))
  BY CountedSets, FS_Subset, FS_CardinalityType
<1>2. enrollment_tokens[t].used_count \in Nat /\ MaxUses[t] \in Nat
  BY TypedFacts DEF Row
<1>. QED BY <1>1, <1>2, CountedSets DEF Budget

LEMMA BudgetInit == Init => BudgetInv
<1> SUFFICES ASSUME Init, NEW t \in Tokens PROVE Budget(t)
  BY DEF BudgetInv
<1>1. AtWork(t) = {} /\ EnrolledWith(t) = {} /\ UsesOf(t) = {}
  BY DEF Init, AtWork, EnrolledWith, UsesOf, Idle
<1>2. enrollment_tokens[t] = NoToken
  BY DEF Init
<1>. QED BY <1>1, <1>2, FS_EmptySet DEF Budget, NoToken

LEMMA BudgetNext == Typed /\ BudgetInv /\ [Next]_vars => BudgetInv'
<1> SUFFICES ASSUME Typed, BudgetInv, [Next]_vars, NEW t \in Tokens PROVE Budget(t)'
  BY DEF BudgetInv
<1>b. Budget(t) /\ MaxUses[t] \in Nat \ {0} /\ enrollment_tokens[t] \in Row
  BY TypedFacts DEF BudgetInv
<1>t. /\ Touched[t].used_count = enrollment_tokens[t].used_count
      /\ \/ Touched[t].status = enrollment_tokens[t].status
         \/ Touched[t].status = "EXPIRED"
      /\ Touched \in [Tokens -> Row]
  BY TouchedType DEF Typed
<1>1. CASE ListTokens \/ UNCHANGED vars \/ \E s \in Tokens : Expire(s)
  <2>1. UNCHANGED <<handlers, agents, enrollment_token_uses>>
    BY <1>1 DEF ListTokens, vars, Expire
  <2>2. AtWork(t)' = AtWork(t) /\ EnrolledWith(t)' = EnrolledWith(t) /\ UsesOf(t)' = UsesOf(t)
    BY <2>1 DEF AtWork, EnrolledWith, UsesOf
  <2>3. enrollment_tokens' = Touched \/ enrollment_tokens' = enrollment_tokens
    BY <1>1 DEF ListTokens, vars, Expire
  <2>. QED BY <1>b, <1>t, <2>2, <2>3, BudgetKept
<1>2. ASSUME NEW s \in Tokens, IssueToken(s) \/ ImportOfflineKit(s) PROVE Budget(t)'
  <2>1. UNCHANGED <<handlers, agents, enrollment_token_uses>>
    BY <1>2 DEF IssueToken, ImportOfflineKit
  <2>2. AtWork(t)' = AtWork(t) /\ EnrolledWith(t)' = EnrolledWith(t) /\ UsesOf(t)' = UsesOf(t)
    BY <2>1 DEF AtWork, EnrolledWith, UsesOf
  <2>3. CASE s # t
    <3>1. enrollment_tokens'[t] = Touched[t]
      BY <1>2, <1>t, <2>3 DEF IssueToken, ImportOfflineKit
    <3>. QED BY <1>b, <1>t, <2>2, <3>1, BudgetKept
  <2>4. CASE s = t
    <3>1. /\ enrollment_tokens[t].status = "none"
          /\ enrollment_tokens'[t].used_count = 0
          /\ enrollment_tokens'[t].status \in {"ACTIVE", "EXPIRED"}
      BY <1>2, <1>t, <2>4 DEF IssueToken, ImportOfflineKit, ImportInserts
    <3>. QED BY <1>b, <2>2, <3>1 DEF Budget
  <2>. QED BY <2>3, <2>4
<1>3. ASSUME NEW s \in Tokens, RevokeToken(s) PROVE Budget(t)'
  <2>1. UNCHANGED <<handlers, agents, enrollment_token_uses>>
    BY <1>3 DEF RevokeToken
  <2>2. AtWork(t)' = AtWork(t) /\ EnrolledWith(t)' = EnrolledWith(t) /\ UsesOf(t)' = UsesOf(t)
    BY <2>1 DEF AtWork, EnrolledWith, UsesOf
  <2>3. enrollment_tokens' = [Touched EXCEPT ![s] = [@ EXCEPT !.status = "REVOKED"]]
    BY <1>3 DEF RevokeToken
  <2>4. /\ enrollment_tokens'[t].used_count = Touched[t].used_count
        /\ enrollment_tokens'[t].status \in {Touched[t].status, "REVOKED"}
    BY <1>t, <2>3 DEF Row
  <2>. QED BY <1>b, <1>t, <2>2, <2>4, BudgetKept
<1>4. ASSUME NEW h \in Handlers,
             \/ \E c \in Clients, s \in Tokens \cup {None} : Admit(h, c, s)
             \/ ConsumeRefused(h) \/ LinkRead(h) \/ HandlerDies(h)
      PROVE  Budget(t)'
  <2>1. UNCHANGED <<enrollment_tokens, agents, enrollment_token_uses>>
    BY <1>4 DEF Admit, ConsumeRefused, LinkRead, HandlerDies
  <2>2. \E y \in Request : y.pc # "consumed" /\ handlers' = [handlers EXCEPT ![h] = y]
    <3>1. handlers[h] \in Request /\ Idle \in Request
      BY TypedFacts, IdleIsFine
    <3>2. CASE \E c \in Clients, s \in Tokens \cup {None} : Admit(h, c, s)
      <4>1. PICK c \in Clients, s \in Tokens \cup {None} : Admit(h, c, s)
        BY <3>2
      <4>2. LET y == [Idle EXCEPT !.pc = "admitted", !.token = s, !.client = c] IN
            y \in Request /\ y.pc # "consumed"
        BY DEF Idle, Request
      <4>. QED BY <4>1, <4>2 DEF Admit
    <3>3. CASE ConsumeRefused(h) \/ HandlerDies(h)
      BY <3>1, <3>3 DEF ConsumeRefused, HandlerDies, Idle
    <3>4. CASE LinkRead(h)
      <4>1. \A i \in OpenUses(handlers[h].token, Stripped[handlers[h].client]) : i \in Nat
        BY TypedFacts DEF OpenUses, OpenUsesOfClient
      <4>2. \A i \in Nat : LET y == [handlers[h] EXCEPT !.pc = "link", !.use = i] IN
                          y \in Request /\ y.pc # "consumed"
        BY <3>1 DEF Request
      <4>3. \/ handlers' = [handlers EXCEPT ![h] = Idle]
            \/ \E i \in OpenUses(handlers[h].token, Stripped[handlers[h].client]) :
                  handlers' = [handlers EXCEPT ![h] =
                                 [handlers[h] EXCEPT !.pc = "link", !.use = i]]
        BY <3>4 DEF LinkRead
      <4>4. Idle.pc # "consumed"
        BY DEF Idle
      <4>5. ASSUME NEW i \in Nat,
                   handlers' = [handlers EXCEPT ![h] =
                                 [handlers[h] EXCEPT !.pc = "link", !.use = i]]
            PROVE  \E y \in Request : /\ y.pc # "consumed"
                                      /\ handlers' = [handlers EXCEPT ![h] = y]
        <5> DEFINE y == [handlers[h] EXCEPT !.pc = "link", !.use = i]
        <5>1. y \in Request /\ y.pc # "consumed"
          BY <4>2
        <5>2. handlers' = [handlers EXCEPT ![h] = y]
          BY <4>5
        <5> HIDE DEF y
        <5>. QED BY <5>1, <5>2
      <4>. QED BY <3>1, <4>1, <4>3, <4>4, <4>5
    <3>. QED BY <1>4, <3>2, <3>3, <3>4
  <2>3. AtWork(t)' \subseteq AtWork(t)
    BY <2>2, TypedFacts DEF AtWork
  <2>4. EnrolledWith(t)' = EnrolledWith(t) /\ UsesOf(t)' = UsesOf(t)
    BY <2>1 DEF EnrolledWith, UsesOf
  <2>. QED BY <1>b, <2>1, <2>3, <2>4, BudgetKept
<1>5. ASSUME NEW h \in Handlers, Consume(h) PROVE Budget(t)'
  <2> DEFINE x == handlers[h]
             n == Len(enrollment_token_uses) + 1
             y == [x EXCEPT !.pc = "consumed", !.spent = n]
  <2>1. /\ x.token \in Tokens /\ x \in Request /\ x.pc = "admitted" /\ n \in Nat
        /\ handlers' = [handlers EXCEPT ![h] = y] /\ agents' = agents
        /\ enrollment_tokens' = [Touched EXCEPT ![x.token] =
              [status |-> NextStatus(x.token), used_count |-> NextUsed(x.token)]]
    <3>1. x.token \in Tokens /\ x \in Request /\ n \in Nat
      BY <1>5, TypedFacts, ConsumeAdds
    <3>. QED BY <1>5, <3>1 DEF Consume
  <2>2. y.pc = "consumed" /\ y.token = x.token
    BY <2>1 DEF Request
  <2>3. /\ Len(enrollment_token_uses') = n
        /\ enrollment_token_uses' \in Seq(UseRow)
        /\ \A i \in 1..Len(enrollment_token_uses) :
              enrollment_token_uses'[i] = enrollment_token_uses[i]
        /\ enrollment_token_uses'[n].token = x.token
    BY <1>5, ConsumeAdds
  <2>4. EnrolledWith(t)' = EnrolledWith(t)
    BY <2>1 DEF EnrolledWith
  <2> HIDE DEF y
  <2>7. UsesOf(t) = Having(enrollment_token_uses, t) /\ UsesOf(t)' = Having(enrollment_token_uses', t)
    BY DEF UsesOf, Having
  <2>8. /\ enrollment_token_uses'[n].token = t =>
              Cardinality(Having(enrollment_token_uses', t)) = Cardinality(Having(enrollment_token_uses, t)) + 1
        /\ enrollment_token_uses'[n].token # t => Having(enrollment_token_uses', t) = Having(enrollment_token_uses, t)
    <3>1. enrollment_token_uses \in Seq(UseRow)
      BY TypedFacts
    <3>. QED BY <2>3, <3>1, RowAdded
  <2>5. CASE x.token # t
    <3>1. UsesOf(t)' = UsesOf(t)
      BY <2>3, <2>5, <2>7, <2>8
    <3>2. AtWork(t)' = AtWork(t)
      BY <2>1, <2>2, <2>5, TypedFacts DEF AtWork
    <3>3. enrollment_tokens'[t] = Touched[t]
      BY <1>t, <2>1, <2>5
    <3>. QED BY <1>b, <1>t, <2>4, <3>1, <3>2, <3>3, BudgetKept
  <2>6. CASE x.token = t
    <3>1. Cardinality(UsesOf(t)') = Cardinality(UsesOf(t)) + 1
      BY <2>3, <2>6, <2>7, <2>8
    <3>2. AtWork(t)' = AtWork(t) \cup {h} /\ h \notin AtWork(t)
      BY <2>1, <2>2, <2>6, TypedFacts DEF AtWork
    <3>3. Cardinality(AtWork(t)') = Cardinality(AtWork(t)) + 1
      BY <3>2, CountedSets, FS_AddElement
    <3>4. /\ enrollment_tokens'[t].used_count = enrollment_tokens[t].used_count + 1
          /\ enrollment_tokens'[t].status =
                IF enrollment_tokens[t].used_count + 1 >= MaxUses[t] THEN "CONSUMED" ELSE "ACTIVE"
          /\ enrollment_tokens[t].used_count < MaxUses[t]
      BY <1>5, <1>t, <2>1, <2>6 DEF Consume, Consumable, NextUsed, NextStatus, UsedUp
    <3>5. enrollment_tokens[t].used_count \in Nat
      BY <1>b DEF Row
    <3>. QED BY <1>b, <2>4, <3>1, <3>3, <3>4, <3>5, CountedSets DEF Budget
  <2>. QED BY <2>5, <2>6
<1>6. ASSUME NEW h \in Handlers, Register(h) PROVE Budget(t)'
  <2> DEFINE x == handlers[h]
             n == Len(agents) + 1
             y == IF x.token = None THEN Idle
                  ELSE [x EXCEPT !.pc = "registered", !.agent = n]
  <2>1. /\ x \in Request /\ n \in Nat /\ RegisterNext(x)
        /\ handlers' = [handlers EXCEPT ![h] = y]
        /\ UNCHANGED <<enrollment_tokens, enrollment_token_uses>>
    BY <1>6, TypedFacts DEF Register
  <2>2. y.pc # "consumed"
    BY <2>1 DEF Request, Idle
  <2>3. /\ Len(agents') = n /\ agents' \in Seq(AgentRow)
        /\ \A i \in 1..Len(agents) : agents'[i] = agents[i]
        /\ agents'[n].token = x.token
    BY <1>6, RegisterAdds
  <2>4. UsesOf(t)' = UsesOf(t) /\ enrollment_tokens'[t] = enrollment_tokens[t]
    BY <2>1 DEF UsesOf
  <2> HIDE DEF y
  <2>7. EnrolledWith(t) = Having(agents, t) /\ EnrolledWith(t)' = Having(agents', t)
    BY DEF EnrolledWith, Having
  <2>8. /\ agents'[n].token = t =>
              Cardinality(Having(agents', t)) = Cardinality(Having(agents, t)) + 1
        /\ agents'[n].token # t => Having(agents', t) = Having(agents, t)
    <3>1. agents \in Seq(AgentRow)
      BY TypedFacts
    <3>2. Len(agents') = Len(agents) + 1
      BY <2>3
    <3> HIDE DEF x
    <3>3. /\ n \notin Having(agents, t)
          /\ agents'[n].token = t => /\ Having(agents', t) = Having(agents, t) \cup {n}
                                     /\ Cardinality(Having(agents', t)) = Cardinality(Having(agents, t)) + 1
          /\ agents'[n].token # t => Having(agents', t) = Having(agents, t)
      BY <2>3, <3>1, <3>2, RowAdded
    <3>. QED BY <3>3
  <2>5. CASE x.token # t
    <3>1. EnrolledWith(t)' = EnrolledWith(t)
      BY <2>3, <2>5, <2>7, <2>8
    <3>2. AtWork(t)' \subseteq AtWork(t)
      BY <2>1, <2>2, TypedFacts DEF AtWork
    <3>. QED BY <1>b, <2>4, <3>1, <3>2, BudgetKept
  <2>6. CASE x.token = t
    <3>1. Cardinality(EnrolledWith(t)') = Cardinality(EnrolledWith(t)) + 1
      BY <2>3, <2>6, <2>7, <2>8
    <3>2. AtWork(t)' = AtWork(t) \ {h} /\ h \in AtWork(t)
      <4>1. x.pc = "consumed"
        BY <2>1, <2>6 DEF RegisterNext
      <4>. QED BY <2>1, <2>2, <2>6, <4>1, TypedFacts DEF AtWork
    <3>3. Cardinality(AtWork(t)') = Cardinality(AtWork(t)) - 1
      BY <3>2, CountedSets, FS_RemoveElement
    <3>. QED BY <1>b, <2>4, <3>1, <3>3, CountedSets DEF Budget
  <2>. QED BY <2>5, <2>6
<1>7. ASSUME NEW h \in Handlers, LinkWrite(h) PROVE Budget(t)'
  <2>1. /\ handlers' = [handlers EXCEPT ![h] = Idle]
        /\ UNCHANGED <<enrollment_tokens, agents>>
    BY <1>7 DEF LinkWrite
  <2>2. /\ Len(enrollment_token_uses') = Len(enrollment_token_uses)
        /\ enrollment_token_uses' \in Seq(UseRow)
        /\ \A i \in 1..Len(enrollment_token_uses) :
              enrollment_token_uses'[i].token = enrollment_token_uses[i].token
    BY <1>7, LinkWriteChanges
  <2>3. UsesOf(t)' = UsesOf(t)
    BY <2>2, TypedFacts DEF UsesOf
  <2>4. EnrolledWith(t)' = EnrolledWith(t)
    BY <2>1 DEF EnrolledWith
  <2>5. AtWork(t)' \subseteq AtWork(t)
    BY <2>1, TypedFacts DEF AtWork, Idle
  <2>. QED BY <1>b, <2>1, <2>3, <2>4, <2>5, BudgetKept
<1>. QED BY <1>1, <1>2, <1>3, <1>4, <1>5, <1>6, <1>7 DEF Next

LEMMA BudgetAlways == Spec => []BudgetInv
<1>1. Init => BudgetInv
  BY BudgetInit
<1>2. Typed /\ BudgetInv /\ [Next]_vars => BudgetInv'
  BY BudgetNext
<1>. QED BY <1>1, <1>2, TypedAlways, PTL DEF Spec

(* No token lets in more agents than it has uses, and every use is counted. *)
THEOREM NeverMoreThanUses == Spec => []EnrolledWithinUses
<1>1. Typed /\ BudgetInv => EnrolledWithinUses
  BY CountedSets DEF BudgetInv, Budget, EnrolledWithinUses
<1>. QED BY <1>1, TypedAlways, BudgetAlways, PTL

(* The status of a token tells whether it has uses left.                   *)
THEOREM StatusIsRight == Spec => []StatusTellsBudget
<1>1. BudgetInv => StatusTellsBudget
  BY DEF BudgetInv, Budget, StatusTellsBudget
<1>. QED BY <1>1, BudgetAlways, PTL

----------------------------------------------------------------------------
(* Uses and the agents they name.                                          *)

(* A use that names no agent yet, or an agent that was enrolled with it.    *)
Named(row, a) ==
    row.agent # None => /\ row.agent \in 1..Len(a)
                        /\ a[row.agent].token = row.token
                        /\ a[row.agent].client = row.client

NamedInv ==
    \A i \in 1..Len(enrollment_token_uses) : Named(enrollment_token_uses[i], agents)

LEMMA NamedNext == Typed /\ NamedInv /\ [Next]_vars => NamedInv'
<1> SUFFICES ASSUME Typed, NamedInv, [Next]_vars PROVE NamedInv'
  OBVIOUS
<1>1. ASSUME UNCHANGED <<enrollment_token_uses, agents>> PROVE NamedInv'
  BY <1>1 DEF NamedInv
<1>2. ASSUME NEW h \in Handlers, Consume(h) PROVE NamedInv'
  <2>1. /\ Len(enrollment_token_uses') = Len(enrollment_token_uses) + 1
        /\ Len(enrollment_token_uses) \in Nat
        /\ \A i \in 1..Len(enrollment_token_uses) :
              enrollment_token_uses'[i] = enrollment_token_uses[i]
        /\ enrollment_token_uses'[Len(enrollment_token_uses) + 1].agent = None
        /\ agents' = agents
    BY <1>2, ConsumeAdds, TypedFacts DEF Consume
  <2>2. ASSUME NEW i \in 1..Len(enrollment_token_uses')
        PROVE  Named(enrollment_token_uses'[i], agents')
    <3>1. CASE i = Len(enrollment_token_uses) + 1
      BY <2>1, <3>1 DEF Named
    <3>2. CASE i # Len(enrollment_token_uses) + 1
      <4>1. i \in 1..Len(enrollment_token_uses)
        BY <2>1, <3>2
      <4>. QED BY <2>1, <4>1 DEF NamedInv
    <3>. QED BY <3>1, <3>2
  <2>. QED BY <2>2 DEF NamedInv
<1>3. ASSUME NEW h \in Handlers, Register(h) PROVE NamedInv'
  <2>1. /\ Len(agents') = Len(agents) + 1 /\ Len(agents) \in Nat
        /\ \A a \in 1..Len(agents) : agents'[a] = agents[a]
        /\ enrollment_token_uses' = enrollment_token_uses
    BY <1>3, RegisterAdds, TypedFacts DEF Register
  <2>. QED BY <2>1 DEF NamedInv, Named
<1>4. ASSUME NEW h \in Handlers, LinkWrite(h) PROVE NamedInv'
  <2> DEFINE x == handlers[h]
             u == enrollment_token_uses
  <2>1. /\ Len(u') = Len(u) /\ x.use \in 1..Len(u) /\ x.agent \in 1..Len(agents)
        /\ \A i \in 1..Len(u) : /\ u'[i].token = u[i].token
                                /\ u'[i].client = u[i].client
                                /\ u'[i].agent = IF i = x.use THEN x.agent ELSE u[i].agent
        /\ agents' = agents
    BY <1>4, LinkWriteChanges DEF LinkWrite
  <2>2. /\ agents[x.agent] = [client |-> Stripped[x.client], token |-> x.token]
        /\ u[x.use].client = Stripped[x.client] /\ u[x.use].token = x.token
    BY <1>4, TypedFacts DEF LinkWrite, InFlight
  <2>3. agents[x.agent].client = u[x.use].client /\ agents[x.agent].token = u[x.use].token
    BY <2>2
  <2> HIDE DEF x
  <2>. QED BY <2>1, <2>3 DEF NamedInv, Named
<1>5. CASE ListTokens \/ UNCHANGED vars
  BY <1>1, <1>5 DEF ListTokens, vars
<1>6. ASSUME NEW t \in Tokens,
             Expire(t) \/ IssueToken(t) \/ ImportOfflineKit(t) \/ RevokeToken(t)
      PROVE  NamedInv'
  BY <1>1, <1>6 DEF Expire, IssueToken, ImportOfflineKit, RevokeToken
<1>7. ASSUME NEW h \in Handlers,
             \/ \E c \in Clients, t \in Tokens \cup {None} : Admit(h, c, t)
             \/ ConsumeRefused(h) \/ LinkRead(h) \/ HandlerDies(h)
      PROVE  NamedInv'
  BY <1>1, <1>7 DEF Admit, ConsumeRefused, LinkRead, HandlerDies
<1>. QED BY <1>2, <1>3, <1>4, <1>5, <1>6, <1>7 DEF Next

(* No use ever names an agent that was enrolled with another token or from  *)
(* another machine.                                                        *)
THEOREM UsesNameTheirAgents == Spec => []UseNamesItsAgent
<1>1. Init => NamedInv
  BY DEF Init, NamedInv
<1>2. Typed /\ NamedInv => UseNamesItsAgent
  BY TypedFacts DEF NamedInv, Named, UseNamesItsAgent
<1>. QED BY <1>1, <1>2, NamedNext, TypedAlways, PTL DEF Spec

----------------------------------------------------------------------------
(* Seats of the licence.                                                   *)

(* SeatsBounded alone is not inductive: the requests that have passed the   *)
(* check and not yet registered hold the seats it leaves.                  *)
SeatInv ==
    LET held == Len(agents) + Cardinality(Pending) IN
    /\ Cardinality(Pending) <= overlap
    /\ held > 0 => held < MaxAgents + overlap

LEMMA SeatNext == Typed /\ SeatInv /\ [Next]_vars => SeatInv'
<1> SUFFICES ASSUME Typed, SeatInv, [Next]_vars PROVE SeatInv'
  OBVIOUS
<1>l. Len(agents) \in Nat /\ handlers \in [Handlers -> Request] /\ overlap \in Nat
  BY TypedFacts DEF Typed, TypeOK
<1>o. overlap' \in Nat
  BY OverlapNext DEF Typed
(* Fewer pending, no agent more.                                           *)
<1>1. ASSUME agents' = agents, overlap' = overlap, Pending' \subseteq Pending
      PROVE  SeatInv'
  <2>1. Cardinality(Pending') \in Nat /\ Cardinality(Pending') <= Cardinality(Pending)
    BY <1>1, PendingFinite, FS_Subset, FS_CardinalityType
  <2>. QED BY <1>1, <1>l, <2>1, PendingFinite DEF SeatInv
<1>2. ASSUME NEW h \in Handlers, NEW c \in Clients, NEW t \in Tokens \cup {None},
             Admit(h, c, t)
      PROVE  SeatInv'
  <2>1. /\ Len(agents) < MaxAgents /\ agents' = agents
        /\ overlap' = IF overlap > Cardinality(Pending) THEN overlap ELSE Cardinality(Pending) + 1
    BY <1>2 DEF Admit, SeatFree
  <2>2. Pending' = Pending \cup {h} /\ h \notin Pending
    <3>1. /\ handlers[h].pc = "idle" /\ handlers'[h].pc = "admitted"
          /\ \A g \in Handlers \ {h} : handlers'[g] = handlers[g]
      BY <1>2, <1>l DEF Admit, Idle
    <3>. QED BY <3>1 DEF Pending
  <2>3. Cardinality(Pending') = Cardinality(Pending) + 1
    BY <2>2, PendingFinite, FS_AddElement
  <2>. QED BY <1>l, <2>1, <2>3, PendingFinite DEF SeatInv
<1>3. ASSUME NEW h \in Handlers, Register(h) PROVE SeatInv'
  <2>1. Len(agents') = Len(agents) + 1 /\ overlap' = overlap
    BY <1>3, RegisterAdds DEF Register
  <2>2. h \in Pending
    BY <1>3 DEF Register, RegisterNext, Pending
  <2>3. Pending' = Pending \ {h}
    <3>1. handlers[h] \in Request
      BY <1>l
    <3>2. \E y : /\ handlers' = [handlers EXCEPT ![h] = y]
                 /\ y.pc \in {"idle", "registered"}
      <4>1. handlers[h].token = None => handlers' = [handlers EXCEPT ![h] = Idle]
        BY <1>3 DEF Register
      <4>2. handlers[h].token # None =>
               handlers' = [handlers EXCEPT ![h] =
                  [handlers[h] EXCEPT !.pc = "registered", !.agent = Len(agents) + 1]]
        BY <1>3 DEF Register
      <4>3. /\ Idle.pc = "idle"
            /\ [handlers[h] EXCEPT !.pc = "registered", !.agent = Len(agents) + 1].pc = "registered"
        BY <3>1 DEF Idle, Request
      <4>. QED BY <4>1, <4>2, <4>3
    <3>. QED BY <1>l, <3>2 DEF Pending
  <2>4. Cardinality(Pending') = Cardinality(Pending) - 1
    BY <2>2, <2>3, PendingFinite, FS_RemoveElement
  <2>. QED BY <1>l, <2>1, <2>4, PendingFinite DEF SeatInv
<1>4. ASSUME NEW h \in Handlers, Consume(h) PROVE SeatInv'
  <2>1. agents' = agents /\ overlap' = overlap /\ \A g \in Handlers : g # h => handlers'[g] = handlers[g]
    BY <1>4, <1>l DEF Consume
  <2>2. h \in Pending
    BY <1>4 DEF Consume, Pending
  <2>3. Pending' \subseteq Pending
    BY <2>1, <2>2 DEF Pending
  <2>. QED BY <1>1, <2>1, <2>3
<1>5. ASSUME NEW h \in Handlers,
             ConsumeRefused(h) \/ HandlerDies(h) \/ LinkWrite(h)
      PROVE  SeatInv'
  <2>1. agents' = agents /\ overlap' = overlap /\ handlers' = [handlers EXCEPT ![h] = Idle]
    BY <1>5 DEF ConsumeRefused, HandlerDies, LinkWrite
  <2>2. Pending' \subseteq Pending
    BY <1>l, <2>1 DEF Pending, Idle
  <2>. QED BY <1>1, <2>1, <2>2
<1>6. ASSUME NEW h \in Handlers, LinkRead(h) PROVE SeatInv'
  <2>1. agents' = agents /\ overlap' = overlap /\ \A g \in Handlers : g # h => handlers'[g] = handlers[g]
    BY <1>6, <1>l DEF LinkRead
  <2>2. handlers[h] \in Request /\ Idle.pc = "idle"
    BY <1>l DEF Idle
  <2>3. handlers'[h].pc \in {"idle", "link"}
    <3>1. \/ handlers' = [handlers EXCEPT ![h] = Idle]
          \/ \E i : handlers' = [handlers EXCEPT ![h] =
                                    [handlers[h] EXCEPT !.pc = "link", !.use = i]]
      BY <1>6 DEF LinkRead
    <3>2. CASE handlers' = [handlers EXCEPT ![h] = Idle]
      BY <1>l, <2>2, <3>2
    <3>3. ASSUME NEW i, handlers' = [handlers EXCEPT ![h] =
                                       [handlers[h] EXCEPT !.pc = "link", !.use = i]]
          PROVE  handlers'[h].pc = "link"
      BY <1>l, <2>2, <3>3 DEF Request
    <3>. QED BY <3>1, <3>2, <3>3
  <2>4. Pending' \subseteq Pending
    BY <2>1, <2>3 DEF Pending
  <2>. QED BY <1>1, <2>1, <2>4
<1>7. CASE \/ ListTokens \/ UNCHANGED vars
           \/ \E t \in Tokens : \/ Expire(t) \/ IssueToken(t)
                               \/ ImportOfflineKit(t) \/ RevokeToken(t)
  <2>1. UNCHANGED <<agents, handlers, overlap>>
    BY <1>7 DEF ListTokens, vars, Expire, IssueToken, ImportOfflineKit, RevokeToken
  <2>. QED BY <1>1, <2>1 DEF Pending
<1>. QED BY <1>2, <1>3, <1>4, <1>5, <1>6, <1>7 DEF Next

(* However many requests overlap, the licence is overbooked by fewer seats  *)
(* than requests have stood between the count and the INSERT at once.      *)
THEOREM SeatsAreBounded == Spec => []SeatsBounded
<1>1. Init => SeatInv
  <2> SUFFICES ASSUME Init PROVE SeatInv
    OBVIOUS
  <2>1. Pending = {} /\ Len(agents) = 0 /\ overlap = 0
    BY DEF Init, Pending, Idle
  <2>. QED BY <2>1, FS_EmptySet DEF SeatInv
<1>2. Typed /\ SeatInv => SeatsBounded
  <2>1. Typed => overlap \in Nat /\ Len(agents) \in Nat
    BY TypedFacts DEF Typed, TypeOK
  <2>. QED BY <2>1, PendingFinite DEF SeatInv, SeatsBounded
<1>. QED BY <1>1, <1>2, SeatNext, TypedAlways, PTL DEF Spec

----------------------------------------------------------------------------
(* Ends.                                                                   *)

(* What EndedIsFinal says of one step and one token.                       *)
StaysEnded(t) ==
    LET old == enrollment_tokens[t]  new == enrollment_tokens'[t] IN
    /\ old.status = "REVOKED" => new = old
    /\ old.status \in {"CONSUMED", "EXPIRED"} =>
          new \in {old, [old EXCEPT !.status = "REVOKED"]}
    /\ t \in expired /\ old.status # "none" => new.used_count = old.used_count

LEMMA EndNext ==
    ASSUME Typed, [Next]_vars, NEW t \in Tokens
    PROVE  StaysEnded(t)
<1>t. /\ Touched[t].used_count = enrollment_tokens[t].used_count
      /\ \/ Touched[t] = enrollment_tokens[t]
         \/ enrollment_tokens[t].status = "ACTIVE"
      /\ t \in expired => Touched[t].status # "ACTIVE"
      /\ Touched \in [Tokens -> Row]
      /\ enrollment_tokens[t] \in Row
  BY TouchedType, TypedFacts DEF Typed
<1>1. ASSUME enrollment_tokens'[t] \in {enrollment_tokens[t], Touched[t]}
      PROVE  StaysEnded(t)
  BY <1>t, <1>1 DEF StaysEnded
<1>2. ASSUME NEW s \in Tokens, IssueToken(s) \/ ImportOfflineKit(s) PROVE StaysEnded(t)
  <2>1. CASE s = t
    BY <1>2, <2>1 DEF IssueToken, ImportOfflineKit, ImportInserts, StaysEnded
  <2>2. CASE s # t
    BY <1>1, <1>2, <1>t, <2>2 DEF IssueToken, ImportOfflineKit
  <2>. QED BY <2>1, <2>2
<1>3. ASSUME NEW s \in Tokens, RevokeToken(s) PROVE StaysEnded(t)
  <2>1. CASE s = t
    <3>1. enrollment_tokens'[t] = [Touched[t] EXCEPT !.status = "REVOKED"]
      BY <1>3, <1>t, <2>1 DEF RevokeToken
    <3>2. enrollment_tokens[t].status = "REVOKED" => enrollment_tokens'[t] = enrollment_tokens[t]
      BY <1>t, <3>1 DEF Row
    <3>3. enrollment_tokens'[t].used_count = enrollment_tokens[t].used_count
      BY <1>t, <3>1 DEF Row
    <3>. QED BY <1>t, <3>1, <3>2, <3>3 DEF StaysEnded
  <2>2. CASE s # t
    BY <1>1, <1>3, <1>t, <2>2 DEF RevokeToken
  <2>. QED BY <2>1, <2>2
<1>4. ASSUME NEW h \in Handlers, Consume(h) PROVE StaysEnded(t)
  <2>1. CASE handlers[h].token = t
    <3>1. Touched[t].status = "ACTIVE"
      BY <1>4, <2>1 DEF Consume, Consumable
    <3>2. enrollment_tokens[t].status = "ACTIVE" /\ t \notin expired
      BY <1>t, <3>1 DEF Touched
    <3>. QED BY <3>2 DEF StaysEnded
  <2>2. CASE handlers[h].token # t
    BY <1>1, <1>4, <1>t, <2>2 DEF Consume
  <2>. QED BY <2>1, <2>2
<1>5. CASE ListTokens \/ UNCHANGED vars \/ \E s \in Tokens : Expire(s)
  BY <1>1, <1>5 DEF ListTokens, vars, Expire
<1>6. ASSUME NEW h \in Handlers,
             \/ \E c \in Clients, s \in Tokens \cup {None} : Admit(h, c, s)
             \/ ConsumeRefused(h) \/ Register(h) \/ LinkRead(h) \/ LinkWrite(h)
             \/ HandlerDies(h)
      PROVE  StaysEnded(t)
  BY <1>1, <1>6 DEF Admit, ConsumeRefused, Register, LinkRead, LinkWrite, HandlerDies
<1>. QED BY <1>2, <1>3, <1>4, <1>5, <1>6 DEF Next

(* A token that has ended is not used again and no revocation is undone.    *)
THEOREM EndsAreFinal == Spec => EndedIsFinal
<1>1. Typed /\ [Next]_vars => [\A t \in Tokens : StaysEnded(t)]_vars
  BY EndNext
<1>2. EndedIsFinal <=> [][\A t \in Tokens : StaysEnded(t)]_vars
  BY DEF EndedIsFinal, StaysEnded
<1>. QED BY <1>1, <1>2, TypedAlways, PTL DEF Spec

----------------------------------------------------------------------------
(* The use a sequential client spent.                                      *)

Spending == {"consumed", "registered", "link"}

(* The use a sequential client has spent is open, and the latest it has.    *)
Own(x, u) ==
    x.client \in Sequential /\ x.pc \in Spending =>
       /\ u[x.spent].agent = None
       /\ \A j \in 1..Len(u) : j > x.spent => u[j].client # x.client
       /\ x.pc = "link" => x.use = x.spent

OneByOne ==
    \A g, h \in Handlers :
        handlers[g].client = handlers[h].client /\ handlers[h].client \in Sequential => g = h

OwnInv == OneByOne /\ \A h \in Handlers : Own(handlers[h], enrollment_token_uses)

(* A step that changes one request and keeps its client, or ends it.        *)
LEMMA OneByOneKept ==
    ASSUME Typed, OneByOne, NEW h \in Handlers, NEW y,
           handlers' = [handlers EXCEPT ![h] = y],
           y.client \in {handlers[h].client, None}
    PROVE  OneByOne'
<1>1. \A g \in Handlers : handlers'[g].client = handlers[g].client \/ handlers'[g].client = None
  BY TypedFacts
<1>2. None \notin Sequential
  OBVIOUS
<1>. QED BY <1>1, <1>2 DEF OneByOne

LEMMA OwnNext == Typed /\ OwnInv /\ [Next]_vars => OwnInv'
<1> SUFFICES ASSUME Typed, OwnInv, [Next]_vars PROVE OwnInv'
  OBVIOUS
<1> DEFINE u == enrollment_token_uses
<1>o. OneByOne /\ \A h \in Handlers : Own(handlers[h], u)
  BY DEF OwnInv
<1>f. /\ handlers \in [Handlers -> Request] /\ u \in Seq(UseRow) /\ Len(u) \in Nat
      /\ \A h \in Handlers : InFlight(handlers[h], u, agents)
  BY TypedFacts
<1>i. /\ Idle.client = None /\ Idle.pc = "idle" /\ \A v : Own(Idle, v)
  BY DEF Idle, Own, Spending
<1>1. ASSUME NEW h \in Handlers, handlers' = [handlers EXCEPT ![h] = Idle], u' = u
      PROVE  OwnInv'
  <2>1. OneByOne'
    BY <1>1, <1>i, <1>o, OneByOneKept
  <2>2. \A g \in Handlers : Own(handlers'[g], u')
    BY <1>1, <1>f, <1>i, <1>o
  <2>. QED BY <2>1, <2>2 DEF OwnInv
<1>2. ASSUME NEW h \in Handlers, NEW c \in Clients, NEW t \in Tokens \cup {None},
             Admit(h, c, t)
      PROVE  OwnInv'
  <2> DEFINE y == [Idle EXCEPT !.pc = "admitted", !.token = t, !.client = c]
  <2>1. /\ handlers' = [handlers EXCEPT ![h] = y] /\ u' = u
        /\ y.client = c /\ y.pc = "admitted"
        /\ c \in Sequential => \A g \in Handlers : handlers[g].client # c
    BY <1>2 DEF Admit, Idle
  <2> HIDE DEF y
  <2>2. OneByOne'
    BY <1>f, <1>o, <2>1 DEF OneByOne
  <2>3. \A g \in Handlers : Own(handlers'[g], u')
    <3>1. Own(y, u)
      BY <2>1 DEF Own, Spending
    <3>. QED BY <1>f, <1>o, <2>1, <3>1
  <2>. QED BY <2>2, <2>3 DEF OwnInv
<1>3. ASSUME NEW h \in Handlers, Consume(h) PROVE OwnInv'
  <2> DEFINE x == handlers[h]
             n == Len(u) + 1
             y == [x EXCEPT !.pc = "consumed", !.spent = n]
  <2>1. handlers' = [handlers EXCEPT ![h] = y]
    BY <1>3 DEF Consume
  <2>2. x \in Request
    BY <1>f
  <2>3. y.client = x.client /\ y.pc = "consumed" /\ y.spent = n
    BY <2>2 DEF Request
  <2>4. /\ Len(u') = n /\ \A i \in 1..Len(u) : u'[i] = u[i]
        /\ u'[n].client = x.client /\ u'[n].agent = None
    BY <1>3, ConsumeAdds
  <2> HIDE DEF y
  <2>5. OneByOne'
    BY <1>o, <2>1, <2>3, OneByOneKept
  <2>6. Own(y, u')
    BY <1>f, <2>3, <2>4 DEF Own
  <2>7. ASSUME NEW g \in Handlers, g # h PROVE Own(handlers[g], u')
    <3>1. SUFFICES ASSUME handlers[g].client \in Sequential, handlers[g].pc \in Spending
                   PROVE  Own(handlers[g], u')
      BY DEF Own
    <3>2. x.client # handlers[g].client
      BY <1>o, <2>7, <3>1 DEF OneByOne
    <3>3. handlers[g].spent \in 1..Len(u) /\ Own(handlers[g], u)
      BY <1>f, <1>o, <3>1 DEF InFlight, Spending
    <3> DEFINE z == handlers[g]
    <3>4. u'[z.spent].agent = None /\ (z.pc = "link" => z.use = z.spent)
      BY <2>4, <3>1, <3>3 DEF Own
    <3>5. ASSUME NEW j \in 1..Len(u'), j > z.spent PROVE u'[j].client # z.client
      <4>1. CASE j = n
        BY <2>4, <3>2, <4>1
      <4>2. CASE j # n
        <5>1. j \in 1..Len(u)
          BY <1>f, <2>4, <4>2
        <5>. QED BY <2>4, <3>1, <3>3, <3>5, <5>1 DEF Own
      <4>. QED BY <4>1, <4>2
    <3> HIDE DEF z
    <3>6. Own(z, u')
      BY <3>4, <3>5 DEF Own
    <3>. QED BY <3>6 DEF z
  <2>8. \A g \in Handlers : Own(handlers'[g], u')
    BY <1>f, <2>1, <2>6, <2>7
  <2>. QED BY <2>5, <2>8 DEF OwnInv
<1>4. ASSUME NEW h \in Handlers, Register(h) PROVE OwnInv'
  <2> DEFINE x == handlers[h]
             y == [x EXCEPT !.pc = "registered", !.agent = Len(agents) + 1]
  <2>1. u' = u
    BY <1>4 DEF Register
  <2>2. CASE x.token = None
    BY <1>1, <1>4, <2>1, <2>2 DEF Register
  <2>3. CASE x.token # None
    <3>1. handlers' = [handlers EXCEPT ![h] = y] /\ x.pc = "consumed"
      BY <1>4, <2>3 DEF Register, RegisterNext
    <3>2. x \in Request
      BY <1>f
    <3>3. y.client = x.client /\ y.pc = "registered" /\ y.spent = x.spent
      BY <3>2 DEF Request
    <3> HIDE DEF y
    <3>4. OneByOne'
      BY <1>o, <3>1, <3>3, OneByOneKept
    <3>5. Own(y, u)
      BY <1>o, <3>1, <3>3 DEF Own, Spending
    <3>6. \A g \in Handlers : Own(handlers'[g], u')
      BY <1>f, <1>o, <2>1, <3>1, <3>5
    <3>. QED BY <3>4, <3>6 DEF OwnInv
  <2>. QED BY <2>2, <2>3
<1>5. ASSUME NEW h \in Handlers, LinkRead(h) PROVE OwnInv'
  <2> DEFINE x == handlers[h]
             found == OpenUses(x.token, Stripped[x.client])
  <2>1. u' = u /\ x.pc = "registered" /\ x \in Request
    BY <1>5, <1>f DEF LinkRead
  <2>2. CASE handlers' = [handlers EXCEPT ![h] = Idle]
    BY <1>1, <2>1, <2>2
  <2>3. ASSUME NEW i \in found, IsLatest(i, found),
               handlers' = [handlers EXCEPT ![h] = [x EXCEPT !.pc = "link", !.use = i]]
        PROVE  OwnInv'
    <3> DEFINE y == [x EXCEPT !.pc = "link", !.use = i]
    <3>1. y.client = x.client /\ y.pc = "link" /\ y.spent = x.spent /\ y.use = i
      BY <2>1 DEF Request
    <3> HIDE DEF y
    <3>2. ASSUME x.client \in Sequential PROVE i = x.spent
      <4>1. Stripped[x.client] = x.client
        BY <3>2
      <4>2. /\ x.spent \in 1..Len(u) /\ u[x.spent].client = x.client
            /\ u[x.spent].token = x.token
        BY <1>f, <2>1 DEF InFlight
      <4>3. /\ u[x.spent].agent = None
            /\ \A j \in 1..Len(u) : j > x.spent => u[j].client # x.client
        BY <1>o, <2>1, <3>2 DEF Own, Spending
      <4>4. x.spent \in found
        BY <1>f, <4>1, <4>2, <4>3 DEF OpenUses, OpenUsesOfClient
      <4>5. i >= x.spent
        BY <2>3, <4>4 DEF IsLatest
      <4>6. i \in 1..Len(u) /\ u[i].client = x.client
        BY <1>f, <4>1 DEF OpenUses, OpenUsesOfClient
      <4>. QED BY <1>f, <4>2, <4>3, <4>5, <4>6
    <3>6. handlers' = [handlers EXCEPT ![h] = y]
      BY <2>3 DEF y
    <3>3. OneByOne'
      BY <1>o, <3>1, <3>6, OneByOneKept
    <3>4. Own(y, u)
      BY <1>o, <2>1, <3>1, <3>2 DEF Own, Spending
    <3>5. \A g \in Handlers : Own(handlers'[g], u')
      BY <1>f, <1>o, <2>1, <3>4, <3>6
    <3>. QED BY <3>3, <3>5 DEF OwnInv
  <2>4. \/ handlers' = [handlers EXCEPT ![h] = Idle]
        \/ \E i \in found : /\ IsLatest(i, found)
                            /\ handlers' = [handlers EXCEPT ![h] =
                                              [x EXCEPT !.pc = "link", !.use = i]]
    BY <1>5 DEF LinkRead
  <2>. QED BY <2>2, <2>3, <2>4
<1>6. ASSUME NEW h \in Handlers, LinkWrite(h) PROVE OwnInv'
  <2> DEFINE x == handlers[h]
  <2>1. handlers' = [handlers EXCEPT ![h] = Idle] /\ x.pc = "link"
    BY <1>6 DEF LinkWrite
  <2>2. /\ Len(u') = Len(u) /\ x.use \in 1..Len(u)
        /\ \A i \in 1..Len(u) : /\ u'[i].client = u[i].client
                                /\ i # x.use => u'[i].agent = u[i].agent
    BY <1>6, LinkWriteChanges
  <2>3. u[x.use].client = Stripped[x.client] /\ x.client \in Clients
    BY <1>f, <2>1 DEF InFlight
  <2>4. OneByOne'
    BY <1>i, <1>o, <2>1, OneByOneKept
  <2>5. ASSUME NEW g \in Handlers, g # h PROVE Own(handlers[g], u')
    <3>1. SUFFICES ASSUME handlers[g].client \in Sequential, handlers[g].pc \in Spending
                   PROVE  Own(handlers[g], u')
      BY DEF Own
    <3>2. x.client # handlers[g].client
      BY <1>o, <2>5, <3>1 DEF OneByOne
    <3>3. u[x.use].client # handlers[g].client
      BY <2>3, <3>1, <3>2
    <3>4. /\ handlers[g].spent \in 1..Len(u) /\ Own(handlers[g], u)
          /\ u[handlers[g].spent].client = handlers[g].client
      BY <1>f, <1>o, <3>1 DEF InFlight, Spending
    <3>. QED BY <2>2, <3>1, <3>3, <3>4 DEF Own
  <2>6. \A g \in Handlers : Own(handlers'[g], u')
    BY <1>f, <1>i, <2>1, <2>5
  <2>. QED BY <2>4, <2>6 DEF OwnInv
<1>7. ASSUME NEW h \in Handlers, ConsumeRefused(h) \/ HandlerDies(h) PROVE OwnInv'
  BY <1>1, <1>7 DEF ConsumeRefused, HandlerDies
<1>8. CASE \/ ListTokens \/ UNCHANGED vars
           \/ \E t \in Tokens : \/ Expire(t) \/ IssueToken(t)
                               \/ ImportOfflineKit(t) \/ RevokeToken(t)
  <2>1. UNCHANGED <<enrollment_token_uses, handlers>>
    BY <1>8 DEF ListTokens, vars, Expire, IssueToken, ImportOfflineKit, RevokeToken
  <2>. QED BY <1>o, <2>1 DEF OwnInv, OneByOne
<1>. QED BY <1>2, <1>3, <1>4, <1>5, <1>6, <1>7, <1>8 DEF Next

(* A client that enrols one request at a time is linked to the use it spent.*)
THEOREM OwnUseIsLinked == Spec => []LinksOwnUse
<1>1. Init => OwnInv
  <2> SUFFICES ASSUME Init PROVE OwnInv
    OBVIOUS
  <2>1. \A h \in Handlers : handlers[h].client = None /\ handlers[h].pc = "idle"
    BY DEF Init, Idle
  <2>2. None \notin Sequential
    OBVIOUS
  <2>. QED BY <2>1, <2>2 DEF OwnInv, OneByOne, Own
<1>2. OwnInv => LinksOwnUse
  BY DEF OwnInv, Own, LinksOwnUse, Spending
<1>. QED BY <1>1, <1>2, OwnNext, TypedAlways, PTL DEF Spec

=============================================================================
