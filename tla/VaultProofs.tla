---------------------------- MODULE VaultProofs ----------------------------
(***************************************************************************)
(* The evidence vault under backups and restores, for any number of        *)
(* objects, requests, backups and restores.                                *)
(*                                                                         *)
(* Verifies compares each event with the one before it, and says nothing   *)
(* of what a later INSERT or restore may do to a timeline.  ChainOK does:  *)
(* sequence numbers are unique, and an event that is not the first has its *)
(* predecessor in the timeline.  It holds of the table and of every bundle *)
(* for all evidence that no restore raced on, and a request that has read  *)
(* the last event keeps the link it will write until such a race.          *)
(***************************************************************************)
EXTENDS StateBackups, WellFoundedInduction, TLAPS

----------------------------------------------------------------------------
(* Chains.                                                                 *)

Linked(seq, prev, T) ==
    IF seq = 1 THEN prev = 0 ELSE \E f \in T : f.seq + 1 = seq /\ f.row = prev

ChainOK(T) ==
    /\ \A e, f \in T : e.seq = f.seq => e = f
    /\ \A e \in T : Linked(e.seq, e.prev, T)

LEMMA ChainVerified ==
    ASSUME NEW T, T \subseteq Event, ChainOK(T)
    PROVE  Verifies(T)
<1> SUFFICES ASSUME NEW e \in T, NEW before, before = {f \in T : Precedes(f, e)}
             PROVE  IF before = {} THEN e.prev = 0
                    ELSE \E f \in before : f.row = e.prev /\ \A g \in before : ~Precedes(f, g)
  BY DEF Verifies
<1>1. \A f \in T : f.seq \in Nat /\ f.seq >= 1 /\ f.row \in Nat
  BY DEF Event, Row
<1>2. before = {f \in T : f.seq < e.seq}
  <2>1. ASSUME NEW f \in T PROVE Precedes(f, e) <=> f.seq < e.seq
    <3>1. ~(f.seq = e.seq /\ f.row < e.row)
      BY <1>1 DEF ChainOK
    <3>. QED BY <3>1 DEF Precedes
  <2>. QED BY <2>1
<1>3. CASE e.seq = 1
  <2>1. before = {}
    BY <1>1, <1>2, <1>3
  <2>2. e.prev = 0
    BY <1>3 DEF ChainOK, Linked
  <2>. QED BY <2>1, <2>2
<1>4. CASE e.seq # 1
  <2>1. PICK f \in T : f.seq + 1 = e.seq /\ f.row = e.prev
    BY <1>4 DEF ChainOK, Linked
  <2>2. f \in before
    BY <1>1, <1>2, <2>1
  <2>3. ASSUME NEW g \in before, Precedes(f, g) PROVE FALSE
    <3>1. g \in T /\ g.seq < f.seq + 1
      BY <1>2, <2>1, <2>3
    <3>2. g.seq = f.seq /\ f.row < g.row
      BY <1>1, <2>3, <3>1 DEF Precedes
    <3>3. g = f
      BY <3>1, <3>2 DEF ChainOK
    <3>. QED BY <1>1, <3>2, <3>3
  <2>. QED BY <2>1, <2>2, <2>3
<1>. QED BY <1>3, <1>4

\* A least member, and a greatest one, by sequence number.
LEMMA FirstOf ==
    ASSUME NEW T, T \subseteq Event, T # {}
    PROVE  \E e \in T : \A f \in T : e.seq <= f.seq
<1> DEFINE N == {e.seq : e \in T}
<1>1. \A e \in T : e.seq \in Nat
  BY DEF Event, Row
<1>2. N \subseteq Nat /\ N # {}
  BY <1>1
<1>3. PICK m \in N : \A n \in N : ~(<<n, m>> \in OpToRel(<, Nat))
  BY <1>2, NatLessThanWellFounded, WFMin
<1>4. \A n \in N : ~(n < m)
  BY <1>2, <1>3 DEF OpToRel
<1>5. PICK e \in T : m = e.seq
  OBVIOUS
<1>6. ASSUME NEW f \in T PROVE e.seq <= f.seq
  <2>1. ~(f.seq < e.seq)
    BY <1>4, <1>5
  <2>. QED BY <1>1, <2>1
<1>. QED BY <1>6

LEMMA LastOf ==
    ASSUME NEW T, T \subseteq Event, T # {}
    PROVE  \E e \in T : \A f \in T : f.seq <= e.seq
<1> DEFINE N == {MaxRows - e.seq : e \in T}
<1>1. \A e \in T : e.seq \in Nat /\ MaxRows - e.seq \in Nat
  BY VaultAssumption DEF Event, Row
<1>2. N \subseteq Nat /\ N # {}
  BY <1>1
<1>3. PICK m \in N : \A n \in N : ~(<<n, m>> \in OpToRel(<, Nat))
  BY <1>2, NatLessThanWellFounded, WFMin
<1>4. \A n \in N : ~(n < m)
  BY <1>2, <1>3 DEF OpToRel
<1>5. PICK e \in T : m = MaxRows - e.seq
  OBVIOUS
<1>6. ASSUME NEW f \in T PROVE f.seq <= e.seq
  <2>1. ~(MaxRows - f.seq < MaxRows - e.seq)
    BY <1>4, <1>5
  <2>. QED BY <1>1, <2>1, VaultAssumption
<1>. QED BY <1>6

LEMMA LastEventIs ==
    ASSUME NEW rows, NEW ev, rows \subseteq Event, Timeline(rows, ev) # {}
    PROVE  /\ LastEvent(rows, ev) \in Timeline(rows, ev)
           /\ \A f \in Timeline(rows, ev) : f.seq <= LastEvent(rows, ev).seq
<1>1. Timeline(rows, ev) \subseteq Event
  BY DEF Timeline
<1>2. \E e \in Timeline(rows, ev) : \A f \in Timeline(rows, ev) : f.seq <= e.seq
  BY <1>1, LastOf
<1>. QED BY <1>2 DEF LastEvent

\* Where the next number of a chain is free, nothing comes after it.
LEMMA ChainEnd ==
    ASSUME NEW T, T \subseteq Event, ChainOK(T), NEW n \in Nat \ {0},
           \A e \in T : e.seq # n
    PROVE  \A e \in T : e.seq < n
<1> DEFINE Later == {e \in T : ~(e.seq < n)}
<1>1. \A e \in T : e.seq \in Nat
  BY DEF Event, Row
<1>2. CASE Later = {}
  BY <1>2
<1>3. CASE Later # {}
  <2>1. PICK e \in Later : \A f \in Later : e.seq <= f.seq
    BY <1>3, FirstOf
  <2>2. e.seq > n /\ e.seq # 1 /\ e \in T
    BY <1>1, <2>1
  <2>3. PICK f \in T : f.seq + 1 = e.seq
    BY <2>2 DEF ChainOK, Linked
  <2>4. f.seq \in Nat /\ e.seq \in Nat /\ f.seq # n
    BY <1>1, <2>2
  <2>5. ~(f.seq < n) /\ ~(e.seq <= f.seq)
    BY <2>2, <2>3, <2>4
  <2>. QED BY <2>1, <2>5
<1>. QED BY <1>2, <1>3

LEMMA LinkedMore ==
    ASSUME NEW s, NEW p, NEW T, NEW U, T \subseteq U, Linked(s, p, T)
    PROVE  Linked(s, p, U)
BY DEF Linked

LEMMA ChainGrows ==
    ASSUME NEW T, ChainOK(T), NEW e, \A f \in T : f.seq # e.seq, Linked(e.seq, e.prev, T)
    PROVE  ChainOK(T \cup {e})
BY LinkedMore DEF ChainOK

\* Rows of a chain that meet those of another one nowhere, and whose
\* predecessors are there, are added to it.
LEMMA MergedChain ==
    ASSUME NEW C, NEW B, NEW N, ChainOK(C), ChainOK(B), N \subseteq B, B \ N \subseteq C,
           \A e \in N : \A f \in C : e.seq # f.seq
    PROVE  ChainOK(C \cup N)
<1>1. ASSUME NEW e \in C \cup N, NEW f \in C \cup N, e.seq = f.seq PROVE e = f
  BY <1>1 DEF ChainOK
<1>2. ASSUME NEW e \in C \cup N PROVE Linked(e.seq, e.prev, C \cup N)
  <2>1. CASE e \in C
    BY <2>1, LinkedMore DEF ChainOK
  <2>2. CASE e \in N
    <3>1. Linked(e.seq, e.prev, B) /\ B \subseteq C \cup N
      BY <2>2 DEF ChainOK
    <3>. QED BY <3>1, LinkedMore
  <2>. QED BY <2>1, <2>2
<1>. QED BY <1>1, <1>2 DEF ChainOK

----------------------------------------------------------------------------
(* One table of a restore.                                                 *)

Tables == UNION {[D -> ObjectRow] : D \in SUBSET Evidence}

LEMMA TableShape ==
    ASSUME NEW t
    PROVE  t \in Tables <=> DOMAIN t \subseteq Evidence /\ t \in [DOMAIN t -> ObjectRow]
BY DEF Tables

LEMMA EmptyTable == <<>> \in Tables
<1>1. <<>> \in [{} -> ObjectRow]
  OBVIOUS
<1>. QED BY <1>1 DEF Tables

\* What restoring the objects leaves: rows of the table and of the bundle, ...
Gone(saved, seen, deletes) == IF deletes THEN DOMAIN seen \ DOMAIN saved ELSE {}

LEMMA KeptRows ==
    ASSUME NEW db, NEW saved, NEW seen, NEW deletes,
           NEW new, new = RestoreObjects(db, saved, seen, deletes)
    PROVE  DOMAIN new.objects =
              (DOMAIN db.objects \cup (DOMAIN saved \ DOMAIN seen)) \ Gone(saved, seen, deletes)
BY DEF RestoreObjects, Gone

LEMMA KeptRowsAre ==
    ASSUME NEW db, NEW saved, NEW seen, NEW deletes,
           NEW new, new = RestoreObjects(db, saved, seen, deletes)
    PROVE  new.objects = [ev \in DOMAIN new.objects |->
                             IF ev \in DOMAIN saved THEN saved[ev] ELSE db.objects[ev]]
BY DEF RestoreObjects

LEMMA RowsLeft ==
    ASSUME NEW db, NEW saved, NEW seen, NEW deletes,
           NEW new, new = RestoreObjects(db, saved, seen, deletes)
    PROVE  DOMAIN new.objects \subseteq DOMAIN db.objects \cup DOMAIN saved
<1>1. DOMAIN new.objects =
         (DOMAIN db.objects \cup (DOMAIN saved \ DOMAIN seen)) \ Gone(saved, seen, deletes)
  BY KeptRows
<1>. QED BY <1>1

LEMMA RowsTyped ==
    ASSUME NEW db, NEW saved \in Tables, NEW seen, NEW deletes, db.objects \in Tables,
           NEW new, new = RestoreObjects(db, saved, seen, deletes)
    PROVE  new.objects \in Tables
<1>1. PICK kept : kept = DOMAIN new.objects
  OBVIOUS
<1>2. new.objects = [ev \in kept |-> IF ev \in DOMAIN saved THEN saved[ev] ELSE db.objects[ev]]
  BY <1>1, KeptRowsAre
<1>3. /\ DOMAIN saved \subseteq Evidence /\ DOMAIN db.objects \subseteq Evidence
      /\ \A ev \in DOMAIN saved : saved[ev] \in ObjectRow
      /\ \A ev \in DOMAIN db.objects : db.objects[ev] \in ObjectRow
  BY TableShape
<1>4. kept \subseteq DOMAIN db.objects \cup DOMAIN saved
  BY <1>1, RowsLeft
<1>5. new.objects \in [kept -> ObjectRow]
  BY <1>2, <1>3, <1>4
<1>. QED BY <1>1, <1>3, <1>4, <1>5, TableShape

\* ... and the custody events of the objects that stay.
LEMMA CustodyLeft ==
    ASSUME NEW db, NEW saved, NEW seen, NEW deletes,
           NEW new, new = RestoreObjects(db, saved, seen, deletes), NEW e
    PROVE  e \in new.custody <=> e \in db.custody /\ e.ev \notin Gone(saved, seen, deletes)
BY DEF RestoreObjects, Gone

LEMMA CustodyShrinks ==
    ASSUME NEW db, NEW saved, NEW seen, NEW deletes,
           NEW new, new = RestoreObjects(db, saved, seen, deletes)
    PROVE  new.custody \subseteq db.custody
BY CustodyLeft

LEMMA KeysHold ==
    ASSUME NEW db, NEW saved, NEW seen, NEW deletes,
           NEW new, new = RestoreObjects(db, saved, seen, deletes),
           \A e \in db.custody : e.ev \in DOMAIN db.objects
    PROVE  \A e \in new.custody : e.ev \in DOMAIN new.objects
<1>1. DOMAIN new.objects =
         (DOMAIN db.objects \cup (DOMAIN saved \ DOMAIN seen)) \ Gone(saved, seen, deletes)
  BY KeptRows
<1>. QED BY <1>1, CustodyLeft

\* A timeline goes with its object or is left alone.
LEMMA ChainLeft ==
    ASSUME NEW db, NEW saved, NEW seen, NEW deletes, NEW ev,
           NEW new, new = RestoreObjects(db, saved, seen, deletes),
           Timeline(new.custody, ev) = Timeline(db.custody, ev) => ChainOK(Timeline(db.custody, ev))
    PROVE  ChainOK(Timeline(new.custody, ev))
<1>1. PICK gone : gone = Gone(saved, seen, deletes)
  OBVIOUS
<1>2. \A e : e \in new.custody <=> e \in db.custody /\ e.ev \notin gone
  BY <1>1, CustodyLeft
<1>3. CASE ev \in gone
  <2>1. Timeline(new.custody, ev) = {}
    BY <1>2, <1>3 DEF Timeline
  <2>. QED BY <2>1 DEF ChainOK
<1>4. CASE ev \notin gone
  <2>1. Timeline(new.custody, ev) = Timeline(db.custody, ev)
    BY <1>2, <1>4 DEF Timeline
  <2>. QED BY <2>1
<1>. QED BY <1>3, <1>4

LEMMA CustodyRestored ==
    ASSUME NEW db, NEW saved, NEW seen, NEW deletes \in BOOLEAN,
           NEW new, new = RestoreCustody(db, saved, seen, deletes), new.ok,
           \A e \in db.custody : e.ev \in DOMAIN db.objects
    PROVE  /\ new.objects = db.objects
           /\ new.custody = (db.custody \cup (saved \ seen)) \
                 (IF deletes THEN seen \ saved ELSE {})
           /\ \A e \in new.custody : e.ev \in DOMAIN new.objects
           /\ \A e \in saved \ seen : \A f \in db.custody : f.ev = e.ev => f.seq # e.seq
           /\ db.ok
<1>1. /\ new.objects = db.objects
      /\ new.custody = (db.custody \cup (saved \ seen)) \ (IF deletes THEN seen \ saved ELSE {})
      /\ db.ok
  BY DEF RestoreCustody
<1>2. \A e \in saved \ seen :
         /\ e.ev \in DOMAIN db.objects
         /\ \A f \in db.custody : <<f.ev, f.seq>> # <<e.ev, e.seq>>
  BY DEF RestoreCustody
<1>3. \A e \in new.custody : e.ev \in DOMAIN new.objects
  BY <1>1, <1>2
<1>. QED BY <1>1, <1>2, <1>3

\* The chain of a timeline nobody has cut since it was read: it is whole again
\* when it had not changed either, or is not cut now.
LEMMA ChainRestored ==
    ASSUME NEW db, NEW saved, NEW seen, NEW deletes \in BOOLEAN, NEW ev,
           NEW new, new = RestoreCustody(db, saved, seen, deletes), new.ok,
           \A e \in db.custody : e.ev \in DOMAIN db.objects,
           ChainOK(Timeline(db.custody, ev)), ChainOK(Timeline(saved, ev)),
           Timeline(seen, ev) \subseteq Timeline(db.custody, ev),
           \/ Timeline(seen, ev) = Timeline(db.custody, ev)
           \/ Timeline(db.custody, ev) \subseteq Timeline(new.custody, ev)
    PROVE  ChainOK(Timeline(new.custody, ev))
<1>0. PICK C, B, S, G, K : /\ C = Timeline(db.custody, ev) /\ B = Timeline(saved, ev)
                           /\ S = Timeline(seen, ev) /\ K = Timeline(new.custody, ev)
                           /\ G = IF deletes THEN S \ B ELSE {}
  OBVIOUS
<1>1. K = (C \cup (B \ S)) \ G
  BY <1>0, CustodyRestored DEF Timeline
<1>2. \A e \in B \ S : \A f \in C : e.seq # f.seq
  <2>1. ASSUME NEW e \in B \ S, NEW f \in C PROVE e.seq # f.seq
    <3>1. e \in saved \ seen /\ f \in db.custody /\ f.ev = e.ev
      BY <1>0, <2>1 DEF Timeline
    <3>. QED BY <3>1, CustodyRestored
  <2>. QED BY <2>1
<1>3. ChainOK(C) /\ ChainOK(B) /\ S \subseteq C /\ (S = C \/ C \subseteq K)
  BY <1>0
<1>4. ChainOK(C \cup (B \ S))
  <2>1. B \ S \subseteq B /\ B \ (B \ S) \subseteq C
    BY <1>3
  <2>2. PICK N : N = B \ S
    OBVIOUS
  <2>3. N \subseteq B /\ B \ N \subseteq C /\ \A e \in N : \A f \in C : e.seq # f.seq
    BY <1>2, <2>1, <2>2
  <2>4. ChainOK(C \cup N)
    BY <1>3, <2>3, MergedChain
  <2>. QED BY <2>2, <2>4
<1>5. K = C \cup (B \ S) \/ K = B
  <2>1. CASE C \subseteq K \/ ~deletes
    <3>1. G \cap C = {} /\ G \cap B = {}
      BY <1>0, <1>1, <2>1
    <3>. QED BY <1>1, <3>1
  <2>2. CASE S = C /\ deletes
    BY <1>0, <1>1, <2>2
  <2>. QED BY <1>3, <2>1, <2>2
<1>6. ChainOK(K)
  BY <1>3, <1>4, <1>5
<1>. QED BY <1>0, <1>6

----------------------------------------------------------------------------
(* The invariant.                                                          *)

Inserted == {e \in Event : e.seq <= e.row /\ e.row <= issued.rows}
Bundles == [objects : Tables, custody : SUBSET Event]

\* Shapes, and the foreign key of the custody events.
StoreInv ==
    /\ objects \in Tables
    /\ custody \subseteq Inserted
    /\ \A e \in custody : e.ev \in DOMAIN objects
    /\ issued \in [ids : SUBSET Evidence, rows : 0..MaxRows]
    /\ clerks \in [Clerks -> ClerkStates]
    /\ backups \in Seq(Bundles)
    /\ \A b \in DOMAIN backups : backups[b].custody \subseteq Inserted
    /\ DOMAIN restorers = Restorers
    /\ \A r \in Restorers : restorers[r].pc = "backup" => restorers[r].objects \in Tables

\* The table, a bundle, or a backup under way has a row of this id.
Shown(ev) ==
    \/ ev \in DOMAIN objects
    \/ \E b \in DOMAIN backups : ev \in DOMAIN backups[b].objects
    \/ \E r \in Restorers : restorers[r].pc = "backup" /\ ev \in DOMAIN restorers[r].objects

\* An id is drawn once: the object under creation is in no table, in no bundle
\* and in no other request.
KnownInv ==
    /\ \A ev : Shown(ev) => ev \in issued.ids
    /\ \A c \in Clerks : clerks[c] # IdleClerk => clerks[c].ev \in issued.ids
    /\ \A c \in Clerks : clerks[c].pc = "create" =>
          /\ ~Shown(clerks[c].ev)
          /\ \A d \in Clerks \ {c} : clerks[d] # IdleClerk => clerks[d].ev # clerks[c].ev

ChainInv ==
    /\ \A ev \in Evidence \ history.raced :
          /\ ChainOK(Timeline(custody, ev))
          /\ \A b \in DOMAIN backups : ChainOK(Timeline(backups[b].custody, ev))
    /\ \A c \in Clerks : clerks[c].pc \in {"append", "export"} =>
          /\ clerks[c].next.seq \in 1..(issued.rows + 1)
          /\ clerks[c].ev \notin history.raced =>
                Linked(clerks[c].next.seq, clerks[c].next.prev, Timeline(custody, clerks[c].ev))

RestoreInv ==
    /\ \A r \in Restorers : restorers[r].pc = "apply" =>
          /\ restorers[r].backup \in DOMAIN backups
          /\ restorers[r].tables \in TableOrders
          /\ restorers[r].deletes \in BOOLEAN
          /\ restorers[r].tables[1] = "custody" =>
                \A e \in restorers[r].seen : e.ev \in DOMAIN objects \cup history.touched

\* The row of an object, and the status a request on a quiet one has read.
HeadOf(ev) == \E e \in Timeline(custody, ev) :
                 e.row = objects[ev].head /\ \A f \in Timeline(custody, ev) : f.seq <= e.seq

RowInv ==
    /\ history.raced \subseteq history.touched
    /\ \A ev \in DOMAIN objects \ history.touched :
          /\ HeadOf(ev)
          /\ ev \in QuietEvidence => objects[ev].status = StatusOfChain(Timeline(custody, ev))
    /\ \A c, d \in Clerks :
          /\ clerks[c] # IdleClerk /\ clerks[d] # IdleClerk /\ clerks[c].ev = clerks[d].ev
          /\ clerks[c].ev \in QuietEvidence
          => c = d
    /\ \A c \in Clerks :
          /\ clerks[c].pc \in {"appending", "append"}
          /\ clerks[c].ev \in (QuietEvidence \cap DOMAIN objects) \ history.touched
          => clerks[c].status = objects[clerks[c].ev].status

VaultInv == StoreInv /\ KnownInv /\ ChainInv /\ RestoreInv /\ RowInv

----------------------------------------------------------------------------
(* Requests on the vault.                                                  *)

\* What must be true of a request for it to enter this state.
MayHold(c, q) ==
    /\ q \in ClerkStates
    /\ q # IdleClerk =>
          /\ q.ev \in issued'.ids
          /\ \A d \in Clerks \ {c} : clerks[d] # IdleClerk /\ clerks[d].ev = q.ev =>
                q.pc # "create" /\ clerks[d].pc # "create" /\ q.ev \notin QuietEvidence
    /\ q.pc = "create" => ~Shown(q.ev)
    /\ q.pc \in {"append", "export"} =>
          /\ q.next.seq \in 1..(issued.rows + 1)
          /\ q.ev \notin history.raced => Linked(q.next.seq, q.next.prev, Timeline(custody, q.ev))
    /\ q.pc \in {"appending", "append"} /\ q.ev \in (QuietEvidence \cap DOMAIN objects) \ history.touched
          => q.status = objects[q.ev].status

LEMMA ClerkWaits ==
    ASSUME VaultInv, UNCHANGED <<objects, custody, backupVars>>, NEW c \in Clerks, NEW q,
           clerks' = [clerks EXCEPT ![c] = q], MayHold(c, q),
           issued' \in [ids : SUBSET Evidence, rows : 0..MaxRows],
           issued'.rows = issued.rows, issued.ids \subseteq issued'.ids
    PROVE  VaultInv'
<1>1. UNCHANGED <<objects, custody, backups, restorers, history>>
  BY DEF backupVars
<1>2. /\ clerks' \in [Clerks -> ClerkStates]
      /\ \A d \in Clerks : clerks'[d] = IF d = c THEN q ELSE clerks[d]
  BY DEF VaultInv, StoreInv, MayHold
<1>3. StoreInv'
  BY <1>1, <1>2 DEF VaultInv, StoreInv, Inserted
<1>4. \A ev : Shown(ev)' <=> Shown(ev)
  BY <1>1 DEF Shown
<1>5. KnownInv'
  <2>1. \A ev : Shown(ev)' => ev \in issued'.ids
    BY <1>4 DEF VaultInv, KnownInv
  <2>2. ASSUME NEW d \in Clerks, clerks'[d] # IdleClerk PROVE clerks'[d].ev \in issued'.ids
    BY <1>2, <2>2 DEF VaultInv, KnownInv, MayHold
  <2>3. ASSUME NEW d \in Clerks, clerks'[d].pc = "create" PROVE ~Shown(clerks'[d].ev)
    BY <1>2, <2>3 DEF VaultInv, KnownInv, MayHold
  <2>4. ASSUME NEW d \in Clerks, clerks'[d].pc = "create", NEW f \in Clerks \ {d},
               clerks'[f] # IdleClerk
        PROVE  clerks'[f].ev # clerks'[d].ev
    <3>1. CASE d = c
      <4>1. q.pc = "create" /\ q # IdleClerk
        BY <1>2, <2>4, <3>1 DEF IdleClerk
      <4>. QED BY <1>2, <2>4, <3>1, <4>1 DEF MayHold
    <3>2. CASE d # c /\ f = c
      <4>1. clerks[d].pc = "create" /\ clerks[d] # IdleClerk /\ q # IdleClerk
        BY <1>2, <2>4, <3>2 DEF IdleClerk
      <4>. QED BY <1>2, <2>4, <3>2, <4>1 DEF MayHold
    <3>3. CASE d # c /\ f # c
      BY <1>2, <2>4, <3>3 DEF VaultInv, KnownInv
    <3>. QED BY <3>1, <3>2, <3>3
  <2>5. ASSUME NEW d \in Clerks, clerks'[d].pc = "create"
        PROVE  /\ ~Shown(clerks'[d].ev)
               /\ \A f \in Clerks \ {d} : clerks'[f] # IdleClerk => clerks'[f].ev # clerks'[d].ev
    BY <2>3, <2>4, <2>5
  <2>. QED BY <1>1, <2>1, <2>2, <2>5 DEF KnownInv, Shown
<1>6. ChainInv'
  <2>1. ASSUME NEW d \in Clerks, clerks'[d].pc \in {"append", "export"}
        PROVE  /\ clerks'[d].next.seq \in 1..(issued.rows + 1)
               /\ clerks'[d].ev \notin history.raced =>
                     Linked(clerks'[d].next.seq, clerks'[d].next.prev,
                            Timeline(custody, clerks'[d].ev))
    BY <1>2, <2>1 DEF VaultInv, ChainInv, MayHold
  <2>. QED BY <1>1, <2>1 DEF VaultInv, ChainInv
<1>7. RestoreInv'
  BY <1>1 DEF VaultInv, RestoreInv
<1>8. RowInv'
  <2>1. ASSUME NEW d \in Clerks, NEW f \in Clerks, clerks'[d] # IdleClerk, clerks'[f] # IdleClerk,
               clerks'[d].ev = clerks'[f].ev, clerks'[d].ev \in QuietEvidence
        PROVE  d = f
    BY <1>2, <2>1 DEF VaultInv, RowInv, MayHold
  <2>2. ASSUME NEW d \in Clerks, clerks'[d].pc \in {"appending", "append"},
               clerks'[d].ev \in (QuietEvidence \cap DOMAIN objects) \ history.touched
        PROVE  clerks'[d].status = objects[clerks'[d].ev].status
    BY <1>2, <2>2 DEF VaultInv, RowInv, MayHold
  <2>. QED BY <1>1, <2>1, <2>2 DEF VaultInv, RowInv, HeadOf
<1>. QED BY <1>3, <1>5, <1>6, <1>7, <1>8 DEF VaultInv

\* The kinds of requests.
LEMMA ClerkKinds ==
    ASSUME NEW q \in ClerkStates
    PROVE  /\ q.pc \in {"idle", "create", "appending", "append", "export"}
           /\ q.pc = "idle" <=> q = IdleClerk
           /\ q.pc = "create" => q \in [pc : {"create"}, ev : Evidence, key : CreateKeys]
           /\ q.pc \in {"appending", "append"} =>
                 q \in [pc : {"appending", "append"}, ev : Evidence, type : CustodyTypes,
                        status : VALID_STATUSES, next : [seq : Nat, prev : 0..MaxRows]]
           /\ q.pc = "export" =>
                 q \in [pc : {"export"}, ev : Evidence, type : {"EXPORT_COMPLETED"},
                        next : [seq : Nat, prev : 0..MaxRows]]
           /\ q # IdleClerk => q.ev \in Evidence
BY DEF ClerkStates, IdleClerk

\* The link a request reads from the table as it is now.
LEMMA NextLink ==
    ASSUME VaultInv, NEW ev \in Evidence, NEW next, next = NextEvent(custody, ev)
    PROVE  /\ next \in [seq : Nat, prev : 0..MaxRows]
           /\ next.seq \in 1..(issued.rows + 1)
           /\ Linked(next.seq, next.prev, Timeline(custody, ev))
<1>1. /\ custody \subseteq Event /\ issued.rows \in Nat /\ MaxRows \in Nat
      /\ \A e \in custody : e.seq <= e.row /\ e.row <= issued.rows
  BY VaultAssumption DEF VaultInv, StoreInv, Inserted
<1>2. CASE Timeline(custody, ev) = {}
  BY <1>1, <1>2 DEF NextEvent, FirstLink, Linked
<1>3. CASE Timeline(custody, ev) # {}
  <2>1. PICK last : last = LastEvent(custody, ev)
    OBVIOUS
  <2>2. last \in Timeline(custody, ev)
    BY <1>1, <1>3, <2>1, LastEventIs
  <2>3. last \in custody
    BY <2>2 DEF Timeline
  <2>4. /\ last.seq \in Nat /\ last.seq >= 1 /\ last.row \in 0..MaxRows
        /\ last.seq <= last.row /\ last.row <= issued.rows
    BY <1>1, <2>3 DEF Event, Row
  <2>5. next = [seq |-> last.seq + 1, prev |-> last.row]
    BY <1>3, <2>1 DEF NextEvent
  <2>6. next.seq \in 1..(issued.rows + 1)
    BY <1>1, <2>4, <2>5
  <2>7. next \in [seq : Nat, prev : 0..MaxRows]
    BY <2>4, <2>5
  <2>8. Linked(next.seq, next.prev, Timeline(custody, ev))
    BY <2>2, <2>4, <2>5 DEF Linked
  <2>. QED BY <2>6, <2>7, <2>8
<1>. QED BY <1>2, <1>3

LEMMA WaitingStep ==
    ASSUME VaultInv, UNCHANGED backupVars, NEW c \in Clerks,
           \/ \E ev \in Evidence : \/ \E k \in CreateKeys : StartCreate(c, ev, k)
                                   \/ \E t \in CustodyTypes : StartAppend(c, ev, t)
                                   \/ StartExport(c, ev)
           \/ ReadLast(c)
           \/ ClerkStops(c)
    PROVE  VaultInv'
<1>0. /\ issued \in [ids : SUBSET Evidence, rows : 0..MaxRows]
      /\ clerks \in [Clerks -> ClerkStates] /\ clerks[c] \in ClerkStates
      /\ \A ev : Shown(ev) => ev \in issued.ids
      /\ \A d \in Clerks : clerks[d].pc = "create" => ~Shown(clerks[d].ev)
      /\ \A d \in Clerks : clerks[d] # IdleClerk => clerks[d].ev \in issued.ids
      /\ \A ev \in DOMAIN objects : Shown(ev) /\ objects[ev].status \in VALID_STATUSES
  <2>1. \A ev \in DOMAIN objects : objects[ev] \in ObjectRow
    BY TableShape DEF VaultInv, StoreInv
  <2>. QED BY <2>1 DEF VaultInv, StoreInv, KnownInv, Shown, ObjectRow
<1>1. ASSUME NEW ev \in Evidence, NEW k \in CreateKeys, StartCreate(c, ev, k) PROVE VaultInv'
  <2>1. PICK q : q = [pc |-> "create", ev |-> ev, key |-> k]
    OBVIOUS
  <2>2. /\ UNCHANGED <<objects, custody>> /\ clerks' = [clerks EXCEPT ![c] = q]
        /\ issued' = [issued EXCEPT !.ids = @ \cup {ev}] /\ ev \notin issued.ids
    BY <1>1, <2>1 DEF StartCreate
  <2>3. /\ issued' \in [ids : SUBSET Evidence, rows : 0..MaxRows] /\ issued'.rows = issued.rows
        /\ issued'.ids = issued.ids \cup {ev}
    BY <1>0, <2>2
  <2>4. q \in ClerkStates /\ q.pc = "create" /\ q.ev = ev
    BY <2>1 DEF ClerkStates
  <2>5. ~Shown(ev) /\ \A d \in Clerks \ {c} : clerks[d] # IdleClerk => clerks[d].ev # ev
    BY <1>0, <2>2
  <2>6. MayHold(c, q)
    BY <2>3, <2>4, <2>5 DEF MayHold
  <2>. QED BY <2>2, <2>3, <2>6, ClerkWaits
<1>2. ASSUME NEW ev \in Evidence, MayServe(c, ev)
      PROVE  /\ ev \in issued.ids /\ ev \in DOMAIN objects
             /\ \A d \in Clerks \ {c} : clerks[d] # IdleClerk /\ clerks[d].ev = ev =>
                   clerks[d].pc # "create" /\ ev \notin QuietEvidence
  BY <1>0, <1>2 DEF MayServe, Busy
<1>3. ASSUME NEW ev \in Evidence, NEW t \in CustodyTypes, StartAppend(c, ev, t) PROVE VaultInv'
  <2>1. PICK q : q = [pc |-> "appending", ev |-> ev, type |-> t, status |-> objects[ev].status,
                      next |-> FirstLink]
    OBVIOUS
  <2>2. /\ UNCHANGED <<objects, custody, issued>> /\ clerks' = [clerks EXCEPT ![c] = q]
        /\ MayServe(c, ev)
    BY <1>3, <2>1 DEF StartAppend
  <2>3. q \in ClerkStates
    <3>1. FirstLink \in [seq : Nat, prev : 0..MaxRows]
      BY VaultAssumption DEF FirstLink
    <3>2. objects[ev].status \in VALID_STATUSES
      BY <1>0, <1>2, <2>2
    <3>. QED BY <2>1, <3>1, <3>2 DEF ClerkStates
  <2>4. q.pc = "appending" /\ q.ev = ev /\ q.status = objects[ev].status
    BY <2>1
  <2>5. MayHold(c, q)
    BY <1>2, <2>2, <2>3, <2>4 DEF MayHold
  <2>. QED BY <1>0, <2>2, <2>5, ClerkWaits
<1>4. ASSUME NEW ev \in Evidence, StartExport(c, ev) PROVE VaultInv'
  <2>1. PICK next : next = NextEvent(custody, ev)
    OBVIOUS
  <2>2. PICK q : q = [pc |-> "export", ev |-> ev, type |-> "EXPORT_COMPLETED", next |-> next]
    OBVIOUS
  <2>3. /\ UNCHANGED <<objects, custody, issued>> /\ clerks' = [clerks EXCEPT ![c] = q]
        /\ MayServe(c, ev)
    BY <1>4, <2>1, <2>2 DEF StartExport
  <2>4. /\ next \in [seq : Nat, prev : 0..MaxRows] /\ next.seq \in 1..(issued.rows + 1)
        /\ Linked(next.seq, next.prev, Timeline(custody, ev))
    BY <2>1, NextLink
  <2>5. q \in ClerkStates /\ q.pc = "export" /\ q.ev = ev /\ q.next = next
    BY <2>2, <2>4 DEF ClerkStates
  <2>6. MayHold(c, q)
    BY <1>2, <2>3, <2>4, <2>5 DEF MayHold
  <2>. QED BY <1>0, <2>3, <2>6, ClerkWaits
<1>5. CASE ReadLast(c)
  <2>1. PICK old, next : old = clerks[c] /\ next = NextEvent(custody, old.ev)
    OBVIOUS
  <2>2. PICK q : q = [old EXCEPT !.pc = "append", !.next = next]
    OBVIOUS
  <2>3. old.pc = "appending" /\ UNCHANGED <<objects, custody, issued>>
    BY <1>5, <2>1 DEF ReadLast
  <2>4. clerks' = [clerks EXCEPT ![c] = q]
    BY <1>0, <1>5, <2>1, <2>2 DEF ReadLast
  <2>5. old \in [pc : {"appending", "append"}, ev : Evidence, type : CustodyTypes,
                 status : VALID_STATUSES, next : [seq : Nat, prev : 0..MaxRows]]
    BY <1>0, <2>1, <2>3, ClerkKinds
  <2>6. /\ next \in [seq : Nat, prev : 0..MaxRows] /\ next.seq \in 1..(issued.rows + 1)
        /\ Linked(next.seq, next.prev, Timeline(custody, old.ev))
    BY <2>1, <2>5, NextLink
  <2>7. /\ q \in ClerkStates /\ q.pc = "append" /\ q.ev = old.ev /\ q.next = next
        /\ q.status = old.status
    BY <2>2, <2>5, <2>6 DEF ClerkStates
  <2>8. /\ \A d \in Clerks \ {c} : clerks[d] # IdleClerk /\ clerks[d].ev = q.ev =>
              clerks[d].pc # "create" /\ q.ev \notin QuietEvidence
        /\ q.ev \in issued.ids
        /\ q.ev \in (QuietEvidence \cap DOMAIN objects) \ history.touched
              => q.status = objects[q.ev].status
    <3>1. clerks[c] # IdleClerk
      BY <2>1, <2>3 DEF IdleClerk
    <3>2. q.ev = clerks[c].ev /\ q.status = clerks[c].status /\ clerks[c].pc = "appending"
      BY <2>1, <2>3, <2>7
    <3>3. \A d \in Clerks \ {c} : clerks[d] # IdleClerk /\ clerks[d].ev = q.ev =>
              clerks[d].pc # "create" /\ q.ev \notin QuietEvidence
      BY <3>1, <3>2 DEF VaultInv, KnownInv, RowInv
    <3>4. q.ev \in (QuietEvidence \cap DOMAIN objects) \ history.touched
              => q.status = objects[q.ev].status
      BY <3>2 DEF VaultInv, RowInv
    <3>. QED BY <1>0, <3>1, <3>2, <3>3, <3>4
  <2>9. MayHold(c, q)
    BY <2>3, <2>6, <2>7, <2>8 DEF MayHold
  <2>. QED BY <1>0, <2>3, <2>4, <2>9, ClerkWaits
<1>6. CASE ClerkStops(c)
  <2>1. IdleClerk \in ClerkStates /\ IdleClerk.pc = "idle"
    BY DEF ClerkStates, IdleClerk
  <2>2. MayHold(c, IdleClerk)
    BY <2>1 DEF MayHold
  <2>. QED BY <1>0, <1>6, <2>2, ClerkWaits DEF ClerkStops
<1>. QED BY <1>1, <1>3, <1>4, <1>5, <1>6

\* What the chain tells once an event is added at its end.
LEMMA StatusGrows ==
    ASSUME NEW T, T \subseteq Event, NEW e \in Event, \A f \in T : f.seq < e.seq
    PROVE  StatusOfChain(T \cup {e}) =
              IF e.type \in DOMAIN STATUS_EVENT_MAP THEN STATUS_EVENT_MAP[e.type]
              ELSE StatusOfChain(T)
<1> DEFINE told(U) == {f \in U : f.type \in DOMAIN STATUS_EVENT_MAP}
           of(U) == CHOOSE f \in told(U) : \A g \in told(U) : g.seq <= f.seq
<1>1. \A U : StatusOfChain(U) = IF told(U) = {} THEN "SEALED" ELSE STATUS_EVENT_MAP[of(U).type]
  BY DEF StatusOfChain
<1>2. CASE e.type \in DOMAIN STATUS_EVENT_MAP
  <2>1. told(T \cup {e}) = told(T) \cup {e}
    BY <1>2
  <2>2. \A f \in T : f.seq \in Nat /\ f.seq < e.seq
    BY DEF Event, Row
  <2>3. e.seq \in Nat
    BY DEF Event, Row
  <2>4. of(T \cup {e}) = e
    BY <2>1, <2>2, <2>3
  <2> HIDE DEF told, of
  <2>. QED BY <1>1, <1>2, <2>1, <2>4
<1>3. CASE e.type \notin DOMAIN STATUS_EVENT_MAP
  <2>1. told(T \cup {e}) = told(T)
    BY <1>3
  <2>2. of(T \cup {e}) = of(T)
    BY <2>1
  <2> HIDE DEF told, of
  <2>. QED BY <1>1, <1>3, <2>1, <2>2
<1>. QED BY <1>2, <1>3

\* A table whose row of one object alone has changed.
LEMMA EventInserted ==
    ASSUME VaultInv, UNCHANGED backupVars, NEW c \in Clerks, clerks[c].pc \in {"append", "export"},
           InsertEvent(c), objects' \in Tables, DOMAIN objects' = DOMAIN objects,
           \A ev \in DOMAIN objects : ev # clerks[c].ev => objects'[ev] = objects[ev],
           objects'[clerks[c].ev].head = issued.rows + 1,
           objects'[clerks[c].ev].status =
              IF clerks[c].pc = "append" THEN StatusAfter(clerks[c])
              ELSE objects[clerks[c].ev].status
    PROVE  VaultInv'
<1>1. PICK q, e : /\ q = clerks[c]
                  /\ e = [row |-> issued.rows + 1, ev |-> q.ev, seq |-> q.next.seq,
                          type |-> q.type, prev |-> q.next.prev]
  OBVIOUS
<1>2. /\ Insertable(q.ev, q.next.seq) /\ issued.rows + 1 \in Row
      /\ custody' = custody \cup {e} /\ issued' = [issued EXCEPT !.rows = @ + 1]
      /\ clerks' = [clerks EXCEPT ![c] = IdleClerk]
  BY <1>1 DEF InsertEvent
<1>3. /\ issued \in [ids : SUBSET Evidence, rows : 0..MaxRows] /\ MaxRows \in Nat
      /\ issued.rows \in Nat /\ custody \subseteq Inserted /\ custody \subseteq Event
      /\ clerks \in [Clerks -> ClerkStates]
  BY VaultAssumption DEF VaultInv, StoreInv, Inserted
<1>4. /\ issued' \in [ids : SUBSET Evidence, rows : 0..MaxRows]
      /\ issued'.rows = issued.rows + 1 /\ issued'.ids = issued.ids
  BY <1>2, <1>3 DEF Row
<1>5. /\ q.ev \in Evidence /\ q.next \in [seq : Nat, prev : 0..MaxRows]
      /\ q.type \in VALID_CUSTODY_EVENTS /\ q.next.seq \in 1..(issued.rows + 1)
      /\ q.pc \in {"append", "export"} /\ q # IdleClerk
      /\ q.pc = "export" => q.type = "EXPORT_COMPLETED"
  <2>1. q \in ClerkStates /\ q.pc \in {"append", "export"}
    BY <1>1, <1>3
  <2>2. CustodyTypes \subseteq VALID_CUSTODY_EVENTS
    BY VaultAssumption
  <2>3. q.next.seq \in 1..(issued.rows + 1)
    BY <1>1, <2>1 DEF VaultInv, ChainInv
  <2>4. q # IdleClerk
    BY <2>1 DEF IdleClerk
  <2>5. CASE q.pc = "append"
    BY <2>1, <2>2, <2>3, <2>4, <2>5, ClerkKinds
  <2>6. CASE q.pc = "export"
    BY <2>1, <2>3, <2>4, <2>6, ClerkKinds DEF VALID_CUSTODY_EVENTS
  <2>. QED BY <2>1, <2>5, <2>6
<1>6. /\ e \in Event /\ e.ev = q.ev /\ e.row = issued.rows + 1 /\ e.seq = q.next.seq
      /\ e.prev = q.next.prev /\ e.type = q.type /\ e.seq <= e.row
  <2>1. q.next.seq \in Row /\ q.next.seq <= issued.rows + 1
    BY <1>2, <1>3, <1>5 DEF Row
  <2>. QED BY <1>1, <1>2, <1>5, <2>1 DEF Event
<1>7. /\ UNCHANGED <<backups, restorers, history>> /\ q.ev \in DOMAIN objects
      /\ \A f \in Timeline(custody, q.ev) : f.seq # e.seq
  BY <1>2, <1>6 DEF backupVars, Insertable
<1>8. \A ev : Timeline(custody', ev) =
          IF ev = q.ev THEN Timeline(custody, ev) \cup {e} ELSE Timeline(custody, ev)
  BY <1>2, <1>6 DEF Timeline
<1>9. \A d \in Clerks : clerks'[d] = IF d = c THEN IdleClerk ELSE clerks[d]
  BY <1>2, <1>3
<1>10. StoreInv'
  <2>1. Inserted \subseteq Inserted'
    BY <1>3, <1>4 DEF Inserted, Event, Row
  <2>2. e \in Inserted'
    BY <1>3, <1>4, <1>6 DEF Inserted
  <2>3. custody' \subseteq Inserted' /\ \A f \in custody' : f.ev \in DOMAIN objects'
    BY <1>2, <1>3, <1>6, <1>7, <2>1, <2>2 DEF VaultInv, StoreInv
  <2>4. \A b \in DOMAIN backups' : backups'[b].custody \subseteq Inserted'
    BY <1>7, <2>1 DEF VaultInv, StoreInv
  <2>5. clerks' \in [Clerks -> ClerkStates]
    BY <1>2, <1>3 DEF ClerkStates
  <2>. QED BY <1>4, <1>7, <2>3, <2>4, <2>5 DEF VaultInv, StoreInv
<1>11. KnownInv'
  <2>1. \A ev : Shown(ev)' <=> Shown(ev)
    BY <1>7 DEF Shown
  <2>2. IdleClerk.pc = "idle"
    BY DEF IdleClerk
  <2>3. ASSUME NEW d \in Clerks, clerks'[d].pc = "create"
        PROVE  /\ ~Shown(clerks'[d].ev)
               /\ \A f \in Clerks \ {d} : clerks'[f] # IdleClerk => clerks'[f].ev # clerks'[d].ev
    BY <1>9, <2>2, <2>3 DEF VaultInv, KnownInv
  <2>4. \A d \in Clerks : clerks'[d] # IdleClerk => clerks'[d].ev \in issued'.ids
    BY <1>4, <1>9 DEF VaultInv, KnownInv
  <2>5. \A ev : Shown(ev)' => ev \in issued'.ids
    BY <1>4, <2>1 DEF VaultInv, KnownInv
  <2>. QED BY <1>7, <2>3, <2>4, <2>5 DEF KnownInv, Shown
<1>12. ChainInv'
  <2>1. ASSUME NEW ev \in Evidence \ history.raced PROVE ChainOK(Timeline(custody', ev))
    <3>1. ChainOK(Timeline(custody, ev))
      BY <2>1 DEF VaultInv, ChainInv
    <3>2. CASE ev = q.ev
      <4>1. Linked(e.seq, e.prev, Timeline(custody, ev))
        BY <1>1, <1>5, <1>6, <2>1, <3>2 DEF VaultInv, ChainInv
      <4>2. ChainOK(Timeline(custody, ev) \cup {e})
        BY <1>7, <3>1, <3>2, <4>1, ChainGrows
      <4>. QED BY <1>8, <3>2, <4>2
    <3>3. CASE ev # q.ev
      BY <1>8, <3>1, <3>3
    <3>. QED BY <3>2, <3>3
  <2>2. ASSUME NEW d \in Clerks, clerks'[d].pc \in {"append", "export"}
        PROVE  /\ clerks'[d].next.seq \in 1..(issued'.rows + 1)
               /\ clerks'[d].ev \notin history.raced =>
                     Linked(clerks'[d].next.seq, clerks'[d].next.prev,
                            Timeline(custody', clerks'[d].ev))
    <3>1. clerks'[d] = clerks[d]
      BY <1>9, <2>2 DEF IdleClerk
    <3>2. clerks[d].next.seq \in 1..(issued'.rows + 1)
      BY <1>3, <1>4, <2>2, <3>1 DEF VaultInv, ChainInv
    <3>3. Timeline(custody, clerks[d].ev) \subseteq Timeline(custody', clerks[d].ev)
      BY <1>8
    <3>. QED BY <2>2, <3>1, <3>2, <3>3, LinkedMore DEF VaultInv, ChainInv
  <2>. QED BY <1>7, <2>1, <2>2 DEF VaultInv, ChainInv
<1>13. RestoreInv'
  BY <1>7 DEF VaultInv, RestoreInv
<1>14. RowInv'
  <2>1. ASSUME NEW ev \in DOMAIN objects \ history.touched
        PROVE  /\ HeadOf(ev)'
               /\ ev \in QuietEvidence => objects'[ev].status = StatusOfChain(Timeline(custody', ev))
    <3>1. /\ HeadOf(ev)
          /\ ev \in QuietEvidence => objects[ev].status = StatusOfChain(Timeline(custody, ev))
      BY <2>1 DEF VaultInv, RowInv
    <3>2. CASE ev # q.ev
      <4>1. objects'[ev] = objects[ev] /\ Timeline(custody', ev) = Timeline(custody, ev)
        BY <1>1, <1>8, <2>1, <3>2
      <4>. QED BY <3>1, <4>1 DEF HeadOf
    <3>3. CASE ev = q.ev
      <4>1. PICK T : T = Timeline(custody, ev)
        OBVIOUS
      <4>2. T \subseteq Event /\ ChainOK(T) /\ \A f \in T : f.seq # e.seq
        BY <1>3, <1>5, <1>7, <2>1, <3>3, <4>1 DEF VaultInv, ChainInv, RowInv, Timeline
      <4>3. e.seq \in Nat \ {0}
        BY <1>3, <1>5, <1>6
      <4>4. \A f \in T : f.seq < e.seq
        BY <4>2, <4>3, ChainEnd
      <4>5. Timeline(custody', ev) = T \cup {e}
        BY <1>8, <3>3, <4>1
      <4>6. HeadOf(ev)'
        <5>1. e.row = objects'[ev].head /\ \A f \in T \cup {e} : f.seq <= e.seq
          <6>1. \A f \in T : f.seq \in Nat
            BY <4>2 DEF Event, Row
          <6>. QED BY <1>1, <1>6, <3>3, <4>3, <4>4, <6>1
        <5>. QED BY <4>5, <5>1 DEF HeadOf
      <4>7. ASSUME ev \in QuietEvidence
            PROVE  objects'[ev].status = StatusOfChain(T \cup {e})
        <5>1. StatusOfChain(T \cup {e}) =
                 IF e.type \in DOMAIN STATUS_EVENT_MAP THEN STATUS_EVENT_MAP[e.type]
                 ELSE objects[ev].status
          BY <1>6, <3>1, <4>1, <4>2, <4>4, <4>7, StatusGrows
        <5>2. CASE q.pc = "append"
          <6>1. q.status = objects[ev].status
            BY <1>1, <2>1, <3>3, <4>7, <5>2 DEF VaultInv, RowInv
          <6>. QED BY <1>1, <1>6, <3>3, <5>1, <5>2, <6>1 DEF StatusAfter
        <5>3. CASE q.pc = "export"
          <6>1. e.type \notin DOMAIN STATUS_EVENT_MAP
            BY <1>5, <1>6, <5>3 DEF STATUS_EVENT_MAP
          <6>. QED BY <1>1, <3>3, <5>1, <5>3, <6>1
        <5>. QED BY <1>5, <5>2, <5>3
      <4>. QED BY <4>5, <4>6, <4>7
    <3>. QED BY <3>2, <3>3
  <2>2. ASSUME NEW d \in Clerks, NEW f \in Clerks, clerks'[d] # IdleClerk, clerks'[f] # IdleClerk,
               clerks'[d].ev = clerks'[f].ev, clerks'[d].ev \in QuietEvidence
        PROVE  d = f
    BY <1>9, <2>2 DEF VaultInv, RowInv
  <2>3. ASSUME NEW d \in Clerks, clerks'[d].pc \in {"appending", "append"},
               clerks'[d].ev \in (QuietEvidence \cap DOMAIN objects) \ history.touched
        PROVE  clerks'[d].status = objects'[clerks'[d].ev].status
    <3>1. d # c /\ clerks'[d] = clerks[d] /\ clerks[d] # IdleClerk
      BY <1>9, <2>3 DEF IdleClerk
    <3>2. clerks[d].ev # q.ev
      BY <1>1, <1>5, <2>3, <3>1 DEF VaultInv, RowInv
    <3>. QED BY <1>1, <2>3, <3>1, <3>2 DEF VaultInv, RowInv
  <2>. QED BY <1>7, <2>1, <2>2, <2>3 DEF VaultInv, RowInv
<1>. QED BY <1>10, <1>11, <1>12, <1>13, <1>14 DEF VaultInv

LEMMA InsertingStep ==
    ASSUME VaultInv, UNCHANGED backupVars, NEW c \in Clerks, AppendEvent(c) \/ ExportEvent(c)
    PROVE  VaultInv'
<1>1. PICK ev, row : ev = clerks[c].ev /\ row = issued.rows + 1
  OBVIOUS
<1>2. /\ InsertEvent(c) /\ clerks[c].pc \in {"append", "export"}
      /\ row \in Row /\ ev \in DOMAIN objects
  BY <1>1 DEF AppendEvent, ExportEvent, InsertEvent, Insertable
<1>3. /\ DOMAIN objects \subseteq Evidence /\ objects \in [DOMAIN objects -> ObjectRow]
      /\ clerks[c] \in ClerkStates
  BY TableShape DEF VaultInv, StoreInv
<1>4. PICK old, new : old = objects[ev] /\ new = objects'[ev]
  OBVIOUS
<1>5. /\ objects' = [objects EXCEPT ![ev] = new] /\ new \in ObjectRow /\ new.head = row
      /\ new.status = IF clerks[c].pc = "append" THEN StatusAfter(clerks[c]) ELSE old.status
  <2>1. CASE AppendEvent(c)
    <3>1. PICK s : s = StatusAfter(clerks[c])
      OBVIOUS
    <3>2. s \in VALID_STATUSES
      <4>1. clerks[c].status \in VALID_STATUSES
        BY <1>3, <2>1, ClerkKinds DEF AppendEvent
      <4>. QED BY <3>1, <4>1 DEF StatusAfter, STATUS_EVENT_MAP, VALID_STATUSES
    <3>3. objects' = [objects EXCEPT ![ev].status = s, ![ev].head = row]
      BY <1>1, <2>1, <3>1 DEF AppendEvent
    <3>4. objects' = [objects EXCEPT ![ev] = [old EXCEPT !.status = s, !.head = row]]
      BY <1>2, <1>4, <3>3
    <3>5. new = [old EXCEPT !.status = s, !.head = row]
      BY <1>2, <1>4, <3>4
    <3>6. old \in ObjectRow /\ clerks[c].pc = "append"
      BY <1>2, <1>3, <1>4, <2>1 DEF AppendEvent
    <3>. QED BY <1>2, <3>1, <3>2, <3>4, <3>5, <3>6 DEF ObjectRow
  <2>2. CASE ExportEvent(c)
    <3>1. objects' = [objects EXCEPT ![ev] = [old EXCEPT !.head = row]]
      BY <1>1, <1>2, <1>4, <2>2 DEF ExportEvent
    <3>2. new = [old EXCEPT !.head = row]
      BY <1>2, <1>4, <3>1
    <3>3. old \in ObjectRow /\ clerks[c].pc = "export"
      BY <1>2, <1>3, <1>4, <2>2 DEF ExportEvent
    <3>. QED BY <1>2, <3>1, <3>2, <3>3 DEF ObjectRow
  <2>. QED BY <2>1, <2>2
<1>6. objects' \in Tables /\ DOMAIN objects' = DOMAIN objects
  <2>1. objects' \in [DOMAIN objects -> ObjectRow]
    BY <1>2, <1>3, <1>5
  <2>. QED BY <1>3, <2>1, TableShape
<1>7. \A x \in DOMAIN objects : x # ev => objects'[x] = objects[x]
  BY <1>5
<1>. QED BY <1>1, <1>2, <1>4, <1>5, <1>6, <1>7, EventInserted

LEMMA CreateStep ==
    ASSUME VaultInv, UNCHANGED backupVars, NEW c \in Clerks, Create(c)
    PROVE  VaultInv'
<1>1. PICK q, e : /\ q = clerks[c]
                  /\ e = [row |-> issued.rows + 1, ev |-> q.ev, seq |-> 1, type |-> "CREATED",
                          prev |-> 0]
  OBVIOUS
<1>2. /\ q.pc = "create" /\ issued.rows + 1 \in Row
      /\ objects' = [ev \in DOMAIN objects \cup {q.ev} |->
            IF ev = q.ev THEN [status |-> "SEALED", head |-> issued.rows + 1, key |-> q.key]
            ELSE objects[ev]]
      /\ custody' = custody \cup {e}
      /\ issued' = [issued EXCEPT !.rows = issued.rows + 1]
      /\ clerks' = [clerks EXCEPT ![c] = IdleClerk]
      /\ UNCHANGED <<backups, restorers, history>>
  BY <1>1 DEF Create, backupVars
<1>3. /\ issued \in [ids : SUBSET Evidence, rows : 0..MaxRows] /\ MaxRows \in Nat
      /\ issued.rows \in Nat /\ custody \subseteq Inserted /\ custody \subseteq Event
      /\ clerks \in [Clerks -> ClerkStates]
      /\ \A f \in custody : f.ev \in DOMAIN objects
  BY VaultAssumption DEF VaultInv, StoreInv, Inserted
<1>4. /\ issued' \in [ids : SUBSET Evidence, rows : 0..MaxRows]
      /\ issued'.rows = issued.rows + 1 /\ issued'.ids = issued.ids
  BY <1>2, <1>3 DEF Row
<1>5. q.ev \in Evidence /\ q.key \in CreateKeys /\ q # IdleClerk
  BY <1>1, <1>2, <1>3, ClerkKinds DEF IdleClerk
<1>6. /\ ~Shown(q.ev) /\ q.ev \in issued.ids /\ q.ev \notin DOMAIN objects
      /\ \A d \in Clerks \ {c} : clerks[d] # IdleClerk => clerks[d].ev # q.ev
  BY <1>1, <1>2, <1>5 DEF VaultInv, KnownInv, Shown
<1>7. /\ e \in Event /\ e.ev = q.ev /\ e.row = issued.rows + 1 /\ e.seq = 1 /\ e.prev = 0
      /\ e.type = "CREATED" /\ e.seq <= e.row
  <2>1. 1 \in Row /\ 0 \in 0..MaxRows
    BY <1>2, <1>3 DEF Row
  <2>. QED BY <1>1, <1>2, <1>3, <1>5, <2>1 DEF Event, VALID_CUSTODY_EVENTS
<1>8. /\ Timeline(custody, q.ev) = {} /\ Timeline(custody', q.ev) = {e}
      /\ \A ev : ev # q.ev => Timeline(custody', ev) = Timeline(custody, ev)
  BY <1>2, <1>3, <1>6, <1>7 DEF Timeline
<1>9. /\ DOMAIN objects' = DOMAIN objects \cup {q.ev}
      /\ objects'[q.ev] = [status |-> "SEALED", head |-> issued.rows + 1, key |-> q.key]
      /\ \A ev \in DOMAIN objects : ev # q.ev /\ objects'[ev] = objects[ev]
  BY <1>2, <1>6
<1>10. \A d \in Clerks : clerks'[d] = IF d = c THEN IdleClerk ELSE clerks[d]
  BY <1>2, <1>3
<1>11. StoreInv'
  <2>1. Inserted \subseteq Inserted'
    BY <1>3, <1>4 DEF Inserted, Event, Row
  <2>2. e \in Inserted'
    BY <1>3, <1>4, <1>7 DEF Inserted
  <2>3. custody' \subseteq Inserted' /\ \A f \in custody' : f.ev \in DOMAIN objects'
    BY <1>2, <1>3, <1>7, <1>9, <2>1, <2>2
  <2>4. \A b \in DOMAIN backups' : backups'[b].custody \subseteq Inserted'
    BY <1>2, <2>1 DEF VaultInv, StoreInv
  <2>5. clerks' \in [Clerks -> ClerkStates]
    BY <1>2, <1>3 DEF ClerkStates
  <2>6. objects' \in Tables
    <3>1. DOMAIN objects \subseteq Evidence /\ \A ev \in DOMAIN objects : objects[ev] \in ObjectRow
      BY TableShape DEF VaultInv, StoreInv
    <3>2. PICK new : new = [status |-> "SEALED", head |-> issued.rows + 1, key |-> q.key]
      OBVIOUS
    <3>3. new \in ObjectRow
      BY <1>2, <1>5, <3>2 DEF ObjectRow, VALID_STATUSES
    <3>4. objects' \in [DOMAIN objects \cup {q.ev} -> ObjectRow]
      BY <1>2, <3>1, <3>2, <3>3
    <3>. QED BY <1>5, <1>9, <3>1, <3>4, TableShape
  <2>. QED BY <1>2, <1>4, <2>3, <2>4, <2>5, <2>6 DEF VaultInv, StoreInv
<1>12. KnownInv'
  <2>1. \A ev : Shown(ev)' <=> Shown(ev) \/ ev = q.ev
    BY <1>2, <1>9 DEF Shown
  <2>2. IdleClerk.pc = "idle"
    BY DEF IdleClerk
  <2>3. ASSUME NEW d \in Clerks, clerks'[d].pc = "create"
        PROVE  /\ ~(Shown(clerks'[d].ev) \/ clerks'[d].ev = q.ev)
               /\ \A f \in Clerks \ {d} : clerks'[f] # IdleClerk => clerks'[f].ev # clerks'[d].ev
    <3>1. d # c /\ clerks'[d] = clerks[d] /\ clerks[d] # IdleClerk
      BY <1>10, <2>2, <2>3
    <3>. QED BY <1>6, <1>10, <2>3, <3>1 DEF VaultInv, KnownInv
  <2>4. \A d \in Clerks : clerks'[d] # IdleClerk => clerks'[d].ev \in issued'.ids
    BY <1>4, <1>10 DEF VaultInv, KnownInv
  <2>5. \A ev : Shown(ev)' => ev \in issued'.ids
    BY <1>4, <1>6, <2>1 DEF VaultInv, KnownInv
  <2>. QED BY <1>2, <1>9, <2>3, <2>4, <2>5 DEF KnownInv, Shown
<1>13. ChainInv'
  <2>1. ASSUME NEW ev \in Evidence \ history.raced PROVE ChainOK(Timeline(custody', ev))
    <3>1. ChainOK(Timeline(custody, ev))
      BY <2>1 DEF VaultInv, ChainInv
    <3>2. ChainOK({e})
      BY <1>7 DEF ChainOK, Linked
    <3>. QED BY <1>8, <3>1, <3>2
  <2>2. ASSUME NEW d \in Clerks, clerks'[d].pc \in {"append", "export"}
        PROVE  /\ clerks'[d].next.seq \in 1..(issued'.rows + 1)
               /\ clerks'[d].ev \notin history.raced =>
                     Linked(clerks'[d].next.seq, clerks'[d].next.prev,
                            Timeline(custody', clerks'[d].ev))
    <3>1. d # c /\ clerks'[d] = clerks[d] /\ clerks[d] # IdleClerk
      BY <1>10, <2>2 DEF IdleClerk
    <3>2. clerks[d].next.seq \in 1..(issued'.rows + 1)
      BY <1>3, <1>4, <2>2, <3>1 DEF VaultInv, ChainInv
    <3>3. Timeline(custody', clerks[d].ev) = Timeline(custody, clerks[d].ev)
      BY <1>6, <1>8, <3>1
    <3>. QED BY <2>2, <3>1, <3>2, <3>3 DEF VaultInv, ChainInv
  <2>. QED BY <1>2, <2>1, <2>2 DEF VaultInv, ChainInv
<1>14. RestoreInv'
  BY <1>2, <1>9 DEF VaultInv, RestoreInv
<1>15. RowInv'
  <2>1. ASSUME NEW ev \in DOMAIN objects' \ history.touched
        PROVE  /\ HeadOf(ev)'
               /\ ev \in QuietEvidence => objects'[ev].status = StatusOfChain(Timeline(custody', ev))
    <3>1. CASE ev # q.ev
      <4>1. /\ ev \in DOMAIN objects /\ objects'[ev] = objects[ev]
            /\ Timeline(custody', ev) = Timeline(custody, ev)
        BY <1>8, <1>9, <2>1, <3>1
      <4>. QED BY <2>1, <4>1 DEF VaultInv, RowInv, HeadOf
    <3>2. CASE ev = q.ev
      <4>1. HeadOf(ev)'
        BY <1>7, <1>8, <1>9, <3>2 DEF HeadOf
      <4>2. StatusOfChain({e}) = "SEALED"
        BY <1>7 DEF StatusOfChain, STATUS_EVENT_MAP
      <4>. QED BY <1>8, <1>9, <3>2, <4>1, <4>2
    <3>. QED BY <3>1, <3>2
  <2>2. ASSUME NEW d \in Clerks, NEW f \in Clerks, clerks'[d] # IdleClerk, clerks'[f] # IdleClerk,
               clerks'[d].ev = clerks'[f].ev, clerks'[d].ev \in QuietEvidence
        PROVE  d = f
    BY <1>10, <2>2 DEF VaultInv, RowInv
  <2>3. ASSUME NEW d \in Clerks, clerks'[d].pc \in {"appending", "append"},
               clerks'[d].ev \in (QuietEvidence \cap DOMAIN objects') \ history.touched
        PROVE  clerks'[d].status = objects'[clerks'[d].ev].status
    <3>1. d # c /\ clerks'[d] = clerks[d] /\ clerks[d] # IdleClerk
      BY <1>10, <2>3 DEF IdleClerk
    <3>2. clerks[d].ev # q.ev
      BY <1>6, <3>1
    <3>. QED BY <1>9, <2>3, <3>1, <3>2 DEF VaultInv, RowInv
  <2>. QED BY <1>2, <2>1, <2>2, <2>3 DEF VaultInv, RowInv
<1>. QED BY <1>11, <1>12, <1>13, <1>14, <1>15 DEF VaultInv

----------------------------------------------------------------------------
(* Backups and restores.                                                   *)

\* A request of an administrator that writes no table.
LEMMA RestorerWaits ==
    ASSUME VaultInv, UNCHANGED <<tableVars, history>>, NEW r \in Restorers,
           restorers' = [restorers EXCEPT ![r] = restorers'[r]],
           \/ UNCHANGED backups
           \/ \E new \in Bundles :
                 /\ backups' = Append(backups, new) /\ new.custody = custody
                 /\ \A ev \in DOMAIN new.objects : Shown(ev),
           restorers'[r].pc = "backup" => restorers'[r].objects = objects,
           restorers'[r].pc = "apply" =>
              /\ restorers'[r].backup \in DOMAIN backups
              /\ restorers'[r].tables \in TableOrders
              /\ restorers'[r].deletes \in BOOLEAN
              /\ restorers'[r].tables[1] = "custody" => restorers'[r].seen = custody
    PROVE  VaultInv'
<1>1. UNCHANGED <<objects, custody, issued, clerks, history>>
  BY DEF tableVars
<1>2. /\ DOMAIN restorers' = Restorers
      /\ \A s \in Restorers : s # r => restorers'[s] = restorers[s]
  BY DEF VaultInv, StoreInv
<1>3. /\ backups' \in Seq(Bundles) /\ DOMAIN backups \subseteq DOMAIN backups'
      /\ \A b \in DOMAIN backups' :
            \/ b \in DOMAIN backups /\ backups'[b] = backups[b]
            \/ backups'[b].custody = custody /\ \A ev \in DOMAIN backups'[b].objects : Shown(ev)
  <2>0. backups \in Seq(Bundles)
    BY DEF VaultInv, StoreInv
  <2>1. CASE UNCHANGED backups
    BY <2>0, <2>1
  <2>2. ASSUME NEW new \in Bundles, backups' = Append(backups, new), new.custody = custody,
               \A ev \in DOMAIN new.objects : Shown(ev)
        PROVE  /\ backups' \in Seq(Bundles) /\ DOMAIN backups \subseteq DOMAIN backups'
               /\ \A b \in DOMAIN backups' :
                     \/ b \in DOMAIN backups /\ backups'[b] = backups[b]
                     \/ backups'[b].custody = custody /\ \A ev \in DOMAIN backups'[b].objects : Shown(ev)
    <3>1. /\ backups' \in Seq(Bundles) /\ Len(backups) \in Nat
          /\ DOMAIN backups = 1..Len(backups) /\ DOMAIN backups' = 1..(Len(backups) + 1)
          /\ \A b \in 1..Len(backups) : backups'[b] = backups[b]
          /\ backups'[Len(backups) + 1] = new
      BY <2>0, <2>2
    <3>2. ASSUME NEW b \in DOMAIN backups'
          PROVE  \/ b \in DOMAIN backups /\ backups'[b] = backups[b]
                 \/ backups'[b].custody = custody /\ \A ev \in DOMAIN backups'[b].objects : Shown(ev)
      <4>1. b \in 1..Len(backups) \/ b = Len(backups) + 1
        BY <3>1
      <4>. QED BY <2>2, <3>1, <4>1
    <3>3. DOMAIN backups \subseteq DOMAIN backups'
      BY <3>1
    <3>. QED BY <3>1, <3>2, <3>3
  <2>. QED BY <2>1, <2>2
<1>4. \A ev : Shown(ev)' => Shown(ev)
  BY <1>1, <1>2, <1>3 DEF Shown
<1>5. StoreInv'
  <2>1. \A b \in DOMAIN backups' : backups'[b].custody \subseteq Inserted
    BY <1>3 DEF VaultInv, StoreInv
  <2>2. \A s \in Restorers : restorers'[s].pc = "backup" => restorers'[s].objects \in Tables
    BY <1>2 DEF VaultInv, StoreInv
  <2>. QED BY <1>1, <1>2, <1>3, <2>1, <2>2 DEF VaultInv, StoreInv, Inserted
<1>6. KnownInv'
  <2>1. \A ev : Shown(ev)' => ev \in issued.ids
    BY <1>4 DEF VaultInv, KnownInv
  <2>2. ASSUME NEW d \in Clerks, clerks'[d].pc = "create"
        PROVE  /\ ~Shown(clerks[d].ev)'
               /\ \A f \in Clerks \ {d} : clerks'[f] # IdleClerk => clerks'[f].ev # clerks'[d].ev
    <3>1. PICK ev : ev = clerks[d].ev /\ ev = clerks'[d].ev
      BY <1>1
    <3>2. ~Shown(ev)'
      BY <1>1, <1>4, <2>2, <3>1 DEF VaultInv, KnownInv
    <3>3. ~Shown(clerks[d].ev)'
      BY <3>1, <3>2 DEF Shown
    <3>. QED BY <1>1, <2>2, <3>3 DEF VaultInv, KnownInv
  <2>3. \A d \in Clerks : clerks'[d] # IdleClerk => clerks'[d].ev \in issued'.ids
    BY <1>1 DEF VaultInv, KnownInv
  <2>. QED BY <1>1, <2>1, <2>2, <2>3 DEF KnownInv
<1>7. ChainInv'
  BY <1>1, <1>3 DEF VaultInv, ChainInv
<1>8. RestoreInv'
  <2>1. \A e \in custody : e.ev \in DOMAIN objects
    BY DEF VaultInv, StoreInv
  <2>2. ASSUME NEW s \in Restorers, restorers'[s].pc = "apply"
        PROVE  /\ restorers'[s].backup \in DOMAIN backups
               /\ restorers'[s].tables \in TableOrders
               /\ restorers'[s].deletes \in BOOLEAN
               /\ restorers'[s].tables[1] = "custody" =>
                     \A e \in restorers'[s].seen : e.ev \in DOMAIN objects \cup history.touched
    <3>1. CASE s = r
      BY <2>1, <2>2, <3>1
    <3>2. CASE s # r
      BY <1>2, <2>2, <3>2 DEF VaultInv, RestoreInv
    <3>. QED BY <3>1, <3>2
  <2>. QED BY <1>1, <1>3, <2>2 DEF RestoreInv
<1>9. RowInv'
  BY <1>1 DEF VaultInv, RowInv, HeadOf
<1>. QED BY <1>5, <1>6, <1>7, <1>8, <1>9 DEF VaultInv

LEMMA BackupRequestStep ==
    ASSUME VaultInv, UNCHANGED tableVars, NEW r \in Restorers,
           \/ StartBackup(r)
           \/ FinishBackup(r)
           \/ \E b \in DOMAIN backups, k \in RestoreKeys, t \in TableOrders, d \in BOOLEAN :
                 StartRestore(r, b, k, t, d)
           \/ RestorerStops(r)
    PROVE  VaultInv'
<1>0. r \in DOMAIN restorers /\ UNCHANGED history /\ IdleRestorer.pc = "idle"
  BY DEF VaultInv, StoreInv, StartBackup, FinishBackup, StartRestore, RestorerStops, IdleRestorer
<1>1. CASE StartBackup(r)
  <2>1. PICK q : q = [pc |-> "backup", objects |-> objects]
    OBVIOUS
  <2>2. restorers' = [restorers EXCEPT ![r] = q] /\ UNCHANGED backups
    BY <1>1, <2>1 DEF StartBackup
  <2>3. restorers'[r] = q /\ q.pc = "backup" /\ q.objects = objects
    BY <1>0, <2>1, <2>2
  <2>. QED BY <1>0, <2>2, <2>3, RestorerWaits
<1>2. CASE FinishBackup(r)
  <2>1. PICK new : new = [objects |-> restorers[r].objects, custody |-> custody]
    OBVIOUS
  <2>2. /\ restorers' = [restorers EXCEPT ![r] = IdleRestorer] /\ backups' = Append(backups, new)
        /\ restorers[r].pc = "backup"
    BY <1>2, <2>1 DEF FinishBackup
  <2>3. new \in Bundles /\ new.custody = custody
    BY <2>1, <2>2 DEF VaultInv, StoreInv, Bundles, Inserted
  <2>4. \A ev \in DOMAIN new.objects : Shown(ev)
    BY <2>1, <2>2 DEF Shown
  <2>5. restorers'[r] = IdleRestorer
    BY <1>0, <2>2
  <2>. QED BY <1>0, <2>2, <2>3, <2>4, <2>5, RestorerWaits
<1>3. ASSUME NEW b \in DOMAIN backups, NEW k \in RestoreKeys, NEW t \in TableOrders,
             NEW d \in BOOLEAN, StartRestore(r, b, k, t, d)
      PROVE  VaultInv'
  <2>1. PICK seen : seen = RowsOf(Stored, t[1])
    OBVIOUS
  <2>2. PICK q : q = [pc |-> "apply", backup |-> b, key |-> k, tables |-> t, deletes |-> d,
                      seen |-> seen]
    OBVIOUS
  <2>3. restorers' = [restorers EXCEPT ![r] = q] /\ UNCHANGED backups
    BY <1>3, <2>1, <2>2 DEF StartRestore
  <2>4. restorers'[r] = q
    BY <1>0, <2>3
  <2>5. t[1] = "custody" => seen = custody
    BY <2>1 DEF RowsOf, Stored
  <2>6. /\ q.pc = "apply" /\ q.backup \in DOMAIN backups /\ q.tables \in TableOrders
        /\ q.deletes \in BOOLEAN
        /\ q.tables[1] = "custody" => q.seen = custody
    BY <2>2, <2>5
  <2>. QED BY <1>0, <2>3, <2>4, <2>6, RestorerWaits
<1>4. CASE RestorerStops(r)
  <2>1. restorers' = [restorers EXCEPT ![r] = IdleRestorer] /\ UNCHANGED backups
    BY <1>4 DEF RestorerStops
  <2>2. restorers'[r] = IdleRestorer
    BY <1>0, <2>1
  <2>. QED BY <1>0, <2>1, <2>2, RestorerWaits
<1>. QED BY <1>1, <1>2, <1>3, <1>4

\* The tables a restore may be asked for, and what it does to each.
LEMMA OrdersAre ==
    ASSUME NEW t \in TableOrders
    PROVE  \/ t[1] = "objects" /\ Len(t) = 1 /\ ToSet(t) = {"objects"}
           \/ t[1] = "custody" /\ Len(t) = 1 /\ ToSet(t) = {"custody"}
           \/ t[1] = "objects" /\ Len(t) = 2 /\ t[2] = "custody" /\ ToSet(t) = {"objects", "custody"}
           \/ t[1] = "custody" /\ Len(t) = 2 /\ t[2] = "objects" /\ ToSet(t) = {"objects", "custody"}
<1>1. t \in {<<"custody", "objects">>, <<"objects", "custody">>, <<"custody">>, <<"objects">>}
  BY BackupAssumption
<1>2. CASE t = <<"custody", "objects">>
  <2>1. t[1] = "custody" /\ Len(t) = 2 /\ t[2] = "objects" /\ DOMAIN t = {1, 2}
    BY <1>2
  <2>. QED BY <2>1 DEF ToSet
<1>3. CASE t = <<"objects", "custody">>
  <2>1. t[1] = "objects" /\ Len(t) = 2 /\ t[2] = "custody" /\ DOMAIN t = {1, 2}
    BY <1>3
  <2>. QED BY <2>1 DEF ToSet
<1>4. CASE t = <<"custody">>
  <2>1. t[1] = "custody" /\ Len(t) = 1 /\ DOMAIN t = {1}
    BY <1>4
  <2>. QED BY <2>1 DEF ToSet
<1>5. CASE t = <<"objects">>
  <2>1. t[1] = "objects" /\ Len(t) = 1 /\ DOMAIN t = {1}
    BY <1>5
  <2>. QED BY <2>1 DEF ToSet
<1>. QED BY <1>1, <1>2, <1>3, <1>4, <1>5

\* The tables a restore leaves: rows of the vault and of the backup, with their
\* foreign key, and a whole chain wherever no restore raced.
LEMMA RestoredShape ==
    ASSUME VaultInv, NEW r \in Restorers, NEW q, q = restorers[r], q.pc = "apply",
           NEW db, db = Restored(q), db.ok, NEW saved, saved = backups[q.backup]
    PROVE  /\ db.objects \in Tables
           /\ DOMAIN db.objects \subseteq DOMAIN objects \cup DOMAIN saved.objects
           /\ db.custody \subseteq custody \cup saved.custody
           /\ \A e \in db.custody : e.ev \in DOMAIN db.objects
           /\ \A ev \in Evidence \ (history.raced \cup Raced(q, db.custody)) :
                 ChainOK(Timeline(db.custody, ev))
<1>0. /\ objects \in Tables /\ \A e \in custody : e.ev \in DOMAIN objects
      /\ q.tables \in TableOrders /\ q.deletes \in BOOLEAN
      /\ saved.objects \in Tables
      /\ \A ev \in Evidence \ history.raced :
            ChainOK(Timeline(custody, ev)) /\ ChainOK(Timeline(saved.custody, ev))
  <2>1. q.backup \in DOMAIN backups /\ q.tables \in TableOrders /\ q.deletes \in BOOLEAN
    BY DEF VaultInv, RestoreInv
  <2>2. saved \in Bundles
    BY <2>1 DEF VaultInv, StoreInv
  <2>. QED BY <2>1, <2>2 DEF VaultInv, StoreInv, ChainInv, Bundles
<1>1. PICK old : old = [ok |-> TRUE, objects |-> objects, custody |-> custody]
  OBVIOUS
<1>2. PICK one : one = RestoreTable(old, q.tables[1], RowsOf(saved, q.tables[1]), q.seen, q.deletes)
  OBVIOUS
<1>3. /\ one = FirstRestored(q) /\ old.objects = objects /\ old.custody = custody
      /\ db = IF Len(q.tables) = 1 THEN one
              ELSE RestoreTable(one, q.tables[2], RowsOf(saved, q.tables[2]),
                                RowsOf(one, q.tables[2]), q.deletes)
  BY <1>1, <1>2 DEF FirstRestored, Restored
<1>4. CASE q.tables[1] = "objects"
  <2>1. one = RestoreObjects(old, saved.objects, q.seen, q.deletes)
    BY <1>2, <1>4 DEF RestoreTable, RowsOf
  <2>2. /\ one.objects \in Tables
        /\ DOMAIN one.objects \subseteq DOMAIN objects \cup DOMAIN saved.objects
        /\ one.custody \subseteq custody
        /\ \A e \in one.custody : e.ev \in DOMAIN one.objects
    <3>1. /\ saved.objects \in Tables /\ old.objects \in Tables
          /\ \A e \in old.custody : e.ev \in DOMAIN old.objects
      BY <1>0, <1>3
    <3>2. one.objects \in Tables
      BY <2>1, <3>1, RowsTyped
    <3>3. \A e \in one.custody : e.ev \in DOMAIN one.objects
      BY <2>1, <3>1, KeysHold
    <3>4. /\ DOMAIN one.objects \subseteq DOMAIN old.objects \cup DOMAIN saved.objects
          /\ one.custody \subseteq old.custody
      BY <2>1, RowsLeft, CustodyShrinks
    <3>. QED BY <1>3, <3>2, <3>3, <3>4
  <2>3. ASSUME NEW ev \in Evidence \ history.raced PROVE ChainOK(Timeline(one.custody, ev))
    <3>1. ChainOK(Timeline(old.custody, ev))
      BY <1>0, <1>3, <2>3
    <3>. QED BY <2>1, <3>1, ChainLeft
  <2>4. CASE Len(q.tables) = 1
    BY <1>3, <2>2, <2>3, <2>4
  <2>5. CASE q.tables[2] = "custody" /\ Len(q.tables) = 2
    <3>1. db = RestoreCustody(one, saved.custody, one.custody, q.deletes)
      BY <1>3, <2>5 DEF RestoreTable, RowsOf
    <3>2. /\ db.objects = one.objects
          /\ db.custody \subseteq custody \cup saved.custody
          /\ \A e \in db.custody : e.ev \in DOMAIN db.objects
      BY <1>0, <2>2, <3>1, CustodyRestored
    <3>3. ASSUME NEW ev \in Evidence \ history.raced PROVE ChainOK(Timeline(db.custody, ev))
      BY <1>0, <2>2, <2>3, <3>1, <3>3, ChainRestored
    <3>. QED BY <2>2, <3>2, <3>3
  <2>. QED BY <1>0, <1>4, <2>4, <2>5, OrdersAre
<1>5. CASE q.tables[1] = "custody"
  <2>1. one = RestoreCustody(old, saved.custody, q.seen, q.deletes)
    BY <1>2, <1>5 DEF RestoreTable, RowsOf
  <2>2. ASSUME one.ok
        PROVE  /\ one.objects = objects
               /\ one.custody \subseteq custody \cup saved.custody
               /\ \A e \in one.custody : e.ev \in DOMAIN objects
    BY <1>0, <1>3, <2>1, <2>2, CustodyRestored
  <2>3. ASSUME one.ok, NEW ev \in Evidence \ (history.raced \cup Raced(q, db.custody)),
               Timeline(db.custody, ev) = Timeline(one.custody, ev)
        PROVE  ChainOK(Timeline(one.custody, ev))
    <3>1. /\ ev \notin Cut(q.seen, custody)
          /\ \/ Timeline(custody, ev) = Timeline(q.seen, ev)
             \/ ev \notin Cut(custody, db.custody)
      BY <1>5, <2>3 DEF Raced
    <3>2. Timeline(q.seen, ev) \subseteq Timeline(custody, ev)
      BY <3>1 DEF Cut, Timeline
    <3>3. ev \notin Cut(custody, db.custody)
             => Timeline(custody, ev) \subseteq Timeline(one.custody, ev)
      <4>1. ev \notin Cut(custody, db.custody)
               => Timeline(custody, ev) \subseteq Timeline(db.custody, ev)
        BY DEF Cut, Timeline
      <4>. QED BY <2>3, <4>1
    <3>. QED BY <1>0, <1>3, <2>1, <2>3, <3>1, <3>2, <3>3, ChainRestored
  <2>4. CASE Len(q.tables) = 1
    BY <1>0, <1>3, <2>2, <2>3, <2>4
  <2>5. CASE q.tables[2] = "objects" /\ Len(q.tables) = 2
    <3>1. db = RestoreObjects(one, saved.objects, one.objects, q.deletes)
      BY <1>3, <2>5 DEF RestoreTable, RowsOf
    <3>2. one.ok
      BY <3>1 DEF RestoreObjects
    <3>3. /\ db.objects \in Tables
          /\ DOMAIN db.objects \subseteq DOMAIN objects \cup DOMAIN saved.objects
          /\ db.custody \subseteq one.custody
          /\ \A e \in db.custody : e.ev \in DOMAIN db.objects
      <4>1. /\ saved.objects \in Tables /\ one.objects \in Tables
            /\ \A e \in one.custody : e.ev \in DOMAIN one.objects
        BY <1>0, <2>2, <3>2
      <4>2. db.objects \in Tables
        BY <3>1, <4>1, RowsTyped
      <4>3. \A e \in db.custody : e.ev \in DOMAIN db.objects
        BY <3>1, <4>1, KeysHold
      <4>4. /\ DOMAIN db.objects \subseteq DOMAIN one.objects \cup DOMAIN saved.objects
            /\ db.custody \subseteq one.custody
        BY <3>1, RowsLeft, CustodyShrinks
      <4>5. one.objects = objects
        BY <2>2, <3>2
      <4>. QED BY <4>2, <4>3, <4>4, <4>5
    <3>4. ASSUME NEW ev \in Evidence \ (history.raced \cup Raced(q, db.custody))
          PROVE  ChainOK(Timeline(db.custody, ev))
      <4>1. Timeline(db.custody, ev) = Timeline(one.custody, ev) => ChainOK(Timeline(one.custody, ev))
        BY <2>3, <3>2, <3>4
      <4>. QED BY <3>1, <4>1, ChainLeft
    <3>. QED BY <2>2, <3>2, <3>3, <3>4
  <2>. QED BY <1>0, <1>5, <2>4, <2>5, OrdersAre
<1>. QED BY <1>0, <1>4, <1>5, OrdersAre

LEMMA ApplyStep ==
    ASSUME VaultInv, NEW r \in Restorers, ApplyRestore(r)
    PROVE  VaultInv'
<1>1. PICK q, db, saved : q = restorers[r] /\ db = Restored(q) /\ saved = backups[q.backup]
  OBVIOUS
<1>2. PICK races : races = Raced(q, db.custody)
  OBVIOUS
<1>3. /\ q.pc = "apply" /\ db.ok
      /\ objects' = db.objects /\ custody' = db.custody
      /\ history' = [touched |-> history.touched \cup
                        {ev \in Evidence : ev \in DOMAIN objects \cup DOMAIN db.objects},
                     raced |-> history.raced \cup races]
      /\ restorers' = [restorers EXCEPT ![r] = IdleRestorer]
      /\ UNCHANGED <<issued, clerks, backups>>
  BY <1>1, <1>2 DEF ApplyRestore
<1>4. /\ db.objects \in Tables
      /\ DOMAIN db.objects \subseteq DOMAIN objects \cup DOMAIN saved.objects
      /\ db.custody \subseteq custody \cup saved.custody
      /\ \A e \in db.custody : e.ev \in DOMAIN db.objects
  BY <1>1, <1>3, RestoredShape
<1>5. \A ev \in Evidence \ (history.raced \cup races) : ChainOK(Timeline(db.custody, ev))
  BY <1>1, <1>2, <1>3, RestoredShape
<1>6. /\ q.backup \in DOMAIN backups /\ saved.custody \subseteq Inserted
      /\ custody \subseteq Inserted /\ \A e \in custody : e.ev \in DOMAIN objects
      /\ objects \in Tables /\ DOMAIN restorers = Restorers
  BY <1>1, <1>3 DEF VaultInv, StoreInv, RestoreInv
<1>7. /\ history'.raced = history.raced \cup races
      /\ history.touched \cup DOMAIN objects \cup DOMAIN db.objects \subseteq history'.touched
  <2>1. DOMAIN objects \subseteq Evidence /\ DOMAIN db.objects \subseteq Evidence
    BY <1>4, <1>6, TableShape
  <2>. QED BY <1>3, <2>1
<1>8. /\ restorers'[r] = IdleRestorer
      /\ \A s \in Restorers : s # r => restorers'[s] = restorers[s]
      /\ IdleRestorer.pc = "idle"
  BY <1>3, <1>6 DEF IdleRestorer
<1>9. races \subseteq history'.touched
  <2>1. Cut(custody, db.custody) \subseteq DOMAIN objects
    BY <1>6 DEF Cut
  <2>2. q.tables[1] = "custody" => Cut(q.seen, custody) \subseteq DOMAIN objects \cup history.touched
    BY <1>1, <1>3 DEF VaultInv, RestoreInv, Cut
  <2>3. /\ q.tables[1] = "custody" => races \subseteq Cut(custody, db.custody) \cup Cut(q.seen, custody)
        /\ q.tables[1] # "custody" => races \subseteq Cut(custody, db.custody)
    BY <1>2 DEF Raced
  <2>. QED BY <1>7, <2>1, <2>2, <2>3
<1>10. StoreInv'
  <2>1. db.custody \subseteq Inserted
    BY <1>4, <1>6
  <2>2. \A s \in Restorers : restorers'[s].pc = "backup" => restorers'[s].objects \in Tables
    BY <1>8 DEF VaultInv, StoreInv
  <2>. QED BY <1>3, <1>4, <2>1, <2>2 DEF VaultInv, StoreInv, Inserted
<1>11. KnownInv'
  <2>1. \A ev : Shown(ev)' => Shown(ev)
    <3>1. \A ev \in DOMAIN db.objects : Shown(ev)
      BY <1>1, <1>4, <1>6 DEF Shown
    <3>2. \A s \in Restorers : restorers'[s].pc = "backup" => restorers'[s] = restorers[s]
      BY <1>8
    <3>. QED BY <1>3, <3>1, <3>2 DEF Shown
  <2>2. \A ev : Shown(ev)' => ev \in issued.ids
    BY <2>1 DEF VaultInv, KnownInv
  <2>3. ASSUME NEW d \in Clerks, clerks'[d].pc = "create"
        PROVE  /\ ~Shown(clerks[d].ev)'
               /\ \A f \in Clerks \ {d} : clerks'[f] # IdleClerk => clerks'[f].ev # clerks'[d].ev
    <3>1. PICK ev : ev = clerks[d].ev /\ ev = clerks'[d].ev
      BY <1>3
    <3>2. ~Shown(ev)'
      BY <1>3, <2>1, <2>3, <3>1 DEF VaultInv, KnownInv
    <3>3. ~Shown(clerks[d].ev)'
      BY <3>1, <3>2 DEF Shown
    <3>. QED BY <1>3, <2>3, <3>3 DEF VaultInv, KnownInv
  <2>4. \A d \in Clerks : clerks'[d] # IdleClerk => clerks'[d].ev \in issued'.ids
    BY <1>3 DEF VaultInv, KnownInv
  <2>. QED BY <1>3, <2>2, <2>3, <2>4 DEF KnownInv
<1>12. ChainInv'
  <2>1. ASSUME NEW d \in Clerks, clerks[d].pc \in {"append", "export"},
               clerks[d].ev \notin history.raced \cup races
        PROVE  Timeline(custody, clerks[d].ev) \subseteq Timeline(db.custody, clerks[d].ev)
    <3>1. clerks[d].ev \in InFlight
      BY <2>1 DEF InFlight, IdleClerk
    <3>2. clerks[d].ev \notin Cut(custody, db.custody)
      BY <1>2, <2>1, <3>1 DEF Raced
    <3>. QED BY <3>2 DEF Cut, Timeline
  <2>2. ASSUME NEW d \in Clerks, clerks[d].pc \in {"append", "export"}
        PROVE  /\ clerks[d].next.seq \in 1..(issued.rows + 1)
               /\ clerks[d].ev \notin history.raced \cup races =>
                     Linked(clerks[d].next.seq, clerks[d].next.prev,
                            Timeline(db.custody, clerks[d].ev))
    BY <2>1, <2>2, LinkedMore DEF VaultInv, ChainInv
  <2>3. \A ev \in Evidence \ (history.raced \cup races) : \A b \in DOMAIN backups :
           ChainOK(Timeline(backups[b].custody, ev))
    BY DEF VaultInv, ChainInv
  <2>. QED BY <1>3, <1>5, <1>7, <2>2, <2>3 DEF ChainInv
<1>13. RestoreInv'
  <2>1. ASSUME NEW s \in Restorers, restorers'[s].pc = "apply"
        PROVE  /\ restorers'[s].backup \in DOMAIN backups
               /\ restorers'[s].tables \in TableOrders
               /\ restorers'[s].deletes \in BOOLEAN
               /\ restorers'[s].tables[1] = "custody" =>
                     \A e \in restorers'[s].seen : e.ev \in DOMAIN db.objects \cup history'.touched
    <3>1. restorers'[s] = restorers[s]
      BY <1>8, <2>1
    <3>. QED BY <1>7, <2>1, <3>1 DEF VaultInv, RestoreInv
  <2>. QED BY <1>3, <2>1 DEF RestoreInv
<1>14. RowInv'
  <2>1. history'.raced \subseteq history'.touched
    BY <1>7, <1>9 DEF VaultInv, RowInv
  <2>2. DOMAIN objects' \ history'.touched = {}
    BY <1>3, <1>7
  <2>3. \A d \in Clerks : clerks'[d].ev \notin (QuietEvidence \cap DOMAIN objects') \ history'.touched
    BY <2>2
  <2>4. \A c, d \in Clerks :
          /\ clerks'[c] # IdleClerk /\ clerks'[d] # IdleClerk /\ clerks'[c].ev = clerks'[d].ev
          /\ clerks'[c].ev \in QuietEvidence
          => c = d
    BY <1>3 DEF VaultInv, RowInv
  <2>. QED BY <2>1, <2>2, <2>3, <2>4 DEF RowInv
<1>. QED BY <1>10, <1>11, <1>12, <1>13, <1>14 DEF VaultInv

----------------------------------------------------------------------------
(* The invariant holds, and what it gives.                                 *)

LEMMA VaultStart ==
    ASSUME Init
    PROVE  VaultInv
<1>1. /\ objects = <<>> /\ custody = {} /\ issued = [ids |-> {}, rows |-> 0]
      /\ clerks = [c \in Clerks |-> IdleClerk] /\ backups = <<>>
      /\ restorers = [r \in Restorers |-> IdleRestorer]
      /\ history = [touched |-> {}, raced |-> {}]
  BY DEF Init, VaultInit, BackupInit
<1>2. /\ DOMAIN objects = {} /\ DOMAIN backups = {} /\ objects \in Tables
      /\ \A c \in Clerks : clerks[c] = IdleClerk
      /\ \A r \in Restorers : restorers[r] = IdleRestorer
  BY <1>1, EmptyTable
<1>3. IdleClerk.pc = "idle" /\ IdleRestorer.pc = "idle" /\ IdleClerk \in ClerkStates
  BY DEF IdleClerk, IdleRestorer, ClerkStates
<1>4. \A ev : Timeline(custody, ev) = {}
  BY <1>1 DEF Timeline
<1>5. StoreInv
  <2>1. issued \in [ids : SUBSET Evidence, rows : 0..MaxRows]
    BY <1>1, VaultAssumption
  <2>2. backups \in Seq(Bundles)
    BY <1>1
  <2>. QED BY <1>1, <1>2, <1>3, <2>1, <2>2 DEF StoreInv
<1>6. KnownInv
  <2>1. \A ev : ~Shown(ev)
    BY <1>2, <1>3 DEF Shown
  <2>. QED BY <1>2, <1>3, <2>1 DEF KnownInv
<1>7. ChainInv
  BY <1>2, <1>3, <1>4 DEF ChainInv, ChainOK
<1>8. RestoreInv
  BY <1>2, <1>3 DEF RestoreInv
<1>9. RowInv
  BY <1>1, <1>2, <1>3 DEF RowInv
<1>. QED BY <1>5, <1>6, <1>7, <1>8, <1>9 DEF VaultInv

LEMMA VaultStep ==
    ASSUME VaultInv, [Next]_vars
    PROVE  VaultInv'
<1>1. CASE VaultNext /\ UNCHANGED backupVars
  <2>1. PICK c \in Clerks :
           \/ \E ev \in Evidence : \/ \E k \in CreateKeys : StartCreate(c, ev, k)
                                   \/ \E t \in CustodyTypes : StartAppend(c, ev, t)
                                   \/ StartExport(c, ev)
           \/ Create(c)
           \/ ReadLast(c)
           \/ AppendEvent(c)
           \/ ExportEvent(c)
           \/ ClerkStops(c)
    BY <1>1 DEF VaultNext
  <2>. QED BY <1>1, <2>1, WaitingStep, CreateStep, InsertingStep
<1>2. ASSUME NEW r \in Restorers, UNCHANGED tableVars,
             \/ StartBackup(r)
             \/ FinishBackup(r)
             \/ \E b \in DOMAIN backups, k \in RestoreKeys, t \in TableOrders, d \in BOOLEAN :
                   StartRestore(r, b, k, t, d)
             \/ RestorerStops(r)
      PROVE  VaultInv'
  BY <1>2, BackupRequestStep
<1>3. ASSUME NEW r \in Restorers, ApplyRestore(r) PROVE VaultInv'
  BY <1>3, ApplyStep
<1>4. CASE UNCHANGED vars
  BY <1>4 DEF vars, vaultVars, backupVars, VaultInv, StoreInv, KnownInv, ChainInv, RestoreInv,
              RowInv, HeadOf, Shown, Inserted
<1>. QED BY <1>1, <1>2, <1>3, <1>4 DEF Next

LEMMA VaultAlways == Spec => []VaultInv
<1>1. Init => VaultInv
  BY VaultStart
<1>2. VaultInv /\ [Next]_vars => VaultInv'
  BY VaultStep
<1>. QED BY <1>1, <1>2, PTL DEF Spec

\* Jobs have keys that requests gave.
JobInv ==
    /\ jobs \subseteq RestoreKeys
    /\ \A r \in Restorers : restorers[r].pc = "apply" => restorers[r].key \in RestoreKeys

LEMMA JobsAlways == Spec => []JobInv
<1>1. ASSUME Init PROVE JobInv
  BY <1>1 DEF Init, BackupInit, JobInv, IdleRestorer
<1>2. ASSUME VaultInv, JobInv, [Next]_vars PROVE JobInv'
  <2>0. DOMAIN restorers = Restorers /\ IdleRestorer.pc = "idle"
    BY <1>2 DEF VaultInv, StoreInv, IdleRestorer
  <2>1. CASE UNCHANGED <<jobs, restorers>>
    BY <1>2, <2>1 DEF JobInv
  <2>2. ASSUME NEW r \in Restorers, NEW q, restorers' = [restorers EXCEPT ![r] = q],
               jobs' \subseteq jobs \cup {restorers[r].key}, jobs' # jobs => restorers[r].pc = "apply",
               q.pc = "apply" => q.key \in RestoreKeys
        PROVE  JobInv'
    <3>1. \A s \in Restorers : restorers'[s] = IF s = r THEN q ELSE restorers[s]
      BY <2>0, <2>2
    <3>. QED BY <1>2, <2>2, <3>1 DEF JobInv
  <2>3. ASSUME NEW r \in Restorers, StartBackup(r) PROVE JobInv'
    <3>1. PICK q : q = [pc |-> "backup", objects |-> objects]
      OBVIOUS
    <3>2. restorers' = [restorers EXCEPT ![r] = q] /\ jobs' = jobs /\ q.pc = "backup"
      BY <2>3, <3>1 DEF StartBackup
    <3>. QED BY <2>2, <3>2
  <2>4. ASSUME NEW r \in Restorers, FinishBackup(r) \/ RestorerStops(r) PROVE JobInv'
    <3>1. restorers' = [restorers EXCEPT ![r] = IdleRestorer] /\ jobs' = jobs
      BY <2>4 DEF FinishBackup, RestorerStops
    <3>. QED BY <2>0, <2>2, <3>1
  <2>5. ASSUME NEW r \in Restorers, NEW b \in DOMAIN backups, NEW k \in RestoreKeys,
               NEW t \in TableOrders, NEW d \in BOOLEAN, StartRestore(r, b, k, t, d)
        PROVE  JobInv'
    <3>1. PICK q : q = [pc |-> "apply", backup |-> b, key |-> k, tables |-> t, deletes |-> d,
                        seen |-> RowsOf(Stored, t[1])]
      OBVIOUS
    <3>2. restorers' = [restorers EXCEPT ![r] = q] /\ jobs' = jobs /\ q.key = k
      BY <2>5, <3>1 DEF StartRestore
    <3>. QED BY <2>2, <3>2
  <2>6. ASSUME NEW r \in Restorers, ApplyRestore(r) PROVE JobInv'
    <3>1. /\ restorers' = [restorers EXCEPT ![r] = IdleRestorer] /\ restorers[r].pc = "apply"
          /\ jobs' = jobs \cup {restorers[r].key}
      BY <2>6 DEF ApplyRestore
    <3>. QED BY <2>0, <2>2, <3>1
  <2>. QED BY <1>2, <2>1, <2>3, <2>4, <2>5, <2>6 DEF Next, vars, backupVars
<1>. QED BY <1>1, <1>2, VaultAlways, PTL DEF Spec

\* Rows, bundles and requests have their shapes, and no custody event is without
\* its object: not even after a restore that deletes objects, or that inserts the
\* events before the objects.
THEOREM VaultTypeCorrect == Spec => []TypeOK
<1>1. ASSUME VaultInv, JobInv PROVE TypeOK
  <2>1. DOMAIN objects \subseteq Evidence /\ \A ev \in DOMAIN objects : objects[ev] \in ObjectRow
    BY <1>1, TableShape DEF VaultInv, StoreInv
  <2>. QED BY <1>1, <2>1 DEF VaultInv, StoreInv, JobInv, Inserted, TypeOK
<1>. QED BY <1>1, VaultAlways, JobsAlways, PTL

\* The hash chain of an object verifies as long as no restore cut it under a
\* request, from a stale read, or after another one had: whatever appends,
\* exports, retries and crashes there were.
THEOREM ChainsVerify == Spec => []ChainVerifies
<1>1. ASSUME VaultInv PROVE ChainVerifies
  <2>1. ASSUME NEW ev \in DOMAIN objects \ history.raced PROVE Verifies(Timeline(custody, ev))
    <3>1. ev \in Evidence /\ Timeline(custody, ev) \subseteq Event
      BY <1>1, <2>1, TableShape DEF VaultInv, StoreInv, Inserted, Timeline
    <3>2. ChainOK(Timeline(custody, ev))
      BY <1>1, <2>1, <3>1 DEF VaultInv, ChainInv
    <3>. QED BY <3>1, <3>2, ChainVerified
  <2>. QED BY <2>1 DEF ChainVerifies
<1>. QED BY <1>1, VaultAlways, PTL

\* The row of an object that no restore wrote names the last event of its chain,
\* and, when the requests on it came one at a time, the status the chain tells.
THEOREM RowsTellChain == Spec => []RowTellsChain
<1>1. ASSUME VaultInv PROVE RowTellsChain
  <2>1. ASSUME NEW ev \in DOMAIN objects \ history.touched
        PROVE  /\ objects[ev].head = LastEvent(custody, ev).row
               /\ ev \in QuietEvidence => objects[ev].status = StatusOfChain(Timeline(custody, ev))
    <3>1. /\ ev \in Evidence \ history.raced /\ custody \subseteq Event
          /\ Timeline(custody, ev) \subseteq Event
      BY <1>1, <2>1, TableShape DEF VaultInv, StoreInv, RowInv, Inserted, Timeline
    <3>2. PICK e \in Timeline(custody, ev) :
             e.row = objects[ev].head /\ \A f \in Timeline(custody, ev) : f.seq <= e.seq
      BY <1>1, <2>1 DEF VaultInv, RowInv, HeadOf
    <3>3. PICK last : last = LastEvent(custody, ev)
      OBVIOUS
    <3>4. last \in Timeline(custody, ev) /\ \A f \in Timeline(custody, ev) : f.seq <= last.seq
      BY <3>1, <3>2, <3>3, LastEventIs
    <3>5. e.seq = last.seq
      <4>1. e.seq \in Nat /\ last.seq \in Nat /\ e.seq <= last.seq /\ last.seq <= e.seq
        BY <3>1, <3>2, <3>4 DEF Event, Row
      <4>. QED BY <4>1
    <3>6. ChainOK(Timeline(custody, ev))
      BY <1>1, <3>1 DEF VaultInv, ChainInv
    <3>7. e = last
      BY <3>2, <3>4, <3>5, <3>6 DEF ChainOK
    <3>. QED BY <1>1, <2>1, <3>2, <3>3, <3>7 DEF VaultInv, RowInv
  <2>. QED BY <2>1 DEF RowTellsChain
<1>. QED BY <1>1, VaultAlways, PTL

----------------------------------------------------------------------------
(* What a restore leaves is what its preview said.                         *)

LEMMA AllObjects ==
    ASSUME NEW db, NEW saved, NEW seen, NEW deletes \in BOOLEAN, DOMAIN seen = DOMAIN db.objects,
           NEW new, new = RestoreObjects(db, saved, seen, deletes)
    PROVE  /\ deletes => DOMAIN new.objects = DOMAIN saved
           /\ ~deletes => DOMAIN new.objects = DOMAIN db.objects \cup DOMAIN saved
<1>1. DOMAIN new.objects =
         (DOMAIN db.objects \cup (DOMAIN saved \ DOMAIN seen)) \ Gone(saved, seen, deletes)
  BY KeptRows
<1>2. CASE deletes
  <2>1. Gone(saved, seen, deletes) = DOMAIN seen \ DOMAIN saved
    BY <1>2 DEF Gone
  <2>. QED BY <1>1, <1>2, <2>1
<1>3. CASE ~deletes
  <2>1. Gone(saved, seen, deletes) = {}
    BY <1>3 DEF Gone
  <2>. QED BY <1>1, <1>3, <2>1
<1>. QED BY <1>2, <1>3

LEMMA AllCustody ==
    ASSUME NEW db, NEW saved, NEW seen, NEW deletes \in BOOLEAN, seen = db.custody,
           NEW new, new = RestoreCustody(db, saved, seen, deletes)
    PROVE  /\ deletes => new.custody = saved
           /\ ~deletes => new.custody = db.custody \cup saved
<1>1. new.custody = (db.custody \cup (saved \ seen)) \ (IF deletes THEN seen \ saved ELSE {})
  BY DEF RestoreCustody
<1>2. CASE deletes
  BY <1>1, <1>2
<1>3. CASE ~deletes
  BY <1>1, <1>3
<1>. QED BY <1>2, <1>3

LEMMA PreviewKept ==
    ASSUME VaultInv, NEW r \in Restorers, NEW q, q = restorers[r], q.pc = "apply",
           NEW db, db = Restored(q), db.ok, NEW saved, saved = backups[q.backup],
           q.seen = RowsOf(Stored, q.tables[1]), Whole(saved)
    PROVE  /\ "objects" \in ToSet(q.tables) => DOMAIN db.objects = Previewed(Stored, q).objects
           /\ "custody" \in ToSet(q.tables) => db.custody = Previewed(Stored, q).custody
<1>0. q.tables \in TableOrders /\ q.deletes \in BOOLEAN
  BY DEF VaultInv, RestoreInv
<1>1. PICK old : old = [ok |-> TRUE, objects |-> objects, custody |-> custody]
  OBVIOUS
<1>2. PICK one : one = RestoreTable(old, q.tables[1], RowsOf(saved, q.tables[1]), q.seen, q.deletes)
  OBVIOUS
<1>3. /\ one = FirstRestored(q) /\ old.objects = objects /\ old.custody = custody
      /\ db = IF Len(q.tables) = 1 THEN one
              ELSE RestoreTable(one, q.tables[2], RowsOf(saved, q.tables[2]),
                                RowsOf(one, q.tables[2]), q.deletes)
  BY <1>1, <1>2 DEF FirstRestored, Restored
<1>4. /\ "objects" \in ToSet(q.tables) => Previewed(Stored, q).objects =
            IF q.deletes THEN DOMAIN saved.objects ELSE DOMAIN objects \cup DOMAIN saved.objects
      /\ "custody" \in ToSet(q.tables) => Previewed(Stored, q).custody =
            IF q.deletes THEN saved.custody ELSE custody \cup saved.custody
  BY DEF Previewed, Stored
<1>5. CASE q.tables[1] = "objects"
  <2>1. q.seen = objects
    BY <1>5 DEF RowsOf, Stored
  <2>2. one = RestoreObjects(old, saved.objects, objects, q.deletes)
    BY <1>2, <1>5, <2>1 DEF RestoreTable, RowsOf
  <2>3. /\ q.deletes => DOMAIN one.objects = DOMAIN saved.objects
        /\ ~q.deletes => DOMAIN one.objects = DOMAIN objects \cup DOMAIN saved.objects
    BY <1>0, <1>3, <2>2, AllObjects
  <2>4. CASE Len(q.tables) = 1 /\ ToSet(q.tables) = {"objects"}
    BY <1>3, <1>4, <2>3, <2>4
  <2>5. CASE q.tables[2] = "custody" /\ Len(q.tables) = 2
    <3>1. db = RestoreCustody(one, saved.custody, one.custody, q.deletes)
      BY <1>3, <2>5 DEF RestoreTable, RowsOf
    <3>2. db.objects = one.objects
      BY <3>1 DEF RestoreCustody
    <3>3. /\ q.deletes => db.custody = saved.custody
          /\ ~q.deletes => db.custody = one.custody \cup saved.custody
      <4>1. db.custody = (one.custody \cup (saved.custody \ one.custody)) \
                            (IF q.deletes THEN one.custody \ saved.custody ELSE {})
        BY <3>1 DEF RestoreCustody
      <4>2. CASE q.deletes
        BY <4>1, <4>2
      <4>3. CASE ~q.deletes
        BY <4>1, <4>3
      <4>. QED BY <4>2, <4>3
    <3>4. ~q.deletes => one.custody = custody
      <4>1. ~q.deletes => Gone(saved.objects, objects, q.deletes) = {}
        BY DEF Gone
      <4>2. \A e : e \in one.custody <=>
                      e \in old.custody /\ e.ev \notin Gone(saved.objects, objects, q.deletes)
        BY <2>2, CustodyLeft
      <4>. QED BY <1>3, <4>1, <4>2
    <3>5. /\ q.deletes => db.custody = saved.custody
          /\ ~q.deletes => db.custody = custody \cup saved.custody
      BY <3>3, <3>4
    <3>. QED BY <1>4, <2>3, <3>2, <3>5
  <2>. QED BY <1>0, <1>5, <2>4, <2>5, OrdersAre
<1>6. CASE q.tables[1] = "custody"
  <2>1. q.seen = custody
    BY <1>6 DEF RowsOf, Stored
  <2>2. one = RestoreCustody(old, saved.custody, custody, q.deletes)
    BY <1>2, <1>6, <2>1 DEF RestoreTable, RowsOf
  <2>3. /\ q.deletes => one.custody = saved.custody
        /\ ~q.deletes => one.custody = custody \cup saved.custody
    BY <1>0, <1>3, <2>2, AllCustody
  <2>4. CASE Len(q.tables) = 1 /\ ToSet(q.tables) = {"custody"}
    BY <1>3, <1>4, <2>3, <2>4
  <2>5. CASE q.tables[2] = "objects" /\ Len(q.tables) = 2
    <3>1. db = RestoreObjects(one, saved.objects, one.objects, q.deletes)
      BY <1>3, <2>5 DEF RestoreTable, RowsOf
    <3>2. one.objects = objects
      BY <1>3, <2>2 DEF RestoreCustody
    <3>3. /\ q.deletes => DOMAIN db.objects = DOMAIN saved.objects
          /\ ~q.deletes => DOMAIN db.objects = DOMAIN objects \cup DOMAIN saved.objects
      BY <1>0, <3>1, <3>2, AllObjects
    <3>4. \A e \in one.custody : e.ev \notin Gone(saved.objects, one.objects, q.deletes)
      BY <2>3 DEF Gone, Whole
    <3>5. \A e : e \in db.custody <=>
                    e \in one.custody /\ e.ev \notin Gone(saved.objects, one.objects, q.deletes)
      BY <3>1, CustodyLeft
    <3>6. db.custody = one.custody
      BY <3>4, <3>5, CustodyShrinks, <3>1
    <3>. QED BY <1>4, <2>3, <3>3, <3>6
  <2>. QED BY <1>0, <1>6, <2>4, <2>5, OrdersAre
<1>. QED BY <1>0, <1>5, <1>6, OrdersAre

\* A restore of rows that have not changed since it read them leaves, in the
\* tables it is about, exactly the rows its preview announced, whatever the order
\* of the tables, unless the backup is torn.
THEOREM RestoresKeepPreview == Spec => RestoresAsPreviewed
<1>1. ASSUME VaultInv, [Next]_vars, NEW r \in Restorers, NEW q, q = restorers[r],
             jobs' # jobs, q.pc = "apply", restorers'[r] = IdleRestorer,
             q.seen = RowsOf(Stored, q.tables[1]), Whole(backups[q.backup])
      PROVE  /\ "objects" \in ToSet(q.tables) => DOMAIN objects' = Previewed(Stored, q).objects
             /\ "custody" \in ToSet(q.tables) => custody' = Previewed(Stored, q).custody
  <2>1. PICK s \in Restorers : ApplyRestore(s)
    BY <1>1 DEF Next, vars, backupVars, StartBackup, FinishBackup, StartRestore, RestorerStops
  <2>2. s = r
    <3>1. restorers' = [restorers EXCEPT ![s] = IdleRestorer]
      BY <2>1 DEF ApplyRestore
    <3>2. s # r => restorers'[r] = restorers[r]
      BY <3>1 DEF VaultInv, StoreInv
    <3>3. restorers[r] # IdleRestorer
      BY <1>1 DEF IdleRestorer
    <3>. QED BY <1>1, <3>2, <3>3
  <2>3. PICK db : db = Restored(q)
    OBVIOUS
  <2>4. db.ok /\ objects' = db.objects /\ custody' = db.custody
    BY <1>1, <2>1, <2>2, <2>3 DEF ApplyRestore
  <2>. QED BY <1>1, <2>3, <2>4, PreviewKept
<1>2. ASSUME VaultInv, [Next]_vars
      PROVE  [\A r \in Restorers :
                LET q == restorers[r] IN
                /\ jobs' # jobs
                /\ q.pc = "apply" /\ restorers'[r] = IdleRestorer
                /\ q.seen = RowsOf(Stored, q.tables[1])
                /\ Whole(backups[q.backup])
                => /\ "objects" \in ToSet(q.tables) => DOMAIN objects' = Previewed(Stored, q).objects
                   /\ "custody" \in ToSet(q.tables) => custody' = Previewed(Stored, q).custody]_vars
  BY <1>1, <1>2
<1>. QED BY <1>2, VaultAlways, PTL DEF Spec, RestoresAsPreviewed
=============================================================================
