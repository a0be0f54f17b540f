--------------------------- MODULE EvidenceVault ---------------------------
(***************************************************************************)
(* The evidence vault (EvidenceVaultService): evidence objects, and the    *)
(* hash chain of custody events of each object.                            *)
(*                                                                         *)
(* append_custody_event and export_evidence_bundle read the object and the *)
(* last event in autocommit mode; only the INSERT of the event opens the   *)
(* transaction that also updates the object.  Each read is an action, the  *)
(* transaction is one.                                                     *)
(*                                                                         *)
(* A custody event is stored under a row id that AUTOINCREMENT never uses  *)
(* twice, its columns are never changed, and its hash covers them all: the *)
(* row id stands for the hash, and "prev" is the row whose hash the event  *)
(* was chained to.                                                         *)
(***************************************************************************)
EXTENDS Naturals, FiniteSets

CONSTANTS
    Evidence,     \* evidence ids, drawn at random and never drawn twice
    QuietEvidence,\* those whose requests come one at a time
    CreateKeys,   \* idempotency keys of create_evidence
    CustodyTypes, \* the event types that callers of append_custody_event send
    Clerks,       \* server threads that serve the vault
    MaxRows       \* bound on the custody events ever inserted

VALID_CUSTODY_EVENTS ==
    {"CREATED", "REVIEW_STARTED", "RESEALED", "RELEASED", "ARCHIVED", "NOTE_ADDED",
     "TRANSFERRED", "EXPORT_COMPLETED"}
STATUS_EVENT_MAP ==
    [t \in {"REVIEW_STARTED", "RESEALED", "RELEASED", "ARCHIVED"} |->
        CASE t = "REVIEW_STARTED" -> "IN_REVIEW"
          [] t = "RESEALED" -> "SEALED"
          [] OTHER -> t]
VALID_STATUSES == {"SEALED", "IN_REVIEW", "RELEASED", "ARCHIVED"}

ASSUME VaultAssumption ==
    /\ QuietEvidence \subseteq Evidence
    /\ CustodyTypes \subseteq VALID_CUSTODY_EVENTS \ {"CREATED"}
    /\ MaxRows \in Nat

VARIABLES
    objects,  \* table evidence_objects: [status, head, key] of the ids present
    custody,  \* table evidence_custody_events
    issued,   \* evidence ids and rows ever used: [ids, rows]
    clerks    \* requests in flight

vaultVars == <<objects, custody, issued, clerks>>

Row == 1..MaxRows
Event == [row : Row, ev : Evidence, seq : Row, type : VALID_CUSTODY_EVENTS, prev : 0..MaxRows]
FirstLink == [seq |-> 1, prev |-> 0]
IdleClerk == [pc |-> "idle"]

VaultInit ==
    /\ objects = <<>>
    /\ custody = {}
    /\ issued = [ids |-> {}, rows |-> 0]
    /\ clerks = [c \in Clerks |-> IdleClerk]

Timeline(rows, ev) == {e \in rows : e.ev = ev}
LastEvent(rows, ev) == CHOOSE e \in Timeline(rows, ev) :
                      \A f \in Timeline(rows, ev) : f.seq <= e.seq

\* _verify_chain: sorted by sequence number, each event carries the hash of
\* the one before it, the first carries none.
Precedes(f, e) == f.seq < e.seq \/ (f.seq = e.seq /\ f.row < e.row)
Verifies(timeline) ==
    \A e \in timeline :
        LET before == {f \in timeline : Precedes(f, e)}
        IN  IF before = {} THEN e.prev = 0
            ELSE \E f \in before : f.row = e.prev /\ \A g \in before : ~Precedes(f, g)

KeyTaken(k) == \E ev \in DOMAIN objects : objects[ev].key = k

Busy(ev) == \E d \in Clerks : clerks[d] # IdleClerk /\ clerks[d].ev = ev

\* A request on an object; those on a quiet one wait for each other.
MayServe(c, ev) ==
    /\ clerks[c] = IdleClerk
    /\ ev \in DOMAIN objects
    /\ ~(ev \in QuietEvidence /\ Busy(ev))

\* create_evidence: the lookup of the key.  A replay returns the object it
\* finds and a conflict is refused; neither writes.
StartCreate(c, ev, k) ==
    /\ clerks[c] = IdleClerk
    /\ ~KeyTaken(k)
    /\ ev \notin issued.ids
    /\ issued' = [issued EXCEPT !.ids = @ \cup {ev}]
    /\ clerks' = [clerks EXCEPT ![c] = [pc |-> "create", ev |-> ev, key |-> k]]
    /\ UNCHANGED <<objects, custody>>

\* ... and its transaction: the object, its CREATED event and the chain head.
\* The UNIQUE error of a key that was taken meanwhile rolls it back.
Create(c) ==
    LET k == clerks[c].key
        new == clerks[c].ev
        row == issued.rows + 1
    IN  /\ clerks[c].pc = "create"
        /\ ~KeyTaken(k)
        /\ row \in Row
        /\ objects' = [ev \in DOMAIN objects \cup {new} |->
              IF ev = new THEN [status |-> "SEALED", head |-> row, key |-> k] ELSE objects[ev]]
        /\ custody' = custody \cup
              {[row |-> row, ev |-> new, seq |-> 1, type |-> "CREATED", prev |-> 0]}
        /\ issued' = [issued EXCEPT !.rows = row]
        /\ clerks' = [clerks EXCEPT ![c] = IdleClerk]

\* append_custody_event: the status is read, and decides what is accepted.
Accepts(status, type) == status # "ARCHIVED" \/ type = "NOTE_ADDED"

StartAppend(c, ev, type) ==
    /\ MayServe(c, ev)
    /\ Accepts(objects[ev].status, type)
    /\ clerks' = [clerks EXCEPT ![c] =
          [pc |-> "appending", ev |-> ev, type |-> type, status |-> objects[ev].status,
           next |-> FirstLink]]
    /\ UNCHANGED <<objects, custody, issued>>

NextEvent(rows, ev) ==
    IF Timeline(rows, ev) = {} THEN FirstLink
    ELSE [seq |-> LastEvent(rows, ev).seq + 1, prev |-> LastEvent(rows, ev).row]

\* _append_event_with_conn: the last event of the timeline is read ...
ReadLast(c) ==
    /\ clerks[c].pc = "appending"
    /\ clerks' = [clerks EXCEPT ![c].pc = "append",
                                ![c].next = NextEvent(custody, clerks[c].ev)]
    /\ UNCHANGED <<objects, custody, issued>>

\* export_evidence_bundle reads the object and the timeline for the bundle and
\* then the last event as above; it does not write the status back, so that
\* only the last read can grow stale.
StartExport(c, ev) ==
    /\ MayServe(c, ev)
    /\ clerks' = [clerks EXCEPT ![c] =
          [pc |-> "export", ev |-> ev, type |-> "EXPORT_COMPLETED",
           next |-> NextEvent(custody, ev)]]
    /\ UNCHANGED <<objects, custody, issued>>

\* (a mutant: the index on evidence_id and sequence_no is not unique)
AnySequence(ev, seq) == ev \in DOMAIN objects

\* ... and the next one inserted.  UNIQUE (evidence_id, sequence_no) and the
\* foreign key refuse it when the chain or the object changed meanwhile.
Insertable(ev, seq) ==
    /\ ev \in DOMAIN objects
    /\ \A e \in Timeline(custody, ev) : e.seq # seq

InsertEvent(c) ==
    LET q == clerks[c] IN
    /\ Insertable(q.ev, q.next.seq)
    /\ issued.rows + 1 \in Row
    /\ custody' = custody \cup
          {[row |-> issued.rows + 1, ev |-> q.ev, seq |-> q.next.seq, type |-> q.type,
            prev |-> q.next.prev]}
    /\ issued' = [issued EXCEPT !.rows = @ + 1]
    /\ clerks' = [clerks EXCEPT ![c] = IdleClerk]

\* (a mutant: an event without a status seals the object)
SealedAgain(q) == IF q.type \in DOMAIN STATUS_EVENT_MAP THEN STATUS_EVENT_MAP[q.type] ELSE "SEALED"

\* The status written is the one the event type maps to, or else the status
\* that was read at the start of the request.
StatusAfter(q) ==
    IF q.type \in DOMAIN STATUS_EVENT_MAP THEN STATUS_EVENT_MAP[q.type] ELSE q.status

AppendEvent(c) ==
    /\ clerks[c].pc = "append"
    /\ InsertEvent(c)
    /\ objects' = [objects EXCEPT ![clerks[c].ev].status = StatusAfter(clerks[c]),
                                  ![clerks[c].ev].head = issued.rows + 1]

ExportEvent(c) ==
    /\ clerks[c].pc = "export"
    /\ InsertEvent(c)
    /\ objects' = [objects EXCEPT ![clerks[c].ev].head = issued.rows + 1]

\* A request that a constraint refuses, or whose handler dies, leaves nothing.
ClerkStops(c) ==
    /\ clerks[c] # IdleClerk
    /\ clerks' = [clerks EXCEPT ![c] = IdleClerk]
    /\ UNCHANGED <<objects, custody, issued>>

VaultNext ==
    \E c \in Clerks :
        \/ \E ev \in Evidence :
              \/ \E k \in CreateKeys : StartCreate(c, ev, k)
              \/ \E t \in CustodyTypes : StartAppend(c, ev, t)
              \/ StartExport(c, ev)
        \/ Create(c)
        \/ ReadLast(c)
        \/ AppendEvent(c)
        \/ ExportEvent(c)
        \/ ClerkStops(c)

----------------------------------------------------------------------------
\* The record a custody request keeps, for the type invariant.
ClerkStates ==
    {IdleClerk}
    \cup [pc : {"create"}, ev : Evidence, key : CreateKeys]
    \cup [pc : {"appending", "append"}, ev : Evidence, type : CustodyTypes,
          status : VALID_STATUSES, next : [seq : Nat, prev : 0..MaxRows]]
    \cup [pc : {"export"}, ev : Evidence, type : {"EXPORT_COMPLETED"},
          next : [seq : Nat, prev : 0..MaxRows]]

\* What the chain tells of the status: that of its last event with one.
StatusOfChain(timeline) ==
    LET told == {e \in timeline : e.type \in DOMAIN STATUS_EVENT_MAP}
    IN  IF told = {} THEN "SEALED"
        ELSE STATUS_EVENT_MAP[(CHOOSE e \in told : \A f \in told : f.seq <= e.seq).type]

=============================================================================
