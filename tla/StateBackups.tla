---------------------------- MODULE StateBackups ----------------------------
(***************************************************************************)
(* State backups (StateBackupService) over the tables of the evidence      *)
(* vault: a backup copies tables one after the other, a restore writes the *)
(* rows of a backup over the tables as they are then.                      *)
(*                                                                         *)
(* Of the sixteen tables of a FULL backup the two evidence tables are      *)
(* modelled: they refer to each other, and each has constraints a restore  *)
(* can run into.  Backups here have rows in both tables.                   *)
(***************************************************************************)
EXTENDS EvidenceVault, Sequences, SequencesExt

CONSTANTS
    Restorers,   \* server threads that serve the administrator
    RestoreKeys, \* idempotency keys of apply_restore
    TableOrders, \* selected_tables of a restore: sequences of table names
    MaxBackups   \* bound on the backups taken

\* Without a choice of the caller the tables are the keys of the bundle, which
\* is written with sort_keys: the first of these.
ASSUME BackupAssumption ==
    /\ TableOrders \subseteq
          {<<"custody", "objects">>, <<"objects", "custody">>, <<"custody">>, <<"objects">>}
    /\ MaxBackups \in Nat

VARIABLES
    backups,    \* table state_backups: the [objects, custody] of each bundle
    jobs,       \* table state_restore_jobs: their idempotency keys
    restorers,  \* requests in flight
    history     \* [touched : evidence a restore wrote, raced : evidence whose chain
                \*  a restore cut while another request or restore was on it]

backupVars == <<backups, jobs, restorers, history>>
tableVars == <<objects, custody, issued, clerks>>

IdleRestorer == [pc |-> "idle"]

BackupInit ==
    /\ backups = <<>>
    /\ jobs = {}
    /\ restorers = [r \in Restorers |-> IdleRestorer]
    /\ history = [touched |-> {}, raced |-> {}]

\* create_backup: each table is read by a statement of its own in autocommit
\* mode, the objects before their custody events ...
StartBackup(r) ==
    /\ restorers[r] = IdleRestorer
    /\ Len(backups) < MaxBackups
    /\ objects # <<>>
    /\ restorers' = [restorers EXCEPT ![r] = [pc |-> "backup", objects |-> objects]]
    /\ UNCHANGED <<backups, jobs, history>>

\* ... and the bundle is inserted.
FinishBackup(r) ==
    /\ restorers[r].pc = "backup"
    /\ Len(backups) < MaxBackups
    /\ custody # {}
    /\ backups' = Append(backups, [objects |-> restorers[r].objects, custody |-> custody])
    /\ restorers' = [restorers EXCEPT ![r] = IdleRestorer]
    /\ UNCHANGED <<jobs, history>>

\* The tables of the vault, and one of them by its name.
Stored == [objects |-> objects, custody |-> custody]
RowsOf(db, table) == IF table = "objects" THEN db.objects ELSE db.custody

\* apply_restore: the backup is resolved and previewed, the key looked up (one
\* that has a job is answered from it or refused), and the rows of the first
\* table read, all before the first write takes the lock.  A job committed
\* between these reads only makes the write below fail: they are one action.
StartRestore(r, b, k, tables, deletes) ==
    /\ restorers[r] = IdleRestorer
    /\ k \notin jobs
    /\ restorers' = [restorers EXCEPT ![r] =
          [pc |-> "apply", backup |-> b, key |-> k, tables |-> tables, deletes |-> deletes,
           seen |-> RowsOf(Stored, tables[1])]]
    /\ UNCHANGED <<backups, jobs, history>>

\* One table of _apply_restore_with_conn: rows of the backup that were not seen
\* are inserted, the others updated by key, and then those seen that the backup
\* lacks are deleted.  Deleting an object deletes its custody events.
RestoreObjects(db, saved, seen, deletes) ==
    LET new == DOMAIN saved \ DOMAIN seen
        gone == IF deletes THEN DOMAIN seen \ DOMAIN saved ELSE {}
        kept == (DOMAIN db.objects \cup new) \ gone
    IN  [ok |-> /\ db.ok
                /\ \A ev \in new, other \in DOMAIN db.objects :
                      ev # other /\ saved[ev].key # db.objects[other].key,
         objects |-> [ev \in kept |-> IF ev \in DOMAIN saved THEN saved[ev] ELSE db.objects[ev]],
         custody |-> {e \in db.custody : e.ev \notin gone}]

\* (a mutant: the table is one of those whose rows are never deleted)
ProtectedTable(db, saved, seen, deletes) ==
    [ok |-> db.ok, objects |-> db.objects, custody |-> db.custody \cup saved]

RestoreCustody(db, saved, seen, deletes) ==
    LET new == saved \ seen
        gone == IF deletes THEN seen \ saved ELSE {}
    IN  [ok |-> /\ db.ok
                /\ \A e \in new :
                      /\ e.ev \in DOMAIN db.objects
                      /\ \A f \in db.custody : f.row # e.row /\ <<f.ev, f.seq>> # <<e.ev, e.seq>>,
         objects |-> db.objects,
         custody |-> (db.custody \cup new) \ gone]

RestoreTable(db, table, saved, seen, deletes) ==
    IF table = "objects" THEN RestoreObjects(db, saved, seen, deletes)
                         ELSE RestoreCustody(db, saved, seen, deletes)

\* All selected tables: the first from the rows that were read, the second from
\* the rows as the transaction has them.
FirstRestored(q) ==
    RestoreTable([ok |-> TRUE, objects |-> objects, custody |-> custody], q.tables[1],
                 RowsOf(backups[q.backup], q.tables[1]), q.seen, q.deletes)

Restored(q) ==
    LET db == FirstRestored(q)
    IN  IF Len(q.tables) = 1 THEN db
        ELSE RestoreTable(db, q.tables[2], RowsOf(backups[q.backup], q.tables[2]),
                          RowsOf(db, q.tables[2]), q.deletes)

\* _build_restore_preview_with_conn: the rows a restore of q leaves, as the
\* preview counts them from the tables it reads.
Previewed(db, q) ==
    LET saved == backups[q.backup]
        selected == ToSet(q.tables)
        Left(table, old, new) ==
            IF table \notin selected THEN old ELSE IF q.deletes THEN new ELSE old \cup new
    IN  [objects |-> Left("objects", DOMAIN db.objects, DOMAIN saved.objects),
         custody |-> Left("custody", db.custody, saved.custody)]

Cut(old, new) == {e.ev : e \in old \ new}
InFlight == {clerks[c].ev : c \in {d \in Clerks : clerks[d] # IdleClerk}}

\* Evidence whose chain a restore that leaves these rows cuts under a request,
\* or from rows it read before the chain grew; and that whose chain another
\* restore has cut since this one read it.
Raced(q, rows) ==
    LET grown == {ev \in Evidence : Timeline(custody, ev) # Timeline(q.seen, ev)}
    IN  IF q.tables[1] = "custody"
        THEN (Cut(custody, rows) \cap (InFlight \cup grown)) \cup Cut(q.seen, custody)
        ELSE Cut(custody, rows) \cap InFlight

\* The writes and the job row are one transaction, which the UNIQUE key of the
\* job, or a constraint of a row, rolls back as a whole.
ApplyRestore(r) ==
    LET q == restorers[r]
        db == Restored(q)
    IN  /\ q.pc = "apply"
        /\ db.ok
        /\ q.key \notin jobs
        /\ objects' = db.objects
        /\ custody' = db.custody
        /\ jobs' = jobs \cup {q.key}
        /\ history' = [touched |-> history.touched \cup
                          {ev \in Evidence : ev \in DOMAIN objects \cup DOMAIN db.objects},
                       raced |-> history.raced \cup Raced(q, db.custody)]
        /\ restorers' = [restorers EXCEPT ![r] = IdleRestorer]
        /\ UNCHANGED <<issued, clerks, backups>>

\* A refused restore, and one whose handler dies, leaves nothing.
RestorerStops(r) ==
    /\ restorers[r] # IdleRestorer
    /\ restorers' = [restorers EXCEPT ![r] = IdleRestorer]
    /\ UNCHANGED <<backups, jobs, history>>

Init == VaultInit /\ BackupInit

Next ==
    \/ VaultNext /\ UNCHANGED backupVars
    \/ \E r \in Restorers :
          \/ StartBackup(r) /\ UNCHANGED tableVars
          \/ FinishBackup(r) /\ UNCHANGED tableVars
          \/ \E b \in DOMAIN backups, k \in RestoreKeys, t \in TableOrders, d \in BOOLEAN :
                StartRestore(r, b, k, t, d) /\ UNCHANGED tableVars
          \/ ApplyRestore(r)
          \/ RestorerStops(r) /\ UNCHANGED tableVars

vars == <<vaultVars, backupVars>>
Spec == Init /\ [][Next]_vars

----------------------------------------------------------------------------
ObjectRow == [status : VALID_STATUSES, head : Row, key : CreateKeys]

\* Type invariant: tables, bundles and requests have the shapes above.
TypeOK ==
    /\ DOMAIN objects \subseteq Evidence
    /\ \A ev \in DOMAIN objects : objects[ev] \in ObjectRow
    /\ custody \subseteq Event
    /\ issued \in [ids : SUBSET Evidence, rows : 0..MaxRows]
    /\ \A c \in Clerks : clerks[c] \in ClerkStates
    /\ \A e \in custody : e.ev \in DOMAIN objects
    /\ jobs \subseteq RestoreKeys

\* A timeline verifies (chain_valid) as long as no restore cut it while an
\* append, an export or another restore of the same object was under way:
\* appends that overlap, retries, crashes and restores that come alone keep the
\* hash chain whole.
ChainVerifies ==
    \A ev \in DOMAIN objects \ history.raced : Verifies(Timeline(custody, ev))

\* The row of an object that no restore wrote names the last event of its
\* chain, and, when the requests on it came one at a time, the status that the
\* chain tells.
RowTellsChain ==
    \A ev \in DOMAIN objects \ history.touched :
        /\ objects[ev].head = LastEvent(custody, ev).row
        /\ ev \in QuietEvidence => objects[ev].status = StatusOfChain(Timeline(custody, ev))

\* A restore leaves exactly the rows its preview announced for the tables it is
\* about, when they have not changed since and the backup is whole.  From a torn
\* one, with the events of an object created while it was taken but not the
\* object, the deletes that follow take events that the preview had left alone.
Whole(backup) == \A e \in backup.custody : e.ev \in DOMAIN backup.objects

RestoresAsPreviewed ==
    [][\A r \in Restorers :
          LET q == restorers[r] IN
          /\ jobs' # jobs
          /\ q.pc = "apply" /\ restorers'[r] = IdleRestorer
          /\ q.seen = RowsOf(Stored, q.tables[1])
          /\ Whole(backups[q.backup])
          => /\ "objects" \in ToSet(q.tables) => DOMAIN objects' = Previewed(Stored, q).objects
             /\ "custody" \in ToSet(q.tables) => custody' = Previewed(Stored, q).custody]_vars

=============================================================================
