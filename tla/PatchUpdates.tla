---------------------------- MODULE PatchUpdates ----------------------------
(***************************************************************************)
(* Patch updates (PatchUpdateService and the apply request): a patch is    *)
(* uploaded, and marked as applied together with the backup of the state   *)
(* that was taken before.  The request reads the patch, takes a backup and *)
(* marks the patch, in steps of their own; mark_applied reads the status   *)
(* in autocommit mode before its UPDATE.                                   *)
(***************************************************************************)
EXTENDS Naturals

CONSTANTS
    Patches,      \* patch ids
    Appliers,     \* server threads that serve the administrators
    MaxSnapshots  \* bound on the backups taken

ASSUME PatchAssumption == MaxSnapshots \in Nat

VARIABLES
    patch_updates,  \* [status, backup_id], and the number of backups there were when
                    \*  the patch was first marked (history)
    snapshots,      \* backups taken so far: the n-th one is backup n
    appliers        \* requests in flight

patchVars == <<patch_updates, snapshots, appliers>>

IdleApplier == [pc |-> "idle"]

PatchInit ==
    /\ patch_updates = [p \in Patches |-> [status |-> "none", backup_id |-> 0, first |-> 0]]
    /\ snapshots = 0
    /\ appliers = [h \in Appliers |-> IdleApplier]

\* upload_patch: the file is written before the row, under a name of its own.
UploadPatch(p) ==
    /\ patch_updates[p].status = "none"
    /\ patch_updates' = [patch_updates EXCEPT ![p].status = "UPLOADED"]
    /\ UNCHANGED <<snapshots, appliers>>

\* get_patch
StartApply(h, p) ==
    /\ appliers[h] = IdleApplier
    /\ patch_updates[p].status # "none"
    /\ appliers' = [appliers EXCEPT ![h] = [pc |-> "backup", patch |-> p]]
    /\ UNCHANGED <<patch_updates, snapshots>>

\* create_backup
TakeBackup(h) ==
    /\ appliers[h].pc = "backup"
    /\ snapshots < MaxSnapshots
    /\ snapshots' = snapshots + 1
    /\ appliers' = [appliers EXCEPT ![h] =
          [pc |-> "mark", patch |-> @.patch, backup |-> snapshots + 1]]
    /\ UNCHANGED patch_updates

\* (a mutant: a patch that was applied is marked again)
MarkedAgain(status) == TRUE
NotYetApplied(status) == status # "APPLIED"

\* mark_applied: the status is read; an applied patch keeps its backup ...
ReadPatchStatus(h) ==
    /\ appliers[h].pc = "mark"
    /\ appliers' = [appliers EXCEPT ![h] =
          IF NotYetApplied(patch_updates[@.patch].status) THEN [@ EXCEPT !.pc = "write"]
          ELSE IdleApplier]
    /\ UNCHANGED <<patch_updates, snapshots>>

\* ... the others are written, whatever they are by now.
WriteApplied(h) ==
    LET p == appliers[h].patch IN
    /\ appliers[h].pc = "write"
    /\ patch_updates' = [patch_updates EXCEPT ![p] =
          [status |-> "APPLIED", backup_id |-> appliers[h].backup,
           first |-> IF @.first = 0 THEN snapshots ELSE @.first]]
    /\ appliers' = [appliers EXCEPT ![h] = IdleApplier]
    /\ UNCHANGED snapshots

ApplierDies(h) ==
    /\ appliers[h] # IdleApplier
    /\ appliers' = [appliers EXCEPT ![h] = IdleApplier]
    /\ UNCHANGED <<patch_updates, snapshots>>

PatchNext ==
    \/ \E p \in Patches : UploadPatch(p)
    \/ \E h \in Appliers :
          \/ \E p \in Patches : StartApply(h, p)
          \/ TakeBackup(h) \/ ReadPatchStatus(h) \/ WriteApplied(h) \/ ApplierDies(h)

PatchSpec == PatchInit /\ [][PatchNext]_patchVars

----------------------------------------------------------------------------
(* The backup kept with an applied patch exists and was taken before the   *)
(* patch was first marked ("applied with pre-change backup", the audit     *)
(* entry), however often it is applied again and even when requests for    *)
(* it overlap: a request that still finds the patch unmarked has its       *)
(* backup already, although the status it read may be stale by its UPDATE. *)
BackupPrecedesPatch ==
    \A p \in Patches : patch_updates[p].status = "APPLIED" =>
        patch_updates[p].backup_id \in 1..patch_updates[p].first

=============================================================================
