--------------------------- MODULE RepackPublish ---------------------------
(***************************************************************************)
(* publish() of src/src/iostore_repack.rs: the staged bundle replaces the  *)
(* files at the destination, one extension after the other (.ucas, .utoc   *)
(* and, if the input has one, .pak), each by moving the original into the  *)
(* staging directory and the staged file into its place.  When a step      *)
(* fails the published files are removed and the originals moved back, in  *)
(* reverse order, and any of these steps may fail too.                     *)
(*                                                                         *)
(* However publish() ends, unless it keeps the staging directory for a     *)
(* recovery, its TempDir is dropped before the caller has the result: file *)
(* by file, backups included, silently stopping where a file cannot be     *)
(* deleted.                                                                *)
(*                                                                         *)
(* Every file operation is an action that succeeds or fails; the process   *)
(* may be killed between any two of them.  Extensions are numbered in the  *)
(* order publish() takes them.                                             *)
(***************************************************************************)
EXTENDS Naturals

CONSTANT Count      \* how many extensions the bundle has: 2, or 3 with a .pak

ASSUME CountPositive == Count \in Nat \ {0}

VARIABLES
    original,         \* what was at the destination: "none", "old" or "dir"
    target,           \* what is there now: also "new"
    backup,           \* staging/original.<ext>: "none" or "old"
    staged,           \* staging/bundle.<ext>: "none" or "new"
    current,          \* the extension the loop is at
    pc,               \* where publish() is, or how it ended
    backups,          \* the vector of originals moved away, as a set
    published,        \* the vector of files put in place, as a set
    rollback_errors   \* whether a rollback step failed

vars == <<original, target, backup, staged, current, pc, backups, published,
          rollback_errors>>

Exts == 1..Count

Init ==
    /\ original \in [Exts -> {"none", "old", "dir"}]
    /\ target = original
    /\ backup = [e \in Exts |-> "none"]
    /\ staged = [e \in Exts |-> "new"]
    /\ current = 1
    /\ pc = "backup"
    /\ backups = {}
    /\ published = {}
    /\ rollback_errors = FALSE

\* The loop's `?` and bail!: the closure returns Err and rollback begins.
StepFails ==
    /\ pc' = "rollback"
    /\ UNCHANGED <<original, target, backup, staged, current, backups, published,
                   rollback_errors>>

\* Nothing to back up: target.exists() is false.
NothingThere ==
    /\ pc = "backup"
    /\ current \in Exts
    /\ target[current] = "none"
    /\ pc' = "place"
    /\ UNCHANGED <<original, target, backup, staged, current, backups, published,
                   rollback_errors>>

\* fs::rename(target, backup)
MoveOriginalAway ==
    /\ pc = "backup"
    /\ current \in Exts
    /\ target[current] = "old"
    /\ target' = [target EXCEPT ![current] = "none"]
    /\ backup' = [backup EXCEPT ![current] = "old"]
    /\ backups' = backups \cup {current}
    /\ pc' = "place"
    /\ UNCHANGED <<original, staged, current, published, rollback_errors>>

\* A directory stands at the destination, or the rename fails.
BackupFails ==
    /\ pc = "backup"
    /\ current \in Exts
    /\ target[current] # "none"
    /\ StepFails

\* fs::rename(bundle, target)
PlaceStaged ==
    /\ pc = "place"
    /\ staged' = [staged EXCEPT ![current] = "none"]
    /\ target' = [target EXCEPT ![current] = "new"]
    /\ published' = published \cup {current}
    /\ current' = current + 1
    /\ pc' = "backup"
    /\ UNCHANGED <<original, backup, backups, rollback_errors>>

PlaceFails == pc = "place" /\ StepFails

\* Every extension is in place: the closure returns Ok(()).
AllPublished ==
    /\ pc = "backup"
    /\ current > Count
    /\ pc' = "drop_ok"
    /\ UNCHANGED <<original, target, backup, staged, current, backups, published,
                   rollback_errors>>

Latest(S) == {e \in S : \A f \in S : f <= e}

\* A variant of RemovePublished that goes on with the originals at once.
RemovePublishedOnlyOne(e) ==
    /\ pc = "rollback"
    /\ e \in Latest(published)
    /\ target' = [target EXCEPT ![e] = "none"]
    /\ published' = {}
    /\ UNCHANGED <<original, backup, staged, current, pc, backups, rollback_errors>>

\* Rollback: fs::remove_file of the published files, the last first.
RemovePublished(e) ==
    /\ pc = "rollback"
    /\ e \in Latest(published)
    /\ target' = [target EXCEPT ![e] = "none"]
    /\ published' = published \ {e}
    /\ UNCHANGED <<original, backup, staged, current, pc, backups, rollback_errors>>

RemoveFails(e) ==
    /\ pc = "rollback"
    /\ e \in Latest(published)
    /\ published' = published \ {e}
    /\ rollback_errors' = TRUE
    /\ UNCHANGED <<original, target, backup, staged, current, pc, backups>>

\* A variant of RestoreOriginal that restores before removing what was published.
RestoreOriginalAnyTime(e) ==
    /\ pc = "rollback"
    /\ e \in Latest(backups)
    /\ target' = [target EXCEPT ![e] = "old"]
    /\ backup' = [backup EXCEPT ![e] = "none"]
    /\ backups' = backups \ {e}
    /\ UNCHANGED <<original, staged, current, pc, published, rollback_errors>>

\* Rollback, once nothing published is left: fs::rename(backup, target), which
\* replaces a published file that could not be removed.
RestoreOriginal(e) ==
    /\ pc = "rollback"
    /\ published = {}
    /\ e \in Latest(backups)
    /\ target' = [target EXCEPT ![e] = "old"]
    /\ backup' = [backup EXCEPT ![e] = "none"]
    /\ backups' = backups \ {e}
    /\ UNCHANGED <<original, staged, current, pc, published, rollback_errors>>

RestoreFails(e) ==
    /\ pc = "rollback"
    /\ published = {}
    /\ e \in Latest(backups)
    /\ backups' = backups \ {e}
    /\ rollback_errors' = TRUE
    /\ UNCHANGED <<original, target, backup, staged, current, pc, published>>

RolledBack == pc = "rollback" /\ published = {} /\ backups = {}

\* The error is "Failed to publish repacked bundle; original files restored".
ReportRestored ==
    /\ RolledBack
    /\ ~rollback_errors
    /\ pc' = "drop_err"
    /\ UNCHANGED <<original, target, backup, staged, current, backups, published,
                   rollback_errors>>

\* A variant of ReportKept that drops the staging directory all the same.
ReportKeptDropsStaging ==
    /\ RolledBack
    /\ rollback_errors
    /\ pc' = "drop_err"
    /\ UNCHANGED <<original, target, backup, staged, current, backups, published,
                   rollback_errors>>

\* "rollback failed [...] Recovery files": staging.into_path() keeps them.
ReportKept ==
    /\ RolledBack
    /\ rollback_errors
    /\ pc' = "kept"
    /\ UNCHANGED <<original, target, backup, staged, current, backups, published,
                   rollback_errors>>

\* The TempDir is being dropped; the result is decided and not yet returned.
Dropping == pc \in {"drop_ok", "drop_err"}

\* remove_dir_all deletes one more file of the staging directory, in any order.
DropFile(e) ==
    /\ Dropping
    /\ \/ backup[e] = "old" /\ backup' = [backup EXCEPT ![e] = "none"] /\ UNCHANGED staged
       \/ staged[e] = "new" /\ staged' = [staged EXCEPT ![e] = "none"] /\ UNCHANGED backup
    /\ UNCHANGED <<original, target, current, pc, backups, published, rollback_errors>>

\* The drop is through, or stopped at a file it could not delete, of which nobody
\* hears: the caller has the result.
Returned ==
    /\ Dropping
    /\ pc' = IF pc = "drop_ok" THEN "ok" ELSE "restored"
    /\ UNCHANGED <<original, target, backup, staged, current, backups, published,
                   rollback_errors>>

Ended == pc \in {"ok", "restored", "kept", "killed"}

\* The process is killed; what is in the staging directory stays behind.
Killed ==
    /\ ~Ended
    /\ pc' = "killed"
    /\ UNCHANGED <<original, target, backup, staged, current, backups, published,
                   rollback_errors>>

Done == Ended /\ UNCHANGED vars

Next ==
    \/ NothingThere \/ MoveOriginalAway \/ BackupFails
    \/ PlaceStaged \/ PlaceFails \/ AllPublished
    \/ \E e \in Exts : \/ RemovePublished(e) \/ RemoveFails(e)
                       \/ RestoreOriginal(e) \/ RestoreFails(e)
    \/ ReportRestored \/ ReportKept
    \/ \E e \in Exts : DropFile(e)
    \/ Returned
    \/ Killed
    \/ Done

Spec == Init /\ [][Next]_vars

-----------------------------------------------------------------------------
TypeOK ==
    /\ original \in [Exts -> {"none", "old", "dir"}]
    /\ target \in [Exts -> {"none", "old", "dir", "new"}]
    /\ backup \in [Exts -> {"none", "old"}]
    /\ staged \in [Exts -> {"none", "new"}]
    /\ current \in 1..(Count + 1)
    /\ pc \in {"backup", "place", "rollback", "drop_ok", "drop_err",
              "ok", "restored", "kept", "killed"}
    /\ backups \in SUBSET Exts
    /\ published \in SUBSET Exts
    /\ rollback_errors \in BOOLEAN
    /\ pc = "place" => current \in Exts

\* The new bundle is complete at the destination.
NewInPlace == \A e \in Exts : target[e] = "new"

\* The user's files are never lost: an original is given up only when every file of
\* the new bundle stands at the destination.  Before that each one is at its place
\* or in the staging directory, after any sequence of failing renames, failing
\* rollback steps and deletions, and wherever the process is killed.
OriginalsSurvive ==
    \A e \in Exts :
        original[e] = "old" => target[e] = "old" \/ backup[e] = "old" \/ NewInPlace

\* "original files restored" is true when it is said, and already while the
\* staging directory is dropped: the destination is exactly what it was, with no
\* file of the new bundle left among the old ones.
RestoredMeansUntouched == pc \in {"drop_err", "restored"} => target = original

\* What there is of each file to whoever finds the destination and the staging
\* directory: the new bundle if it is complete, else the original, wherever it is.
Recoverable(e) ==
    IF NewInPlace THEN "new"
    ELSE IF backup[e] = "old" THEN "old"
    ELSE IF target[e] = "new" THEN "none"
    ELSE target[e]

\* To whoever recovers a bundle that way, the renames, the rollbacks and the drop
\* of the staging directory are one step from the old bundle to the new one,
\* BundleSwap: it is taken when the last file is placed.
Swap == INSTANCE BundleSwap WITH bundle <- [e \in Exts |-> Recoverable(e)]
SwapsAtomically == Swap!SwapSpec
=============================================================================
