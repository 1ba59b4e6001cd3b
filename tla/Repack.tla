------------------------------- MODULE Repack -------------------------------
(***************************************************************************)
(* repack_iostore() of src/src/iostore_repack.rs from end to end: the      *)
(* blocks are transformed into the staging directory (RepackBlocks), then  *)
(* the staged bundle is published (RepackPublish).  A repack that fails    *)
(* before publish() drops the staging directory and returns its error; the *)
(* process may be killed in both phases.                                   *)
(***************************************************************************)
EXTENDS RepackBlocks, RepackPublish

repackVars == <<vars, blockVars>>

RepackInit == Init /\ TransformInit

\* The loop over the blocks and the table of contents, in the staging directory.
StageStep ==
    /\ pc # "killed"
    /\ Transform
    /\ UNCHANGED vars

\* `?` in repack_iostore: the TempDir is dropped, publish() is never called.
GiveUp ==
    /\ status = "failed"
    /\ pc = "backup"
    /\ pc' = "drop_err"
    /\ UNCHANGED <<original, target, backup, staged, current, backups, published,
                   rollback_errors>>
    /\ UNCHANGED blockVars

PublishStep == status = "staged" /\ Next /\ UNCHANGED blockVars

\* The drop of the staging directory after an early error.
DropStep ==
    /\ status = "failed"
    /\ (\E e \in Exts : DropFile(e)) \/ Returned
    /\ UNCHANGED blockVars

KilledEarly == status # "staged" /\ Killed /\ UNCHANGED blockVars

RepackDone == Ended /\ UNCHANGED repackVars

RepackNext == StageStep \/ GiveUp \/ PublishStep \/ DropStep \/ KilledEarly \/ RepackDone

RepackSpec == RepackInit /\ [][RepackNext]_repackVars

-----------------------------------------------------------------------------
\* What replaces the user's files holds the same payload: from the moment one
\* file of the new bundle stands at the destination, the whole bundle was staged
\* and every chunk that could be read from the input reads as the same data from
\* it, under the new method and key.  A block reused under another method, a
\* method left out of the new list or an offset beyond 40 bits would break it.
PublishedReadsBack ==
    \/ \A e \in Exts : target[e] # "new"
    \/ status = "staged" /\ PayloadPreserved

\* While the loop runs the block table is half rewritten and no entry is read
\* twice; blocks already in the wanted form go through verbatim, so that turning
\* encryption on and off again is the identity.
RewrittenInPlace == TransformTypeOK /\ TableHalfRewritten /\ ReusedVerbatim
=============================================================================
