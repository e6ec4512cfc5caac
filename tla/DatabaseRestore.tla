-------------------------- MODULE DatabaseRestore --------------------------
(***************************************************************************)
(* ChangeFeed with a database backup and its restore (docs/deployment.md,  *)
(* "Restoration and rollback"): the server's tables go back to what they   *)
(* were while the pages and their saved copies do not.  No code does this; *)
(* the backup and the restore are an operator's commands.                  *)
(***************************************************************************)
EXTENDS ChangeFeed

VARIABLE backup  \* the tables a backup holds

NoBackup == [changeSeq |-> 0]

TakeBackup ==
    /\ backup = NoBackup
    /\ changeSeq > 0
    /\ backup' = [changeSeq |-> changeSeq, lists |-> lists, items |-> items,
                  deletions |-> deletions, prunedSeq |-> prunedSeq, floors |-> floors]
    /\ UNCHANGED vars

\* The server is stopped for it: no request is out.
RestoreBackup ==
    /\ backup # NoBackup
    /\ phase = "idle"
    /\ changeSeq' = backup.changeSeq
    /\ lists' = backup.lists
    /\ items' = backup.items
    /\ deletions' = backup.deletions
    /\ prunedSeq' = backup.prunedSeq
    /\ floors' = backup.floors
    /\ backup' = NoBackup
    /\ UNCHANGED clientVars

RestoreInit == Init /\ backup = NoBackup

RestoreNext ==
    \/ TakeBackup
    \/ RestoreBackup
    \/ Next /\ UNCHANGED backup

RestoreSpec == RestoreInit /\ [][RestoreNext]_<<vars, backup>>

\* "A restored database must not leave clients with phantom data"
\* (docs/background/svelte-frontend-rewrite.md, decision 25): a page that has
\* just merged an answer of the restored server shows the restored room.
RestoreLeavesNoPhantom ==
    phase = "saving" /\ ~stale /\ store.seq = changeSeq => Sees(store)
=============================================================================
