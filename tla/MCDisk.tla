------------------------------- MODULE MCDisk --------------------------------
(* One instance for the two parts of Ryokan that move what a user has only one *)
(* copy of: the staged restore (the database) and the recycle bin (the videos). *)
(* They share no state, so a behaviour belongs to one of them, and the other's  *)
(* variables keep their first value.                                            *)
EXTENDS StagedRestore, RecycleBin

VARIABLE part

Bound(b, c, f, r, k, d) ==
  [boots |-> b, crashes |-> c, faults |-> f, runs |-> r, cancels |-> k, deletes |-> d]

\* A crash and a failing call in either order; crashes only; failing calls only; the
\* backup folder at work around the uploads.
RestoreBudgets == {Bound(3, 1, 1, 0, 1, 0), Bound(4, 2, 0, 0, 1, 0), Bound(2, 0, 2, 0, 0, 0),
                   Bound(2, 1, 0, 2, 0, 0), Bound(1, 1, 0, 1, 1, 1)}

Mix(ops, bin, n, fs, c) ==
  [ops |-> ops, bin |-> bin, requests |-> n, faults |-> fs, crashes |-> c]

\* A few kinds of requests, with the faults that matter to them; then all of them, in pairs.
BinMixes ==
  { Mix({"delete", "series", "tick", "restore"}, "same", 4, {"mkdir", "undo"}, 1),
    Mix({"delete", "tick", "sweep", "restore"}, "same", 4, {"move", "place"}, 1),
    Mix({"delete", "tick", "restore"}, "same", 4, {"manifest"}, 0),
    Mix({"delete", "restore", "deleteNow", "empty", "purge"}, "same", 4, {"move"}, 1),
    Mix({"delete", "manual", "restore"}, "same", 4, {"mkdir", "undo"}, 1),
    Mix({"tick", "manual", "restore"}, "same", 4, {}, 0),
    Mix({"delete", "restore", "deleteNow"}, "cross", 4, {"move", "unlink"}, 1),
    Mix({"delete", "tick", "empty"}, "cross", 3, {"unlink"}, 1),
    Mix({"series", "restore", "manual"}, "cross", 3, {"move"}, 1),
    Mix({"series", "restore"}, "same", 3, {"manifest"}, 1),
    Mix({"delete", "restore"}, "cross", 2, {"manifest"}, 1),
    Mix({"series", "delete", "purge"}, "cross", 4, {"move"}, 1),
    Mix({"tick", "sweep", "restore", "purge"}, "cross", 4, {"move", "undo"}, 1),
    Mix({"delete", "series", "tick", "sweep"}, "off", 4, {}, 1),
    Mix({"delete", "manual"}, "off", 4, {"place"}, 1) }
  \cup { Mix(Ops, bin, 2, BinFaults, 1) : bin \in {"same", "cross", "off"} }

Restores == RestoreInit /\ BinInit /\ plan = CHOOSE m \in BinMixes : TRUE
Recycles == RestoreInit /\ BinInit /\ budget = (CHOOSE b \in Budgets : TRUE) /\ ~keyElsewhere

DiskInit == \/ part = "restore" /\ Restores
            \/ part = "bin" /\ Recycles

DiskNext == \/ part = "restore" /\ RestoreNext /\ UNCHANGED <<part, binVars>>
            \/ part = "bin" /\ BinNext /\ UNCHANGED <<part, restoreVars>>

\* Both parts are well-formed: files, boots and requests of the restore; entries, jobs and
\* requests of the bin.
DiskTypeOK == RestoreTypeOK /\ BinTypeOK

DiskSpec == DiskInit /\ [][DiskNext]_<<part, restoreVars, binVars>> /\ RestoreFairness
==============================================================================
