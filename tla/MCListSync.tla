----------------------------- MODULE MCListSync ------------------------------
(* Instances of ListSync for TLC. *)
EXTENDS ListSync

CONSTANTS t1, t2

Account(mal, titles, ops, n, fs) ==
  [mal |-> mal, titles |-> titles, ops |-> ops, acts |-> n, faults |-> fs, atMost |-> 1]

\* Two titles under edits, a MAL list of them read page by page; then one, with more of what
\* the user can do and every fault that a sync survives.  An exclusion table that cannot
\* be read comes with nothing excluded.
AccountPlans ==
  { Account(FALSE, {t1, t2}, {"edit", "pin"}, 2, {}),
    Account(TRUE, {t1, t2}, {"edit"}, 2, {"fetch", "page"}),
    Account(TRUE, {t2}, {"edit", "remove"}, 2, {"write"}),
    Account(FALSE, {t1}, {"add", "remove", "allow"}, 3, {"write"}),
    Account(FALSE, {t1}, {"link", "edit", "now", "pin"}, 3, {}),
    Account(FALSE, {t1}, SyncOps, 2, {"fetch", "write", "restart"}),
    Account(FALSE, {t1, t2}, {"edit"}, 2, {"load"}) }
==============================================================================
