------------------------------ MODULE MCMisgrab ------------------------------
(* One instance for two parts that share no state: the misgrab guardrails, and   *)
(* the pace of the requests to AniList with the metadata sweep.  A behaviour     *)
(* belongs to one of them, and the other's variables keep their first value.     *)
EXTENDS Misgrab, AniListPace

VARIABLE part

Of(ops, n, k, fs, m) == [ops |-> ops, grabs |-> n, kind |-> k, faults |-> fs, atMost |-> m]

\* One user action at a time against the judges, the import and the sweep; then fewer grabs
\* with every fault.
MisgrabPlans ==
  { Of({"import", "restore"}, 2, "plain", {}, 0),
    Of({"restore"}, 2, "plain", {"client", "database"}, 1),
    Of({"restore", "cancel"}, 1, "ruled", {"database", "restart"}, 2),
    Of({"dismiss", "cancel"}, 2, "usenet", {}, 0),
    Of({"import", "dismiss", "restore"}, 1, "plain", {"client", "database", "restart"}, 1) }

GuardInit ==
  /\ MisgrabInit /\ PaceInit
  /\ \/ part = "misgrab"
     \/ part = "pace" /\ plan = CHOOSE p \in MisgrabPlans : TRUE

GuardNext ==
  \/ part = "misgrab" /\ MisgrabNext /\ UNCHANGED <<part, paceVars>>
  \/ part = "pace" /\ PaceNext /\ UNCHANGED <<part, misgrabVars>>

GuardSpec ==
  /\ GuardInit /\ [][GuardNext]_<<part, misgrabVars, paceVars>>
  /\ WF_misgrabVars(part = "misgrab" /\ Sweep)
==============================================================================
