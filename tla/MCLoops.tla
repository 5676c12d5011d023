------------------------------- MODULE MCLoops -------------------------------
(* One instance for two parts of the supervised loops: what the picker's sweep  *)
(* does to adds that are under way, and when any of the scheduled tasks runs    *)
(* and what its row says.  They share no state, so a behaviour belongs to one   *)
(* of them, and the other's variables keep their first value.                   *)
EXTENDS MCPendingGrabs, TaskRuns

VARIABLE half

pickerVars == vars

Run(tasks, c, p, n) == [tasks |-> tasks, clicks |-> c, panics |-> p, toggles |-> n]

\* Each task by itself; the refresh and the rebuild of the metadata share a lock.
RunPlans ==
  { Run({t}, 2, 1, 0) : t \in {"airing_refresh", "library_classify", "backup", "cleanup",
                              "anibridge_refresh"} }
  \cup { Run({"metadata_refresh", "metadata_rebuild"}, 2, 1, 0),
         Run({"rss_sync"}, 1, 0, 1), Run({"external_sync"}, 1, 1, 0),
         Run({"upgrade_search"}, 2, 0, 1), Run({"post_processing"}, 2, 1, 0) }

LoopsInit ==
  /\ Init /\ TaskInit
  /\ \/ half = "picker" /\ taskPlan = CHOOSE r \in TaskPlans : TRUE
     \/ half = "tasks"

LoopsNext ==
  \/ half = "picker" /\ Next /\ UNCHANGED <<half, taskVars>>
  \/ half = "tasks" /\ TaskNext /\ UNCHANGED <<half, pickerVars>>

Picker(A) == half = "picker" /\ A
Loops(A) == half = "tasks" /\ A

\* Fairness of PendingGrabs and TaskFairness, each in its own half
LoopsFairness ==
  /\ \A p \in Previews : /\ WF_pickerVars(Picker(PreviewStep(p)))
                        /\ WF_pickerVars(Picker(TtlElapses(p)))
  /\ \A r \in Requests : WF_pickerVars(Picker(RequestStep(r)))
  /\ WF_pickerVars(Picker(SweepStep))
  /\ WF_taskVars(Loops(TimePasses)) /\ WF_taskVars(Loops(Boot)) /\ WF_taskVars(Loops(StartLoops))
  /\ WF_taskVars(Loops(\E t \in group : LoopTurns(t) \/ Respawn(t)))
  /\ \A a \in Actors : WF_taskVars(Loops(\E t \in group : Executes(t, a)))

LoopsSpec == LoopsInit /\ [][LoopsNext]_<<half, pickerVars, taskVars>> /\ LoopsFairness

\* What AutoRunsKeepComing of TaskRuns says, of the behaviours that are about it: the
\* automatic runs of a task that is on keep starting across restarts without end.
LoopsKeepRunning == []<>(half = "picker" \/ AutoRunsUnderWay)
==============================================================================
