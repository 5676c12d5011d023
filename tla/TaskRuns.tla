------------------------------- MODULE TaskRuns -------------------------------
(* The scheduled tasks: the supervised loops of main.rs, the Run now handlers  *)
(* of handlers/system, the row of scheduled_task_runs they both write, and the *)
(* boot that recovers it.  A loop and a handler are programs over the same     *)
(* statements; what a task works on is left out.  The interval of a task       *)
(* survives a restart only in its row.                                         *)
(*                                                                             *)
(* Time passes in parts of a minute and stands still while a timer is due.     *)
(* Only the work of a run takes time.                                          *)
(* Ages stop at a cap past which nothing is told apart; a task that never      *)
(* finished is as overdue as one at the cap.  The clock is not set back and    *)
(* the writes of the row, whose errors the code drops, succeed.                *)
EXTENDS Naturals, Sequences, FiniteSets

CONSTANTS
  TaskPlans,     \* tasks, and how often users and panics strike them: a behaviour has one
  Clickers,      \* Run now requests a task can have at a time
  Period,        \* minutes between automatic runs
  MinuteParts,   \* parts of a minute told apart
  StartupDelay,  \* MIN_STARTUP_DELAY of the classify sweep, in minutes
  MinUptime,     \* a process lives at least this many parts of a minute
  MaxErrors,     \* consecutive errors told apart, 5 in the code
  Ceiling        \* SUPERVISED_BACKOFF_CEILING_MIN of external_sync

ASSUME TaskRunsAssumptions ==
  /\ Period \in Nat \ {0} /\ MinuteParts \in Nat \ {0}
  /\ {StartupDelay, MinUptime, Ceiling} \subseteq Nat
  /\ MaxErrors \in 0 .. 5

------------------------------------------------------------------------------
(* The programs.  "probe" looks whether the lock is free; "try" takes it or    *)
(* gives up; "await" takes it when it can; "work" ends well or not.            *)

InsideLock == <<"mark", "try", "work", "unlock", "finish">>
NoLock == <<"mark", "work", "finish">>

RssLoop == InsideLock
RssRequest == InsideLock

MetadataLoop == InsideLock
MetadataRequest == <<"probe", "mark", "try", "work", "unlock", "finish">>

RebuildRequest == <<"probe", "mark", "try", "work", "unlock", "finish">>

AiringLoop == <<"await", "mark", "work", "finish", "unlock">>
AiringRequest == <<"try", "mark", "work", "finish", "unlock">>
ClassifyLoop == <<"mark", "await", "work", "unlock", "finish">>
ClassifyRequest == <<"try", "mark", "work", "finish", "unlock">>
SyncLoop == <<"mark", "await", "work", "unlock", "finish">>
SyncRequest == <<"try", "work", "unlock", "mark", "finish">>
UpgradeLoop == InsideLock
UpgradeRequest == InsideLock
PostProcessingLoop == InsideLock
PostProcessingRequest == InsideLock
BackupLoop == InsideLock
BackupRequest == InsideLock
CleanupLoop == NoLock
CleanupRequest == NoLock
AnibridgeLoop == NoLock
AnibridgeRequest == NoLock

LoopProgram ==
  [rss_sync |-> RssLoop, metadata_refresh |-> MetadataLoop, metadata_rebuild |-> <<>>,
   airing_refresh |-> AiringLoop, library_classify |-> ClassifyLoop,
   external_sync |-> SyncLoop, upgrade_search |-> UpgradeLoop,
   post_processing |-> PostProcessingLoop, backup |-> BackupLoop,
   cleanup |-> CleanupLoop, anibridge_refresh |-> AnibridgeLoop]

RequestProgram ==
  [rss_sync |-> RssRequest, metadata_refresh |-> MetadataRequest,
   metadata_rebuild |-> RebuildRequest, airing_refresh |-> AiringRequest,
   library_classify |-> ClassifyRequest, external_sync |-> SyncRequest,
   upgrade_search |-> UpgradeRequest, post_processing |-> PostProcessingRequest,
   backup |-> BackupRequest, cleanup |-> CleanupRequest,
   anibridge_refresh |-> AnibridgeRequest]

Tasks == DOMAIN LoopProgram
Loop == "loop"
Actors == {Loop} \cup Clickers

TaskPlan ==
  [tasks : {g \in SUBSET Tasks : Cardinality(g \ {"metadata_rebuild"}) = 1},   \* one loop
   clicks : Nat, panics : Nat, toggles : Nat]

ASSUME TaskRunsPlans == Loop \notin Clickers /\ TaskPlans \subseteq TaskPlan

\* sleep a period after each run; count interval ticks of a minute; run at every tick;
\* ask the backup folder every hour; no loop
Counting == {"rss_sync", "external_sync"}
EachTick == {"post_processing"}
Folder == {"backup"}
Manual == {"metadata_rebuild"}
Sleeping == Tasks \ (Counting \cup EachTick \cup Folder \cup Manual)

\* METADATA_SWEEP_LOCK is shared by the refresh and the rebuild
LockOf(t) == IF t = "metadata_rebuild" THEN "metadata_refresh" ELSE t

\* what the user can switch off: rss_enabled, upgrade_search_enabled, the linked account
Switchable == {"rss_sync", "upgrade_search", "external_sync"}

\* run_to_folder_tracked runs in its request; every other handler is detached_task's
Attached == {"backup"}

\* a panic of the rebuild is joined inside the task that finishes the row
Contained == {"metadata_rebuild"}

------------------------------------------------------------------------------
VARIABLES
  taskPlan,   \* what this behaviour may contain
  process,    \* "down"; "recovered": the rows are, the loops are not started; "up"
  uptime,     \* of the process
  row,        \* scheduled_task_runs.last_status
  age,        \* time since last_finished_at
  lock,       \* whom each lock is held by
  pc,         \* the next statement of each actor; 0 when it has none
  spawned,    \* the supervised loop runs: it has not panicked
  wait,       \* time left to sleep, or to the next interval tick
  pend,       \* interval ticks that are due
  counter,    \* minutes_since_last
  errors,     \* consecutive_errors
  enabled,    \* what the user switched on
  clicks, panics, toggles,   \* counters
  \* history, read by properties only
  since,      \* time since the loop last wrote mark_started; at the cap after a panic
  lost        \* a run of this process panicked with its row marked

processVars == <<process, uptime, lock, pc, spawned>>
timerVars == <<wait, pend, counter, errors>>
rowVars == <<row, age>>
strikeVars == <<clicks, panics, toggles>>
historyVars == <<since, lost>>
taskVars == <<taskPlan, processVars, timerVars, rowVars, enabled, strikeVars, historyVars>>

group == taskPlan.tasks   \* the tasks of this behaviour

\* 1i64 << n, for the exponents that min(5) leaves
Shifted(n) == <<1, 2, 4, 8, 16, 32>>[n + 1]

AgeCap == Period * MinuteParts
CounterCap == Period * Shifted(MaxErrors)
Capped(n, cap) == IF n < cap THEN n ELSE cap

Nobody == <<"nobody", "nobody">>
RowStatuses == {"idle", "running", "ended"}   \* ended: ok, warn or error

Program(t, a) == IF a = Loop THEN LoopProgram[t] ELSE RequestProgram[t]
Statement(t, a) == IF pc[t][a] = 0 THEN "none" ELSE Program(t, a)[pc[t][a]]
At(t, a, s) == Statement(t, a) = s

\* an actor has written mark_started and has mark_finished before it
Marked(t, a) ==
  \E i \in 1 .. pc[t][a] - 1, j \in pc[t][a] .. Len(Program(t, a)) :
    /\ pc[t][a] # 0
    /\ Program(t, a)[i] = "mark" /\ Program(t, a)[j] = "finish"

------------------------------------------------------------------------------
(* Timers *)

\* Mutant of MinutesSinceLastFinished: rounded up
MinutesSinceLastFinishedUp(t) == (age[t] + MinuteParts - 1) \div MinuteParts

\* minutes_since_last_finished: whole minutes, rounded down
MinutesSinceLastFinished(t) == age[t] \div MinuteParts

\* Mutant of DurationUntilNextRun: what the row says is not read
DurationUntilNextRunFresh(t) == Period * MinuteParts

\* duration_until_next_run
DurationUntilNextRun(t) ==
  IF MinutesSinceLastFinished(t) >= Period THEN 0
  ELSE (Period - MinutesSinceLastFinished(t)) * MinuteParts

Ticking(t) == t \in Counting \cup EachTick

\* what a loop sleeps when it starts; an interval ticks at once
FirstWait(t) ==
  CASE t \in Sleeping ->
         LET settle == IF t = "library_classify" THEN StartupDelay * MinuteParts ELSE 0
         IN IF DurationUntilNextRun(t) > settle THEN DurationUntilNextRun(t) ELSE settle
    [] t \in Folder \cup Counting \cup EachTick -> MinuteParts
    [] t \in Manual -> 0

\* the loops of ts start with fresh timers
Spawn(ts) ==
  /\ spawned' = [t \in group |-> IF t \in ts THEN t \notin Manual ELSE spawned[t]]
  /\ wait' = [t \in group |-> IF t \in ts THEN FirstWait(t) ELSE wait[t]]
  /\ pend' = [t \in group |-> IF t \in ts /\ Ticking(t) THEN 1 ELSE pend[t]]
  /\ counter' = [t \in group |-> IF t \in ts \cap Counting THEN MinutesSinceLastFinished(t)
                                ELSE counter[t]]
  /\ errors' = [t \in group |-> IF t \in ts THEN 0 ELSE errors[t]]

\* 2^errors periods after an error
Backoff(t) ==
  LET longest == IF Ceiling > Period THEN Ceiling ELSE Period
      periods == Period * Shifted(errors[t])
  IN IF t = "external_sync" /\ periods > longest THEN longest ELSE periods

Asleep(t) == spawned[t] /\ pc[t][Loop] = 0
Due(t) == Asleep(t) /\ IF Ticking(t) THEN pend[t] > 0 ELSE wait[t] = 0

Start(t) == pc' = [pc EXCEPT ![t][Loop] = 1]

\* one turn of a loop that sleeps a period between its runs
SleeperWakes(t) ==
  /\ Due(t) /\ t \in Sleeping
  /\ \/ /\ enabled[t]
        /\ Start(t)
        /\ UNCHANGED wait
     \/ /\ ~enabled[t]
        /\ wait' = [wait EXCEPT ![t] = Period * MinuteParts]
        /\ UNCHANGED pc
  /\ UNCHANGED <<taskPlan, process, uptime, lock, spawned, pend, counter, errors, rowVars, enabled,
                 strikeVars, historyVars>>

RunIsDue(t, minutes) == minutes >= Backoff(t) /\ enabled[t]

\* one tick of an interval
IntervalTicks(t) ==
  /\ Due(t) /\ Ticking(t)
  /\ pend' = [pend EXCEPT ![t] = @ - 1]
  /\ \/ t \in EachTick /\ Start(t) /\ UNCHANGED counter
     \/ LET minutes == Capped(counter[t] + 1, CounterCap) IN
        /\ t \in Counting
        /\ IF RunIsDue(t, minutes)
           THEN Start(t) /\ counter' = [counter EXCEPT ![t] = 0]
           ELSE UNCHANGED pc /\ counter' = [counter EXCEPT ![t] = minutes]
  /\ UNCHANGED <<taskPlan, process, uptime, lock, spawned, wait, errors, rowVars, enabled, strikeVars, historyVars>>

\* the hourly look into the backup folder, whose newest archive is old enough or not
FolderLooked(t) ==
  /\ Due(t) /\ t \in Folder
  /\ \/ Start(t) /\ UNCHANGED wait
     \/ wait' = [wait EXCEPT ![t] = Period * MinuteParts] /\ UNCHANGED pc
  /\ UNCHANGED <<taskPlan, process, uptime, lock, spawned, pend, counter, errors, rowVars, enabled,
                 strikeVars, historyVars>>

\* time passes for the timers of t
Elapsed(t) ==
  IF ~spawned[t] THEN <<wait[t], pend[t]>>
  ELSE IF ~Ticking(t) THEN <<IF pc[t][Loop] = 0 THEN wait[t] - 1 ELSE wait[t], pend[t]>>
  ELSE IF wait[t] > 1 THEN <<wait[t] - 1, pend[t]>>
  ELSE <<MinuteParts, Capped(pend[t] + 1, CounterCap)>>

\* an actor has a statement to execute that takes no time
Busied(t, a) ==
  /\ Statement(t, a) \notin {"none", "work"}
  /\ Statement(t, a) = "await" => lock[LockOf(t)] = Nobody

TimePasses ==
  /\ process # "recovered"
  /\ \A t \in group : ~Due(t) /\ \A a \in Actors : ~Busied(t, a)
  /\ uptime' = IF process = "up" THEN Capped(uptime + 1, MinUptime) ELSE 0
  /\ age' = [t \in group |-> Capped(age[t] + 1, AgeCap)]
  /\ since' = [t \in group |-> Capped(since[t] + 1, AgeCap)]
  /\ wait' = [t \in group |-> Elapsed(t)[1]]
  /\ pend' = [t \in group |-> Elapsed(t)[2]]
  /\ UNCHANGED <<taskPlan, process, lock, pc, spawned, counter, errors, row, enabled, strikeVars, lost>>

------------------------------------------------------------------------------
(* The statements of a loop or a handler *)

\* the program ends: a loop that sleeps a period does so now
Ends(t, a) ==
  wait' = IF a = Loop /\ ~Ticking(t) THEN [wait EXCEPT ![t] = Period * MinuteParts] ELSE wait

GoTo(t, a, i) ==
  /\ pc' = [pc EXCEPT ![t][a] = IF i > Len(Program(t, a)) THEN 0 ELSE i]
  /\ IF i > Len(Program(t, a)) THEN Ends(t, a) ELSE UNCHANGED wait

Advance(t, a) == GoTo(t, a, pc[t][a] + 1)

FinishOf(t, a) == CHOOSE j \in 1 .. Len(Program(t, a)) : Program(t, a)[j] = "finish"

Release(t, a) ==
  lock' = [lock EXCEPT ![LockOf(t)] = IF @ = <<t, a>> THEN Nobody ELSE @]

\* Mutant of CountOutcome: the exponent of the backoff has no bound
CountOutcomeUncapped(t, a, failed) ==
  errors' = IF a # Loop \/ t \notin Counting THEN errors
            ELSE [errors EXCEPT ![t] = IF failed THEN @ + 1 ELSE 0]

\* a loop that counts minutes also counts its errors, as far as min(5) tells them apart
CountOutcome(t, a, failed) ==
  errors' = IF a # Loop \/ t \notin Counting THEN errors
            ELSE [errors EXCEPT ![t] = IF failed THEN Capped(@ + 1, MaxErrors) ELSE 0]

MarkStarted(t, a) ==
  /\ At(t, a, "mark")
  /\ row' = [row EXCEPT ![t] = "running"]
  /\ Advance(t, a)
  /\ since' = IF a = Loop THEN [since EXCEPT ![t] = 0] ELSE since
  /\ UNCHANGED <<taskPlan, process, uptime, lock, spawned, pend, counter, errors, age, enabled,
                 strikeVars, lost>>

MarkFinished(t, a) ==
  /\ At(t, a, "finish")
  /\ row' = [row EXCEPT ![t] = "ended"]
  /\ age' = [age EXCEPT ![t] = 0]
  /\ lost' = [lost EXCEPT ![t] = FALSE]
  /\ Advance(t, a)
  /\ UNCHANGED <<taskPlan, process, uptime, lock, spawned, pend, counter, errors, enabled,
                 strikeVars, since>>

TakeLock(t, a) ==
  /\ At(t, a, "try") \/ At(t, a, "await")
  /\ lock[LockOf(t)] = Nobody
  /\ lock' = [lock EXCEPT ![LockOf(t)] = <<t, a>>]
  /\ Advance(t, a)
  /\ UNCHANGED <<taskPlan, process, uptime, spawned, pend, counter, errors, rowVars, enabled,
                 strikeVars, historyVars>>

\* Mutant of AfterBusy: the early return skips mark_finished
AfterBusyReturns(t, a) == Len(Program(t, a)) + 1

\* a run that finds the lock taken is over; a marked one writes its outcome
AfterBusy(t, a) == IF Marked(t, a) THEN FinishOf(t, a) ELSE Len(Program(t, a)) + 1

Probe(t, a) ==
  /\ At(t, a, "probe")
  /\ IF lock[LockOf(t)] = Nobody THEN Advance(t, a) ELSE GoTo(t, a, AfterBusy(t, a))
  /\ UNCHANGED <<taskPlan, process, uptime, lock, spawned, pend, counter, errors, rowVars, enabled,
                 strikeVars, historyVars>>

FindsBusy(t, a) ==
  /\ At(t, a, "try")
  /\ lock[LockOf(t)] # Nobody
  /\ GoTo(t, a, AfterBusy(t, a))
  /\ CountOutcome(t, a, TRUE)
  /\ UNCHANGED <<taskPlan, process, uptime, lock, spawned, pend, counter, rowVars, enabled, strikeVars,
                 historyVars>>

\* the work ends; a manual watch-list sync that failed answers without a mark
Work(t, a) ==
  /\ At(t, a, "work")
  /\ \E failed \in BOOLEAN :
       /\ CountOutcome(t, a, failed)
       /\ IF failed /\ t = "external_sync" /\ a # Loop
          THEN GoTo(t, a, Len(Program(t, a)) + 1) /\ Release(t, a)
          ELSE Advance(t, a) /\ UNCHANGED lock
  /\ UNCHANGED <<taskPlan, process, uptime, spawned, pend, counter, rowVars, enabled, strikeVars,
                 historyVars>>

Unlock(t, a) ==
  /\ At(t, a, "unlock")
  /\ Release(t, a)
  /\ Advance(t, a)
  /\ UNCHANGED <<taskPlan, process, uptime, spawned, pend, counter, errors, rowVars, enabled,
                 strikeVars, historyVars>>

Executes(t, a) ==
  \/ MarkStarted(t, a) \/ MarkFinished(t, a) \/ TakeLock(t, a) \/ Probe(t, a)
  \/ FindsBusy(t, a) \/ Work(t, a) \/ Unlock(t, a)

------------------------------------------------------------------------------
(* The user and what goes wrong *)

\* Run now; the watch-list sync asks for a linked account first
Click(t, r) ==
  /\ process = "up" /\ pc[t][r] = 0
  /\ t = "external_sync" => enabled[t]
  /\ clicks < taskPlan.clicks /\ clicks' = clicks + 1
  /\ pc' = [pc EXCEPT ![t][r] = 1]
  /\ UNCHANGED <<taskPlan, process, uptime, lock, spawned, timerVars, rowVars, enabled, panics,
                 toggles, historyVars>>

Toggle(t) ==
  /\ process = "up" /\ t \in Switchable
  /\ toggles < taskPlan.toggles /\ toggles' = toggles + 1
  /\ enabled' = [enabled EXCEPT ![t] = ~@]
  /\ UNCHANGED <<taskPlan, processVars, timerVars, rowVars, clicks, panics, historyVars>>

\* the client of a handler that runs in its request goes away
Abandon(t, r) ==
  /\ t \in Attached /\ pc[t][r] # 0
  /\ pc' = [pc EXCEPT ![t][r] = 0]
  /\ Release(t, r)
  /\ UNCHANGED <<taskPlan, process, uptime, spawned, timerVars, rowVars, enabled, strikeVars,
                 historyVars>>

\* the work panics: the unwinding drops the guard and, in a loop, ends the loop
Panic(t, a) ==
  /\ At(t, a, "work")
  /\ panics < taskPlan.panics /\ panics' = panics + 1
  /\ Release(t, a)
  /\ pc' = [pc EXCEPT ![t][a] = IF t \in Contained THEN FinishOf(t, a) ELSE 0]
  /\ lost' = [lost EXCEPT ![t] = (Marked(t, a) /\ t \notin Contained) \/ @]
  /\ spawned' = IF a = Loop THEN [spawned EXCEPT ![t] = FALSE] ELSE spawned
  /\ since' = IF a = Loop THEN [since EXCEPT ![t] = AgeCap] ELSE since
  /\ UNCHANGED <<taskPlan, process, uptime, timerVars, rowVars, enabled, clicks, toggles>>

\* supervise starts the loop again, which reads the row afresh
Respawn(t) ==
  /\ process = "up" /\ t \notin Manual /\ ~spawned[t]
  /\ Spawn({t})
  /\ UNCHANGED <<taskPlan, process, uptime, lock, pc, rowVars, enabled, strikeVars, historyVars>>

NoActors == [t \in group |-> [a \in Actors |-> 0]]

None == [t \in group |-> 0]

Crash ==
  /\ process = "up" /\ uptime = MinUptime
  /\ process' = "down" /\ uptime' = 0
  /\ lock' = [t \in group |-> Nobody]
  /\ pc' = NoActors
  /\ spawned' = [t \in group |-> FALSE]
  /\ wait' = None /\ pend' = None /\ counter' = None /\ errors' = None
  /\ lost' = [t \in group |-> FALSE]
  /\ UNCHANGED <<taskPlan, rowVars, enabled, strikeVars, since>>

\* the rows recover_stuck_running ends
Recovered == {t \in group : row[t] = "running"}

Boot ==
  /\ process = "down"
  /\ process' = "recovered"
  /\ row' = [t \in group |-> IF t \in Recovered THEN "ended" ELSE row[t]]
  /\ age' = [t \in group |-> IF t \in Recovered THEN 0 ELSE age[t]]
  /\ UNCHANGED <<taskPlan, uptime, lock, pc, spawned, timerVars, enabled, strikeVars, historyVars>>

StartLoops ==
  /\ process = "recovered"
  /\ process' = "up"
  /\ Spawn(group)
  /\ UNCHANGED <<taskPlan, uptime, lock, pc, rowVars, enabled, strikeVars, historyVars>>

------------------------------------------------------------------------------
TaskInit ==
  /\ taskPlan \in TaskPlans
  /\ process = "recovered" /\ uptime = 0
  /\ row = [t \in group |-> "idle"]
  /\ age = [t \in group |-> AgeCap]
  /\ lock = [t \in group |-> Nobody]
  /\ pc = NoActors
  /\ spawned = [t \in group |-> FALSE]
  /\ wait = None /\ pend = None /\ counter = None /\ errors = None
  /\ enabled = [t \in group |-> TRUE]
  /\ clicks = 0 /\ panics = 0 /\ toggles = 0
  /\ since = [t \in group |-> AgeCap]
  /\ lost = [t \in group |-> FALSE]

LoopTurns(t) == SleeperWakes(t) \/ IntervalTicks(t) \/ FolderLooked(t)

TaskNext ==
  \/ \E t \in group :
       \/ LoopTurns(t) \/ Toggle(t) \/ Respawn(t)
       \/ \E a \in Actors : Executes(t, a) \/ Panic(t, a)
       \/ \E r \in Clickers : Click(t, r) \/ Abandon(t, r)
  \/ TimePasses \/ Crash \/ Boot \/ StartLoops

\* every run ends, supervise restarts a loop, a process that went down is started again
TaskFairness ==
  /\ WF_taskVars(TimePasses) /\ WF_taskVars(Boot) /\ WF_taskVars(StartLoops)
  /\ WF_taskVars(\E t \in group : LoopTurns(t) \/ Respawn(t))
  /\ \A a \in Actors : WF_taskVars(\E t \in group : Executes(t, a))

TaskSpec == TaskInit /\ [][TaskNext]_taskVars /\ TaskFairness

------------------------------------------------------------------------------
(* Properties *)

TaskTypeOK ==
  /\ taskPlan \in TaskPlans
  /\ process \in {"down", "recovered", "up"} /\ uptime \in 0 .. MinUptime
  /\ row \in [group -> RowStatuses] /\ age \in [group -> 0 .. AgeCap]
  /\ lock \in [group -> {Nobody} \cup (group \X Actors)]
  /\ pc \in [group -> [Actors -> 0 .. 6]]
  /\ spawned \in [group -> BOOLEAN] /\ enabled \in [group -> BOOLEAN]
  /\ wait \in [group -> Nat] /\ pend \in [group -> Nat]
  /\ counter \in [group -> 0 .. CounterCap + AgeCap] /\ errors \in [group -> 0 .. MaxErrors]
  /\ clicks \in 0 .. taskPlan.clicks /\ panics \in 0 .. taskPlan.panics /\ toggles \in 0 .. taskPlan.toggles
  /\ since \in [group -> 0 .. AgeCap] /\ lost \in [group -> BOOLEAN]

\* Once the rows are recovered a row that says running has a run of this process behind
\* it that will write its outcome, or one that panicked: the busy answers, the refusals
\* and the restarts all leave it ended.  Manual backups are the exception (BackupRowLive).
RunningIsLive ==
  process # "down" =>
    \A t \in group \ Attached :
      row[t] = "running" => lost[t] \/ \E a \in Actors : Marked(t, a)

\* The row of airing_refresh says running for as long as a run is in progress, whoever
\* else clicks Run now meanwhile: its loop and its handler mark under the lock.
AiringRowHonest ==
  \A t \in group \cap {"airing_refresh"}, a \in Actors : Marked(t, a) => row[t] = "running"

\* The row of a task tells whether it runs, through busy answers, races of a loop and
\* a Run now for the lock, panics and restarts.
RowsAreHonest == RunningIsLive /\ AiringRowHonest

\* Two automatic runs of a loop that sleeps between them start a period apart, whatever
\* restarts and Run now clicks come in between; after a panic the row decides.
AutoRunsSpaced ==
  [][\A t \in group \cap Sleeping :
       MarkStarted(t, Loop) => since[t] >= Period * MinuteParts]_taskVars

AutoRunsUnderWay == \A t \in group \ (Folder \cup Manual) : Marked(t, Loop) \/ ~enabled[t]

\* Automatic runs keep starting while the task is on, even if the process restarts
\* for ever with less uptime than a period.
AutoRunsKeepComing == []<>AutoRunsUnderWay

\* What the doc of detached_task says of a handler, mark_finished always fires, of the
\* manual backup: a client that leaves does not leave the row running.
BackupRowLive ==
  process # "down" =>
    \A t \in group \cap Attached :
      row[t] = "running" => lost[t] \/ \E a \in Actors : Marked(t, a)

\* What the comments of the classify sweep say of its lock: a Run now click does not
\* flip the status of the row while the sweep is running.
ClassifyRowHonest ==
  \A t \in group \cap {"library_classify"}, a \in Actors :
    At(t, a, "work") => row[t] = "running"

\* What the label of the task says, Every n minutes: two automatic runs of a loop that
\* counts interval ticks start at least n minutes apart.
CountedRunsSpaced ==
  [][\A t \in group \cap Counting :
       MarkStarted(t, Loop) => since[t] >= Period * MinuteParts]_taskVars
==============================================================================
