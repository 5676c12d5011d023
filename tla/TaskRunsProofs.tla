---------------------------- MODULE TaskRunsProofs -----------------------------
(* What the row of a scheduled task and the distance of its runs promise, for   *)
(* any plans, periods, settling delays, uptimes and backoffs.                   *)
EXTENDS TaskRuns, TLAPS

------------------------------------------------------------------------------
(* The programs *)

TaskNames == {"rss_sync", "metadata_refresh", "metadata_rebuild", "airing_refresh",
              "library_classify", "external_sync", "upgrade_search", "post_processing",
              "backup", "cleanup", "anibridge_refresh"}

LEMMA TaskNamed == Tasks = TaskNames
  BY DEF Tasks, LoopProgram, TaskNames

\* the program has one statement that marks the row, at m, and one that finishes it, at f
Shaped(p, m, f) ==
  /\ Len(p) \in 1 .. 6 /\ m \in 1 .. Len(p) /\ f \in 1 .. Len(p) /\ m < f
  /\ \A i \in 1 .. Len(p) : (p[i] = "mark" <=> i = m) /\ (p[i] = "finish" <=> i = f)

LEMMA ProgramsShaped ==
  /\ Shaped(InsideLock, 1, 5) /\ Shaped(NoLock, 1, 3)
  /\ Shaped(MetadataRequest, 2, 6) /\ Shaped(RebuildRequest, 2, 6)
  /\ Shaped(AiringLoop, 2, 4) /\ Shaped(AiringRequest, 2, 4)
  /\ Shaped(ClassifyLoop, 1, 5) /\ Shaped(ClassifyRequest, 2, 4)
  /\ Shaped(SyncLoop, 1, 5) /\ Shaped(SyncRequest, 4, 5)
  BY DEF Shaped, InsideLock, NoLock, MetadataRequest, RebuildRequest, AiringLoop, AiringRequest,
         ClassifyLoop, ClassifyRequest, SyncLoop, SyncRequest

\* Only the rebuild has no loop.
LEMMA LoopShaped ==
  \A t \in Tasks : IF t \in Manual THEN LoopProgram[t] = <<>>
                   ELSE \E m, f \in 1 .. 6 : Shaped(LoopProgram[t], m, f)
  <1>1. \A t \in TaskNames :
          IF t = "metadata_rebuild" THEN LoopProgram[t] = <<>>
          ELSE LoopProgram[t] \in {InsideLock, NoLock, AiringLoop, ClassifyLoop, SyncLoop}
    BY DEF TaskNames, LoopProgram, RssLoop, MetadataLoop, UpgradeLoop, PostProcessingLoop,
           BackupLoop, CleanupLoop, AnibridgeLoop
  <1>2. QED
    BY <1>1, TaskNamed, ProgramsShaped DEF Manual

LEMMA RequestShaped == \A t \in Tasks : \E m, f \in 1 .. 6 : Shaped(RequestProgram[t], m, f)
  <1>1. \A t \in TaskNames :
          RequestProgram[t] \in {InsideLock, NoLock, MetadataRequest, RebuildRequest,
                                 AiringRequest, ClassifyRequest, SyncRequest}
    BY DEF TaskNames, RequestProgram, RssRequest, UpgradeRequest, PostProcessingRequest,
           BackupRequest, CleanupRequest, AnibridgeRequest
  <1>2. QED
    BY <1>1, TaskNamed, ProgramsShaped

LEMMA ProgramsKnown ==
  ASSUME NEW t \in Tasks, NEW a \in Actors
  PROVE  /\ Len(Program(t, a)) \in 0 .. 6
         /\ IF t \in Manual /\ a = Loop THEN Program(t, a) = <<>>
            ELSE \E m, f \in 1 .. 6 : Shaped(Program(t, a), m, f)
  <1>1. ASSUME NEW p, NEW m, NEW f, Shaped(p, m, f)
        PROVE  Len(p) \in 0 .. 6
    BY <1>1 DEF Shaped
  <1>2. CASE a = Loop /\ t \in Manual
    <2>1. Program(t, a) = <<>>
      BY <1>2, LoopShaped DEF Program
    <2>2. QED
      BY <1>2, <2>1
  <1>3. CASE ~(a = Loop /\ t \in Manual)
    <2>1. \E m, f \in 1 .. 6 : Shaped(Program(t, a), m, f)
      BY <1>3, LoopShaped, RequestShaped DEF Program
    <2>2. Len(Program(t, a)) \in 0 .. 6
      BY <1>1, <2>1
    <2>3. QED
      BY <1>3, <2>1, <2>2
  <1>4. QED
    BY <1>2, <1>3

------------------------------------------------------------------------------
(* The inductive invariant *)

\* an actor is in its program, and a loop that does not exist never runs
StepsInProgram ==
  /\ \A t \in group, a \in Actors : pc[t][a] \in 0 .. Len(Program(t, a))
  /\ \A t \in group \cap Manual : ~spawned[t]

\* nobody works while the process is down or has not started its loops
IdleUnlessUp ==
  process # "up" => \A t \in group : ~spawned[t] /\ \A a \in Actors : pc[t][a] = 0

\* the loop and the handler of airing_refresh write their row under its lock
AiringLocked ==
  \A t \in group \cap {"airing_refresh"}, a \in Actors :
    pc[t][a] \in 2 .. 5 => lock[t] = <<t, a>>

RowInv ==
  TaskTypeOK /\ StepsInProgram /\ IdleUnlessUp /\ AiringLocked /\ RunningIsLive /\ AiringRowHonest

------------------------------------------------------------------------------
(* Data *)

LEMMA Numbers ==
  /\ Period \in Nat \ {0} /\ MinuteParts \in Nat \ {0} /\ MinUptime \in Nat
  /\ StartupDelay \in Nat /\ Ceiling \in Nat /\ MaxErrors \in 0 .. 5
  /\ AgeCap \in Nat /\ CounterCap \in Nat
  /\ \A n \in 0 .. 5 : Shifted(n) \in Nat \ {0}
  <1>1. AgeCap \in Nat
    BY TaskRunsAssumptions DEF AgeCap
  <1>2. \A n \in 0 .. 5 : Shifted(n) \in Nat \ {0}
    BY DEF Shifted
  <1>3. CounterCap \in Nat
    BY <1>2, TaskRunsAssumptions DEF CounterCap
  <1>4. QED
    BY <1>1, <1>2, <1>3, TaskRunsAssumptions

LEMMA PlanKnown ==
  ASSUME TaskTypeOK
  PROVE  /\ group \subseteq Tasks
         /\ {taskPlan.clicks, taskPlan.panics, taskPlan.toggles} \subseteq Nat
  BY TaskRunsPlans DEF TaskTypeOK, TaskPlan, group

LEMMA ActorsKnown == Loop \in Actors /\ Loop \notin Clickers /\ Clickers \subseteq Actors
  BY TaskRunsPlans DEF Actors

\* Whole minutes are no more than the time they are taken from.
LEMMA MinutesRoundDown ==
  ASSUME TaskTypeOK, NEW t \in group
  PROVE  /\ MinutesSinceLastFinished(t) \in Nat
         /\ MinutesSinceLastFinished(t) <= age[t]
         /\ MinutesSinceLastFinished(t) * MinuteParts <= age[t]
         /\ age[t] \in 0 .. AgeCap
  <1>1. age[t] \in 0 .. AgeCap /\ age[t] \in Nat
    BY Numbers DEF TaskTypeOK
  <1>2. \A n \in Nat : /\ n \div MinuteParts \in Nat /\ n \div MinuteParts <= n
                       /\ (n \div MinuteParts) * MinuteParts <= n
    BY Numbers
  <1>3. QED
    BY <1>1, <1>2 DEF MinutesSinceLastFinished

LEMMA FirstWaitTyped ==
  ASSUME TaskTypeOK, NEW t \in group
  PROVE  DurationUntilNextRun(t) \in Nat /\ FirstWait(t) \in Nat
  <1>1. DurationUntilNextRun(t) \in Nat
    BY Numbers, MinutesRoundDown DEF DurationUntilNextRun
  <1>2. t \in Sleeping \/ t \in Folder \cup Counting \cup EachTick \/ t \in Manual
    BY PlanKnown DEF Sleeping
  <1>3. ASSUME NEW settle \in Nat
        PROVE  (IF DurationUntilNextRun(t) > settle THEN DurationUntilNextRun(t) ELSE settle) \in Nat
    BY <1>1
  <1>4. (IF t = "library_classify" THEN StartupDelay * MinuteParts ELSE 0) \in Nat
    BY Numbers
  <1>5. QED
    BY <1>1, <1>2, <1>3, <1>4, Numbers DEF FirstWait

Moves(t, a, k) == pc' = [pc EXCEPT ![t][a] = k]

\* What an actor's step does to where the others are: nothing.
LEMMA OneMoves ==
  ASSUME TaskTypeOK, NEW t \in group, NEW a \in Actors, NEW k \in 0 .. 6, Moves(t, a, k)
  PROVE  /\ pc' \in [group -> [Actors -> 0 .. 6]] /\ pc'[t][a] = k
         /\ \A u \in group, b \in Actors : <<u, b>> # <<t, a>> => pc'[u][b] = pc[u][b]
  <1>1. pc \in [group -> [Actors -> 0 .. 6]]
    BY DEF TaskTypeOK
  <1>2. QED
    BY <1>1 DEF Moves

LEMMA GoesTo ==
  ASSUME TaskTypeOK, NEW t \in group, NEW a \in Actors, NEW i \in Nat, GoTo(t, a, i)
  PROVE  /\ pc' \in [group -> [Actors -> 0 .. 6]] /\ wait' \in [group -> Nat]
         /\ pc'[t][a] = IF i > Len(Program(t, a)) THEN 0 ELSE i
         /\ pc'[t][a] \in 0 .. Len(Program(t, a))
         /\ \A u \in group, b \in Actors : <<u, b>> # <<t, a>> => pc'[u][b] = pc[u][b]
  <1> DEFINE k == IF i > Len(Program(t, a)) THEN 0 ELSE i
  <1>1. Len(Program(t, a)) \in 0 .. 6
    BY PlanKnown, ProgramsKnown
  <1>2. k \in 0 .. 6 /\ k \in 0 .. Len(Program(t, a))
    <2>1. \A n \in 0 .. 6, j \in Nat : (IF j > n THEN 0 ELSE j) \in (0 .. 6) \cap (0 .. n)
      OBVIOUS
    <2>2. QED
      BY <1>1, <2>1
  <1>3. Moves(t, a, k)
    BY DEF GoTo, Moves
  <1>4. wait' \in [group -> Nat]
    BY Numbers DEF AgeCap, GoTo, Ends, TaskTypeOK
  <1> HIDE DEF k
  <1>5. /\ pc' \in [group -> [Actors -> 0 .. 6]] /\ pc'[t][a] = k
        /\ \A u \in group, b \in Actors : <<u, b>> # <<t, a>> => pc'[u][b] = pc[u][b]
    BY <1>2, <1>3, OneMoves
  <1>6. QED
    BY <1>2, <1>4, <1>5 DEF k

------------------------------------------------------------------------------
(* Types *)

LEMMA PlanKept ==
  ASSUME [TaskNext]_taskVars
  PROVE  UNCHANGED <<taskPlan, group>>
  <1>1. ASSUME NEW t \in group, LoopTurns(t) \/ Toggle(t) \/ Respawn(t)
        PROVE  UNCHANGED taskPlan
    BY <1>1 DEF LoopTurns, SleeperWakes, IntervalTicks, FolderLooked, Toggle, Respawn
  <1>2. ASSUME NEW t \in group, NEW a \in Actors, Executes(t, a) \/ Panic(t, a)
        PROVE  UNCHANGED taskPlan
    BY <1>2 DEF Executes, MarkStarted, MarkFinished, TakeLock, Probe, FindsBusy, Work, Unlock, Panic
  <1>3. ASSUME NEW t \in group, NEW r \in Clickers, Click(t, r) \/ Abandon(t, r)
        PROVE  UNCHANGED taskPlan
    BY <1>3 DEF Click, Abandon
  <1>4. TimePasses \/ Crash \/ Boot \/ StartLoops => UNCHANGED taskPlan
    BY DEF TimePasses, Crash, Boot, StartLoops
  <1>5. UNCHANGED taskVars => UNCHANGED taskPlan
    BY DEF taskVars
  <1>7. QED
    BY <1>1, <1>2, <1>3, <1>4, <1>5 DEF TaskNext, group

\* Where an actor stands after its step is a place in its program.
LEMMA StepsKept ==
  ASSUME TaskTypeOK, StepsInProgram, UNCHANGED group, NEW t \in group, NEW a \in Actors,
         UNCHANGED spawned \/ \A u \in group \cap Manual : ~spawned'[u],
         pc'[t][a] \in 0 .. Len(Program(t, a)),
         \A u \in group, b \in Actors : <<u, b>> # <<t, a>> => pc'[u][b] = pc[u][b]
  PROVE  StepsInProgram'
  BY DEF StepsInProgram, Program

LEMMA SpawnTyped ==
  ASSUME TaskTypeOK, NEW ts \in SUBSET group, Spawn(ts)
  PROVE  /\ spawned' \in [group -> BOOLEAN] /\ wait' \in [group -> Nat] /\ pend' \in [group -> Nat]
         /\ counter' \in [group -> 0 .. CounterCap + AgeCap] /\ errors' \in [group -> 0 .. MaxErrors]
  <1>1. \A t \in group : FirstWait(t) \in Nat /\ MinutesSinceLastFinished(t) \in 0 .. CounterCap + AgeCap
    BY Numbers, FirstWaitTyped, MinutesRoundDown
  <1>2. spawned' \in [group -> BOOLEAN]
    <2>1. \A t \in group : (t \notin Manual) \in BOOLEAN /\ spawned[t] \in BOOLEAN
      BY DEF TaskTypeOK
    <2>2. \A t \in group : (IF t \in ts THEN t \notin Manual ELSE spawned[t]) \in BOOLEAN
      BY <2>1, Zenon
    <2>3. QED
      BY <2>2, Zenon DEF Spawn
  <1>3. 0 \in 0 .. MaxErrors
    BY Numbers
  <1>4. QED
    BY <1>1, <1>2, <1>3 DEF Spawn, TaskTypeOK

LEMMA LoopStartTyped ==
  ASSUME TaskTypeOK, StepsInProgram, NEW t \in group, LoopTurns(t)
  PROVE  TaskTypeOK' /\ StepsInProgram'
  <1>1. UNCHANGED <<taskPlan, group>>
    BY DEF LoopTurns, SleeperWakes, IntervalTicks, FolderLooked, group
  <1>2. t \notin Manual /\ Loop \in Actors /\ spawned[t]
    BY ActorsKnown DEF LoopTurns, SleeperWakes, IntervalTicks, FolderLooked, Due, Asleep, StepsInProgram
  <1>3. 1 \in 0 .. Len(Program(t, Loop)) /\ 1 \in 0 .. 6
    BY <1>2, PlanKnown, ProgramsKnown DEF Shaped
  <1>4. UNCHANGED pc \/ pc' = [pc EXCEPT ![t][Loop] = 1]
    BY DEF LoopTurns, SleeperWakes, IntervalTicks, FolderLooked, Start
  <1>5. /\ pc' \in [group -> [Actors -> 0 .. 6]]
        /\ pc'[t][Loop] \in 0 .. Len(Program(t, Loop))
        /\ \A u \in group, b \in Actors : <<u, b>> # <<t, Loop>> => pc'[u][b] = pc[u][b]
    <2>1. CASE UNCHANGED pc
      <3>1. /\ pc \in [group -> [Actors -> 0 .. 6]]
            /\ pc[t][Loop] \in 0 .. Len(Program(t, Loop))
        BY <1>2 DEF TaskTypeOK, StepsInProgram
      <3>2. QED
        BY <2>1, <3>1
    <2>2. CASE pc' = [pc EXCEPT ![t][Loop] = 1]
      <3>1. /\ pc' \in [group -> [Actors -> 0 .. 6]] /\ pc'[t][Loop] = 1
            /\ \A u \in group, b \in Actors : <<u, b>> # <<t, Loop>> => pc'[u][b] = pc[u][b]
        <4>1. 1 \in 0 .. 6 /\ Loop \in Actors
          BY <1>2, <1>3
        <4>2. Moves(t, Loop, 1)
          BY <2>2 DEF Moves
        <4>3. QED
          BY <4>1, <4>2, OneMoves
      <3>2. QED
        BY <1>3, <3>1
    <2>3. QED
      BY <1>4, <2>1, <2>2
  <1>6. /\ UNCHANGED <<process, uptime, lock, spawned, errors, rowVars, enabled, strikeVars,
                       historyVars>>
        /\ wait' \in [group -> Nat] /\ pend' \in [group -> Nat]
        /\ counter' \in [group -> 0 .. CounterCap + AgeCap]
    <2>1. CASE SleeperWakes(t) \/ FolderLooked(t)
      BY <2>1, Numbers DEF AgeCap, SleeperWakes, FolderLooked, TaskTypeOK
    <2>2. CASE IntervalTicks(t)
      <3>1. pend[t] \in Nat /\ pend[t] > 0
        BY <2>2 DEF IntervalTicks, Due, TaskTypeOK
      <3>2. Capped(counter[t] + 1, CounterCap) \in 0 .. CounterCap + AgeCap
        BY Numbers DEF Capped, TaskTypeOK
      <3>3. UNCHANGED counter \/ \E n \in 0 .. CounterCap + AgeCap : counter' = [counter EXCEPT ![t] = n]
        BY <2>2, <3>2, Numbers DEF IntervalTicks
      <3>4. pend' \in [group -> Nat] /\ counter' \in [group -> 0 .. CounterCap + AgeCap]
        BY <2>2, <3>1, <3>3 DEF IntervalTicks, TaskTypeOK
      <3>5. QED
        BY <2>2, <3>4 DEF IntervalTicks, TaskTypeOK
    <2>3. QED
      BY <2>1, <2>2 DEF LoopTurns
  <1>7. TaskTypeOK'
    BY <1>1, <1>5, <1>6 DEF TaskTypeOK, rowVars, strikeVars, historyVars
  <1>8. QED
    BY <1>1, <1>2, <1>5, <1>6, <1>7, StepsKept

\* Where a marked actor stands: past its mark, and not past its finish.
LEMMA MarkedWhere ==
  ASSUME NEW t, NEW a, NEW m \in 1 .. 6, NEW f \in 1 .. 6, Shaped(Program(t, a), m, f)
  PROVE  /\ FinishOf(t, a) = f
         /\ \A k \in 0 .. 6 :
              (\E i \in 1 .. k - 1, j \in k .. Len(Program(t, a)) :
                 k # 0 /\ Program(t, a)[i] = "mark" /\ Program(t, a)[j] = "finish")
              <=> k \in m + 1 .. f
  <1> DEFINE p == Program(t, a)
  <1>1. /\ Len(p) \in 1 .. 6 /\ m \in 1 .. Len(p) /\ f \in 1 .. Len(p) /\ m < f
        /\ \A i \in 1 .. Len(p) : (p[i] = "mark" <=> i = m) /\ (p[i] = "finish" <=> i = f)
    BY DEF Shaped
  <1> HIDE DEF p
  <1>2. (CHOOSE j \in 1 .. Len(p) : p[j] = "finish") = f
    BY <1>1
  <1>3. ASSUME NEW k \in 0 .. 6
        PROVE  (\E i \in 1 .. k - 1, j \in k .. Len(p) : k # 0 /\ p[i] = "mark" /\ p[j] = "finish")
               <=> k \in m + 1 .. f
    <2>1. ASSUME NEW i \in 1 .. k - 1, NEW j \in k .. Len(p), k # 0, p[i] = "mark", p[j] = "finish"
          PROVE  k \in m + 1 .. f
      <3>1. i \in 1 .. Len(p) /\ j \in 1 .. Len(p)
        BY <1>1, <2>1
      <3>2. i = m /\ j = f
        BY <1>1, <2>1, <3>1
      <3>3. QED
        BY <3>2
    <2>2. ASSUME k \in m + 1 .. f
          PROVE  m \in 1 .. k - 1 /\ f \in k .. Len(p) /\ k # 0 /\ p[m] = "mark" /\ p[f] = "finish"
      BY <1>1, <2>2
    <2>3. QED
      BY <2>1, <2>2
  <1>4. QED
    BY <1>2, <1>3 DEF FinishOf, p

\* An actor with a statement to execute is in a program that has a mark and a finish.
LEMMA InShape ==
  ASSUME TaskTypeOK, StepsInProgram, NEW t \in group, NEW a \in Actors, pc[t][a] # 0
  PROVE  /\ pc[t][a] \in 1 .. Len(Program(t, a)) /\ Len(Program(t, a)) \in 1 .. 6
         /\ \E m, f \in 1 .. 6 : Shaped(Program(t, a), m, f)
         /\ Statement(t, a) = Program(t, a)[pc[t][a]]
  <1>1. /\ t \in Tasks /\ pc[t][a] \in 0 .. Len(Program(t, a)) /\ pc[t][a] \in 0 .. 6
    BY PlanKnown DEF StepsInProgram, TaskTypeOK
  <1>2. Len(Program(t, a)) \in 0 .. 6
    BY <1>1, ProgramsKnown
  <1>3. Len(<<>>) = 0
    OBVIOUS
  <1>4. Len(Program(t, a)) # 0
    BY <1>1, <1>2
  <1>5. \E m, f \in 1 .. 6 : Shaped(Program(t, a), m, f)
    BY <1>1, <1>3, <1>4, ProgramsKnown
  <1>6. QED
    BY <1>1, <1>2, <1>4, <1>5 DEF Statement

LEMMA AfterBusyKnown ==
  ASSUME TaskTypeOK, StepsInProgram, NEW t \in group, NEW a \in Actors, pc[t][a] # 0
  PROVE  /\ FinishOf(t, a) \in 1 .. Len(Program(t, a)) /\ AfterBusy(t, a) \in Nat
         /\ Len(Program(t, a)) + 1 \in Nat /\ pc[t][a] + 1 \in Nat
  <1>1. PICK m \in 1 .. 6, f \in 1 .. 6 : Shaped(Program(t, a), m, f)
    BY InShape
  <1>2. FinishOf(t, a) = f
    BY <1>1, MarkedWhere
  <1>3. f \in 1 .. Len(Program(t, a)) /\ Len(Program(t, a)) \in 1 .. 6 /\ pc[t][a] \in 1 .. 6
    BY <1>1, InShape DEF Shaped
  <1>4. QED
    BY <1>2, <1>3 DEF AfterBusy

\* A statement belongs to an actor that is in its program.
LEMMA AtKnown ==
  ASSUME NEW t, NEW a, NEW s \in {"mark", "probe", "try", "await", "work", "unlock", "finish"},
         At(t, a, s)
  PROVE  pc[t][a] # 0
  BY DEF At, Statement

LEMMA Executing ==
  ASSUME NEW t, NEW a, Executes(t, a) \/ Panic(t, a)
  PROVE  pc[t][a] # 0
  BY AtKnown DEF Executes, MarkStarted, MarkFinished, TakeLock, Probe, FindsBusy, Work, Unlock, Panic

\* A statement is followed by one of its program, or by the end of it.
LEMMA ExecutesGoesTo ==
  ASSUME TaskTypeOK, StepsInProgram, NEW t \in group, NEW a \in Actors, Executes(t, a)
  PROVE  \E i \in Nat : GoTo(t, a, i)
  <1>1. \/ Advance(t, a) \/ GoTo(t, a, AfterBusy(t, a)) \/ GoTo(t, a, Len(Program(t, a)) + 1)
    BY DEF Executes, MarkStarted, MarkFinished, TakeLock, Probe, FindsBusy, Work, Unlock
  <1>2. QED
    BY <1>1, Executing, AfterBusyKnown DEF Advance

LEMMA ReleaseTyped ==
  ASSUME TaskTypeOK, NEW t \in group, NEW a \in Actors, Release(t, a) \/ UNCHANGED lock
  PROVE  lock' \in [group -> {Nobody} \cup (group \X Actors)]
  <1> DEFINE Holders == {Nobody} \cup (group \X Actors)
  <1>1. lock \in [group -> Holders]
    BY DEF TaskTypeOK
  <1>2. UNCHANGED lock \/ \E h : lock' = [lock EXCEPT ![LockOf(t)] = h] /\ h \in {Nobody, lock[LockOf(t)]}
    BY DEF Release
  <1>3. Nobody \in Holders
    OBVIOUS
  <1> HIDE DEF Holders
  <1>4. lock' \in [group -> Holders]
    BY <1>1, <1>2, <1>3
  <1>5. QED
    BY <1>4 DEF Holders

LEMMA OutcomeTyped ==
  ASSUME TaskTypeOK, NEW t \in group, NEW a \in Actors, NEW failed \in BOOLEAN,
         CountOutcome(t, a, failed)
  PROVE  errors' \in [group -> 0 .. MaxErrors]
  <1>1. errors \in [group -> 0 .. MaxErrors]
    BY DEF TaskTypeOK
  <1>2. errors[t] \in 0 .. MaxErrors
    BY <1>1
  <1>3. Capped(errors[t] + 1, MaxErrors) \in 0 .. MaxErrors /\ 0 \in 0 .. MaxErrors
    BY <1>2, Numbers DEF Capped
  <1>4. CASE a # Loop \/ t \notin Counting
    BY <1>1, <1>4 DEF CountOutcome
  <1>5. CASE ~(a # Loop \/ t \notin Counting)
    <2>1. errors' = [errors EXCEPT ![t] = IF failed THEN Capped(errors[t] + 1, MaxErrors) ELSE 0]
      BY <1>5 DEF CountOutcome
    <2>2. QED
      BY <1>1, <1>3, <2>1
  <1>6. QED
    BY <1>4, <1>5

LEMMA ExecutesTyped ==
  ASSUME TaskTypeOK, StepsInProgram, NEW t \in group, NEW a \in Actors, Executes(t, a)
  PROVE  TaskTypeOK' /\ StepsInProgram'
  <1>1. UNCHANGED <<taskPlan, group, process, uptime, spawned, pend, counter, enabled, clicks, panics,
                    toggles>>
    BY DEF Executes, MarkStarted, MarkFinished, TakeLock, Probe, FindsBusy, Work, Unlock, rowVars,
           strikeVars, historyVars, group
  <1>2. PICK i \in Nat : GoTo(t, a, i)
    BY ExecutesGoesTo
  <1>3. /\ pc' \in [group -> [Actors -> 0 .. 6]] /\ wait' \in [group -> Nat]
        /\ pc'[t][a] \in 0 .. Len(Program(t, a))
        /\ \A u \in group, b \in Actors : <<u, b>> # <<t, a>> => pc'[u][b] = pc[u][b]
    BY <1>2, GoesTo
  <1>4. row' \in [group -> RowStatuses] /\ age' \in [group -> 0 .. AgeCap]
    <2>1. \/ UNCHANGED row \/ row' = [row EXCEPT ![t] = "running"] \/ row' = [row EXCEPT ![t] = "ended"]
      BY DEF Executes, MarkStarted, MarkFinished, TakeLock, Probe, FindsBusy, Work, Unlock, rowVars
    <2>2. UNCHANGED age \/ age' = [age EXCEPT ![t] = 0]
      BY DEF Executes, MarkStarted, MarkFinished, TakeLock, Probe, FindsBusy, Work, Unlock, rowVars
    <2>3. row \in [group -> RowStatuses] /\ age \in [group -> 0 .. AgeCap] /\ 0 \in 0 .. AgeCap
      BY Numbers DEF TaskTypeOK
    <2>4. row' \in [group -> RowStatuses]
      BY <2>1, <2>3 DEF RowStatuses
    <2>5. age' \in [group -> 0 .. AgeCap]
      BY <2>2, <2>3
    <2>6. QED
      BY <2>4, <2>5
  <1>5. lock' \in [group -> {Nobody} \cup (group \X Actors)]
    <2>1. UNCHANGED lock \/ Release(t, a) \/ lock' = [lock EXCEPT ![LockOf(t)] = <<t, a>>]
      BY DEF Executes, MarkStarted, MarkFinished, TakeLock, Probe, FindsBusy, Work, Unlock
    <2>2. lock \in [group -> {Nobody} \cup (group \X Actors)]
      BY DEF TaskTypeOK
    <2>3. <<t, a>> \in {Nobody} \cup (group \X Actors)
      OBVIOUS
    <2>4. CASE lock' = [lock EXCEPT ![LockOf(t)] = <<t, a>>]
      BY <2>2, <2>3, <2>4
    <2>5. QED
      BY <2>1, <2>4, ReleaseTyped
  <1>6. errors' \in [group -> 0 .. MaxErrors]
    <2>1. UNCHANGED errors \/ \E failed \in BOOLEAN : CountOutcome(t, a, failed)
      BY DEF Executes, MarkStarted, MarkFinished, TakeLock, Probe, FindsBusy, Work, Unlock
    <2>2. QED
      BY <2>1, OutcomeTyped DEF TaskTypeOK
  <1>7. since' \in [group -> 0 .. AgeCap] /\ lost' \in [group -> BOOLEAN]
    <2>1. UNCHANGED since \/ since' = [since EXCEPT ![t] = 0]
      BY DEF Executes, MarkStarted, MarkFinished, TakeLock, Probe, FindsBusy, Work, Unlock, historyVars
    <2>2. UNCHANGED lost \/ lost' = [lost EXCEPT ![t] = FALSE]
      BY DEF Executes, MarkStarted, MarkFinished, TakeLock, Probe, FindsBusy, Work, Unlock, historyVars
    <2>3. since \in [group -> 0 .. AgeCap] /\ lost \in [group -> BOOLEAN] /\ 0 \in 0 .. AgeCap
      BY Numbers DEF TaskTypeOK
    <2>4. since' \in [group -> 0 .. AgeCap]
      BY <2>1, <2>3
    <2>5. lost' \in [group -> BOOLEAN]
      BY <2>2, <2>3
    <2>6. QED
      BY <2>4, <2>5
  <1>8. TaskTypeOK'
    BY <1>1, <1>3, <1>4, <1>5, <1>6, <1>7 DEF TaskTypeOK
  <1>9. QED
    BY <1>1, <1>3, <1>8, StepsKept

LEMMA PanicTyped ==
  ASSUME TaskTypeOK, StepsInProgram, NEW t \in group, NEW a \in Actors, Panic(t, a)
  PROVE  /\ TaskTypeOK' /\ StepsInProgram'
         /\ pc'[t][a] = IF t \in Contained THEN FinishOf(t, a) ELSE 0
         /\ \A u \in group, b \in Actors : <<u, b>> # <<t, a>> => pc'[u][b] = pc[u][b]
  <1> DEFINE k == IF t \in Contained THEN FinishOf(t, a) ELSE 0
  <1>1. /\ UNCHANGED <<taskPlan, group, process, uptime, row, age, wait, pend, counter, errors, enabled,
                       clicks, toggles>>
        /\ Release(t, a) /\ pc' = [pc EXCEPT ![t][a] = k]
        /\ panics < taskPlan.panics /\ panics' = panics + 1
    BY DEF Panic, timerVars, rowVars, group
  <1>2. k \in 0 .. 6 /\ k \in 0 .. Len(Program(t, a))
    <2>1. pc[t][a] # 0
      BY Executing
    <2>2. FinishOf(t, a) \in 1 .. Len(Program(t, a)) /\ Len(Program(t, a)) \in 1 .. 6
      BY <2>1, AfterBusyKnown, InShape
    <2>3. \A n \in 1 .. 6 : \A f \in 1 .. n : {0, f} \subseteq (0 .. 6) \cap (0 .. n)
      OBVIOUS
    <2>4. k \in {0, FinishOf(t, a)}
      OBVIOUS
    <2>5. QED
      BY <2>2, <2>3, <2>4
  <1> HIDE DEF k
  <1>3. /\ pc' \in [group -> [Actors -> 0 .. 6]] /\ pc'[t][a] = k
        /\ \A u \in group, b \in Actors : <<u, b>> # <<t, a>> => pc'[u][b] = pc[u][b]
    <2>1. k \in 0 .. 6 /\ Moves(t, a, k)
      BY <1>1, <1>2 DEF Moves
    <2>2. QED
      BY <2>1, OneMoves
  <1>4. lock' \in [group -> {Nobody} \cup (group \X Actors)]
    BY <1>1, ReleaseTyped
  <1>5. spawned \in [group -> BOOLEAN] /\ since \in [group -> 0 .. AgeCap] /\ lost \in [group -> BOOLEAN]
    BY DEF TaskTypeOK
  <1>6. lost' \in [group -> BOOLEAN]
    <2>1. \E x \in BOOLEAN : lost' = [lost EXCEPT ![t] = x]
      <3>1. ((Marked(t, a) /\ t \notin Contained) \/ lost[t]) \in BOOLEAN
        OBVIOUS
      <3>2. lost' = [lost EXCEPT ![t] = (Marked(t, a) /\ t \notin Contained) \/ lost[t]]
        BY DEF Panic
      <3>3. QED
        BY <3>1, <3>2
    <2>2. QED
      BY <1>5, <2>1
  <1>7. spawned' \in [group -> BOOLEAN] /\ \A u \in group \cap Manual : ~spawned'[u]
    <2>1. UNCHANGED spawned \/ spawned' = [spawned EXCEPT ![t] = FALSE]
      BY DEF Panic
    <2>2. spawned' \in [group -> BOOLEAN]
      BY <1>5, <2>1
    <2>3. \A u \in group \cap Manual : ~spawned[u]
      BY DEF StepsInProgram
    <2>4. QED
      BY <1>5, <2>1, <2>2, <2>3
  <1>8. since' \in [group -> 0 .. AgeCap]
    <2>1. UNCHANGED since \/ since' = [since EXCEPT ![t] = AgeCap]
      BY DEF Panic
    <2>2. AgeCap \in 0 .. AgeCap
      BY Numbers
    <2>3. QED
      BY <1>5, <2>1, <2>2
  <1>9. panics' \in 0 .. taskPlan.panics
    BY <1>1, PlanKnown DEF TaskTypeOK
  <1>10. TaskTypeOK'
    BY <1>1, <1>3, <1>4, <1>6, <1>7, <1>8, <1>9 DEF TaskTypeOK
  <1>11. StepsInProgram'
    BY <1>1, <1>2, <1>3, <1>7, StepsKept
  <1>12. QED
    BY <1>3, <1>10, <1>11 DEF k

LEMMA ClickTyped ==
  ASSUME TaskTypeOK, StepsInProgram, NEW t \in group, NEW r \in Clickers, Click(t, r)
  PROVE  /\ TaskTypeOK' /\ StepsInProgram' /\ pc[t][r] = 0 /\ pc'[t][r] = 1
         /\ \A u \in group, b \in Actors : <<u, b>> # <<t, r>> => pc'[u][b] = pc[u][b]
  <1>1. /\ UNCHANGED <<taskPlan, group, process, uptime, lock, spawned, wait, pend, counter, errors, row,
                       age, enabled, panics, toggles, since, lost>>
        /\ clicks < taskPlan.clicks /\ clicks' = clicks + 1
        /\ pc[t][r] = 0 /\ pc' = [pc EXCEPT ![t][r] = 1]
    BY DEF Click, timerVars, rowVars, historyVars, group
  <1>2. r \in Actors /\ r # Loop
    BY ActorsKnown
  <1>3. 1 \in 0 .. 6 /\ 1 \in 0 .. Len(Program(t, r))
    BY <1>2, PlanKnown, ProgramsKnown DEF Shaped
  <1>4. /\ pc' \in [group -> [Actors -> 0 .. 6]] /\ pc'[t][r] = 1
        /\ \A u \in group, b \in Actors : <<u, b>> # <<t, r>> => pc'[u][b] = pc[u][b]
    <2>1. 1 \in 0 .. 6 /\ r \in Actors /\ Moves(t, r, 1)
      BY <1>1, <1>2, <1>3 DEF Moves
    <2>2. QED
      BY <2>1, OneMoves
  <1>5. clicks' \in 0 .. taskPlan.clicks
    BY <1>1, PlanKnown DEF TaskTypeOK
  <1>6. TaskTypeOK'
    BY <1>1, <1>4, <1>5 DEF TaskTypeOK
  <1>7. StepsInProgram'
    BY <1>1, <1>2, <1>3, <1>4, StepsKept
  <1>8. QED
    BY <1>1, <1>4, <1>6, <1>7

LEMMA AbandonTyped ==
  ASSUME TaskTypeOK, StepsInProgram, NEW t \in group, NEW r \in Clickers, Abandon(t, r)
  PROVE  /\ TaskTypeOK' /\ StepsInProgram' /\ pc'[t][r] = 0 /\ pc[t][r] # 0
         /\ \A u \in group, b \in Actors : <<u, b>> # <<t, r>> => pc'[u][b] = pc[u][b]
  <1>1. /\ UNCHANGED <<taskPlan, group, process, uptime, spawned, wait, pend, counter, errors, row,
                       age, enabled, clicks, panics, toggles, since, lost>>
        /\ Release(t, r) /\ pc[t][r] # 0 /\ pc' = [pc EXCEPT ![t][r] = 0]
    BY DEF Abandon, timerVars, rowVars, strikeVars, historyVars, group
  <1>2. r \in Actors /\ 0 \in 0 .. 6
    BY ActorsKnown
  <1>3. /\ pc' \in [group -> [Actors -> 0 .. 6]] /\ pc'[t][r] = 0
        /\ \A u \in group, b \in Actors : <<u, b>> # <<t, r>> => pc'[u][b] = pc[u][b]
    <2>1. Moves(t, r, 0)
      BY <1>1 DEF Moves
    <2>2. QED
      BY <1>2, <2>1, OneMoves
  <1>4. lock' \in [group -> {Nobody} \cup (group \X Actors)]
    BY <1>1, <1>2, ReleaseTyped
  <1>5. 0 \in 0 .. Len(Program(t, r))
    BY <1>1, <1>2, InShape
  <1>6. TaskTypeOK'
    BY <1>1, <1>3, <1>4 DEF TaskTypeOK
  <1>7. StepsInProgram'
    BY <1>1, <1>2, <1>3, <1>5, StepsKept
  <1>8. QED
    BY <1>1, <1>3, <1>6, <1>7

LEMMA ToggleTyped ==
  ASSUME TaskTypeOK, StepsInProgram, NEW t \in group, Toggle(t)
  PROVE  TaskTypeOK' /\ StepsInProgram'
  <1>1. /\ UNCHANGED <<taskPlan, group, process, uptime, lock, pc, spawned, wait, pend, counter, errors,
                       row, age, clicks, panics, since, lost>>
        /\ toggles < taskPlan.toggles /\ toggles' = toggles + 1
        /\ enabled' = [enabled EXCEPT ![t] = ~@]
    BY DEF Toggle, processVars, timerVars, rowVars, historyVars, group
  <1>2. toggles' \in 0 .. taskPlan.toggles
    BY <1>1, PlanKnown DEF TaskTypeOK
  <1>3. enabled' \in [group -> BOOLEAN]
    <2>1. enabled \in [group -> BOOLEAN]
      BY DEF TaskTypeOK
    <2>2. QED
      BY <1>1, <2>1
  <1>4. TaskTypeOK'
    BY <1>1, <1>2, <1>3 DEF TaskTypeOK
  <1>5. StepsInProgram'
    BY <1>1 DEF StepsInProgram, Program
  <1>6. QED
    BY <1>4, <1>5

LEMMA SpawningTyped ==
  ASSUME TaskTypeOK, StepsInProgram, NEW ts \in SUBSET group, Spawn(ts), process' = "up",
         UNCHANGED <<taskPlan, uptime, lock, pc, rowVars, enabled, strikeVars, historyVars>>
  PROVE  TaskTypeOK' /\ StepsInProgram'
  <1>1. UNCHANGED group
    BY DEF group
  <1>2. /\ spawned' \in [group -> BOOLEAN] /\ wait' \in [group -> Nat] /\ pend' \in [group -> Nat]
        /\ counter' \in [group -> 0 .. CounterCap + AgeCap] /\ errors' \in [group -> 0 .. MaxErrors]
    BY SpawnTyped
  <1>3. TaskTypeOK'
    BY <1>1, <1>2 DEF TaskTypeOK, rowVars, strikeVars, historyVars
  <1>4. \A u \in group \cap Manual : ~spawned'[u]
    <2>1. \A u \in group \cap Manual : ~spawned[u]
      BY DEF StepsInProgram
    <2>2. \A u \in group : spawned'[u] = IF u \in ts THEN u \notin Manual ELSE spawned[u]
      BY DEF Spawn
    <2>3. QED
      BY <2>1, <2>2
  <1>5. StepsInProgram'
    BY <1>1, <1>4 DEF StepsInProgram, Program
  <1>6. QED
    BY <1>3, <1>5

LEMMA TimeTyped ==
  ASSUME TaskTypeOK, StepsInProgram, TimePasses
  PROVE  TaskTypeOK' /\ StepsInProgram'
  <1>1. UNCHANGED <<taskPlan, group, process, lock, pc, spawned, counter, errors, row, enabled, clicks,
                    panics, toggles, lost>>
    BY DEF TimePasses, strikeVars, group
  <1>2. uptime' \in 0 .. MinUptime
    BY Numbers DEF TimePasses, TaskTypeOK, Capped
  <1>3. age' \in [group -> 0 .. AgeCap] /\ since' \in [group -> 0 .. AgeCap]
    <2>1. \A n \in 0 .. AgeCap : Capped(n + 1, AgeCap) \in 0 .. AgeCap
      BY Numbers DEF Capped
    <2>2. age \in [group -> 0 .. AgeCap] /\ since \in [group -> 0 .. AgeCap]
      BY DEF TaskTypeOK
    <2>3. QED
      BY <2>1, <2>2 DEF TimePasses
  <1>4. wait' \in [group -> Nat] /\ pend' \in [group -> Nat]
    <2>1. ASSUME NEW t \in group
          PROVE  Elapsed(t)[1] \in Nat /\ Elapsed(t)[2] \in Nat
      <3>1. wait[t] \in Nat /\ pend[t] \in Nat
        BY DEF TaskTypeOK
      <3>2. spawned[t] /\ ~Ticking(t) /\ pc[t][Loop] = 0 => wait[t] > 0
        BY <3>1 DEF TimePasses, Due, Asleep
      <3>3. Capped(pend[t] + 1, CounterCap) \in Nat
        BY <3>1, Numbers DEF Capped
      <3>4. QED
        BY <3>1, <3>2, <3>3, Numbers DEF Elapsed
    <2>2. QED
      BY <2>1 DEF TimePasses
  <1>5. TaskTypeOK'
    BY <1>1, <1>2, <1>3, <1>4 DEF TaskTypeOK
  <1>6. StepsInProgram'
    BY <1>1 DEF StepsInProgram, Program
  <1>7. QED
    BY <1>5, <1>6

LEMMA FreshTyped ==
  /\ [t \in group |-> Nobody] \in [group -> {Nobody} \cup (group \X Actors)]
  /\ NoActors \in [group -> [Actors -> 0 .. 6]]
  /\ [t \in group |-> FALSE] \in [group -> BOOLEAN]
  /\ None \in [group -> Nat] /\ None \in [group -> 0 .. CounterCap + AgeCap]
  /\ None \in [group -> 0 .. MaxErrors]
  /\ \A t \in group, a \in Actors : NoActors[t][a] = 0
  BY Numbers DEF NoActors, None

LEMMA InitTyped ==
  ASSUME TaskInit
  PROVE  TaskTypeOK /\ StepsInProgram /\ IdleUnlessUp
  <1>1. /\ [t \in group |-> "idle"] \in [group -> RowStatuses]
        /\ [t \in group |-> AgeCap] \in [group -> 0 .. AgeCap]
        /\ [t \in group |-> TRUE] \in [group -> BOOLEAN]
    BY Numbers DEF RowStatuses
  <1>2. 0 \in 0 .. taskPlan.clicks /\ 0 \in 0 .. taskPlan.panics /\ 0 \in 0 .. taskPlan.toggles
    <2>1. {taskPlan.clicks, taskPlan.panics, taskPlan.toggles} \subseteq Nat
      BY TaskRunsPlans DEF TaskInit, TaskPlan
    <2>2. QED
      BY <2>1
  <1>3. 0 \in 0 .. MinUptime
    BY Numbers
  <1>4. TaskTypeOK
    BY <1>1, <1>2, <1>3, FreshTyped DEF TaskInit, TaskTypeOK
  <1>5. \A t \in group, a \in Actors : pc[t][a] = 0 /\ Len(Program(t, a)) \in 0 .. 6
    BY <1>4, PlanKnown, ProgramsKnown, FreshTyped DEF TaskInit
  <1>6. \A t \in group : ~spawned[t]
    BY DEF TaskInit
  <1>7. QED
    BY <1>4, <1>5, <1>6 DEF StepsInProgram, IdleUnlessUp

LEMMA CrashTyped ==
  ASSUME TaskTypeOK, StepsInProgram, Crash
  PROVE  TaskTypeOK' /\ StepsInProgram' /\ IdleUnlessUp'
  <1>1. UNCHANGED <<taskPlan, group, row, age, enabled, clicks, panics, toggles, since>>
    BY DEF Crash, rowVars, strikeVars, group
  <1>2. /\ lock' \in [group -> {Nobody} \cup (group \X Actors)]
        /\ pc' \in [group -> [Actors -> 0 .. 6]]
        /\ spawned' \in [group -> BOOLEAN] /\ lost' \in [group -> BOOLEAN]
        /\ wait' \in [group -> Nat] /\ pend' \in [group -> Nat]
        /\ counter' \in [group -> 0 .. CounterCap + AgeCap] /\ errors' \in [group -> 0 .. MaxErrors]
    BY FreshTyped DEF Crash
  <1>3. uptime' \in 0 .. MinUptime /\ process' = "down"
    BY Numbers DEF Crash
  <1>4. TaskTypeOK'
    BY <1>1, <1>2, <1>3 DEF TaskTypeOK
  <1>5. \A t \in group, a \in Actors : pc'[t][a] = 0 /\ Len(Program(t, a)) \in 0 .. 6
    BY PlanKnown, ProgramsKnown, FreshTyped DEF Crash
  <1>6. \A t \in group : ~spawned'[t]
    BY DEF Crash
  <1>7. QED
    BY <1>1, <1>4, <1>5, <1>6 DEF StepsInProgram, IdleUnlessUp, Program

LEMMA BootTyped ==
  ASSUME TaskTypeOK, StepsInProgram, Boot
  PROVE  TaskTypeOK' /\ StepsInProgram'
  <1>1. UNCHANGED <<taskPlan, group, uptime, lock, pc, spawned, wait, pend, counter, errors, enabled,
                    clicks, panics, toggles, since, lost>>
    BY DEF Boot, timerVars, strikeVars, historyVars, group
  <1>2. row' \in [group -> RowStatuses] /\ age' \in [group -> 0 .. AgeCap]
    <2>1. row \in [group -> RowStatuses] /\ age \in [group -> 0 .. AgeCap] /\ 0 \in 0 .. AgeCap
      BY Numbers DEF TaskTypeOK
    <2>2. QED
      BY <2>1 DEF Boot, RowStatuses
  <1>3. TaskTypeOK'
    BY <1>1, <1>2 DEF TaskTypeOK, Boot
  <1>4. StepsInProgram'
    BY <1>1 DEF StepsInProgram, Program
  <1>5. QED
    BY <1>3, <1>4

------------------------------------------------------------------------------
(* The row *)

RowLive(t) == row[t] = "running" => lost[t] \/ \E a \in Actors : Marked(t, a)

AiringHeld(t) ==
  t = "airing_refresh" =>
    \A a \in Actors : /\ pc[t][a] \in 2 .. 5 => lock[t] = <<t, a>>
                      /\ Marked(t, a) => row[t] = "running"

\* A mark is a matter of where its actor stands.
LEMMA MarkedNext ==
  ASSUME NEW t, NEW a, NEW m \in 1 .. 6, NEW f \in 1 .. 6, Shaped(Program(t, a), m, f)
  PROVE  /\ pc[t][a] \in 0 .. 6 => (Marked(t, a) <=> pc[t][a] \in m + 1 .. f)
         /\ pc'[t][a] \in 0 .. 6 => (Marked(t, a)' <=> pc'[t][a] \in m + 1 .. f)
  <1> DEFINE M(k) == \E i \in 1 .. k - 1, j \in k .. Len(Program(t, a)) :
                       k # 0 /\ Program(t, a)[i] = "mark" /\ Program(t, a)[j] = "finish"
  <1>1. \A k \in 0 .. 6 : M(k) <=> k \in m + 1 .. f
    BY MarkedWhere
  <1>2. Marked(t, a) <=> M(pc[t][a])
    BY DEF Marked
  <1>3. Marked(t, a)' <=> M(pc'[t][a])
    BY DEF Marked, Program
  <1> HIDE DEF M
  <1>4. QED
    BY <1>1, <1>2, <1>3

LEMMA MarkedStays ==
  ASSUME NEW t, NEW a, pc'[t][a] = pc[t][a]
  PROVE  Marked(t, a)' <=> Marked(t, a)
  BY DEF Marked, Program

\* A task whose actors, row and lock do not change keeps what is said of its row.
LEMMA AsideKept ==
  ASSUME TaskTypeOK, UNCHANGED group, NEW t \in group,
         process' # "down" => process # "down",
         RunningIsLive, AiringLocked, AiringRowHonest,
         \A u \in group \ {t} : /\ row'[u] = row[u] /\ (lost[u] => lost'[u])
                                /\ \A b \in Actors : pc'[u][b] = pc[u][b]
                                /\ u = "airing_refresh" => lock'[u] = lock[u],
         process' # "down" /\ t \notin Attached => RowLive(t)', AiringHeld(t)'
  PROVE  RunningIsLive' /\ AiringLocked' /\ AiringRowHonest'
  <1>1. \A u \in group \ {t}, b \in Actors : Marked(u, b)' <=> Marked(u, b)
    BY MarkedStays
  <1>2. RunningIsLive'
    BY <1>1 DEF RunningIsLive, RowLive
  <1>3. AiringLocked'
    BY DEF AiringLocked, AiringHeld
  <1>4. AiringRowHonest'
    BY <1>1 DEF AiringRowHonest, AiringHeld
  <1>5. QED
    BY <1>2, <1>3, <1>4

LEMMA HeldFacts ==
  ASSUME NEW t \in group, RunningIsLive, AiringLocked, AiringRowHonest
  PROVE  /\ process # "down" /\ t \notin Attached => RowLive(t)
         /\ AiringHeld(t)
  BY DEF RunningIsLive, AiringLocked, AiringRowHonest, RowLive, AiringHeld

LEMMA LocksApart ==
  ASSUME NEW t, t # "airing_refresh"
  PROVE  LockOf(t) # "airing_refresh"
  BY DEF LockOf

\* The programs of airing_refresh, statement by statement.
LEMMA AiringProgram ==
  ASSUME NEW a \in Actors
  PROVE  LET p == Program("airing_refresh", a)
         IN /\ Len(p) = 5 /\ p[1] \in {"await", "try"} /\ p[2] = "mark" /\ p[3] = "work"
            /\ p[4] = "finish" /\ p[5] = "unlock" /\ Shaped(p, 2, 4)
  <1>1. /\ LoopProgram["airing_refresh"] = AiringLoop
        /\ RequestProgram["airing_refresh"] = AiringRequest
    BY DEF LoopProgram, RequestProgram
  <1>2. Program("airing_refresh", a) \in {AiringLoop, AiringRequest}
    BY <1>1 DEF Program
  <1>3. \A p \in {AiringLoop, AiringRequest} :
          /\ Len(p) = 5 /\ p[1] \in {"await", "try"} /\ p[2] = "mark" /\ p[3] = "work"
          /\ p[4] = "finish" /\ p[5] = "unlock"
    BY DEF AiringLoop, AiringRequest
  <1>4. QED
    BY <1>2, <1>3, ProgramsShaped

\* A manual watch-list sync works before it marks.
LEMMA SyncMarksLate ==
  ASSUME TaskTypeOK, StepsInProgram, NEW a \in Actors, a # Loop, "external_sync" \in group,
         At("external_sync", a, "work")
  PROVE  ~Marked("external_sync", a)
  <1> DEFINE t == "external_sync"
  <1>1. Program(t, a) = SyncRequest
    BY DEF Program, RequestProgram
  <1>2. pc[t][a] # 0
    BY AtKnown
  <1>3. pc[t][a] \in 1 .. Len(Program(t, a)) /\ Program(t, a)[pc[t][a]] = "work"
    BY <1>2, InShape DEF At
  <1>4. pc[t][a] = 2
    BY <1>1, <1>3 DEF SyncRequest
  <1>5. QED
    BY <1>1, <1>4, ProgramsShaped, MarkedNext

\* A statement that does not write the row leaves it to a run that will.
LEMMA ExecutesLive ==
  ASSUME TaskTypeOK, StepsInProgram, NEW t \in group, NEW a \in Actors, Executes(t, a), RowLive(t)
  PROVE  RowLive(t)'
  <1> DEFINE k == pc[t][a]
  <1>1. PICK m \in 1 .. 6, f \in 1 .. 6 : Shaped(Program(t, a), m, f)
    BY Executing, InShape
  <1>2. /\ k \in 1 .. Len(Program(t, a)) /\ Len(Program(t, a)) \in 1 .. 6
        /\ \A s \in {"mark", "probe", "try", "await", "work", "unlock", "finish"} :
             At(t, a, s) => Program(t, a)[k] = s
    BY Executing, InShape DEF At
  <1>3. PICK i \in Nat : GoTo(t, a, i)
    BY ExecutesGoesTo
  <1>4. /\ pc'[t][a] \in 0 .. 6
        /\ \A b \in Actors : b # a => (Marked(t, b)' <=> Marked(t, b))
    BY <1>2, <1>3, GoesTo, MarkedStays
  <1>5. /\ Marked(t, a) <=> k \in m + 1 .. f
        /\ Marked(t, a)' <=> pc'[t][a] \in m + 1 .. f
    <2>1. pc[t][a] \in 0 .. 6
      BY DEF TaskTypeOK
    <2>2. QED
      BY <1>1, <1>4, <2>1, MarkedNext
  <1>6. /\ Advance(t, a) => pc'[t][a] = IF k + 1 > Len(Program(t, a)) THEN 0 ELSE k + 1
        /\ GoTo(t, a, f) => pc'[t][a] = f
    <2>1. k + 1 \in Nat /\ f \in Nat /\ f <= Len(Program(t, a))
      BY <1>1, <1>2 DEF Shaped
    <2>2. Advance(t, a) => pc'[t][a] = IF k + 1 > Len(Program(t, a)) THEN 0 ELSE k + 1
      BY <2>1, GoesTo DEF Advance
    <2>3. GoTo(t, a, f) => pc'[t][a] = IF f > Len(Program(t, a)) THEN 0 ELSE f
      BY <2>1, GoesTo
    <2>4. QED
      BY <1>2, <2>1, <2>2, <2>3
  <1>7. CASE MarkStarted(t, a)
    <2>1. Advance(t, a) /\ At(t, a, "mark")
      BY <1>7 DEF MarkStarted
    <2>2. k = m /\ m + 1 <= f /\ f <= Len(Program(t, a))
      BY <1>1, <1>2, <2>1 DEF Shaped
    <2>3. pc'[t][a] = m + 1
      BY <1>2, <1>6, <2>1, <2>2
    <2>4. QED
      BY <1>5, <2>2, <2>3 DEF RowLive
  <1>8. CASE MarkFinished(t, a)
    <2>1. row'[t] = "ended"
      BY <1>8 DEF MarkFinished, TaskTypeOK
    <2>2. QED
      BY <2>1 DEF RowLive
  <1>9. ASSUME TakeLock(t, a) \/ Probe(t, a) \/ FindsBusy(t, a) \/ Work(t, a) \/ Unlock(t, a)
        PROVE  RowLive(t)'
    <2>1. UNCHANGED <<row, lost>>
      BY <1>9 DEF TakeLock, Probe, FindsBusy, Work, Unlock, rowVars, historyVars
    <2>2. Marked(t, a) => (Advance(t, a) /\ Program(t, a)[k] # "finish") \/ GoTo(t, a, f)
      <3>1. Marked(t, a) => AfterBusy(t, a) = f
        BY <1>1, MarkedWhere DEF AfterBusy
      <3>2. CASE TakeLock(t, a) \/ Unlock(t, a)
        BY <1>2, <3>2 DEF TakeLock, Unlock
      <3>3. CASE Probe(t, a) \/ FindsBusy(t, a)
        BY <1>2, <3>1, <3>3 DEF Probe, FindsBusy
      <3>4. CASE Work(t, a)
        <4>1. Program(t, a)[k] = "work"
          BY <1>2, <3>4 DEF Work
        <4>2. Advance(t, a) \/ (t = "external_sync" /\ a # Loop /\ At(t, a, "work"))
          BY <3>4 DEF Work
        <4>3. QED
          BY <4>1, <4>2, SyncMarksLate
      <3>5. QED
        BY <1>9, <3>2, <3>3, <3>4
    <2>3. Marked(t, a) => Marked(t, a)'
      <3>1. ASSUME Marked(t, a), Advance(t, a), Program(t, a)[k] # "finish"
            PROVE  pc'[t][a] \in m + 1 .. f
        <4>1. k # f /\ f \in 1 .. Len(Program(t, a)) /\ Len(Program(t, a)) \in 1 .. 6
          BY <1>1, <1>2, <3>1 DEF Shaped
        <4>2. k \in m + 1 .. f
          BY <1>5, <3>1
        <4>3. k + 1 \in m + 1 .. f /\ k + 1 <= Len(Program(t, a))
          BY <4>1, <4>2
        <4>4. pc'[t][a] = k + 1
          BY <1>2, <1>6, <3>1, <4>3
        <4>5. QED
          BY <4>3, <4>4
      <3>2. m + 1 <= f
        BY <1>1 DEF Shaped
      <3>3. ASSUME GoTo(t, a, f)
            PROVE  pc'[t][a] \in m + 1 .. f
        BY <1>6, <3>2, <3>3
      <3>4. QED
        BY <1>5, <2>2, <3>1, <3>3
    <2>4. QED
      BY <1>4, <2>1, <2>3 DEF RowLive
  <1>10. QED
    BY <1>7, <1>8, <1>9 DEF Executes

\* Its lock has one holder at a time.
LEMMA AiringAlone ==
  ASSUME AiringHeld("airing_refresh"), NEW a \in Actors, NEW b \in Actors, b # a,
         \/ pc["airing_refresh"][a] \in 2 .. 5
         \/ lock["airing_refresh"] = Nobody
  PROVE  pc["airing_refresh"][b] \notin 2 .. 5
  <1>1. <<"airing_refresh", b>> # <<"airing_refresh", a>> /\ <<"airing_refresh", b>> # Nobody
    BY DEF Nobody
  <1>2. QED
    BY <1>1 DEF AiringHeld

LEMMA ExecutesAiring ==
  ASSUME TaskTypeOK, StepsInProgram, NEW t \in group, NEW a \in Actors, Executes(t, a), AiringHeld(t)
  PROVE  AiringHeld(t)'
  <1> SUFFICES ASSUME t = "airing_refresh"
               PROVE  AiringHeld(t)'
    BY DEF AiringHeld
  <1> DEFINE k == pc[t][a]
             next == pc'[t][a]
  <1>1. /\ \A b \in Actors : pc[t][b] \in 0 .. 6
        /\ t \in DOMAIN row /\ t \in DOMAIN lock
    BY DEF TaskTypeOK
  <1>2. PICK i \in Nat : GoTo(t, a, i)
    BY ExecutesGoesTo
  <1>3. /\ next \in 0 .. 6
        /\ \A b \in Actors : b # a => pc'[t][b] = pc[t][b]
    <2>1. pc' \in [group -> [Actors -> 0 .. 6]] /\ \A u \in group, b \in Actors : <<u, b>> # <<t, a>> => pc'[u][b] = pc[u][b]
      BY <1>2, GoesTo
    <2>2. QED
      BY <2>1
  <1>4. /\ \A b \in Actors : (Marked(t, b) <=> pc[t][b] \in 3 .. 4)
        /\ \A b \in Actors : (Marked(t, b)' <=> pc'[t][b] \in 3 .. 4)
    <2>1. ASSUME NEW b \in Actors
          PROVE  /\ Marked(t, b) <=> pc[t][b] \in 3 .. 4
                 /\ Marked(t, b)' <=> pc'[t][b] \in 3 .. 4
      <3>1. Shaped(Program(t, b), 2, 4) /\ pc[t][b] \in 0 .. 6 /\ pc'[t][b] \in 0 .. 6
        BY <1>1, <1>3, AiringProgram
      <3>2. 2 \in 1 .. 6 /\ 4 \in 1 .. 6 /\ 2 + 1 = 3
        OBVIOUS
      <3>3. QED
        BY <3>1, <3>2, MarkedNext
    <2>2. QED
      BY <2>1
  <1>5. /\ Len(Program(t, a)) = 5 /\ k \in 1 .. 5 /\ FinishOf(t, a) = 4
        /\ Statement(t, a) = Program(t, a)[k]
    <2>1. /\ pc[t][a] \in 1 .. Len(Program(t, a)) /\ Statement(t, a) = Program(t, a)[pc[t][a]]
      BY Executing, InShape
    <2>2. Len(Program(t, a)) = 5 /\ Shaped(Program(t, a), 2, 4)
      BY AiringProgram
    <2>3. 2 \in 1 .. 6 /\ 4 \in 1 .. 6
      OBVIOUS
    <2>4. FinishOf(t, a) = 4
      BY <2>2, <2>3, MarkedWhere
    <2>5. QED
      BY <2>1, <2>2, <2>4
  <1>6. /\ At(t, a, "mark") => k = 2
        /\ At(t, a, "work") => k = 3
        /\ At(t, a, "finish") => k = 4
        /\ At(t, a, "unlock") => k = 5
        /\ ~At(t, a, "probe")
        /\ At(t, a, "try") \/ At(t, a, "await") => k = 1
    <2>1. LET p == Program(t, a)
          IN p[1] \in {"await", "try"} /\ p[2] = "mark" /\ p[3] = "work" /\ p[4] = "finish" /\ p[5] = "unlock"
      BY AiringProgram
    <2>2. k = 1 \/ k = 2 \/ k = 3 \/ k = 4 \/ k = 5
      BY <1>5
    <2>3. QED
      BY <1>5, <2>1, <2>2 DEF At
  <1>7. Advance(t, a) => next = IF k = 5 THEN 0 ELSE k + 1
    <2>1. k + 1 \in Nat
      BY <1>5
    <2>2. Advance(t, a) => next = IF k + 1 > Len(Program(t, a)) THEN 0 ELSE k + 1
      BY <2>1, GoesTo DEF Advance
    <2>3. k + 1 > Len(Program(t, a)) <=> k = 5
      <3>1. \A n \in 1 .. 5 : n + 1 > 5 <=> n = 5
        OBVIOUS
      <3>2. Len(Program(t, a)) = 5 /\ k \in 1 .. 5
        BY <1>5
      <3>3. QED
        BY <3>1, <3>2
    <2> HIDE DEF k, next
    <2>4. QED
      BY <2>2, <2>3
  <1>8. \A b \in Actors : (pc[t][b] \in 2 .. 5 => lock[t] = <<t, b>>) /\ (Marked(t, b) => row[t] = "running")
    BY DEF AiringHeld
  <1>9. LockOf(t) = t
    BY DEF LockOf
  <1> SUFFICES ASSUME NEW b \in Actors
               PROVE  /\ pc'[t][b] \in 2 .. 5 => lock'[t] = <<t, b>>
                      /\ pc'[t][b] \in 3 .. 4 => row'[t] = "running"
    BY <1>4 DEF AiringHeld
  <1> HIDE DEF k, next
  <1>10. CASE MarkStarted(t, a)
    <2>1. k = 2 /\ next = 3 /\ lock' = lock /\ row'[t] = "running"
      BY <1>1, <1>6, <1>7, <1>10 DEF MarkStarted
    <2>2. QED
      BY <1>3, <1>8, <2>1 DEF k, next
  <1>11. CASE MarkFinished(t, a)
    <2>1. k = 4 /\ next = 5 /\ lock' = lock
      BY <1>6, <1>7, <1>11 DEF MarkFinished
    <2>2. CASE b = a
      BY <1>8, <2>1, <2>2 DEF k, next
    <2>3. CASE b # a
      <3>1. pc[t][b] \notin 2 .. 5
        BY <2>1, <2>3, AiringAlone DEF k
      <3>2. QED
        BY <1>3, <2>3, <3>1
    <2>4. QED
      BY <2>2, <2>3
  <1>12. CASE TakeLock(t, a)
    <2>1. /\ k = 1 /\ next = 2 /\ lock'[t] = <<t, a>> /\ lock[t] = Nobody
      BY <1>1, <1>6, <1>7, <1>9, <1>12 DEF TakeLock
    <2>2. CASE b = a
      BY <2>1, <2>2 DEF next
    <2>3. CASE b # a
      <3>1. pc[t][b] \notin 2 .. 5
        BY <2>1, <2>3, AiringAlone
      <3>2. QED
        BY <1>3, <2>3, <3>1
    <2>4. QED
      BY <2>2, <2>3
  <1>13. CASE Probe(t, a)
    BY <1>6, <1>13 DEF Probe
  <1>14. CASE FindsBusy(t, a)
    <2>1. k = 1 /\ UNCHANGED <<lock, row>> /\ GoTo(t, a, AfterBusy(t, a))
      BY <1>6, <1>14 DEF FindsBusy, rowVars
    <2>2. AfterBusy(t, a) = 6
      <3>1. ~Marked(t, a) /\ 5 + 1 = 6
        BY <1>4, <2>1 DEF k
      <3>2. QED
        BY <1>5, <3>1 DEF AfterBusy
    <2>3. next = 0
      <3>1. 6 \in Nat /\ GoTo(t, a, 6)
        BY <2>1, <2>2
      <3>2. next = IF 6 > Len(Program(t, a)) THEN 0 ELSE 6
        BY <3>1, GoesTo DEF next
      <3>3. QED
        BY <1>5, <3>2
    <2>4. QED
      BY <1>3, <1>4, <1>8, <2>1, <2>3 DEF next
  <1>15. CASE Work(t, a)
    <2>1. k = 3 /\ UNCHANGED <<lock, row>> /\ Advance(t, a)
      BY <1>6, <1>15 DEF Work, rowVars
    <2>2. next = 4
      BY <1>7, <2>1
    <2>3. QED
      BY <1>3, <1>4, <1>8, <2>1, <2>2 DEF k, next
  <1>16. CASE Unlock(t, a)
    <2>1. k = 5 /\ next = 0
      BY <1>6, <1>7, <1>16 DEF Unlock
    <2>2. CASE b = a
      BY <2>1, <2>2 DEF next
    <2>3. CASE b # a
      <3>1. pc[t][b] \notin 2 .. 5
        BY <2>1, <2>3, AiringAlone DEF k
      <3>2. QED
        BY <1>3, <2>3, <3>1
    <2>4. QED
      BY <2>2, <2>3
  <1>17. QED
    BY <1>10, <1>11, <1>12, <1>13, <1>14, <1>15, <1>16 DEF Executes

\* An actor that is not marked and is not after its step.
LEMMA EntersKept ==
  ASSUME NEW t \in group, NEW a \in Actors, UNCHANGED <<row, lost, lock>>,
         pc[t][a] = 0, pc'[t][a] \in {0, 1},
         \A b \in Actors : b # a => pc'[t][b] = pc[t][b]
  PROVE  /\ RowLive(t) => RowLive(t)'
         /\ AiringHeld(t) => AiringHeld(t)'
  <1>1. ~Marked(t, a)
    BY DEF Marked
  <1>2. ~Marked(t, a)'
    <2>1. pc'[t][a] = 0 \/ pc'[t][a] = 1
      OBVIOUS
    <2>2. CASE pc'[t][a] = 0
      BY <2>2 DEF Marked
    <2>3. CASE pc'[t][a] = 1
      <3>1. 1 .. 1 - 1 = {}
        OBVIOUS
      <3>2. QED
        BY <2>3, <3>1 DEF Marked
    <2>4. QED
      BY <2>1, <2>2, <2>3
  <1>3. \A b \in Actors : b # a => (Marked(t, b)' <=> Marked(t, b))
    BY MarkedStays
  <1>4. RowLive(t) => RowLive(t)'
    BY <1>1, <1>3 DEF RowLive
  <1>5. pc'[t][a] \notin 2 .. 5
    OBVIOUS
  <1>6. AiringHeld(t) => AiringHeld(t)'
    BY <1>2, <1>3, <1>5 DEF AiringHeld
  <1>7. QED
    BY <1>4, <1>6

LEMMA PanicKept ==
  ASSUME TaskTypeOK, StepsInProgram, NEW t \in group, NEW a \in Actors, Panic(t, a)
  PROVE  /\ RowLive(t) => RowLive(t)'
         /\ AiringHeld(t) => AiringHeld(t)'
         /\ \A u \in group \ {t} : lost[u] => lost'[u]
  <1>1. /\ UNCHANGED row /\ Release(t, a)
        /\ lost' = [lost EXCEPT ![t] = (Marked(t, a) /\ t \notin Contained) \/ lost[t]]
    BY DEF Panic, rowVars
  <1>2. /\ pc'[t][a] = IF t \in Contained THEN FinishOf(t, a) ELSE 0
        /\ \A b \in Actors : b # a => pc'[t][b] = pc[t][b]
    <2>1. /\ pc'[t][a] = IF t \in Contained THEN FinishOf(t, a) ELSE 0
          /\ \A u \in group, b \in Actors : <<u, b>> # <<t, a>> => pc'[u][b] = pc[u][b]
      BY PanicTyped
    <2>2. QED
      BY <2>1
  <1>3. \A b \in Actors : b # a => (Marked(t, b)' <=> Marked(t, b))
    BY <1>2, MarkedStays
  <1>4. lost \in [group -> BOOLEAN] /\ t \in DOMAIN lock
    BY DEF TaskTypeOK
  <1>5. /\ lost'[t] <=> (Marked(t, a) /\ t \notin Contained) \/ lost[t]
        /\ \A u \in group \ {t} : lost'[u] <=> lost[u]
    BY <1>1, <1>4, Zenon
  <1>6. t \in Contained /\ Marked(t, a) => Marked(t, a)'
    <2>1. SUFFICES ASSUME t \in Contained
                   PROVE  Marked(t, a)'
      OBVIOUS
    <2>2. PICK m \in 1 .. 6, f \in 1 .. 6 : Shaped(Program(t, a), m, f)
      BY Executing, InShape
    <2>3. pc'[t][a] = f
      BY <1>2, <2>1, <2>2, MarkedWhere
    <2>4. f \in 0 .. 6 /\ f \in m + 1 .. f
      BY <2>2 DEF Shaped
    <2>5. QED
      BY <2>2, <2>3, <2>4, MarkedNext
  <1>7. RowLive(t) => RowLive(t)'
    BY <1>1, <1>3, <1>5, <1>6 DEF RowLive
  <1>8. AiringHeld(t) => AiringHeld(t)'
    <2>1. SUFFICES ASSUME t = "airing_refresh", AiringHeld(t)
                   PROVE  AiringHeld(t)'
      BY DEF AiringHeld
    <2>2. pc'[t][a] = 0
      BY <1>2, <2>1 DEF Contained
    <2>3. pc[t][a] \in 2 .. 5
      <3>1. At(t, a, "work")
        BY DEF Panic
      <3>2. pc[t][a] # 0
        BY <3>1, AtKnown
      <3>3. pc[t][a] \in 1 .. Len(Program(t, a)) /\ Program(t, a)[pc[t][a]] = "work"
        BY <3>1, <3>2, InShape DEF At
      <3>4. Len(Program(t, a)) = 5 /\ Program(t, a)[1] # "work"
        BY <2>1, AiringProgram
      <3>5. pc[t][a] # 1
        BY <3>3, <3>4
      <3>6. pc[t][a] \in 1 .. 5
        BY <3>3, <3>4
      <3>7. QED
        BY <3>5, <3>6
    <2>4. \A b \in Actors : b # a => pc[t][b] \notin 2 .. 5
      BY <2>1, <2>3, AiringAlone
    <2>5. ~Marked(t, a)'
      BY <2>2 DEF Marked
    <2>6. \A b \in Actors : Marked(t, b) => row[t] = "running"
      BY <2>1 DEF AiringHeld
    <2>7. 0 \notin 2 .. 5
      OBVIOUS
    <2>8. QED
      BY <1>1, <1>2, <1>3, <2>2, <2>4, <2>5, <2>6, <2>7 DEF AiringHeld
  <1>9. QED
    BY <1>5, <1>7, <1>8

------------------------------------------------------------------------------
(* Every step keeps the invariant *)

LEMMA LoopTurnsKept ==
  ASSUME RowInv, NEW t \in group, LoopTurns(t)
  PROVE  RowInv'
  <1>1. TaskTypeOK /\ StepsInProgram /\ IdleUnlessUp /\ AiringLocked /\ RunningIsLive /\ AiringRowHonest
    BY DEF RowInv
  <1>2. TaskTypeOK' /\ StepsInProgram'
    BY <1>1, LoopStartTyped
  <1>3. /\ UNCHANGED <<group, process, row, lost, lock, spawned>>
        /\ spawned[t] /\ pc[t][Loop] = 0
        /\ UNCHANGED pc \/ pc' = [pc EXCEPT ![t][Loop] = 1]
    BY DEF LoopTurns, SleeperWakes, IntervalTicks, FolderLooked, Start, Due, Asleep, rowVars,
           historyVars, group
  <1>4. process = "up"
    BY <1>1, <1>3 DEF IdleUnlessUp
  <1>5. /\ pc'[t][Loop] \in {0, 1}
        /\ \A u \in group, b \in Actors : <<u, b>> # <<t, Loop>> => pc'[u][b] = pc[u][b]
    <2>1. Loop \in Actors /\ 1 \in 0 .. 6
      BY ActorsKnown
    <2>2. CASE pc' = [pc EXCEPT ![t][Loop] = 1]
      <3>1. Moves(t, Loop, 1)
        BY <2>2 DEF Moves
      <3>2. pc'[t][Loop] = 1 /\ \A u \in group, b \in Actors : <<u, b>> # <<t, Loop>> => pc'[u][b] = pc[u][b]
        BY <1>1, <2>1, <3>1, OneMoves
      <3>3. QED
        BY <3>2
    <2>3. CASE UNCHANGED pc
      BY <1>3, <2>3
    <2>4. QED
      BY <1>3, <2>2, <2>3
  <1>6. /\ RowLive(t) => RowLive(t)'
        /\ AiringHeld(t) => AiringHeld(t)'
    <2>1. Loop \in Actors /\ \A b \in Actors : b # Loop => pc'[t][b] = pc[t][b]
      BY <1>5, ActorsKnown
    <2>2. QED
      BY <1>3, <1>5, <2>1, EntersKept
  <1>7. \A u \in group \ {t} : /\ row'[u] = row[u] /\ (lost[u] => lost'[u]) /\ lock'[u] = lock[u]
                               /\ \A b \in Actors : pc'[u][b] = pc[u][b]
    BY <1>3, <1>5
  <1>8. RunningIsLive' /\ AiringLocked' /\ AiringRowHonest'
    BY <1>1, <1>3, <1>6, <1>7, HeldFacts, AsideKept
  <1>9. IdleUnlessUp'
    BY <1>3, <1>4 DEF IdleUnlessUp
  <1>10. QED
    BY <1>2, <1>8, <1>9 DEF RowInv

LEMMA ExecutesKept ==
  ASSUME RowInv, NEW t \in group, NEW a \in Actors, Executes(t, a)
  PROVE  RowInv'
  <1>1. TaskTypeOK /\ StepsInProgram /\ IdleUnlessUp /\ AiringLocked /\ RunningIsLive /\ AiringRowHonest
    BY DEF RowInv
  <1>2. TaskTypeOK' /\ StepsInProgram'
    BY <1>1, ExecutesTyped
  <1>3. UNCHANGED <<group, process, spawned>>
    BY DEF Executes, MarkStarted, MarkFinished, TakeLock, Probe, FindsBusy, Work, Unlock, group
  <1>4. process = "up"
    BY <1>1, Executing DEF IdleUnlessUp
  <1>5. \A u \in group, b \in Actors : <<u, b>> # <<t, a>> => pc'[u][b] = pc[u][b]
    <2>1. PICK i \in Nat : GoTo(t, a, i)
      BY <1>1, ExecutesGoesTo
    <2>2. QED
      BY <1>1, <2>1, GoesTo
  <1>6. /\ RowLive(t) => RowLive(t)'
        /\ AiringHeld(t) => AiringHeld(t)'
    BY <1>1, ExecutesLive, ExecutesAiring
  <1>7. ASSUME NEW u \in group \ {t}
        PROVE  /\ row'[u] = row[u] /\ (lost[u] => lost'[u])
               /\ \A b \in Actors : pc'[u][b] = pc[u][b]
               /\ u = "airing_refresh" => lock'[u] = lock[u]
    <2>1. UNCHANGED row \/ row' = [row EXCEPT ![t] = "running"] \/ row' = [row EXCEPT ![t] = "ended"]
      BY DEF Executes, MarkStarted, MarkFinished, TakeLock, Probe, FindsBusy, Work, Unlock, rowVars
    <2>2. UNCHANGED lost \/ lost' = [lost EXCEPT ![t] = FALSE]
      BY DEF Executes, MarkStarted, MarkFinished, TakeLock, Probe, FindsBusy, Work, Unlock, historyVars
    <2>3. UNCHANGED lock \/ \E h : lock' = [lock EXCEPT ![LockOf(t)] = h]
      BY DEF Executes, MarkStarted, MarkFinished, TakeLock, Probe, FindsBusy, Work, Unlock, Release
    <2>4. row'[u] = row[u] /\ (lost[u] => lost'[u])
      BY <1>1, <2>1, <2>2 DEF TaskTypeOK
    <2>5. u = "airing_refresh" => lock'[u] = lock[u]
      BY <1>1, <2>3, LocksApart DEF TaskTypeOK
    <2>6. QED
      BY <1>5, <2>4, <2>5
  <1>8. RunningIsLive' /\ AiringLocked' /\ AiringRowHonest'
    BY <1>1, <1>3, <1>4, <1>6, <1>7, HeldFacts, AsideKept
  <1>9. IdleUnlessUp'
    BY <1>3, <1>4 DEF IdleUnlessUp
  <1>10. QED
    BY <1>2, <1>8, <1>9 DEF RowInv

LEMMA PanicsKept ==
  ASSUME RowInv, NEW t \in group, NEW a \in Actors, Panic(t, a)
  PROVE  RowInv'
  <1>1. TaskTypeOK /\ StepsInProgram /\ IdleUnlessUp /\ AiringLocked /\ RunningIsLive /\ AiringRowHonest
    BY DEF RowInv
  <1>2. /\ TaskTypeOK' /\ StepsInProgram'
        /\ \A u \in group, b \in Actors : <<u, b>> # <<t, a>> => pc'[u][b] = pc[u][b]
    BY <1>1, PanicTyped
  <1>3. UNCHANGED <<group, process, row>>
    BY DEF Panic, rowVars, group
  <1>4. process = "up"
    BY <1>1, Executing DEF IdleUnlessUp
  <1>5. /\ RowLive(t) => RowLive(t)'
        /\ AiringHeld(t) => AiringHeld(t)'
        /\ \A u \in group \ {t} : lost[u] => lost'[u]
    BY <1>1, PanicKept
  <1>6. ASSUME NEW u \in group \ {t}
        PROVE  /\ row'[u] = row[u] /\ \A b \in Actors : pc'[u][b] = pc[u][b]
               /\ u = "airing_refresh" => lock'[u] = lock[u]
    <2>1. \E h : lock' = [lock EXCEPT ![LockOf(t)] = h]
      BY DEF Panic, Release
    <2>2. u = "airing_refresh" => lock'[u] = lock[u]
      BY <1>1, <2>1, LocksApart DEF TaskTypeOK
    <2>3. QED
      BY <1>2, <1>3, <2>2
  <1>7. RunningIsLive' /\ AiringLocked' /\ AiringRowHonest'
    BY <1>1, <1>3, <1>4, <1>5, <1>6, HeldFacts, AsideKept
  <1>8. IdleUnlessUp'
    BY <1>3, <1>4 DEF IdleUnlessUp
  <1>9. QED
    BY <1>2, <1>7, <1>8 DEF RowInv

LEMMA ClickKept ==
  ASSUME RowInv, NEW t \in group, NEW r \in Clickers, Click(t, r)
  PROVE  RowInv'
  <1>1. TaskTypeOK /\ StepsInProgram /\ IdleUnlessUp /\ AiringLocked /\ RunningIsLive /\ AiringRowHonest
    BY DEF RowInv
  <1>2. /\ TaskTypeOK' /\ StepsInProgram' /\ pc[t][r] = 0 /\ pc'[t][r] = 1
        /\ \A u \in group, b \in Actors : <<u, b>> # <<t, r>> => pc'[u][b] = pc[u][b]
    BY <1>1, ClickTyped
  <1>3. UNCHANGED <<group, process, row, lost, lock>> /\ process = "up"
    BY DEF Click, rowVars, historyVars, group
  <1>4. /\ RowLive(t) => RowLive(t)'
        /\ AiringHeld(t) => AiringHeld(t)'
    <2>1. r \in Actors /\ \A b \in Actors : b # r => pc'[t][b] = pc[t][b]
      BY <1>2, ActorsKnown
    <2>2. pc'[t][r] \in {0, 1}
      BY <1>2
    <2>3. QED
      BY <1>2, <1>3, <2>1, <2>2, EntersKept
  <1>5. \A u \in group \ {t} : /\ row'[u] = row[u] /\ (lost[u] => lost'[u]) /\ lock'[u] = lock[u]
                               /\ \A b \in Actors : pc'[u][b] = pc[u][b]
    BY <1>2, <1>3
  <1>6. RunningIsLive' /\ AiringLocked' /\ AiringRowHonest'
    BY <1>1, <1>3, <1>4, <1>5, HeldFacts, AsideKept
  <1>7. IdleUnlessUp'
    BY <1>3 DEF IdleUnlessUp
  <1>8. QED
    BY <1>2, <1>6, <1>7 DEF RowInv

LEMMA AbandonKept ==
  ASSUME RowInv, NEW t \in group, NEW r \in Clickers, Abandon(t, r)
  PROVE  RowInv'
  <1>1. TaskTypeOK /\ StepsInProgram /\ IdleUnlessUp /\ AiringLocked /\ RunningIsLive /\ AiringRowHonest
    BY DEF RowInv
  <1>2. /\ TaskTypeOK' /\ StepsInProgram' /\ pc[t][r] # 0
        /\ \A u \in group, b \in Actors : <<u, b>> # <<t, r>> => pc'[u][b] = pc[u][b]
    BY <1>1, AbandonTyped
  <1>3. /\ UNCHANGED <<group, process, row, lost>> /\ t \in Attached /\ t # "airing_refresh"
        /\ \E h : lock' = [lock EXCEPT ![LockOf(t)] = h]
    BY DEF Abandon, Attached, Release, rowVars, historyVars, group
  <1>4. process = "up"
    BY <1>1, <1>2, ActorsKnown DEF IdleUnlessUp
  <1>5. AiringHeld(t)'
    BY <1>3 DEF AiringHeld
  <1>6. ASSUME NEW u \in group \ {t}
        PROVE  /\ row'[u] = row[u] /\ (lost[u] => lost'[u]) /\ \A b \in Actors : pc'[u][b] = pc[u][b]
               /\ u = "airing_refresh" => lock'[u] = lock[u]
    BY <1>1, <1>2, <1>3, LocksApart DEF TaskTypeOK
  <1>7. RunningIsLive' /\ AiringLocked' /\ AiringRowHonest'
    BY <1>1, <1>3, <1>5, <1>6, AsideKept
  <1>8. IdleUnlessUp'
    BY <1>3, <1>4 DEF IdleUnlessUp
  <1>9. QED
    BY <1>2, <1>7, <1>8 DEF RowInv

\* A step that leaves the actors, the locks and the rows alone.
LEMMA RowsUntouched ==
  ASSUME RowInv, TaskTypeOK', StepsInProgram', UNCHANGED <<group, row, lost, lock, pc>>,
         process' # "down" => process # "down",
         process' = "up" \/ UNCHANGED <<process, spawned>>
  PROVE  RowInv'
  <1>1. \A u \in group, b \in Actors : Marked(u, b)' <=> Marked(u, b)
    BY DEF Marked, Program
  <1>2. RunningIsLive' /\ AiringLocked' /\ AiringRowHonest'
    BY <1>1 DEF RowInv, RunningIsLive, AiringLocked, AiringRowHonest
  <1>3. IdleUnlessUp'
    BY DEF RowInv, IdleUnlessUp
  <1>4. QED
    BY <1>2, <1>3 DEF RowInv

LEMMA OthersKept ==
  ASSUME RowInv,
         \/ \E t \in group : Toggle(t) \/ Respawn(t)
         \/ TimePasses \/ StartLoops \/ UNCHANGED taskVars
  PROVE  RowInv'
  <1>1. TaskTypeOK /\ StepsInProgram
    BY DEF RowInv
  <1>2. ASSUME NEW t \in group, Toggle(t)
        PROVE  RowInv'
    <2>1. UNCHANGED <<group, row, lost, lock, pc, process, spawned>>
      BY <1>2 DEF Toggle, processVars, rowVars, historyVars, group
    <2>2. QED
      BY <1>1, <1>2, <2>1, ToggleTyped, RowsUntouched
  <1>3. ASSUME NEW t \in group, Respawn(t)
        PROVE  RowInv'
    <2>1. /\ UNCHANGED <<group, row, lost, lock, pc>> /\ process = "up" /\ process' = "up"
          /\ Spawn({t}) /\ {t} \in SUBSET group
          /\ UNCHANGED <<taskPlan, uptime, lock, pc, rowVars, enabled, strikeVars, historyVars>>
      BY <1>3 DEF Respawn, rowVars, historyVars, group
    <2>2. TaskTypeOK' /\ StepsInProgram'
      BY <1>1, <2>1, SpawningTyped
    <2>3. QED
      BY <2>1, <2>2, RowsUntouched
  <1>4. CASE StartLoops
    <2>1. /\ UNCHANGED <<group, row, lost, lock, pc>> /\ process = "recovered" /\ process' = "up"
          /\ Spawn(group) /\ group \in SUBSET group
          /\ UNCHANGED <<taskPlan, uptime, lock, pc, rowVars, enabled, strikeVars, historyVars>>
      BY <1>4 DEF StartLoops, rowVars, historyVars, group
    <2>2. TaskTypeOK' /\ StepsInProgram'
      BY <1>1, <2>1, SpawningTyped
    <2>3. QED
      BY <2>1, <2>2, RowsUntouched
  <1>5. CASE TimePasses
    <2>1. UNCHANGED <<group, row, lost, lock, pc, process, spawned>>
      BY <1>5 DEF TimePasses, group
    <2>2. QED
      BY <1>1, <1>5, <2>1, TimeTyped, RowsUntouched
  <1>6. CASE UNCHANGED taskVars
    <2>1. /\ UNCHANGED <<group, row, lost, lock, pc, process, spawned>>
          /\ UNCHANGED <<taskPlan, uptime, age, wait, pend, counter, errors, enabled, clicks, panics,
                         toggles, since>>
      BY <1>6 DEF taskVars, processVars, timerVars, rowVars, strikeVars, historyVars, group
    <2>2. TaskTypeOK'
      BY <1>1, <2>1 DEF TaskTypeOK
    <2>3. StepsInProgram'
      BY <1>1, <2>1 DEF StepsInProgram, Program
    <2>4. QED
      BY <2>1, <2>2, <2>3, RowsUntouched
  <1>7. QED
    BY <1>2, <1>3, <1>4, <1>5, <1>6

LEMMA CrashKept ==
  ASSUME RowInv, Crash
  PROVE  RowInv'
  <1>1. TaskTypeOK' /\ StepsInProgram' /\ IdleUnlessUp'
    BY CrashTyped DEF RowInv
  <1>2. process' = "down"
    BY DEF Crash
  <1>3. \A t \in group', a \in Actors : pc'[t][a] = 0
    BY <1>1, <1>2 DEF IdleUnlessUp
  <1>4. \A t \in group', a \in Actors : ~Marked(t, a)' /\ pc'[t][a] \notin 2 .. 5
    BY <1>3 DEF Marked
  <1>5. RunningIsLive' /\ AiringLocked' /\ AiringRowHonest'
    BY <1>2, <1>4 DEF RunningIsLive, AiringLocked, AiringRowHonest
  <1>6. QED
    BY <1>1, <1>5 DEF RowInv

LEMMA BootKept ==
  ASSUME RowInv, Boot
  PROVE  RowInv'
  <1>1. TaskTypeOK' /\ StepsInProgram'
    BY BootTyped DEF RowInv
  <1>2. process = "down" /\ process' = "recovered" /\ UNCHANGED <<group, pc, spawned>>
    BY DEF Boot, group
  <1>3. IdleUnlessUp'
    BY <1>2 DEF RowInv, IdleUnlessUp
  <1>4. \A t \in group, a \in Actors : pc'[t][a] = 0
    BY <1>2 DEF RowInv, IdleUnlessUp
  <1>5. \A t \in group, a \in Actors : ~Marked(t, a)' /\ pc'[t][a] \notin 2 .. 5
    BY <1>4 DEF Marked
  <1>6. \A t \in group : row'[t] # "running"
    BY DEF Boot, Recovered
  <1>7. RunningIsLive' /\ AiringLocked' /\ AiringRowHonest'
    BY <1>2, <1>5, <1>6 DEF RunningIsLive, AiringLocked, AiringRowHonest
  <1>8. QED
    BY <1>1, <1>3, <1>7 DEF RowInv

LEMMA InitRow == TaskInit => RowInv
  <1> SUFFICES ASSUME TaskInit
               PROVE  RowInv
    OBVIOUS
  <1>1. TaskTypeOK /\ StepsInProgram /\ IdleUnlessUp
    BY InitTyped
  <1>2. \A t \in group, a \in Actors : pc[t][a] = 0
    BY FreshTyped DEF TaskInit
  <1>3. \A t \in group, a \in Actors : ~Marked(t, a) /\ pc[t][a] \notin 2 .. 5
    BY <1>2 DEF Marked
  <1>4. \A t \in group : row[t] # "running"
    BY DEF TaskInit
  <1>5. QED
    BY <1>1, <1>3, <1>4 DEF RowInv, RunningIsLive, AiringLocked, AiringRowHonest

LEMMA RowKept == RowInv /\ [TaskNext]_taskVars => RowInv'
  BY LoopTurnsKept, ExecutesKept, PanicsKept, ClickKept, AbandonKept, OthersKept, CrashKept,
     BootKept DEF TaskNext

\* The row, the timers, the locks and the programs of every task keep their shape:
\* in particular no sleep of a supervised loop is ever negative.
THEOREM TasksTyped == TaskSpec => []TaskTypeOK
  <1>1. RowInv => TaskTypeOK
    BY DEF RowInv
  <1>2. QED
    BY InitRow, RowKept, <1>1, PTL DEF TaskSpec

\* Whatever clicks, panics, busy answers, toggles, crashes and boots there are, a row
\* that says running has a run of this process behind it, and that of airing_refresh
\* says so for as long as a run goes on.
THEOREM RowsStayHonest == TaskSpec => []RowsAreHonest
  <1>1. RowInv => RowsAreHonest
    BY DEF RowInv, RowsAreHonest
  <1>2. QED
    BY InitRow, RowKept, <1>1, PTL DEF TaskSpec

------------------------------------------------------------------------------
(* The distance of automatic runs *)

\* the loop is in a run whose row it has not marked yet
Unmarked(t) ==
  pc[t][Loop] # 0 /\ \A i \in 1 .. pc[t][Loop] - 1 : Program(t, Loop)[i] # "mark"

\* A row that does not say running was finished after the last automatic start, a loop
\* sleeps until a period after it, and what wakes up has slept that long.
SpacedTask(t) ==
  /\ row[t] # "running" => age[t] <= since[t]
  /\ process = "recovered" => row[t] # "running"
  /\ process = "up" /\ ~spawned[t] => since[t] = AgeCap
  /\ pc[t][Loop] # 0 => spawned[t]
  /\ Asleep(t) => since[t] + wait[t] >= AgeCap
  /\ Unmarked(t) => since[t] = AgeCap

SpacingInv == RowInv /\ \A t \in group \cap Sleeping : SpacedTask(t)

\* A row is at most a part of a minute older than its minutes, so sleeping what is left
\* of the period reaches the end of it.
LEMMA SleepCovers ==
  ASSUME TaskTypeOK, NEW t \in group \cap Sleeping
  PROVE  age[t] + FirstWait(t) >= AgeCap /\ FirstWait(t) \in Nat /\ age[t] \in 0 .. AgeCap
  <1>1. age[t] \in 0 .. AgeCap /\ age[t] \in Nat
    BY Numbers DEF TaskTypeOK
  <1>2. DurationUntilNextRun(t) \in Nat /\ FirstWait(t) \in Nat
    BY FirstWaitTyped
  <1>3. ASSUME NEW n \in Nat
        PROVE  /\ n \div MinuteParts \in Nat
               /\ n + (IF n \div MinuteParts >= Period THEN 0
                       ELSE (Period - (n \div MinuteParts)) * MinuteParts) >= Period * MinuteParts
    <2>1. n \div MinuteParts \in Nat /\ (n \div MinuteParts) * MinuteParts <= n
      BY Numbers
    <2>2. ASSUME NEW q \in Nat, q * MinuteParts <= n
          PROVE  n + (IF q >= Period THEN 0 ELSE (Period - q) * MinuteParts) >= Period * MinuteParts
      <3>1. CASE q >= Period
        <4>1. q * MinuteParts >= Period * MinuteParts
          BY <3>1, Numbers
        <4>2. Period * MinuteParts \in Nat /\ q * MinuteParts \in Nat
          BY Numbers
        <4>3. QED
          BY <2>2, <3>1, <4>1, <4>2
      <3>2. CASE q < Period
        <4>1. (Period - q) * MinuteParts = Period * MinuteParts - q * MinuteParts
          BY Numbers
        <4>2. Period * MinuteParts \in Nat /\ q * MinuteParts \in Nat
          BY Numbers
        <4>3. QED
          BY <2>2, <3>2, <4>1, <4>2, Numbers
      <3>3. QED
        BY <3>1, <3>2, Numbers
    <2>3. QED
      BY <2>1, <2>2
  <1>4. age[t] + DurationUntilNextRun(t) >= AgeCap
    BY <1>1, <1>3 DEF DurationUntilNextRun, MinutesSinceLastFinished, AgeCap
  <1>5. FirstWait(t) >= DurationUntilNextRun(t)
    <2>1. t \in Sleeping
      OBVIOUS
    <2>2. ASSUME NEW settle \in Nat
          PROVE  (IF DurationUntilNextRun(t) > settle THEN DurationUntilNextRun(t) ELSE settle)
                   >= DurationUntilNextRun(t)
      BY <1>2
    <2>3. (IF t = "library_classify" THEN StartupDelay * MinuteParts ELSE 0) \in Nat
      BY Numbers
    <2>4. t \notin Folder \cup Counting \cup EachTick /\ t \notin Manual
      BY <2>1 DEF Sleeping
    <2>5. FirstWait(t) =
            LET settle == IF t = "library_classify" THEN StartupDelay * MinuteParts ELSE 0
            IN IF DurationUntilNextRun(t) > settle THEN DurationUntilNextRun(t) ELSE settle
      BY <2>1, <2>4 DEF FirstWait
    <2>6. QED
      BY <2>2, <2>3, <2>5
  <1>6. QED
    BY <1>1, <1>2, <1>4, <1>5, Numbers

\* A loop that sleeps has a program, and where it stands tells whether it has marked.
LEMMA SleeperShaped ==
  ASSUME TaskTypeOK, NEW t \in group \cap Sleeping
  PROVE  /\ t \in group /\ t \notin Manual /\ ~Ticking(t) /\ t \notin Folder /\ Loop \in Actors
         /\ \E m, f \in 1 .. 6 : Shaped(Program(t, Loop), m, f)
  <1>1. t \in Tasks /\ t \notin Manual /\ ~Ticking(t) /\ t \notin Folder
    BY PlanKnown DEF Sleeping, Ticking
  <1>2. QED
    BY <1>1, ActorsKnown, ProgramsKnown

LEMMA UnmarkedWhere ==
  ASSUME NEW t, NEW m \in 1 .. 6, NEW f \in 1 .. 6, Shaped(Program(t, Loop), m, f)
  PROVE  /\ pc[t][Loop] \in 0 .. Len(Program(t, Loop)) => (Unmarked(t) <=> pc[t][Loop] \in 1 .. m)
         /\ pc'[t][Loop] \in 0 .. Len(Program(t, Loop)) => (Unmarked(t)' <=> pc'[t][Loop] \in 1 .. m)
  <1> DEFINE p == Program(t, Loop)
             U(k) == k # 0 /\ \A i \in 1 .. k - 1 : p[i] # "mark"
  <1>1. /\ Len(p) \in 1 .. 6 /\ m \in 1 .. Len(p)
        /\ \A i \in 1 .. Len(p) : (p[i] = "mark" <=> i = m)
    BY DEF Shaped
  <1> HIDE DEF p
  <1>2. ASSUME NEW k \in 0 .. Len(p)
        PROVE  U(k) <=> k \in 1 .. m
    <2>1. ASSUME U(k)
          PROVE  k \in 1 .. m
      <3>1. k # 0 /\ (m \in 1 .. k - 1 => p[m] # "mark")
        BY <2>1
      <3>2. p[m] = "mark"
        BY <1>1
      <3>3. QED
        BY <1>1, <3>1, <3>2
    <2>2. ASSUME k \in 1 .. m
          PROVE  U(k)
      <3>1. \A i \in 1 .. k - 1 : i \in 1 .. Len(p) /\ i # m
        BY <1>1, <2>2
      <3>2. QED
        BY <1>1, <2>2, <3>1
    <2>3. QED
      BY <2>1, <2>2
  <1>3. Unmarked(t) <=> U(pc[t][Loop])
    BY DEF Unmarked, p
  <1>4. Unmarked(t)' <=> U(pc'[t][Loop])
    BY DEF Unmarked, Program, p
  <1> HIDE DEF U
  <1>5. QED
    BY <1>2, <1>3, <1>4 DEF p

\* A step that leaves the loop of t alone, and whose writes of its row finish it now.
LEMMA SpacedAside ==
  ASSUME TaskTypeOK, NEW t \in group \cap Sleeping, SpacedTask(t), process' = "up", process = "up",
         \/ row'[t] = row[t] /\ age'[t] = age[t]
         \/ row'[t] = "running"
         \/ age'[t] = 0,
         since'[t] = since[t], wait'[t] = wait[t], pc'[t][Loop] = pc[t][Loop],
         spawned'[t] <=> spawned[t]
  PROVE  SpacedTask(t)'
  <1>1. since[t] \in 0 .. AgeCap
    BY DEF TaskTypeOK
  <1>2. row'[t] # "running" => age'[t] <= since'[t]
    BY <1>1, Numbers DEF SpacedTask
  <1>3. Unmarked(t)' <=> Unmarked(t)
    BY DEF Unmarked, Program
  <1>4. Asleep(t)' <=> Asleep(t)
    BY DEF Asleep
  <1>5. QED
    BY <1>2, <1>3, <1>4 DEF SpacedTask

\* The same for a task nothing of which is touched.
LEMMA SpacedStays ==
  ASSUME NEW t, SpacedTask(t), UNCHANGED <<process, row, age, since, wait, pc, spawned>>
  PROVE  SpacedTask(t)'
  <1>1. Unmarked(t)' <=> Unmarked(t)
    BY DEF Unmarked, Program
  <1>2. Asleep(t)' <=> Asleep(t)
    BY DEF Asleep
  <1>3. QED
    BY <1>1, <1>2 DEF SpacedTask

LEMMA SpacedLoopTurns ==
  ASSUME RowInv, NEW t \in group \cap Sleeping, SpacedTask(t), NEW u \in group, LoopTurns(u)
  PROVE  SpacedTask(t)'
  <1>1. TaskTypeOK /\ StepsInProgram /\ IdleUnlessUp
    BY DEF RowInv
  <1>2. UNCHANGED <<process, row, age, since, spawned>> /\ Due(u)
    BY DEF LoopTurns, SleeperWakes, IntervalTicks, FolderLooked, rowVars, historyVars
  <1>3. process = "up"
    BY <1>1, <1>2 DEF IdleUnlessUp, Due, Asleep
  <1>4. CASE u # t
    <2>1. UNCHANGED wait \/ \E n : wait' = [wait EXCEPT ![u] = n]
      BY DEF LoopTurns, SleeperWakes, IntervalTicks, FolderLooked
    <2>2. UNCHANGED pc \/ pc' = [pc EXCEPT ![u][Loop] = 1]
      BY DEF LoopTurns, SleeperWakes, IntervalTicks, FolderLooked, Start
    <2>3. wait'[t] = wait[t] /\ pc'[t][Loop] = pc[t][Loop]
      BY <1>1, <1>4, <2>1, <2>2 DEF TaskTypeOK
    <2>4. QED
      BY <1>1, <1>2, <1>3, <2>3, SpacedAside
  <1>5. CASE u = t
    <2>1. SleeperWakes(t) /\ spawned[t] /\ pc[t][Loop] = 0 /\ wait[t] = 0
      BY <1>2, <1>5, SleeperShaped, <1>1 DEF LoopTurns, IntervalTicks, FolderLooked, Due, Asleep
    <2>2. since[t] \in 0 .. AgeCap /\ AgeCap \in Nat
      BY <1>1, Numbers DEF TaskTypeOK
    <2>3. since[t] = AgeCap
      BY <2>1, <2>2 DEF SpacedTask, Asleep
    <2>4. CASE Start(t) /\ UNCHANGED wait
      <3>1. pc'[t][Loop] = 1
        <4>1. Loop \in Actors /\ 1 \in 0 .. 6 /\ Moves(t, Loop, 1)
          BY <2>4, ActorsKnown DEF Start, Moves
        <4>2. QED
          BY <1>1, <4>1, OneMoves
      <3>2. ~Asleep(t)'
        BY <3>1 DEF Asleep
      <3>3. QED
        BY <1>2, <2>1, <2>3, <3>2 DEF SpacedTask
    <2>5. CASE wait' = [wait EXCEPT ![t] = Period * MinuteParts] /\ UNCHANGED pc
      <3>1. wait'[t] = AgeCap
        BY <1>1, <2>5 DEF TaskTypeOK, AgeCap
      <3>2. since'[t] + wait'[t] >= AgeCap
        BY <1>2, <2>2, <3>1
      <3>3. ~Unmarked(t)'
        BY <2>1, <2>5 DEF Unmarked
      <3>4. QED
        BY <1>2, <2>1, <2>3, <2>5, <3>2, <3>3 DEF SpacedTask
    <2>6. QED
      BY <2>1, <2>4, <2>5 DEF SleeperWakes
  <1>6. QED
    BY <1>4, <1>5

\* What a statement of another actor, or of another task, does to a loop that sleeps.
LEMMA SpacedOthersExecute ==
  ASSUME RowInv, NEW t \in group \cap Sleeping, SpacedTask(t), NEW u \in group, NEW a \in Actors,
         Executes(u, a), u # t \/ a # Loop
  PROVE  SpacedTask(t)'
  <1>1. TaskTypeOK /\ StepsInProgram /\ IdleUnlessUp
    BY DEF RowInv
  <1>2. UNCHANGED <<process, spawned>>
    BY DEF Executes, MarkStarted, MarkFinished, TakeLock, Probe, FindsBusy, Work, Unlock
  <1>3. process = "up"
    BY <1>1, Executing DEF IdleUnlessUp
  <1>4. PICK i \in Nat : GoTo(u, a, i)
    BY <1>1, ExecutesGoesTo
  <1>5. pc'[t][Loop] = pc[t][Loop]
    <2>1. Loop \in Actors /\ <<t, Loop>> # <<u, a>>
      BY ActorsKnown
    <2>2. QED
      BY <1>1, <1>4, <2>1, GoesTo
  <1>6. wait'[t] = wait[t]
    <2>1. wait' = wait \/ (a = Loop /\ wait' = [wait EXCEPT ![u] = Period * MinuteParts])
      BY <1>4 DEF GoTo, Ends
    <2>2. QED
      BY <1>1, <2>1 DEF TaskTypeOK
  <1>7. since'[t] = since[t]
    <2>1. since' = since \/ (a = Loop /\ since' = [since EXCEPT ![u] = 0])
      BY DEF Executes, MarkStarted, MarkFinished, TakeLock, Probe, FindsBusy, Work, Unlock, historyVars
    <2>2. QED
      BY <1>1, <2>1 DEF TaskTypeOK
  <1>8. \/ row'[t] = row[t] /\ age'[t] = age[t]
        \/ row'[t] = "running"
        \/ age'[t] = 0
    <2>1. \/ UNCHANGED <<row, age>>
          \/ row' = [row EXCEPT ![u] = "running"] /\ UNCHANGED age
          \/ row' = [row EXCEPT ![u] = "ended"] /\ age' = [age EXCEPT ![u] = 0]
      BY DEF Executes, MarkStarted, MarkFinished, TakeLock, Probe, FindsBusy, Work, Unlock, rowVars
    <2>2. QED
      BY <1>1, <2>1 DEF TaskTypeOK
  <1>9. QED
    BY <1>1, <1>2, <1>3, <1>5, <1>6, <1>7, <1>8, SpacedAside

\* What its own statements do: the mark starts the period, the end sleeps it.
LEMMA SpacedLoopExecutes ==
  ASSUME RowInv, NEW t \in group \cap Sleeping, SpacedTask(t), Executes(t, Loop)
  PROVE  SpacedTask(t)' /\ (MarkStarted(t, Loop) => since[t] >= Period * MinuteParts)
  <1> DEFINE k == pc[t][Loop]
             next == pc'[t][Loop]
             len == Len(Program(t, Loop))
  <1>1. TaskTypeOK /\ StepsInProgram /\ IdleUnlessUp /\ t \in group /\ Loop \in Actors
    BY SleeperShaped DEF RowInv
  <1>2. UNCHANGED <<process, spawned>> /\ k # 0
    BY Executing DEF Executes, MarkStarted, MarkFinished, TakeLock, Probe, FindsBusy, Work, Unlock
  <1>3. process = "up"
    BY <1>1, <1>2 DEF IdleUnlessUp
  <1>4. PICK m \in 1 .. 6, f \in 1 .. 6 : Shaped(Program(t, Loop), m, f)
    BY <1>1, SleeperShaped
  <1>5. k \in 1 .. len /\ len \in 1 .. 6 /\ m < f /\ f \in 1 .. len /\ m \in 1 .. len
    <2>1. k \in 1 .. len /\ len \in 1 .. 6
      BY <1>1, <1>2, InShape
    <2>2. QED
      BY <1>4, <2>1 DEF Shaped
  <1>6. PICK i \in Nat \ {0} : GoTo(t, Loop, i)
    <2>1. \/ GoTo(t, Loop, k + 1) \/ GoTo(t, Loop, AfterBusy(t, Loop))
      BY DEF Executes, MarkStarted, MarkFinished, TakeLock, Probe, FindsBusy, Work, Unlock, Advance
    <2>2. FinishOf(t, Loop) = f
      BY <1>4, MarkedWhere
    <2>3. k + 1 \in Nat \ {0} /\ AfterBusy(t, Loop) \in Nat \ {0}
      BY <1>5, <2>2 DEF AfterBusy
    <2>4. QED
      BY <2>1, <2>3
  <1>7. next \in 0 .. len /\ next = IF i > len THEN 0 ELSE i
    BY <1>1, <1>6, GoesTo
  <1>8. /\ Unmarked(t) <=> k \in 1 .. m
        /\ Unmarked(t)' <=> next \in 1 .. m
    <2>1. k \in 0 .. len
      BY <1>5
    <2>2. QED
      BY <1>4, <1>7, <2>1, UnmarkedWhere
  <1>9. since[t] \in 0 .. AgeCap /\ AgeCap \in Nat /\ since'[t] \in 0 .. AgeCap
    <2>1. since \in [group -> 0 .. AgeCap] /\ AgeCap \in Nat
      BY <1>1, Numbers DEF TaskTypeOK
    <2>2. since' = since \/ since' = [since EXCEPT ![t] = 0]
      BY DEF Executes, MarkStarted, MarkFinished, TakeLock, Probe, FindsBusy, Work, Unlock, historyVars
    <2>3. since'[t] = since[t] \/ since'[t] = 0
      BY <1>1, <2>1, <2>2
    <2>4. QED
      BY <1>1, <2>1, <2>3
  <1>10. next = 0 => wait'[t] = AgeCap
    <2>1. SUFFICES ASSUME next = 0
                   PROVE  wait'[t] = AgeCap
      OBVIOUS
    <2>2. i > len
      BY <1>7, <2>1
    <2>3. wait' = [wait EXCEPT ![t] = Period * MinuteParts]
      BY <1>6, <2>2, SleeperShaped, <1>1 DEF GoTo, Ends
    <2>4. QED
      BY <1>1, <2>3 DEF TaskTypeOK, AgeCap
  <1>11. Asleep(t)' => since'[t] + wait'[t] >= AgeCap
    <2>1. SUFFICES ASSUME Asleep(t)'
                   PROVE  since'[t] + wait'[t] >= AgeCap
      OBVIOUS
    <2>2. wait'[t] = AgeCap
      BY <1>10, <2>1 DEF Asleep
    <2>3. QED
      BY <1>9, <2>2
  <1>12. At(t, Loop, "mark") => k = m
    <2>1. At(t, Loop, "mark") => Program(t, Loop)[k] = "mark"
      BY <1>1, <1>2, InShape DEF At
    <2>2. QED
      BY <1>4, <1>5, <2>1 DEF Shaped
  <1>13. /\ row'[t] # "running" => age'[t] <= since'[t]
         /\ Unmarked(t)' => since'[t] = AgeCap
    <2>1. CASE MarkStarted(t, Loop)
      <3>1. row'[t] = "running"
        BY <1>1, <2>1 DEF MarkStarted, TaskTypeOK
      <3>2. k = m /\ GoTo(t, Loop, k + 1)
        BY <1>12, <2>1 DEF MarkStarted, Advance
      <3>3. next = IF m + 1 > len THEN 0 ELSE m + 1
        <4>1. m + 1 \in Nat
          BY <1>5
        <4>2. QED
          BY <1>1, <3>2, <4>1, GoesTo
      <3>4. next \notin 1 .. m
        BY <1>5, <3>3
      <3>5. QED
        BY <1>8, <3>1, <3>4
    <2>2. CASE MarkFinished(t, Loop)
      <3>1. age'[t] = 0 /\ since' = since
        BY <1>1, <2>2 DEF MarkFinished, TaskTypeOK
      <3>2. k = f
        <4>1. Program(t, Loop)[k] = "finish"
          BY <1>1, <1>2, <2>2, InShape DEF At, MarkFinished
        <4>2. QED
          BY <1>4, <1>5, <4>1 DEF Shaped
      <3>3. next = IF f + 1 > len THEN 0 ELSE f + 1
        <4>1. f + 1 \in Nat /\ GoTo(t, Loop, f + 1)
          BY <1>5, <2>2, <3>2 DEF MarkFinished, Advance
        <4>2. QED
          BY <1>1, <4>1, GoesTo
      <3>4. next \notin 1 .. m
        BY <1>5, <3>3
      <3>5. QED
        BY <1>8, <1>9, <3>1, <3>4
    <2>3. ASSUME \/ TakeLock(t, Loop) \/ Probe(t, Loop) \/ FindsBusy(t, Loop) \/ Work(t, Loop)
                 \/ Unlock(t, Loop)
          PROVE  /\ row'[t] # "running" => age'[t] <= since'[t]
                 /\ Unmarked(t)' => since'[t] = AgeCap
      <3>1. UNCHANGED <<row, age, since>>
        BY <2>3 DEF TakeLock, Probe, FindsBusy, Work, Unlock, rowVars, historyVars
      <3>2. GoTo(t, Loop, k + 1) \/ GoTo(t, Loop, AfterBusy(t, Loop))
        BY <2>3 DEF TakeLock, Probe, FindsBusy, Work, Unlock, Advance
      <3>3. AfterBusy(t, Loop) = f \/ AfterBusy(t, Loop) = len + 1
        BY <1>4, MarkedWhere DEF AfterBusy
      <3>4. next \in {0, k + 1, f}
        <4>1. /\ k + 1 \in Nat /\ f \in Nat /\ len + 1 \in Nat
          BY <1>5
        <4>2. ASSUME NEW j \in Nat, GoTo(t, Loop, j)
              PROVE  next = IF j > len THEN 0 ELSE j
          BY <1>1, <4>2, GoesTo
        <4>3. GoTo(t, Loop, k + 1) => next \in {0, k + 1}
          BY <4>1, <4>2
        <4>4. GoTo(t, Loop, f) => next \in {0, f}
          BY <4>1, <4>2
        <4>5. GoTo(t, Loop, len + 1) => next \in {0, len + 1}
          BY <4>1, <4>2
        <4>6. next # len + 1
          BY <1>5, <1>7
        <4>7. QED
          BY <3>2, <3>3, <4>3, <4>4, <4>5, <4>6
      <3>5. next \in 1 .. m => k \in 1 .. m
        BY <1>5, <3>4
      <3>6. QED
        BY <1>8, <3>1, <3>5 DEF SpacedTask
    <2>4. QED
      BY <2>1, <2>2, <2>3 DEF Executes
  <1>14. SpacedTask(t)'
    BY <1>2, <1>3, <1>11, <1>13 DEF SpacedTask
  <1>15. MarkStarted(t, Loop) => since[t] >= Period * MinuteParts
    <2>1. SUFFICES ASSUME MarkStarted(t, Loop)
                   PROVE  since[t] >= Period * MinuteParts
      OBVIOUS
    <2>2. k \in 1 .. m
      BY <1>5, <1>12, <2>1 DEF MarkStarted
    <2>3. since[t] = AgeCap
      BY <1>8, <2>2 DEF SpacedTask
    <2>4. QED
      BY <1>9, <2>3 DEF AgeCap
  <1>16. QED
    BY <1>14, <1>15

\* A panic of the loop puts no distance before its next run; supervise reads the row.
LEMMA SpacedPanics ==
  ASSUME RowInv, NEW t \in group \cap Sleeping, SpacedTask(t), NEW u \in group, NEW a \in Actors,
         Panic(u, a)
  PROVE  SpacedTask(t)'
  <1>1. TaskTypeOK /\ StepsInProgram /\ IdleUnlessUp /\ t \in group
    BY SleeperShaped DEF RowInv
  <1>2. /\ UNCHANGED <<process, row, age, wait>>
        /\ spawned' = IF a = Loop THEN [spawned EXCEPT ![u] = FALSE] ELSE spawned
        /\ since' = IF a = Loop THEN [since EXCEPT ![u] = AgeCap] ELSE since
    BY DEF Panic, rowVars, timerVars
  <1>3. process = "up"
    BY <1>1, Executing DEF IdleUnlessUp
  <1>4. /\ pc'[u][a] = IF u \in Contained THEN FinishOf(u, a) ELSE 0
        /\ \A v \in group, b \in Actors : <<v, b>> # <<u, a>> => pc'[v][b] = pc[v][b]
    BY <1>1, PanicTyped
  <1>5. CASE u # t \/ a # Loop
    <2>1. pc'[t][Loop] = pc[t][Loop]
      <3>1. Loop \in Actors /\ <<t, Loop>> # <<u, a>>
        BY <1>5, ActorsKnown
      <3>2. QED
        BY <1>1, <1>4, <3>1
    <2>2. spawned'[t] <=> spawned[t]
      <3>1. spawned \in [group -> BOOLEAN]
        BY <1>1 DEF TaskTypeOK
      <3>2. spawned' = spawned \/ (u # t /\ spawned' = [spawned EXCEPT ![u] = FALSE])
        BY <1>2, <1>5
      <3>3. QED
        BY <1>1, <3>1, <3>2
    <2>3. since'[t] = since[t]
      BY <1>1, <1>2, <1>5 DEF TaskTypeOK
    <2>4. QED
      BY <1>1, <1>2, <1>3, <2>1, <2>2, <2>3, SpacedAside
  <1>6. CASE u = t /\ a = Loop
    <2>1. pc'[t][Loop] = 0
      BY <1>1, <1>4, <1>6, SleeperShaped DEF Contained, Manual
    <2>2. ~spawned'[t] /\ since'[t] = AgeCap
      BY <1>1, <1>2, <1>6 DEF TaskTypeOK
    <2>3. age[t] \in 0 .. AgeCap /\ AgeCap \in Nat
      BY <1>1, Numbers DEF TaskTypeOK
    <2>4. ~Asleep(t)' /\ ~Unmarked(t)'
      BY <2>1, <2>2 DEF Asleep, Unmarked
    <2>5. age'[t] <= since'[t]
      BY <1>2, <2>2, <2>3
    <2>6. QED
      BY <1>2, <1>3, <2>1, <2>2, <2>4, <2>5 DEF SpacedTask
  <1>7. QED
    BY <1>5, <1>6

LEMMA SpacedUsers ==
  ASSUME RowInv, NEW t \in group \cap Sleeping, SpacedTask(t), NEW u \in group,
         Toggle(u) \/ \E r \in Clickers : Click(u, r) \/ Abandon(u, r)
  PROVE  SpacedTask(t)'
  <1>1. TaskTypeOK /\ StepsInProgram /\ IdleUnlessUp /\ t \in group /\ Loop \in Actors
    BY SleeperShaped DEF RowInv
  <1>2. CASE Toggle(u)
    <2>1. UNCHANGED <<process, row, age, since, wait, pc, spawned>>
      BY <1>2 DEF Toggle, processVars, rowVars, timerVars, historyVars
    <2>2. QED
      BY <2>1, SpacedStays
  <1>3. ASSUME NEW r \in Clickers, Click(u, r) \/ Abandon(u, r)
        PROVE  SpacedTask(t)'
    <2>1. UNCHANGED <<process, row, age, since, wait, spawned>>
      BY <1>3 DEF Click, Abandon, rowVars, timerVars, historyVars
    <2>2. process = "up"
      <3>1. Click(u, r) => process = "up"
        BY DEF Click
      <3>2. Abandon(u, r) => pc[u][r] # 0 /\ r \in Actors
        BY ActorsKnown DEF Abandon
      <3>3. QED
        BY <1>1, <1>3, <3>1, <3>2 DEF IdleUnlessUp
    <2>3. pc'[t][Loop] = pc[t][Loop]
      <3>1. \A v \in group, b \in Actors : <<v, b>> # <<u, r>> => pc'[v][b] = pc[v][b]
        BY <1>1, <1>3, ClickTyped, AbandonTyped
      <3>2. <<t, Loop>> # <<u, r>>
        BY ActorsKnown
      <3>3. QED
        BY <1>1, <3>1, <3>2
    <2>4. QED
      BY <1>1, <2>1, <2>2, <2>3, SpacedAside
  <1>4. QED
    BY <1>2, <1>3

\* A loop that starts sleeps what its row leaves of the period.
LEMMA SpacedSpawns ==
  ASSUME RowInv, NEW t \in group \cap Sleeping, SpacedTask(t), NEW ts \in SUBSET group, Spawn(ts),
         process' = "up", UNCHANGED <<pc, rowVars, historyVars>>,
         IF t \in ts THEN process = "recovered" \/ (process = "up" /\ ~spawned[t]) ELSE process = "up"
  PROVE  SpacedTask(t)'
  <1>1. TaskTypeOK /\ IdleUnlessUp /\ t \in group /\ t \notin Manual /\ Loop \in Actors
    BY SleeperShaped DEF RowInv
  <1>2. UNCHANGED <<row, age, since, pc>>
    BY DEF rowVars, historyVars
  <1>3. CASE t \notin ts
    <2>1. wait'[t] = wait[t] /\ (spawned'[t] <=> spawned[t])
      BY <1>1, <1>3 DEF Spawn
    <2>2. QED
      BY <1>1, <1>2, <1>3, <2>1, SpacedAside
  <1>4. CASE t \in ts
    <2>1. wait'[t] = FirstWait(t) /\ spawned'[t]
      BY <1>1, <1>4 DEF Spawn
    <2>2. age[t] + FirstWait(t) >= AgeCap /\ FirstWait(t) \in Nat /\ age[t] \in 0 .. AgeCap
      BY <1>1, SleepCovers
    <2>3. since[t] \in 0 .. AgeCap /\ AgeCap \in Nat
      BY <1>1, Numbers DEF TaskTypeOK
    <2>4. since[t] = AgeCap \/ age[t] <= since[t]
      BY <1>4 DEF SpacedTask
    <2>5. since'[t] + wait'[t] >= AgeCap
      BY <1>2, <2>1, <2>2, <2>3, <2>4
    <2>6. row'[t] # "running" => age'[t] <= since'[t]
      BY <1>2 DEF SpacedTask
    <2>7. Unmarked(t)' => since'[t] = AgeCap
      <3>1. Unmarked(t)' <=> Unmarked(t)
        BY <1>2 DEF Unmarked, Program
      <3>2. QED
        BY <1>2, <3>1 DEF SpacedTask
    <2>8. QED
      BY <2>1, <2>5, <2>6, <2>7 DEF SpacedTask
  <1>5. QED
    BY <1>3, <1>4

LEMMA SpacedTime ==
  ASSUME RowInv, NEW t \in group \cap Sleeping, SpacedTask(t), TimePasses
  PROVE  SpacedTask(t)'
  <1>1. TaskTypeOK /\ t \in group /\ ~Ticking(t)
    BY SleeperShaped DEF RowInv
  <1>2. UNCHANGED <<process, row, pc, spawned>>
    BY DEF TimePasses
  <1>3. /\ age[t] \in 0 .. AgeCap /\ since[t] \in 0 .. AgeCap /\ wait[t] \in Nat /\ AgeCap \in Nat
    BY <1>1, Numbers DEF TaskTypeOK
  <1>4. age'[t] = Capped(age[t] + 1, AgeCap) /\ since'[t] = Capped(since[t] + 1, AgeCap)
    BY <1>1 DEF TimePasses
  <1>5. /\ age[t] <= since[t] => age'[t] <= since'[t]
        /\ since[t] = AgeCap => since'[t] = AgeCap
        /\ since'[t] = since[t] + 1 \/ since'[t] = AgeCap
    BY <1>3, <1>4 DEF Capped
  <1>6. Asleep(t) => wait[t] > 0 /\ wait'[t] = wait[t] - 1
    <2>1. SUFFICES ASSUME Asleep(t)
                   PROVE  wait[t] > 0 /\ wait'[t] = wait[t] - 1
      OBVIOUS
    <2>2. wait[t] # 0
      BY <1>1, <2>1 DEF TimePasses, Due
    <2>3. wait'[t] = Elapsed(t)[1]
      BY <1>1 DEF TimePasses
    <2>4. Elapsed(t) = <<wait[t] - 1, pend[t]>>
      BY <1>1, <2>1 DEF Elapsed, Asleep
    <2>5. QED
      BY <1>3, <2>2, <2>3, <2>4
  <1>7. Asleep(t)' => since'[t] + wait'[t] >= AgeCap
    <2>1. SUFFICES ASSUME Asleep(t)'
                   PROVE  since'[t] + wait'[t] >= AgeCap
      OBVIOUS
    <2>2. Asleep(t)
      BY <1>2, <2>1 DEF Asleep
    <2>3. since[t] + wait[t] >= AgeCap
      BY <2>2 DEF SpacedTask
    <2>4. QED
      BY <1>3, <1>5, <1>6, <2>2, <2>3
  <1>8. Unmarked(t)' <=> Unmarked(t)
    BY <1>2 DEF Unmarked, Program
  <1>9. QED
    BY <1>2, <1>5, <1>7, <1>8 DEF SpacedTask

LEMMA SpacedDown ==
  ASSUME RowInv, NEW t \in group \cap Sleeping, SpacedTask(t), Crash \/ Boot
  PROVE  SpacedTask(t)'
  <1>1. TaskTypeOK /\ IdleUnlessUp /\ t \in group /\ Loop \in Actors
    BY SleeperShaped DEF RowInv
  <1>2. since[t] \in 0 .. AgeCap /\ AgeCap \in Nat
    BY <1>1, Numbers DEF TaskTypeOK
  <1>3. CASE Crash
    <2>1. /\ process' = "down" /\ UNCHANGED <<row, age, since>>
          /\ pc'[t][Loop] = 0 /\ ~spawned'[t]
      BY <1>1, <1>3, FreshTyped DEF Crash, rowVars
    <2>2. ~Asleep(t)' /\ ~Unmarked(t)'
      BY <2>1 DEF Asleep, Unmarked
    <2>3. QED
      BY <2>1, <2>2 DEF SpacedTask
  <1>4. CASE Boot
    <2>1. process = "down" /\ process' = "recovered" /\ UNCHANGED <<pc, spawned, since>>
      BY <1>4 DEF Boot, historyVars
    <2>2. pc'[t][Loop] = 0 /\ ~spawned'[t]
      BY <1>1, <2>1 DEF IdleUnlessUp
    <2>3. ~Asleep(t)' /\ ~Unmarked(t)'
      BY <2>2 DEF Asleep, Unmarked
    <2>4. row'[t] # "running"
      BY <1>1, <1>4 DEF Boot, Recovered
    <2>5. age'[t] <= since'[t]
      <3>1. t \in Recovered => age'[t] = 0
        BY <1>1, <1>4 DEF Boot
      <3>2. t \notin Recovered => row[t] # "running" /\ age'[t] = age[t]
        BY <1>1, <1>4 DEF Boot, Recovered
      <3>3. QED
        BY <1>2, <2>1, <3>1, <3>2 DEF SpacedTask
    <2>6. QED
      BY <2>1, <2>2, <2>3, <2>4, <2>5 DEF SpacedTask
  <1>5. QED
    BY <1>3, <1>4

LEMMA InitSpaced == TaskInit => SpacingInv
  <1> SUFFICES ASSUME TaskInit
               PROVE  SpacingInv
    OBVIOUS
  <1>1. RowInv
    BY InitRow
  <1>2. ASSUME NEW t \in group \cap Sleeping
        PROVE  SpacedTask(t)
    <2>1. t \in group /\ Loop \in Actors
      BY ActorsKnown
    <2>2. /\ pc[t][Loop] = 0 /\ ~spawned[t] /\ age[t] = AgeCap /\ since[t] = AgeCap
          /\ row[t] = "idle" /\ process = "recovered"
      BY <2>1, FreshTyped DEF TaskInit
    <2>3. ~Asleep(t) /\ ~Unmarked(t)
      BY <2>2 DEF Asleep, Unmarked
    <2>4. AgeCap <= AgeCap
      BY Numbers
    <2>5. QED
      BY <2>2, <2>3, <2>4 DEF SpacedTask
  <1>3. QED
    BY <1>1, <1>2 DEF SpacingInv

LEMMA SpacedKept ==
  ASSUME SpacingInv, [TaskNext]_taskVars, NEW t \in group \cap Sleeping
  PROVE  SpacedTask(t)' /\ (MarkStarted(t, Loop) => since[t] >= Period * MinuteParts)
  <1>1. RowInv /\ SpacedTask(t) /\ t \in group /\ Loop \in Actors
    BY ActorsKnown DEF SpacingInv
  <1>2. MarkStarted(t, Loop) => SpacedTask(t)' /\ since[t] >= Period * MinuteParts
    BY <1>1, SpacedLoopExecutes DEF Executes
  <1>3. ASSUME NEW u \in group, LoopTurns(u) \/ Toggle(u) \/ \E r \in Clickers : Click(u, r) \/ Abandon(u, r)
        PROVE  SpacedTask(t)'
    BY <1>1, <1>3, SpacedLoopTurns, SpacedUsers
  <1>4. ASSUME NEW u \in group, NEW a \in Actors, Executes(u, a) \/ Panic(u, a)
        PROVE  SpacedTask(t)'
    BY <1>1, <1>4, SpacedLoopExecutes, SpacedOthersExecute, SpacedPanics
  <1>5. ASSUME NEW u \in group, Respawn(u)
        PROVE  SpacedTask(t)'
    <2>1. /\ Spawn({u}) /\ {u} \in SUBSET group /\ process = "up" /\ process' = "up" /\ ~spawned[u]
          /\ UNCHANGED <<pc, rowVars, historyVars>>
      BY <1>5 DEF Respawn
    <2>2. IF t \in {u} THEN process = "recovered" \/ (process = "up" /\ ~spawned[t]) ELSE process = "up"
      BY <2>1
    <2>3. QED
      BY <1>1, <2>1, <2>2, SpacedSpawns
  <1>6. ASSUME StartLoops
        PROVE  SpacedTask(t)'
    <2>1. /\ Spawn(group) /\ group \in SUBSET group /\ process = "recovered" /\ process' = "up"
          /\ UNCHANGED <<pc, rowVars, historyVars>>
      BY <1>6 DEF StartLoops
    <2>2. IF t \in group THEN process = "recovered" \/ (process = "up" /\ ~spawned[t]) ELSE process = "up"
      BY <1>1, <2>1
    <2>3. QED
      BY <1>1, <2>1, <2>2, SpacedSpawns
  <1>7. ASSUME TimePasses
        PROVE  SpacedTask(t)'
    BY <1>1, <1>7, SpacedTime
  <1>8. ASSUME Crash \/ Boot
        PROVE  SpacedTask(t)'
    BY <1>1, <1>8, SpacedDown
  <1>9. ASSUME UNCHANGED taskVars
        PROVE  SpacedTask(t)'
    <2>1. UNCHANGED <<process, row, age, since, wait, pc, spawned>>
      BY <1>9 DEF taskVars, processVars, rowVars, timerVars, historyVars
    <2>2. QED
      BY <1>1, <2>1, SpacedStays
  <1>10. SpacedTask(t)'
    BY <1>3, <1>4, <1>5, <1>6, <1>7, <1>8, <1>9 DEF TaskNext
  <1>11. QED
    BY <1>2, <1>10

LEMMA SpacingKept == SpacingInv /\ [TaskNext]_taskVars => SpacingInv'
  <1> SUFFICES ASSUME SpacingInv, [TaskNext]_taskVars
               PROVE  SpacingInv'
    OBVIOUS
  <1>1. RowInv'
    BY RowKept DEF SpacingInv
  <1>2. UNCHANGED group
    BY PlanKept
  <1>3. \A t \in group \cap Sleeping : SpacedTask(t)'
    BY SpacedKept
  <1>4. QED
    BY <1>1, <1>2, <1>3 DEF SpacingInv

\* Restarts, Run now clicks and races for the lock never bring two automatic runs of a
\* loop that sleeps between them closer than its period.
THEOREM AutoRunsApart == TaskSpec => AutoRunsSpaced
  <1>1. SpacingInv /\ [TaskNext]_taskVars
        => [\A t \in group \cap Sleeping :
              MarkStarted(t, Loop) => since[t] >= Period * MinuteParts]_taskVars
    BY SpacedKept
  <1>2. QED
    BY InitSpaced, SpacingKept, <1>1, PTL DEF TaskSpec, AutoRunsSpaced
==============================================================================
