-------------------------- MODULE AniListPaceProofs ---------------------------
(* Types of the throttle, the cooldown and the sweep, and the pace of all       *)
(* requests to AniList, for any limits, delays, callers and lengths of time.    *)
EXTENDS AniListPace, SequenceTheorems, TLAPS

------------------------------------------------------------------------------
(* The inductive invariant *)

\* who sleeps has the lock
NapperHolds == \A a \in Actors : at[a] = "nap" => First(a)

\* the sleep that is left and the time since the last request make up the spacing
NapSpaces == (\E a \in Actors : at[a] = "nap") => nap + last >= ZeroSpacing

\* after a request into a cooldown the sweep does not wait for another while it lasts
HotStaysOut == hot => cooldown > 0 /\ at[Refresh] \notin {"turn", "nap"}

\* while the sweep waits for an answer, the series at hand is not settled
SeriesAtHand == at[Refresh] # "idle" => refresh.phase \in {"main", "retry"} /\ refresh.todo > 0

PaceInv == PaceTypeOK /\ NapperHolds /\ NapSpaces /\ HotStaysOut /\ SeriesAtHand

------------------------------------------------------------------------------
(* Data *)

LEMMA LengthsOfTime ==
  /\ PaddedMinute \in Nat /\ ZeroSpacing \in Nat /\ LimitFallback \in Nat \ {0}
  /\ LongAgo \in Nat /\ Margin \in Nat \ {0}
  /\ CooldownMax \in Nat /\ Tracked \in Nat /\ MaxRounds \in Nat
  /\ WaitBudget \in Nat /\ Poll \in Nat /\ SeriesDelay \in Nat
  BY PaceAssumptions

\* A smaller limit gives no smaller spacing.
LEMMA SpacingGrows ==
  ASSUME NEW m \in Nat, NEW k \in Nat \ {0}, NEW n \in Nat \ {0}, k <= n
  PROVE  m \div n <= m \div k
  OBVIOUS

LEMMA DivIsNat ==
  ASSUME NEW m \in Nat, NEW n \in Nat \ {0}
  PROVE  m \div n \in Nat
  OBVIOUS

\* The throttle never goes below the spacing of the documented limit (min_inter_request).
LEMMA SpacingHolds ==
  ASSUME limits.limit \in Nat
  PROVE  MinSpacing \in Nat /\ MinSpacing >= ZeroSpacing
  <1> DEFINE k == Shorter(limits.limit, LimitFallback)
  <1>1. k \in 0 .. LimitFallback
    BY PaceAssumptions DEF Shorter
  <1>2. CASE k = 0
    BY <1>2, PaceAssumptions DEF MinSpacing, MinInterRequest
  <1>3. CASE k # 0
    <2>1. PaddedMinute \div LimitFallback <= PaddedMinute \div k
      BY <1>1, <1>3, PaceAssumptions, SpacingGrows
    <2>2. PaddedMinute \div k \in Nat /\ PaddedMinute \div LimitFallback \in Nat
      BY <1>1, <1>3, PaceAssumptions, DivIsNat
    <2>3. QED
      BY <1>3, <2>1, <2>2, PaceAssumptions DEF MinSpacing, MinInterRequest
  <1>4. QED
    BY <1>2, <1>3

\* The queue without its i-th, which does not move the first unless it is the i-th.
LEMMA WithoutOne ==
  ASSUME NEW S, NEW q \in Seq(S), NEW i \in 1 .. Len(q)
  PROVE  LET r == SubSeq(q, 1, i - 1) \o SubSeq(q, i + 1, Len(q))
         IN  /\ r \in Seq(S)
             /\ i # 1 => r # <<>> /\ Head(r) = Head(q)
  <1> DEFINE s == SubSeq(q, 1, i - 1)
             t == SubSeq(q, i + 1, Len(q))
  <1>1. Len(q) \in Nat /\ \A j \in 1 .. Len(q) : q[j] \in S
    BY ElementOfSeq, LenProperties
  <1>2. /\ s \in Seq(S)
        /\ Len(s) = i - 1
        /\ \A j \in 1 .. i - 1 : s[j] = q[j]
    <2>1. i - 1 \in Int /\ \A j \in 1 .. i - 1 : q[j] \in S
      BY <1>1
    <2>2. /\ s \in Seq(S)
          /\ Len(s) = IF 1 <= i - 1 THEN i - 1 - 1 + 1 ELSE 0
          /\ \A j \in 1 .. i - 1 - 1 + 1 : s[j] = q[1 + j - 1]
      BY <2>1, SubSeqProperties
    <2>3. QED
      BY <1>1, <2>2
  <1>3. t \in Seq(S)
    <2>1. i + 1 \in Int /\ Len(q) \in Int /\ \A j \in i + 1 .. Len(q) : q[j] \in S
      BY <1>1
    <2>2. QED
      BY <2>1, SubSeqProperties
  <1> HIDE DEF s, t
  <1>4. /\ s \o t \in Seq(S)
        /\ Len(s \o t) = Len(s) + Len(t)
        /\ \A j \in 1 .. Len(s) + Len(t) :
             (s \o t)[j] = IF j <= Len(s) THEN s[j] ELSE t[j - Len(s)]
    BY <1>2, <1>3, ConcatProperties
  <1>5. i # 1 => s \o t # <<>> /\ Head(s \o t) = Head(q)
    <2>1. SUFFICES ASSUME i # 1
                   PROVE  s \o t # <<>> /\ Head(s \o t) = Head(q)
      OBVIOUS
    <2>2. Len(t) \in Nat /\ 1 <= Len(s) /\ s[1] = q[1]
      BY <1>1, <1>2, <1>3, <2>1, LenProperties
    <2>3. Len(s \o t) >= 1 /\ (s \o t)[1] = q[1]
      BY <1>1, <1>4, <2>2
    <2>4. QED
      BY <1>4, <2>3, EmptySeq
  <1>6. QED
    BY <1>4, <1>5 DEF s, t

LEMMA LessIsNat ==
  ASSUME NEW n \in Nat, NEW k \in Nat
  PROVE  Less(n, k) \in Nat /\ Less(n, k) + k >= n /\ Less(n, k) <= n
  BY DEF Less

LEMMA DecideWaitSpaces ==
  ASSUME PaceTypeOK
  PROVE  DecideWait \in Nat /\ DecideWait + last >= ZeroSpacing
  <1> DEFINE burst == Less(MinSpacing, last)
  <1>1. limits.limit \in Nat /\ limits.reset \in Nat /\ last \in Nat /\ Margin \in Nat
    BY PaceAssumptions DEF PaceTypeOK, Snapshot
  <1>2. MinSpacing \in Nat /\ MinSpacing >= ZeroSpacing
    BY <1>1, SpacingHolds
  <1>3. burst \in Nat /\ burst + last >= MinSpacing
    BY <1>1, <1>2, LessIsNat
  <1>4. DecideWait = burst \/ DecideWait = Longer(limits.reset + Margin, burst)
    BY DEF DecideWait
  <1>5. QED
    BY <1>1, <1>2, <1>3, <1>4, LengthsOfTime DEF Longer

------------------------------------------------------------------------------
(* Types *)

LEMMA PaceBegins == PaceInit => PaceInv
  <1> SUFFICES ASSUME PaceInit
               PROVE  PaceInv
    OBVIOUS
  <1>1. Refresh \in Actors
    BY DEF Actors
  <1>2. PaceTypeOK
    <2>1. turn \in Seq(Actors) /\ at \in [Actors -> Awaits] /\ hot \in BOOLEAN
      BY EmptySeq DEF PaceInit, Awaits
    <2>2. /\ nap \in Nat /\ last \in 0 .. LongAgo
          /\ limits \in Snapshot /\ cooldown \in 0 .. CooldownMax + Margin
      BY LengthsOfTime DEF PaceInit, NoSnapshot, Snapshot
    <2>3. refresh \in RefreshType
      BY LengthsOfTime DEF PaceInit, RefreshType, SweepPhases
    <2>4. QED
      BY <2>1, <2>2, <2>3 DEF PaceTypeOK
  <1>3. NapperHolds /\ NapSpaces /\ HotStaysOut /\ SeriesAtHand
    BY <1>1 DEF PaceInit, NapperHolds, NapSpaces, HotStaysOut, SeriesAtHand
  <1>4. QED
    BY <1>2, <1>3 DEF PaceInv

LEMMA SnapshotKept ==
  ASSUME PaceTypeOK, RecordHeaders
  PROVE  limits' \in Snapshot
  BY PaceAssumptions DEF PaceTypeOK, RecordHeaders, Snapshot

LEMMA CooldownKept ==
  ASSUME PaceTypeOK, ArmCooldown
  PROVE  limits' \in Snapshot /\ cooldown' \in 1 .. CooldownMax + Margin
  <1>1. PICK asked \in Delays : cooldown' = CooldownFor(asked)
    BY DEF ArmCooldown
  <1>2. cooldown' \in 1 .. CooldownMax + Margin
    BY <1>1, PaceAssumptions DEF CooldownFor, Shorter
  <1>3. QED
    BY <1>2, PaceAssumptions DEF ArmCooldown, NoSnapshot, Snapshot

LEMMA SettledKept ==
  ASSUME PaceTypeOK, refresh.todo > 0, Counted \/ PutOff
  PROVE  refresh' \in RefreshType
  <1>1. \/ Settled(1, 0)
        \/ Settled(0, 1)
    BY DEF Counted, PutOff
  <1>2. /\ refresh.todo - 1 \in Nat
        /\ refresh.counted + 1 \in Nat /\ refresh.counted + 0 \in Nat
        /\ refresh.deferred + 1 \in Nat /\ refresh.deferred + 0 \in Nat
        /\ (IF refresh.todo > 1 THEN SeriesDelay ELSE 0) \in Nat
    BY LengthsOfTime DEF PaceTypeOK, RefreshType
  <1>3. QED
    BY <1>1, <1>2 DEF PaceTypeOK, RefreshType, Settled

\* Each step keeps the types of what it changes.
LEMMA TypesKept ==
  ASSUME PaceInv, [PaceNext]_paceVars
  PROVE  PaceTypeOK'
  <1> USE DEF PaceInv
  <1>0. Refresh \in Actors /\ \A c \in Callers : c \in Actors
    BY DEF Actors
  <1>1. ASSUME NEW a \in Actors, Enqueue(a)
        PROVE  turn' \in Seq(Actors) /\ at' \in [Actors -> Awaits] /\ nap' \in Nat
                 /\ last' \in 0 .. LongAgo
    BY <1>1, AppendProperties DEF PaceTypeOK, Enqueue, Awaits
  <1>2. CASE \E c \in Callers : Call(c)
    BY <1>0, <1>1, <1>2 DEF PaceTypeOK, Call
  <1>3. ASSUME NEW c \in Callers, Abandon(c)
        PROVE  PaceTypeOK'
    <2>1. turn' \in Seq(Actors)
      <3>1. CASE UNCHANGED turn
        BY <3>1 DEF PaceTypeOK
      <3>2. ASSUME NEW i \in 1 .. Len(turn),
                   turn' = SubSeq(turn, 1, i - 1) \o SubSeq(turn, i + 1, Len(turn))
            PROVE  turn' \in Seq(Actors)
        <4>1. turn \in Seq(Actors)
          BY DEF PaceTypeOK
        <4>2. QED
          BY <3>2, <4>1, WithoutOne
      <3>3. QED
        BY <1>3, <3>1, <3>2 DEF Abandon
    <2>2. at' \in [Actors -> Awaits] /\ nap' \in Nat
      <3>1. at' \in [Actors -> Awaits]
        BY <1>0, <1>3 DEF PaceTypeOK, Abandon, Awaits
      <3>2. nap' = nap \/ nap' = 0
        BY <1>3 DEF Abandon
      <3>3. QED
        BY <3>1, <3>2 DEF PaceTypeOK
    <2>3. QED
      BY <1>3, <2>1, <2>2 DEF PaceTypeOK, Abandon
  <1>4. ASSUME NEW c \in Callers, ReadBody(c)
        PROVE  PaceTypeOK'
    <2>1. at' \in [Actors -> Awaits]
      BY <1>0, <1>4 DEF PaceTypeOK, ReadBody, Awaits
    <2>2. limits' \in Snapshot /\ cooldown' \in 0 .. CooldownMax + Margin
      BY <1>4, CooldownKept, LengthsOfTime DEF PaceTypeOK, ReadBody
    <2>3. QED
      BY <1>4, <2>1, <2>2 DEF PaceTypeOK, ReadBody
  <1>5. ASSUME NEW a \in Actors, Asks(a)
        PROVE  PaceTypeOK'
    <2>1. CASE TakeTurn(a)
      BY <2>1, DecideWaitSpaces DEF PaceTypeOK, TakeTurn, Awaits
    <2>2. CASE Send(a)
      BY <2>2, HeadTailProperties, PaceAssumptions DEF PaceTypeOK, Send, First, Awaits
    <2>3. CASE ReadHeaders(a)
      BY <2>3, SnapshotKept DEF PaceTypeOK, ReadHeaders, Awaits
    <2>4. QED
      BY <1>5, <2>1, <2>2, <2>3 DEF Asks
  <1>6. CASE ViewerFetched
    BY <1>6, SnapshotKept, CooldownKept DEF PaceTypeOK, ViewerFetched, throttleVars
  <1>7. CASE RefreshBegins
    <2>1. refresh' \in RefreshType
      BY <1>7, LengthsOfTime DEF RefreshBegins, RefreshType, SweepPhases
    <2>2. QED
      BY <1>7, <2>1 DEF PaceTypeOK, RefreshBegins, throttleVars
  <1>8. CASE NextSeries
    BY <1>0, <1>1, <1>8, SettledKept DEF PaceTypeOK, NextSeries, throttleVars
  <1>9. CASE RefreshReadsBody
    <2>1. refresh.todo > 0
      BY <1>9 DEF SeriesAtHand, RefreshReadsBody
    <2>2. QED
      <3>1. refresh' \in RefreshType
        BY <1>9, <2>1, SettledKept DEF PaceTypeOK, RefreshReadsBody
      <3>2. at' \in [Actors -> Awaits]
        BY <1>9 DEF PaceTypeOK, RefreshReadsBody, Awaits
      <3>3. limits' \in Snapshot /\ cooldown' \in 0 .. CooldownMax + Margin
        BY <1>9, CooldownKept, LengthsOfTime DEF PaceTypeOK, RefreshReadsBody
      <3>4. QED
        BY <1>9, <3>1, <3>2, <3>3 DEF PaceTypeOK, RefreshReadsBody
  <1>10. CASE MalAnswers
    <2>1. refresh.todo > 0
      BY <1>10 DEF SeriesAtHand, MalAnswers
    <2>2. QED
      BY <1>10, <2>1, SettledKept DEF PaceTypeOK, MalAnswers, Awaits
  <1>11. CASE PassEnds \/ NextRound \/ PollCooldown
    <2>1. refresh' \in RefreshType
      <3>1. /\ refresh.round + 1 \in Nat
            /\ refresh.counted + refresh.deferred \in Nat
        BY DEF PaceTypeOK, RefreshType
      <3>2. Retry \in RefreshType /\ Over \in RefreshType
        BY <3>1 DEF PaceTypeOK, RefreshType, Retry, Over, SweepPhases
      <3>3. CASE PassEnds
        BY <3>1, <3>3 DEF PaceTypeOK, RefreshType, PassEnds, SweepPhases
      <3>4. CASE NextRound
        BY <3>2, <3>4 DEF PaceTypeOK, RefreshType, NextRound, SweepPhases
      <3>5. CASE PollCooldown
        BY <3>2, <3>5, LengthsOfTime DEF PaceTypeOK, RefreshType, PollCooldown
      <3>6. QED
        BY <1>11, <3>3, <3>4, <3>5
    <2>2. UNCHANGED <<throttleVars, limits, cooldown, hot>>
      BY <1>11 DEF PassEnds, NextRound, PollCooldown
    <2>3. QED
      BY <2>1, <2>2 DEF PaceTypeOK, throttleVars
  <1>12. CASE TimePasses
    <2>1. nap' \in Nat /\ last' \in 0 .. LongAgo /\ cooldown' \in 0 .. CooldownMax + Margin
      <3>1. /\ nap \in Nat /\ last \in 0 .. LongAgo /\ cooldown \in 0 .. CooldownMax + Margin
            /\ nap' = Less(nap, 1) /\ last' = Shorter(last + 1, LongAgo)
            /\ cooldown' = Less(cooldown, 1)
        BY <1>12 DEF PaceTypeOK, TimePasses
      <3>2. QED
        BY <3>1, LengthsOfTime DEF Less, Shorter
    <2>2. limits' \in Snapshot
      <3>1. Less(limits.reset, 1) \in Nat
        BY LessIsNat DEF PaceTypeOK, Snapshot
      <3>2. QED
        BY <1>12, <3>1 DEF PaceTypeOK, TimePasses, Snapshot
    <2>3. refresh' \in RefreshType
      <3>1. Less(refresh.pause, 1) \in Nat /\ refresh.waited + 1 \in Nat
        <4>1. refresh.pause \in Nat /\ refresh.waited \in Nat
          BY DEF PaceTypeOK, RefreshType
        <4>2. Less(refresh.pause, 1) \in Nat
          BY <4>1 DEF Less
        <4>3. QED
          BY <4>1, <4>2
      <3>2. (IF refresh.phase = "wait" THEN refresh.waited + 1 ELSE refresh.waited) \in Nat
        BY <3>1 DEF PaceTypeOK, RefreshType
      <3>3. refresh' = [refresh EXCEPT !.pause = Less(refresh.pause, 1),
                                       !.waited = IF refresh.phase = "wait"
                                                  THEN refresh.waited + 1 ELSE refresh.waited]
        BY <1>12 DEF TimePasses
      <3>4. QED
        BY <3>1, <3>2, <3>3 DEF PaceTypeOK, RefreshType
    <2>4. hot' \in BOOLEAN
      BY <1>12, Zenon DEF TimePasses
    <2>5. QED
      BY <1>12, <2>1, <2>2, <2>3, <2>4 DEF PaceTypeOK, TimePasses
  <1>13. CASE UNCHANGED paceVars
    BY <1>13 DEF PaceTypeOK, paceVars, throttleVars
  <1>14. QED
    BY <1>2, <1>3, <1>4, <1>5, <1>6, <1>7, <1>8, <1>9, <1>10, <1>11, <1>12, <1>13
    DEF PaceNext, RefreshSteps
------------------------------------------------------------------------------
(* The throttle *)

\* A step that touches neither queue nor sleep and puts nobody to sleep keeps both facts.
LEMMA SleepersKept ==
  ASSUME PaceInv, UNCHANGED <<turn, nap, last>>,
         \A a \in Actors : at'[a] = "nap" => at[a] = "nap"
  PROVE  NapperHolds' /\ NapSpaces'
  BY DEF PaceInv, NapperHolds, NapSpaces, First

\* Whoever joins the queue joins behind the sleeper.
LEMMA EnqueueKeeps ==
  ASSUME PaceInv, NEW b \in Actors, Enqueue(b)
  PROVE  NapperHolds' /\ NapSpaces'
  <1>1. turn \in Seq(Actors) /\ at \in [Actors -> Awaits]
    BY DEF PaceInv, PaceTypeOK
  <1>2. \A a \in Actors : at'[a] = "nap" => at[a] = "nap"
    BY <1>1 DEF Enqueue
  <1>3. NapperHolds'
    <2>1. SUFFICES ASSUME NEW a \in Actors, at[a] = "nap"
                   PROVE  turn' # <<>> /\ Head(turn') = a
      BY <1>2 DEF NapperHolds, First
    <2>2. turn # <<>> /\ Head(turn) = a
      BY <2>1 DEF PaceInv, NapperHolds, First
    <2>3. turn' = Append(turn, b)
      BY DEF Enqueue
    <2>4. turn' # <<>> /\ Head(turn') = Head(turn)
      BY <1>1, <2>2, <2>3, AppendProperties, HeadTailAppend
    <2>5. QED
      BY <2>2, <2>4
  <1>4. NapSpaces'
    BY <1>2 DEF Enqueue, PaceInv, NapSpaces
  <1>5. QED
    BY <1>3, <1>4

\* A sleeper that goes lets the lock go; anybody else that goes leaves the sleeper first.
LEMMA AbandonKeeps ==
  ASSUME PaceInv, NEW c \in Callers, Abandon(c)
  PROVE  NapperHolds' /\ NapSpaces'
  <1>1. turn \in Seq(Actors) /\ at \in [Actors -> Awaits] /\ c \in Actors
    BY DEF PaceInv, PaceTypeOK, Actors
  <1>2. \A a \in Actors : at'[a] = "nap" => at[a] = "nap" /\ a # c
    BY <1>1 DEF Abandon
  <1>3. SUFFICES ASSUME NEW a \in Actors, at[a] = "nap", a # c
                 PROVE  turn' # <<>> /\ Head(turn') = a /\ nap' = nap
    BY <1>2 DEF PaceInv, NapperHolds, NapSpaces, First, Abandon
  <1>4. turn # <<>> /\ Head(turn) = a
    BY <1>3 DEF PaceInv, NapperHolds, First
  <1>5. at[c] # "nap"
    BY <1>1, <1>3, <1>4 DEF PaceInv, NapperHolds, First
  <1>6. CASE UNCHANGED <<turn, nap>>
    BY <1>4, <1>6
  <1>7. ASSUME NEW i \in 1 .. Len(turn), turn[i] = c,
               turn' = SubSeq(turn, 1, i - 1) \o SubSeq(turn, i + 1, Len(turn))
        PROVE  turn' # <<>> /\ Head(turn') = a
    <2>1. i # 1
      BY <1>1, <1>3, <1>4, <1>7, HeadTailProperties
    <2>2. QED
      BY <1>1, <1>4, <1>7, <2>1, WithoutOne
  <1>8. QED
    BY <1>5, <1>6, <1>7 DEF Abandon

LEMMA AsksKeeps ==
  ASSUME PaceInv, NEW b \in Actors, Asks(b)
  PROVE  NapperHolds' /\ NapSpaces'
  <1>1. at \in [Actors -> Awaits]
    BY DEF PaceInv, PaceTypeOK
  <1>2. CASE TakeTurn(b)
    <2>1. nap' + last' >= ZeroSpacing
      BY <1>2, DecideWaitSpaces DEF PaceInv, TakeTurn
    <2>2. NapperHolds'
      BY <1>1, <1>2 DEF PaceInv, NapperHolds, TakeTurn, First
    <2>3. QED
      BY <2>1, <2>2 DEF NapSpaces
  <1>3. CASE Send(b)
    <2>1. \A a \in Actors : at[a] = "nap" => a = b
      BY <1>3 DEF PaceInv, NapperHolds, Send, First
    <2>2. \A a \in Actors : at'[a] # "nap"
      BY <1>1, <1>3, <2>1 DEF Send
    <2>3. QED
      BY <2>2 DEF NapperHolds, NapSpaces
  <1>4. CASE ReadHeaders(b)
    BY <1>1, <1>4, SleepersKept DEF ReadHeaders
  <1>5. QED
    BY <1>2, <1>3, <1>4 DEF Asks

LEMMA TimeKeeps ==
  ASSUME PaceInv, TimePasses
  PROVE  NapperHolds' /\ NapSpaces'
  <1>1. NapperHolds'
    BY DEF PaceInv, NapperHolds, TimePasses, First
  <1>2. SUFFICES ASSUME \E a \in Actors : at[a] = "nap"
                 PROVE  nap' + last' >= ZeroSpacing
    BY <1>1 DEF NapSpaces, TimePasses
  <1>3. nap + last >= ZeroSpacing
    BY <1>2 DEF PaceInv, NapSpaces
  <1>4. nap \in Nat /\ last \in Nat /\ nap' = Less(nap, 1) /\ last' = Shorter(last + 1, LongAgo)
    BY LengthsOfTime DEF PaceInv, PaceTypeOK, TimePasses
  <1>5. ZeroSpacing <= LongAgo
    <2>1. PaddedMinute \div LimitFallback \in Nat
      BY LengthsOfTime, DivIsNat
    <2>2. ZeroSpacing <= PaddedMinute \div LimitFallback /\ PaddedMinute \div LimitFallback <= LongAgo
      BY PaceAssumptions
    <2>3. QED
      BY <2>1, <2>2, LengthsOfTime
  <1>6. QED
    BY <1>3, <1>4, <1>5, LengthsOfTime DEF Less, Shorter

LEMMA ThrottleKept ==
  ASSUME PaceInv, [PaceNext]_paceVars
  PROVE  NapperHolds' /\ NapSpaces'
  <1>1. Refresh \in Actors /\ \A c \in Callers : c \in Actors
    BY DEF Actors
  <1>2. at \in [Actors -> Awaits]
    BY DEF PaceInv, PaceTypeOK
  <1>3. CASE \E c \in Callers : Call(c)
    BY <1>1, <1>3, EnqueueKeeps DEF Call
  <1>4. CASE \E c \in Callers : Abandon(c)
    BY <1>4, AbandonKeeps
  <1>5. CASE \E c \in Callers : ReadBody(c)
    BY <1>1, <1>2, <1>5, SleepersKept DEF ReadBody
  <1>6. CASE \E a \in Actors : Asks(a)
    BY <1>6, AsksKeeps
  <1>7. CASE NextSeries
    BY <1>1, <1>7, EnqueueKeeps, SleepersKept DEF NextSeries, throttleVars
  <1>8. CASE RefreshReadsBody \/ MalAnswers
    BY <1>1, <1>2, <1>8, SleepersKept DEF RefreshReadsBody, MalAnswers
  <1>9. CASE ViewerFetched \/ RefreshBegins \/ PassEnds \/ NextRound \/ PollCooldown
    BY <1>9, SleepersKept
    DEF ViewerFetched, RefreshBegins, PassEnds, NextRound, PollCooldown, throttleVars
  <1>10. CASE TimePasses
    BY <1>10, TimeKeeps
  <1>11. CASE UNCHANGED paceVars
    BY <1>11, SleepersKept DEF paceVars, throttleVars
  <1>12. QED
    BY <1>3, <1>4, <1>5, <1>6, <1>7, <1>8, <1>9, <1>10, <1>11 DEF PaceNext, RefreshSteps
------------------------------------------------------------------------------
(* The sweep *)

LEMMA HotKept ==
  ASSUME PaceInv, [PaceNext]_paceVars
  PROVE  HotStaysOut'
  <1> DEFINE Out == at[Refresh] \notin {"turn", "nap"}
  <1>1. /\ Refresh \in Actors /\ Refresh \notin Callers
        /\ at \in [Actors -> Awaits] /\ cooldown \in Nat
        /\ hot => cooldown > 0 /\ Out
    BY PaceAssumptions, LengthsOfTime DEF PaceInv, PaceTypeOK, HotStaysOut, Actors
  <1>2. SUFFICES ASSUME hot'
                 PROVE  cooldown' > 0 /\ Out'
    BY DEF HotStaysOut
  <1>3. CASE \E c \in Callers : Call(c) \/ Abandon(c)
    BY <1>1, <1>2, <1>3 DEF Call, Enqueue, Abandon
  <1>4. ASSUME NEW c \in Callers, ReadBody(c)
        PROVE  cooldown' > 0 /\ Out'
    <2>1. hot /\ Out'
      BY <1>1, <1>2, <1>4 DEF ReadBody
    <2>2. cooldown' > 0
      BY <1>1, <1>4, <2>1, CooldownKept, LengthsOfTime DEF ReadBody, PaceInv
    <2>3. QED
      BY <2>1, <2>2
  <1>5. ASSUME NEW a \in Actors, Asks(a)
        PROVE  cooldown' > 0 /\ Out'
    <2>1. CASE TakeTurn(a) \/ ReadHeaders(a)
      BY <1>1, <1>2, <1>5, <2>1 DEF TakeTurn, ReadHeaders
    <2>2. CASE Send(a)
      BY <1>1, <1>2, <2>2 DEF Send
    <2>3. QED
      BY <1>5, <2>1, <2>2 DEF Asks
  <1>6. CASE ViewerFetched
    <2>1. hot /\ Out'
      BY <1>1, <1>2, <1>6 DEF ViewerFetched, throttleVars
    <2>2. cooldown' > 0
      BY <1>1, <1>6, <2>1, CooldownKept, LengthsOfTime DEF ViewerFetched, PaceInv
    <2>3. QED
      BY <2>1, <2>2
  <1>7. CASE NextSeries
    BY <1>1, <1>2, <1>7 DEF NextSeries, MayAsk, throttleVars
  <1>8. CASE RefreshReadsBody
    <2>1. hot /\ Out'
      BY <1>1, <1>2, <1>8 DEF RefreshReadsBody
    <2>2. cooldown' > 0
      BY <1>1, <1>8, <2>1, CooldownKept, LengthsOfTime DEF RefreshReadsBody, PaceInv
    <2>3. QED
      BY <2>1, <2>2
  <1>9. CASE RefreshBegins \/ MalAnswers \/ PassEnds \/ NextRound \/ PollCooldown
    <2>1. UNCHANGED <<cooldown, hot>>
      BY <1>9 DEF RefreshBegins, MalAnswers, PassEnds, NextRound, PollCooldown
    <2>2. at'[Refresh] \in {at[Refresh], "idle"}
      BY <1>1, <1>9
      DEF RefreshBegins, MalAnswers, PassEnds, NextRound, PollCooldown, throttleVars
    <2>3. QED
      BY <1>1, <1>2, <2>1, <2>2
  <1>10. CASE TimePasses
    <2>1. hot /\ cooldown > 1
      BY <1>2, <1>10, Zenon DEF TimePasses
    <2>2. cooldown' = Less(cooldown, 1) /\ UNCHANGED at
      BY <1>10 DEF TimePasses
    <2>3. QED
      BY <1>1, <2>1, <2>2 DEF Less
  <1>11. CASE UNCHANGED paceVars
    BY <1>1, <1>2, <1>11 DEF paceVars, throttleVars
  <1>12. QED
    BY <1>3, <1>4, <1>5, <1>6, <1>7, <1>8, <1>9, <1>10, <1>11 DEF PaceNext, RefreshSteps

LEMMA SeriesKept ==
  ASSUME PaceInv, [PaceNext]_paceVars
  PROVE  SeriesAtHand'
  <1>1. /\ Refresh \in Actors /\ Refresh \notin Callers
        /\ at \in [Actors -> Awaits] /\ refresh \in RefreshType
        /\ at[Refresh] # "idle" => refresh.phase \in {"main", "retry"} /\ refresh.todo > 0
    BY PaceAssumptions DEF PaceInv, PaceTypeOK, SeriesAtHand, Actors
  <1>2. SUFFICES ASSUME at'[Refresh] # "idle"
                 PROVE  refresh'.phase \in {"main", "retry"} /\ refresh'.todo > 0
    BY DEF SeriesAtHand
  <1>3. CASE \E c \in Callers : Call(c) \/ Abandon(c) \/ ReadBody(c)
    BY <1>1, <1>2, <1>3 DEF Call, Enqueue, Abandon, ReadBody
  <1>4. CASE \E a \in Actors : Asks(a)
    BY <1>1, <1>2, <1>4 DEF Asks, TakeTurn, Send, ReadHeaders
  <1>5. CASE ViewerFetched
    BY <1>1, <1>2, <1>5 DEF ViewerFetched, throttleVars
  <1>6. CASE NextSeries
    BY <1>1, <1>2, <1>6 DEF NextSeries, InPass, throttleVars
  <1>7. CASE RefreshReadsBody \/ MalAnswers
    BY <1>1, <1>2, <1>7 DEF RefreshReadsBody, MalAnswers
  <1>8. CASE RefreshBegins \/ PassEnds \/ NextRound \/ PollCooldown
    BY <1>1, <1>2, <1>8
    DEF RefreshBegins, PassEnds, NextRound, PollCooldown, InPass, throttleVars
  <1>9. CASE TimePasses
    BY <1>1, <1>2, <1>9 DEF TimePasses, RefreshType
  <1>10. CASE UNCHANGED paceVars
    BY <1>1, <1>2, <1>10 DEF paceVars, throttleVars
  <1>11. QED
    BY <1>3, <1>4, <1>5, <1>6, <1>7, <1>8, <1>9, <1>10 DEF PaceNext, RefreshSteps

------------------------------------------------------------------------------
(* The end of the sweep, and its counts *)

\* between two passes no series is at hand
NoneAtHand == refresh.phase \in {"over", "rounds", "wait"} => refresh.todo = 0

\* a retry, and the wait for one, is a round that is left
RoundLeft == refresh.phase \in {"retry", "wait"} => refresh.round < MaxRounds

\* a poll begins within the budget, so what is left of it goes beyond by a poll at most
PollWithinBudget ==
  /\ refresh.phase = "rounds" => refresh.pause = 0
  /\ refresh.phase = "wait" => refresh.waited + refresh.pause < WaitBudget + Longer(Poll, 1)

SweepInv == SweepAccounts /\ NoneAtHand /\ RoundLeft /\ PollWithinBudget

LEMMA SweepBegins == PaceInit => SweepInv
  <1> SUFFICES ASSUME PaceInit
               PROVE  SweepInv
    OBVIOUS
  <1> QED
    BY LengthsOfTime
    DEF PaceInit, SweepInv, SweepAccounts, SeriesAddUp, SweepIsBounded, NoneAtHand,
        RoundLeft, PollWithinBudget, Longer

\* Every step of the sweep, on the numbers of its record alone.
LEMMA SweepKept ==
  ASSUME PaceInv, SweepInv, [PaceNext]_paceVars
  PROVE  SweepInv'
  <1> USE DEF SweepInv, SweepAccounts, SeriesAddUp, SweepIsBounded, NoneAtHand, RoundLeft,
              PollWithinBudget
  <1>1. refresh \in RefreshType
    BY DEF PaceInv, PaceTypeOK
  <1>2. CASE UNCHANGED refresh
    BY <1>2
  <1>3. ASSUME refresh.todo > 0, refresh.phase \in {"main", "retry"}, Counted \/ PutOff
        PROVE  SweepInv'
    <2>1. CASE Settled(1, 0)
      BY <1>1, <1>3, <2>1, LengthsOfTime DEF Settled, RefreshType
    <2>2. CASE Settled(0, 1)
      BY <1>1, <1>3, <2>2, LengthsOfTime DEF Settled, RefreshType
    <2>3. QED
      BY <1>3, <2>1, <2>2 DEF Counted, PutOff
  <1>4. CASE RefreshBegins
    BY <1>4, LengthsOfTime DEF RefreshBegins, Longer
  <1>5. CASE NextSeries
    BY <1>2, <1>3, <1>5 DEF NextSeries, InPass
  <1>6. CASE RefreshReadsBody \/ MalAnswers
    <2>1. refresh.todo > 0 /\ refresh.phase \in {"main", "retry"}
      BY <1>6 DEF RefreshReadsBody, MalAnswers, PaceInv, SeriesAtHand
    <2>2. QED
      BY <1>2, <1>3, <1>6, <2>1 DEF RefreshReadsBody, MalAnswers
  <1>7. CASE PassEnds
    BY <1>1, <1>7, LengthsOfTime DEF PassEnds, InPass, RefreshType
  <1>8. ASSUME refresh' = Retry, refresh.phase \in {"rounds", "wait"}, refresh.round < MaxRounds
        PROVE  SweepInv'
    BY <1>1, <1>8, LengthsOfTime DEF Retry, RefreshType
  <1>9. ASSUME refresh' = Over, refresh.phase = "rounds"
        PROVE  SweepInv'
    BY <1>1, <1>9, LengthsOfTime DEF Over, RefreshType
  <1>10. CASE NextRound
    <2>1. CASE refresh' = Over
      BY <1>9, <1>10, <2>1 DEF NextRound
    <2>2. CASE refresh' = Retry /\ refresh.round < MaxRounds
      BY <1>8, <1>10, <2>2 DEF NextRound
    <2>3. CASE refresh' = [refresh EXCEPT !.phase = "wait"] /\ refresh.round < MaxRounds /\ ~BudgetSpent
      BY <1>1, <1>10, <2>3, LengthsOfTime DEF NextRound, BudgetSpent, RefreshType, Longer
    <2>4. QED
      BY <1>1, <1>10, <2>1, <2>2, <2>3, LengthsOfTime DEF NextRound, RefreshType
  <1>11. CASE PollCooldown
    <2>1. CASE refresh' = Retry
      BY <1>8, <1>11, <2>1 DEF PollCooldown
    <2>2. CASE refresh' = [refresh EXCEPT !.pause = Poll] /\ ~BudgetSpent
      BY <1>1, <1>11, <2>2, LengthsOfTime DEF PollCooldown, BudgetSpent, RefreshType, Longer
    <2>3. QED
      BY <1>11, <2>1, <2>2 DEF PollCooldown
  <1>12. CASE TimePasses
    <2>1. refresh.phase = "wait" => refresh.pause > 0
      BY <1>1, <1>12 DEF TimePasses, RefreshDue, RefreshType
    <2>2. refresh.phase # "rounds"
      BY <1>12 DEF TimePasses, RefreshDue
    <2>3. refresh' = [refresh EXCEPT !.pause = Less(refresh.pause, 1),
                                     !.waited = IF refresh.phase = "wait"
                                                THEN refresh.waited + 1 ELSE refresh.waited]
      BY <1>12 DEF TimePasses
    <2>4. QED
      BY <1>1, <2>1, <2>2, <2>3, LengthsOfTime DEF RefreshType, Less, Longer
  <1>13. CASE \E c \in Callers : Call(c) \/ Abandon(c) \/ ReadBody(c)
    BY <1>2, <1>13 DEF Call, Abandon, ReadBody
  <1>14. CASE \E a \in Actors : Asks(a)
    BY <1>2, <1>14 DEF Asks, TakeTurn, Send, ReadHeaders
  <1>15. CASE ViewerFetched
    BY <1>2, <1>15 DEF ViewerFetched
  <1>16. CASE UNCHANGED paceVars
    BY <1>2, <1>16 DEF paceVars
  <1> HIDE DEF SweepInv, SweepAccounts, SeriesAddUp, SweepIsBounded, NoneAtHand, RoundLeft,
               PollWithinBudget
  <1>17. QED
    BY <1>4, <1>5, <1>6, <1>7, <1>10, <1>11, <1>12, <1>13, <1>14, <1>15, <1>16
    DEF PaceNext, RefreshSteps

------------------------------------------------------------------------------
(* The theorems *)

LEMMA PaceInvariant == PaceSpec => []PaceInv
  <1>1. PaceInv /\ [PaceNext]_paceVars => PaceInv'
    BY TypesKept, ThrottleKept, HotKept, SeriesKept DEF PaceInv
  <1>2. QED
    BY <1>1, PaceBegins, PTL DEF PaceSpec

\* Types, and the cap on a cooldown (MAX_COOLDOWN), for any answer AniList gives.
THEOREM PaceTypes == PaceSpec => []PaceTypeOK
  <1>1. PaceInv => PaceTypeOK
    BY DEF PaceInv
  <1>2. QED
    BY <1>1, PaceInvariant, PTL

\* However often others start the cooldown anew, and however many series are put off: a
\* sweep retries MAX_RETRY_ROUNDS times at most, waits a poll beyond its budget at most, and
\* every series is in one of its counts.
THEOREM SweepEnds == PaceSpec => []SweepAccounts
  <1>1. PaceInv /\ SweepInv /\ [PaceNext]_paceVars => SweepInv'
    BY SweepKept
  <1>2. SweepInv => SweepAccounts
    BY DEF SweepInv
  <1>3. QED
    BY <1>1, <1>2, SweepBegins, PaceInvariant, PTL DEF PaceSpec

\* Who sends has slept through the spacing that decide_wait found: nobody else sent since.
LEMMA SendIsSpaced ==
  ASSUME PaceInv, [PaceNext]_paceVars, NEW a \in Actors, Sends(a)
  PROVE  last >= ZeroSpacing /\ (a = Refresh /\ cooldown > 0 => ~hot)
  <1>1. /\ at \in [Actors -> Awaits] /\ last \in Nat
        /\ Refresh \in Actors /\ \A c \in Callers : c \in Actors
    BY LengthsOfTime DEF PaceInv, PaceTypeOK, Actors
  <1>2. Send(a)
    <2>1. ~\E c \in Callers : Call(c) \/ Abandon(c) \/ ReadBody(c)
      BY <1>1 DEF Sends, Call, Enqueue, Abandon, ReadBody
    <2>2. ~(ViewerFetched \/ RefreshBegins \/ RefreshSteps \/ TimePasses)
      BY <1>1 DEF Sends, ViewerFetched, RefreshBegins, RefreshSteps, NextSeries, Enqueue,
                  RefreshReadsBody, MalAnswers, PassEnds, NextRound, PollCooldown,
                  TimePasses, throttleVars
    <2>3. PICK b \in Actors : Asks(b)
      BY <2>1, <2>2 DEF Sends, PaceNext, paceVars, throttleVars
    <2>4. QED
      BY <1>1, <2>3 DEF Sends, Asks, TakeTurn, Send, ReadHeaders
  <1>3. nap = 0 /\ nap + last >= ZeroSpacing
    BY <1>2 DEF PaceInv, NapSpaces, Send
  <1>4. last >= ZeroSpacing
    BY <1>1, <1>3
  <1>5. a = Refresh => ~hot
    BY <1>2 DEF PaceInv, HotStaysOut, Send
  <1>6. QED
    BY <1>4, <1>5

\* For any number of callers, any limit and any cooldown AniList claims: requests leave the
\* spacing of the documented limit, and a refused sweep sends at most the one request that
\* was already in the queue.
THEOREM PaceHolds == PaceSpec => RequestsPaced
  <1> DEFINE Spaced == \A a \in Actors : Sends(a) => last >= ZeroSpacing
             BacksOff == Sends(Refresh) /\ cooldown > 0 => ~hot
  <1>1. PaceInv /\ [PaceNext]_paceVars => Spaced /\ BacksOff
    BY SendIsSpaced DEF Actors
  <1>2. PaceInv /\ [PaceNext]_paceVars => [Spaced]_paceVars /\ [BacksOff]_paceVars
    BY <1>1
  <1>3. QED
    BY <1>1, <1>2, PaceInvariant, PTL DEF PaceSpec, RequestsPaced, RequestsSpaced, SweepBacksOff
==============================================================================
