----------------------------- MODULE AniListPace ------------------------------
(* Ryokan's requests to AniList: the throttle every caller passes one at a time *)
(* (services/anilist/rate_limit.rs), the cooldown its answers start, and the    *)
(* metadata sweep (services/metadata_sync.rs), which puts off what AniList will *)
(* not answer and waits for the cooldown with a budget.                         *)
(*                                                                              *)
(* Time passes in units, and stands still while a step is due; only requests,   *)
(* sleeps and MAL take time.  An instant is known by the time to or since it.   *)
(* What a series' refresh asks AniList beyond its own detail, its relations, is *)
(* one of the other requests; the walk's own wait for the cooldown is left out. *)
EXTENDS Naturals, Sequences

CONSTANTS
  Callers,          \* other requests to AniList: searches, details, lists, airing times
  PaddedMinute,     \* a minute and a tenth
  ZeroSpacing,      \* the spacing for a limit of 0: a minute over LimitFallback
  LimitFallback,    \* ANILIST_LIMIT_FALLBACK
  Limits,           \* limits AniList names
  Resets,           \* times to a reset AniList names
  LongAgo,          \* past this the time since the last request is not told apart
  Delays,           \* cooldowns AniList asks for
  CooldownMax,      \* ANILIST_COOLDOWN_MAX
  Margin,           \* COOLDOWN_SAFETY_MARGIN
  Tracked,          \* how many series the sweep has
  MaxRounds,        \* MAX_RETRY_ROUNDS
  WaitBudget,       \* MAX_COOLDOWN_WAIT_TOTAL
  Poll,             \* COOLDOWN_POLL_INTERVAL
  SeriesDelay       \* INTER_SERIES_DELAY

Refresh == "refresh"
Actors == Callers \cup {Refresh}

ASSUME PaceAssumptions ==
  /\ Refresh \notin Callers
  /\ PaddedMinute \in Nat /\ ZeroSpacing \in Nat /\ LimitFallback \in Nat \ {0}
  /\ ZeroSpacing <= PaddedMinute \div LimitFallback
  /\ LongAgo \in Nat
  /\ \A limit \in {LimitFallback} \cup (Limits \cap 1..LimitFallback) :
       PaddedMinute \div limit <= LongAgo
  /\ Limits \subseteq Nat /\ Resets \subseteq Nat /\ Delays \subseteq Nat
  /\ Margin \in Nat \ {0}
  /\ {CooldownMax, Tracked, MaxRounds, WaitBudget, Poll, SeriesDelay} \subseteq Nat

VARIABLES
  turn,       \* the queue of TURN; its first has the lock
  at,         \* the await each actor has reached
  nap,        \* what is left of the sleep of the first in turn
  last,       \* time since LAST_AL_REQUEST
  limits,     \* RATE_LIMIT_STATE
  cooldown,   \* time to ANILIST_COOLDOWN_UNTIL; 0 when it is over
  refresh,    \* run_metadata_sweep
  hot         \* history: the sweep sent a request during this cooldown

throttleVars == <<turn, at, nap, last>>
paceVars == <<throttleVars, limits, cooldown, refresh, hot>>

Awaits == {"idle", "turn", "nap", "sent", "body", "mal"}

\* low: at most REMAINING_HEADROOM_THRESHOLD are left; reset: time to reset_at, 0 for none
\* and for one in the past
Snapshot == [limit : Nat, low : BOOLEAN, reset : Nat]

\* no snapshot is decided on, and completed, as if it were this one
NoSnapshot == [limit |-> LimitFallback, low |-> FALSE, reset |-> 0]

Less(n, k) == IF n > k THEN n - k ELSE 0
Longer(n, k) == IF n > k THEN n ELSE k
Shorter(n, k) == IF n < k THEN n ELSE k

------------------------------------------------------------------------------
(* The throttle *)

MinInterRequest(limit) == IF limit = 0 THEN ZeroSpacing ELSE PaddedMinute \div limit

\* Mutant of MinSpacing: the limit AniList names is believed
MinSpacingBelieved == MinInterRequest(limits.limit)

\* a limit above the fallback is not believed
MinSpacing == MinInterRequest(Shorter(limits.limit, LimitFallback))

\* decide_wait
DecideWait ==
  LET burst == Less(MinSpacing, last)
  IN IF limits.low /\ limits.reset > 0 THEN Longer(limits.reset + Margin, burst) ELSE burst

Enqueue(a) ==
  /\ turn' = Append(turn, a)
  /\ at' = [at EXCEPT ![a] = "turn"]
  /\ UNCHANGED <<nap, last>>

\* another request: one that does not look at the cooldown, or that found none
Call(c) ==
  /\ at[c] = "idle"
  /\ Enqueue(c)
  /\ UNCHANGED <<limits, cooldown, refresh, hot>>

First(a) == turn # <<>> /\ Head(turn) = a

TakeTurn(a) ==
  /\ at[a] = "turn" /\ First(a)
  /\ at' = [at EXCEPT ![a] = "nap"]
  /\ nap' = DecideWait
  /\ UNCHANGED <<turn, last, limits, cooldown, refresh, hot>>

\* the sleep is over: the request is stamped and sent, and the lock let go
Send(a) ==
  /\ at[a] = "nap" /\ First(a) /\ nap = 0
  /\ at' = [at EXCEPT ![a] = "sent"]
  /\ turn' = Tail(turn)
  /\ last' = 0
  /\ hot' = (hot \/ (a = Refresh /\ cooldown > 0))
  /\ UNCHANGED <<nap, limits, cooldown, refresh>>

\* the user goes, and axum drops the request wherever it waits
Abandon(c) ==
  /\ at[c] # "idle"
  /\ at' = [at EXCEPT ![c] = "idle"]
  /\ \/ at[c] \in {"sent", "body"} /\ UNCHANGED <<turn, nap>>
     \/ \E i \in 1..Len(turn) :
          /\ turn[i] = c
          /\ turn' = SubSeq(turn, 1, i - 1) \o SubSeq(turn, i + 1, Len(turn))
          /\ nap' = IF at[c] = "nap" THEN 0 ELSE nap
  /\ UNCHANGED <<last, limits, cooldown, refresh, hot>>

------------------------------------------------------------------------------
(* What an answer leaves behind *)

\* record_rate_limit_headers: a header that is missing keeps what was known; a
\* remaining that never was known counts as none left
RecordHeaders ==
  limits' \in {limits} \cup [limit : Limits \cup {limits.limit}, low : BOOLEAN,
                             reset : Resets \cup {limits.reset}]

\* Mutant of CooldownFor: what AniList asks for has no limit
CooldownForUncapped(asked) == asked + Margin

\* compute_cooldown_duration, cooldown_from_headers (a list refused with a 200 starts the
\* default without the margin: one more length)
CooldownFor(asked) == Shorter(asked, CooldownMax) + Margin

\* set_cooldown_until_now_plus, whatever cooldown there was
ArmCooldown ==
  /\ \E asked \in Delays : cooldown' = CooldownFor(asked)
  /\ limits' = NoSnapshot

ReadHeaders(a) ==
  /\ at[a] = "sent"
  /\ at' = [at EXCEPT ![a] = "body"]
  /\ RecordHeaders
  /\ UNCHANGED <<turn, nap, last, cooldown, refresh, hot>>

\* which failures start a cooldown differs from one endpoint to the next
ReadBody(c) ==
  /\ at[c] = "body" /\ c # Refresh
  /\ at' = [at EXCEPT ![c] = "idle"]
  /\ ArmCooldown \/ UNCHANGED <<cooldown, limits>>
  /\ UNCHANGED <<turn, nap, last, refresh, hot>>

\* fetch_anilist_viewer: not throttled, noted all the same
ViewerFetched ==
  /\ ArmCooldown \/ (RecordHeaders /\ UNCHANGED cooldown)
  /\ UNCHANGED <<throttleVars, refresh, hot>>

------------------------------------------------------------------------------
(* The sweep.  A pass goes through the series, or through those put off *)

InPass == refresh.phase \in {"main", "retry"} /\ refresh.pause = 0 /\ at[Refresh] = "idle"

\* the series at hand is done with, counted as refreshed or failed, or put off
Settled(counted, deferred) ==
  refresh' = [refresh EXCEPT !.todo = @ - 1,
                             !.counted = @ + counted, !.deferred = @ + deferred,
                             !.pause = IF refresh.todo > 1 THEN SeriesDelay ELSE 0]

Counted == Settled(1, 0)
PutOff == Settled(0, 1)

RefreshBegins ==
  /\ refresh.phase = "over"
  /\ refresh' = [phase |-> "main", todo |-> Tracked, deferred |-> 0, counted |-> 0,
                 round |-> 0, waited |-> 0, pause |-> 0]
  /\ UNCHANGED <<throttleVars, limits, cooldown, hot>>

\* Mutant of MayAsk: a retry asks AniList whatever the cooldown
MayAskAgain == cooldown = 0 \/ refresh.phase = "retry"

\* anilist_cooldown_active, as fetch_live_detail asks it
MayAsk == cooldown = 0

\* The next series.  One without an AniList id is no matter of AniList's, a cached answer
\* takes no request, and one has failed when the cooldown ends between the two looks at it.
NextSeries ==
  /\ InPass /\ refresh.todo > 0
  /\ \/ /\ MayAsk
        /\ Enqueue(Refresh)
        /\ UNCHANGED refresh
     \/ /\ Counted
        /\ UNCHANGED throttleVars
     \/ /\ ~MayAsk
        /\ PutOff
        /\ UNCHANGED throttleVars
  /\ UNCHANGED <<limits, cooldown, hot>>

\* the answer: the detail, a refusal that starts a cooldown, or AniList is down
RefreshReadsBody ==
  /\ at[Refresh] = "body"
  /\ \/ /\ at' = [at EXCEPT ![Refresh] = "idle"]
        /\ Counted
        /\ UNCHANGED <<limits, cooldown>>
     \/ /\ at' = [at EXCEPT ![Refresh] = "idle"]
        /\ ArmCooldown
        /\ PutOff
     \/ /\ at' = [at EXCEPT ![Refresh] = "mal"]
        /\ UNCHANGED <<limits, cooldown, refresh>>
  /\ UNCHANGED <<turn, nap, last, hot>>

\* MAL or Kitsu answer; or nobody does, and should_defer looks at the cooldown again
MalAnswers ==
  /\ at[Refresh] = "mal"
  /\ at' = [at EXCEPT ![Refresh] = "idle"]
  /\ Counted \/ (cooldown > 0 /\ PutOff)
  /\ UNCHANGED <<turn, nap, last, limits, cooldown, hot>>

PassEnds ==
  /\ InPass /\ refresh.todo = 0
  /\ refresh' = [refresh EXCEPT !.round = IF refresh.phase = "retry" THEN @ + 1 ELSE @,
                              !.phase = "rounds"]
  /\ UNCHANGED <<throttleVars, limits, cooldown, hot>>

Retry == [refresh EXCEPT !.phase = "retry", !.todo = refresh.deferred, !.deferred = 0]

\* Mutant of Over: what is put off after the last round is in neither count
OverUncounted == [refresh EXCEPT !.phase = "over", !.deferred = 0]

\* what is put off after the last round has failed
Over == [refresh EXCEPT !.phase = "over", !.counted = @ + refresh.deferred, !.deferred = 0]

\* Mutant of BudgetSpent: the waits of a sweep are not added up
BudgetSpentNever == FALSE

BudgetSpent == refresh.waited >= WaitBudget

NextRound ==
  /\ refresh.phase = "rounds"
  /\ refresh' = IF refresh.deferred = 0 \/ refresh.round >= MaxRounds THEN Over
                ELSE IF cooldown = 0 THEN Retry
                ELSE IF BudgetSpent THEN Over
                ELSE [refresh EXCEPT !.phase = "wait"]
  /\ UNCHANGED <<throttleVars, limits, cooldown, hot>>

PollCooldown ==
  /\ refresh.phase = "wait" /\ refresh.pause = 0
  /\ refresh' = IF cooldown = 0 \/ BudgetSpent THEN Retry ELSE [refresh EXCEPT !.pause = Poll]
  /\ UNCHANGED <<throttleVars, limits, cooldown, hot>>

RefreshSteps == NextSeries \/ RefreshReadsBody \/ MalAnswers \/ PassEnds \/ NextRound \/ PollCooldown

------------------------------------------------------------------------------
RefreshDue ==
  \/ InPass \/ refresh.phase = "rounds"
  \/ refresh.phase = "wait" /\ refresh.pause = 0

ThrottleDue == turn # <<>> /\ (at[Head(turn)] = "turn" \/ nap = 0)

TimePasses ==
  /\ ~RefreshDue /\ ~ThrottleDue
  /\ nap' = Less(nap, 1)
  /\ last' = Shorter(last + 1, LongAgo)
  /\ limits' = [limits EXCEPT !.reset = Less(@, 1)]
  /\ cooldown' = Less(cooldown, 1)
  /\ hot' = (hot /\ cooldown > 1)
  /\ refresh' = [refresh EXCEPT !.pause = Less(@, 1),
                                !.waited = IF refresh.phase = "wait" THEN @ + 1 ELSE @]
  /\ UNCHANGED <<turn, at>>

PaceInit ==
  /\ turn = <<>>
  /\ at = [a \in Actors |-> "idle"]
  /\ nap = 0
  /\ last = LongAgo
  /\ limits = NoSnapshot
  /\ cooldown = 0
  /\ refresh = [phase |-> "over", todo |-> 0, deferred |-> 0, counted |-> Tracked,
                round |-> 0, waited |-> 0, pause |-> 0]
  /\ hot = FALSE

Asks(a) == TakeTurn(a) \/ Send(a) \/ ReadHeaders(a)

PaceNext ==
  \/ \E c \in Callers : Call(c) \/ Abandon(c) \/ ReadBody(c)
  \/ \E a \in Actors : Asks(a)
  \/ ViewerFetched
  \/ RefreshBegins \/ RefreshSteps
  \/ TimePasses

PaceSpec == PaceInit /\ [][PaceNext]_paceVars

------------------------------------------------------------------------------
(* Properties *)

SweepPhases == {"over", "main", "retry", "rounds", "wait"}

RefreshType == [phase : SweepPhases, todo : Nat, deferred : Nat, counted : Nat,
                round : Nat, waited : Nat, pause : Nat]

\* Types of the variables; a cooldown is no longer than its cap, and a margin.
PaceTypeOK ==
  /\ turn \in Seq(Actors)
  /\ at \in [Actors -> Awaits]
  /\ nap \in Nat
  /\ last \in 0 .. LongAgo
  /\ limits \in Snapshot
  /\ cooldown \in 0 .. CooldownMax + Margin
  /\ refresh \in RefreshType
  /\ hot \in BOOLEAN

Sends(a) == at[a] = "nap" /\ at'[a] = "sent"

\* Requests leave at least the spacing of 30 a minute apart, whatever limit AniList claims,
\* however many callers wait and whoever of them goes: only one decides, sleeps and stamps
\* at a time.
RequestsSpaced == [][\A a \in Actors : Sends(a) => last >= ZeroSpacing]_paceVars

\* Once a cooldown has begun the sweep sends one request into it at most, the one that
\* waited for its turn: retries, and the passes after the budget is spent, send none.
SweepBacksOff == [][Sends(Refresh) /\ cooldown > 0 => ~hot]_paceVars

\* Ryokan paces itself: the spacing of all its requests, and a sweep that leaves AniList
\* alone once it was refused.
RequestsPaced == RequestsSpaced /\ SweepBacksOff

\* The series of a sweep are each done with, put off, or still to come: none is dropped or
\* counted twice by a retry, and when it is over each is refreshed or has failed.
SeriesAddUp ==
  /\ refresh.counted + refresh.deferred + refresh.todo = Tracked
  /\ refresh.phase = "over" => refresh.counted = Tracked

\* A sweep has an end although other callers may start the cooldown anew before it is ever
\* over: it retries a few times, and waits a poll beyond its budget at most.
SweepIsBounded == refresh.round <= MaxRounds /\ refresh.waited < WaitBudget + Longer(Poll, 1)

\* A refused sweep gives up in bounded time, and accounts for every series.
SweepAccounts == SeriesAddUp /\ SweepIsBounded

(* What comments claim and the code does not do *)

\* "Monotonically-set": a shorter cooldown does not replace a longer one.
CooldownOnlyGrows == [][cooldown' < cooldown => TimePasses]_paceVars

\* The first request after a cooldown does not act on a snapshot from before it.
CooldownClearsSnapshot == cooldown > 0 => limits = NoSnapshot
==============================================================================
