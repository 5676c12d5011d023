\* Two rows of one release for either of two series; the plans bound what happens to them.
\* Or a metadata sweep of two series and another caller ask an AniList that refuses at will.
CONSTANTS
  Grabs = {1, 2}
  Hashes = {h1}
  Series = {s1, s2}
  Requests = {r1}
  Plans <- MisgrabPlans
  NoGrab = NoGrab
  Callers = {c1}
  PaddedMinute = 6
  ZeroSpacing = 1
  LimitFallback = 3
  Limits = {9}
  Resets = {1}
  LongAgo = 2
  Delays = {5}
  CooldownMax = 2
  Margin = 1
  Tracked = 2
  MaxRounds = 2
  WaitBudget = 2
  Poll = 1
  SeriesDelay = 1
SPECIFICATION GuardSpec
INVARIANTS MisgrabTypeOK RemovedIsBlocked PaceTypeOK SweepAccounts
PROPERTIES VerdictStands NeverFlaggedAgain MisgrabHandled RequestsPaced
CHECK_DEADLOCK FALSE
