\* Restores across boots with crashes and failing calls; recycles, restores and upgrades of a
\* video's files with failing calls and restarts.  Deadlock is off: a behaviour ends when its
\* boots or requests are spent.
CONSTANTS
  Uploads = {u1, u2}
  WithKey = {u1}
  Keep = 1
  Budgets <- RestoreBudgets
  NoOwner = NoOwner
  Own = Own
  Fresh = Fresh
  Torn = Torn
  Videos = {v1, v2, v3}
  Jobs = {j1, j2}
  Entries = {1, 2}
  BinBudgets <- BinMixes
  NoVideo = NoVideo
SPECIFICATION DiskSpec
INVARIANTS
  DiskTypeOK
  BootIsAllOrNothing
  RestoreCanBeUndone
  NoVideoIsLost
PROPERTIES
  RestoredExactlyOnce
  ImportsKeepTheirFiles
CHECK_DEADLOCK FALSE
