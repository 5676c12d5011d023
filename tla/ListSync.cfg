\* A linked account whose list changes while syncs of it run, and a user who pins, removes and
\* excludes.  Deadlock is off: without an account nothing is left to do.
CONSTANTS
  t1 = t1  t2 = t2
  Titles = {t1, t2}
  Fallback = {t2}
  MaxAccounts = 2
  SyncPlans <- AccountPlans
  NoTitle = NoTitle
SPECIFICATION SyncSpec
INVARIANTS SyncTypeOK SyncedFollows
PROPERTIES SyncRespectsUser EditsReachLibrary
CHECK_DEADLOCK FALSE
