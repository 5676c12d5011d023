\* Cancels and the sweep drop rows while the adds of two previews run; or the scheduled
\* tasks run on their own and on request, over restarts without end.
\* Deadlock is off: see PickerRaces.cfg.
CONSTANTS
  p1 = p1  p2 = p2  h1 = h1  h2 = h2  r1 = r1  f1 = f1  f2 = f2
  Previews = {p1, p2}
  Hashes = {h1}
  HashOf <- OneHash
  Attributed = {p1, p2}
  Blocklisted = {}
  Requests = {r1}
  Ops = {"cancel"}
  Files = {f1}
  Faults = {}
  NoPreview = NoPreview
  Earlier = Earlier
  Outside = Outside
  Clickers = {r1}
  TaskPlans <- RunPlans
  Period = 2
  MinuteParts = 2
  StartupDelay = 1
  MinUptime = 3
  MaxErrors = 1
  Ceiling = 3
SPECIFICATION LoopsSpec
INVARIANTS TaskTypeOK RowsAreHonest
PROPERTIES LateAddsSettle AutoRunsSpaced LoopsKeepRunning
CHECK_DEADLOCK FALSE
