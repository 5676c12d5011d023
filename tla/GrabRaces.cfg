\* Two automatic grabs of two releases under seed rules, against the tick; their episode is
\* deleted or marked failed at any point.  Deadlock is off: a run whose grabs are spent stops at
\* the loop's last step.
CONSTANTS
  g1 = g1  g2 = g2  h1 = h1  h2 = h2  r1 = r1
  Grabs = {g1, g2}
  Hashes = {h1, h2}
  Batches = {}
  Usenet = {}
  Ruled = {h1, h2}
  EntryPoints = {"search"}
  Mode = "link"
  PostProcessing = TRUE
  RemoveCompleted = FALSE
  RemoveFailed = TRUE
  BootGrace = FALSE
  Forced = FALSE
  Requests = {r1}
  Ops = {"delete", "fail"}
  Faults = {}
  NoGrab = NoGrab
  NoHash = NoHash
SPECIFICATION Spec
PROPERTIES LedgerRefinement SeedRulesKept
SYMMETRY AllSymmetry
CHECK_DEADLOCK FALSE
