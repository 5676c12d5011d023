\* Two releases of the episode, under seed rules and grabbed with or without a stamp of them,
\* replace each other while files cannot be placed, the sweep runs and the process restarts.
\* Deadlock is off: see GrabRaces.cfg.
CONSTANTS
  g1 = g1  g2 = g2  h1 = h1  h2 = h2  r1 = r1
  Grabs = {g1, g2}
  Hashes = {h1, h2}
  Batches = {}
  Usenet = {}
  Ruled = {h1, h2}
  EntryPoints = {"search", "interactive"}
  Mode = "link"
  PostProcessing = TRUE
  RemoveCompleted = TRUE
  RemoveFailed = TRUE
  BootGrace = FALSE
  Forced = FALSE
  Requests = {}
  Ops = {}
  Faults = {"file", "restart"}
  NoGrab = NoGrab
  NoHash = NoHash
SPECIFICATION Spec
INVARIANTS EpisodeHasOneOwner
PROPERTIES SeedRulesKept
SYMMETRY AllSymmetry
CHECK_DEADLOCK FALSE
