\* A torrent that is grabbed twice, stays invisible, or is removed in the client.
\* Deadlock is off: see GrabRaces.cfg.
CONSTANTS
  g1 = g1  g2 = g2  h1 = h1  h2 = h2  r1 = r1
  Grabs = {g1, g2}
  Hashes = {h1}
  Batches = {}
  Usenet = {}
  Ruled = {}
  EntryPoints = {"interactive"}
  Mode = "link"
  PostProcessing = TRUE
  RemoveCompleted = TRUE
  RemoveFailed = TRUE
  BootGrace = FALSE
  Forced = FALSE
  Requests = {}
  Ops = {}
  Faults = {"late", "outside"}
  NoGrab = NoGrab
  NoHash = NoHash
SPECIFICATION FairSpec
PROPERTIES PendingSettles FinishedSeedsSettle
CHECK_DEADLOCK FALSE
