\* Post-processing is off, somebody forces runs of it, cancels the episode of a release that
\* is grabbed twice, and removes its item in the client.  Deadlock is off: see GrabRaces.cfg.
CONSTANTS
  g1 = g1  g2 = g2  h1 = h1  h2 = h2  r1 = r1
  Grabs = {g1, g2}
  Hashes = {h1}
  Batches = {}
  Usenet = {}
  Ruled = {h1}
  EntryPoints = {"interactive"}
  Mode = "link"
  PostProcessing = FALSE
  RemoveCompleted = TRUE
  RemoveFailed = TRUE
  BootGrace = FALSE
  Forced = TRUE
  Requests = {r1}
  Ops = {"cancel"}
  Faults = {"outside"}
  NoGrab = NoGrab
  NoHash = NoHash
SPECIFICATION FairSpec
PROPERTIES CompleteSettles
CHECK_DEADLOCK FALSE
