\* The process restarts between the two writes that record a partial import.
CONSTANTS
  g1 = g1  g2 = g2  h1 = h1  h2 = h2  r1 = r1
  Grabs = {g1}
  Hashes = {h1}
  Batches = {h1}
  Usenet = {}
  Ruled = {}
  EntryPoints = {"interactive"}
  Mode = "link"
  PostProcessing = TRUE
  RemoveCompleted = TRUE
  RemoveFailed = TRUE
  BootGrace = FALSE
  Forced = FALSE
  Requests = {}
  Ops = {}
  Faults = {"file", "restart"}
  NoGrab = NoGrab
  NoHash = NoHash
SPECIFICATION Spec
PROPERTIES PartialNeverSwept
CHECK_DEADLOCK FALSE
