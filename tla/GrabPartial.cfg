\* A batch whose files cannot all be placed and a usenet job, under the tick and
\* the sweep, with client calls that fail, downloads in error and a seed flag that cannot be
\* read, from the boot on.
\* Deadlock is off: see GrabRaces.cfg.
CONSTANTS
  g1 = g1  g2 = g2  h1 = h1  h2 = h2  r1 = r1
  Grabs = {g1, g2}
  Hashes = {h1, h2}
  Batches = {h1}
  Usenet = {h2}
  Ruled = {h1}
  EntryPoints = {"search"}
  Mode = "move"
  PostProcessing = TRUE
  RemoveCompleted = TRUE
  RemoveFailed = TRUE
  BootGrace = TRUE
  Forced = FALSE
  Requests = {}
  Ops = {}
  Faults = {"file", "rpc", "errored", "flag"}
  NoGrab = NoGrab
  NoHash = NoHash
SPECIFICATION Spec
INVARIANTS TypeOK
PROPERTIES PartialNeverSwept
SYMMETRY GrabSymmetry
CHECK_DEADLOCK FALSE
