\* One preview, closed or confirmed, a confirm that may be dropped half way, and the sweep.
\* Deadlock is off: see PickerRaces.cfg.
CONSTANTS
  p1 = p1  p2 = p2  h1 = h1  h2 = h2  r1 = r1  f1 = f1  f2 = f2
  Previews = {p1}
  Hashes = {h1}
  HashOf <- OneHash
  Attributed = {p1}
  Blocklisted = {h1}
  Requests = {r1}
  Ops = {"unblock"}
  Files = {f1, f2}
  Faults = {"disconnect", "metadata", "suspend"}
  NoPreview = NoPreview
  Earlier = Earlier
  Outside = Outside
SPECIFICATION FairSpec
PROPERTIES ConfirmCommits WalkawayCommits ClosedPreviewsDrain
CHECK_DEADLOCK FALSE
