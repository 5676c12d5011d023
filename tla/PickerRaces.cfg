\* Two previews of one release and one cancel handler beside the sweep, with every fault.
\* Deadlock is off: when every preview is over and no modal is open, nothing is left to do.
CONSTANTS
  p1 = p1  p2 = p2  h1 = h1  h2 = h2  r1 = r1  f1 = f1  f2 = f2
  Previews = {p1, p2}
  Hashes = {h1}
  HashOf <- OneHash
  Attributed = {p1, p2}
  Blocklisted = {h1}
  Requests = {r1}
  Ops = {"cancel"}
  Files = {f1}
  Faults <- AllFaults
  NoPreview = NoPreview
  Earlier = Earlier
  Outside = Outside
SYMMETRY PreviewSymmetry
SPECIFICATION Spec
INVARIANTS TypeOK OneLivePreview ErroredHasNoFiles
PROPERTIES EarlierTorrentsSurvive LeaseRefinement
CHECK_DEADLOCK FALSE
