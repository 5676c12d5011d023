---------------------------- MODULE MCPendingGrabs ----------------------------
(* Small instances of PendingGrabs for TLC. *)
EXTENDS PendingGrabs, TLC

CONSTANTS p1, p2, h1, h2, r1, f1, f2

\* Every preview is opened for the one release.
OneHash == [p \in Previews |-> h1]

\* The previews of one release are interchangeable.
PreviewSymmetry == Permutations(Previews)

AllFaults == FaultKinds
===============================================================================
