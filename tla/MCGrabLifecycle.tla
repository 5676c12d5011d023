--------------------------- MODULE MCGrabLifecycle ----------------------------
(* Small instances of GrabLifecycle for TLC. *)
EXTENDS GrabLifecycle, TLC

CONSTANTS g1, g2, h1, h2, r1

\* The requests to grab are interchangeable, and so are the releases of an instance whose
\* releases are all of one kind (none a batch or usenet, all under seed rules).
GrabSymmetry == Permutations(Grabs)
AllSymmetry == {p @@ q : p \in Permutations(Grabs), q \in Permutations(Hashes)}
===============================================================================
