------------------------------ MODULE GrabLedger ------------------------------
(***************************************************************************)
(* What grabbed_torrents promises its readers, without saying who writes   *)
(* it: a grab row is live (pending or imported) or closed (failed, removed *)
(* or replaced), two live rows never name the same release, and a closed   *)
(* row stays closed.  A release that was closed can be grabbed again, in a *)
(* row of its own.                                                         *)
(***************************************************************************)
CONSTANTS
  Grabs,  \* row ids
  Hashes  \* the releases a row may name

VARIABLES
  live,   \* the live rows, each with its release
  closed  \* the closed rows

LiveRows == {entry[1] : entry \in live}
LiveHashes == {entry[2] : entry \in live}

Init == live = {} /\ closed = {}

\* A grab is recorded: a new row, for a release no live row names.
Open(g, h) ==
  /\ g \notin LiveRows \cup closed
  /\ h \notin LiveHashes
  /\ live' = live \cup {<<g, h>>}
  /\ UNCHANGED closed

\* The grab failed, was removed, or was replaced by an upgrade.
Close(g, h) ==
  /\ <<g, h>> \in live
  /\ live' = live \ {<<g, h>>}
  /\ closed' = closed \cup {g}

Next == \E g \in Grabs, h \in Hashes : Open(g, h) \/ Close(g, h)

Spec == Init /\ [][Next]_<<live, closed>>
===============================================================================
