----------------------------- MODULE PreviewLease -----------------------------
(***************************************************************************)
(* What a file-picker preview promises: while it is live it holds its      *)
(* release exclusively, and a preview that has let go never holds again.   *)
(***************************************************************************)
CONSTANTS Previews, Hashes, HashOf, NoPreview

VARIABLES
  holder, \* the live preview of each hash
  spent   \* the previews that have asked for their hash

vars == <<holder, spent>>

Init == holder = [h \in Hashes |-> NoPreview] /\ spent = {}

\* A preview asks once, and gets the hash exactly when nobody has it.
Acquire(p) ==
  LET h == HashOf[p] IN
  /\ p \notin spent
  /\ spent' = spent \cup {p}
  /\ holder' = [holder EXCEPT ![h] = IF holder[h] = NoPreview THEN p ELSE @]

Release(h) ==
  /\ holder[h] # NoPreview
  /\ holder' = [holder EXCEPT ![h] = NoPreview]
  /\ UNCHANGED spent

Next == (\E p \in Previews : Acquire(p)) \/ (\E h \in Hashes : Release(h))

Spec == Init /\ [][Next]_vars
===============================================================================
