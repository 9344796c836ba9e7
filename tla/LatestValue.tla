---------------------------- MODULE LatestValue ----------------------------
(***************************************************************************)
(* What SnapshotPublication promises: a register that holds the latest     *)
(* complete publication.  Publications are numbered from 1 in the order in *)
(* which the only writer makes them; 0 is the initial value.  The reader   *)
(* may fall behind, but when it refreshes it takes the latest publication  *)
(* whole, and it never goes back.                                          *)
(***************************************************************************)
EXTENDS Naturals

VARIABLES
  latest,   \* number of the last complete publication
  observed  \* number of the publication the reader holds

vars == <<latest, observed>>

Init == latest = 0 /\ observed = 0

(* The writer makes one more publication visible, in one step.             *)
Publish ==
  /\ latest' = latest + 1
  /\ UNCHANGED observed

(* The reader takes over the latest publication.                           *)
Observe ==
  /\ observed < latest
  /\ observed' = latest
  /\ UNCHANGED latest

Next == Publish \/ Observe

Spec == Init /\ [][Next]_vars
=============================================================================
