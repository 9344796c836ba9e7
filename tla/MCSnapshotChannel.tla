------------------------- MODULE MCSnapshotChannel -------------------------
(* Three attempts as in the code; enough publications for a reader to lose *)
(* all of them and for every slot to be reused.                            *)
EXTENDS SnapshotChannel

BoundAttempts == 3
BoundPublications == 7
=============================================================================
