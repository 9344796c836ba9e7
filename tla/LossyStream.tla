---------------------------- MODULE LossyStream ----------------------------
(***************************************************************************)
(* What the live input ring promises its consumer: frames are offered in   *)
(* order, some may be lost, and each one that is delivered is delivered    *)
(* whole, once, and after every frame delivered before it.                 *)
(***************************************************************************)
EXTENDS Integers

VARIABLES
  offered,   \* frames offered so far; the k-th one is number k - 1
  delivered  \* the two halves of the last frame delivered

vars == <<offered, delivered>>

Whole(k) == <<k, k>>

Init == offered = 0 /\ delivered = Whole(-1)

Offer ==
  /\ offered' = offered + 1
  /\ UNCHANGED delivered

Deliver ==
  /\ \E k \in 0..(offered - 1) : k > delivered[1] /\ delivered' = Whole(k)
  /\ UNCHANGED offered

Next == Offer \/ Deliver

Spec == Init /\ [][Next]_vars
=============================================================================
