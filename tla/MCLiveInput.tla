---------------------------- MODULE MCLiveInput ----------------------------
(* Four slots and tags that repeat after eight frames; enough frames for   *)
(* the producer to lap the consumer twice and for the tags to wrap.        *)
EXTENDS LiveInput

SmallCapacity == 4
SmallTagModulus == 8
SmallTarget == 2
SmallExcess == 1
SmallFade == 2
BoundPulls == 2
BoundFrames == 10
=============================================================================
