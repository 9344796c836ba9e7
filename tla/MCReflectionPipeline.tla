------------------------ MODULE MCReflectionPipeline ------------------------
(* Two sources, of which the second wakes up at the same moment as the     *)
(* listener jumps; one failing job.                                        *)
EXTENDS ReflectionPipeline, TLC

BoundSources == 2
BoundUpdates == 1
Places == (0 :> 1) @@ (1 :> 2)
Actives == (0 :> {1}) @@ (1 :> {1, 2})
SmallCadence == 2
SmallModulus == 2
BoundFailures == 1
=============================================================================
