-------------------------- MODULE MCSpatialSession --------------------------
(* A listener and one source; enough updates for two of them to race one   *)
(* block after a third one, two preparations, two failures.                *)
EXTENDS SpatialSession

CONSTANTS listener, source

BoundSources == {source}
BoundUpdates == 4
BoundPrepares == 2
BoundFaults == 2
=============================================================================
