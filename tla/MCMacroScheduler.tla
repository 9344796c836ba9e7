-------------------------- MODULE MCMacroScheduler --------------------------
(* A shot of two events that are reserved together, and two more events    *)
(* for the role of its first, one of which is due while the shot sounds.   *)
EXTENDS MacroScheduler

MCRole == <<0, 1, 0, 0>>
MCGroup == <<1, 1, 2, 1>>
MCFrame == <<1, 1, 2, 3>>
MCDeadline == <<2, 3, 2, 4>>
=============================================================================
