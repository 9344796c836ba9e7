---------------------------- MODULE MCMacroBridge ----------------------------
(* A shot of two roles that are committed together, the second ending off  *)
(* a block boundary, and a later event for the role of the first.          *)
EXTENDS MacroBridge

MCRole == <<0, 1, 0>>
MCGroup == <<1, 1, 2>>
MCFrame == <<2, 2, 6>>
MCDeadline == <<4, 5, 7>>
=============================================================================
