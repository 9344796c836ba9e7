--------------------------- MODULE MCNeutralSwap ---------------------------
(* Three swaps in a row: into a world that needs no warmup, into one whose *)
(* request is under the cap, and into one whose request is cut to it (the  *)
(* cap is 64 in the code).  The fade has its eight blocks.                 *)
EXTENDS NeutralSwap

CONSTANTS g1, g2, g3, g4

MCGenerations == {g1, g2, g3, g4}
MCRequestedWarmup ==
  [g \in MCGenerations |-> IF g = g3 THEN 1 ELSE IF g = g4 THEN 5 ELSE 0]
MCMaxWarmupBlocks == 2
MCFadeBlocks == 8
=============================================================================
