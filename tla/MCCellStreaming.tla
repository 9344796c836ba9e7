-------------------------- MODULE MCCellStreaming --------------------------
(* Four cells, in units of 64 MiB: the default limits, estimates on either *)
(* side of each of them, one whose scratch overflows, and loaders that     *)
(* deliver less, as much as, or more than was estimated.                   *)
EXTENDS CellStreaming

CONSTANTS a, b, c, d

MCCells == {a, b, c, d}
MCEstimates ==
  {[raw |-> 1, prepared |-> 2, scratch |-> 1],
   [raw |-> 1, prepared |-> 3, scratch |-> 4],
   [raw |-> 2, prepared |-> 1, scratch |-> 1],
   [raw |-> 1, prepared |-> 2, scratch |-> 15]}
MCActuals == {1, 3, 5, 15}
MCReserves == {7, 8}
MCLimits == [raw |-> 1, reserve |-> 8, target |-> 8, peak |-> 10]
MCFirstBytes == 3
MCOtherBytes == 2
MCMaxBytes == 15
MCMaxTickets == 4
=============================================================================
