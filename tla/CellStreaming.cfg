SPECIFICATION Spec
CONSTANTS
  a = a
  b = b
  c = c
  d = d
  None = None
  First = a
  Cells <- MCCells
  Estimates <- MCEstimates
  Actuals <- MCActuals
  Reserves <- MCReserves
  Limits <- MCLimits
  FirstBytes <- MCFirstBytes
  OtherBytes <- MCOtherBytes
  MaxBytes <- MCMaxBytes
  MaxTickets <- MCMaxTickets
INVARIANTS
  MemoryWithinLimits
  PayloadOfItsCell
  FallbackUnlessServed
PROPERTIES
  ImplementsAuthority
