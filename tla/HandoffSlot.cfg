SPECIFICATION HandoffSpec
CONSTANTS
  Items = {g1, g2, g3, g4}
  Nothing = Nothing
INVARIANTS
  ExclusiveCell
  OwnedExactlyOnce
PROPERTIES
  ImplementsBox
CHECK_DEADLOCK FALSE
