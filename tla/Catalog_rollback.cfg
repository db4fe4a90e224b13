SPECIFICATION Spec
CONSTANTS
  Scripts <- SimpleScript
  MaxRows = 4
  Rollbacks = TRUE
  NamesReused = FALSE
  DualDropped = FALSE
  ListsWorn = FALSE
INVARIANT
  RowsConsistent
CHECK_DEADLOCK TRUE
