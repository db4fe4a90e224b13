SPECIFICATION Spec
CONSTANTS
  Scripts <- Usual
  MaxRows = 4
  Rollbacks = FALSE
  NamesReused = FALSE
  DualDropped = FALSE
  ListsWorn = FALSE
INVARIANTS
  MemoryKnown RowsConsistent KeepsRunning
CHECK_DEADLOCK TRUE
