SPECIFICATION Spec
CONSTANTS
  Scripts <- LaterKeysKeyedScript
  MaxRows = 4
  Rollbacks = FALSE
  NamesReused = FALSE
  DualDropped = FALSE
  ListsWorn = FALSE
INVARIANT
  PrimaryKeyIndexed
CHECK_DEADLOCK TRUE
