SPECIFICATION Spec
CONSTANTS
  Scripts <- ThreeScript
  MaxRows = 4
  Rollbacks = FALSE
  NamesReused = FALSE
  DualDropped = FALSE
  ListsWorn = FALSE
INVARIANT
  KeyOrderKept
CHECK_DEADLOCK TRUE
