SPECIFICATION Spec
CONSTANTS
  Tables <- Usual
  Nesting = 4
INVARIANTS
  SameMeaning NoRowLost ExactButForDefects
CHECK_DEADLOCK TRUE
