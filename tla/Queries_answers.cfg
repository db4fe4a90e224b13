SPECIFICATION Spec
CONSTANTS
  Selects <- Usual
  MaxRows = 20
  Nesting = 2
INVARIANTS
  NothingLost AnswerExact NothingUndefined InOrder
PROPERTY
  Ends
CHECK_DEADLOCK TRUE
