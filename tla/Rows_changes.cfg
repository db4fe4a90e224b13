SPECIFICATION Spec
CONSTANTS
  Tuples <- Pairs
  Texts <- NoText
  IndexDefs <- ThreeIndexes
  FirstIndexes <- FirstTwo
  Conditions <- Some
  Updates <- Sets
  MaxRecords = 3
INVARIANTS
  IndexesAgree RefusedRowUndone UniqueHeld
PROPERTY
  UpdateRefusedOnlyForRepeats
CHECK_DEADLOCK TRUE
