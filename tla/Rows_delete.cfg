SPECIFICATION Spec
CONSTANTS
  Tuples <- Pairs
  Texts <- NoText
  IndexDefs <- OneIndex
  FirstIndexes <- First
  Conditions <- Some
  Updates <- NoSets
  MaxRecords = 2
PROPERTY
  RowsDeleted
CHECK_DEADLOCK TRUE
