SPECIFICATION Spec
CONSTANTS
  Tuples <- Pairs
  Texts <- TwoTexts
  IndexDefs <- OneIndex
  FirstIndexes <- First
  Conditions <- Some
  Updates <- OnlySecond
  MaxRecords = 2
PROPERTY
  TextKept
CHECK_DEADLOCK TRUE
