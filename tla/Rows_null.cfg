SPECIFICATION Spec
CONSTANTS
  Tuples <- NullPairs
  Texts <- NoText
  IndexDefs <- TwoIndexes
  FirstIndexes <- First
  Conditions <- SomeNull
  Updates <- NoSets
  MaxRecords = 2
PROPERTY
  OnlyRepeatsRefused
CHECK_DEADLOCK TRUE
