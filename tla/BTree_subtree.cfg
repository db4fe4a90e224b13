SPECIFICATION Spec
CONSTANTS
  Entries <- SomeKeys
  RowOrders <- Tables
  cellsPerLeafPage = 3
  cellsPerInternalPage = 3
  PARENTING_ZERO_SIZE = 4
  PARENTING_NORMAL_SIZE = 5
  MaxPage = 30
  Brittles = TRUE
PROPERTY
  OnlyTheDeletedGoes
CHECK_DEADLOCK FALSE
