SPECIFICATION Spec
CONSTANTS
  BYTE = 4
  ZeroRow = zero
  Rows = {zero, a}
  recordsPerZeroPage = 2
  recordsPerPage = 2
  PageIdRange = 8
  LastPage = 2
  MaxRecords = 5
INVARIANTS
  HeaderSound ScanMeetsEveryRow
PROPERTY
  TableSpec
CHECK_DEADLOCK TRUE
