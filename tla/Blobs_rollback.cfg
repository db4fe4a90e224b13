SPECIFICATION Spec
CONSTANTS
  Data <- RoundSizes
  handlesPerIndex = 2
  indexesPerMasterIndex = 2
  MaxHandles = 2
  MaxPages = 9
  Usages <- RolledBack
INVARIANT
  RollbackComplete
CHECK_DEADLOCK FALSE
