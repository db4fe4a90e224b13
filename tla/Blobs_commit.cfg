SPECIFICATION Spec
CONSTANTS
  Data <- RoundSizes
  handlesPerIndex = 2
  indexesPerMasterIndex = 2
  MaxHandles = 2
  MaxPages = 9
  Usages <- Committed
INVARIANT
  CommitsSucceed
CHECK_DEADLOCK FALSE
