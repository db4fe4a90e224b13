SPECIFICATION Spec
CONSTANTS
  Data <- RoundSizes
  handlesPerIndex = 1
  indexesPerMasterIndex = 2
  MaxHandles = 3
  MaxPages = 10
  Usages <- Reopened
PROPERTY
  StartsReturn
CHECK_DEADLOCK FALSE
