SPECIFICATION Spec
CONSTANTS
  Data <- RoundSizes
  handlesPerIndex = 1
  indexesPerMasterIndex = 2
  MaxHandles = 3
  MaxPages = 11
  Usages <- Usual
INVARIANTS
  SpaceAccounted BlobsReadable RollbackComplete
PROPERTY
  StoreSpec
\* A start that follows a stale chain of master pages does not come to its end.
CHECK_DEADLOCK FALSE
