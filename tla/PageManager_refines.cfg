SPECIFICATION FairSpec
CONSTANTS
  DELETED = DELETED
  Files = {f1, f2}
  Zero = zero
  Contents = {zero, a}
  MaxPages = 2
  MaxFilePages = 2
  FlushOneResults = {TRUE}
  Crashes = TRUE
INVARIANTS
  TypeOK PagePartition AscendingMaps DirtyExactlyQueued CleanOnDisk
  MetadataFlagSound FreshPagesZero
PROPERTIES
  StoreSpec IdleFlushes
CHECK_DEADLOCK TRUE
