SPECIFICATION Spec
CONSTANTS
  Files = {f1, f2}
  FileIds = {0, 1}
  Zero = zero
  Contents = {zero, a}
  Throws = TRUE
  Drops = "alone"
INVARIANTS
  TypeOK CopiesFresh
PROPERTIES
  OnlyThrowsPend PromiseSpec
CHECK_DEADLOCK TRUE
