SPECIFICATION Spec
CONSTANTS
  Files = {f1, f2}
  FileIds = {0, 1}
  Zero = zero
  Contents = {zero, a}
  Throws = TRUE
  Drops = "never"
INVARIANT
  NothingPending
CHECK_DEADLOCK TRUE
