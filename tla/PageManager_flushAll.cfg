SPECIFICATION Spec
CONSTANTS
  DELETED = DELETED
  Files = {f1, f2}
  Zero = zero
  Contents = {zero, a, b}
  MaxPages = 2
  MaxFilePages = 2
  FlushOneResults = {TRUE, FALSE}
  Crashes = FALSE
INVARIANTS
  FlushAllWritesEverything
CHECK_DEADLOCK TRUE
