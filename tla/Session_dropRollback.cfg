SPECIFICATION Spec
CONSTANTS
  Files = {f1, f2}
  FileIds = {0, 1}
  Zero = zero
  Contents = {zero, a}
  Throws = FALSE
  Drops = "anywhere"
PROPERTY
  CommittedUntouched
CHECK_DEADLOCK TRUE
