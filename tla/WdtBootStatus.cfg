SPECIFICATION Spec
CONSTANTS
  Procs = {p1, p2}
  NoFile = NoFile
  MaxCount = 2
INVARIANT ResetIsReported
CHECK_DEADLOCK FALSE
