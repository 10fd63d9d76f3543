SPECIFICATION Spec
CONSTANTS
  Procs = {p1, p2}
  NoFile = NoFile
  MaxCount = 2
INVARIANT SingleOpen
CHECK_DEADLOCK FALSE
