SPECIFICATION Spec
CONSTANTS
  Fds = {f1, f2}
  MaxObjs = 2
  Variants = {"plain", "falcon"}
INVARIANT ListedIsLive
CHECK_DEADLOCK FALSE
