SPECIFICATION Spec
CONSTANTS
  Fds = {f1, f2, f3}
  MaxObjs = 3
  Variants = {"plain", "falcon"}
INVARIANTS
  TypeOK
  UsersCountFiles
  FreedIsUnreferenced
  NoLeak
  CorruptionExplained
  CleanExit
CHECK_DEADLOCK FALSE
