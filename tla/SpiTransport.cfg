SPECIFICATION FairSpec
CONSTANTS
  MaxMsgs = 2
  Clients = {c1, c2}
  WaitKind = "timed"
INVARIANTS
  TypeOK
  DriverHoldsCurrent
  LateOnlyAfterTimeout
  RegistersMapped
  CrashesExplained
PROPERTIES
  IoctlReturns
  StopReturns
  AcceptedIsCompleted
  ImplementsChannel
CHECK_DEADLOCK FALSE
