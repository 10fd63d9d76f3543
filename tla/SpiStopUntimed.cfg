SPECIFICATION FairSpec
CONSTANTS
  MaxMsgs = 2
  Clients = {c1, c2}
  WaitKind = "untimed"
PROPERTY StopReturns
CHECK_DEADLOCK FALSE
