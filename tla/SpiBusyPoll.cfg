SPECIFICATION FairSpec
CONSTANTS
  MaxMsgs = 2
  Clients = {c1, c2}
  WaitKind = "timed"
PROPERTY PollSeesIdle
CHECK_DEADLOCK FALSE
