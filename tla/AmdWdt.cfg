SPECIFICATION FairSpec
CONSTANTS
  Procs = {p1, p2}
  NoFile = NoFile
  MaxCount = 2
INVARIANTS
  TypeOK
  StatusFollowsFiles
  DriverMatchesTimer
PROPERTIES
  NoWayOutHolds
  UnexpectedCloseResets
CHECK_DEADLOCK FALSE
