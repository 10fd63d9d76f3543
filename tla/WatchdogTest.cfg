SPECIFICATION FairSpec
CONSTANTS
  Boards = {"A", "V"}
  MaxCount = 2
  MaxBinds = 2
INVARIANTS
  TypeOK
  CoreKnowsTimer
  ResetReported
  LoopCanBeLeft
PROPERTIES
  ExitResets
