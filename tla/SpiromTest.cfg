SPECIFICATION FairSpec
CONSTANTS
  Size = 8
  PageSize = 2
  SectorSize = 2
  BlockSize = 4
  FileSize = 2
  MaxErrors = 1
  Programs = {p1, p2}
  Boards = {"V"}
  Requests <- MCRequests
  MaxCommands = 2
INVARIANTS
  TypeOK
  SuccessMeansDone
  OthersUntouched
PROPERTIES
  PollEnds
