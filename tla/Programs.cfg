SPECIFICATION Spec
CONSTANTS
  Callers = {"smbus", "spirom"}
  Adapters = {1, 2}
  Addresses = {5, 6, 200}
  Bound <- MCBound
  Registers = {7, 261}
  Tokens <- MCTokens
  BlockMax = 3
  MaxFiles = 2
INVARIANTS
  TypeOK
  KeptOffFlash
  TransferAsTold
  NothingLeftOn
  AlarmToldTruly
PROPERTIES
  CommandsEnd
