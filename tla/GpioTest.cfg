SPECIFICATION Spec
CONSTANTS
  Pins = {13, 77, 130}
  Firmware = {0, 2}
  Params <- MCParams
  MaxBinds = 2
  Boards = {"S", "A", "V"}
INVARIANTS
  TypeOK
  AllOrNothing
  MaskFollowsFirmware
  ModesHold
  ExitFreesPins
