SPECIFICATION Spec
CONSTANTS
  None = None
  Malformed = Malformed
  Messages <- SmallMessages
INVARIANTS
  ReportsAreComplete
  WrongEventIsAlone
  MIoTIsWhole
CHECK_DEADLOCK FALSE
