SPECIFICATION Spec
CONSTANTS
  Devices = {d1, d2}
  Directions = {dirA}
  NPages = 3
  MaxPages = 2
  MaxStamp = 3
  MaxDirect = 1
  NoDevice = NoDevice
INVARIANTS
  TypeOK
  BorrowAccounting
  MappingsHeld
PROPERTIES
  BorrowedWindowFixed
CHECK_DEADLOCK FALSE
