CONSTANTS
  HdrLen = 2
  MsgLens = {0, 6}
  Rooms = {3, 5}
  MaxMtuDrops = 0
  MaxStart = 3
SPECIFICATION Spec
INVARIANT NotTheFirst
