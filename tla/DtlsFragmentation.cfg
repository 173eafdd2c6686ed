CONSTANTS
  HdrLen = 2
  MsgLens = {0, 6}
  Rooms = {3, 5}
  MaxMtuDrops = 2
  MaxStart = 3
SPECIFICATION FairSpec
INVARIANTS FaithfulWhileSameMtu CoveredWhileSameMtu HashedWhileSameMtu WithinBuffer
PROPERTY MessageGoesOut
