SPECIFICATION Spec
CONSTANTS
  Conns = {c1, c2}
  Objects = {x1, x2, x3}
  Ids = {i1, i2, i3}
  None = None
  Configurations <- ById
  CacheSize = 1
  MaxTickets = 1
SYMMETRY Interchangeable
CHECK_DEADLOCK FALSE
INVARIANTS OldIdSentBack
