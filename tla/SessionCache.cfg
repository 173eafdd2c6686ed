SPECIFICATION Spec
CONSTANTS
  Conns = {c1, c2}
  Objects = {x1, x2, x3, x4}
  Ids = {i1, i2, i3}
  None = None
  Configurations <- Usages
  CacheSize = 1
  MaxTickets = 2
SYMMETRY Interchangeable
CHECK_DEADLOCK FALSE
INVARIANTS TypeOK RefsExact CacheConsistent
PROPERTIES SingleUse
