SPECIFICATION Spec
CONSTANTS
  Configurations <- EarlyWrites
  NumTickets = 1
  MaxEarly = 2
  MaxData = 1
  MaxUpdates = 1
  MaxRequests = 1
CHECK_DEADLOCK FALSE
INVARIANTS Protected
