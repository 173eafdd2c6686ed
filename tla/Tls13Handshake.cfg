SPECIFICATION Spec
CONSTANTS
  Configurations <- MCConfigurations
  NumTickets = 1
  MaxEarly = 1
  MaxData = 1
  MaxUpdates = 1
  MaxRequests = 2
CHECK_DEADLOCK FALSE
INVARIANTS TypeOK NeverFails Protected EarlyDataExact OneRequest Agreement
PROPERTIES HandshakeEnds UpdateAnswered RequestAnswered
