SPECIFICATION FairSpec
CONSTANTS
  TmoAlertCount = 1
  MaxFragments = 2
  MaxListenSeq = 1
  MaxSeq = 4
  MaxEpoch = 2
INVARIANTS NoReuse OneKeyPerEpoch ContextsAlive FlightKept WriteInv
PROPERTIES GivesUp
CHECK_DEADLOCK FALSE
