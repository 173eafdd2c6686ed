SPECIFICATION Spec
CONSTANTS
  TmoAlertCount = 2
  MaxFragments = 1
  MaxListenSeq = 0
  MaxSeq = 4
  MaxEpoch = 2
INVARIANTS OneMacOrderPerEpoch
CHECK_DEADLOCK FALSE
