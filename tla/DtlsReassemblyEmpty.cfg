CONSTANTS
  MsgLens <- MCMsgLens
  ByteBits = 2
  MaxAhead = 1
  MaxMsgLen = 6
  EmptyFragments = TRUE
  HelloRequests = FALSE
  BadFragments <- NoFragments
  MaxHandshakes = 2
SPECIFICATION Spec
INVARIANT DeliveredWhole
CHECK_DEADLOCK FALSE
