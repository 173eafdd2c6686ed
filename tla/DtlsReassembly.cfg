CONSTANTS
  MsgLens <- MCMsgLens
  ByteBits = 2
  MaxAhead = 1
  MaxMsgLen = 6
  EmptyFragments = FALSE
  HelloRequests = TRUE
  BadFragments <- MCBadFragments
  MaxHandshakes = 2
SPECIFICATION FairSpec
INVARIANTS MaskExact DeliveredWhole BufferBounded
PROPERTY HandshakeEnds
CHECK_DEADLOCK FALSE
