CONSTANTS
  MapBits = 2
  SatLimit = 3
  Half = 8
  Records <- MCRecords
  Datagrams <- MCDatagrams
  QueueLimit = 2
  MaxWarnAlert = 3
  MaxEpoch = 2
SPECIFICATION FairSpec
INVARIANTS TypeOK NoReplay BufferedHaveBitmap HandshakeInEpoch QueuesBounded ReadInv
PROPERTIES AppDataAuthenticated BufferedGetProcessed
