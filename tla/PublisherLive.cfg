SPECIFICATION FairSpec
CONSTANTS
  Consumer = {c1}
  PoolBuf = {b1, b2, b3}
  CopyBuf = {h1, h2}
  NoBuf = NoBuf
  Frames <- KeyAndStored
  QueueCap = 1
  MaxFrags = 1
  MaxSends = 3
INVARIANTS
  TypeOK
  RefsExact
  HeadersInOrder
PROPERTIES
  SendReturns
  StoppedEnds
