SPECIFICATION Spec
CONSTANTS
  Consumer = {c1}
  PoolBuf = {b1, b2}
  CopyBuf = {h1}
  NoBuf = NoBuf
  Frames <- Audio
  QueueCap = 2
  MaxFrags = 2
  MaxSends = 2
INVARIANTS
  FramesStayWhole
