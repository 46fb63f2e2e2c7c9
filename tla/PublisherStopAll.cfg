SPECIFICATION Spec
CONSTANTS
  Consumer = {c1}
  PoolBuf = {b1, b2}
  CopyBuf = {h1}
  NoBuf = NoBuf
  Frames <- Video
  QueueCap = 2
  MaxFrags = 1
  MaxSends = 1
INVARIANTS
  StopStopsAll
