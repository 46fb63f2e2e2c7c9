SPECIFICATION Spec
CONSTANTS
  Consumer = {c1, c2}
  PoolBuf = {b1, b2}
  CopyBuf = {h1}
  NoBuf = NoBuf
  Frames <- Video
  QueueCap = 1
  MaxFrags = 2
  MaxSends = 3
SYMMETRY Symmetry
INVARIANTS
  NoPanic
  RefsExact
  PayloadIntact
  VideoWellFormed
  NothingSkipped
PROPERTIES
  BuffersRecycled
  ImplementsChannel
  ImplementsFeed
