SPECIFICATION FairSpec
CONSTANTS
  u1 = u1
  a1 = a1
  User = {u1}
  BusCap = 3
  Watcher = {w1, w2}
  Addr = {a1}
  StreamerOf <- OneStreamer
  AddrOf <- SameAddress
  MaxStarts = 1
  Client = {c1, c2}
  NoClient = NoClient
  Asked <- TwoSections
  MaxRequests = 2
INVARIANTS
  TypeOK
  IndexesAgree
  CountCurrent
  ToldTheCount
PROPERTIES
  ToldInOrder
  ReaderReturns
