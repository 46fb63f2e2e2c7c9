SPECIFICATION Spec
CONSTANTS
  u1 = u1
  a1 = a1
  User = {u1}
  BusCap = 3
  Watcher = {w1}
  Addr = {a1}
  StreamerOf <- OneStreamer
  AddrOf <- SameAddress
  MaxStarts = 0
  Client = {c1}
  NoClient = NoClient
  Asked <- TwoSections
  MaxRequests = 1
INVARIANTS
  NotifierSurvives
