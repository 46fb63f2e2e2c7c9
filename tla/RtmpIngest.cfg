SPECIFICATION FairSpec
CONSTANTS
  Mod = 32
  VideoCap = 7
  AudioCap = 3
  Declared <- Lengths
  MaxBody = 12
  MaxMesgs = 2
INVARIANTS
  TypeOK
  WireAligned
  OutputExact
  BuffersReturned
  
PROPERTIES
  MessageHandled
  ImplementsFeed
