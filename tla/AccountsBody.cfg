SPECIFICATION Spec
CONSTANTS
  MaxRequests = 2
  Name <- Names
  Password = {"p"}
  Existing <- OneOld
  None = None
  Origins <- TwoOrigins
INVARIANTS
  InvalidBodyAnswered
