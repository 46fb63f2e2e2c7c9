SPECIFICATION Spec
CONSTANTS
  u1 = u1
  u2 = u2
  s1 = s1
  s2 = s2
  s3 = s3
  c1 = c1
  c2 = c2
  c3 = c3
  Session <- Sessions
  Consumer <- Viewers
  Id <- TwoUsers
  SessionId <- MixedSessions
  ViewedId <- MixedViewers
  Nil = Nil
  Overlap = FALSE
CHECK_DEADLOCK FALSE
INVARIANTS
  TypeOK
  
  NoPanic
  
