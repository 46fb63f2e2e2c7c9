SPECIFICATION Spec
CONSTANTS
  u1 = u1
  u2 = u2
  s1 = s1
  s2 = s2
  s3 = s3
  c1 = c1
  c2 = c2
  c3 = c3
  Session <- TwoSessions
  Consumer <- OneViewer
  Id <- OneUser
  SessionId <- SameSessions
  ViewedId <- SameViewer
  Nil = Nil
  Overlap = TRUE
CHECK_DEADLOCK FALSE
INVARIANTS
  NoPanic
