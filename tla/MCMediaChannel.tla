--------------------------- MODULE MCMediaChannel ---------------------------
(***************************************************************************)
(* MediaChannel on small instances: sessions and viewers of one user, and  *)
(* of two.                                                                 *)
(***************************************************************************)
EXTENDS MediaChannel, TLC

CONSTANTS u1, u2, s1, s2, s3, c1, c2, c3

OneUser    == {u1}
TwoUsers   == {u1, u2}
Sessions   == {s1, s2, s3}
Viewers    == {c1, c2, c3}
TwoSessions == {s1, s2}
OneViewer  == {c1}

\* s1 and s2 are two connections of the same user, s3 is somebody else's.
MixedSessions == s1 :> u1 @@ s2 :> u1 @@ s3 :> u2
MixedViewers  == c1 :> u1 @@ c2 :> u1 @@ c3 :> u2
SameSessions  == [s \in TwoSessions |-> u1]
SameViewer    == [c \in OneViewer |-> u1]
=============================================================================
