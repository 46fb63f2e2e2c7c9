----------------------------- MODULE MediaFeed -----------------------------
(***************************************************************************)
(* What an RTMP session feeds its publisher: one frame at a time, the      *)
(* first buffer of a frame before its continuations, each buffer taken     *)
(* before it is filled and given back before the next one is taken.        *)
(* RtmpIngest, which cuts RTMP messages into buffers, and Publisher, which *)
(* fans the buffers out, both implement it.                                *)
(***************************************************************************)
CONSTANTS
  FeedKind, \* the kinds of frames
  WholeKind \* those that are never continued: sequence headers

VARIABLES
  at,       \* between frames, a buffer in hand, between two buffers, over
  frame     \* kind of the current frame and whether a buffer of it was sent

NoFrame == [kind |-> "none", cont |-> FALSE]

Init == at = "idle" /\ frame = NoFrame

\* The first buffer of a frame ...
Open(k) == at = "idle" /\ at' = "held" /\ frame' = [kind |-> k, cont |-> FALSE]

\* ... and every later one.
More == at = "between" /\ at' = "held" /\ UNCHANGED frame

\* SendMessage and Release: the frame is complete or goes on.
Forward ==
  /\ at = "held"
  /\ \/ at' = "idle" /\ frame' = NoFrame
     \/ at' = "between" /\ frame' = [frame EXCEPT !.cont = TRUE] /\ frame.kind \notin WholeKind

\* Reading fails, or the stream ends between two frames.
End == at \in {"idle", "held"} /\ at' = "over" /\ frame' = NoFrame

Next == (\E k \in FeedKind : Open(k)) \/ More \/ Forward \/ End

Spec == Init /\ [][Next]_<<at, frame>>
=============================================================================
