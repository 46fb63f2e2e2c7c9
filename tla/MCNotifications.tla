-------------------------- MODULE MCNotifications --------------------------
(***************************************************************************)
(* Notifications on small instances: one streamer, whose viewers share an  *)
(* address.                                                                *)
(***************************************************************************)
EXTENDS Notifications

CONSTANTS u1, a1

OneStreamer == [w \in Watcher |-> u1]
SameAddress == [w \in Watcher |-> a1]
TwoSections == {StreamTopic, ViewersTopic(u1)}
=============================================================================
