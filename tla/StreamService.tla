--------------------------- MODULE StreamService ---------------------------
(***************************************************************************)
(* The stream service (core/service/stream.go), which counts the viewers   *)
(* of a stream by their addresses, and those who call it: the handlers of  *)
(* media WebSockets when their viewer has been added to a publisher and    *)
(* when it leaves, and RTMP sessions when they start.  AddViewer and       *)
(* RemoveViewer hold the service's mutex until they return: one step each. *)
(***************************************************************************)
EXTENDS EventBus

CONSTANTS
  Watcher,      \* media WebSocket connections
  Addr,         \* client addresses, as middleware.RealIP leaves them
  StreamerOf,   \* the user ID in the URL of each watcher
  AddrOf,       \* the address each watcher comes from
  MaxStarts     \* bound: streams start only among so many first events

ASSUME StreamAssumption ==
  /\ IsFiniteSet(Watcher)
  /\ StreamerOf \in [Watcher -> User] /\ AddrOf \in [Watcher -> Addr]
  /\ MaxStarts \in Nat

VARIABLES
  viewers,   \* streamService.viewers; 0: the address is not in the map
  handler    \* each watcher's handler: before AddViewer, watching, left

streamVars == <<viewers, handler>>

StreamInit ==
  /\ viewers = [u \in User |-> [a \in Addr |-> 0]]
  /\ handler = [w \in Watcher |-> "new"]

Counted(count) == {a \in Addr : count[a] > 0}

StartStream(u) ==
  /\ Published < MaxStarts
  /\ Publish(StartedTopic(u), 0)
  /\ UNCHANGED <<viewers, handler>>

\* len(viewers) before the entry is made.
AddViewerEarly(w) ==
  LET u == StreamerOf[w] a == AddrOf[w] IN
  /\ handler[w] = "new"
  /\ handler' = [handler EXCEPT ![w] = "watching"]
  /\ viewers' = [viewers EXCEPT ![u][a] = @ + 1]
  /\ Publish(ViewersTopic(u), Cardinality(Counted(viewers[u])))

AddViewer(w) ==
  LET u == StreamerOf[w] a == AddrOf[w] IN
  /\ handler[w] = "new"
  /\ handler' = [handler EXCEPT ![w] = "watching"]
  /\ viewers' = [viewers EXCEPT ![u][a] = @ + 1]
  /\ Publish(ViewersTopic(u), Cardinality(Counted(viewers'[u])))

\* A number is published only when the last viewer of an address leaves.
RemoveViewer(w) ==
  LET u == StreamerOf[w] a == AddrOf[w] IN
  /\ handler[w] = "watching"
  /\ handler' = [handler EXCEPT ![w] = "left"]
  /\ viewers' = [viewers EXCEPT ![u][a] = @ - 1]
  /\ IF viewers[u][a] > 1 THEN UNCHANGED busVars
     ELSE Publish(ViewersTopic(u), Cardinality(Counted(viewers'[u])))

StreamNext ==
  \/ \E u \in User : StartStream(u)
  \/ \E w \in Watcher : AddViewer(w) \/ RemoveViewer(w)
=============================================================================
