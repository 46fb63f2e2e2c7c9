----------------------------- MODULE MainSocket -----------------------------
(***************************************************************************)
(* The main WebSocket (transport/ws_main): clients subscribe to topics and *)
(* are sent the events of the bus.  A client's onConn goroutine handles    *)
(* its requests under t.mu, one step each.  The goroutine readEvents takes *)
(* no lock: it finds the set of connections of the event's topic, ranges   *)
(* over the live map and hands the event to the readData goroutine of each *)
(* connection through an unbuffered channel.                               *)
(*                                                                         *)
(* Go's rule for a map that changes while it is ranged over: an entry      *)
(* removed before it is reached is not produced, one that is added may be. *)
(* When accesses overlap, the runtime may also detect it and kill the      *)
(* process.                                                                *)
(***************************************************************************)
EXTENDS EventBus

CONSTANTS
  Client,       \* connections of the main WebSocket
  NoClient,
  Asked,        \* the topics clients ask for in this instance
  MaxRequests   \* bound: requests the clients make, all together

ASSUME SocketAssumption ==
  /\ IsFiniteSet(Client) /\ NoClient \notin Client
  /\ Asked \subseteq Topic /\ MaxRequests \in Nat

VARIABLES
  topicConns,  \* Transport.topicConns; {}: the topic is not in the map
  connTopics,  \* Transport.connTopics
  conn,        \* each connection: open, found to be lost by a write, closed
  requests,    \* number of requests the clients have made
  since,       \* history: events published when a client subscribed to a topic
  rpc,         \* control state of readEvents
  rev,         \* its event
  rtodo,       \* connections its range has not produced yet
  rlive,       \* the map it ranges over is still the topic's
  rcl,         \* the connection it sends to
  wpc,         \* control state of each readData
  wev,         \* the event each readData writes
  told,        \* history: the last event written to a client, per topic
  fatal        \* "none", or what brought the process down

clientVars == <<topicConns, connTopics, conn, requests, since>>
readerVars == <<rpc, rev, rtodo, rlive, rcl>>
writerVars == <<wpc, wev, told>>
socketVars == <<clientVars, readerVars, writerVars, fatal>>

SocketInit ==
  /\ topicConns = [t \in Topic |-> {}]
  /\ connTopics = [c \in Client |-> {}]
  /\ conn = [c \in Client |-> "open"]
  /\ requests = 0
  /\ since = [c \in Client |-> [t \in Topic |-> 0]]
  /\ rpc = "read" /\ rev = NoEvent /\ rtodo = {} /\ rlive = FALSE
  /\ rcl = NoClient
  /\ wpc = [c \in Client |-> "idle"]
  /\ wev = [c \in Client |-> NoEvent]
  /\ told = [c \in Client |-> [t \in EventTopic |-> NoEvent]]
  /\ fatal = "none"
-----------------------------------------------------------------------------
(***************************************************************************)
(* onConn.  A connection that has asked for nothing is the same before and *)
(* after it is made, so that all of them are open from the start.          *)
(***************************************************************************)

\* readEvents is in the middle of ranging over topic t's connections.
Ranging(t) == rpc \in {"range", "send"} /\ rev.topic = t /\ rlive

\* A write to topicConns or to a set of connections may meet an access of
\* readEvents.
MayRace(race) == fatal' \in IF race THEN {fatal, "concurrent map access"} ELSE {fatal}

Request(c) ==
  /\ conn[c] # "closed" /\ requests < MaxRequests
  /\ requests' = requests + 1
  /\ UNCHANGED conn

SubscribeClient(c, t) ==
  /\ Request(c)
  /\ topicConns' = [topicConns EXCEPT ![t] = @ \cup {c}]
  /\ connTopics' = [connTopics EXCEPT ![c] = @ \cup {t}]
  /\ IF topicConns[t] = {} THEN Subscribe(t) ELSE UNCHANGED topicSubs
  /\ since' = IF c \in topicConns[t] THEN since
              ELSE [since EXCEPT ![c][t] = Published]
  /\ rtodo' \in IF Ranging(t) /\ c \notin topicConns[t] THEN {rtodo, rtodo \cup {c}}
                ELSE {rtodo}
  /\ MayRace(\/ rpc = "lookup" /\ topicConns[t] = {}
             \/ rpc = "range" /\ Ranging(t))
  /\ UNCHANGED <<rpc, rev, rlive, rcl, writerVars, queue, last>>

\* Removes c from the topics T; a topic nobody is left in is taken off the map
\* and given up at the bus.
LeaveKeepsBus(c, T) ==
  /\ topicConns' = [t \in Topic |-> IF t \in T THEN topicConns[t] \ {c} ELSE topicConns[t]]
  /\ connTopics' = [connTopics EXCEPT ![c] = @ \ T]
  /\ UNCHANGED <<topicSubs, rtodo, rlive>>
  /\ MayRace(FALSE)

LeaveAlways(c, T) ==
  /\ topicConns' = [t \in Topic |-> IF t \in T THEN topicConns[t] \ {c} ELSE topicConns[t]]
  /\ connTopics' = [connTopics EXCEPT ![c] = @ \ T]
  /\ Unsubscribe(T)
  /\ UNCHANGED <<rtodo, rlive>>
  /\ MayRace(FALSE)

Leave(c, T) ==
  LET empty == {t \in T : topicConns[t] \subseteq {c}}
      here  == \E t \in T : Ranging(t)
  IN
  /\ topicConns' = [t \in Topic |-> IF t \in T THEN topicConns[t] \ {c} ELSE topicConns[t]]
  /\ connTopics' = [connTopics EXCEPT ![c] = @ \ T]
  /\ Unsubscribe(empty)
  /\ rtodo' = IF here THEN rtodo \ {c} ELSE rtodo
  /\ rlive' = (rlive /\ ~\E t \in empty : Ranging(t))
  /\ MayRace(\/ rpc = "lookup" /\ empty # {}
             \/ rpc = "range" /\ here)

UnsubscribeClient(c, t) ==
  /\ Request(c)
  /\ Leave(c, {t})
  /\ since' = [since EXCEPT ![c][t] = 0]
  /\ UNCHANGED <<rpc, rev, rcl, writerVars, queue, last>>

\* The peer goes away and ws.Message.Receive fails: closeConn leaves every topic, closes the
\* connection, which ends a pending write, and the channel, which ends readData.
\* The history of the client ends here.
CloseConn(c) ==
  /\ conn[c] # "closed"
  /\ Leave(c, connTopics[c])
  /\ conn' = [conn EXCEPT ![c] = "closed"]
  /\ since' = [since EXCEPT ![c] = [t \in Topic |-> 0]]
  /\ wpc' = [wpc EXCEPT ![c] = "idle"] /\ wev' = [wev EXCEPT ![c] = NoEvent]
  /\ told' = [told EXCEPT ![c] = [t \in EventTopic |-> NoEvent]]
  /\ UNCHANGED <<requests, rpc, rev, rcl, queue, last>>
-----------------------------------------------------------------------------
(***************************************************************************)
(* readEvents.                                                             *)
(***************************************************************************)
ReadEvent ==
  /\ rpc = "read" /\ Read
  /\ rev' = Head(queue) /\ rpc' = "lookup"
  /\ UNCHANGED <<clientVars, rtodo, rlive, rcl, writerVars, fatal>>

LookupConns ==
  LET conns == topicConns[rev.topic] IN
  /\ rpc = "lookup"
  /\ rtodo' = conns /\ rlive' = (conns # {})
  /\ rpc' = IF conns = {} THEN "read" ELSE "range"
  /\ rev' = IF conns = {} THEN NoEvent ELSE rev
  /\ UNCHANGED <<clientVars, rcl, writerVars, busVars, fatal>>

NextConnAgain(c) ==
  /\ rpc = "range" /\ c \in rtodo
  /\ rcl' = c /\ rpc' = "send"
  /\ UNCHANGED <<clientVars, rev, rtodo, rlive, writerVars, busVars, fatal>>

NextConn(c) ==
  /\ rpc = "range" /\ c \in rtodo
  /\ rtodo' = rtodo \ {c} /\ rcl' = c /\ rpc' = "send"
  /\ UNCHANGED <<clientVars, rev, rlive, writerVars, busVars, fatal>>

RangeEnds ==
  /\ rpc = "range" /\ rtodo = {}
  /\ rpc' = "read" /\ rev' = NoEvent /\ rlive' = FALSE /\ rcl' = NoClient
  /\ UNCHANGED <<clientVars, rtodo, writerVars, busVars, fatal>>

\* The unbuffered channel hands the event over when readData is ready for it.
Send ==
  /\ rpc = "send" /\ conn[rcl] # "closed" /\ wpc[rcl] = "idle"
  /\ wpc' = [wpc EXCEPT ![rcl] = "write"]
  /\ wev' = [wev EXCEPT ![rcl] = rev]
  /\ rpc' = "range" /\ rcl' = NoClient
  /\ UNCHANGED <<clientVars, rev, rtodo, rlive, told, busVars, fatal>>

\* closeConn has closed it, before the send or while it waited.
SendPanics ==
  /\ rpc = "send" /\ conn[rcl] = "closed"
  /\ fatal' = "send on closed channel"
  /\ UNCHANGED <<clientVars, readerVars, writerVars, busVars>>
-----------------------------------------------------------------------------
(***************************************************************************)
(* readData: the write succeeds, or fails if the peer is gone; it returns  *)
(* to the channel in both cases.                                           *)
(***************************************************************************)
Written(c) ==
  /\ wpc[c] = "write" /\ conn[c] = "open"
  /\ told' = [told EXCEPT ![c][wev[c].topic] = wev[c]]
  /\ wpc' = [wpc EXCEPT ![c] = "idle"] /\ wev' = [wev EXCEPT ![c] = NoEvent]
  /\ UNCHANGED <<clientVars, readerVars, busVars, fatal>>

WriteFails(c) ==
  /\ wpc[c] = "write"
  /\ conn' = [conn EXCEPT ![c] = "lost"]
  /\ wpc' = [wpc EXCEPT ![c] = "idle"] /\ wev' = [wev EXCEPT ![c] = NoEvent]
  /\ UNCHANGED <<topicConns, connTopics, requests, since, readerVars, told,
                 busVars, fatal>>
-----------------------------------------------------------------------------
ReaderStep ==
  \/ ReadEvent \/ LookupConns \/ RangeEnds \/ Send \/ SendPanics
  \/ \E c \in Client : NextConn(c)

WriteStep(c) == Written(c) \/ WriteFails(c)

ClientStep(c) ==
  \/ CloseConn(c)
  \/ \E t \in Asked : SubscribeClient(c, t) \/ UnsubscribeClient(c, t)

SocketNext == ReaderStep \/ \E c \in Client : ClientStep(c) \/ WriteStep(c)
=============================================================================
