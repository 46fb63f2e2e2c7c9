--------------------------- MODULE Notifications ---------------------------
(***************************************************************************)
(* How a client of the main WebSocket learns how many people watch a       *)
(* stream: the stream service counts and publishes, the event bus queues,  *)
(* the main WebSocket delivers.                                            *)
(***************************************************************************)
EXTENDS StreamService, MainSocket

vars == <<busVars, streamVars, socketVars>>

Init == BusInit /\ StreamInit /\ SocketInit

\* Everybody has left and every event is delivered, or the process died.
Finished ==
  \/ fatal # "none"
  \/ /\ rpc = "read" /\ queue = <<>>
     /\ \A w \in Watcher : handler[w] = "left"
     /\ \A c \in Client : conn[c] = "closed" /\ wpc[c] = "idle"

Next ==
  \/ /\ fatal = "none"
     /\ \/ StreamNext /\ UNCHANGED socketVars
        \/ SocketNext /\ UNCHANGED streamVars
  \/ Finished /\ UNCHANGED vars

Spec == Init /\ [][Next]_vars

\* The scheduler runs readEvents whenever it can proceed.
FairSpec == Spec /\ WF_vars(fatal = "none" /\ ReaderStep /\ UNCHANGED streamVars)

\* Every conn.Write to c returns, with or without an error.
Responsive(c) == WF_vars(fatal = "none" /\ WriteStep(c) /\ UNCHANGED streamVars)
-----------------------------------------------------------------------------
TypeOK ==
  /\ topicSubs \subseteq Topic
  /\ queue \in Seq(Event) /\ Len(queue) <= BusCap
  /\ last \in [EventTopic -> [no : Nat, viewers : Nat, queued : BOOLEAN]]
  /\ viewers \in [User -> [Addr -> Nat]]
  /\ handler \in [Watcher -> {"new", "watching", "left"}]
  /\ topicConns \in [Topic -> SUBSET Client]
  /\ connTopics \in [Client -> SUBSET Topic]
  /\ conn \in [Client -> {"open", "lost", "closed"}]
  /\ requests \in Nat
  /\ since \in [Client -> [Topic -> Nat]]
  /\ rpc \in {"read", "lookup", "range", "send"}
  /\ rev \in Event \cup {NoEvent} /\ rtodo \subseteq Client /\ rlive \in BOOLEAN
  /\ rcl \in Client \cup {NoClient}
  /\ wpc \in [Client -> {"idle", "write"}]
  /\ wev \in [Client -> Event \cup {NoEvent}]
  /\ told \in [Client -> [EventTopic -> Event \cup {NoEvent}]]
  /\ fatal \in {"none", "concurrent map access", "send on closed channel"}

\* The three indexes of subscriptions agree after every request and every
\* closed connection: the two maps of the transport are inverse to each other,
\* and the bus is subscribed to exactly the topics that somebody asked for, so
\* nobody is forgotten and the bus never queues events for nobody.
IndexesAgree ==
  /\ \A t \in Topic, c \in Client : c \in topicConns[t] <=> t \in connTopics[c]
  /\ \A t \in Topic : t \in topicSubs <=> topicConns[t] # {}
  /\ \A c \in Client : conn[c] = "closed" => connTopics[c] = {}

\* The last number published for a streamer is the number of different
\* addresses that watch the stream now, however the handlers of several viewers
\* of one address come and go (AddViewer, RemoveViewer).
Audience(u) ==
  {AddrOf[w] : w \in {x \in Watcher : handler[x] = "watching" /\ StreamerOf[x] = u}}

CountCurrent ==
  \A u \in User : last[ViewersTopic(u)].viewers = Cardinality(Audience(u))

\* When everything has come to rest, a client that was subscribed to a
\* streamer's viewer count when it last changed has been told that number,
\* unless the queue was full at that moment: no interleaving of other clients'
\* requests with readEvents makes it miss the event.
AtRest(c) ==
  /\ rpc = "read" /\ queue = <<>> /\ wpc[c] = "idle"
  /\ conn[c] = "open" /\ fatal = "none"

ToldTheCount ==
  \A c \in Client, u \in User :
    LET t == ViewersTopic(u) IN
    AtRest(c) /\ c \in topicConns[t] /\ since[c][t] < last[t].no /\ last[t].queued
      => told[c][t].viewers = Cardinality(Audience(u)) /\ told[c][t].no = last[t].no

\* A client is never told an older event of a topic after a newer one, although
\* an event can be queued up to three times and clients come and go meanwhile.
ToldInOrder ==
  [][\A c \in Client, t \in EventTopic :
       conn'[c] # "closed" => told'[c][t].no >= told[c][t].no]_vars

\* readEvents returns to the queue after every event, if every connection takes
\* data or fails: it waits for a readData that is ready again or closed.
ReaderReturns ==
  (\A c \in Client : Responsive(c)) => (rpc # "read" ~> (rpc = "read" \/ fatal # "none"))
-----------------------------------------------------------------------------
\* README.md:12, the main WebSocket is there to handle client notifications,
\* and README.md:17, all the transports run within a single process: a client
\* that leaves must not end that process.  closeConn closes the channel that
\* readEvents, which takes no lock, may be about to send on or waiting at.
NotifierSurvives == fatal # "send on closed channel"
=============================================================================
