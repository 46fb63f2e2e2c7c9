------------------------ MODULE NotificationsProofs ------------------------
(***************************************************************************)
(* Proofs about Notifications, for any number of clients, topics, viewers  *)
(* and streamers.                                                          *)
(***************************************************************************)
EXTENDS Notifications, FiniteSetTheorems, TLAPS

(***************************************************************************)
(* The subscriptions.  readData of a closed connection has returned, so    *)
(* that no late failure of a write makes the connection look alive again.  *)
(***************************************************************************)
SocketTypes ==
  /\ topicConns \in [Topic -> SUBSET Client]
  /\ connTopics \in [Client -> SUBSET Topic]
  /\ topicSubs \subseteq Topic
  /\ conn \in [Client -> {"open", "lost", "closed"}]
  /\ wpc \in [Client -> {"idle", "write"}]

ClosedIdle == \A c \in Client : conn[c] = "closed" => wpc[c] = "idle"

IndexInv == SocketTypes /\ IndexesAgree /\ ClosedIdle

\* Only requests and closing connections change the indexes.
indexVars == <<topicConns, connTopics, topicSubs, conn, wpc>>

LEMMA PublishKeepsTopics ==
  ASSUME NEW t, NEW n, Publish(t, n) PROVE UNCHANGED topicSubs
  BY DEF Publish

LEMMA StreamApart == ASSUME StreamNext PROVE UNCHANGED topicSubs
<1>1. ASSUME NEW u \in User, StartStream(u) PROVE UNCHANGED topicSubs
  BY <1>1, PublishKeepsTopics DEF StartStream
<1>2. ASSUME NEW w \in Watcher, AddViewer(w) \/ RemoveViewer(w)
      PROVE  UNCHANGED topicSubs
  BY <1>2, PublishKeepsTopics DEF AddViewer, RemoveViewer, busVars
<1> QED
  BY <1>1, <1>2 DEF StreamNext

LEMMA ReaderApart ==
  ASSUME ReaderStep
  PROVE  UNCHANGED <<topicConns, connTopics, topicSubs, conn>>
  BY DEF ReaderStep, ReadEvent, LookupConns, RangeEnds, Send, SendPanics, NextConn,
         Read, clientVars, busVars

\* Leaving some of one's topics keeps the indexes in agreement.
LEMMA LeaveKeepsIndexes ==
  ASSUME IndexInv, NEW c \in Client, NEW T \in SUBSET Topic, Leave(c, T)
  PROVE  /\ topicConns' \in [Topic -> SUBSET Client]
         /\ connTopics' \in [Client -> SUBSET Topic]
         /\ topicSubs' \subseteq Topic
         /\ \A t \in Topic, d \in Client : d \in topicConns'[t] <=> t \in connTopics'[d]
         /\ \A t \in Topic : t \in topicSubs' <=> topicConns'[t] # {}
         /\ connTopics'[c] = connTopics[c] \ T
         /\ \A d \in Client \ {c} : connTopics'[d] = connTopics[d]
<1> DEFINE empty == {t \in T : topicConns[t] \subseteq {c}}
<1>1. /\ topicConns' = [t \in Topic |-> IF t \in T THEN topicConns[t] \ {c}
                                        ELSE topicConns[t]]
      /\ connTopics' = [connTopics EXCEPT ![c] = @ \ T]
      /\ topicSubs' = topicSubs \ empty
  BY DEF Leave, Unsubscribe
<1>2. /\ topicConns \in [Topic -> SUBSET Client]
      /\ connTopics \in [Client -> SUBSET Topic] /\ topicSubs \subseteq Topic
      /\ \A t \in Topic, d \in Client : d \in topicConns[t] <=> t \in connTopics[d]
      /\ \A t \in Topic : t \in topicSubs <=> topicConns[t] # {}
  BY DEF IndexInv, SocketTypes, IndexesAgree
<1>3. \A t \in Topic : topicConns'[t] = IF t \in T THEN topicConns[t] \ {c}
                                        ELSE topicConns[t]
  BY <1>1
<1>4. /\ connTopics'[c] = connTopics[c] \ T
      /\ \A d \in Client \ {c} : connTopics'[d] = connTopics[d]
  BY <1>1, <1>2
<1>5. /\ topicConns' \in [Topic -> SUBSET Client]
      /\ connTopics' \in [Client -> SUBSET Topic]
      /\ topicSubs' \subseteq Topic
  BY <1>1, <1>2
<1>6. ASSUME NEW t \in Topic, NEW d \in Client
      PROVE  d \in topicConns'[t] <=> t \in connTopics'[d]
  BY <1>2, <1>3, <1>4
<1>7. ASSUME NEW t \in Topic PROVE t \in topicSubs' <=> topicConns'[t] # {}
  <2>1. CASE t \in T
    BY <1>1, <1>2, <1>3, <2>1
  <2>2. CASE t \notin T
    BY <1>1, <1>2, <1>3, <2>2
  <2> QED
    BY <2>1, <2>2
<1> QED
  BY <1>4, <1>5, <1>6, <1>7

LEMMA IndexStep == IndexInv /\ [Next]_vars => IndexInv'
<1> SUFFICES ASSUME IndexInv, [Next]_vars PROVE IndexInv'
  OBVIOUS
<1>1. CASE UNCHANGED indexVars
  BY <1>1 DEF IndexInv, SocketTypes, IndexesAgree, ClosedIdle, indexVars
<1>2. ASSUME NEW c \in Client, NEW t \in Asked, SubscribeClient(c, t)
      PROVE  IndexInv'
  <2>1. t \in Topic /\ conn[c] # "closed"
    BY <1>2, SocketAssumption DEF SubscribeClient, Request
  <2>2. /\ topicConns' = [topicConns EXCEPT ![t] = @ \cup {c}]
        /\ connTopics' = [connTopics EXCEPT ![c] = @ \cup {t}]
        /\ topicSubs' = IF topicConns[t] = {} THEN topicSubs \cup {t} ELSE topicSubs
        /\ UNCHANGED <<conn, wpc>>
    BY <1>2 DEF SubscribeClient, Request, Subscribe, writerVars
  <2> QED
    BY <2>1, <2>2 DEF IndexInv, SocketTypes, IndexesAgree, ClosedIdle
<1>3. ASSUME NEW c \in Client, NEW t \in Asked, UnsubscribeClient(c, t)
      PROVE  IndexInv'
  <2>1. {t} \in SUBSET Topic
    BY SocketAssumption
  <2>2. Leave(c, {t}) /\ UNCHANGED <<conn, wpc>>
    BY <1>3 DEF UnsubscribeClient, Request, writerVars
  <2>3. \A d \in Client : conn[d] = "closed" => connTopics'[d] = {}
    BY <2>1, <2>2, LeaveKeepsIndexes DEF IndexInv, IndexesAgree
  <2> QED
    BY <2>1, <2>2, <2>3, LeaveKeepsIndexes
       DEF IndexInv, SocketTypes, IndexesAgree, ClosedIdle
<1>4. ASSUME NEW c \in Client, CloseConn(c) PROVE IndexInv'
  <2>1. connTopics[c] \in SUBSET Topic
    BY DEF IndexInv, SocketTypes
  <2>2. /\ Leave(c, connTopics[c])
        /\ conn' = [conn EXCEPT ![c] = "closed"] /\ wpc' = [wpc EXCEPT ![c] = "idle"]
    BY <1>4 DEF CloseConn
  <2>3. connTopics'[c] = {}
    BY <2>1, <2>2, LeaveKeepsIndexes
  <2>4. ASSUME NEW d \in Client, conn'[d] = "closed"
        PROVE  connTopics'[d] = {} /\ wpc'[d] = "idle"
    <3>1. CASE d = c
      BY <2>2, <2>3, <3>1 DEF IndexInv, SocketTypes
    <3>2. CASE d # c
      <4>1. connTopics'[d] = connTopics[d]
        BY <2>1, <2>2, <3>2, LeaveKeepsIndexes
      <4>2. conn[d] = "closed" /\ wpc'[d] = wpc[d]
        BY <2>2, <2>4, <3>2 DEF IndexInv, SocketTypes
      <4> QED
        BY <4>1, <4>2 DEF IndexInv, IndexesAgree, ClosedIdle
    <3> QED
      BY <3>1, <3>2
  <2>5. conn' \in [Client -> {"open", "lost", "closed"}] /\ wpc' \in [Client -> {"idle", "write"}]
    BY <2>2 DEF IndexInv, SocketTypes
  <2> QED
    BY <2>1, <2>2, <2>4, <2>5, LeaveKeepsIndexes
       DEF IndexInv, SocketTypes, IndexesAgree, ClosedIdle
<1>5. ASSUME NEW c \in Client, WriteStep(c) PROVE IndexInv'
  <2>1. /\ wpc[c] = "write" /\ wpc' = [wpc EXCEPT ![c] = "idle"]
        /\ conn' \in {conn, [conn EXCEPT ![c] = "lost"]}
        /\ UNCHANGED <<topicConns, connTopics, topicSubs>>
    BY <1>5 DEF WriteStep, Written, WriteFails, clientVars, busVars
  <2>2. conn[c] # "closed"
    BY <2>1 DEF IndexInv, ClosedIdle
  <2> QED
    BY <2>1, <2>2 DEF IndexInv, SocketTypes, IndexesAgree, ClosedIdle
<1>6. CASE ReaderStep
  <2>1. UNCHANGED <<topicConns, connTopics, topicSubs, conn>>
    BY <1>6, ReaderApart
  <2>2. wpc' = wpc \/ (wpc' = [wpc EXCEPT ![rcl] = "write"] /\ conn[rcl] # "closed")
    BY <1>6 DEF ReaderStep, ReadEvent, LookupConns, RangeEnds, Send, SendPanics,
                NextConn, writerVars
  <2> QED
    BY <2>1, <2>2 DEF IndexInv, SocketTypes, IndexesAgree, ClosedIdle
<1>7. CASE StreamNext /\ UNCHANGED socketVars
  <2>1. UNCHANGED indexVars
    BY <1>7, StreamApart DEF socketVars, clientVars, writerVars, indexVars
  <2> QED
    BY <1>1, <2>1
<1>8. CASE UNCHANGED vars
  BY <1>1, <1>8 DEF vars, socketVars, clientVars, writerVars, busVars, indexVars
<1> QED
  BY <1>2, <1>3, <1>4, <1>5, <1>6, <1>7, <1>8 DEF Next, SocketNext, ClientStep

\* The maps of the transport and the bus agree on who is subscribed to what,
\* whatever the clients ask for, leave and lose, and a closed connection is in
\* none of them.
THEOREM IndexesTheorem == Spec => []IndexesAgree
<1>1. Init => IndexInv
  BY DEF Init, BusInit, SocketInit, IndexInv, SocketTypes, IndexesAgree, ClosedIdle
<1> QED
  BY <1>1, IndexStep, PTL DEF Spec, IndexInv
-----------------------------------------------------------------------------
(***************************************************************************)
(* The viewer counts.  The service's number for an address is the number   *)
(* of handlers that watch from it, and the last number published is that   *)
(* of the addresses with a number above zero.                              *)
(***************************************************************************)
At(u, a) ==
  {w \in Watcher : handler[w] = "watching" /\ StreamerOf[w] = u /\ AddrOf[w] = a}

CountTypes ==
  /\ viewers \in [User -> [Addr -> Nat]]
  /\ handler \in [Watcher -> {"new", "watching", "left"}]
  /\ last = [t \in EventTopic |-> last[t]]

PerAddress == \A u \in User, a \in Addr : viewers[u][a] = Cardinality(At(u, a))

PublishedCount ==
  \A u \in User : last[ViewersTopic(u)].viewers = Cardinality(Counted(viewers[u]))

CountInv == CountTypes /\ PerAddress /\ PublishedCount

LEMMA AtFinite ==
  ASSUME NEW u, NEW a PROVE IsFiniteSet(At(u, a)) /\ Cardinality(At(u, a)) \in Nat
  BY StreamAssumption, FS_Subset, FS_CardinalityType DEF At

\* The addresses with a number are those somebody watches from.
LEMMA CountedIsAudience ==
  ASSUME CountInv, NEW u \in User
  PROVE  Counted(viewers[u]) = Audience(u)
<1>1. ASSUME NEW a \in Addr PROVE viewers[u][a] > 0 <=> At(u, a) # {}
  <2>1. viewers[u][a] = Cardinality(At(u, a)) /\ Cardinality(At(u, a)) \in Nat
    BY AtFinite DEF CountInv, PerAddress
  <2>2. Cardinality(At(u, a)) = 0 <=> At(u, a) = {}
    BY AtFinite, FS_EmptySet
  <2> QED
    BY <2>1, <2>2
<1>2. Audience(u) = {a \in Addr : At(u, a) # {}}
  BY StreamAssumption DEF Audience, At
<1> QED
  BY <1>1, <1>2 DEF Counted

LEMMA TopicsApart ==
  ASSUME NEW u \in User, NEW v \in User
  PROVE  /\ ViewersTopic(u) \in EventTopic /\ StartedTopic(u) \in EventTopic
         /\ StartedTopic(u) # ViewersTopic(v)
         /\ ViewersTopic(u) = ViewersTopic(v) => u = v
  BY DEF ViewersTopic, StartedTopic, EventTopic

LEMMA PublishSets ==
  ASSUME CountTypes, NEW t \in EventTopic, NEW n, Publish(t, n)
  PROVE  /\ last' = [s \in EventTopic |-> last'[s]]
         /\ last'[t].viewers = n
         /\ \A s \in EventTopic \ {t} : last'[s] = last[s]
<1>1. PICK r : r.viewers = n /\ last' = [last EXCEPT ![t] = r]
  BY DEF Publish
<1> QED
  BY <1>1 DEF CountTypes

LEMMA CountStep == CountInv /\ [Next]_vars => CountInv'
<1> SUFFICES ASSUME CountInv, [Next]_vars PROVE CountInv'
  OBVIOUS
<1> USE DEF CountInv
<1>1. CASE UNCHANGED <<viewers, handler, last>>
  BY <1>1 DEF CountTypes, PerAddress, PublishedCount, At, Counted
<1>2. ASSUME NEW v \in User, StartStream(v) PROVE CountInv'
  <2>1. Publish(StartedTopic(v), 0) /\ UNCHANGED <<viewers, handler>>
    BY <1>2 DEF StartStream
  <2>2. CountTypes' /\ PerAddress'
    BY <2>1, TopicsApart, PublishSets DEF CountTypes, PerAddress, At
  <2>3. \A u \in User : last'[ViewersTopic(u)] = last[ViewersTopic(u)]
    BY <2>1, TopicsApart, PublishSets
  <2>4. PublishedCount'
    BY <2>1, <2>3 DEF PublishedCount, Counted
  <2> QED
    BY <2>2, <2>4
<1>3. ASSUME NEW w \in Watcher, AddViewer(w) PROVE CountInv'
  <2> DEFINE u == StreamerOf[w]
             a == AddrOf[w]
  <2>1. u \in User /\ a \in Addr
    BY StreamAssumption
  <2>2. /\ handler[w] = "new" /\ handler' = [handler EXCEPT ![w] = "watching"]
        /\ viewers' = [viewers EXCEPT ![u][a] = @ + 1]
        /\ Publish(ViewersTopic(u), Cardinality(Counted(viewers'[u])))
    BY <1>3 DEF AddViewer
  <2>3. CountTypes'
    BY <2>1, <2>2, TopicsApart, PublishSets DEF CountTypes
  <2>4. ASSUME NEW v \in User, NEW b \in Addr
        PROVE  viewers'[v][b] = Cardinality(At(v, b)')
    <3>1. CASE v = u /\ b = a
      <4>1. At(v, b)' = At(v, b) \cup {w} /\ w \notin At(v, b)
        BY <2>2, <3>1 DEF At, CountTypes
      <4>2. Cardinality(At(v, b)') = Cardinality(At(v, b)) + 1
        BY <4>1, AtFinite, FS_AddElement
      <4>3. viewers'[v][b] = viewers[v][b] + 1
        BY <2>1, <2>2, <3>1 DEF CountTypes
      <4> QED
        BY <4>2, <4>3 DEF PerAddress
    <3>2. CASE ~(v = u /\ b = a)
      <4>1. At(v, b)' = At(v, b)
        BY <2>2, <3>2 DEF At, CountTypes
      <4>2. viewers'[v][b] = viewers[v][b]
        BY <2>1, <2>2, <3>2 DEF CountTypes
      <4> QED
        BY <4>1, <4>2 DEF PerAddress
    <3> QED
      BY <3>1, <3>2
  <2>5. ASSUME NEW v \in User
        PROVE  last'[ViewersTopic(v)].viewers = Cardinality(Counted(viewers'[v]))
    <3>1. CASE v = u
      BY <2>1, <2>2, <3>1, TopicsApart, PublishSets
    <3>2. CASE v # u
      <4>1. last'[ViewersTopic(v)] = last[ViewersTopic(v)]
        BY <2>1, <2>2, <3>2, TopicsApart, PublishSets
      <4>2. viewers'[v] = viewers[v]
        BY <2>1, <2>2, <3>2 DEF CountTypes
      <4> QED
        BY <4>1, <4>2 DEF PublishedCount
    <3> QED
      BY <3>1, <3>2
  <2> QED
    BY <2>3, <2>4, <2>5 DEF PerAddress, PublishedCount, Counted
<1>4. ASSUME NEW w \in Watcher, RemoveViewer(w) PROVE CountInv'
  <2> DEFINE u == StreamerOf[w]
             a == AddrOf[w]
  <2>1. u \in User /\ a \in Addr
    BY StreamAssumption
  <2>2. /\ handler[w] = "watching" /\ handler' = [handler EXCEPT ![w] = "left"]
        /\ viewers' = [viewers EXCEPT ![u][a] = @ - 1]
        /\ IF viewers[u][a] > 1 THEN UNCHANGED busVars
           ELSE Publish(ViewersTopic(u), Cardinality(Counted(viewers'[u])))
    BY <1>4 DEF RemoveViewer
  <2>3. w \in At(u, a) /\ viewers[u][a] = Cardinality(At(u, a))
    BY <2>1, <2>2 DEF At, PerAddress
  <2>4. Cardinality(At(u, a) \ {w}) = viewers[u][a] - 1
    BY <2>3, AtFinite, FS_RemoveElement
  <2>5. Cardinality(At(u, a) \ {w}) \in Nat
    BY AtFinite, FS_RemoveElement, FS_CardinalityType
  <2>6. viewers[u][a] - 1 \in Nat
    BY <2>4, <2>5
  <2>7. last' = last \/ Publish(ViewersTopic(u), Cardinality(Counted(viewers'[u])))
    BY <2>2 DEF busVars
  <2>8. last' = [t \in EventTopic |-> last'[t]]
    BY <2>1, <2>7, TopicsApart, PublishSets DEF CountTypes
  <2>9. CountTypes'
    BY <2>1, <2>2, <2>6, <2>8 DEF CountTypes
  <2>10. ASSUME NEW v \in User, NEW b \in Addr
         PROVE  viewers'[v][b] = Cardinality(At(v, b)')
    <3>1. CASE v = u /\ b = a
      <4>1. At(v, b)' = At(u, a) \ {w}
        BY <2>2, <3>1 DEF At, CountTypes
      <4>2. viewers'[v][b] = viewers[u][a] - 1
        BY <2>1, <2>2, <3>1 DEF CountTypes
      <4> QED
        BY <2>4, <4>1, <4>2
    <3>2. CASE ~(v = u /\ b = a)
      <4>1. At(v, b)' = At(v, b)
        BY <2>2, <3>2 DEF At, CountTypes
      <4>2. viewers'[v][b] = viewers[v][b]
        BY <2>1, <2>2, <3>2 DEF CountTypes
      <4> QED
        BY <4>1, <4>2 DEF PerAddress
    <3> QED
      BY <3>1, <3>2
  <2>11. ASSUME NEW v \in User
         PROVE  last'[ViewersTopic(v)].viewers = Cardinality(Counted(viewers'[v]))
    <3>1. CASE v # u
      <4>1. last'[ViewersTopic(v)] = last[ViewersTopic(v)]
        BY <2>1, <2>7, <3>1, TopicsApart, PublishSets
      <4>2. viewers'[v] = viewers[v]
        BY <2>1, <2>2, <3>1 DEF CountTypes
      <4> QED
        BY <4>1, <4>2 DEF PublishedCount
    <3>2. CASE v = u /\ viewers[u][a] > 1
      <4>1. viewers' = [viewers EXCEPT ![u][a] = viewers[u][a] - 1]
        BY <2>2
      <4>2. ASSUME NEW b \in Addr PROVE viewers'[u][b] > 0 <=> viewers[u][b] > 0
        BY <2>1, <3>2, <4>1 DEF CountTypes
      <4>3. Counted(viewers'[u]) = Counted(viewers[u])
        BY <4>2 DEF Counted
      <4> QED
        BY <2>2, <3>2, <4>3 DEF PublishedCount, busVars
    <3>3. CASE v = u /\ ~(viewers[u][a] > 1)
      BY <2>1, <2>2, <3>3, TopicsApart, PublishSets
    <3> QED
      BY <3>1, <3>2, <3>3
  <2> QED
    BY <2>9, <2>10, <2>11 DEF PerAddress, PublishedCount, Counted
<1>5. CASE SocketNext /\ UNCHANGED streamVars
  <2>1. UNCHANGED last
    BY <1>5 DEF SocketNext, ReaderStep, ReadEvent, LookupConns, RangeEnds, Send,
                SendPanics, NextConn, Read, busVars, ClientStep, SubscribeClient,
                UnsubscribeClient, CloseConn, WriteStep, Written, WriteFails
  <2> QED
    BY <1>1, <1>5, <2>1 DEF streamVars
<1>6. CASE UNCHANGED vars
  BY <1>1, <1>6 DEF vars, busVars, streamVars
<1> QED
  BY <1>2, <1>3, <1>4, <1>5, <1>6 DEF Next, StreamNext

LEMMA CountInitially == Init => CountInv
<1> SUFFICES ASSUME Init PROVE CountInv
  OBVIOUS
<1>1. /\ viewers = [u \in User |-> [a \in Addr |-> 0]]
      /\ handler = [w \in Watcher |-> "new"]
      /\ last = [t \in EventTopic |-> [no |-> 0, viewers |-> 0, queued |-> FALSE]]
  BY DEF Init, StreamInit, BusInit
<1>2. \A u \in User, a \in Addr : At(u, a) = {}
  BY <1>1 DEF At
<1>3. \A u \in User : Counted(viewers[u]) = {}
  BY <1>1 DEF Counted
<1>4. \A u \in User : last[ViewersTopic(u)].viewers = 0
  BY <1>1, TopicsApart
<1> QED
  BY <1>1, <1>2, <1>3, <1>4, FS_EmptySet
     DEF CountInv, CountTypes, PerAddress, PublishedCount

\* The last number published for a streamer is that of the addresses watching,
\* for any number of viewers, addresses and streamers and any order in which
\* their handlers call AddViewer and RemoveViewer.
THEOREM CountTheorem == Spec => []CountCurrent
<1>1. CountInv => CountCurrent
  BY CountedIsAudience DEF CountInv, PublishedCount, CountCurrent
<1> QED
  BY CountInitially, CountStep, <1>1, PTL DEF Spec
-----------------------------------------------------------------------------
(***************************************************************************)
(* TypeOK.  Events are numbered upwards, and what readEvents and readData  *)
(* have in hand is an event.                                               *)
(***************************************************************************)
BusOK ==
  /\ topicSubs \subseteq Topic
  /\ queue \in Seq(Event) /\ Len(queue) <= BusCap
  /\ last \in [EventTopic -> [no : Nat, viewers : Nat, queued : BOOLEAN]]
  /\ EventTopic # {} => \E t \in EventTopic : \A s \in EventTopic : last[s].no <= last[t].no

ReaderOK ==
  /\ rpc \in {"read", "lookup", "range", "send"}
  /\ rev \in Event \cup {NoEvent} /\ rtodo \subseteq Client /\ rlive \in BOOLEAN
  /\ rcl \in Client \cup {NoClient}
  /\ rpc # "read" => rev \in Event
  /\ rpc = "send" => rcl \in Client

WritersOK ==
  /\ wpc \in [Client -> {"idle", "write"}]
  /\ wev \in [Client -> Event \cup {NoEvent}]
  /\ told \in [Client -> [EventTopic -> Event \cup {NoEvent}]]
  /\ \A c \in Client : wpc[c] = "write" => wev[c] \in Event

ClientsOK ==
  /\ topicConns \in [Topic -> SUBSET Client]
  /\ connTopics \in [Client -> SUBSET Topic]
  /\ conn \in [Client -> {"open", "lost", "closed"}]
  /\ requests \in Nat
  /\ since \in [Client -> [Topic -> Nat]]
  /\ fatal \in {"none", "concurrent map access", "send on closed channel"}

CountsFinite == \A u \in User : Cardinality(Counted(viewers[u])) \in Nat

TypeInv == BusOK /\ ReaderOK /\ WritersOK /\ ClientsOK

LEMMA TopicSections ==
  ASSUME NEW t \in EventTopic
  PROVE  t \in Topic /\ t \in Sections(t) /\ IsFiniteSet(Sections(t))
<1>1. Len(t) = 3 /\ SubSeq(t, 1, 3) = t
  BY DEF EventTopic, StartedTopic, ViewersTopic
<1>2. Sections(t) = {SubSeq(t, 1, n) : n \in 1..3}
  BY <1>1 DEF Sections
<1>3. t \in Sections(t)
  BY <1>1, <1>2
<1>4. Sections(t) = {SubSeq(t, 1, 1)} \cup {SubSeq(t, 1, 2)} \cup {SubSeq(t, 1, 3)}
  BY <1>2
<1>5. /\ IsFiniteSet({SubSeq(t, 1, 1)}) /\ IsFiniteSet({SubSeq(t, 1, 2)})
      /\ IsFiniteSet({SubSeq(t, 1, 3)})
  BY FS_Singleton
<1>6. IsFiniteSet(Sections(t))
  BY <1>4, <1>5, FS_Union
<1> QED
  BY <1>3, <1>6 DEF Topic

LEMMA SectionCount ==
  ASSUME NEW t \in EventTopic, NEW S
  PROVE  /\ Cardinality(Sections(t) \cap S) \in Nat
         /\ t \in S => Cardinality(Sections(t) \cap S) > 0
<1>1. IsFiniteSet(Sections(t) \cap S)
  BY TopicSections, FS_Intersection
<1>2. Cardinality(Sections(t) \cap S) \in Nat
      /\ (Cardinality(Sections(t) \cap S) = 0 <=> Sections(t) \cap S = {})
  BY <1>1, FS_CardinalityType, FS_EmptySet
<1> QED
  BY <1>2, TopicSections

LEMMA PublishedMax ==
  ASSUME BusOK, EventTopic # {}
  PROVE  /\ Published \in Nat
         /\ \A t \in EventTopic : last[t].no <= Published
<1>1. PICK t \in EventTopic : \A s \in EventTopic : last[s].no <= last[t].no
  BY DEF BusOK
<1> DEFINE nos == {last[s].no : s \in EventTopic}
<1>2. last[t].no \in nos /\ \A m \in nos : m <= last[t].no
  BY <1>1
<1>3. Published \in nos /\ \A m \in nos : m <= Published
  BY <1>2 DEF Published
<1>4. \A s \in EventTopic : last[s].no \in Nat
  BY DEF BusOK
<1> QED
  BY <1>3, <1>4

\* The event a call of Publish makes, and what becomes of the queue.
NewEvent(t, n) == [topic |-> t, viewers |-> n, no |-> Published + 1]

LEMMA PublishEffect ==
  ASSUME BusOK, NEW t \in EventTopic, NEW n \in Nat, Publish(t, n)
  PROVE  /\ NewEvent(t, n) \in Event /\ UNCHANGED topicSubs
         /\ \E k \in Nat :
              /\ queue' = queue \o [i \in 1..k |-> NewEvent(t, n)]
              /\ Len(queue) + k <= BusCap
              /\ last'[t].queued /\ t \in topicSubs => k > 0
         /\ last'[t].no = Published + 1 /\ last'[t].viewers = n
         /\ last'[t].queued \in BOOLEAN
         /\ \A s \in EventTopic \ {t} : last'[s] = last[s]
         /\ DOMAIN last' = EventTopic /\ last' = [s \in EventTopic |-> last'[s]]
<1> DEFINE m == Cardinality(Sections(t) \cap topicSubs)
           room == BusCap - Len(queue)
           k == IF m < room THEN m ELSE room
<1>1. Published \in Nat
  BY PublishedMax
<1>2. m \in Nat /\ (t \in topicSubs => m > 0)
  BY SectionCount
<1>3. Len(queue) \in Nat /\ room \in Nat
  BY BusAssumption DEF BusOK
<1>4. k \in Nat /\ Len(queue) + k <= BusCap /\ (room > 0 /\ t \in topicSubs => k > 0)
  BY <1>2, <1>3, BusAssumption
<1>a. PICK q \in BOOLEAN : q = (room > 0)
  <2>1. (room > 0) \in BOOLEAN
    OBVIOUS
  <2> QED
    BY <2>1, Zenon
<1>5. /\ queue' = queue \o [i \in 1..k |-> NewEvent(t, n)] /\ UNCHANGED topicSubs
      /\ last' = [last EXCEPT ![t] = [no |-> Published + 1, viewers |-> n, queued |-> q]]
  BY <1>a DEF Publish, NewEvent
<1> HIDE DEF k
<1>6. last'[t] = [no |-> Published + 1, viewers |-> n, queued |-> q]
      /\ (\A s \in EventTopic \ {t} : last'[s] = last[s])
      /\ DOMAIN last' = EventTopic /\ last' = [s \in EventTopic |-> last'[s]]
  BY <1>5 DEF BusOK
<1>7. last'[t].no = Published + 1 /\ last'[t].viewers = n
  BY <1>6
<1>8. last'[t].queued \in BOOLEAN /\ (last'[t].queued => room > 0)
  <2>1. last'[t].queued = q
    BY <1>6
  <2> QED
    BY <1>a, <2>1, Zenon
<1>9. NewEvent(t, n) \in Event
  BY <1>1 DEF NewEvent, Event
<1> QED
  BY <1>4, <1>5, <1>6, <1>7, <1>8, <1>9

\* What the stream service does to the bus.
LEMMA StreamPublishes ==
  ASSUME CountsFinite', StreamNext
  PROVE  UNCHANGED busVars \/ \E t \in EventTopic, n \in Nat : Publish(t, n)
<1>1. ASSUME NEW u \in User, StartStream(u)
      PROVE  \E t \in EventTopic, n \in Nat : Publish(t, n)
  BY <1>1, TopicsApart DEF StartStream
<1>2. ASSUME NEW w \in Watcher, AddViewer(w) \/ RemoveViewer(w)
      PROVE  UNCHANGED busVars \/ \E t \in EventTopic, n \in Nat : Publish(t, n)
  <2>1. PICK u \in User : u = StreamerOf[w]
    BY StreamAssumption
  <2>2. Cardinality(Counted(viewers'[u])) \in Nat /\ ViewersTopic(u) \in EventTopic
    BY TopicsApart DEF CountsFinite, Counted
  <2>3. UNCHANGED busVars \/ Publish(ViewersTopic(u), Cardinality(Counted(viewers'[u])))
    BY <1>2, <2>1 DEF AddViewer, RemoveViewer
  <2> QED
    BY <2>2, <2>3
<1> QED
  BY <1>1, <1>2 DEF StreamNext

LEMMA PublishTypes ==
  ASSUME BusOK, NEW t \in EventTopic, NEW n \in Nat, Publish(t, n)
  PROVE  BusOK'
<1> DEFINE R == [no : Nat, viewers : Nat, queued : BOOLEAN]
<1>1. PICK k \in Nat : queue' = queue \o [i \in 1..k |-> NewEvent(t, n)]
                       /\ Len(queue) + k <= BusCap
  BY PublishEffect
<1>2. NewEvent(t, n) \in Event /\ queue \in Seq(Event) /\ Published \in Nat
  BY PublishEffect, PublishedMax DEF BusOK
<1>3. [i \in 1..k |-> NewEvent(t, n)] \in Seq(Event) /\ Len([i \in 1..k |-> NewEvent(t, n)]) = k
  BY <1>2
<1>4. queue' \in Seq(Event) /\ Len(queue') <= BusCap
  <2> DEFINE new == [i \in 1..k |-> NewEvent(t, n)]
  <2>1. new \in Seq(Event) /\ Len(new) = k /\ queue' = queue \o new
    BY <1>1, <1>3
  <2> HIDE DEF new
  <2> QED
    BY <1>1, <1>2, <2>1
<1>5. last' \in [EventTopic -> R]
  <2>1. PICK q \in BOOLEAN : last' = [last EXCEPT ![t] = [no |-> Published + 1, viewers |-> n, queued |-> q]]
    <3>1. (BusCap - Len(queue) > 0) \in BOOLEAN
      OBVIOUS
    <3>2. last' = [last EXCEPT ![t] = [no |-> Published + 1, viewers |-> n,
                                       queued |-> BusCap - Len(queue) > 0]]
      BY DEF Publish
    <3> QED
      BY <3>1, <3>2, Zenon
  <2>2. [no |-> Published + 1, viewers |-> n, queued |-> q] \in R
    BY <1>2
  <2>3. last \in [EventTopic -> R]
    BY DEF BusOK
  <2> HIDE DEF R
  <2> QED
    BY <2>1, <2>2, <2>3
<1>6. ASSUME NEW s \in EventTopic PROVE last'[s].no <= last'[t].no
  <2>1. last[s].no <= Published /\ last[s].no \in Nat
    BY PublishedMax DEF BusOK
  <2>2. last'[t].no = Published + 1 /\ (s # t => last'[s] = last[s])
    BY PublishEffect
  <2> QED
    BY <1>2, <2>1, <2>2
<1>7. UNCHANGED topicSubs
  BY PublishEffect
<1> QED
  BY <1>4, <1>5, <1>6, <1>7 DEF BusOK

\* The events have a topic the maps know.
LEMMA EventFields ==
  ASSUME NEW e \in Event
  PROVE  /\ e.topic \in EventTopic /\ e.topic \in Topic /\ e.viewers \in Nat /\ e.no \in Nat
         /\ EventTopic # {}
<1>1. e.topic \in EventTopic /\ e.viewers \in Nat /\ e.no \in Nat
  BY DEF Event
<1> QED
  BY <1>1, TopicSections

LEMMA ReaderTypes ==
  ASSUME TypeInv, ReaderStep
  PROVE  TypeInv'
<1>0. /\ queue \in Seq(Event) /\ Len(queue) <= BusCap /\ Len(queue) \in Nat
  BY DEF TypeInv, BusOK
<1> USE DEF TypeInv
<1>1. CASE ReadEvent
  <2>1. queue # <<>> /\ queue' = Tail(queue) /\ rev' = Head(queue) /\ rpc' = "lookup"
    BY <1>1 DEF ReadEvent, Read
  <2>2. Head(queue) \in Event /\ Tail(queue) \in Seq(Event) /\ Len(Tail(queue)) = Len(queue) - 1
    BY <1>0, <2>1
  <2>3. UNCHANGED <<topicSubs, last, clientVars, rtodo, rlive, rcl, writerVars, fatal>>
    BY <1>1 DEF ReadEvent, Read
  <2>4. BusOK'
    BY <1>0, <2>1, <2>2, <2>3, BusAssumption DEF BusOK
  <2>5. ReaderOK'
    BY <2>1, <2>2, <2>3 DEF ReaderOK
  <2> QED
    BY <2>3, <2>4, <2>5 DEF ClientsOK, WritersOK, clientVars, writerVars
<1>2. CASE LookupConns
  <2>1. /\ rpc = "lookup" /\ rtodo' = topicConns[rev.topic]
        /\ rpc' \in {"read", "range"} /\ rev' \in {NoEvent, rev}
        /\ rpc' = "range" => rev' = rev
        /\ UNCHANGED <<clientVars, rcl, writerVars, busVars, fatal>>
    BY <1>2 DEF LookupConns
  <2>2. rlive' \in BOOLEAN
    BY <1>2 DEF LookupConns
  <2>3. topicConns[rev.topic] \subseteq Client
    BY <2>1, EventFields DEF ReaderOK, ClientsOK
  <2>4. ReaderOK'
    BY <2>1, <2>2, <2>3 DEF ReaderOK
  <2> QED
    BY <2>1, <2>4 DEF BusOK, ClientsOK, WritersOK, clientVars, writerVars, busVars
<1>3. CASE RangeEnds \/ SendPanics \/ \E c \in Client : NextConn(c)
  <2>1. UNCHANGED <<clientVars, writerVars, busVars>>
        /\ fatal' \in {fatal, "send on closed channel"}
    BY <1>3 DEF RangeEnds, SendPanics, NextConn
  <2>2. ReaderOK'
    BY <1>3 DEF RangeEnds, SendPanics, NextConn, ReaderOK, readerVars
  <2> QED
    BY <2>1, <2>2 DEF BusOK, ClientsOK, WritersOK, clientVars, writerVars, busVars
<1>4. CASE Send
  <2>1. /\ rpc = "send" /\ rcl \in Client /\ rev \in Event
        /\ wpc' = [wpc EXCEPT ![rcl] = "write"] /\ wev' = [wev EXCEPT ![rcl] = rev]
        /\ rpc' = "range" /\ rcl' = NoClient
        /\ UNCHANGED <<clientVars, rev, rtodo, rlive, told, busVars, fatal>>
    BY <1>4 DEF Send, ReaderOK
  <2>2. ReaderOK'
    BY <2>1 DEF ReaderOK
  <2>3. WritersOK'
    BY <2>1 DEF WritersOK
  <2> QED
    BY <2>1, <2>2, <2>3 DEF BusOK, ClientsOK, clientVars, busVars
<1> QED
  BY <1>1, <1>2, <1>3, <1>4 DEF ReaderStep

LEMMA WriterTypes ==
  ASSUME TypeInv, NEW c \in Client, WriteStep(c)
  PROVE  TypeInv'
<1> USE DEF TypeInv
<1>1. /\ wpc[c] = "write" /\ wev[c] \in Event
      /\ wpc' = [wpc EXCEPT ![c] = "idle"] /\ wev' = [wev EXCEPT ![c] = NoEvent]
      /\ UNCHANGED <<topicConns, connTopics, requests, since, readerVars, busVars, fatal>>
      /\ conn' = conn \/ conn' = [conn EXCEPT ![c] = "lost"]
      /\ told' = told \/ told' = [told EXCEPT ![c][wev[c].topic] = wev[c]]
  BY DEF WriteStep, Written, WriteFails, WritersOK, clientVars
<1>2. told' \in [Client -> [EventTopic -> Event \cup {NoEvent}]]
  BY <1>1, EventFields DEF WritersOK
<1>3. WritersOK'
  BY <1>1, <1>2 DEF WritersOK
<1>4. ClientsOK'
  BY <1>1 DEF ClientsOK
<1> QED
  BY <1>1, <1>3, <1>4 DEF BusOK, ReaderOK, readerVars, busVars

\* What a client's leaving of some topics changes.
LEMMA LeaveTypes ==
  ASSUME TypeInv, NEW c \in Client, NEW T \in SUBSET Topic, Leave(c, T)
  PROVE  /\ topicConns' \in [Topic -> SUBSET Client] /\ connTopics' \in [Client -> SUBSET Topic]
         /\ topicSubs' \subseteq Topic /\ rtodo' \subseteq rtodo /\ rlive' \in BOOLEAN
         /\ rtodo \ {c} \subseteq rtodo'
         /\ fatal' \in {fatal, "concurrent map access"}
<1>1. /\ topicConns' = [t \in Topic |-> IF t \in T THEN topicConns[t] \ {c} ELSE topicConns[t]]
      /\ connTopics' = [connTopics EXCEPT ![c] = @ \ T]
      /\ topicSubs' \subseteq topicSubs /\ rtodo' \in {rtodo, rtodo \ {c}}
      /\ fatal' \in {fatal, "concurrent map access"}
  BY DEF Leave, Unsubscribe, MayRace
<1>2. rlive' \in BOOLEAN
  BY DEF Leave
<1> QED
  BY <1>1, <1>2 DEF TypeInv, ClientsOK, BusOK

LEMMA SinceTypes ==
  ASSUME since \in [Client -> [Topic -> Nat]], NEW c \in Client, NEW t \in Topic, NEW n \in Nat,
         since' = [since EXCEPT ![c][t] = n]
  PROVE  since' \in [Client -> [Topic -> Nat]]
<1>1. [since[c] EXCEPT ![t] = n] \in [Topic -> Nat]
  OBVIOUS
<1>2. since' = [since EXCEPT ![c] = [since[c] EXCEPT ![t] = n]]
  OBVIOUS
<1> QED
  BY <1>1, <1>2

LEMMA ClientTypes ==
  ASSUME TypeInv, NEW c \in Client, ClientStep(c)
  PROVE  TypeInv'
<1> USE DEF TypeInv
<1>1. ASSUME NEW t \in Asked, SubscribeClient(c, t) PROVE TypeInv'
  <2>1. t \in Topic /\ EventTopic # {}
    BY SocketAssumption DEF Topic
  <2>2. /\ topicConns' = [topicConns EXCEPT ![t] = @ \cup {c}]
        /\ connTopics' = [connTopics EXCEPT ![c] = @ \cup {t}]
        /\ requests' = requests + 1
        /\ topicSubs' \in {topicSubs, topicSubs \cup {t}}
        /\ since' = since \/ since' = [since EXCEPT ![c][t] = Published]
        /\ rtodo' \in {rtodo, rtodo \cup {c}}
        /\ fatal' \in {fatal, "concurrent map access"}
        /\ UNCHANGED <<conn, rpc, rev, rlive, rcl, writerVars, queue, last>>
    BY <1>1 DEF SubscribeClient, Request, Subscribe, MayRace
  <2>3. Published \in Nat
    BY <2>1, PublishedMax
  <2>4. since' \in [Client -> [Topic -> Nat]]
    BY <2>1, <2>2, <2>3, SinceTypes DEF ClientsOK
  <2>5. ClientsOK'
    <3>1. topicConns' \in [Topic -> SUBSET Client] /\ connTopics' \in [Client -> SUBSET Topic]
      BY <2>1, <2>2 DEF ClientsOK
    <3>2. conn' \in [Client -> {"open", "lost", "closed"}]
          /\ fatal' \in {"none", "concurrent map access", "send on closed channel"}
      BY <2>2 DEF ClientsOK
    <3>3. requests' \in Nat
      <4>1. requests \in Nat
        BY DEF ClientsOK
      <4>2. requests' = requests + 1
        BY <2>2
      <4> QED
        BY <4>1, <4>2
    <3> QED
      BY <2>4, <3>1, <3>2, <3>3 DEF ClientsOK
  <2>6. BusOK'
    BY <2>1, <2>2 DEF BusOK
  <2>7. ReaderOK'
    BY <2>2 DEF ReaderOK
  <2> QED
    BY <2>2, <2>5, <2>6, <2>7 DEF WritersOK, writerVars
<1>2. ASSUME NEW t \in Asked, UnsubscribeClient(c, t) PROVE TypeInv'
  <2>1. t \in Topic /\ {t} \in SUBSET Topic
    BY SocketAssumption
  <2>2. /\ Leave(c, {t}) /\ since' = [since EXCEPT ![c][t] = 0] /\ requests' = requests + 1
        /\ UNCHANGED <<conn, rpc, rev, rcl, writerVars, queue, last>>
    BY <1>2 DEF UnsubscribeClient, Request
  <2>3. ClientsOK'
    <3>1. since' \in [Client -> [Topic -> Nat]]
      BY <2>1, <2>2, SinceTypes DEF ClientsOK
    <3>2. topicConns' \in [Topic -> SUBSET Client] /\ connTopics' \in [Client -> SUBSET Topic]
          /\ fatal' \in {fatal, "concurrent map access"}
      BY <2>1, <2>2, LeaveTypes
    <3>3. conn' \in [Client -> {"open", "lost", "closed"}]
          /\ fatal' \in {"none", "concurrent map access", "send on closed channel"}
      BY <2>2, <3>2 DEF ClientsOK
    <3>4. requests' \in Nat
      <4>1. requests \in Nat
        BY DEF ClientsOK
      <4>2. requests' = requests + 1
        BY <2>2
      <4> QED
        BY <4>1, <4>2
    <3> QED
      BY <3>1, <3>2, <3>3, <3>4 DEF ClientsOK
  <2>4. BusOK' /\ ReaderOK'
    BY <2>1, <2>2, LeaveTypes DEF BusOK, ReaderOK
  <2> QED
    BY <2>2, <2>3, <2>4 DEF WritersOK, writerVars
<1>3. CASE CloseConn(c)
  <2>1. connTopics[c] \in SUBSET Topic
    BY DEF ClientsOK
  <2>2. /\ Leave(c, connTopics[c]) /\ conn' = [conn EXCEPT ![c] = "closed"]
        /\ since' = [since EXCEPT ![c] = [s \in Topic |-> 0]]
        /\ wpc' = [wpc EXCEPT ![c] = "idle"] /\ wev' = [wev EXCEPT ![c] = NoEvent]
        /\ told' = [told EXCEPT ![c] = [s \in EventTopic |-> NoEvent]]
        /\ UNCHANGED <<requests, rpc, rev, rcl, queue, last>>
    BY <1>3 DEF CloseConn
  <2>3. ClientsOK'
    BY <2>1, <2>2, LeaveTypes DEF ClientsOK
  <2>4. BusOK' /\ ReaderOK'
    BY <2>1, <2>2, LeaveTypes DEF BusOK, ReaderOK
  <2>5. WritersOK'
    BY <2>2 DEF WritersOK
  <2> QED
    BY <2>3, <2>4, <2>5
<1> QED
  BY <1>1, <1>2, <1>3 DEF ClientStep

LEMMA TypeStep == TypeInv /\ CountsFinite' /\ [Next]_vars => TypeInv'
<1> SUFFICES ASSUME TypeInv, CountsFinite', [Next]_vars PROVE TypeInv'
  OBVIOUS
<1>1. CASE UNCHANGED <<busVars, socketVars>>
  BY <1>1 DEF TypeInv, BusOK, ReaderOK, WritersOK, ClientsOK, busVars, socketVars, clientVars,
     readerVars, writerVars
<1>2. CASE StreamNext /\ UNCHANGED socketVars
  <2>1. ASSUME NEW t \in EventTopic, NEW n \in Nat, Publish(t, n) PROVE TypeInv'
    <3>1. BusOK'
      BY <2>1, PublishTypes DEF TypeInv
    <3> QED
      BY <1>2, <3>1 DEF TypeInv, ReaderOK, WritersOK, ClientsOK, socketVars, clientVars,
         readerVars, writerVars
  <2> QED
    BY <1>1, <1>2, <2>1, StreamPublishes
<1>3. CASE SocketNext
  BY <1>3, ReaderTypes, WriterTypes, ClientTypes DEF SocketNext
<1> QED
  BY <1>1, <1>2, <1>3 DEF Next, vars

LEMMA TypeInitially == Init => TypeInv
<1> SUFFICES ASSUME Init PROVE TypeInv
  OBVIOUS
<1>1. BusOK
  BY BusAssumption DEF Init, BusInit, BusOK
<1>2. ReaderOK /\ WritersOK /\ ClientsOK
  BY DEF Init, SocketInit, ReaderOK, WritersOK, ClientsOK
<1> QED
  BY <1>1, <1>2 DEF TypeInv

LEMMA FiniteCounts == CountInv => CountsFinite
<1> SUFFICES ASSUME CountInv, NEW u \in User PROVE Cardinality(Counted(viewers[u])) \in Nat
  BY DEF CountsFinite
<1>1. Counted(viewers[u]) = Audience(u)
  BY CountedIsAudience
<1>2. IsFiniteSet(Audience(u))
  <2> DEFINE W == {x \in Watcher : handler[x] = "watching" /\ StreamerOf[x] = u}
             f == [w \in W |-> AddrOf[w]]
  <2>1. IsFiniteSet(W)
    BY StreamAssumption, FS_Subset
  <2>2. f \in Surjection(W, Audience(u))
    BY DEF Audience, Surjection
  <2> QED
    BY <2>1, <2>2, FS_Surjection
<1> QED
  BY <1>1, <1>2, FS_CardinalityType

LEMMA NotificationsInvariant == Spec => [](TypeInv /\ CountInv /\ IndexInv)
<1>1. Init => IndexInv
  BY DEF Init, BusInit, SocketInit, IndexInv, SocketTypes, IndexesAgree, ClosedIdle
<1> QED
  BY <1>1, IndexStep, CountInitially, CountStep, FiniteCounts, TypeInitially, TypeStep, PTL DEF Spec

\* Every part of the service, the bus and the transport has its type; in
\* particular the queue of the bus never holds more than its channel can.
THEOREM TypeTheorem == Spec => []TypeOK
<1>1. TypeInv /\ CountInv => TypeOK
  BY DEF TypeInv, BusOK, ReaderOK, WritersOK, ClientsOK, CountInv, CountTypes, TypeOK
<1> QED
  BY <1>1, NotificationsInvariant, PTL
-----------------------------------------------------------------------------
(***************************************************************************)
(* ToldInOrder.  What is written, what has been written, what readEvents   *)
(* has in hand and what is queued have ascending numbers: readEvents takes *)
(* no event before it has handed the last one to everybody.  Known says    *)
(* that an event agrees with what the history l of the topics says of it.  *)
(***************************************************************************)
Known(l, x) ==
  /\ x.no <= l[x.topic].no
  /\ x.no = l[x.topic].no => x.viewers = l[x.topic].viewers

\* Nothing with a lower number than n is still to be sent.
Passed(n) ==
  /\ rpc # "read" => n <= rev.no
  /\ \A i \in DOMAIN queue : n <= queue[i].no

QueueInOrder ==
  /\ \A i, j \in DOMAIN queue : i < j => queue[i].no <= queue[j].no
  /\ \A i \in DOMAIN queue : Known(last, queue[i])

ReaderInOrder ==
  rpc # "read" => Known(last, rev) /\ \A i \in DOMAIN queue : rev.no <= queue[i].no

WritersInOrder ==
  \A c \in Client : wpc[c] = "write" => Known(last, wev[c]) /\ Passed(wev[c].no)

ToldBefore ==
  \A c \in Client, t \in EventTopic :
    /\ told[c][t].no <= last[t].no /\ Passed(told[c][t].no)
    /\ wpc[c] = "write" => told[c][t].no <= wev[c].no

OrderInv == QueueInOrder /\ ReaderInOrder /\ WritersInOrder /\ ToldBefore

LEMMA AddedCopies ==
  ASSUME NEW S, NEW q \in Seq(S), NEW e \in S, NEW k \in Nat,
         NEW r, r = q \o [i \in 1..k |-> e]
  PROVE  /\ DOMAIN r = 1..(Len(q) + k) /\ DOMAIN q = 1..Len(q) /\ Len(q) \in Nat
         /\ \A i \in DOMAIN q : i \in DOMAIN r /\ r[i] = q[i]
         /\ \A i \in DOMAIN r : i \notin DOMAIN q => r[i] = e
<1> DEFINE new == [i \in 1..k |-> e]
<1>1. new \in Seq(S) /\ Len(new) = k /\ \A i \in 1..k : new[i] = e
  OBVIOUS
<1> HIDE DEF new
<1>2. r = q \o new
  BY DEF new
<1> QED
  BY <1>1, <1>2

\* The numbers of what is queued, in hand or told are numbers.
LEMMA Numbers ==
  ASSUME TypeInv
  PROVE  /\ \A i \in DOMAIN queue : queue[i] \in Event /\ queue[i].no \in Nat
         /\ rpc # "read" => rev \in Event /\ rev.no \in Nat
         /\ \A c \in Client : wpc[c] = "write" => wev[c] \in Event /\ wev[c].no \in Nat
         /\ \A c \in Client, t \in EventTopic : told[c][t].no \in Nat
         /\ \A t \in EventTopic : last[t].no \in Nat /\ last[t].no <= Published
         /\ EventTopic # {} => Published \in Nat
<1> USE DEF TypeInv
<1>1. ASSUME NEW i \in DOMAIN queue PROVE queue[i] \in Event /\ queue[i].no \in Nat
  <2>1. queue[i] \in Event
    BY DEF BusOK
  <2> QED
    BY <2>1, EventFields
<1>2. rpc # "read" => rev \in Event /\ rev.no \in Nat
  BY EventFields DEF ReaderOK
<1>3. ASSUME NEW c \in Client, wpc[c] = "write" PROVE wev[c] \in Event /\ wev[c].no \in Nat
  BY <1>3, EventFields DEF WritersOK
<1>4. ASSUME NEW c \in Client, NEW t \in EventTopic PROVE told[c][t].no \in Nat
  <2>1. told[c][t] \in Event \/ told[c][t] = NoEvent
    BY DEF WritersOK
  <2>2. NoEvent.no \in Nat
    BY DEF NoEvent
  <2> QED
    BY <2>1, <2>2, EventFields
<1>5. \A t \in EventTopic : last[t].no \in Nat /\ last[t].no <= Published
  BY PublishedMax DEF BusOK
<1> QED
  BY <1>1, <1>2, <1>3, <1>4, <1>5, PublishedMax

LEMMA PublishKnown ==
  ASSUME TypeInv, NEW t \in EventTopic, NEW n \in Nat, Publish(t, n), NEW x \in Event,
         Known(last, x)
  PROVE  Known(last', x) /\ x.no <= Published
<1>1. last'[t].no = Published + 1 /\ \A s \in EventTopic \ {t} : last'[s] = last[s]
  BY PublishEffect DEF TypeInv
<1>2. x.no \in Nat /\ x.topic \in EventTopic /\ Published \in Nat
      /\ last[x.topic].no \in Nat /\ last[x.topic].no <= Published
  BY Numbers, EventFields
<1>3. x.no <= last[x.topic].no /\ x.no <= Published
  BY <1>2 DEF Known
<1>4. CASE x.topic = t
  BY <1>1, <1>2, <1>3, <1>4 DEF Known
<1>5. CASE x.topic # t
  BY <1>1, <1>2, <1>3, <1>5 DEF Known
<1> QED
  BY <1>3, <1>4, <1>5

LEMMA PublishInOrder ==
  ASSUME TypeInv, OrderInv, NEW t \in EventTopic, NEW n \in Nat, Publish(t, n),
         UNCHANGED socketVars
  PROVE  OrderInv'
<1> DEFINE e == NewEvent(t, n)
<1> USE DEF OrderInv
<1>1. PICK k \in Nat : queue' = queue \o [i \in 1..k |-> e]
  BY PublishEffect DEF TypeInv
<1>2. e \in Event /\ e.topic = t /\ e.viewers = n /\ e.no = Published + 1 /\ Published \in Nat
  BY PublishEffect, Numbers DEF TypeInv, NewEvent
<1>3. /\ last'[t].no = Published + 1 /\ last'[t].viewers = n
      /\ \A s \in EventTopic \ {t} : last'[s] = last[s]
  BY PublishEffect DEF TypeInv
<1>4. /\ DOMAIN queue' = 1..(Len(queue) + k) /\ DOMAIN queue = 1..Len(queue) /\ Len(queue) \in Nat
      /\ \A i \in DOMAIN queue : i \in DOMAIN queue' /\ queue'[i] = queue[i]
      /\ \A i \in DOMAIN queue' : i \notin DOMAIN queue => queue'[i] = e
  <2>1. queue \in Seq(Event)
    BY DEF TypeInv, BusOK
  <2> HIDE DEF e
  <2> QED
    BY <1>1, <1>2, <2>1, AddedCopies
<1>5. UNCHANGED <<rpc, rev, wpc, wev, told>>
  BY DEF socketVars, readerVars, writerVars
<1> HIDE DEF e
<1>6. Known(last', e)
  BY <1>2, <1>3 DEF Known
<1>7. ASSUME NEW i \in DOMAIN queue' PROVE Known(last', queue'[i])
  <2>1. CASE i \in DOMAIN queue
    BY <1>4, <2>1, PublishKnown, Numbers DEF QueueInOrder
  <2>2. CASE i \notin DOMAIN queue
    BY <1>4, <1>6, <2>2
  <2> QED
    BY <2>1, <2>2
<1>8. ASSUME NEW m \in Nat, m <= Published, \A i \in DOMAIN queue : m <= queue[i].no
      PROVE  \A i \in DOMAIN queue' : m <= queue'[i].no
  <2> SUFFICES ASSUME NEW i \in DOMAIN queue' PROVE m <= queue'[i].no
    OBVIOUS
  <2>1. CASE i \in DOMAIN queue
    BY <1>4, <1>8, <2>1
  <2>2. CASE i \notin DOMAIN queue
    BY <1>2, <1>4, <1>8, <2>2
  <2> QED
    BY <2>1, <2>2
<1>9. QueueInOrder'
  <2>1. ASSUME NEW i \in DOMAIN queue', NEW j \in DOMAIN queue', i < j
        PROVE  queue'[i].no <= queue'[j].no
    <3>1. CASE j \in DOMAIN queue
      <4>1. i \in DOMAIN queue
        BY <1>4, <2>1, <3>1
      <4> QED
        BY <1>4, <2>1, <3>1, <4>1 DEF QueueInOrder
    <3>2. CASE j \notin DOMAIN queue /\ i \in DOMAIN queue
      <4>1. queue[i].no <= Published /\ queue[i].no \in Nat
        BY <3>2, PublishKnown, Numbers DEF QueueInOrder
      <4> QED
        BY <1>2, <1>4, <3>2, <4>1
    <3>3. CASE j \notin DOMAIN queue /\ i \notin DOMAIN queue
      BY <1>2, <1>4, <3>3
    <3> QED
      BY <3>1, <3>2, <3>3
  <2> QED
    BY <1>7, <2>1 DEF QueueInOrder
<1>10. ReaderInOrder'
  <2> SUFFICES ASSUME rpc # "read"
               PROVE  Known(last', rev) /\ \A i \in DOMAIN queue' : rev.no <= queue'[i].no
    BY <1>5 DEF ReaderInOrder
  <2>1. rev \in Event /\ rev.no \in Nat /\ Known(last, rev)
    BY Numbers DEF ReaderInOrder
  <2>2. Known(last', rev) /\ rev.no <= Published
    BY <2>1, PublishKnown
  <2> QED
    BY <1>8, <2>1, <2>2 DEF ReaderInOrder
<1>11. WritersInOrder'
  <2> SUFFICES ASSUME NEW c \in Client, wpc[c] = "write"
               PROVE  Known(last', wev[c]) /\ Passed(wev[c].no)'
    BY <1>5 DEF WritersInOrder
  <2>1. wev[c] \in Event /\ wev[c].no \in Nat /\ Known(last, wev[c]) /\ Passed(wev[c].no)
    BY Numbers DEF WritersInOrder
  <2>2. Known(last', wev[c]) /\ wev[c].no <= Published
    BY <2>1, PublishKnown
  <2>3. /\ rpc # "read" => wev[c].no <= rev.no
        /\ \A i \in DOMAIN queue : wev[c].no <= queue[i].no
    BY <2>1 DEF Passed
  <2>4. \A i \in DOMAIN queue' : wev[c].no <= queue'[i].no
    BY <1>8, <2>1, <2>2, <2>3
  <2> QED
    BY <1>5, <2>2, <2>3, <2>4 DEF Passed
<1>12. ToldBefore'
  <2> SUFFICES ASSUME NEW c \in Client, NEW s \in EventTopic
               PROVE  /\ told[c][s].no <= last'[s].no
                      /\ rpc # "read" => told[c][s].no <= rev.no
                      /\ \A i \in DOMAIN queue' : told[c][s].no <= queue'[i].no
                      /\ wpc[c] = "write" => told[c][s].no <= wev[c].no
    BY <1>5 DEF ToldBefore, Passed
  <2>1. /\ told[c][s].no \in Nat /\ told[c][s].no <= last[s].no
        /\ last[s].no \in Nat /\ last[s].no <= Published
    BY Numbers DEF ToldBefore
  <2>2. /\ rpc # "read" => told[c][s].no <= rev.no
        /\ \A i \in DOMAIN queue : told[c][s].no <= queue[i].no
        /\ wpc[c] = "write" => told[c][s].no <= wev[c].no
    BY DEF ToldBefore, Passed
  <2>3. told[c][s].no <= Published
    BY <1>2, <2>1
  <2>4. told[c][s].no <= last'[s].no
    BY <1>2, <1>3, <2>1, <2>3
  <2>5. \A i \in DOMAIN queue' : told[c][s].no <= queue'[i].no
    BY <1>8, <2>1, <2>2, <2>3
  <2> QED
    BY <2>2, <2>4, <2>5
<1> QED
  BY <1>9, <1>10, <1>11, <1>12

LEMMA ReadInOrder ==
  ASSUME TypeInv, OrderInv, ReadEvent
  PROVE  OrderInv'
<1> USE DEF OrderInv
<1>1. /\ rpc = "read" /\ queue # <<>> /\ queue' = Tail(queue) /\ rev' = Head(queue)
      /\ rpc' = "lookup" /\ UNCHANGED <<last, wpc, wev, told>>
  BY DEF ReadEvent, Read, writerVars
<1>2. /\ DOMAIN queue = 1..Len(queue) /\ Len(queue) \in Nat /\ Len(queue) > 0
      /\ DOMAIN queue' = 1..(Len(queue) - 1) /\ rev' = queue[1]
      /\ \A i \in DOMAIN queue' : queue'[i] = queue[i + 1]
  <2>1. queue \in Seq(Event)
    BY DEF TypeInv, BusOK
  <2> QED
    BY <1>1, <2>1
<1>3. 1 \in DOMAIN queue /\ \A i \in DOMAIN queue' : i + 1 \in DOMAIN queue /\ 1 < i + 1
  BY <1>2
<1>4. QueueInOrder'
  <2>1. ASSUME NEW i \in DOMAIN queue', NEW j \in DOMAIN queue', i < j
        PROVE  queue'[i].no <= queue'[j].no
    <3>1. i + 1 \in DOMAIN queue /\ j + 1 \in DOMAIN queue /\ i + 1 < j + 1
      BY <1>2, <1>3, <2>1
    <3> QED
      BY <1>2, <3>1 DEF QueueInOrder
  <2>2. \A i \in DOMAIN queue' : Known(last, queue'[i])
    BY <1>2, <1>3 DEF QueueInOrder
  <2> QED
    BY <1>1, <2>1, <2>2 DEF QueueInOrder
<1>5. ReaderInOrder'
  <2>1. Known(last, rev')
    BY <1>2, <1>3 DEF QueueInOrder
  <2>2. \A i \in DOMAIN queue' : rev'.no <= queue'[i].no
    BY <1>2, <1>3 DEF QueueInOrder
  <2> QED
    BY <1>1, <2>1, <2>2 DEF ReaderInOrder
<1>6. ASSUME NEW m, \A i \in DOMAIN queue : m <= queue[i].no
      PROVE  m <= rev'.no /\ \A i \in DOMAIN queue' : m <= queue'[i].no
  BY <1>2, <1>3, <1>6
<1>7. WritersInOrder'
  <2> SUFFICES ASSUME NEW c \in Client, wpc[c] = "write"
               PROVE  /\ Known(last, wev[c]) /\ wev[c].no <= rev'.no
                      /\ \A i \in DOMAIN queue' : wev[c].no <= queue'[i].no
    BY <1>1 DEF WritersInOrder, Passed
  <2>1. Known(last, wev[c]) /\ \A i \in DOMAIN queue : wev[c].no <= queue[i].no
    BY DEF WritersInOrder, Passed
  <2> QED
    BY <1>6, <2>1
<1>8. ToldBefore'
  <2> SUFFICES ASSUME NEW c \in Client, NEW s \in EventTopic
               PROVE  /\ told[c][s].no <= last[s].no
                      /\ told[c][s].no <= rev'.no
                      /\ \A i \in DOMAIN queue' : told[c][s].no <= queue'[i].no
                      /\ wpc[c] = "write" => told[c][s].no <= wev[c].no
    BY <1>1 DEF ToldBefore, Passed
  <2>1. /\ told[c][s].no <= last[s].no
        /\ \A i \in DOMAIN queue : told[c][s].no <= queue[i].no
        /\ wpc[c] = "write" => told[c][s].no <= wev[c].no
    BY DEF ToldBefore, Passed
  <2> QED
    BY <1>6, <2>1
<1> QED
  BY <1>4, <1>5, <1>7, <1>8

LEMMA SendInOrder ==
  ASSUME TypeInv, OrderInv, Send
  PROVE  OrderInv'
<1> USE DEF OrderInv
<1>1. /\ rpc = "send" /\ rcl \in Client /\ rpc' = "range"
      /\ wpc' = [wpc EXCEPT ![rcl] = "write"] /\ wev' = [wev EXCEPT ![rcl] = rev]
      /\ UNCHANGED <<queue, last, rev, told>>
  BY DEF Send, TypeInv, ReaderOK, busVars
<1>2. /\ wev'[rcl] = rev
      /\ \A c \in Client \ {rcl} : wpc'[c] = wpc[c] /\ wev'[c] = wev[c]
  BY <1>1 DEF TypeInv, WritersOK
<1>3. Known(last, rev) /\ rev.no \in Nat /\ \A i \in DOMAIN queue : rev.no <= queue[i].no
  BY <1>1, Numbers DEF ReaderInOrder
<1>4. QueueInOrder' /\ ReaderInOrder'
  BY <1>1, <1>3 DEF QueueInOrder, ReaderInOrder
<1>5. WritersInOrder'
  <2> SUFFICES ASSUME NEW c \in Client, wpc'[c] = "write"
               PROVE  /\ Known(last, wev'[c]) /\ wev'[c].no <= rev.no
                      /\ \A i \in DOMAIN queue : wev'[c].no <= queue[i].no
    BY <1>1 DEF WritersInOrder, Passed
  <2>1. CASE c = rcl
    BY <1>2, <1>3, <2>1
  <2>2. CASE c # rcl
    BY <1>1, <1>2, <2>2 DEF WritersInOrder, Passed
  <2> QED
    BY <2>1, <2>2
<1>6. ToldBefore'
  <2> SUFFICES ASSUME NEW c \in Client, NEW s \in EventTopic
               PROVE  /\ told[c][s].no <= last[s].no /\ told[c][s].no <= rev.no
                      /\ \A i \in DOMAIN queue : told[c][s].no <= queue[i].no
                      /\ wpc'[c] = "write" => told[c][s].no <= wev'[c].no
    BY <1>1 DEF ToldBefore, Passed
  <2>1. /\ told[c][s].no <= last[s].no /\ told[c][s].no <= rev.no
        /\ \A i \in DOMAIN queue : told[c][s].no <= queue[i].no
        /\ wpc[c] = "write" => told[c][s].no <= wev[c].no
    BY <1>1 DEF ToldBefore, Passed
  <2> QED
    BY <1>2, <2>1
<1> QED
  BY <1>4, <1>5, <1>6

LEMMA ReaderInOrderStep ==
  ASSUME TypeInv, OrderInv, ReaderStep
  PROVE  OrderInv'
<1>1. CASE LookupConns \/ RangeEnds \/ SendPanics \/ \E c \in Client : NextConn(c)
  <2>1. /\ UNCHANGED <<queue, last, wpc, wev, told>>
        /\ rpc' # "read" => rpc # "read" /\ rev' = rev
    BY <1>1 DEF LookupConns, RangeEnds, SendPanics, NextConn, readerVars, writerVars, busVars
  <2> QED
    BY <2>1 DEF OrderInv, QueueInOrder, ReaderInOrder, WritersInOrder, ToldBefore, Passed
<1> QED
  BY <1>1, ReadInOrder, SendInOrder DEF ReaderStep

\* What the end of a write changes.
LEMMA WriteEffect ==
  ASSUME TypeInv, NEW c \in Client, WriteStep(c)
  PROVE  /\ wpc[c] = "write" /\ wev[c] \in Event /\ wpc'[c] = "idle"
         /\ \A d \in Client \ {c} : wpc'[d] = wpc[d] /\ wev'[d] = wev[d] /\ told'[d] = told[d]
         /\ \A s \in EventTopic : \/ told'[c][s] = told[c][s]
                                  \/ told'[c][s] = wev[c] /\ s = wev[c].topic
         /\ UNCHANGED <<topicConns, since, readerVars, busVars>>
         /\ Written(c) => conn' = conn /\ told'[c][wev[c].topic] = wev[c]
         /\ WriteFails(c) => conn'[c] = "lost" /\ \A d \in Client \ {c} : conn'[d] = conn[d]
<1>1. /\ wpc[c] = "write" /\ wev[c] \in Event /\ wev[c].topic \in EventTopic
      /\ wpc' = [wpc EXCEPT ![c] = "idle"] /\ wev' = [wev EXCEPT ![c] = NoEvent]
      /\ UNCHANGED <<topicConns, since, readerVars, busVars>>
      /\ told' = told \/ told' = [told EXCEPT ![c][wev[c].topic] = wev[c]]
  BY EventFields DEF WriteStep, Written, WriteFails, TypeInv, WritersOK, clientVars
<1>2. /\ Written(c) => conn' = conn /\ told' = [told EXCEPT ![c][wev[c].topic] = wev[c]]
      /\ WriteFails(c) => conn' = [conn EXCEPT ![c] = "lost"]
  BY DEF Written, WriteFails, clientVars
<1>3. told \in [Client -> [EventTopic -> Event \cup {NoEvent}]] /\ wpc \in [Client -> {"idle", "write"}]
      /\ wev \in [Client -> Event \cup {NoEvent}] /\ conn \in [Client -> {"open", "lost", "closed"}]
  BY DEF TypeInv, WritersOK, ClientsOK
<1> QED
  BY <1>1, <1>2, <1>3

LEMMA WriteInOrder ==
  ASSUME TypeInv, OrderInv, NEW c \in Client, WriteStep(c)
  PROVE  OrderInv'
<1> USE DEF OrderInv
<1>1. UNCHANGED <<queue, last, rpc, rev>>
  BY WriteEffect DEF readerVars, busVars
<1>2. QueueInOrder' /\ ReaderInOrder'
  BY <1>1 DEF QueueInOrder, ReaderInOrder
<1>3. \A d \in Client : wpc'[d] = "write" => wpc[d] = "write" /\ wev'[d] = wev[d] /\ d # c
  BY WriteEffect
<1>4. WritersInOrder'
  BY <1>1, <1>3 DEF WritersInOrder, Passed
<1>5. ToldBefore'
  <2> SUFFICES ASSUME NEW d \in Client, NEW s \in EventTopic
               PROVE  /\ told'[d][s].no <= last[s].no /\ Passed(told'[d][s].no)
                      /\ wpc'[d] = "write" => told'[d][s].no <= wev[d].no
    BY <1>1, <1>3 DEF ToldBefore, Passed
  <2>1. CASE told'[d][s] = told[d][s]
    BY <1>3, <2>1 DEF ToldBefore
  <2>2. CASE told'[d][s] # told[d][s]
    <3>1. d = c /\ told'[d][s] = wev[c] /\ s = wev[c].topic /\ wpc[c] = "write"
      BY <2>2, WriteEffect
    <3> QED
      BY <1>3, <3>1 DEF WritersInOrder, Known
  <2> QED
    BY <2>1, <2>2
<1> QED
  BY <1>2, <1>4, <1>5

LEMMA CloseEffect ==
  ASSUME TypeInv, NEW c \in Client, CloseConn(c)
  PROVE  /\ conn'[c] = "closed" /\ wpc'[c] = "idle"
         /\ \A s \in EventTopic : told'[c][s] = NoEvent
         /\ \A d \in Client \ {c} : /\ conn'[d] = conn[d] /\ wpc'[d] = wpc[d]
                                    /\ wev'[d] = wev[d] /\ told'[d] = told[d]
                                    /\ since'[d] = since[d]
         /\ Leave(c, connTopics[c]) /\ connTopics[c] \in SUBSET Topic
         /\ UNCHANGED <<rpc, rev, rcl, queue, last>>
<1>1. /\ conn' = [conn EXCEPT ![c] = "closed"] /\ wpc' = [wpc EXCEPT ![c] = "idle"]
      /\ wev' = [wev EXCEPT ![c] = NoEvent]
      /\ told' = [told EXCEPT ![c] = [s \in EventTopic |-> NoEvent]]
      /\ since' = [since EXCEPT ![c] = [s \in Topic |-> 0]]
      /\ Leave(c, connTopics[c]) /\ UNCHANGED <<rpc, rev, rcl, queue, last>>
  BY DEF CloseConn
<1>2. /\ told \in [Client -> [EventTopic -> Event \cup {NoEvent}]]
      /\ wpc \in [Client -> {"idle", "write"}] /\ wev \in [Client -> Event \cup {NoEvent}]
      /\ conn \in [Client -> {"open", "lost", "closed"}]
      /\ since \in [Client -> [Topic -> Nat]] /\ connTopics[c] \in SUBSET Topic
  BY DEF TypeInv, WritersOK, ClientsOK
<1> QED
  BY <1>1, <1>2

LEMMA ClientInOrder ==
  ASSUME TypeInv, OrderInv, NEW c \in Client, ClientStep(c)
  PROVE  OrderInv'
<1> USE DEF OrderInv
<1>1. ASSUME NEW t \in Asked, SubscribeClient(c, t) \/ UnsubscribeClient(c, t)
      PROVE  OrderInv'
  <2>1. UNCHANGED <<rpc, rev, queue, last, wpc, wev, told>>
    BY <1>1 DEF SubscribeClient, UnsubscribeClient, writerVars
  <2> QED
    BY <2>1 DEF QueueInOrder, ReaderInOrder, WritersInOrder, ToldBefore, Passed
<1>2. CASE CloseConn(c)
  <2>1. /\ wpc'[c] = "idle" /\ UNCHANGED <<rpc, rev, queue, last>>
        /\ \A s \in EventTopic : told'[c][s] = NoEvent
        /\ \A d \in Client \ {c} : wpc'[d] = wpc[d] /\ wev'[d] = wev[d] /\ told'[d] = told[d]
    BY <1>2, CloseEffect
  <2>2. QueueInOrder' /\ ReaderInOrder'
    BY <2>1 DEF QueueInOrder, ReaderInOrder
  <2>3. WritersInOrder'
    BY <2>1 DEF WritersInOrder, Passed
  <2>4. ASSUME NEW s \in EventTopic
        PROVE  told'[c][s].no <= last[s].no /\ Passed(told'[c][s].no)
    <3>1. told'[c][s].no = 0
      BY <2>1 DEF NoEvent
    <3>2. 0 <= last[s].no /\ (rpc # "read" => 0 <= rev.no)
          /\ \A i \in DOMAIN queue : 0 <= queue[i].no
      BY Numbers
    <3> QED
      BY <3>1, <3>2 DEF Passed
  <2>5. ToldBefore'
    <3> SUFFICES ASSUME NEW d \in Client, NEW s \in EventTopic
                 PROVE  /\ told'[d][s].no <= last[s].no /\ Passed(told'[d][s].no)
                        /\ wpc'[d] = "write" => told'[d][s].no <= wev'[d].no
      BY <2>1 DEF ToldBefore, Passed
    <3>1. CASE d = c
      BY <2>1, <2>4, <3>1
    <3>2. CASE d # c
      BY <2>1, <3>2 DEF ToldBefore
    <3> QED
      BY <3>1, <3>2
  <2> QED
    BY <2>2, <2>3, <2>5
<1> QED
  BY <1>1, <1>2 DEF ClientStep

LEMMA OrderStep == TypeInv /\ OrderInv /\ CountsFinite' /\ [Next]_vars => OrderInv'
<1> SUFFICES ASSUME TypeInv, OrderInv, CountsFinite', [Next]_vars PROVE OrderInv'
  OBVIOUS
<1>1. CASE UNCHANGED <<busVars, socketVars>>
  BY <1>1 DEF OrderInv, QueueInOrder, ReaderInOrder, WritersInOrder, ToldBefore, Passed,
     busVars, socketVars, readerVars, writerVars
<1>2. CASE StreamNext /\ UNCHANGED socketVars
  BY <1>1, <1>2, StreamPublishes, PublishInOrder
<1>3. CASE SocketNext
  BY <1>3, ReaderInOrderStep, WriteInOrder, ClientInOrder DEF SocketNext
<1> QED
  BY <1>1, <1>2, <1>3 DEF Next, vars

LEMMA OrderInitially == Init => OrderInv
<1> SUFFICES ASSUME Init PROVE OrderInv
  OBVIOUS
<1>1. /\ queue = <<>> /\ rpc = "read" /\ wpc = [c \in Client |-> "idle"]
      /\ told = [c \in Client |-> [s \in EventTopic |-> NoEvent]]
      /\ last = [t \in EventTopic |-> [no |-> 0, viewers |-> 0, queued |-> FALSE]]
  BY DEF Init, BusInit, SocketInit
<1>2. DOMAIN queue = {}
  BY <1>1
<1>3. \A c \in Client, t \in EventTopic : told[c][t].no = 0 /\ last[t].no = 0
  BY <1>1 DEF NoEvent
<1> QED
  BY <1>1, <1>2, <1>3 DEF OrderInv, QueueInOrder, ReaderInOrder, WritersInOrder, ToldBefore,
     Passed

LEMMA OrderInvariant == Spec => []OrderInv
<1>1. TypeInv /\ OrderInv /\ [Next]_vars /\ (CountInv)' => OrderInv'
  <2>1. CountInv' => CountsFinite'
    BY FiniteCounts, PTL
  <2> QED
    BY <2>1, OrderStep
<1> QED
  BY <1>1, OrderInitially, NotificationsInvariant, PTL DEF Spec

\* Nobody hears an older number of a topic after a newer one, for any number of
\* clients and any length of the queue, while they come, go and lose their
\* connections and readEvents ranges over a set of them that changes.
THEOREM ToldInOrderTheorem == Spec => ToldInOrder
<1>1. ASSUME TypeInv, OrderInv, [Next]_vars, NEW c \in Client, NEW t \in EventTopic,
             conn'[c] # "closed"
      PROVE  told'[c][t].no >= told[c][t].no
  <2>1. told[c][t].no \in Nat
    BY <1>1, Numbers
  <2>2. CASE UNCHANGED told
    BY <2>1, <2>2
  <2>3. ASSUME NEW d \in Client, WriteStep(d) PROVE told'[c][t].no >= told[c][t].no
    <3>1. told'[c][t] = told[c][t] \/ (c = d /\ told'[c][t] = wev[c] /\ wpc[c] = "write")
      BY <1>1, <2>3, WriteEffect
    <3>2. CASE c = d /\ told'[c][t] = wev[c] /\ wpc[c] = "write"
      <4>1. told[c][t].no <= wev[c].no /\ wev[c].no \in Nat
        BY <1>1, <3>2, Numbers DEF OrderInv, ToldBefore
      <4> QED
        BY <2>1, <3>2, <4>1
    <3> QED
      BY <2>1, <3>1, <3>2
  <2>4. ASSUME NEW d \in Client, ClientStep(d) PROVE told'[c][t].no >= told[c][t].no
    <3>1. CASE CloseConn(d)
      BY <1>1, <2>1, <3>1, CloseEffect
    <3>2. CASE \E s \in Asked : SubscribeClient(d, s) \/ UnsubscribeClient(d, s)
      BY <2>2, <3>2 DEF SubscribeClient, UnsubscribeClient, writerVars
    <3> QED
      BY <2>4, <3>1, <3>2 DEF ClientStep
  <2>5. CASE ReaderStep
    BY <2>2, <2>5 DEF ReaderStep, ReadEvent, LookupConns, RangeEnds, Send, SendPanics, NextConn,
       writerVars
  <2> QED
    BY <1>1, <2>2, <2>3, <2>4, <2>5 DEF Next, SocketNext, vars, socketVars, writerVars
<1>2. TypeInv /\ OrderInv /\ [Next]_vars =>
        [\A c \in Client, t \in EventTopic :
           conn'[c] # "closed" => told'[c][t].no >= told[c][t].no]_vars
  BY <1>1
<1> QED
  BY <1>2, OrderInvariant, NotificationsInvariant, PTL DEF Spec, ToldInOrder
-----------------------------------------------------------------------------
(***************************************************************************)
(* ToldTheCount.  The last event of a topic that a client waits for is     *)
(* somewhere between the queue and the client, or the client has it.       *)
(***************************************************************************)
Latest(t) == [topic |-> t, viewers |-> last[t].viewers, no |-> last[t].no]

InQueue(t) == \E i \in DOMAIN queue : queue[i] = Latest(t)

InHand(c, t) ==
  /\ rev = Latest(t)
  /\ \/ rpc = "lookup"
     \/ rpc \in {"range", "send"} /\ c \in rtodo
     \/ rpc = "send" /\ rcl = c

InWrite(c, t) == wpc[c] = "write" /\ wev[c] = Latest(t)

Reached(c, t) == InQueue(t) \/ InHand(c, t) \/ InWrite(c, t) \/ told[c][t] = Latest(t)

Awaits(c, t) ==
  /\ conn[c] = "open" /\ c \in topicConns[t]
  /\ since[c][t] < last[t].no /\ last[t].queued

Delivery == \A c \in Client, t \in EventTopic : Awaits(c, t) => Reached(c, t)

LEMMA LatestFields ==
  ASSUME NEW t
  PROVE  /\ Latest(t).topic = t /\ Latest(t).no = last[t].no
         /\ Latest(t).viewers = last[t].viewers
  BY DEF Latest

\* An event of a topic that is known and not older than the last one is it.
LEMMA KnownLatest ==
  ASSUME NEW e \in Event, NEW t, e.topic = t, e.no = last[t].no, Known(last, e)
  PROVE  e = Latest(t)
<1>1. e.viewers = last[t].viewers
  BY DEF Known
<1>2. e = [topic |-> e.topic, viewers |-> e.viewers, no |-> e.no]
  BY DEF Event
<1> QED
  BY <1>1, <1>2 DEF Latest

LEMMA PublishDelivers ==
  ASSUME TypeInv, IndexInv, Delivery, NEW s \in EventTopic, NEW n \in Nat, Publish(s, n),
         UNCHANGED socketVars
  PROVE  Delivery'
<1> DEFINE e == NewEvent(s, n)
<1>1. PICK k \in Nat : /\ queue' = queue \o [i \in 1..k |-> e]
                       /\ last'[s].queued /\ s \in topicSubs => k > 0
  BY PublishEffect DEF TypeInv
<1>2. e \in Event /\ e = [topic |-> s, viewers |-> n, no |-> Published + 1]
  BY PublishEffect DEF TypeInv, NewEvent
<1>3. /\ last'[s].no = Published + 1 /\ last'[s].viewers = n
      /\ \A t \in EventTopic \ {s} : last'[t] = last[t]
  BY PublishEffect DEF TypeInv
<1>4. /\ DOMAIN queue' = 1..(Len(queue) + k) /\ DOMAIN queue = 1..Len(queue) /\ Len(queue) \in Nat
      /\ \A i \in DOMAIN queue : i \in DOMAIN queue' /\ queue'[i] = queue[i]
      /\ \A i \in DOMAIN queue' : i \notin DOMAIN queue => queue'[i] = e
  <2>1. queue \in Seq(Event)
    BY DEF TypeInv, BusOK
  <2> HIDE DEF e
  <2> QED
    BY <1>1, <1>2, <2>1, AddedCopies
<1>5. UNCHANGED <<conn, topicConns, since, rpc, rev, rtodo, rcl, wpc, wev, told>>
  BY DEF socketVars, clientVars, readerVars, writerVars
<1> HIDE DEF e
<1>6. SUFFICES ASSUME NEW c \in Client, NEW t \in EventTopic, Awaits(c, t)' PROVE Reached(c, t)'
  BY DEF Delivery
<1>7. CASE t = s
  <2>1. c \in topicConns[s] /\ last'[s].queued
    BY <1>5, <1>6, <1>7 DEF Awaits
  <2>2. s \in topicSubs
    BY <2>1, TopicSections DEF IndexInv, IndexesAgree
  <2>3. k > 0
    BY <1>1, <2>1, <2>2
  <2>4. Len(queue) + 1 \in DOMAIN queue' /\ Len(queue) + 1 \notin DOMAIN queue
    BY <1>4, <2>3
  <2>5. queue'[Len(queue) + 1] = e
    BY <1>4, <2>4
  <2>6. e = Latest(t)'
    BY <1>2, <1>3, <1>7 DEF Latest
  <2> QED
    BY <2>4, <2>5, <2>6 DEF Reached, InQueue
<1>8. CASE t # s
  <2>1. last'[t] = last[t]
    BY <1>3, <1>8
  <2>2. Awaits(c, t) /\ Latest(t)' = Latest(t)
    BY <1>5, <1>6, <2>1 DEF Awaits, Latest
  <2>3. Reached(c, t)
    BY <2>2 DEF Delivery
  <2>4. InQueue(t) => InQueue(t)'
    BY <1>4, <2>2 DEF InQueue
  <2>5. (InHand(c, t) => InHand(c, t)') /\ (InWrite(c, t) => InWrite(c, t)')
        /\ (told[c][t] = Latest(t) => told'[c][t] = Latest(t)')
    BY <1>5, <2>2 DEF InHand, InWrite
  <2> QED
    BY <2>3, <2>4, <2>5 DEF Reached
<1> QED
  BY <1>7, <1>8

\* Steps of the transport publish nothing.
LEMMA SocketKeepsLast ==
  ASSUME SocketNext
  PROVE  UNCHANGED last /\ \A t : Latest(t)' = Latest(t)
<1>1. UNCHANGED last
  BY DEF SocketNext, ReaderStep, ReadEvent, LookupConns, RangeEnds, Send,
     SendPanics, NextConn, Read, busVars, ClientStep, SubscribeClient,
     UnsubscribeClient, CloseConn, WriteStep, Written, WriteFails
<1> QED
  BY <1>1 DEF Latest

LEMMA ReaderDelivers ==
  ASSUME TypeInv, OrderInv, Delivery, ReaderStep
  PROVE  Delivery'
<1>1. UNCHANGED <<clientVars, told, last>>
  BY DEF ReaderStep, ReadEvent, LookupConns, RangeEnds, Send, SendPanics, NextConn, Read,
     writerVars, busVars
<1> SUFFICES ASSUME NEW c \in Client, NEW t \in EventTopic, Awaits(c, t)' PROVE Reached(c, t)'
  BY DEF Delivery
<1>2. Awaits(c, t) /\ Latest(t)' = Latest(t)
  BY <1>1 DEF Awaits, Latest, clientVars
<1>3. Reached(c, t)
  BY <1>2 DEF Delivery
<1>4. told[c][t] = Latest(t) => Reached(c, t)'
  BY <1>1, <1>2 DEF Reached
<1>5. CASE ReadEvent
  <2>1. /\ rpc = "read" /\ queue # <<>> /\ queue' = Tail(queue) /\ rev' = Head(queue)
        /\ rpc' = "lookup" /\ UNCHANGED <<wpc, wev>>
    BY <1>5 DEF ReadEvent, Read, writerVars
  <2>2. queue \in Seq(Event)
    BY DEF TypeInv, BusOK
  <2>3. ASSUME NEW i \in DOMAIN queue, queue[i] = Latest(t) PROVE Reached(c, t)'
    <3>1. CASE i = 1
      <4>1. rev' = queue[1]
        BY <2>1, <2>2
      <4> QED
        BY <1>2, <2>1, <2>3, <3>1, <4>1 DEF Reached, InHand
    <3>2. CASE i # 1
      <4>1. i - 1 \in DOMAIN queue' /\ queue'[i - 1] = queue[i]
        BY <2>1, <2>2, <3>2
      <4> QED
        BY <1>2, <2>3, <4>1 DEF Reached, InQueue
    <3> QED
      BY <3>1, <3>2
  <2>4. ~InHand(c, t)
    BY <2>1 DEF InHand
  <2>5. InWrite(c, t) => Reached(c, t)'
    BY <1>2, <2>1 DEF InWrite, Reached
  <2> QED
    BY <1>3, <1>4, <2>3, <2>4, <2>5 DEF Reached, InQueue
<1>6. CASE LookupConns \/ RangeEnds \/ SendPanics \/ \E d \in Client : NextConn(d)
  <2>1. UNCHANGED <<queue, wpc, wev>>
    BY <1>6 DEF LookupConns, RangeEnds, SendPanics, NextConn, busVars, writerVars
  <2>2. InQueue(t) \/ InWrite(c, t) => Reached(c, t)'
    BY <1>2, <2>1 DEF InQueue, InWrite, Reached
  <2>3. ASSUME InHand(c, t) PROVE InHand(c, t)'
    <3>1. CASE LookupConns
      <4>1. rpc = "lookup" /\ rev.topic = t /\ c \in topicConns[t]
        BY <1>2, <2>3, <3>1, LatestFields DEF LookupConns, InHand, Awaits
      <4>2. rtodo' = topicConns[t] /\ rpc' = "range" /\ rev' = rev
        BY <3>1, <4>1 DEF LookupConns
      <4> QED
        BY <1>2, <2>3, <4>1, <4>2 DEF InHand
    <3>2. CASE RangeEnds
      BY <2>3, <3>2 DEF RangeEnds, InHand
    <3>3. CASE SendPanics
      BY <1>2, <2>3, <3>3 DEF SendPanics, InHand, readerVars
    <3>4. ASSUME NEW d \in Client, NextConn(d) PROVE InHand(c, t)'
      BY <1>2, <2>3, <3>4 DEF NextConn, InHand
    <3> QED
      BY <1>6, <3>1, <3>2, <3>3, <3>4
  <2> QED
    BY <1>3, <1>4, <2>2, <2>3 DEF Reached
<1>7. CASE Send
  <2>1. /\ rpc = "send" /\ rcl \in Client /\ wpc[rcl] = "idle" /\ rpc' = "range"
        /\ wpc' = [wpc EXCEPT ![rcl] = "write"] /\ wev' = [wev EXCEPT ![rcl] = rev]
        /\ UNCHANGED <<rev, rtodo, queue>>
    BY <1>7 DEF Send, TypeInv, ReaderOK, busVars
  <2>2. /\ wpc'[rcl] = "write" /\ wev'[rcl] = rev
        /\ \A d \in Client \ {rcl} : wpc'[d] = wpc[d] /\ wev'[d] = wev[d]
    BY <2>1 DEF TypeInv, WritersOK
  <2>3. InQueue(t) => Reached(c, t)'
    BY <1>2, <2>1 DEF InQueue, Reached
  <2>4. InHand(c, t) => Reached(c, t)'
    BY <1>2, <2>1, <2>2 DEF InHand, InWrite, Reached
  <2>5. InWrite(c, t) => Reached(c, t)'
    BY <1>2, <2>1, <2>2 DEF InWrite, Reached
  <2> QED
    BY <1>3, <1>4, <2>3, <2>4, <2>5 DEF Reached
<1> QED
  BY <1>5, <1>6, <1>7 DEF ReaderStep

LEMMA WriteDelivers ==
  ASSUME TypeInv, OrderInv, Delivery, NEW d \in Client, WriteStep(d)
  PROVE  Delivery'
<1>1. SUFFICES ASSUME NEW c \in Client, NEW t \in EventTopic, Awaits(c, t)' PROVE Reached(c, t)'
  BY DEF Delivery
<1>2. UNCHANGED <<topicConns, since, rpc, rev, rtodo, rcl, queue, last>>
  BY WriteEffect DEF readerVars, busVars
<1>3. conn'[c] = "open" => conn[c] = "open" /\ (c = d => Written(d))
  BY WriteEffect DEF WriteStep
<1>4. Awaits(c, t) /\ Latest(t)' = Latest(t)
  BY <1>1, <1>2, <1>3 DEF Awaits, Latest
<1>5. Reached(c, t)
  BY <1>4 DEF Delivery
<1>6. InQueue(t) \/ InHand(c, t) => Reached(c, t)'
  BY <1>2, <1>4 DEF InQueue, InHand, Reached
<1>7. CASE c # d
  <2>1. wpc'[c] = wpc[c] /\ wev'[c] = wev[c] /\ told'[c] = told[c]
    BY <1>7, WriteEffect
  <2> QED
    BY <1>4, <1>5, <1>6, <2>1 DEF InWrite, Reached
<1>8. CASE c = d
  <2>1. /\ wpc[c] = "write" /\ wev[c] \in Event /\ told'[c][wev[c].topic] = wev[c]
        /\ \A s \in EventTopic : \/ told'[c][s] = told[c][s]
                                 \/ told'[c][s] = wev[c] /\ s = wev[c].topic
    BY <1>1, <1>3, <1>8, WriteEffect DEF Awaits
  <2>2. CASE wev[c] = Latest(t)
    <3>1. wev[c].topic = t
      BY <2>2, LatestFields
    <3> QED
      BY <1>4, <2>1, <2>2, <3>1 DEF Reached
  <2>3. CASE told[c][t] = Latest(t)
    <3>1. CASE told'[c][t] = told[c][t]
      BY <1>4, <2>3, <3>1 DEF Reached
    <3>2. CASE told'[c][t] = wev[c] /\ t = wev[c].topic
      <4>1. Known(last, wev[c]) /\ told[c][t].no <= wev[c].no
        BY <2>1 DEF OrderInv, WritersInOrder, ToldBefore
      <4>2. told[c][t].no = last[t].no
        BY <2>3, LatestFields
      <4>3. last[t].no \in Nat /\ wev[c].no \in Nat
        BY <2>1, Numbers
      <4>4. wev[c].no = last[t].no
        BY <3>2, <4>1, <4>2, <4>3 DEF Known
      <4>5. wev[c] = Latest(t)
        BY <2>1, <3>2, <4>1, <4>4, KnownLatest
      <4> QED
        BY <1>4, <3>2, <4>5 DEF Reached
    <3> QED
      BY <2>1, <3>1, <3>2
  <2> QED
    BY <1>5, <1>6, <2>2, <2>3 DEF InWrite, Reached
<1> QED
  BY <1>7, <1>8

\* Who is left when a client leaves some topics, and who is still to be reached.
LEMMA LeaveEffect ==
  ASSUME TypeInv, NEW d \in Client, NEW T \in SUBSET Topic, Leave(d, T),
         NEW c \in Client, NEW t \in EventTopic, c \in topicConns'[t]
  PROVE  /\ c \in topicConns[t] /\ (c = d => t \notin T)
         /\ rev.topic = t /\ c \in rtodo => c \in rtodo'
<1>1. t \in Topic
  BY TopicSections
<1>2. /\ topicConns' = [s \in Topic |-> IF s \in T THEN topicConns[s] \ {d} ELSE topicConns[s]]
      /\ rtodo' = IF \E s \in T : Ranging(s) THEN rtodo \ {d} ELSE rtodo
  BY DEF Leave
<1>3. c \in topicConns[t] /\ (c = d => t \notin T)
  BY <1>1, <1>2
<1>4. ASSUME rev.topic = t, c \in rtodo PROVE c \in rtodo'
  <2>1. CASE c # d
    BY <1>2, <1>4, <2>1
  <2>2. CASE c = d
    <3>1. ~\E s \in T : Ranging(s)
      BY <1>3, <1>4, <2>2 DEF Ranging
    <3> QED
      BY <1>2, <1>4, <3>1
  <2> QED
    BY <2>1, <2>2
<1> QED
  BY <1>3, <1>4

LEMMA SinceKept ==
  ASSUME since \in [Client -> [Topic -> Nat]], NEW d \in Client, NEW s, NEW n,
         since' = [since EXCEPT ![d][s] = n],
         NEW c \in Client, NEW t \in Topic, c # d \/ t # s
  PROVE  since'[c][t] = since[c][t]
  OBVIOUS

LEMMA SinceSet ==
  ASSUME since \in [Client -> [Topic -> Nat]], NEW d \in Client, NEW s \in Topic, NEW n,
         since' = [since EXCEPT ![d][s] = n]
  PROVE  since'[d][s] = n
  OBVIOUS

\* What reaches a client that waited before and waits after a request or the
\* closing of a connection.
LEMMA StillReached ==
  ASSUME Delivery, NEW c \in Client, NEW t \in EventTopic, Awaits(c, t),
         UNCHANGED <<rpc, rev, rcl, queue, last>>,
         wpc'[c] = wpc[c], wev'[c] = wev[c], told'[c] = told[c],
         rev.topic = t /\ c \in rtodo => c \in rtodo'
  PROVE  Reached(c, t)'
<1>1. Reached(c, t) /\ Latest(t)' = Latest(t)
  BY DEF Delivery, Latest
<1>2. InHand(c, t) => InHand(c, t)'
  BY <1>1, LatestFields DEF InHand
<1> QED
  BY <1>1, <1>2 DEF Reached, InQueue, InWrite

LEMMA ClientDelivers ==
  ASSUME TypeInv, Delivery, NEW d \in Client, ClientStep(d)
  PROVE  Delivery'
<1> SUFFICES ASSUME NEW c \in Client, NEW t \in EventTopic, Awaits(c, t)' PROVE Reached(c, t)'
  BY DEF Delivery
<1>0. t \in Topic /\ since \in [Client -> [Topic -> Nat]] /\ topicConns \in [Topic -> SUBSET Client]
      /\ last[t].no \in Nat /\ last[t].no <= Published /\ Published \in Nat
  BY TopicSections, Numbers DEF TypeInv, ClientsOK
<1>1. ASSUME NEW s \in Asked, SubscribeClient(d, s) PROVE Reached(c, t)'
  <2>1. /\ s \in Topic /\ topicConns' = [topicConns EXCEPT ![s] = @ \cup {d}]
        /\ since' = IF d \in topicConns[s] THEN since ELSE [since EXCEPT ![d][s] = Published]
        /\ rtodo' \in {rtodo, rtodo \cup {d}}
        /\ UNCHANGED <<conn, rpc, rev, rcl, queue, last, wpc, wev, told>>
    BY <1>1, SocketAssumption DEF SubscribeClient, Request, writerVars
  <2>2. ASSUME c = d, t = s, d \notin topicConns[s] PROVE FALSE
    <3>1. since'[c][t] = Published
      BY <1>0, <2>1, <2>2, SinceSet
    <3>2. since'[c][t] < last[t].no
      BY <2>1 DEF Awaits
    <3> QED
      BY <1>0, <3>1, <3>2
  <2>3. c \in topicConns[t] /\ since'[c][t] = since[c][t]
    <3>1. c \in topicConns'[t]
      BY DEF Awaits
    <3>2. c \in topicConns[t]
      BY <1>0, <2>1, <2>2, <3>1
    <3> QED
      BY <1>0, <2>1, <2>2, <3>2, SinceKept
  <2>4. Awaits(c, t)
    BY <2>1, <2>3 DEF Awaits
  <2> QED
    BY <2>1, <2>4, StillReached
<1>2. ASSUME NEW s \in Asked, UnsubscribeClient(d, s) PROVE Reached(c, t)'
  <2>1. {s} \in SUBSET Topic
    BY SocketAssumption
  <2>2. /\ Leave(d, {s}) /\ since' = [since EXCEPT ![d][s] = 0]
        /\ UNCHANGED <<conn, rpc, rev, rcl, queue, last, wpc, wev, told>>
    BY <1>2 DEF UnsubscribeClient, Request, writerVars
  <2>3. /\ c \in topicConns[t] /\ (c = d => t \notin {s})
        /\ rev.topic = t /\ c \in rtodo => c \in rtodo'
    BY <2>1, <2>2, LeaveEffect DEF Awaits
  <2>4. since'[c][t] = since[c][t]
    BY <1>0, <2>2, <2>3, SinceKept
  <2>5. Awaits(c, t)
    BY <2>2, <2>3, <2>4 DEF Awaits
  <2> QED
    BY <2>2, <2>3, <2>5, StillReached
<1>3. CASE CloseConn(d)
  <2>1. c # d
    BY <1>3, CloseEffect DEF Awaits
  <2>2. /\ conn'[c] = conn[c] /\ wpc'[c] = wpc[c] /\ wev'[c] = wev[c] /\ told'[c] = told[c]
        /\ since'[c] = since[c]
        /\ Leave(d, connTopics[d]) /\ connTopics[d] \in SUBSET Topic
        /\ UNCHANGED <<rpc, rev, rcl, queue, last>>
    BY <1>3, <2>1, CloseEffect
  <2>3. c \in topicConns[t] /\ (rev.topic = t /\ c \in rtodo => c \in rtodo')
    BY <2>2, LeaveEffect DEF Awaits
  <2>4. Awaits(c, t)
    BY <2>2, <2>3 DEF Awaits
  <2> QED
    BY <2>2, <2>3, <2>4, StillReached
<1> QED
  BY <1>1, <1>2, <1>3 DEF ClientStep

LEMMA DeliveryStep ==
  TypeInv /\ OrderInv /\ IndexInv /\ Delivery /\ CountsFinite' /\ [Next]_vars => Delivery'
<1> SUFFICES ASSUME TypeInv, OrderInv, IndexInv, Delivery, CountsFinite', [Next]_vars
             PROVE  Delivery'
  OBVIOUS
<1>1. CASE UNCHANGED <<busVars, socketVars>>
  BY <1>1 DEF Delivery, Awaits, Reached, InQueue, InHand, InWrite, Latest,
     busVars, socketVars, clientVars, readerVars, writerVars
<1>2. CASE StreamNext /\ UNCHANGED socketVars
  BY <1>1, <1>2, StreamPublishes, PublishDelivers
<1>3. CASE SocketNext
  BY <1>3, ReaderDelivers, WriteDelivers, ClientDelivers DEF SocketNext
<1> QED
  BY <1>1, <1>2, <1>3 DEF Next, vars

LEMMA DeliveryInvariant == Spec => []Delivery
<1>1. Init => Delivery
  <2> SUFFICES ASSUME Init, NEW c \in Client, NEW t \in EventTopic PROVE c \notin topicConns[t]
    BY DEF Delivery, Awaits
  <2> QED
    BY TopicSections DEF Init, SocketInit
<1>2. CountInv' => CountsFinite'
  BY FiniteCounts, PTL
<1> QED
  BY <1>1, <1>2, DeliveryStep, OrderInvariant, NotificationsInvariant, PTL DEF Spec

\* Once everything has come to rest, a client that stayed subscribed to a viewer
\* count has been told the number of addresses that watch now, for any number of
\* clients, watchers and streamers, unless the queue was full at that moment.
THEOREM ToldTheCountTheorem == Spec => []ToldTheCount
<1>1. TypeInv /\ Delivery /\ CountCurrent => ToldTheCount
  <2> SUFFICES ASSUME TypeInv, Delivery, CountCurrent, NEW c \in Client, NEW u \in User,
                      NEW t, t = ViewersTopic(u), AtRest(c), c \in topicConns[t],
                      since[c][t] < last[t].no, last[t].queued
               PROVE  told[c][t].viewers = Cardinality(Audience(u)) /\ told[c][t].no = last[t].no
    BY DEF ToldTheCount
  <2>1. t \in EventTopic
    BY TopicsApart
  <2>2. Awaits(c, t)
    BY DEF Awaits, AtRest
  <2>3. ~InQueue(t) /\ ~InHand(c, t) /\ ~InWrite(c, t)
    BY DEF InQueue, InHand, InWrite, AtRest
  <2>4. told[c][t] = Latest(t)
    BY <2>1, <2>2, <2>3 DEF Delivery, Reached
  <2> QED
    BY <2>4, LatestFields DEF CountCurrent
<1> QED
  BY <1>1, DeliveryInvariant, NotificationsInvariant, CountTheorem, PTL
=============================================================================
