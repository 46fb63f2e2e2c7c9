------------------------------ MODULE EventBus ------------------------------
(***************************************************************************)
(* The in-memory event bus (infra/mem_pubsub) with the one subscriber the  *)
(* program creates, that of the main WebSocket.  A topic is the sequence   *)
(* of its sections: "stream.7.viewers" is <<"stream", 7, "viewers">>.      *)
(*                                                                         *)
(* Publish is one step.  It holds bus.mu.RLock, so no subscription changes *)
(* meanwhile, and as it never waits, a reader that takes events out of the *)
(* queue during the call could as well have taken them before or after it: *)
(* this needs a queue with room for the copies of one event, of which      *)
(* there are at most three.  The copies of a StreamStarted event could     *)
(* alternate with those of a StreamViewers event; no property orders the   *)
(* events of different topics.                                             *)
(***************************************************************************)
EXTENDS Integers, Sequences, FiniteSets

CONSTANTS
  User,     \* streamers
  BusCap    \* subEventsMaxBuf, 16 in the code

ASSUME BusAssumption == IsFiniteSet(User) /\ BusCap \in Nat /\ BusCap >= 3

StreamTopic     == <<"stream">>
StartedTopic(u) == <<"stream", u, "started">>
ViewersTopic(u) == <<"stream", u, "viewers">>

\* The topics of events, and all their sections: what it makes sense to ask for.
EventTopic  == {StartedTopic(u) : u \in User} \cup {ViewersTopic(u) : u \in User}
Sections(t) == {SubSeq(t, 1, n) : n \in 1..Len(t)}
Topic       == UNION {Sections(t) : t \in EventTopic}

\* An event: "viewers" is the number a StreamViewers event carries, "no" tells
\* events apart.
Event   == [topic : EventTopic, viewers : Nat, no : Nat]
NoEvent == [topic |-> StreamTopic, viewers |-> 0, no |-> 0]

VARIABLES
  topicSubs,  \* topics the subscriber is in bus.topicSubs of
  queue,      \* Subscriber.events
  last        \* history: per topic the last event, and whether it was queued

busVars == <<topicSubs, queue, last>>

BusInit ==
  /\ topicSubs = {} /\ queue = <<>>
  /\ last = [t \in EventTopic |-> [no |-> 0, viewers |-> 0, queued |-> FALSE]]

\* Events published so far on the topic or any other one.
Published == LET nos == {last[t].no : t \in EventTopic}
             IN CHOOSE n \in nos : \A m \in nos : m <= n

Subscribe(t)    == topicSubs' = topicSubs \cup {t}
Unsubscribe(T)  == topicSubs' = topicSubs \ T

\* One copy for each section that is subscribed to, as long as there is room:
\* the rest is dropped.
PublishUnbounded(t, viewers) ==
  LET ev == [topic |-> t, viewers |-> viewers, no |-> Published + 1]
  IN /\ queue' = queue \o [i \in 1..Cardinality(Sections(t) \cap topicSubs) |-> ev]
     /\ last' = [last EXCEPT ![t] = [no |-> ev.no, viewers |-> viewers, queued |-> TRUE]]
     /\ UNCHANGED topicSubs

PublishNewestFirst(t, viewers) ==
  LET ev == [topic |-> t, viewers |-> viewers, no |-> Published + 1]
      n  == Cardinality(Sections(t) \cap topicSubs)
      room == BusCap - Len(queue)
  IN /\ queue' = [i \in 1..(IF n < room THEN n ELSE room) |-> ev] \o queue
     /\ last' = [last EXCEPT ![t] = [no |-> ev.no, viewers |-> viewers,
                                     queued |-> room > 0]]
     /\ UNCHANGED topicSubs

Publish(t, viewers) ==
  LET ev == [topic |-> t, viewers |-> viewers, no |-> Published + 1]
      n  == Cardinality(Sections(t) \cap topicSubs)
      room == BusCap - Len(queue)
  IN /\ queue' = queue \o [i \in 1..(IF n < room THEN n ELSE room) |-> ev]
     /\ last' = [last EXCEPT ![t] = [no |-> ev.no, viewers |-> viewers,
                                     queued |-> room > 0]]
     /\ UNCHANGED topicSubs

\* The receive of Subscriber.Read.
Read ==
  /\ queue # <<>> /\ queue' = Tail(queue)
  /\ UNCHANGED <<topicSubs, last>>
=============================================================================
