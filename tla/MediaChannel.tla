---------------------------- MODULE MediaChannel ----------------------------
(***************************************************************************)
(* The media channel (transport/media_channel/channel.go) between the RTMP *)
(* sessions that publish and the viewers that watch.  A session registers  *)
(* its publisher under the ID of the streaming user, viewers find it there *)
(* by the ID in their URL, and both sides go away in any order.            *)
(*                                                                         *)
(* The sections under mc.mu are single steps; AddPublisher and             *)
(* RemovePublisher, AddConsumer and RemoveConsumer are each two sections   *)
(* with a gap between them.  What happens inside a publisher is one step   *)
(* here and is detailed in Publisher.                                      *)
(***************************************************************************)
EXTENDS FiniteSets

CONSTANTS
  Session,    \* RTMP connections whose stream key was accepted
  Consumer,   \* viewer connections
  Id,         \* publisher IDs, that is users
  SessionId,  \* the ID of each session's publisher
  ViewedId,   \* the publisher ID in each viewer's URL
  Nil,        \* the nil publisher
  Overlap     \* may two sessions of one user be inside AddPublisher at once?

ASSUME IdsAssumption ==
  /\ SessionId \in [Session -> Id] /\ ViewedId \in [Consumer -> Id]
  /\ Nil \notin Session
  /\ Overlap \in BOOLEAN

VARIABLES
  publishers, \* mc.publishers
  spc,        \* where each session is in onConn
  members,    \* pub.consumers of each session's publisher
  vpc,        \* where each viewer is in wsConsumer.run
  target,     \* the publisher a viewer is calling, once it has looked it up
  closed,     \* consumers whose Stop has closed the channel
  panic       \* "none", or what the runtime ended the process with

vars == <<publishers, spc, members, vpc, target, closed, panic>>

Init ==
  /\ publishers = [i \in Id |-> Nil]
  /\ spc = [s \in Session |-> "new"]
  /\ members = [s \in Session |-> {}]
  /\ vpc = [c \in Consumer |-> "idle"]
  /\ target = [c \in Consumer |-> Nil]
  /\ closed = {} /\ panic = "none"

getPublisher(i) == publishers[i]
Goto(s, l) == spc' = [spc EXCEPT ![s] = l]
-----------------------------------------------------------------------------
(***************************************************************************)
(* An RTMP session.                                                        *)
(***************************************************************************)

\* AddPublisher looks for an earlier registration under RLock ...
CheckExistsNever(s) ==
  /\ spc[s] = "new" /\ Goto(s, "insert")
  /\ UNCHANGED <<publishers, members, vpc, target, closed, panic>>

CheckExists(s) ==
  /\ spc[s] = "new"
  /\ Overlap \/ \A t \in Session : SessionId[t] = SessionId[s] => spc[t] # "insert"
  /\ Goto(s, IF getPublisher(SessionId[s]) = Nil THEN "insert" ELSE "rejected")
  /\ UNCHANGED <<publishers, members, vpc, target, closed, panic>>

\* ... and then writes the entry under Lock, whatever is there by now.
InsertPublisher(s) ==
  /\ spc[s] = "insert" /\ Goto(s, "live")
  /\ publishers' = [publishers EXCEPT ![SessionId[s]] = s]
  /\ UNCHANGED <<members, vpc, target, closed, panic>>

\* wsConsumer.Stop closes the channel; the compare-and-swap makes a second
\* call harmless, where a second close would panic.
StopWithoutSwap(S) ==
  /\ closed' = closed \cup S
  /\ panic' = IF S \cap closed = {} THEN panic ELSE "close of closed channel"

Stop(S) == closed' = closed \cup S /\ UNCHANGED panic

\* stopConsumer.
StopOnly(s, S) == s \in Session /\ Stop(S) /\ UNCHANGED members

RemoveMembers(s, S) ==
  /\ members' = [members EXCEPT ![s] = @ \ S]
  /\ Stop(S)

\* SendMessage stops the consumers whose queue is full.  It sends to all of
\* its members: if somebody else closed the channel of one, the send panics.
SendMessage(s, full) ==
  /\ spc[s] = "live" /\ full \subseteq members[s]
  /\ IF members[s] \cap closed = {} THEN RemoveMembers(s, full)
     ELSE panic' = "send on closed channel" /\ UNCHANGED <<members, closed>>
  /\ UNCHANGED <<publishers, spc, vpc, target>>

\* RemovePublisher deletes the entry of its ID ...
DeletePublisher(s) ==
  /\ spc[s] = "live" /\ Goto(s, "stop")
  /\ publishers' = [publishers EXCEPT ![SessionId[s]] = Nil]
  /\ UNCHANGED <<members, vpc, target, closed, panic>>

\* ... and stops the publisher, which stops its consumers.
PubStop(s) ==
  /\ spc[s] = "stop" /\ Goto(s, "ended")
  /\ Stop(members[s])
  /\ UNCHANGED <<publishers, members, vpc, target>>
-----------------------------------------------------------------------------
(***************************************************************************)
(* A viewer.                                                               *)
(***************************************************************************)
FindUnchecked(c, next) ==
  /\ vpc' = [vpc EXCEPT ![c] = next]
  /\ target' = [target EXCEPT ![c] = getPublisher(ViewedId[c])]
  /\ UNCHANGED <<publishers, spc, members, closed, panic>>

Find(c, next) ==
  LET pub == getPublisher(ViewedId[c]) IN
  /\ vpc' = [vpc EXCEPT ![c] = IF pub = Nil THEN "done" ELSE next]
  /\ target' = [target EXCEPT ![c] = pub]
  /\ UNCHANGED <<publishers, spc, members, closed, panic>>

\* The call into the publisher returns.
Return(c, next) ==
  /\ vpc' = [vpc EXCEPT ![c] = next] /\ target' = [target EXCEPT ![c] = Nil]

\* AddConsumer: ErrNoPublisher, or on to pub.AddConsumer, ...
Lookup(c) == vpc[c] = "idle" /\ Find(c, "join")

\* ... which inserts the consumer, or stops it because its queue cannot take
\* the initial data.
Join(c) ==
  /\ vpc[c] = "join" /\ Return(c, "watch")
  /\ members' = [members EXCEPT ![target[c]] = @ \cup {c}]
  /\ UNCHANGED <<publishers, spc, closed, panic>>

Refuse(c) ==
  /\ vpc[c] = "join" /\ Return(c, "done")
  /\ RemoveMembers(target[c], {c})
  /\ UNCHANGED <<publishers, spc>>

\* RemoveConsumer looks the publisher up again, by ID: it may be gone, or be
\* another session's.
Leave(c) == vpc[c] = "watch" /\ Find(c, "remove")

RemoveConsumer(c) ==
  /\ vpc[c] = "remove" /\ Return(c, "done")
  /\ RemoveMembers(target[c], {c})
  /\ UNCHANGED <<publishers, spc>>

SessionStep(s) ==
  \/ CheckExists(s) \/ InsertPublisher(s)
  \/ \E full \in SUBSET members[s] : SendMessage(s, full)
  \/ DeletePublisher(s) \/ PubStop(s)

ViewerStep(c) ==
  \/ Lookup(c) \/ Join(c) \/ Refuse(c) \/ Leave(c) \/ RemoveConsumer(c)

Next ==
  /\ panic = "none"
  /\ (\E s \in Session : SessionStep(s)) \/ (\E c \in Consumer : ViewerStep(c))

Spec == Init /\ [][Next]_vars
-----------------------------------------------------------------------------
\* The types, and that a call into a publisher never goes to a nil one: the
\* callers of getPublisher test its result.
TypeOK ==
  /\ publishers \in [Id -> Session \cup {Nil}]
  /\ spc \in [Session -> {"new", "insert", "rejected", "live", "stop", "ended"}]
  /\ members \in [Session -> SUBSET Consumer]
  /\ vpc \in [Consumer -> {"idle", "join", "watch", "remove", "done"}]
  /\ target \in [Consumer -> Session \cup {Nil}]
  /\ \A c \in Consumer : vpc[c] \in {"join", "remove"} => target[c] # Nil
  /\ closed \subseteq Consumer
  /\ panic \in {"none", "send on closed channel", "close of closed channel"}

\* core/media/media.go:14-16: AddPublisher refuses a publisher whose ID is
\* taken.  So the channel knows exactly the sessions that are streaming, each
\* under its own ID, and no session is registered over another one or loses
\* its entry to the RemovePublisher of another one.
RegistryExact ==
  \A s \in Session : spc[s] = "live" <=> publishers[SessionId[s]] = s

\* core/media/consumer.go:13-14: a stopped consumer is sent no more messages,
\* and Stop may be called again.  Otherwise a send or a second close panics in
\* the goroutine of a session and takes every stream of the process with it:
\* viewers leave through whatever publisher has the ID now, so this needs the
\* registry to be exact.
NoPanic == panic = "none"

\* A viewer that left while its publisher was streaming is out of that
\* publisher's map, and its channel is closed: RemoveConsumer reached the
\* publisher that AddConsumer had reached.
LeftIsStopped ==
  \A c \in Consumer, s \in Session :
    vpc[c] = "done" /\ spc[s] = "live" => c \notin members[s]
=============================================================================
