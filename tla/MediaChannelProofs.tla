-------------------------- MODULE MediaChannelProofs --------------------------
(***************************************************************************)
(* Proofs about MediaChannel for any number of sessions, viewers and       *)
(* users, when the connections of one user do not overlap in AddPublisher. *)
(***************************************************************************)
EXTENDS MediaChannel, TLAPS

(***************************************************************************)
(* Types hold whether or not sessions overlap.                             *)
(***************************************************************************)
LEMMA TypeStep == TypeOK /\ [Next]_vars => TypeOK'
<1> SUFFICES ASSUME TypeOK, [Next]_vars PROVE TypeOK'
  OBVIOUS
<1> USE IdsAssumption DEF TypeOK
<1>1. CASE UNCHANGED vars
  BY <1>1 DEF vars
<1>2. ASSUME NEW s \in Session, CheckExists(s) PROVE TypeOK'
  BY <1>2 DEF CheckExists, Goto
<1>3. ASSUME NEW s \in Session, InsertPublisher(s) PROVE TypeOK'
  BY <1>3 DEF InsertPublisher, Goto
<1>4. ASSUME NEW s \in Session, NEW full \in SUBSET members[s],
             SendMessage(s, full)
      PROVE  TypeOK'
  <2>1. CASE members[s] \cap closed = {}
    <3>1. /\ members' = [members EXCEPT ![s] = @ \ full]
          /\ closed' = closed \cup full
          /\ UNCHANGED <<publishers, spc, vpc, target, panic>>
      BY <1>4, <2>1 DEF SendMessage, RemoveMembers, Stop
    <3>2. members[s] \subseteq Consumer
      OBVIOUS
    <3>3. members' \in [Session -> SUBSET Consumer] /\ closed' \subseteq Consumer
      BY <3>1, <3>2
    <3> QED
      BY <3>1, <3>3
  <2>2. CASE members[s] \cap closed # {}
    BY <1>4, <2>2 DEF SendMessage
  <2> QED
    BY <2>1, <2>2
<1>5. ASSUME NEW s \in Session, DeletePublisher(s) PROVE TypeOK'
  BY <1>5 DEF DeletePublisher, Goto
<1>6. ASSUME NEW s \in Session, PubStop(s) PROVE TypeOK'
  BY <1>6 DEF PubStop, Stop, Goto
<1>7. ASSUME NEW c \in Consumer, Lookup(c) PROVE TypeOK'
  BY <1>7 DEF Lookup, Find, getPublisher
<1>8. ASSUME NEW c \in Consumer, Join(c) PROVE TypeOK'
  BY <1>8 DEF Join, Return
<1>9. ASSUME NEW c \in Consumer, Refuse(c) PROVE TypeOK'
  BY <1>9 DEF Refuse, RemoveMembers, Stop, Return
<1>10. ASSUME NEW c \in Consumer, Leave(c) PROVE TypeOK'
  BY <1>10 DEF Leave, Find, getPublisher
<1>11. ASSUME NEW c \in Consumer, RemoveConsumer(c) PROVE TypeOK'
  BY <1>11 DEF RemoveConsumer, RemoveMembers, Stop, Return
<1> QED
  BY <1>1, <1>2, <1>3, <1>4, <1>5, <1>6, <1>7, <1>8, <1>9, <1>10, <1>11
     DEF Next, SessionStep, ViewerStep

\* The types of the channel's state, and that no call goes to a nil publisher.
THEOREM ChannelTypes == Spec => []TypeOK
<1>1. Init => TypeOK
  BY IdsAssumption DEF Init, TypeOK
<1> QED
  BY <1>1, TypeStep, PTL DEF Spec
-----------------------------------------------------------------------------
(***************************************************************************)
(* The registry.  A session that is about to insert itself still finds its *)
(* entry empty, because no other session of its user is doing the same.    *)
(***************************************************************************)
InsertingAlone ==
  \A s \in Session :
    spc[s] = "insert" =>
      /\ publishers[SessionId[s]] = Nil
      /\ \A t \in Session :
           SessionId[t] = SessionId[s] /\ spc[t] = "insert" => t = s

OwnEntry ==
  \A i \in Id : publishers[i] # Nil => SessionId[publishers[i]] = i

RegistryInv == TypeOK /\ RegistryExact /\ InsertingAlone /\ OwnEntry

LEMMA RegistryStep ==
  ASSUME Overlap = FALSE
  PROVE  RegistryInv /\ [Next]_vars => RegistryInv'
<1> SUFFICES ASSUME RegistryInv, [Next]_vars PROVE RegistryInv'
  OBVIOUS
<1>0. TypeOK'
  BY TypeStep DEF RegistryInv
<1> SUFFICES RegistryExact' /\ InsertingAlone' /\ OwnEntry'
  BY <1>0 DEF RegistryInv
<1> USE IdsAssumption DEF RegistryInv, TypeOK, RegistryExact, InsertingAlone, OwnEntry
<1>1. CASE UNCHANGED <<publishers, spc>>
  BY <1>1
<1>2. ASSUME NEW s \in Session, CheckExists(s)
      PROVE  RegistryExact' /\ InsertingAlone' /\ OwnEntry'
  <2> DEFINE next == IF publishers[SessionId[s]] = Nil THEN "insert" ELSE "rejected"
  <2>1. /\ spc[s] = "new" /\ spc' = [spc EXCEPT ![s] = next]
        /\ \A t \in Session : SessionId[t] = SessionId[s] => spc[t] # "insert"
        /\ UNCHANGED publishers
    BY <1>2 DEF CheckExists, Goto, getPublisher
  <2>2. next # "live" /\ (next = "insert" => publishers[SessionId[s]] = Nil)
    OBVIOUS
  <2> HIDE DEF next
  <2>3. RegistryExact'
    <3> SUFFICES ASSUME NEW t \in Session
                 PROVE  spc'[t] = "live" <=> spc[t] = "live"
      BY <2>1
    <3> QED
      BY <2>1, <2>2
  <2>4. ASSUME NEW t \in Session, spc'[t] = "insert"
        PROVE  publishers[SessionId[t]] = Nil
    BY <2>1, <2>2, <2>4
  <2>5. ASSUME NEW t \in Session, spc'[t] = "insert", NEW u \in Session,
               SessionId[u] = SessionId[t], spc'[u] = "insert"
        PROVE  u = t
    <3>1. CASE t = s
      BY <2>1, <2>5, <3>1
    <3>2. CASE u = s
      BY <2>1, <2>5, <3>2
    <3>3. CASE t # s /\ u # s
      BY <2>1, <2>5, <3>3
    <3> QED
      BY <3>1, <3>2, <3>3
  <2>6. OwnEntry'
    BY <2>1
  <2>7. InsertingAlone'
    BY <2>1, <2>4, <2>5
  <2> QED
    BY <2>3, <2>6, <2>7
<1>3. ASSUME NEW s \in Session, InsertPublisher(s)
      PROVE  RegistryExact' /\ InsertingAlone' /\ OwnEntry'
  <2>1. /\ spc[s] = "insert" /\ spc' = [spc EXCEPT ![s] = "live"]
        /\ publishers' = [publishers EXCEPT ![SessionId[s]] = s]
    BY <1>3 DEF InsertPublisher, Goto
  <2>2. ASSUME NEW t \in Session
        PROVE  spc'[t] = "live" <=> publishers'[SessionId[t]] = t
    <3>1. CASE SessionId[t] = SessionId[s]
      <4>1. publishers'[SessionId[t]] = s
        BY <2>1, <3>1
      <4>2. CASE t = s
        BY <2>1, <4>1, <4>2
      <4>3. CASE t # s
        <5>1. spc[t] # "live"
          <6>1. publishers[SessionId[s]] = Nil
            BY <2>1
          <6>2. publishers[SessionId[t]] # t
            BY <3>1, <4>3, <6>1
          <6> QED
            BY <6>2
        <5> QED
          BY <2>1, <4>1, <4>3, <5>1
      <4> QED
        BY <4>2, <4>3
    <3>2. CASE SessionId[t] # SessionId[s]
      <4>1. publishers'[SessionId[t]] = publishers[SessionId[t]]
        BY <2>1, <3>2
      <4>2. spc'[t] = spc[t]
        BY <2>1, <3>2
      <4> QED
        BY <4>1, <4>2
    <3> QED
      BY <3>1, <3>2
  <2>3. ASSUME NEW t \in Session, spc'[t] = "insert"
        PROVE  /\ publishers'[SessionId[t]] = Nil
               /\ \A u \in Session :
                    SessionId[u] = SessionId[t] /\ spc'[u] = "insert" => u = t
    BY <2>1, <2>3
  <2>4. OwnEntry'
    BY <2>1
  <2> QED
    BY <2>2, <2>3, <2>4
<1>4. ASSUME NEW s \in Session, DeletePublisher(s)
      PROVE  RegistryExact' /\ InsertingAlone' /\ OwnEntry'
  <2>1. /\ spc[s] = "live" /\ spc' = [spc EXCEPT ![s] = "stop"]
        /\ publishers' = [publishers EXCEPT ![SessionId[s]] = Nil]
    BY <1>4 DEF DeletePublisher, Goto
  <2>2. ASSUME NEW t \in Session
        PROVE  spc'[t] = "live" <=> publishers'[SessionId[t]] = t
    <3>1. CASE SessionId[t] = SessionId[s]
      <4>1. publishers'[SessionId[t]] = Nil
        BY <2>1, <3>1
      <4>2. CASE t = s
        BY <2>1, <4>1, <4>2
      <4>3. CASE t # s
        <5>1. spc[t] # "live"
          <6>1. publishers[SessionId[s]] = s
            BY <2>1
          <6>2. publishers[SessionId[t]] # t
            BY <3>1, <4>3, <6>1
          <6> QED
            BY <6>2
        <5> QED
          BY <2>1, <4>1, <4>3, <5>1
      <4> QED
        BY <4>2, <4>3
    <3>2. CASE SessionId[t] # SessionId[s]
      <4>1. publishers'[SessionId[t]] = publishers[SessionId[t]]
        BY <2>1, <3>2
      <4>2. spc'[t] = spc[t]
        BY <2>1, <3>2
      <4> QED
        BY <4>1, <4>2
    <3> QED
      BY <3>1, <3>2
  <2>3. ASSUME NEW t \in Session, spc'[t] = "insert"
        PROVE  /\ publishers'[SessionId[t]] = Nil
               /\ \A u \in Session :
                    SessionId[u] = SessionId[t] /\ spc'[u] = "insert" => u = t
    BY <2>1, <2>3
  <2>4. OwnEntry'
    BY <2>1
  <2> QED
    BY <2>2, <2>3, <2>4
<1>5. ASSUME NEW s \in Session, PubStop(s)
      PROVE  RegistryExact' /\ InsertingAlone' /\ OwnEntry'
  BY <1>5 DEF PubStop, Goto
<1>6. ASSUME NEW s \in Session, NEW full \in SUBSET members[s],
             SendMessage(s, full)
      PROVE  UNCHANGED <<publishers, spc>>
  BY <1>6 DEF SendMessage
<1>7. ASSUME NEW c \in Consumer, ViewerStep(c)
      PROVE  UNCHANGED <<publishers, spc>>
  BY <1>7 DEF ViewerStep, Lookup, Join, Refuse, Leave, RemoveConsumer, Find
<1> QED
  BY <1>1, <1>2, <1>3, <1>4, <1>5, <1>6, <1>7 DEF Next, SessionStep, vars

\* The channel knows exactly the sessions that are streaming (RegistryExact),
\* provided AddPublisher runs for one connection of a user at a time.
THEOREM RegistryTheorem ==
  ASSUME Overlap = FALSE
  PROVE  Spec => []RegistryExact
<1>1. Init => RegistryInv
  BY IdsAssumption DEF Init, RegistryInv, TypeOK, RegistryExact, InsertingAlone, OwnEntry
<1>2. RegistryInv => RegistryExact
  BY DEF RegistryInv
<1> QED
  BY <1>1, <1>2, RegistryStep, PTL DEF Spec
-----------------------------------------------------------------------------
(***************************************************************************)
(* Consumers and their publishers.  A consumer is in one map at most, that *)
(* of a publisher with the ID it asked for, and while that publisher       *)
(* streams the consumer's handler either has not left or is leaving        *)
(* through that very publisher, which the registry still leads to.         *)
(***************************************************************************)
MemberOK(s, c) ==
  /\ SessionId[s] = ViewedId[c]
  /\ vpc[c] \in {"watch", "remove", "done"}
  /\ spc[s] \in {"live", "stop", "ended"}
  /\ \A t \in Session : c \in members[t] => t = s
  /\ spc[s] = "live" => /\ c \notin closed /\ vpc[c] # "done"
                        /\ vpc[c] = "remove" => target[c] = s

JoiningOK(c) ==
  /\ vpc[c] \in {"idle", "join"} => c \notin closed
  /\ vpc[c] = "join" => /\ SessionId[target[c]] = ViewedId[c]
                        /\ spc[target[c]] \in {"live", "stop", "ended"}

MembershipInv ==
  /\ RegistryInv
  /\ \A s \in Session, c \in Consumer : c \in members[s] => MemberOK(s, c)
  /\ \A c \in Consumer : JoiningOK(c)
  /\ panic = "none"

LEMMA MembershipStep ==
  ASSUME Overlap = FALSE
  PROVE  MembershipInv /\ [Next]_vars => MembershipInv'
<1> SUFFICES ASSUME MembershipInv, [Next]_vars PROVE MembershipInv'
  OBVIOUS
<1>0. RegistryInv /\ RegistryInv' /\ TypeOK /\ TypeOK'
  BY RegistryStep DEF MembershipInv, RegistryInv
<1> DEFINE Kept ==
      /\ \A s \in Session, c \in Consumer : c \in members[s] => MemberOK(s, c)
      /\ \A c \in Consumer : JoiningOK(c)
      /\ panic = "none"
<1> SUFFICES Kept'
  BY <1>0 DEF MembershipInv
<1>a. Kept
  BY DEF MembershipInv
<1> USE IdsAssumption, <1>0, <1>a DEF TypeOK
<1>1. CASE UNCHANGED vars
  BY <1>1 DEF vars, MemberOK, JoiningOK
<1>2. ASSUME NEW s \in Session, CheckExists(s) PROVE Kept'
  BY <1>2 DEF CheckExists, Goto, MemberOK, JoiningOK
<1>3. ASSUME NEW s \in Session, InsertPublisher(s) PROVE Kept'
  BY <1>3 DEF InsertPublisher, Goto, MemberOK, JoiningOK
<1>4. ASSUME NEW s \in Session, NEW full \in SUBSET members[s],
             SendMessage(s, full)
      PROVE  Kept'
  <2>1. spc[s] = "live" /\ full \subseteq members[s] /\ members[s] \subseteq Consumer
    BY <1>4 DEF SendMessage
  <2>2. members[s] \cap closed = {}
    BY <2>1 DEF MemberOK
  <2>3. /\ members' = [members EXCEPT ![s] = @ \ full]
        /\ closed' = closed \cup full
        /\ UNCHANGED <<publishers, spc, vpc, target, panic>>
    BY <1>4, <2>2 DEF SendMessage, RemoveMembers, Stop
  <2>4. \A t \in Session, c \in Consumer :
          c \in members'[t] <=> c \in members[t] /\ ~(t = s /\ c \in full)
    BY <2>3
  <2>5. ASSUME NEW t \in Session, NEW c \in Consumer, c \in members'[t]
        PROVE  MemberOK(t, c)'
    <3>1. c \in members[t] /\ MemberOK(t, c)
      BY <2>4, <2>5
    <3>2. c \notin full
      <4>1. SUFFICES ASSUME c \in full PROVE FALSE
        OBVIOUS
      <4>2. t = s
        BY <2>1, <3>1, <4>1 DEF MemberOK
      <4> QED
        BY <2>4, <2>5, <4>1, <4>2
    <3>3. \A u \in Session : c \in members'[u] => u = t
      BY <2>4, <3>1 DEF MemberOK
    <3> QED
      BY <2>3, <3>1, <3>2, <3>3 DEF MemberOK
  <2>6. ASSUME NEW c \in Consumer PROVE JoiningOK(c)'
    <3>1. vpc[c] \in {"idle", "join"} => c \notin full
      BY <2>1 DEF MemberOK
    <3> QED
      BY <2>3, <3>1 DEF JoiningOK
  <2> QED
    BY <2>3, <2>5, <2>6
<1>5. ASSUME NEW s \in Session, DeletePublisher(s) PROVE Kept'
  BY <1>5 DEF DeletePublisher, Goto, MemberOK, JoiningOK
<1>6. ASSUME NEW s \in Session, PubStop(s) PROVE Kept'
  <2>1. /\ spc[s] = "stop" /\ spc' = [spc EXCEPT ![s] = "ended"]
        /\ closed' = closed \cup members[s]
        /\ UNCHANGED <<publishers, members, vpc, target, panic>>
    BY <1>6 DEF PubStop, Stop, Goto
  <2>2. ASSUME NEW t \in Session, NEW c \in Consumer, c \in members'[t]
        PROVE  MemberOK(t, c)'
    <3>1. c \in members[t] /\ MemberOK(t, c)
      BY <2>1, <2>2
    <3>2. CASE t = s
      BY <2>1, <3>1, <3>2 DEF MemberOK
    <3>3. CASE t # s
      <4>1. c \notin members[s]
        BY <3>1, <3>3 DEF MemberOK
      <4> QED
        BY <2>1, <3>1, <3>3, <4>1 DEF MemberOK
    <3> QED
      BY <3>2, <3>3
  <2>3. ASSUME NEW c \in Consumer PROVE JoiningOK(c)'
    <3>1. vpc[c] \in {"idle", "join"} => c \notin members[s]
      BY DEF MemberOK
    <3> QED
      BY <2>1, <3>1 DEF JoiningOK
  <2> QED
    BY <2>1, <2>2, <2>3
<1>7. ASSUME NEW c \in Consumer, Lookup(c) PROVE Kept'
  <2> DEFINE pub == publishers[ViewedId[c]]
  <2>1. /\ vpc[c] = "idle" /\ UNCHANGED <<publishers, spc, members, closed, panic>>
        /\ vpc' = [vpc EXCEPT ![c] = IF pub = Nil THEN "done" ELSE "join"]
        /\ target' = [target EXCEPT ![c] = pub]
    BY <1>7 DEF Lookup, Find, getPublisher
  <2>2. pub # Nil => /\ pub \in Session /\ SessionId[pub] = ViewedId[c]
                     /\ spc[pub] = "live"
    <3> SUFFICES ASSUME pub # Nil
                 PROVE  pub \in Session /\ SessionId[pub] = ViewedId[c] /\ spc[pub] = "live"
      OBVIOUS
    <3>1. ViewedId[c] \in Id
      OBVIOUS
    <3>2. pub \in Session
      BY <3>1
    <3>3. SessionId[pub] = ViewedId[c]
      BY <3>1 DEF RegistryInv, OwnEntry
    <3>4. publishers[SessionId[pub]] = pub
      BY <3>3
    <3> QED
      BY <3>2, <3>3, <3>4 DEF RegistryInv, RegistryExact
  <2>3. \A s \in Session : c \notin members[s]
    BY <2>1 DEF MemberOK
  <2> HIDE DEF pub
  <2>4. ASSUME NEW s \in Session, NEW d \in Consumer, d \in members'[s]
        PROVE  MemberOK(s, d)'
    BY <2>1, <2>3, <2>4 DEF MemberOK
  <2>5. ASSUME NEW d \in Consumer PROVE JoiningOK(d)'
    BY <2>1, <2>2, <2>5 DEF JoiningOK
  <2> QED
    BY <2>1, <2>4, <2>5
<1>8. ASSUME NEW c \in Consumer, Join(c) PROVE Kept'
  BY <1>8 DEF Join, Return, MemberOK, JoiningOK
<1>9. ASSUME NEW c \in Consumer, Refuse(c) PROVE Kept'
  BY <1>9 DEF Refuse, RemoveMembers, Stop, Return, MemberOK, JoiningOK
<1>10. ASSUME NEW c \in Consumer, Leave(c) PROVE Kept'
  BY <1>10 DEF Leave, Find, getPublisher, RegistryInv, RegistryExact, MemberOK, JoiningOK
<1>11. ASSUME NEW c \in Consumer, RemoveConsumer(c) PROVE Kept'
  BY <1>11 DEF RemoveConsumer, RemoveMembers, Stop, Return, MemberOK, JoiningOK
<1> QED
  BY <1>1, <1>2, <1>3, <1>4, <1>5, <1>6, <1>7, <1>8, <1>9, <1>10, <1>11
     DEF Next, SessionStep, ViewerStep

LEMMA MembershipAlways ==
  ASSUME Overlap = FALSE
  PROVE  Spec => []MembershipInv
<1>1. Init => MembershipInv
  BY IdsAssumption
     DEF Init, MembershipInv, RegistryInv, TypeOK, RegistryExact,
         InsertingAlone, OwnEntry, MemberOK, JoiningOK
<1> QED
  BY <1>1, MembershipStep, PTL DEF Spec

\* No send and no close meets a closed channel (NoPanic), however many times
\* the three places that call Stop reach the same consumer, provided
\* AddPublisher runs for one connection of a user at a time.
THEOREM NoPanicTheorem ==
  ASSUME Overlap = FALSE
  PROVE  Spec => []NoPanic
<1>1. MembershipInv => NoPanic
  BY DEF MembershipInv, NoPanic
<1> QED
  BY <1>1, MembershipAlways, PTL

\* A viewer that left is out of every streaming publisher (LeftIsStopped),
\* under the same assumption.
THEOREM LeftIsStoppedTheorem ==
  ASSUME Overlap = FALSE
  PROVE  Spec => []LeftIsStopped
<1>1. MembershipInv => LeftIsStopped
  BY DEF MembershipInv, LeftIsStopped, MemberOK
<1> QED
  BY <1>1, MembershipAlways, PTL
=============================================================================
