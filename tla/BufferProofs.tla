---------------------------- MODULE BufferProofs ----------------------------
(***************************************************************************)
(* Proofs about the reference counts of Publisher, for any number of       *)
(* viewers and buffers, any capacity of the queues and any length of the   *)
(* frames.                                                                 *)
(***************************************************************************)
EXTENDS PublisherProofs, FunctionTheorems

(***************************************************************************)
(* What is in the buffers.  The message being sent lies in a pooled buffer *)
(* unless it is metadata; a buffer of the publisher's own that anybody     *)
(* may still get (stored, or about to be sent to a joining viewer) has     *)
(* been filled.                                                            *)
(***************************************************************************)
Filled(b) == b \in CopyBuf /\ content[b] # 0

CursorInv ==
  /\ spc # "loop" => todo = {}
  /\ spc \in {"start", "insert", "idle"} => left = 0
  /\ spc \in InHand =>
       /\ cur.no > 0
       /\ cur.kind = "meta" <=> cur.buf \in CopyBuf
       /\ cur.kind = "meta" => left = 0
  /\ spc \in {"fill", "store", "next"} => cur.kind # "meta"

StoredInv ==
  /\ spc \in InHand \ {"fill"} => content[cur.buf] # 0
  /\ \A k \in StoredKind : hdr[k] # NoBuf => Filled(hdr[k])
  /\ \A c \in Consumer : \A i \in DOMAIN init[c] : Filled(init[c][i].buf)

LEMMA CursorInvStep == TypeInv /\ CursorInv /\ [Next]_vars => CursorInv'
<1> SUFFICES ASSUME TypeInv, CursorInv, [Next]_vars PROVE CursorInv'
  OBVIOUS
<1> USE ConstantsAssumption DEF CursorInv, InHand, senderVars
<1>0. CASE UNCHANGED vars \/ \E c \in Consumer : ViewerStep(c)
  BY <1>0, ViewersApart DEF vars
<1>1. ASSUME NEW b \in PoolBuf, NextFragment(b) PROVE CursorInv'
  <2>1. /\ spc = "next" /\ spc' = "fill" /\ cur \in Fragment /\ sent \in Nat
        /\ cur' = [cur EXCEPT !.cont = TRUE, !.no = sent + 1, !.buf = b]
        /\ todo' = todo
    BY <1>1 DEF NextFragment, TakeBuffer, TypeInv, CursorOK
  <2>2. cur'.kind = cur.kind /\ cur'.no = sent + 1 /\ cur'.buf = b
    BY <2>1 DEF Fragment
  <2> QED
    BY <2>1, <2>2
<1>2. ASSUME NEW b \in CopyBuf, StoreHeader(b) PROVE CursorInv'
  BY <1>2 DEF StoreHeader
<1>3. CASE BeginLoop
  BY <1>3 DEF BeginLoop
<1>4. ASSUME NEW c \in Consumer, SkipConsumer(c) \/ Enqueue(c) \/ Overflow(c)
      PROVE  CursorInv'
  BY <1>4 DEF SkipConsumer, Enqueue, Overflow, Visit
<1>5. CASE EndMapWrite \/ EndLoop \/ StopRemoved \/ PubStop
  BY <1>5 DEF EndMapWrite, EndLoop, StopRemoved, PubStop
<1>6. CASE FinishSend
  <2>1. /\ spc = "sent" /\ UNCHANGED <<todo, left>> /\ left \in Nat
        /\ spc' = IF left > 0 THEN "next" ELSE "idle"
        /\ left > 0 => cur' = [cur EXCEPT !.buf = NoBuf]
    BY <1>6 DEF FinishSend, TypeInv, CursorOK
  <2>2. left > 0 => cur'.kind = cur.kind
    BY <2>1 DEF TypeInv, CursorOK, Message
  <2> QED
    BY <2>1, <2>2
<1>7. CASE CheckExists \/ InsertPublisher \/ ReadFails \/ Unregister
  BY <1>7 DEF CheckExists, InsertPublisher, ReadFails, Unregister
<1>8. ASSUME NEW k \in Frames \ {"meta"}, NEW n \in 1..MaxFrags,
             NEW b \in PoolBuf, OpenFrame(k, n, b)
      PROVE  CursorInv'
  BY <1>8 DEF OpenFrame, TakeBuffer, TypeInv, CursorOK
<1>9. ASSUME NEW b \in CopyBuf, SendMetaData(b) PROVE CursorInv'
  BY <1>9 DEF SendMetaData, TypeInv, CursorOK
<1>10. CASE Fill
  BY <1>10 DEF Fill, HeaderKind
<1> QED
  BY NextCases, <1>0, <1>1, <1>2, <1>3, <1>4, <1>5, <1>6, <1>7, <1>8, <1>9, <1>10
     DEF SenderStep, EncoderStep

\* What has been filled stays filled, though it may be overwritten.
LEMMA ContentGrows ==
  ASSUME TypeInv, CursorInv, [Next]_vars, NEW b \in Buffer
  PROVE  content[b] # 0 => content'[b] # 0
<1>1. CASE UNCHANGED content
  BY <1>1
<1>2. CASE Fill
  <2>1. content' = [content EXCEPT ![cur.buf] = cur.no] /\ cur.no > 0
    BY <1>2 DEF Fill, CursorInv, InHand
  <2> QED
    BY <2>1 DEF TypeInv, BuffersOK
<1>3. ASSUME NEW h \in CopyBuf, StoreHeader(h) \/ SendMetaData(h)
      PROVE  content[b] # 0 => content'[b] # 0
  <2>1. content[h] = 0 /\ \E v : content' = [content EXCEPT ![h] = v]
    BY <1>3 DEF StoreHeader, SendMetaData, FreshCopy
  <2> QED
    BY <2>1 DEF TypeInv, BuffersOK
<1> HIDE DEF Fill
<1>4. CASE SenderStep
  BY <1>1, <1>3, <1>4 DEF SenderStep, NextFragment, BeginLoop, SkipConsumer, Enqueue,
     Overflow, EndMapWrite, EndLoop, StopRemoved, FinishSend, PubStop, bufVars
<1>5. CASE EncoderStep
  BY <1>1, <1>2, <1>3, <1>5 DEF EncoderStep, CheckExists, InsertPublisher, OpenFrame,
     ReadFails, Unregister, bufVars
<1>6. ASSUME NEW c \in Consumer, ViewerStep(c) PROVE UNCHANGED content
  BY <1>6 DEF ViewerStep, Connect, PeerLost, HandlerStep, Lookup, HasConsumer, Snapshot,
     SendInitial, InitialOverflow, Refuse, Insert, LeaveLookup, RemoveConsumer,
     WriteStep, WriterStep, Receive, Written, WriteFails, Drain, WriterEnds, bufVars
<1> QED
  BY NextCases, <1>1, <1>4, <1>5, <1>6 DEF vars, bufVars

LEMMA InitialFilled ==
  ASSUME TypeInv, StoredInv, NEW k \in StoredKind
  PROVE  \A i \in DOMAIN Initial(k) : Filled(Initial(k)[i].buf)
<1>1. CASE hdr[k] = NoBuf
  BY <1>1 DEF Initial
<1>2. CASE hdr[k] # NoBuf
  BY <1>2 DEF Initial, StoredInv
<1> QED
  BY <1>1, <1>2

LEMMA ConcatFilled ==
  ASSUME NEW s \in Seq(Message), NEW t \in Seq(Message),
         \A i \in DOMAIN s : Filled(s[i].buf), \A i \in DOMAIN t : Filled(t[i].buf)
  PROVE  s \o t \in Seq(Message) /\ \A i \in DOMAIN (s \o t) : Filled((s \o t)[i].buf)
<1>1. /\ Len(s) \in Nat /\ Len(t) \in Nat /\ DOMAIN s = 1..Len(s) /\ DOMAIN t = 1..Len(t)
      /\ s \o t \in Seq(Message) /\ DOMAIN (s \o t) = 1..(Len(s) + Len(t))
      /\ \A i \in 1..(Len(s) + Len(t)) :
           (s \o t)[i] = IF i <= Len(s) THEN s[i] ELSE t[i - Len(s)]
  OBVIOUS
<1>2. ASSUME NEW i \in 1..(Len(s) + Len(t)) PROVE Filled((s \o t)[i].buf)
  <2>1. CASE i <= Len(s)
    BY <1>1, <2>1
  <2>2. CASE ~(i <= Len(s))
    <3>1. i - Len(s) \in DOMAIN t /\ (s \o t)[i] = t[i - Len(s)]
      BY <1>1, <2>2
    <3> QED
      BY <3>1
  <2> QED
    BY <2>1, <2>2
<1> QED
  BY <1>1, <1>2

LEMMA SnapshotFilled ==
  ASSUME TypeInv, StoredInv, NEW c \in Consumer, Snapshot(c)
  PROVE  \A i \in DOMAIN init'[c] : Filled(init'[c][i].buf)
<1> DEFINE m == Initial("meta")
           v == Initial("vhdr")
           a == Initial("ahdr")
<1>1. m \in Seq(Message) /\ v \in Seq(Message) /\ a \in Seq(Message)
  BY InitialType DEF TypeInv, StoredKind, HeaderKind
<1>2. init'[c] = m \o v \o a
  BY DEF Snapshot, TypeInv, QueuesOK
<1>3. /\ \A j \in DOMAIN m : Filled(m[j].buf)
      /\ \A j \in DOMAIN v : Filled(v[j].buf)
      /\ \A j \in DOMAIN a : Filled(a[j].buf)
  BY InitialFilled DEF StoredKind, HeaderKind
<1> HIDE DEF m, v, a
<1>4. m \o v \in Seq(Message) /\ \A i \in DOMAIN (m \o v) : Filled((m \o v)[i].buf)
  BY <1>1, <1>3, ConcatFilled
<1>5. \A i \in DOMAIN (m \o v \o a) : Filled((m \o v \o a)[i].buf)
  BY <1>1, <1>3, <1>4, ConcatFilled
<1> QED
  BY <1>2, <1>5

LEMMA StoredInvStep ==
  TypeInv /\ CursorInv /\ StoredInv /\ [Next]_vars => StoredInv'
<1> SUFFICES ASSUME TypeInv, CursorInv, StoredInv, [Next]_vars PROVE StoredInv'
  OBVIOUS
<1> USE DEF InHand
<1>a. \A b \in CopyBuf : content[b] # 0 => content'[b] # 0
  BY ContentGrows DEF Buffer
<1>1. ASSUME cur' = cur, spc' \in InHand \ {"fill"} => spc \in InHand \ {"fill"}
      PROVE  spc' \in InHand \ {"fill"} => content'[cur'.buf] # 0
  <2> SUFFICES ASSUME spc' \in InHand \ {"fill"} PROVE content'[cur'.buf] # 0
    OBVIOUS
  <2>1. spc \in InHand \ {"fill"}
    BY <1>1
  <2>2. cur.buf \in Buffer
    BY <2>1, MessageBuffer DEF TypeInv, CursorOK
  <2>3. content[cur.buf] # 0
    BY <2>1 DEF StoredInv
  <2>4. content'[cur.buf] # 0
    BY <2>2, <2>3, ContentGrows
  <2> QED
    BY <1>1, <2>4
<1>2. ASSUME UNCHANGED hdr
      PROVE  \A k \in StoredKind : hdr'[k] # NoBuf => Filled(hdr[k])'
  BY <1>a, <1>2 DEF StoredInv, Filled
<1>3. ASSUME UNCHANGED init
      PROVE  \A c \in Consumer : \A i \in DOMAIN init'[c] : Filled(init[c][i].buf)'
  BY <1>a, <1>3 DEF StoredInv, Filled
<1>4. CASE UNCHANGED <<cur, spc, hdr, init>>
  BY <1>1, <1>2, <1>3, <1>4 DEF StoredInv, Filled
<1>5. ASSUME NEW b \in CopyBuf, StoreHeader(b) \/ SendMetaData(b) PROVE StoredInv'
  <2>1. \A j \in StoredKind : hdr'[j] \in {hdr[j], b}
    BY <1>5 DEF StoreHeader, SendMetaData, TypeInv, BuffersOK
  <2>2. Filled(b)'
    <3>1. CASE StoreHeader(b)
      <4>1. content' = [content EXCEPT ![b] = content[cur.buf]] /\ content[cur.buf] # 0
        BY <3>1 DEF StoreHeader, StoredInv
      <4> QED
        BY <4>1 DEF Filled, TypeInv, BuffersOK, Buffer
    <3>2. CASE SendMetaData(b)
      BY <3>2 DEF SendMetaData, Filled, TypeInv, BuffersOK, CursorOK, Buffer
    <3> QED
      BY <1>5, <3>1, <3>2
  <2>3. \A j \in StoredKind : hdr'[j] # NoBuf => Filled(hdr[j])'
    BY <1>a, <2>1, <2>2 DEF StoredInv, Filled
  <2>4. UNCHANGED init
    BY <1>5 DEF StoreHeader, SendMetaData, viewerVars
  <2>5. content'[cur'.buf] # 0
    <3>1. CASE StoreHeader(b)
      BY <1>1, <3>1 DEF StoreHeader
    <3>2. CASE SendMetaData(b)
      BY <2>2, <3>2 DEF SendMetaData, Filled
    <3> QED
      BY <1>5, <3>1, <3>2
  <2> QED
    BY <1>3, <2>3, <2>4, <2>5 DEF StoredInv, Filled
<1>6. CASE Fill
  <2>1. /\ spc' \in InHand \ {"fill"} => content'[cur'.buf] # 0
    BY <1>6, MessageBuffer DEF Fill, CursorInv, TypeInv, CursorOK, BuffersOK
  <2>2. UNCHANGED <<hdr, init>>
    BY <1>6 DEF Fill, pubVars, viewerVars
  <2> QED
    BY <1>2, <1>3, <2>1, <2>2 DEF StoredInv, Filled
<1>7. CASE SenderStep \/ EncoderStep
  <2>1. ASSUME UNCHANGED <<hdr, init>>, spc' \in InHand \ {"fill"} => cur' = cur /\ spc \in InHand \ {"fill"}
        PROVE  StoredInv'
    <3>1. spc' \in InHand \ {"fill"} => content'[cur'.buf] # 0
      BY <1>1, <2>1
    <3> QED
      BY <1>2, <1>3, <2>1, <3>1 DEF StoredInv, Filled
  <2>2. ASSUME NEW b \in PoolBuf, NextFragment(b) PROVE StoredInv'
    BY <2>1, <2>2 DEF NextFragment, TakeBuffer, pubVars, viewerVars
  <2>3. CASE BeginLoop \/ EndMapWrite \/ EndLoop \/ StopRemoved \/ FinishSend \/ PubStop
    BY <2>1, <2>3 DEF BeginLoop, EndMapWrite, EndLoop, StopRemoved, FinishSend, PubStop,
       pubVars, viewerVars
  <2>4. ASSUME NEW c \in Consumer, SkipConsumer(c) \/ Enqueue(c) \/ Overflow(c)
        PROVE  StoredInv'
    BY <2>1, <2>4 DEF SkipConsumer, Enqueue, Overflow, pubVars, viewerVars
  <2>5. CASE CheckExists \/ InsertPublisher \/ ReadFails \/ Unregister
    BY <2>1, <2>5 DEF CheckExists, InsertPublisher, ReadFails, Unregister,
       pubVars, viewerVars
  <2>6. ASSUME NEW k, NEW n, NEW b, OpenFrame(k, n, b) PROVE StoredInv'
    BY <2>1, <2>6 DEF OpenFrame, TakeBuffer, pubVars, viewerVars
  <2> QED
    BY <1>5, <1>6, <1>7, <2>2, <2>3, <2>4, <2>5, <2>6 DEF SenderStep, EncoderStep
<1>8. ASSUME NEW c \in Consumer, ViewerStep(c) PROVE StoredInv'
  <2>1. UNCHANGED <<cur, spc>>
    BY <1>8, ViewersApart DEF senderVars
  <2>2. UNCHANGED hdr
    BY <1>8 DEF ViewerStep, Connect, PeerLost, HandlerStep, Lookup, HasConsumer, Snapshot,
     SendInitial, InitialOverflow, Refuse, Insert, LeaveLookup, RemoveConsumer,
     WriteStep, WriterStep, Receive, Written, WriteFails, Drain, WriterEnds, pubVars
  <2>3. ASSUME \A d \in Consumer \ {c} : init'[d] = init[d],
               \A i \in DOMAIN init'[c] : Filled(init'[c][i].buf)
        PROVE  StoredInv'
    <3>1. ASSUME NEW d \in Consumer, NEW i \in DOMAIN init'[d]
          PROVE  Filled(init[d][i].buf)'
      BY <1>a, <2>3, <3>1 DEF StoredInv, Filled
    <3> QED
      BY <1>1, <1>2, <2>1, <2>2, <3>1 DEF StoredInv, Filled
  <2>4. CASE UNCHANGED init
    BY <1>4, <2>1, <2>2, <2>4
  <2>5. CASE Snapshot(c)
    <3>1. \A d \in Consumer \ {c} : init'[d] = init[d]
      BY <2>5 DEF Snapshot, TypeInv, QueuesOK
    <3> QED
      BY <2>3, <2>5, <3>1, SnapshotFilled
  <2>6. CASE SendInitial(c)
    <3>1. init[c] # <<>> /\ init' = [init EXCEPT ![c] = Tail(init[c])]
      BY <2>6 DEF SendInitial
    <3>2. init[c] \in Seq(Message) /\ init \in [Consumer -> Seq(Message)]
      BY DEF TypeInv, QueuesOK
    <3>3. ASSUME NEW i \in DOMAIN init'[c] PROVE Filled(init'[c][i].buf)
      <4>1. i + 1 \in DOMAIN init[c] /\ init'[c][i] = init[c][i + 1]
        BY <3>1, <3>2
      <4> QED
        BY <4>1 DEF StoredInv
    <3> QED
      BY <2>3, <3>1, <3>2, <3>3
  <2>7. CASE Refuse(c)
    <3>1. init' = [init EXCEPT ![c] = <<>>]
      BY <2>7 DEF Refuse
    <3> QED
      BY <2>3, <3>1 DEF TypeInv, QueuesOK
  <2> QED
    BY <1>8, <2>4, <2>5, <2>6, <2>7 DEF ViewerStep, Connect, PeerLost, HandlerStep, Lookup,
     HasConsumer, InitialOverflow, Insert, LeaveLookup, RemoveConsumer,
     WriteStep, WriterStep, Receive, Written, WriteFails, Drain, WriterEnds, viewerVars
<1> QED
  BY NextCases, <1>4, <1>7, <1>8 DEF vars, senderVars, pubVars, viewerVars
-----------------------------------------------------------------------------
(***************************************************************************)
(* RefsExact.  The holders of a buffer in four parts, and what makes the   *)
(* count inductive: nobody holds a copy that has not been filled, and a    *)
(* filled one is always held by the publisher, so that no viewer releases  *)
(* the last reference of a copy.                                           *)
(***************************************************************************)
Sending(b) == {t \in {<<"rtmp", 0>>} : SenderHolds(b)}
Keeping(b) == {t \in {<<"pub", 0>>} : b \in CopyBuf /\ content[b] # 0}
Waiting(b) == {<<c, 0>> : c \in {d \in todo : cur.buf = b}}
Queued(b)  == UNION {{<<c, i>> : i \in {j \in Unreleased(c) : log[c][j].buf = b}} :
                     c \in Consumer}

Counted ==
  \A b \in Buffer : IsFiniteSet(Held(b)) /\ refs[b] = Cardinality(Held(b)) + lost[b]
PoolExact  == \A b \in Buffer : b \in pooled <=> b \in PoolBuf /\ refs[b] = 0
FreshFree  == \A b \in CopyBuf : content[b] = 0 => refs[b] = 0
NoOverflow == fatal # "released more times than acquired"

RefInv == Counted /\ PoolExact /\ FreshFree /\ NoOverflow

\* A handler that has not started has no readMessages yet.
WriterOff == \A c \in Consumer : vpc[c] = "idle" => wpc[c] = "off"

HoldInv == TypeInv /\ CursorInv /\ StoredInv /\ WriterOff

LEMMA HeldParts ==
  ASSUME NEW b
  PROVE  Held(b) = Sending(b) \cup Keeping(b) \cup Waiting(b) \cup Queued(b)
  BY DEF Held, Sending, Keeping, Waiting, Queued

LEMMA HeldPartsNext ==
  ASSUME NEW b
  PROVE  Held(b)' = Sending(b)' \cup Keeping(b)' \cup Waiting(b)' \cup Queued(b)'
  BY DEF Held, Sending, Keeping, Waiting, Queued

LEMMA UnreleasedIndexes ==
  ASSUME TypeInv, NEW c \in Consumer
  PROVE  /\ Unreleased(c) \subseteq 1..Len(log[c]) /\ Len(log[c]) \in Nat
         /\ wpc[c] = "write" => recv[c] \in Unreleased(c)
         /\ InQueue(c) > 0 /\ wpc[c] # "write" => recv[c] + 1 \in Unreleased(c)
<1>1. recv[c] \in Nat /\ log[c] \in Seq(Message)
  BY DEF TypeInv, QueuesOK
<1>2. Len(log[c]) \in Nat /\ recv[c] <= Len(log[c]) /\ (wpc[c] = "write" => recv[c] > 0)
  BY <1>1 DEF TypeInv, QueuesOK
<1> QED
  BY <1>1, <1>2 DEF Unreleased, InQueue

\* The parts are apart.
LEMMA QueuedMembers ==
  ASSUME NEW b, NEW t
  PROVE  t \in Queued(b) <=>
           \E c \in Consumer : \E i \in Unreleased(c) : t = <<c, i>> /\ log[c][i].buf = b
  BY DEF Queued

LEMMA PartsApart ==
  ASSUME TypeInv, NEW b
  PROVE  /\ <<"rtmp", 0>> \notin Keeping(b) \cup Waiting(b) \cup Queued(b)
         /\ <<"pub", 0>> \notin Sending(b) \cup Waiting(b) \cup Queued(b)
         /\ \A c \in Consumer : <<c, 0>> \notin Sending(b) \cup Keeping(b) \cup Queued(b)
         /\ \A c \in Consumer, i \in Nat \ {0} :
              <<c, i>> \notin Sending(b) \cup Keeping(b) \cup Waiting(b)
<1>1. "rtmp" \notin Consumer /\ "pub" \notin Consumer /\ todo \subseteq Consumer
  BY ConstantsAssumption DEF TypeInv, ControlOK
<1>2. \A t \in Sending(b) : t = <<"rtmp", 0>>
  BY DEF Sending
<1>3. \A t \in Keeping(b) : t = <<"pub", 0>>
  BY DEF Keeping
<1>4. \A t \in Waiting(b) : \E c \in Consumer : t = <<c, 0>>
  BY <1>1 DEF Waiting
<1>5. \A t \in Queued(b) : \E c \in Consumer, i \in Nat \ {0} : t = <<c, i>>
  <2>1. \A c \in Consumer : Unreleased(c) \subseteq Nat \ {0}
    BY UnreleasedIndexes
  <2> QED
    BY <2>1, QueuedMembers
<1> QED
  BY <1>1, <1>2, <1>3, <1>4, <1>5

\* When the parts stay.
LEMMA SendingSame ==
  ASSUME UNCHANGED cur, spc' \in InHand <=> spc \in InHand, NEW b
  PROVE  Sending(b)' = Sending(b)
  BY DEF Sending, SenderHolds, InHand

LEMMA KeepingSame ==
  ASSUME NEW b, b \in CopyBuf => (content'[b] = 0 <=> content[b] = 0)
  PROVE  Keeping(b)' = Keeping(b)
  BY DEF Keeping

LEMMA WaitingSame ==
  ASSUME UNCHANGED todo, todo = {} \/ cur' = cur, NEW b
  PROVE  Waiting(b)' = Waiting(b)
  BY DEF Waiting

LEMMA QueuedSame ==
  ASSUME UNCHANGED log, \A c \in Consumer : Unreleased(c)' = Unreleased(c), NEW b
  PROVE  Queued(b)' = Queued(b)
  BY DEF Queued

LEMMA UnreleasedSame ==
  ASSUME UNCHANGED <<wpc, recv, log>>
  PROVE  \A c \in Consumer : Unreleased(c)' = Unreleased(c)
  BY DEF Unreleased

\* The holders change in one of these ways.
HeldSame(S) == \A b \in S : Held(b)' = Held(b)

\* content' is as ContentGrows says.
Grows == \A b \in CopyBuf : content[b] # 0 => content'[b] # 0

LEMMA CountTypes ==
  ASSUME TypeInv, Counted, NEW b \in Buffer
  PROVE  /\ refs[b] \in Int /\ lost[b] \in Nat /\ IsFiniteSet(Held(b))
         /\ Cardinality(Held(b)) \in Nat /\ refs[b] = Cardinality(Held(b)) + lost[b]
         /\ Held(b) # {} => refs[b] > 0
<1>1. /\ refs[b] \in Int /\ lost[b] \in Nat /\ IsFiniteSet(Held(b))
      /\ refs[b] = Cardinality(Held(b)) + lost[b]
  BY DEF TypeInv, BuffersOK, Counted
<1>2. Cardinality(Held(b)) \in Nat /\ (Held(b) # {} => Cardinality(Held(b)) # 0)
  BY <1>1, FS_CardinalityType, FS_EmptySet
<1> QED
  BY <1>1, <1>2

LEMMA SameKeeps ==
  ASSUME RefInv, HeldSame(Buffer), Grows, UNCHANGED <<refs, lost, pooled>>, NoOverflow'
  PROVE  RefInv'
<1>1. Counted'
  BY DEF HeldSame, RefInv, Counted
<1>2. PoolExact' /\ FreshFree'
  BY DEF RefInv, PoolExact, FreshFree, Grows
<1> QED
  BY <1>1, <1>2 DEF RefInv

\* One more holder, who has acquired a reference.
LEMMA AddCounts ==
  ASSUME TypeInv, Counted, NEW b \in Buffer, NEW x, x \notin Held(b),
         Held(b)' = Held(b) \cup {x}, HeldSame(Buffer \ {b}),
         Acquire(b, 1), UNCHANGED lost
  PROVE  Counted' /\ refs'[b] > 0 /\ \A d \in Buffer \ {b} : refs'[d] = refs[d]
<1>1. refs'[b] = refs[b] + 1 /\ \A d \in Buffer \ {b} : refs'[d] = refs[d]
  BY DEF Acquire, TypeInv, BuffersOK
<1>2. IsFiniteSet(Held(b)') /\ Cardinality(Held(b)') = Cardinality(Held(b)) + 1
  BY CountTypes, FS_AddElement
<1>3. refs'[b] = Cardinality(Held(b)') + lost'[b] /\ refs'[b] > 0
  BY <1>1, <1>2, CountTypes
<1>4. ASSUME NEW d \in Buffer \ {b}
      PROVE  IsFiniteSet(Held(d)') /\ refs'[d] = Cardinality(Held(d)') + lost'[d]
  <2>1. Held(d)' = Held(d)
    BY DEF HeldSame
  <2> QED
    BY <1>1, <2>1 DEF Counted
<1> QED
  BY <1>1, <1>2, <1>3, <1>4 DEF Counted

LEMMA AddKeeps ==
  ASSUME TypeInv, RefInv, NEW b \in CopyBuf, NEW x, x \notin Held(b),
         Held(b)' = Held(b) \cup {x}, HeldSame(Buffer \ {b}),
         Acquire(b, 1), UNCHANGED <<lost, pooled>>, Grows, content'[b] # 0, NoOverflow'
  PROVE  RefInv'
<1>1. Counted' /\ \A d \in Buffer \ {b} : refs'[d] = refs[d]
  BY AddCounts DEF RefInv, Buffer
<1>2. PoolExact'
  BY <1>1, ConstantsAssumption DEF RefInv, PoolExact, Buffer
<1>3. FreshFree'
  BY <1>1 DEF RefInv, FreshFree, Grows, Buffer
<1> QED
  BY <1>1, <1>2, <1>3 DEF RefInv

\* A buffer taken out of its pool.
LEMMA TakeKeeps ==
  ASSUME TypeInv, RefInv, NEW b \in PoolBuf, NEW x, x \notin Held(b),
         Held(b)' = Held(b) \cup {x}, HeldSame(Buffer \ {b}),
         TakeBuffer(b), UNCHANGED <<lost, content, fatal>>
  PROVE  RefInv'
<1>1. /\ Acquire(b, 1) /\ pooled' = pooled \ {b} /\ b \in Buffer
  BY DEF TakeBuffer, Buffer
<1>2. Counted' /\ refs'[b] > 0 /\ \A d \in Buffer \ {b} : refs'[d] = refs[d]
  BY <1>1, AddCounts DEF RefInv
<1>3. PoolExact'
  BY <1>1, <1>2 DEF RefInv, PoolExact
<1>4. FreshFree'
  BY <1>2, ConstantsAssumption DEF RefInv, FreshFree, Buffer
<1> QED
  BY <1>2, <1>3, <1>4 DEF RefInv, NoOverflow

\* A holder other than the publisher releases its reference.
LEMMA DropKeeps ==
  ASSUME TypeInv, RefInv, NEW b \in Buffer, NEW x, x \in Held(b), x # <<"pub", 0>>,
         Held(b)' = Held(b) \ {x}, HeldSame(Buffer \ {b}),
         Release(b), UNCHANGED <<lost, content>>
  PROVE  RefInv'
<1>1. /\ refs'[b] = refs[b] - 1 /\ \A d \in Buffer \ {b} : refs'[d] = refs[d]
      /\ refs[b] > 0 /\ refs[b] \in Int
  BY CountTypes DEF Release, TypeInv, BuffersOK, RefInv
<1>2. IsFiniteSet(Held(b)') /\ Cardinality(Held(b)') = Cardinality(Held(b)) - 1
  BY CountTypes, FS_RemoveElement DEF RefInv
<1>3. refs'[b] = Cardinality(Held(b)') + lost'[b]
  BY <1>1, <1>2, CountTypes DEF RefInv
<1>4. ASSUME NEW d \in Buffer \ {b}
      PROVE  IsFiniteSet(Held(d)') /\ refs'[d] = Cardinality(Held(d)') + lost'[d]
  <2>1. Held(d)' = Held(d)
    BY DEF HeldSame
  <2> QED
    BY <1>1, <2>1 DEF Counted, RefInv
<1>5. Counted'
  BY <1>2, <1>3, <1>4 DEF Counted
<1>6. b \in CopyBuf => refs[b] > 1
  <2> SUFFICES ASSUME b \in CopyBuf PROVE refs[b] > 1
    OBVIOUS
  <2>1. content[b] # 0
    BY <1>1 DEF RefInv, FreshFree
  <2>2. <<"pub", 0>> \in Held(b) \ {x}
    BY <2>1, HeldParts DEF Keeping
  <2>3. Cardinality(Held(b)') # 0 /\ Cardinality(Held(b)') \in Nat
    BY <1>2, <2>2, FS_EmptySet, FS_CardinalityType
  <2> QED
    BY <1>2, <2>3, CountTypes DEF RefInv
<1>7. pooled' = IF refs[b] = 1 THEN pooled \cup {b} ELSE pooled
  BY DEF Release
<1>8. ASSUME NEW d \in Buffer
      PROVE  d \in pooled' <=> d \in PoolBuf /\ refs'[d] = 0
  <2>1. d \in pooled <=> d \in PoolBuf /\ refs[d] = 0
    BY DEF RefInv, PoolExact
  <2>2. CASE d # b
    BY <1>1, <1>7, <2>1, <2>2
  <2>3. CASE d = b
    BY <1>1, <1>6, <1>7, <2>1, <2>3, ConstantsAssumption DEF Buffer
  <2> QED
    BY <2>2, <2>3
<1>9. ASSUME NEW d \in CopyBuf, content'[d] = 0 PROVE refs'[d] = 0
  <2>1. refs[d] = 0 /\ d \in Buffer
    BY <1>9 DEF RefInv, FreshFree, Buffer
  <2> QED
    BY <1>1, <2>1
<1>10. NoOverflow'
  <2>1. ~(refs[b] < 1)
    BY <1>1
  <2>2. fatal' = fatal
    BY <2>1 DEF Release
  <2> QED
    BY <2>2 DEF RefInv, NoOverflow
<1> QED
  BY <1>5, <1>8, <1>9, <1>10 DEF RefInv, PoolExact, FreshFree

\* A full queue: the reference is forgotten, the count stays.
LEMMA LoseKeeps ==
  ASSUME TypeInv, RefInv, NEW b \in Buffer, NEW x, x \in Held(b),
         Held(b)' = Held(b) \ {x}, HeldSame(Buffer \ {b}),
         lost' = [lost EXCEPT ![b] = @ + 1], UNCHANGED <<refs, pooled, content, fatal>>
  PROVE  RefInv'
<1>1. lost'[b] = lost[b] + 1 /\ \A d \in Buffer \ {b} : lost'[d] = lost[d]
  BY DEF TypeInv, BuffersOK
<1>2. IsFiniteSet(Held(b)') /\ Cardinality(Held(b)') = Cardinality(Held(b)) - 1
  BY CountTypes, FS_RemoveElement DEF RefInv
<1>3. refs'[b] = Cardinality(Held(b)') + lost'[b]
  BY <1>1, <1>2, CountTypes DEF RefInv
<1>4. ASSUME NEW d \in Buffer \ {b}
      PROVE  IsFiniteSet(Held(d)') /\ refs'[d] = Cardinality(Held(d)') + lost'[d]
  <2>1. Held(d)' = Held(d)
    BY DEF HeldSame
  <2> QED
    BY <1>1, <2>1 DEF Counted, RefInv
<1>5. Counted'
  BY <1>2, <1>3, <1>4 DEF Counted
<1> QED
  BY <1>5 DEF RefInv, PoolExact, FreshFree, NoOverflow

\* The reference taken for a viewer passes into its queue.
LEMMA MoveKeeps ==
  ASSUME TypeInv, RefInv, NEW b \in Buffer, NEW x, NEW y, x \in Held(b), y \notin Held(b),
         Held(b)' = (Held(b) \ {x}) \cup {y}, HeldSame(Buffer \ {b}),
         UNCHANGED <<refs, lost, pooled, content>>, NoOverflow'
  PROVE  RefInv'
<1>1. /\ IsFiniteSet(Held(b) \ {x})
      /\ Cardinality(Held(b) \ {x}) = Cardinality(Held(b)) - 1
  BY CountTypes, FS_RemoveElement DEF RefInv
<1>2. IsFiniteSet(Held(b)') /\ Cardinality(Held(b)') = Cardinality(Held(b))
  <2>1. y \notin Held(b) \ {x}
    OBVIOUS
  <2>2. /\ IsFiniteSet((Held(b) \ {x}) \cup {y})
        /\ Cardinality((Held(b) \ {x}) \cup {y}) = Cardinality(Held(b) \ {x}) + 1
    BY <1>1, <2>1, FS_AddElement
  <2> QED
    BY <1>1, <2>2, CountTypes DEF RefInv
<1>3. ASSUME NEW d \in Buffer
      PROVE  IsFiniteSet(Held(d)') /\ refs'[d] = Cardinality(Held(d)') + lost'[d]
  <2>1. CASE d = b
    BY <1>2, <2>1 DEF RefInv, Counted
  <2>2. CASE d # b
    BY <2>2 DEF RefInv, Counted, HeldSame
  <2> QED
    BY <2>1, <2>2
<1>4. Counted'
  BY <1>3 DEF Counted
<1> QED
  BY <1>4 DEF RefInv, PoolExact, FreshFree

(***************************************************************************)
(* A message enters or leaves a queue.                                     *)
(***************************************************************************)
LEMMA PushHolds ==
  ASSUME TypeInv, NEW c \in Consumer, NEW m \in Message, Push(c, m),
         UNCHANGED <<wpc, recv>>, NEW b
  PROVE  /\ <<c, Len(log[c]) + 1>> \notin Queued(b)
         /\ Queued(b)' = IF m.buf = b THEN Queued(b) \cup {<<c, Len(log[c]) + 1>>}
                                      ELSE Queued(b)
<1> DEFINE n == Len(log[c]) + 1
<1>1. /\ log[c] \in Seq(Message) /\ Len(log[c]) \in Nat /\ recv[c] \in Nat
      /\ recv[c] <= Len(log[c]) /\ log \in [Consumer -> Seq(Message)]
  BY DEF TypeInv, QueuesOK
<1>2. log' = [log EXCEPT ![c] = Append(log[c], m)]
  BY DEF Push
<1>3. /\ log'[c] = Append(log[c], m) /\ Len(log'[c]) = n /\ log'[c][n] = m
      /\ \A i \in 1..Len(log[c]) : log'[c][i] = log[c][i]
      /\ \A d \in Consumer \ {c} : log'[d] = log[d]
  BY <1>1, <1>2
<1>4. \A d \in Consumer \ {c} : Unreleased(d)' = Unreleased(d)
  BY <1>3 DEF Unreleased
<1>5. Unreleased(c)' = Unreleased(c) \cup {n}
  BY <1>1, <1>3 DEF Unreleased
<1>6. \A d \in Consumer : Unreleased(d) \subseteq 1..Len(log[d])
  BY UnreleasedIndexes
<1>7. n \notin Unreleased(c)
  BY <1>1, <1>6
<1>8. <<c, n>> \notin Queued(b)
  BY <1>7, QueuedMembers
<1>9. ASSUME NEW t
      PROVE  t \in Queued(b)' <=> t \in Queued(b) \/ (m.buf = b /\ t = <<c, n>>)
  <2>1. t \in Queued(b)' <=>
          \E d \in Consumer : \E i \in Unreleased(d)' : t = <<d, i>> /\ log'[d][i].buf = b
    BY DEF Queued
  <2>2. \A d \in Consumer : \A i \in Unreleased(d) : log'[d][i] = log[d][i]
    BY <1>3, <1>6
  <2>3. t \in Queued(b) <=>
          \E d \in Consumer : \E i \in Unreleased(d) : t = <<d, i>> /\ log[d][i].buf = b
    BY QueuedMembers
  <2>4. ASSUME t \in Queued(b)' PROVE t \in Queued(b) \/ (m.buf = b /\ t = <<c, n>>)
    <3>0. PICK d \in Consumer :
            \E i \in Unreleased(d)' : t = <<d, i>> /\ log'[d][i].buf = b
      BY <2>1, <2>4
    <3>1. PICK i \in Unreleased(d)' : t = <<d, i>> /\ log'[d][i].buf = b
      BY <3>0
    <3>2. CASE i \in Unreleased(d)
      BY <2>2, <2>3, <3>1, <3>2
    <3>3. CASE i \notin Unreleased(d)
      BY <1>3, <1>4, <1>5, <3>1, <3>3
    <3> QED
      BY <3>2, <3>3
  <2>5. ASSUME t \in Queued(b) PROVE t \in Queued(b)'
    <3>0. PICK d \in Consumer : \E i \in Unreleased(d) : t = <<d, i>> /\ log[d][i].buf = b
      BY <2>3, <2>5
    <3>1. PICK i \in Unreleased(d) : t = <<d, i>> /\ log[d][i].buf = b
      BY <3>0
    <3>2. i \in Unreleased(d)'
      BY <1>4, <1>5
    <3> QED
      BY <2>1, <2>2, <3>1, <3>2
  <2>6. ASSUME m.buf = b, t = <<c, n>> PROVE t \in Queued(b)'
    BY <1>3, <1>5, <2>1, <2>6
  <2> QED
    BY <2>4, <2>5, <2>6
<1> HIDE DEF n
<1>10. Queued(b)' = IF m.buf = b THEN Queued(b) \cup {<<c, n>>} ELSE Queued(b)
  BY <1>9
<1> QED
  BY <1>8, <1>10 DEF n

LEMMA PopHolds ==
  ASSUME TypeInv, NEW c \in Consumer, NEW n \in Unreleased(c), UNCHANGED log,
         Unreleased(c)' = Unreleased(c) \ {n},
         \A d \in Consumer \ {c} : Unreleased(d)' = Unreleased(d), NEW b
  PROVE  /\ log[c][n].buf = b => <<c, n>> \in Queued(b)
         /\ Queued(b)' = IF log[c][n].buf = b THEN Queued(b) \ {<<c, n>>} ELSE Queued(b)
<1>1. ASSUME NEW t
      PROVE  t \in Queued(b)' <=> t \in Queued(b) /\ (log[c][n].buf = b => t # <<c, n>>)
  <2>1. t \in Queued(b)' <=>
          \E d \in Consumer : \E i \in Unreleased(d)' : t = <<d, i>> /\ log[d][i].buf = b
    BY DEF Queued
  <2>2. t \in Queued(b) <=>
          \E d \in Consumer : \E i \in Unreleased(d) : t = <<d, i>> /\ log[d][i].buf = b
    BY QueuedMembers
  <2> QED
    BY <2>1, <2>2
<1>2. log[c][n].buf = b => <<c, n>> \in Queued(b)
  BY QueuedMembers
<1>3. Queued(b)' = IF log[c][n].buf = b THEN Queued(b) \ {<<c, n>>} ELSE Queued(b)
  BY <1>1
<1> QED
  BY <1>2, <1>3

\* readMessages releases the message it takes out.
LEMMA PopKeeps ==
  ASSUME TypeInv, RefInv, NEW c \in Consumer, NEW n \in Unreleased(c),
         UNCHANGED <<log, senderVars, lost, content>>,
         Unreleased(c)' = Unreleased(c) \ {n},
         \A d \in Consumer \ {c} : Unreleased(d)' = Unreleased(d),
         Release(log[c][n].buf)
  PROVE  RefInv'
<1> DEFINE b == log[c][n].buf
<1>1. b \in Buffer
  <2>1. n \in 1..Len(log[c]) /\ log[c] \in Seq(Message)
    BY UnreleasedIndexes DEF TypeInv, QueuesOK
  <2> QED
    BY <2>1, MessageBuffer
<1>2. n \in Nat \ {0}
  BY UnreleasedIndexes
<1>3. ASSUME NEW d \in Buffer
      PROVE  /\ Sending(d)' = Sending(d) /\ Keeping(d)' = Keeping(d)
             /\ Waiting(d)' = Waiting(d)
             /\ Queued(d)' = IF d = b THEN Queued(d) \ {<<c, n>>} ELSE Queued(d)
             /\ d = b => <<c, n>> \in Queued(d)
             /\ Held(d) = Sending(d) \cup Keeping(d) \cup Waiting(d) \cup Queued(d)
             /\ Held(d)' = Sending(d)' \cup Keeping(d)' \cup Waiting(d)' \cup Queued(d)'
  BY SendingSame, KeepingSame, WaitingSame, PopHolds, HeldParts, HeldPartsNext
     DEF senderVars
<1>4. <<c, n>> \notin Sending(b) \cup Keeping(b) \cup Waiting(b)
  BY <1>2, PartsApart
<1>5. <<c, n>> \in Held(b) /\ Held(b)' = Held(b) \ {<<c, n>>} /\ <<c, n>> # <<"pub", 0>>
  BY <1>1, <1>2, <1>3, <1>4
<1>6. HeldSame(Buffer \ {b})
  BY <1>3 DEF HeldSame
<1> QED
  BY <1>1, <1>5, <1>6, DropKeeps

\* A step that neither acquires nor releases.
LEMMA QuietKeeps ==
  ASSUME TypeInv, RefInv, UNCHANGED <<log, refs, pooled, lost, content>>,
         \A c \in Consumer : Unreleased(c)' = Unreleased(c),
         UNCHANGED todo, todo = {} \/ cur' = cur,
         \A b \in Buffer : Sending(b)' = Sending(b), NoOverflow'
  PROVE  RefInv'
<1>1. ASSUME NEW b \in Buffer PROVE Held(b)' = Held(b)
  BY KeepingSame, WaitingSame, QueuedSame, HeldParts, HeldPartsNext
<1> QED
  BY <1>1, SameKeeps DEF HeldSame, Grows

LEMMA InitialKeeps ==
  ASSUME HoldInv, RefInv, NEW c \in Consumer, SendInitial(c)
  PROVE  RefInv'
<1>1. init[c] # <<>> /\ init[c] \in Seq(Message)
  BY DEF SendInitial, HoldInv, TypeInv, QueuesOK
<1>2. Head(init[c]) \in Message /\ Filled(Head(init[c]).buf)
  <2>1. 1 \in DOMAIN init[c] /\ Head(init[c]) = init[c][1]
    BY <1>1
  <2> QED
    BY <1>1, <2>1 DEF HoldInv, StoredInv
<1>3. PICK m \in Message, n \in Nat : m = Head(init[c]) /\ n = Len(log[c]) + 1
  BY <1>2, UnreleasedIndexes DEF HoldInv
<1>4. PICK b \in CopyBuf : b = m.buf
  BY <1>2, <1>3 DEF Filled
<1>5. /\ Acquire(b, 1) /\ Push(c, m) /\ content[b] # 0
      /\ UNCHANGED <<wpc, recv, pooled, content, lost, senderVars>>
      /\ fatal' \in {fatal, "send on closed channel"}
  BY <1>2, <1>3, <1>4 DEF SendInitial, Filled
<1>6. n \in Nat \ {0}
  BY <1>3, UnreleasedIndexes DEF HoldInv
<1>7. ASSUME NEW d \in Buffer
      PROVE  /\ Held(d)' = IF d = b THEN Held(d) \cup {<<c, n>>} ELSE Held(d)
             /\ <<c, n>> \notin Held(d)
  <2>1. /\ <<c, n>> \notin Queued(d)
        /\ Queued(d)' = IF b = d THEN Queued(d) \cup {<<c, n>>} ELSE Queued(d)
    BY <1>3, <1>4, <1>5, PushHolds DEF HoldInv
  <2>2. <<c, n>> \notin Sending(d) \cup Keeping(d) \cup Waiting(d)
    BY <1>6, PartsApart DEF HoldInv
  <2>3. Sending(d)' = Sending(d) /\ Keeping(d)' = Keeping(d) /\ Waiting(d)' = Waiting(d)
    BY <1>5, SendingSame, KeepingSame, WaitingSame DEF senderVars
  <2> QED
    BY <2>1, <2>2, <2>3, HeldParts, HeldPartsNext
<1>8. HeldSame(Buffer \ {b}) /\ Grows /\ NoOverflow'
  BY <1>5, <1>7 DEF HeldSame, Grows, RefInv, NoOverflow
<1>9. <<c, n>> \notin Held(b) /\ Held(b)' = Held(b) \cup {<<c, n>>}
  BY <1>7 DEF Buffer
<1> QED
  BY <1>5, <1>8, <1>9, AddKeeps DEF HoldInv

LEMMA ViewerRefs ==
  ASSUME HoldInv, RefInv, NEW c \in Consumer, ViewerStep(c)
  PROVE  RefInv'
<1> USE DEF HoldInv
<1>a. UNCHANGED senderVars /\ \A b \in Buffer : Sending(b)' = Sending(b)
  BY ViewersApart, SendingSame DEF senderVars
<1>1. ASSUME UNCHANGED <<bufVars, log>>, \A d \in Consumer : Unreleased(d)' = Unreleased(d),
             fatal' \in {fatal, "concurrent map read and map write"}
      PROVE  RefInv'
  BY <1>a, <1>1, QuietKeeps DEF bufVars, senderVars, RefInv, NoOverflow
<1>2. CASE \/ PeerLost(c) \/ Lookup(c) \/ HasConsumer(c) \/ Snapshot(c) \/ InitialOverflow(c)
           \/ Refuse(c) \/ Insert(c) \/ LeaveLookup(c) \/ RemoveConsumer(c)
  <2>1. UNCHANGED <<bufVars, wpc, recv, log>>
        /\ fatal' \in {fatal, "concurrent map read and map write"}
    BY <1>2 DEF PeerLost, Lookup, HasConsumer, Snapshot, InitialOverflow, Refuse, Insert,
       LeaveLookup, RemoveConsumer, queueVars
  <2> QED
    BY <1>1, <2>1, UnreleasedSame
<1>3. CASE Connect(c)
  <2>1. /\ wpc[c] = "off" /\ wpc' = [wpc EXCEPT ![c] = "recv"]
        /\ UNCHANGED <<bufVars, recv, log, fatal>>
    BY <1>3 DEF Connect, WriterOff
  <2>2. \A d \in Consumer : Unreleased(d)' = Unreleased(d)
    BY <2>1 DEF Unreleased, TypeInv, ControlOK
  <2> QED
    BY <1>1, <2>1, <2>2
<1>4. CASE Receive(c)
  <2>1. /\ wpc[c] = "recv" /\ wpc' = [wpc EXCEPT ![c] = "write"]
        /\ recv' = [recv EXCEPT ![c] = @ + 1]
        /\ UNCHANGED <<bufVars, log, fatal>>
    BY <1>4 DEF Receive
  <2>2. \A d \in Consumer : Unreleased(d)' = Unreleased(d)
    BY <2>1 DEF Unreleased, TypeInv, ControlOK, QueuesOK
  <2> QED
    BY <1>1, <2>1, <2>2
<1>5. CASE WriterEnds(c)
  <2>1. /\ wpc[c] # "write" /\ wpc' = [wpc EXCEPT ![c] = "ended"]
        /\ UNCHANGED <<bufVars, recv, log, fatal>>
    BY <1>5 DEF WriterEnds
  <2>2. \A d \in Consumer : Unreleased(d)' = Unreleased(d)
    BY <2>1 DEF Unreleased, TypeInv, ControlOK
  <2> QED
    BY <1>1, <2>1, <2>2
<1>6. CASE Written(c) \/ WriteFails(c)
  <2>1. /\ wpc[c] = "write" /\ Release(log[c][recv[c]].buf)
        /\ UNCHANGED <<recv, log, lost, content>>
        /\ wpc' = [wpc EXCEPT ![c] = "recv"] \/ wpc' = [wpc EXCEPT ![c] = "drain"]
    BY <1>6 DEF Written, WriteFails
  <2>2. \A d \in Consumer \ {c} : Unreleased(d)' = Unreleased(d)
    BY <2>1 DEF Unreleased, TypeInv, ControlOK
  <2>3. Unreleased(c)' = Unreleased(c) \ {recv[c]}
    <3>0. wpc'[c] # "write"
      BY <2>1 DEF TypeInv, ControlOK
    <3>1. recv[c] \in Nat /\ Len(log[c]) \in Nat /\ wpc'[c] # "write"
      BY <3>0 DEF TypeInv, QueuesOK
    <3> QED
      BY <2>1, <3>1 DEF Unreleased
  <2>4. recv[c] \in Unreleased(c)
    BY <2>1, UnreleasedIndexes
  <2> QED
    BY <1>a, <2>1, <2>2, <2>3, <2>4, PopKeeps
<1>7. CASE Drain(c)
  <2>1. /\ wpc[c] = "drain" /\ InQueue(c) > 0 /\ Release(log[c][recv[c] + 1].buf)
        /\ recv' = [recv EXCEPT ![c] = @ + 1]
        /\ UNCHANGED <<wpc, log, lost, content>>
    BY <1>7 DEF Drain
  <2>2. \A d \in Consumer \ {c} : Unreleased(d)' = Unreleased(d)
    BY <2>1 DEF Unreleased, TypeInv, QueuesOK
  <2>3. Unreleased(c)' = Unreleased(c) \ {recv[c] + 1}
    <3>1. recv[c] \in Nat /\ Len(log[c]) \in Nat /\ recv'[c] = recv[c] + 1
      BY <2>1 DEF TypeInv, QueuesOK
    <3> QED
      BY <2>1, <3>1 DEF Unreleased
  <2>4. recv[c] + 1 \in Unreleased(c)
    BY <2>1, UnreleasedIndexes
  <2> QED
    BY <1>a, <2>1, <2>2, <2>3, <2>4, PopKeeps
<1>8. CASE SendInitial(c)
  BY <1>8, InitialKeeps
<1> QED
  BY <1>2, <1>3, <1>4, <1>5, <1>6, <1>7, <1>8
     DEF ViewerStep, HandlerStep, WriteStep, WriterStep

\* The RTMP transport takes a buffer for the next fragment.
LEMMA NextBufferKeeps ==
  ASSUME HoldInv, RefInv, spc \notin InHand, todo = {}, NEW b \in PoolBuf, TakeBuffer(b),
         cur'.buf = b, UNCHANGED <<todo, content, lost, queueVars, fatal>>
  PROVE  RefInv'
<1>1. ASSUME NEW d \in Buffer
      PROVE  /\ Held(d)' = IF d = b THEN Held(d) \cup {<<"rtmp", 0>>} ELSE Held(d)
             /\ <<"rtmp", 0>> \notin Held(d)
  <2>1. Sending(d) = {}
    BY DEF Sending, SenderHolds, InHand
  <2>2. Sending(d)' = IF d = b THEN {<<"rtmp", 0>>} ELSE {}
    BY DEF Sending, SenderHolds, TakeBuffer
  <2>3. Keeping(d)' = Keeping(d) /\ Waiting(d)' = Waiting(d) /\ Queued(d)' = Queued(d)
    BY KeepingSame, WaitingSame, QueuedSame, UnreleasedSame DEF queueVars
  <2>4. <<"rtmp", 0>> \notin Keeping(d) \cup Waiting(d) \cup Queued(d)
    BY PartsApart DEF HoldInv
  <2> QED
    BY <2>1, <2>2, <2>3, <2>4, HeldParts, HeldPartsNext
<1>2. HeldSame(Buffer \ {b})
  BY <1>1 DEF HeldSame
<1>3. <<"rtmp", 0>> \notin Held(b) /\ Held(b)' = Held(b) \cup {<<"rtmp", 0>>}
  BY <1>1 DEF Buffer
<1> QED
  BY <1>2, <1>3, TakeKeeps DEF HoldInv

\* ... and releases it, after sending it or because it could not be filled.
LEMMA FinishKeeps ==
  ASSUME HoldInv, RefInv, spc \in InHand, spc' \notin InHand, todo = {},
         cur.kind # "meta", Release(cur.buf),
         UNCHANGED <<todo, content, lost, queueVars>>
  PROVE  RefInv'
<1>1. PICK b \in PoolBuf : b = cur.buf
  BY MessageBuffer DEF HoldInv, TypeInv, CursorOK, CursorInv, Buffer
<1>2. ASSUME NEW d \in Buffer
      PROVE  /\ Held(d)' = IF d = b THEN Held(d) \ {<<"rtmp", 0>>} ELSE Held(d)
             /\ d = b => <<"rtmp", 0>> \in Held(d)
  <2>1. Sending(d)' = {}
    BY DEF Sending, SenderHolds, InHand
  <2>2. Sending(d) = IF d = b THEN {<<"rtmp", 0>>} ELSE {}
    BY <1>1 DEF Sending, SenderHolds, InHand
  <2>3. Keeping(d)' = Keeping(d) /\ Waiting(d)' = Waiting(d) /\ Queued(d)' = Queued(d)
    BY KeepingSame, WaitingSame, QueuedSame, UnreleasedSame DEF queueVars
  <2>4. <<"rtmp", 0>> \notin Keeping(d) \cup Waiting(d) \cup Queued(d)
    BY PartsApart DEF HoldInv
  <2> QED
    BY <2>1, <2>2, <2>3, <2>4, HeldParts, HeldPartsNext
<1>3. HeldSame(Buffer \ {b})
  BY <1>2 DEF HeldSame
<1>4. /\ <<"rtmp", 0>> \in Held(b) /\ Held(b)' = Held(b) \ {<<"rtmp", 0>>}
      /\ <<"rtmp", 0>> # <<"pub", 0>> /\ b \in Buffer
  BY <1>2 DEF Buffer
<1>5. Release(b)
  BY <1>1
<1> QED
  BY <1>3, <1>4, <1>5, DropKeeps DEF HoldInv

\* The publisher keeps a copy.
LEMMA CopyKeeps ==
  ASSUME HoldInv, RefInv, NEW b \in CopyBuf, StoreHeader(b) \/ SendMetaData(b)
  PROVE  RefInv'
<1>1. PICK v : v # 0 /\ content' = [content EXCEPT ![b] = v]
  <2>1. CASE StoreHeader(b)
    BY <2>1 DEF StoreHeader, HoldInv, StoredInv, InHand
  <2>2. CASE SendMetaData(b)
    <3>1. sent \in Nat /\ content' = [content EXCEPT ![b] = sent + 1]
      BY <2>2 DEF SendMetaData, HoldInv, TypeInv, CursorOK
    <3>2. sent + 1 # 0
      BY <3>1
    <3> QED
      BY <3>1, <3>2
  <2> QED
    BY <2>1, <2>2
<1>2. /\ content[b] = 0 /\ Acquire(b, 1) /\ todo = {}
      /\ UNCHANGED <<todo, lost, pooled, queueVars, fatal>>
  BY DEF StoreHeader, SendMetaData, FreshCopy, HoldInv, CursorInv, InHand
<1>3. b \in Buffer /\ content'[b] # 0 /\ \A d \in Buffer \ {b} : content'[d] = content[d]
  BY <1>1 DEF HoldInv, TypeInv, BuffersOK, Buffer
<1>4. \A d : Sending(d)' = Sending(d)
  <2>1. CASE StoreHeader(b)
    BY <2>1, SendingSame DEF StoreHeader, InHand
  <2>2. CASE SendMetaData(b)
    <3>1. spc \notin InHand /\ cur'.buf \notin PoolBuf
      BY <2>2, ConstantsAssumption DEF SendMetaData, InHand
    <3> QED
      BY <3>1 DEF Sending, SenderHolds, InHand
  <2> QED
    BY <2>1, <2>2
<1>5. ASSUME NEW d \in Buffer
      PROVE  /\ Held(d)' = IF d = b THEN Held(d) \cup {<<"pub", 0>>} ELSE Held(d)
             /\ d = b => <<"pub", 0>> \notin Held(d)
  <2>1. Waiting(d)' = Waiting(d) /\ Queued(d)' = Queued(d)
    BY <1>2, WaitingSame, QueuedSame, UnreleasedSame DEF queueVars
  <2>2. /\ d # b => Keeping(d)' = Keeping(d)
        /\ d = b => Keeping(d) = {} /\ Keeping(d)' = {<<"pub", 0>>}
    BY <1>2, <1>3 DEF Keeping
  <2>3. <<"pub", 0>> \notin Sending(d) \cup Waiting(d) \cup Queued(d)
    BY PartsApart DEF HoldInv
  <2> QED
    BY <1>4, <2>1, <2>2, <2>3, HeldParts, HeldPartsNext
<1>6. HeldSame(Buffer \ {b}) /\ Grows /\ NoOverflow'
  BY <1>2, <1>3, <1>5 DEF HeldSame, Grows, Buffer, RefInv, NoOverflow
<1> QED
  BY <1>2, <1>3, <1>5, <1>6, AddKeeps DEF HoldInv

\* The fan-out: one reference for each member.
LEMMA BeginCounts ==
  ASSUME TypeInv
  PROVE  /\ IsFiniteSet({<<c, 0>> : c \in members})
         /\ Cardinality({<<c, 0>> : c \in members}) = Cardinality(members)
<1> DEFINE F == [c \in members |-> <<c, 0>>]
           P == {<<c, 0>> : c \in members}
<1>1. F \in Bijection(members, P)
  <2>1. F \in [members -> P]
    OBVIOUS
  <2>2. \A a, b \in members : F[a] = F[b] => a = b
    OBVIOUS
  <2>3. \A t \in P : \E a \in members : F[a] = t
    OBVIOUS
  <2> QED
    BY <2>1, <2>2, <2>3, Fun_IsBij
<1>2. IsFiniteSet(members)
  BY FS_Subset, ConstantsAssumption DEF TypeInv, ControlOK
<1> QED
  BY <1>1, <1>2, FS_Bijection DEF ExistsBijection

LEMMA BeginKeeps == ASSUME HoldInv, RefInv, BeginLoop PROVE RefInv'
<1>1. PICK b \in Buffer : b = cur.buf
  BY MessageBuffer DEF BeginLoop, HoldInv, TypeInv, CursorOK, InHand
<1> DEFINE P == {<<c, 0>> : c \in members}
           k == Cardinality(members)
<1>2. /\ refs' = [refs EXCEPT ![b] = @ + k] /\ todo = {} /\ todo' = members
      /\ UNCHANGED <<cur, pooled, content, lost, queueVars, fatal>>
      /\ content[b] # 0
  BY <1>1 DEF BeginLoop, Acquire, HoldInv, CursorInv, StoredInv, InHand
<1>3. IsFiniteSet(P) /\ Cardinality(P) = k /\ k \in Nat
  BY BeginCounts, MemberCount DEF HoldInv, TypeInv
<1>4. ASSUME NEW d \in Buffer
      PROVE  /\ Held(d)' = IF d = b THEN Held(d) \cup P ELSE Held(d)
             /\ Held(d) \cap P = {}
  <2>1. spc \in InHand /\ spc' \in InHand
    BY DEF BeginLoop, InHand
  <2>2. Sending(d)' = Sending(d) /\ Keeping(d)' = Keeping(d) /\ Queued(d)' = Queued(d)
    BY <1>2, <2>1, SendingSame, KeepingSame, QueuedSame, UnreleasedSame DEF queueVars
  <2>3. Waiting(d) = {}
    BY <1>2 DEF Waiting
  <2>4. Waiting(d)' = IF d = b THEN P ELSE {}
    BY <1>1, <1>2 DEF Waiting
  <2>5. members \subseteq Consumer
    BY DEF HoldInv, TypeInv, ControlOK
  <2>6. \A t \in P : t \notin Sending(d) \cup Keeping(d) \cup Queued(d)
    BY <2>5, PartsApart DEF HoldInv
  <2> HIDE DEF P
  <2> QED
    BY <2>2, <2>3, <2>4, <2>6, HeldParts, HeldPartsNext
<1> HIDE DEF P, k
<1>5. \A d \in Buffer \ {b} : refs'[d] = refs[d]
  BY <1>2 DEF HoldInv, TypeInv, BuffersOK
<1>6. refs'[b] = refs[b] + k
  BY <1>2 DEF HoldInv, TypeInv, BuffersOK
<1>7. IsFiniteSet(Held(b)') /\ Cardinality(Held(b)') = Cardinality(Held(b)) + k
  <2>1. IsFiniteSet(Held(b)) /\ Cardinality(Held(b)) \in Nat
    BY CountTypes DEF HoldInv, RefInv
  <2>2. Cardinality(Held(b) \cap P) = 0
    BY <1>4, FS_EmptySet
  <2>3. /\ IsFiniteSet(Held(b) \cup P)
        /\ Cardinality(Held(b) \cup P) = Cardinality(Held(b)) + k - 0
    BY <1>3, <2>1, <2>2, FS_Union
  <2>4. Held(b)' = Held(b) \cup P
    BY <1>4
  <2> QED
    BY <1>3, <2>1, <2>3, <2>4
<1>8. ASSUME NEW d \in Buffer
      PROVE  IsFiniteSet(Held(d)') /\ refs'[d] = Cardinality(Held(d)') + lost'[d]
  <2>1. CASE d = b
    <3>1. /\ refs[d] \in Int /\ lost[d] \in Nat /\ Cardinality(Held(d)) \in Nat
          /\ refs[d] = Cardinality(Held(d)) + lost[d]
      BY CountTypes DEF HoldInv, RefInv
    <3>2. lost'[d] = lost[d]
      BY <1>2
    <3> QED
      BY <1>3, <1>6, <1>7, <2>1, <3>1, <3>2
  <2>2. CASE d # b
    BY <1>2, <1>4, <1>5, <2>2 DEF RefInv, Counted
  <2> QED
    BY <2>1, <2>2
<1>9. b \notin pooled
  <2>1. CASE b \in CopyBuf
    BY <2>1, ConstantsAssumption DEF RefInv, PoolExact
  <2>2. CASE b \in PoolBuf
    <3>1. <<"rtmp", 0>> \in Sending(b)
      BY <1>1, <2>2 DEF Sending, SenderHolds, BeginLoop
    <3>2. refs[b] > 0
      BY <3>1, HeldParts, CountTypes DEF HoldInv, RefInv
    <3> QED
      BY <3>2 DEF RefInv, PoolExact
  <2> QED
    BY <2>1, <2>2 DEF Buffer
<1>10. refs[b] \in Int /\ refs[b] >= 0
  BY CountTypes DEF HoldInv, RefInv
<1>11. ASSUME NEW d \in Buffer
       PROVE  d \in pooled' <=> d \in PoolBuf /\ refs'[d] = 0
  <2>1. d \in pooled <=> d \in PoolBuf /\ refs[d] = 0
    BY DEF RefInv, PoolExact
  <2>2. pooled' = pooled
    BY <1>2
  <2>3. CASE d # b
    BY <1>5, <2>1, <2>2, <2>3
  <2>4. CASE d = b
    <3>1. d \in PoolBuf => refs[b] > 0
      BY <1>9, <1>10, <2>1, <2>4
    <3>2. d \in PoolBuf => refs'[d] # 0
      BY <1>3, <1>6, <1>10, <2>4, <3>1
    <3> QED
      BY <1>9, <2>2, <2>4, <3>2
  <2> QED
    BY <2>3, <2>4
<1>12. ASSUME NEW d \in CopyBuf, content'[d] = 0 PROVE refs'[d] = 0
  <2>1. content[d] = 0 /\ d # b /\ d \in Buffer
    BY <1>2, <1>12 DEF Buffer
  <2> QED
    BY <1>5, <2>1 DEF RefInv, FreshFree
<1>13. Counted'
  BY <1>8 DEF Counted
<1> QED
  BY <1>2, <1>11, <1>12, <1>13 DEF RefInv, PoolExact, FreshFree, NoOverflow

\* The loop comes to a viewer: its reference leaves the sender's hands.
LEMMA VisitHolds ==
  ASSUME HoldInv, NEW c \in Consumer, Visit(c), UNCHANGED <<spc, cur, content>>,
         NEW b \in Buffer, b = cur.buf, NEW d \in Buffer
  PROVE  /\ Sending(d)' = Sending(d) /\ Keeping(d)' = Keeping(d)
         /\ Waiting(d)' = IF d = b THEN Waiting(d) \ {<<c, 0>>} ELSE Waiting(d)
         /\ d = b => <<c, 0>> \in Waiting(d)
<1>1. Sending(d)' = Sending(d) /\ Keeping(d)' = Keeping(d)
  BY SendingSame, KeepingSame
<1>2. c \in todo /\ todo' = todo \ {c}
  BY DEF Visit
<1>3. Waiting(d) = IF d = b THEN {<<e, 0>> : e \in todo} ELSE {}
  BY DEF Waiting
<1>4. Waiting(d)' = IF d = b THEN {<<e, 0>> : e \in todo \ {c}} ELSE {}
  BY <1>2 DEF Waiting
<1>5. {<<e, 0>> : e \in todo \ {c}} = {<<e, 0>> : e \in todo} \ {<<c, 0>>}
  OBVIOUS
<1> QED
  BY <1>1, <1>2, <1>3, <1>4, <1>5

LEMMA SkipKeeps ==
  ASSUME HoldInv, RefInv, NEW c \in Consumer, SkipConsumer(c) \/ Overflow(c)
  PROVE  RefInv'
<1>1. /\ Visit(c) /\ spc \in InHand
      /\ UNCHANGED <<spc, cur, content, queueVars>>
  BY DEF SkipConsumer, Overflow, Visit, InHand
<1>2. PICK b \in Buffer : b = cur.buf
  BY <1>1, MessageBuffer DEF HoldInv, TypeInv, CursorOK
<1>3. ASSUME NEW d \in Buffer
      PROVE  /\ Held(d)' = IF d = b THEN Held(d) \ {<<c, 0>>} ELSE Held(d)
             /\ d = b => <<c, 0>> \in Held(d)
  <2>1. Queued(d)' = Queued(d)
    BY <1>1, QueuedSame, UnreleasedSame DEF queueVars
  <2>2. <<c, 0>> \notin Sending(d) \cup Keeping(d) \cup Queued(d)
    BY PartsApart DEF HoldInv
  <2> QED
    BY <1>1, <1>2, <2>1, <2>2, VisitHolds, HeldParts, HeldPartsNext
<1>4. HeldSame(Buffer \ {b})
  BY <1>3 DEF HeldSame
<1>5. /\ <<c, 0>> \in Held(b) /\ Held(b)' = Held(b) \ {<<c, 0>>}
      /\ <<c, 0>> # <<"pub", 0>>
  BY <1>3, ConstantsAssumption
<1>6. CASE SkipConsumer(c)
  <2>1. Release(b) /\ UNCHANGED <<lost, content>>
    BY <1>2, <1>6 DEF SkipConsumer
  <2> QED
    BY <1>4, <1>5, <2>1, DropKeeps DEF HoldInv
<1>7. CASE Overflow(c)
  <2>1. /\ lost' = [lost EXCEPT ![b] = @ + 1]
        /\ UNCHANGED <<refs, pooled, content, fatal>>
    BY <1>2, <1>7 DEF Overflow
  <2> QED
    BY <1>4, <1>5, <2>1, LoseKeeps DEF HoldInv
<1> QED
  BY <1>6, <1>7

LEMMA EnqueueKeeps ==
  ASSUME HoldInv, RefInv, NEW c \in Consumer, Enqueue(c)
  PROVE  RefInv'
<1>1. /\ Visit(c) /\ spc \in InHand /\ Push(c, cur)
      /\ UNCHANGED <<spc, cur, bufVars, wpc, recv>>
      /\ fatal' \in {fatal, "send on closed channel"}
  BY DEF Enqueue, Visit, InHand
<1>2. PICK m \in Message, n \in Nat : m = cur /\ n = Len(log[c]) + 1
  <2>1. cur \in Message
    BY <1>1 DEF HoldInv, TypeInv, CursorOK
  <2>2. Len(log[c]) + 1 \in Nat
    BY UnreleasedIndexes DEF HoldInv
  <2> QED
    BY <2>1, <2>2
<1>3. PICK b \in Buffer : b = m.buf
  BY MessageBuffer
<1>4. n \in Nat \ {0}
  BY <1>2, UnreleasedIndexes DEF HoldInv
<1>5. ASSUME NEW d \in Buffer
      PROVE  /\ Held(d)' = IF d = b THEN (Held(d) \ {<<c, 0>>}) \cup {<<c, n>>} ELSE Held(d)
             /\ d = b => <<c, 0>> \in Held(d)
             /\ <<c, n>> \notin Held(d)
  <2>1. /\ <<c, n>> \notin Queued(d)
        /\ Queued(d)' = IF b = d THEN Queued(d) \cup {<<c, n>>} ELSE Queued(d)
    BY <1>1, <1>2, <1>3, PushHolds DEF HoldInv
  <2>2. /\ <<c, 0>> \notin Sending(d) \cup Keeping(d) \cup Queued(d)
        /\ <<c, n>> \notin Sending(d) \cup Keeping(d) \cup Waiting(d)
    BY <1>4, PartsApart DEF HoldInv
  <2>3. /\ Sending(d)' = Sending(d) /\ Keeping(d)' = Keeping(d)
        /\ Waiting(d)' = IF d = b THEN Waiting(d) \ {<<c, 0>>} ELSE Waiting(d)
        /\ d = b => <<c, 0>> \in Waiting(d)
    BY <1>1, <1>2, <1>3, VisitHolds DEF bufVars
  <2> QED
    BY <2>1, <2>2, <2>3, HeldParts, HeldPartsNext
<1>6. HeldSame(Buffer \ {b}) /\ NoOverflow'
  BY <1>1, <1>5 DEF HeldSame, RefInv, NoOverflow
<1>7. /\ <<c, 0>> \in Held(b) /\ <<c, n>> \notin Held(b)
      /\ Held(b)' = (Held(b) \ {<<c, 0>>}) \cup {<<c, n>>}
  BY <1>5
<1> QED
  BY <1>1, <1>6, <1>7, MoveKeeps DEF HoldInv, bufVars

LEMMA SenderRefs ==
  ASSUME HoldInv, RefInv, SenderStep \/ EncoderStep
  PROVE  RefInv'
<1> USE DEF HoldInv
<1>1. ASSUME UNCHANGED <<bufVars, cur, todo, queueVars, fatal>>,
             spc' \in InHand <=> spc \in InHand
      PROVE  RefInv'
  BY <1>1, SendingSame, UnreleasedSame, QuietKeeps
     DEF bufVars, queueVars, RefInv, NoOverflow
<1>2. ASSUME NEW b \in PoolBuf, NextFragment(b) PROVE RefInv'
  <2>1. /\ spc = "next" /\ TakeBuffer(b) /\ todo = {}
        /\ UNCHANGED <<todo, content, lost, queueVars, fatal>>
    BY <1>2 DEF NextFragment, CursorInv
  <2>2. cur'.buf = b
    BY <1>2 DEF NextFragment, TypeInv, CursorOK, Fragment
  <2> QED
    BY <2>1, <2>2, NextBufferKeeps DEF InHand
<1>3. ASSUME NEW k, NEW n, NEW b \in PoolBuf, OpenFrame(k, n, b) PROVE RefInv'
  <2>1. /\ spc = "idle" /\ TakeBuffer(b) /\ cur'.buf = b /\ todo = {}
        /\ UNCHANGED <<todo, content, lost, queueVars, fatal>>
    BY <1>3 DEF OpenFrame, CursorInv
  <2> QED
    BY <2>1, NextBufferKeeps DEF InHand
<1>4. CASE ReadFails
  <2>1. /\ spc = "fill" /\ spc' = "leave" /\ cur.kind # "meta" /\ todo = {}
        /\ Release(cur.buf) /\ UNCHANGED <<todo, content, lost, queueVars>>
    BY <1>4 DEF ReadFails, CursorInv, InHand
  <2> QED
    BY <2>1, FinishKeeps DEF InHand
<1>5. CASE FinishSend
  <2>1. /\ spc = "sent" /\ spc' \notin InHand /\ spc \in InHand /\ todo = {}
        /\ UNCHANGED <<todo, content, lost, queueVars>>
    BY <1>5 DEF FinishSend, CursorInv, InHand
  <2>2. CASE cur.kind = "meta"
    <3>1. UNCHANGED <<bufVars, log, fatal>> /\ \A c \in Consumer : Unreleased(c)' = Unreleased(c)
      BY <1>5, <2>1, <2>2, UnreleasedSame DEF FinishSend, bufVars, queueVars
    <3>2. \A b : Sending(b) = {} /\ Sending(b)' = {}
      BY <2>1, <2>2, ConstantsAssumption
         DEF Sending, SenderHolds, InHand, CursorInv
    <3> QED
      BY <2>1, <3>1, <3>2, QuietKeeps DEF bufVars, RefInv, NoOverflow
  <2>3. CASE cur.kind # "meta"
    BY <1>5, <2>1, <2>3, FinishKeeps DEF FinishSend
  <2> QED
    BY <2>2, <2>3
<1>6. CASE Fill
  <2>1. /\ spc = "fill" /\ spc' \in InHand
        /\ UNCHANGED <<refs, pooled, lost, cur, todo, queueVars, fatal>>
    BY <1>6 DEF Fill, InHand
  <2>2. cur.buf \notin CopyBuf
    BY <2>1 DEF CursorInv, InHand
  <2>3. \A b \in CopyBuf : content'[b] = content[b]
    BY <1>6, <2>2 DEF Fill, TypeInv, BuffersOK, Buffer
  <2>4. spc' \in InHand <=> spc \in InHand
    BY <2>1 DEF InHand
  <2>5. ASSUME NEW b \in Buffer PROVE Held(b)' = Held(b)
    BY <2>1, <2>3, <2>4, SendingSame, KeepingSame, WaitingSame, QueuedSame, UnreleasedSame,
       HeldParts, HeldPartsNext DEF queueVars
  <2> QED
    BY <2>1, <2>3, <2>5, SameKeeps DEF HeldSame, Grows, RefInv, NoOverflow
<1>7. CASE EndMapWrite \/ EndLoop \/ StopRemoved \/ PubStop
  <2>1. /\ UNCHANGED <<bufVars, cur, todo, wpc, recv, log, fatal>>
        /\ spc' \in InHand <=> spc \in InHand
    BY <1>7 DEF EndMapWrite, EndLoop, StopRemoved, PubStop, InHand, queueVars
  <2> QED
    BY <2>1, SendingSame, UnreleasedSame, QuietKeeps DEF bufVars, RefInv, NoOverflow
<1>8. CASE CheckExists \/ InsertPublisher \/ Unregister
  BY <1>1, <1>8 DEF CheckExists, InsertPublisher, Unregister, InHand
<1> QED
  BY <1>2, <1>3, <1>4, <1>5, <1>6, <1>7, <1>8, CopyKeeps, BeginKeeps, SkipKeeps,
     EnqueueKeeps DEF SenderStep, EncoderStep

LEMMA WriterOffStep == TypeInv /\ WriterOff /\ [Next]_vars => WriterOff'
<1> SUFFICES ASSUME TypeInv, WriterOff, [Next]_vars PROVE WriterOff'
  OBVIOUS
<1> USE DEF WriterOff
<1>1. CASE UNCHANGED <<vpc, wpc>>
  BY <1>1
<1>2. CASE SenderStep \/ EncoderStep
  BY <1>1, <1>2 DEF SenderStep, EncoderStep, NextFragment, StoreHeader, BeginLoop,
     SkipConsumer, Enqueue, Overflow, EndMapWrite, EndLoop, StopRemoved, FinishSend,
     PubStop, CheckExists, InsertPublisher, OpenFrame, SendMetaData, Fill, ReadFails,
     Unregister, viewerVars, queueVars
<1>3. ASSUME NEW c \in Consumer, ViewerStep(c) PROVE WriterOff'
  <2>1. CASE Connect(c) \/ HandlerStep(c)
    <3>1. /\ \E s \in {"lookup", "check", "snap", "initial", "refuse", "watch",
                       "remove", "done"} : vpc' = [vpc EXCEPT ![c] = s] \/ vpc' = vpc
          /\ \A d \in Consumer \ {c} : wpc'[d] = wpc[d]
          /\ HandlerStep(c) => wpc' = wpc
          /\ Connect(c) => vpc'[c] = "lookup"
      BY <2>1 DEF Connect, HandlerStep, Lookup, HasConsumer, Snapshot, SendInitial,
         InitialOverflow, Refuse, Insert, LeaveLookup, RemoveConsumer, Return,
         viewerVars, queueVars, TypeInv, ControlOK
    <3> QED
      BY <2>1, <3>1 DEF TypeInv, ControlOK
  <2>2. CASE PeerLost(c) \/ WriteStep(c) \/ WriterStep(c)
    <3>1. /\ vpc' = vpc /\ \A d \in Consumer \ {c} : wpc'[d] = wpc[d]
          /\ wpc[c] = "off" => wpc' = wpc
      BY <2>2 DEF PeerLost, WriteStep, WriterStep, Written, WriteFails, Receive, Drain,
         WriterEnds, viewerVars, queueVars, TypeInv, ControlOK
    <3> QED
      BY <3>1
  <2> QED
    BY <1>3, <2>1, <2>2 DEF ViewerStep
<1> QED
  BY NextCases, <1>1, <1>2, <1>3 DEF vars, viewerVars, queueVars

LEMMA RefStep == HoldInv /\ RefInv /\ [Next]_vars => RefInv'
<1> SUFFICES ASSUME HoldInv, RefInv, [Next]_vars PROVE RefInv'
  OBVIOUS
<1>1. CASE UNCHANGED vars
  <2>1. UNCHANGED <<refs, pooled, lost, content, cur, spc, todo, wpc, recv, log, fatal>>
    BY <1>1 DEF vars, senderVars, bufVars, queueVars
  <2>2. \A b : Sending(b)' = Sending(b)
    BY <2>1 DEF Sending, SenderHolds
  <2> QED
    BY <2>1, <2>2, UnreleasedSame, QuietKeeps DEF HoldInv, RefInv, NoOverflow
<1> QED
  BY NextCases, <1>1, SenderRefs, ViewerRefs

LEMMA RefInitially == Init => CursorInv /\ StoredInv /\ WriterOff /\ RefInv
<1> SUFFICES ASSUME Init PROVE CursorInv /\ StoredInv /\ WriterOff /\ RefInv
  OBVIOUS
<1>1. CursorInv /\ StoredInv /\ WriterOff
  BY DEF Init, CursorInv, StoredInv, WriterOff, InHand
<1>2. \A b \in Buffer : Held(b) = {}
  <2>1. spc \notin InHand /\ todo = {} /\ \A b \in Buffer : content[b] = 0
    BY DEF Init, InHand
  <2>2. \A c \in Consumer : Unreleased(c) = {}
    BY DEF Init, Unreleased
  <2>3. \A b : Waiting(b) = {} /\ Queued(b) = {}
    BY <2>1, <2>2 DEF Waiting, Queued
  <2>4. \A b \in Buffer : Sending(b) = {} /\ Keeping(b) = {}
    BY <2>1 DEF Sending, SenderHolds, Keeping, InHand
  <2> QED
    BY <2>3, <2>4, HeldParts
<1>3. \A b \in Buffer : refs[b] = 0 /\ lost[b] = 0
  BY DEF Init
<1>4. pooled = PoolBuf /\ fatal = "none"
  BY DEF Init
<1> QED
  BY <1>1, <1>2, <1>3, <1>4, FS_EmptySet
     DEF RefInv, Counted, PoolExact, FreshFree, NoOverflow, Buffer

LEMMA RefInvariant == Spec => [](HoldInv /\ RefInv)
<1> DEFINE I == CursorInv /\ StoredInv /\ WriterOff /\ RefInv
<1>1. Init => I
  BY RefInitially
<1>2. TypeInv /\ I /\ [Next]_vars => I'
  BY CursorInvStep, StoredInvStep, WriterOffStep, RefStep DEF HoldInv
<1>3. TypeInv /\ I => HoldInv /\ RefInv
  BY DEF HoldInv
<1> HIDE DEF I
<1> QED
  BY <1>1, <1>2, <1>3, TypeInvariant, PTL DEF Spec

\* The count of every buffer is that of its holders and of the references that
\* overflowed queues forgot, and a buffer is in its pool exactly when the count is
\* zero, whatever the viewers and the encoder do.
THEOREM RefsExactTheorem == Spec => []RefsExact
<1>1. RefInv => RefsExact
  BY DEF RefInv, Counted, PoolExact, RefsExact
<1> QED
  BY <1>1, RefInvariant, PTL

\* Neither Release nor a send ever panics.
THEOREM NoPanicTheorem == Spec => []NoPanic
<1>1. RefInv /\ SendsOpen => NoPanic
  BY DEF RefInv, NoOverflow, SendsOpen, NoPanic
<1> QED
  BY <1>1, RefInvariant, NoSendOnClosed, PTL
-----------------------------------------------------------------------------
(***************************************************************************)
(* PayloadIntact.  A buffer that comes out of the pool is in no queue, and *)
(* it gets into one only by the loop of SendMessage, after it was filled;  *)
(* a copy is written once.                                                 *)
(***************************************************************************)
\* Until the loop starts, the pooled buffer in hand is in no queue.
TakenAlone ==
  spc \in {"fill", "store", "lock"} /\ cur.buf \in PoolBuf =>
    \A c \in Consumer : \A i \in Unreleased(c) : log[c][i].buf # cur.buf

\* What sendInitialData has still to send.
InitCarried ==
  \A c \in Consumer : \A i \in DOMAIN init[c] :
    content[init[c][i].buf] = init[c][i].no

PayloadInv ==
  /\ spc \in InHand \ {"fill"} => content[cur.buf] = cur.no
  /\ TakenAlone
  /\ InitCarried
  /\ PayloadIntact

\* A message not yet released was so before, or has just been sent.
LEMMA PushedMessage ==
  ASSUME TypeInv, NEW c \in Consumer, NEW m \in Message, Push(c, m),
         UNCHANGED <<wpc, recv>>, NEW d \in Consumer, NEW i \in Unreleased(d)'
  PROVE  (i \in Unreleased(d) /\ log'[d][i] = log[d][i]) \/ (d = c /\ log'[d][i] = m)
<1>1. /\ log[c] \in Seq(Message) /\ Len(log[c]) \in Nat /\ recv[c] \in Nat
      /\ log \in [Consumer -> Seq(Message)]
  BY DEF TypeInv, QueuesOK
<1>2. /\ log'[c] = Append(log[c], m) /\ Len(log'[c]) = Len(log[c]) + 1
      /\ log'[c][Len(log[c]) + 1] = m
      /\ \A j \in 1..Len(log[c]) : log'[c][j] = log[c][j]
      /\ \A e \in Consumer \ {c} : log'[e] = log[e]
  BY <1>1 DEF Push
<1>3. CASE d # c
  BY <1>2, <1>3 DEF Unreleased
<1>4. CASE d = c
  <2>1. Unreleased(c)' = Unreleased(c) \cup {Len(log[c]) + 1}
    <3>1. recv[c] <= Len(log[c])
      BY DEF TypeInv, QueuesOK
    <3>2. Len(log'[c]) = Len(log[c]) + 1 /\ recv'[c] = recv[c] /\ wpc'[c] = wpc[c]
      BY <1>2
    <3>3. Unreleased(c)' = (IF wpc[c] = "write" THEN recv[c] ELSE recv[c] + 1)
                             ..(Len(log[c]) + 1)
      BY <3>2 DEF Unreleased
    <3> DEFINE low == IF wpc[c] = "write" THEN recv[c] ELSE recv[c] + 1
               len == Len(log[c])
    <3>4. low \in Nat /\ len \in Nat /\ low <= len + 1
      BY <1>1, <3>1
    <3>5. Unreleased(c) = low..len /\ Unreleased(c)' = low..(len + 1)
      BY <3>3 DEF Unreleased
    <3> HIDE DEF low, len
    <3>6. low..(len + 1) = low..len \cup {len + 1}
      BY <3>4
    <3> QED
      BY <3>5, <3>6 DEF len
  <2>2. Unreleased(c) \subseteq 1..Len(log[c])
    BY UnreleasedIndexes
  <2> QED
    BY <1>2, <1>4, <2>1, <2>2
<1> QED
  BY <1>3, <1>4

LEMMA QueueSteps ==
  ASSUME HoldInv, [Next]_vars, NEW d \in Consumer, NEW i \in Unreleased(d)'
  PROVE  \/ i \in Unreleased(d) /\ log'[d][i] = log[d][i]
         \/ Enqueue(d) /\ log'[d][i] = cur
         \/ SendInitial(d) /\ log'[d][i] = Head(init[d])
<1> DEFINE Stays == i \in Unreleased(d) /\ log'[d][i] = log[d][i]
<1>0. TypeInv
  BY DEF HoldInv
<1>1. ASSUME UNCHANGED <<wpc, recv, log>> PROVE Stays
  BY <1>1 DEF Unreleased
<1>2. ASSUME NEW c \in Consumer, Enqueue(c)
      PROVE  Stays \/ (Enqueue(d) /\ log'[d][i] = cur)
  <2>1. cur \in Message /\ Push(c, cur) /\ UNCHANGED <<wpc, recv>>
    BY <1>0, <1>2 DEF Enqueue, Visit, TypeInv, CursorOK, InHand
  <2>2. Stays \/ (d = c /\ log'[d][i] = cur)
    BY <1>0, <2>1, PushedMessage
  <2> QED
    BY <1>2, <2>2
<1>3. ASSUME NEW c \in Consumer, SendInitial(c)
      PROVE  Stays \/ (SendInitial(d) /\ log'[d][i] = Head(init[d]))
  <2>1. init[c] # <<>> /\ init[c] \in Seq(Message)
    BY <1>0, <1>3 DEF SendInitial, TypeInv, QueuesOK
  <2>2. Head(init[c]) \in Message /\ Push(c, Head(init[c])) /\ UNCHANGED <<wpc, recv>>
    <3>1. Head(init[c]) \in Message
      BY <2>1
    <3> QED
      BY <1>3, <3>1 DEF SendInitial
  <2>3. Stays \/ (d = c /\ log'[d][i] = Head(init[c]))
    BY <1>0, <2>2, PushedMessage
  <2> QED
    BY <1>3, <2>3
<1>4. ASSUME NEW c \in Consumer, Connect(c) PROVE Stays
  <2>1. wpc[c] = "off" /\ wpc' = [wpc EXCEPT ![c] = "recv"] /\ UNCHANGED <<recv, log>>
    BY <1>4 DEF Connect, WriterOff, HoldInv
  <2> QED
    BY <1>0, <2>1 DEF Unreleased, TypeInv, ControlOK
<1>5. ASSUME NEW c \in Consumer, WriteStep(c) \/ WriterStep(c) PROVE Stays
  <2> DEFINE Advance == /\ UNCHANGED log /\ recv \in [Consumer -> Nat]
                        /\ \A e \in Consumer \ {c} : recv'[e] = recv[e] /\ wpc'[e] = wpc[e]
                        /\ \/ recv' = recv /\ wpc'[c] # "write"
                           \/ recv'[c] = recv[c] + 1 /\ wpc[c] # "write"
  <2>0. wpc \in [Consumer -> {"off", "recv", "write", "drain", "ended"}]
        /\ recv \in [Consumer -> Nat]
    BY <1>0 DEF TypeInv, ControlOK, QueuesOK
  <2>3. ASSUME Written(c) PROVE Advance
    BY <2>0, <2>3 DEF Written
  <2>4. ASSUME WriteFails(c) PROVE Advance
    BY <2>0, <2>4 DEF WriteFails
  <2>5. ASSUME Receive(c) PROVE Advance
    BY <2>0, <2>5 DEF Receive
  <2>6. ASSUME Drain(c) PROVE Advance
    BY <2>0, <2>6 DEF Drain
  <2>7. ASSUME WriterEnds(c) PROVE Advance
    BY <2>0, <2>7 DEF WriterEnds
  <2> HIDE DEF Advance
  <2>8. Advance
    BY <1>5, <2>3, <2>4, <2>5, <2>6, <2>7 DEF WriteStep, WriterStep
  <2>1. /\ UNCHANGED log /\ recv \in [Consumer -> Nat]
        /\ \A e \in Consumer \ {c} : recv'[e] = recv[e] /\ wpc'[e] = wpc[e]
        /\ \/ recv' = recv /\ wpc'[c] # "write"
           \/ recv'[c] = recv[c] + 1 /\ wpc[c] # "write"
    BY <2>8 DEF Advance
  <2>9. CASE d # c
    BY <2>1, <2>9 DEF Unreleased
  <2>10. CASE d = c
    <3>1. Len(log[c]) \in Nat /\ recv[c] \in Nat
      BY <1>0 DEF TypeInv, QueuesOK
    <3>2. CASE recv' = recv /\ wpc'[c] # "write"
      BY <2>1, <2>10, <3>1, <3>2 DEF Unreleased
    <3>3. CASE recv'[c] = recv[c] + 1 /\ wpc[c] # "write"
      BY <2>1, <2>10, <3>1, <3>3 DEF Unreleased
    <3> QED
      BY <2>1, <3>2, <3>3
  <2> QED
    BY <2>9, <2>10
<1> HIDE DEF Stays
<1>6. ASSUME SenderStep \/ EncoderStep
      PROVE  Stays \/ (Enqueue(d) /\ log'[d][i] = cur)
  <2>1. UNCHANGED <<wpc, recv, log>> \/ \E c \in Consumer : Enqueue(c)
    BY <1>6 DEF SenderStep, EncoderStep, NextFragment, StoreHeader, BeginLoop,
     SkipConsumer, Overflow, EndMapWrite, EndLoop, StopRemoved, FinishSend,
     PubStop, CheckExists, InsertPublisher, OpenFrame, SendMetaData, Fill, ReadFails,
     Unregister, queueVars
  <2> QED
    BY <1>1, <1>2, <2>1 DEF Stays
<1>7. ASSUME NEW c \in Consumer, PeerLost(c) \/ HandlerStep(c)
      PROVE  Stays \/ (SendInitial(d) /\ log'[d][i] = Head(init[d]))
  <2>1. UNCHANGED <<wpc, recv, log>> \/ SendInitial(c)
    BY <1>7 DEF PeerLost, HandlerStep, Lookup, HasConsumer, Snapshot,
         InitialOverflow, Refuse, Insert, LeaveLookup, RemoveConsumer, queueVars
  <2> QED
    BY <1>1, <1>3, <2>1
<1>8. CASE UNCHANGED vars
  BY <1>1, <1>8 DEF vars, queueVars, Stays
<1> QED
  BY NextCases, <1>4, <1>5, <1>6, <1>7, <1>8 DEF ViewerStep, Stays

\* A buffer whose count is zero is in no queue.
LEMMA NobodyHolds ==
  ASSUME HoldInv, RefInv, NEW b \in Buffer, refs[b] = 0,
         NEW c \in Consumer, NEW i \in Unreleased(c)
  PROVE  log[c][i].buf # b
<1>1. TypeInv /\ Counted
  BY DEF HoldInv, RefInv
<1>2. Held(b) = {}
  BY <1>1, CountTypes
<1> SUFFICES ASSUME log[c][i].buf = b PROVE FALSE
  OBVIOUS
<1>3. <<c, i>> \in Queued(b)
  BY DEF Queued
<1> QED
  BY <1>2, <1>3, HeldParts

\* What a buffer holds changes when it is filled, and when a copy is made.
LEMMA ContentSteps ==
  ASSUME TypeInv, [Next]_vars, NEW b \in Buffer
  PROVE  \/ content'[b] = content[b]
         \/ Fill /\ b = cur.buf
         \/ (StoreHeader(b) \/ SendMetaData(b)) /\ content[b] = 0 /\ b \in CopyBuf
<1>1. CASE UNCHANGED content
  BY <1>1
<1>2. CASE Fill
  <2>1. content' = [content EXCEPT ![cur.buf] = cur.no]
    BY <1>2 DEF Fill
  <2> QED
    BY <1>2, <2>1 DEF TypeInv, BuffersOK
<1>3. ASSUME NEW h \in CopyBuf, StoreHeader(h) \/ SendMetaData(h)
      PROVE  content'[b] = content[b] \/ (b = h /\ content[h] = 0)
  <2>1. content[h] = 0 /\ \E v : content' = [content EXCEPT ![h] = v]
    BY <1>3 DEF StoreHeader, SendMetaData, FreshCopy
  <2> QED
    BY <2>1 DEF TypeInv, BuffersOK
<1> HIDE DEF Fill
<1>4. CASE SenderStep
  BY <1>1, <1>3, <1>4 DEF SenderStep, NextFragment, BeginLoop, SkipConsumer, Enqueue,
     Overflow, EndMapWrite, EndLoop, StopRemoved, FinishSend, PubStop, bufVars
<1>5. CASE EncoderStep
  BY <1>1, <1>2, <1>3, <1>5 DEF EncoderStep, CheckExists, InsertPublisher, OpenFrame,
     ReadFails, Unregister, bufVars
<1>6. ASSUME NEW c \in Consumer, ViewerStep(c) PROVE UNCHANGED content
  BY <1>6 DEF ViewerStep, Connect, PeerLost, HandlerStep, Lookup, HasConsumer, Snapshot,
     SendInitial, InitialOverflow, Refuse, Insert, LeaveLookup, RemoveConsumer,
     WriteStep, WriterStep, Receive, Written, WriteFails, Drain, WriterEnds, bufVars
<1> QED
  BY NextCases, <1>1, <1>4, <1>5, <1>6 DEF vars, bufVars

\* A filled copy keeps what it holds.
LEMMA CopyConstant ==
  ASSUME TypeInv, CursorInv, [Next]_vars, NEW b \in CopyBuf, content[b] # 0
  PROVE  content'[b] = content[b]
<1>1. b \in Buffer
  BY DEF Buffer
<1>2. Fill => cur.buf \notin CopyBuf
  BY DEF Fill, CursorInv, InHand
<1> QED
  BY <1>1, <1>2, ContentSteps

\* The message in hand, once filled, lies in its buffer.
LEMMA CursorPayload ==
  ASSUME HoldInv, PayloadInv, [Next]_vars, spc' \in InHand \ {"fill"}
  PROVE  content'[cur'.buf] = cur'.no
<1>0. TypeInv /\ CursorInv
  BY DEF HoldInv
<1>1. ASSUME cur' = cur, spc \in InHand \ {"fill"} PROVE content'[cur'.buf] = cur'.no
  <2>1. PICK b \in Buffer : b = cur.buf
    BY <1>0, <1>1, MessageBuffer DEF TypeInv, CursorOK
  <2>2. content[b] # 0 /\ content[b] = cur.no
    BY <1>1, <2>1 DEF HoldInv, StoredInv, PayloadInv
  <2>3. ~Fill
    BY <1>1 DEF Fill
  <2> QED
    BY <1>0, <1>1, <2>1, <2>2, <2>3, ContentSteps
<1>2. CASE Fill
  <2>1. cur.buf \in Buffer /\ cur' = cur /\ content' = [content EXCEPT ![cur.buf] = cur.no]
    BY <1>0, <1>2, MessageBuffer DEF Fill, TypeInv, CursorOK, InHand
  <2> QED
    BY <1>0, <2>1 DEF TypeInv, BuffersOK
<1>3. ASSUME NEW b \in CopyBuf, SendMetaData(b) PROVE content'[cur'.buf] = cur'.no
  BY <1>0, <1>3 DEF SendMetaData, TypeInv, BuffersOK, Buffer
<1> HIDE DEF Fill
<1>4. CASE SenderStep
  <2>1. spc' \in InHand \ {"fill"} => cur' = cur /\ spc \in InHand \ {"fill"}
    BY <1>4 DEF SenderStep, NextFragment, TakeBuffer, StoreHeader, BeginLoop, SkipConsumer,
       Enqueue, Overflow, Visit, EndMapWrite, EndLoop, StopRemoved, FinishSend, PubStop, InHand
  <2> QED
    BY <1>1, <2>1
<1>5. CASE EncoderStep
  BY <1>2, <1>3, <1>5 DEF EncoderStep, CheckExists, InsertPublisher, OpenFrame, TakeBuffer,
     ReadFails, Unregister, InHand
<1>6. CASE UNCHANGED vars \/ \E c \in Consumer : ViewerStep(c)
  BY <1>1, <1>6, ViewersApart DEF vars, senderVars
<1> QED
  BY NextCases, <1>4, <1>5, <1>6

LEMMA TakenAloneStep ==
  ASSUME HoldInv, RefInv, TakenAlone, [Next]_vars
  PROVE  TakenAlone'
<1>0. TypeInv /\ CursorInv /\ StoredInv
  BY DEF HoldInv
<1> SUFFICES ASSUME spc' \in {"fill", "store", "lock"}, cur'.buf \in PoolBuf,
                    NEW d \in Consumer, NEW i \in Unreleased(d)'
             PROVE  log'[d][i].buf # cur'.buf
  BY DEF TakenAlone
<1>1. ASSUME NEW b \in PoolBuf, TakeBuffer(b), cur'.buf = b, UNCHANGED queueVars
      PROVE  log'[d][i].buf # cur'.buf
  <2>1. refs[b] = 0 /\ b \in Buffer
    BY <1>1 DEF TakeBuffer, RefInv, PoolExact, Buffer
  <2>2. i \in Unreleased(d) /\ log' = log
    BY <1>1 DEF Unreleased, queueVars
  <2> QED
    BY <1>1, <2>1, <2>2, NobodyHolds
<1>2. ASSUME cur' = cur, spc \in {"fill", "store", "lock"}
      PROVE  log'[d][i].buf # cur'.buf
  <2>1. CASE i \in Unreleased(d) /\ log'[d][i] = log[d][i]
    BY <1>2, <2>1 DEF TakenAlone
  <2>2. ~Enqueue(d)
    BY <1>2 DEF Enqueue, Visit
  <2>3. CASE SendInitial(d) /\ log'[d][i] = Head(init[d])
    <3>1. init[d] # <<>> /\ init[d] \in Seq(Message)
      BY <1>0, <2>3 DEF SendInitial, TypeInv, QueuesOK
    <3>2. 1 \in DOMAIN init[d] /\ Head(init[d]) = init[d][1]
      BY <3>1
    <3>3. log'[d][i].buf \in CopyBuf
      BY <1>0, <2>3, <3>2 DEF StoredInv, Filled
    <3> QED
      BY <1>2, <3>3, ConstantsAssumption
  <2> QED
    BY <2>1, <2>2, <2>3, QueueSteps
<1>3. ASSUME NEW b \in PoolBuf, NextFragment(b) PROVE log'[d][i].buf # cur'.buf
  <2>1. cur'.buf = b
    BY <1>0, <1>3 DEF NextFragment, TypeInv, CursorOK, Fragment
  <2> QED
    BY <1>1, <1>3, <2>1 DEF NextFragment
<1>4. ASSUME NEW k, NEW n, NEW b \in PoolBuf, OpenFrame(k, n, b)
      PROVE  log'[d][i].buf # cur'.buf
  BY <1>1, <1>4 DEF OpenFrame
<1>5. \A b \in CopyBuf : ~SendMetaData(b)
  BY ConstantsAssumption DEF SendMetaData
<1>6. CASE SenderStep
  <2>1. (cur' = cur /\ spc \in {"fill", "store", "lock"})
        \/ \E b \in PoolBuf : NextFragment(b)
    BY <1>6 DEF SenderStep, StoreHeader, BeginLoop, SkipConsumer,
       Enqueue, Overflow, Visit, EndMapWrite, EndLoop, StopRemoved, FinishSend, PubStop
  <2> QED
    BY <1>2, <1>3, <2>1
<1>7. CASE EncoderStep
  BY <1>2, <1>4, <1>5, <1>7 DEF EncoderStep, CheckExists, InsertPublisher, Fill,
     ReadFails, Unregister
<1>8. CASE UNCHANGED vars \/ \E c \in Consumer : ViewerStep(c)
  BY <1>2, <1>8, ViewersApart DEF vars, senderVars
<1> QED
  BY NextCases, <1>6, <1>7, <1>8

LEMMA SnapshotCarries ==
  ASSUME TypeInv, NEW c \in Consumer, Snapshot(c)
  PROVE  \A i \in DOMAIN init'[c] : content[init'[c][i].buf] = init'[c][i].no
<1> DEFINE Carried == {m \in Message : content[m.buf] = m.no}
           m == Initial("meta")
           v == Initial("vhdr")
           a == Initial("ahdr")
<1>1. ASSUME NEW k \in StoredKind PROVE Initial(k) \in Seq(Carried)
  <2>1. CASE hdr[k] = NoBuf
    BY <2>1 DEF Initial
  <2>2. CASE hdr[k] # NoBuf
    <3> DEFINE e == [kind |-> k, cont |-> FALSE, no |-> content[hdr[k]], buf |-> hdr[k]]
    <3>1. Initial(k) = <<e>>
      BY <2>2 DEF Initial
    <3>2. hdr[k] \in Buffer /\ content[hdr[k]] \in Nat /\ k \in MsgKind
      BY <2>2 DEF TypeInv, BuffersOK, Buffer, MsgKind
    <3>3. e \in Message /\ content[e.buf] = e.no
      BY <3>2 DEF Message
    <3> QED
      BY <3>1, <3>3
  <2> QED
    BY <2>1, <2>2
<1>2. m \in Seq(Carried) /\ v \in Seq(Carried) /\ a \in Seq(Carried)
  BY <1>1 DEF StoredKind, HeaderKind
<1>3. init'[c] = m \o v \o a
  BY DEF Snapshot, TypeInv, QueuesOK
<1> HIDE DEF m, v, a
<1>4. m \o v \o a \in Seq(Carried)
  <2> HIDE DEF Carried
  <2> QED
    BY <1>2
<1>5. ASSUME NEW i \in DOMAIN init'[c] PROVE init'[c][i] \in Carried
  <2> HIDE DEF Carried
  <2> QED
    BY <1>3, <1>4
<1> QED
  BY <1>5

LEMMA InitCarriedStep ==
  ASSUME HoldInv, InitCarried, [Next]_vars
  PROVE  InitCarried'
<1>0. TypeInv /\ CursorInv /\ StoredInv
  BY DEF HoldInv
<1>1. ASSUME NEW c \in Consumer, NEW i \in DOMAIN init[c]
      PROVE  content'[init[c][i].buf] = init[c][i].no
  <2>1. init[c][i].buf \in CopyBuf /\ content[init[c][i].buf] # 0
    BY <1>0 DEF StoredInv, Filled
  <2> QED
    BY <1>0, <2>1, CopyConstant DEF InitCarried
<1>2. CASE UNCHANGED init
  BY <1>1, <1>2 DEF InitCarried
<1>3. ASSUME NEW c \in Consumer, \A d \in Consumer \ {c} : init'[d] = init[d],
             \A i \in DOMAIN init'[c] : content'[init'[c][i].buf] = init'[c][i].no
      PROVE  InitCarried'
  <2>1. ASSUME NEW d \in Consumer, NEW i \in DOMAIN init'[d]
        PROVE  content'[init'[d][i].buf] = init'[d][i].no
    BY <1>1, <1>3, <2>1
  <2> QED
    BY <2>1 DEF InitCarried
<1>4. CASE SenderStep \/ EncoderStep
  BY <1>2, <1>4 DEF SenderStep, EncoderStep, NextFragment, StoreHeader, BeginLoop,
     SkipConsumer, Enqueue, Overflow, EndMapWrite, EndLoop, StopRemoved, FinishSend, PubStop,
     CheckExists, InsertPublisher, OpenFrame, SendMetaData, Fill, ReadFails, Unregister,
     viewerVars
<1>5. ASSUME NEW c \in Consumer, ViewerStep(c) PROVE InitCarried'
  <2>0. init \in [Consumer -> Seq(Message)]
    BY <1>0 DEF TypeInv, QueuesOK
  <2>1. CASE Snapshot(c)
    <3>1. (\A d \in Consumer \ {c} : init'[d] = init[d]) /\ UNCHANGED content
      BY <2>0, <2>1 DEF Snapshot, bufVars
    <3> QED
      BY <1>0, <1>3, <2>1, <3>1, SnapshotCarries
  <2>2. CASE SendInitial(c)
    <3>1. init[c] # <<>> /\ init' = [init EXCEPT ![c] = Tail(init[c])]
      BY <2>2 DEF SendInitial
    <3>2. init[c] \in Seq(Message)
      BY <2>0
    <3>3. ASSUME NEW i \in DOMAIN init'[c]
          PROVE  content'[init'[c][i].buf] = init'[c][i].no
      <4>1. i + 1 \in DOMAIN init[c] /\ init'[c][i] = init[c][i + 1]
        BY <2>0, <3>1, <3>2
      <4> QED
        BY <1>1, <4>1
    <3> QED
      BY <1>3, <2>0, <3>1, <3>3
  <2>3. CASE Refuse(c)
    <3>1. init' = [init EXCEPT ![c] = <<>>]
      BY <2>3 DEF Refuse
    <3>2. DOMAIN init'[c] = {}
      BY <2>0, <3>1
    <3> QED
      BY <1>3, <2>0, <3>1, <3>2
  <2> QED
    BY <1>2, <1>5, <2>1, <2>2, <2>3 DEF ViewerStep, Connect, PeerLost, HandlerStep, Lookup,
     HasConsumer, InitialOverflow, Insert, LeaveLookup, RemoveConsumer,
     WriteStep, WriterStep, Receive, Written, WriteFails, Drain, WriterEnds, viewerVars
<1> QED
  BY NextCases, <1>2, <1>4, <1>5 DEF vars, viewerVars

LEMMA PayloadIntactStep ==
  ASSUME HoldInv, RefInv, PayloadInv, [Next]_vars
  PROVE  PayloadIntact'
<1>0. TypeInv /\ CursorInv /\ StoredInv
  BY DEF HoldInv
<1> SUFFICES ASSUME NEW d \in Consumer, NEW i \in Unreleased(d)'
             PROVE  content'[log'[d][i].buf] = log'[d][i].no
  BY DEF PayloadIntact
<1>1. CASE i \in Unreleased(d) /\ log'[d][i] = log[d][i]
  <2>1. i \in 1..Len(log[d]) /\ log[d] \in Seq(Message)
    BY <1>0, <1>1, UnreleasedIndexes DEF TypeInv, QueuesOK
  <2>2. log[d][i] \in Message
    BY <2>1
  <2>3. PICK b \in Buffer : b = log[d][i].buf
    BY <2>2, MessageBuffer
  <2>4. content[b] = log[d][i].no
    BY <1>1, <2>3 DEF PayloadInv, PayloadIntact
  <2>5. ASSUME Fill, b = cur.buf PROVE FALSE
    <3>1. spc = "fill" /\ b \in PoolBuf
      BY <1>0, <2>5 DEF Fill, CursorInv, InHand, Buffer
    <3> QED
      BY <1>1, <2>3, <2>5, <3>1 DEF PayloadInv, TakenAlone
  <2>6. ASSUME content[b] = 0, b \in CopyBuf PROVE FALSE
    <3>1. refs[b] = 0
      BY <2>6 DEF RefInv, FreshFree
    <3> QED
      BY <1>1, <2>3, <3>1, NobodyHolds
  <2>7. content'[b] = content[b]
    BY <1>0, <2>5, <2>6, ContentSteps
  <2> QED
    BY <1>1, <2>3, <2>4, <2>7
<1>2. CASE Enqueue(d) /\ log'[d][i] = cur
  <2>1. spc \in InHand \ {"fill"} /\ UNCHANGED content
    BY <1>2 DEF Enqueue, Visit, InHand, bufVars
  <2> QED
    BY <1>2, <2>1 DEF PayloadInv
<1>3. CASE SendInitial(d) /\ log'[d][i] = Head(init[d])
  <2>1. init[d] # <<>> /\ init[d] \in Seq(Message) /\ UNCHANGED content
    BY <1>0, <1>3 DEF SendInitial, TypeInv, QueuesOK
  <2>2. 1 \in DOMAIN init[d] /\ Head(init[d]) = init[d][1]
    BY <2>1
  <2> QED
    BY <1>3, <2>1, <2>2 DEF PayloadInv, InitCarried
<1> QED
  BY <1>1, <1>2, <1>3, QueueSteps

LEMMA PayloadInvariant == Spec => [](HoldInv /\ RefInv /\ PayloadInv)
<1>1. Init => PayloadInv
  BY DEF Init, PayloadInv, TakenAlone, InitCarried, PayloadIntact, Unreleased, InHand
<1>2. HoldInv /\ RefInv /\ PayloadInv /\ [Next]_vars => PayloadInv'
  <2> SUFFICES ASSUME HoldInv, RefInv, PayloadInv, [Next]_vars PROVE PayloadInv'
    OBVIOUS
  <2>1. TakenAlone' /\ InitCarried' /\ PayloadIntact'
    BY TakenAloneStep, InitCarriedStep, PayloadIntactStep DEF PayloadInv
  <2> QED
    BY <2>1, CursorPayload DEF PayloadInv
<1> QED
  BY <1>1, <1>2, RefInvariant, PTL DEF Spec

\* A message that a viewer has not been sent yet still has the payload it had when
\* SendMessage or sendInitialData queued it: no buffer is refilled under it.
THEOREM PayloadTheorem == Spec => []PayloadIntact
<1>1. PayloadInv => PayloadIntact
  BY DEF PayloadInv
<1> QED
  BY <1>1, PayloadInvariant, PTL
=============================================================================
