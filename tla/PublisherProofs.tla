-------------------------- MODULE PublisherProofs --------------------------
(***************************************************************************)
(* Proofs about Publisher, for any number of viewers and buffers, any      *)
(* capacity of the queues and any length of the frames.                    *)
(***************************************************************************)
EXTENDS Publisher, FiniteSetTheorems, TLAPS

(***************************************************************************)
(* TypeOK in four parts, each with what makes it inductive: the message    *)
(* between two fragments has everything but a buffer, and readMessages has *)
(* received no more than was sent.                                         *)
(***************************************************************************)
InHand == {"fill", "store", "lock", "loop", "stop", "sent"}

ControlOK ==
  /\ registered \in BOOLEAN /\ writing \in BOOLEAN
  /\ members \subseteq Consumer /\ keyed \subseteq Consumer
  /\ todo \subseteq Consumer /\ removed \subseteq Consumer
  /\ stopped \subseteq Consumer
  /\ spc \in InHand \cup {"start", "insert", "idle", "next", "leave",
                          "unregistered", "ended"}
  /\ vpc \in [Consumer -> {"idle", "lookup", "check", "snap", "initial",
                           "refuse", "watch", "remove", "done"}]
  /\ conn \in [Consumer -> {"open", "lost", "closed"}]
  /\ wpc \in [Consumer -> {"off", "recv", "write", "drain", "ended"}]
  /\ fatal \in {"none", "released more times than acquired",
                "send on closed channel", "concurrent map read and map write"}

Fragment == [kind : MsgKind, cont : BOOLEAN, no : Nat, buf : Buffer \cup {NoBuf}]

CursorOK ==
  /\ left \in Nat /\ sent \in Nat
  /\ spc \in InHand => cur \in Message
  /\ spc = "next" => cur \in Fragment /\ left > 0

BuffersOK ==
  /\ refs \in [Buffer -> Int] /\ pooled \subseteq Buffer
  /\ content \in [Buffer -> Nat] /\ lost \in [Buffer -> Nat]
  /\ hdr \in [StoredKind -> CopyBuf \cup {NoBuf}]

QueuesOK ==
  /\ init \in [Consumer -> Seq(Message)]
  /\ recv \in [Consumer -> Nat]
  /\ log \in [Consumer -> Seq(Message)]
  /\ \A c \in Consumer : /\ recv[c] <= Len(log[c])
                         /\ wpc[c] = "write" => recv[c] > 0

TypeInv == ControlOK /\ CursorOK /\ BuffersOK /\ QueuesOK

LEMMA TypeParts == TypeInv => TypeOK
  BY DEF TypeInv, ControlOK, CursorOK, BuffersOK, QueuesOK, TypeOK, InHand

LEMMA ControlStep == TypeInv /\ [Next]_vars => ControlOK'
<1> SUFFICES ASSUME TypeInv, [Next]_vars PROVE ControlOK'
  OBVIOUS
<1> USE DEF TypeInv, ControlOK, InHand, pubVars, senderVars, bufVars, viewerVars, queueVars
<1>0. CASE UNCHANGED vars
  BY <1>0 DEF vars
<1>1. ASSUME NEW b \in PoolBuf, NextFragment(b) PROVE ControlOK'
  BY <1>1 DEF NextFragment, TakeBuffer
<1>2. ASSUME NEW b \in CopyBuf, StoreHeader(b) PROVE ControlOK'
  BY <1>2 DEF StoreHeader
<1>3. CASE BeginLoop
  BY <1>3 DEF BeginLoop
<1>4. ASSUME NEW c \in Consumer, SkipConsumer(c) PROVE ControlOK'
  BY <1>4 DEF SkipConsumer, Visit, Release
<1>5. ASSUME NEW c \in Consumer, Enqueue(c) PROVE ControlOK'
  BY <1>5 DEF Enqueue, Visit, Push
<1>6. ASSUME NEW c \in Consumer, Overflow(c) PROVE ControlOK'
  BY <1>6 DEF Overflow, Visit
<1>7. CASE EndMapWrite
  BY <1>7 DEF EndMapWrite
<1>8. CASE EndLoop
  BY <1>8 DEF EndLoop
<1>9. CASE StopRemoved
  BY <1>9 DEF StopRemoved, StopConsumers
<1>10. CASE FinishSend
  BY <1>10 DEF FinishSend, Release
<1>11. CASE PubStop
  BY <1>11 DEF PubStop
<1>12. CASE CheckExists
  BY <1>12 DEF CheckExists
<1>13. CASE InsertPublisher
  BY <1>13 DEF InsertPublisher
<1>14. ASSUME NEW k \in Frames \ {"meta"}, NEW n \in 1..MaxFrags,
             NEW b \in PoolBuf, OpenFrame(k, n, b)
      PROVE  ControlOK'
  BY <1>14 DEF OpenFrame, TakeBuffer
<1>15. ASSUME NEW b \in CopyBuf, SendMetaData(b) PROVE ControlOK'
  BY <1>15 DEF SendMetaData
<1>16. CASE Fill
  BY <1>16 DEF Fill
<1>17. CASE ReadFails
  BY <1>17 DEF ReadFails, Release
<1>18. CASE Unregister
  BY <1>18 DEF Unregister
<1>19. ASSUME NEW c \in Consumer, Connect(c) PROVE ControlOK'
  BY <1>19 DEF Connect
<1>20. ASSUME NEW c \in Consumer, PeerLost(c) PROVE ControlOK'
  BY <1>20 DEF PeerLost
<1>21. ASSUME NEW c \in Consumer, Lookup(c) PROVE ControlOK'
  BY <1>21 DEF Lookup, Return
<1>22. ASSUME NEW c \in Consumer, HasConsumer(c) PROVE ControlOK'
  BY <1>22 DEF HasConsumer, Return
<1>23. ASSUME NEW c \in Consumer, Snapshot(c) PROVE ControlOK'
  BY <1>23 DEF Snapshot
<1>24. ASSUME NEW c \in Consumer, SendInitial(c) PROVE ControlOK'
  BY <1>24 DEF SendInitial, Push, Acquire
<1>25. ASSUME NEW c \in Consumer, InitialOverflow(c) PROVE ControlOK'
  BY <1>25 DEF InitialOverflow
<1>26. ASSUME NEW c \in Consumer, Refuse(c) PROVE ControlOK'
  BY <1>26 DEF Refuse, StopConsumers, Return
<1>27. ASSUME NEW c \in Consumer, Insert(c) PROVE ControlOK'
  BY <1>27 DEF Insert
<1>28. ASSUME NEW c \in Consumer, LeaveLookup(c) PROVE ControlOK'
  BY <1>28 DEF LeaveLookup, Return
<1>29. ASSUME NEW c \in Consumer, RemoveConsumer(c) PROVE ControlOK'
  BY <1>29 DEF RemoveConsumer, StopConsumers, Return
<1>30. ASSUME NEW c \in Consumer, Written(c) PROVE ControlOK'
  BY <1>30 DEF Written, Release
<1>31. ASSUME NEW c \in Consumer, WriteFails(c) PROVE ControlOK'
  BY <1>31 DEF WriteFails, Release
<1>32. ASSUME NEW c \in Consumer, Receive(c) PROVE ControlOK'
  BY <1>32 DEF Receive
<1>33. ASSUME NEW c \in Consumer, Drain(c) PROVE ControlOK'
  BY <1>33 DEF Drain, Release
<1>34. ASSUME NEW c \in Consumer, WriterEnds(c) PROVE ControlOK'
  BY <1>34 DEF WriterEnds
<1> QED
  BY <1>0, <1>1, <1>2, <1>3, <1>4, <1>5, <1>6, <1>7, <1>8, <1>9, <1>10, <1>11,
     <1>12, <1>13, <1>14, <1>15, <1>16, <1>17, <1>18, <1>19, <1>20, <1>21,
     <1>22, <1>23, <1>24, <1>25, <1>26, <1>27, <1>28, <1>29, <1>30, <1>31,
     <1>32, <1>33, <1>34
     DEF Next, SenderStep, EncoderStep, HandlerStep, WriteStep, WriterStep
-----------------------------------------------------------------------------
(***************************************************************************)
(* The goroutines of a viewer do not touch the sender's own variables.     *)
(***************************************************************************)
ViewerStep(c) ==
  Connect(c) \/ PeerLost(c) \/ HandlerStep(c) \/ WriteStep(c) \/ WriterStep(c)

LEMMA NextCases ==
  ASSUME [Next]_vars
  PROVE  UNCHANGED vars \/ SenderStep \/ EncoderStep \/ \E c \in Consumer : ViewerStep(c)
  BY DEF Next, ViewerStep

LEMMA ViewersApart ==
  ASSUME NEW c \in Consumer, ViewerStep(c)
  PROVE  UNCHANGED senderVars
<1>1. CASE Connect(c) \/ PeerLost(c)
  BY <1>1 DEF Connect, PeerLost
<1>2. CASE HandlerStep(c)
  BY <1>2 DEF HandlerStep, Lookup, HasConsumer, Snapshot, SendInitial,
     InitialOverflow, Refuse, Insert, LeaveLookup, RemoveConsumer
<1>3. CASE WriteStep(c) \/ WriterStep(c)
  BY <1>3 DEF WriteStep, WriterStep, Written, WriteFails, Receive, Drain, WriterEnds
<1> QED
  BY <1>1, <1>2, <1>3 DEF ViewerStep

LEMMA CursorStep == TypeInv /\ [Next]_vars => CursorOK'
<1> SUFFICES ASSUME TypeInv, [Next]_vars PROVE CursorOK'
  OBVIOUS
<1> USE ConstantsAssumption DEF TypeInv, CursorOK, InHand, senderVars
<1>0. CASE UNCHANGED vars \/ \E c \in Consumer : ViewerStep(c)
  BY <1>0, ViewersApart DEF vars
<1>1. ASSUME NEW b \in PoolBuf, NextFragment(b) PROVE CursorOK'
  <2>1. /\ cur \in Fragment /\ left > 0 /\ spc' = "fill"
        /\ sent' = sent + 1 /\ left' = left - 1
        /\ cur' = [cur EXCEPT !.cont = TRUE, !.no = sent + 1, !.buf = b]
    BY <1>1 DEF NextFragment, TakeBuffer
  <2>2. cur' = [kind |-> cur.kind, cont |-> TRUE, no |-> sent + 1, buf |-> b]
    BY <2>1 DEF Fragment
  <2>3. cur.kind \in MsgKind /\ sent + 1 \in Nat /\ b \in Buffer
    BY <2>1 DEF Fragment, Buffer
  <2>4. cur' \in Message
    BY <2>2, <2>3 DEF Message
  <2> QED
    BY <2>1, <2>4
<1>2. ASSUME NEW b \in CopyBuf, StoreHeader(b) PROVE CursorOK'
  BY <1>2 DEF StoreHeader
<1>3. CASE BeginLoop
  BY <1>3 DEF BeginLoop
<1>4. ASSUME NEW c \in Consumer, SkipConsumer(c) PROVE CursorOK'
  BY <1>4 DEF SkipConsumer, Visit
<1>5. ASSUME NEW c \in Consumer, Enqueue(c) PROVE CursorOK'
  BY <1>5 DEF Enqueue, Visit
<1>6. ASSUME NEW c \in Consumer, Overflow(c) PROVE CursorOK'
  BY <1>6 DEF Overflow, Visit
<1>7. CASE EndMapWrite
  BY <1>7 DEF EndMapWrite
<1>8. CASE EndLoop
  BY <1>8 DEF EndLoop
<1>9. CASE StopRemoved
  BY <1>9 DEF StopRemoved
<1>10. CASE FinishSend
  BY <1>10 DEF FinishSend, Message, Fragment
<1>11. CASE PubStop
  BY <1>11 DEF PubStop
<1>12. CASE CheckExists
  BY <1>12 DEF CheckExists
<1>13. CASE InsertPublisher
  BY <1>13 DEF InsertPublisher
<1>14. ASSUME NEW k \in Frames \ {"meta"}, NEW n \in 1..MaxFrags,
             NEW b \in PoolBuf, OpenFrame(k, n, b)
      PROVE  CursorOK'
  BY <1>14 DEF OpenFrame, TakeBuffer, Message, MsgKind, DataKind, StoredKind, Buffer
<1>15. ASSUME NEW b \in CopyBuf, SendMetaData(b) PROVE CursorOK'
  BY <1>15 DEF SendMetaData, Message, MsgKind, StoredKind, Buffer, FreshCopy
<1>16. CASE Fill
  BY <1>16 DEF Fill
<1>17. CASE ReadFails
  BY <1>17 DEF ReadFails
<1>18. CASE Unregister
  BY <1>18 DEF Unregister
<1> QED
  BY NextCases, <1>0, <1>1, <1>2, <1>3, <1>4, <1>5, <1>6, <1>7, <1>8, <1>9,
     <1>10, <1>11, <1>12, <1>13, <1>14, <1>15, <1>16, <1>17, <1>18 DEF
     SenderStep, EncoderStep
-----------------------------------------------------------------------------
(***************************************************************************)
(* Buffers: acquiring and releasing a buffer of a message keeps the types. *)
(***************************************************************************)
CountsOK == refs \in [Buffer -> Int] /\ pooled \subseteq Buffer

LEMMA MessageBuffer == ASSUME NEW m \in Message PROVE m.buf \in Buffer
  BY DEF Message

LEMMA MemberCount == ASSUME ControlOK PROVE Cardinality(members) \in Nat
  BY FS_Subset, FS_CardinalityType, ConstantsAssumption DEF ControlOK

LEMMA AcquireTypes ==
  ASSUME CountsOK, NEW b \in Buffer, NEW n \in Int, Acquire(b, n)
  PROVE  refs' \in [Buffer -> Int]
  BY DEF CountsOK, Acquire

LEMMA ReleaseTypes ==
  ASSUME CountsOK, NEW b \in Buffer, Release(b)
  PROVE  CountsOK'
<1>1. refs[b] \in Int /\ refs' = [refs EXCEPT ![b] = @ - 1]
  BY DEF CountsOK, Release
<1>2. refs' \in [Buffer -> Int]
  BY <1>1 DEF CountsOK
<1>3. pooled' \subseteq pooled \cup {b}
  BY DEF Release
<1> QED
  BY <1>2, <1>3 DEF CountsOK

\* The message readMessages has in its hands, and the one it drains.
LEMMA ReceivedMessage ==
  ASSUME QueuesOK, NEW c \in Consumer
  PROVE  /\ wpc[c] = "write" => log[c][recv[c]] \in Message
         /\ InQueue(c) > 0 => log[c][recv[c] + 1] \in Message
<1>1. log[c] \in Seq(Message) /\ recv[c] \in Nat /\ recv[c] <= Len(log[c])
  BY DEF QueuesOK
<1>2. \A i \in 1..Len(log[c]) : log[c][i] \in Message
  BY <1>1
<1>3. Len(log[c]) \in Nat
  BY <1>1
<1> QED
  BY <1>1, <1>2, <1>3 DEF QueuesOK, InQueue

LEMMA BuffersStep == TypeInv /\ [Next]_vars => BuffersOK'
<1> SUFFICES ASSUME TypeInv, [Next]_vars PROVE BuffersOK'
  OBVIOUS
<1> USE DEF TypeInv, BuffersOK, bufVars, pubVars
<1>0. CASE UNCHANGED vars
  BY <1>0 DEF vars
<1>1. ASSUME NEW b \in PoolBuf, NextFragment(b) PROVE BuffersOK'
  <2>1. CountsOK /\ b \in Buffer
    BY DEF CountsOK, Buffer
  <2>2. Acquire(b, 1) /\ pooled' \subseteq pooled /\ UNCHANGED <<hdr, content, lost>>
    BY <1>1 DEF NextFragment, TakeBuffer
  <2> QED
    BY <2>1, <2>2, AcquireTypes
<1>2. ASSUME NEW b \in CopyBuf, StoreHeader(b) PROVE BuffersOK'
  <2>1. /\ CountsOK /\ b \in Buffer /\ cur.buf \in Buffer
    BY <1>2, MessageBuffer DEF StoreHeader, CountsOK, Buffer, CursorOK, InHand
  <2>2. /\ Acquire(b, 1) /\ hdr' = [hdr EXCEPT ![cur.kind] = b]
        /\ content' = [content EXCEPT ![b] = content[cur.buf]]
        /\ UNCHANGED <<pooled, lost>>
    BY <1>2 DEF StoreHeader
  <2>3. refs' \in [Buffer -> Int]
    BY <2>1, <2>2, AcquireTypes
  <2>4. content' \in [Buffer -> Nat] /\ hdr' \in [StoredKind -> CopyBuf \cup {NoBuf}]
    BY <2>1, <2>2
  <2> QED
    BY <2>2, <2>3, <2>4
<1>3. CASE BeginLoop
  <2>1. CountsOK /\ cur.buf \in Buffer
    BY <1>3, MessageBuffer DEF BeginLoop, CountsOK, CursorOK, InHand
  <2>2. /\ Acquire(cur.buf, Cardinality(members))
        /\ UNCHANGED <<hdr, pooled, content, lost>>
    BY <1>3 DEF BeginLoop
  <2> QED
    BY <2>1, <2>2, MemberCount, AcquireTypes
<1>4. ASSUME NEW c \in Consumer, SkipConsumer(c) PROVE BuffersOK'
  <2>1. CountsOK /\ cur.buf \in Buffer
    BY <1>4, MessageBuffer DEF SkipConsumer, CountsOK, Visit, CursorOK, InHand
  <2>2. Release(cur.buf) /\ UNCHANGED <<hdr, content, lost>>
    BY <1>4 DEF SkipConsumer
  <2> QED
    BY <2>1, <2>2, ReleaseTypes DEF CountsOK
<1>5. ASSUME NEW c \in Consumer, Overflow(c) PROVE BuffersOK'
  <2>1. cur.buf \in Buffer
    BY <1>5, MessageBuffer DEF Overflow, Visit, CursorOK, InHand
  <2>2. lost' = [lost EXCEPT ![cur.buf] = @ + 1] /\ UNCHANGED <<hdr, refs, pooled, content>>
    BY <1>5 DEF Overflow
  <2>3. lost' \in [Buffer -> Nat]
    BY <2>1, <2>2
  <2> QED
    BY <2>2, <2>3
<1>6. CASE FinishSend
  <2>1. CountsOK /\ cur.buf \in Buffer
    BY <1>6, MessageBuffer DEF FinishSend, CountsOK, CursorOK, InHand
  <2>2. /\ Release(cur.buf) \/ UNCHANGED <<refs, pooled>>
        /\ UNCHANGED <<hdr, content, lost>>
    BY <1>6 DEF FinishSend
  <2> QED
    BY <2>1, <2>2, ReleaseTypes DEF CountsOK
<1>7. ASSUME NEW k \in Frames \ {"meta"}, NEW n \in 1..MaxFrags,
             NEW b \in PoolBuf, OpenFrame(k, n, b)
      PROVE  BuffersOK'
  <2>1. CountsOK /\ b \in Buffer
    BY DEF CountsOK, Buffer
  <2>2. Acquire(b, 1) /\ pooled' \subseteq pooled /\ UNCHANGED <<hdr, content, lost>>
    BY <1>7 DEF OpenFrame, TakeBuffer
  <2> QED
    BY <2>1, <2>2, AcquireTypes
<1>8. ASSUME NEW b \in CopyBuf, SendMetaData(b) PROVE BuffersOK'
  <2>1. CountsOK /\ b \in Buffer /\ sent + 1 \in Nat
    BY DEF CountsOK, Buffer, CursorOK
  <2>2. /\ Acquire(b, 1) /\ hdr' = [hdr EXCEPT !["meta"] = b]
        /\ content' = [content EXCEPT ![b] = sent + 1]
        /\ UNCHANGED <<pooled, lost>>
    BY <1>8 DEF SendMetaData
  <2>3. refs' \in [Buffer -> Int]
    BY <2>1, <2>2, AcquireTypes
  <2>4. content' \in [Buffer -> Nat] /\ hdr' \in [StoredKind -> CopyBuf \cup {NoBuf}]
    BY <2>1, <2>2
  <2> QED
    BY <2>2, <2>3, <2>4
<1>9. CASE Fill
  <2>1. cur \in Message /\ content' = [content EXCEPT ![cur.buf] = cur.no]
    BY <1>9 DEF Fill, CursorOK, InHand
  <2>2. cur.no \in Nat
    BY <2>1 DEF Message
  <2> QED
    BY <1>9, <2>1, <2>2 DEF Fill
<1>10. CASE ReadFails
  <2>1. CountsOK /\ cur.buf \in Buffer
    BY <1>10, MessageBuffer DEF ReadFails, CountsOK, CursorOK, InHand
  <2>2. Release(cur.buf) /\ UNCHANGED <<hdr, content, lost>>
    BY <1>10 DEF ReadFails
  <2> QED
    BY <2>1, <2>2, ReleaseTypes DEF CountsOK
<1>11. ASSUME NEW c \in Consumer, SendInitial(c) PROVE BuffersOK'
  <2>1. init[c] \in Seq(Message) /\ init[c] # <<>>
    BY <1>11 DEF SendInitial, QueuesOK
  <2>2. CountsOK /\ Head(init[c]).buf \in Buffer
    BY <2>1, MessageBuffer DEF CountsOK
  <2>3. Acquire(Head(init[c]).buf, 1) /\ UNCHANGED <<hdr, pooled, content, lost>>
    BY <1>11 DEF SendInitial
  <2> QED
    BY <2>2, <2>3, AcquireTypes
<1>12. ASSUME NEW c \in Consumer, Written(c) PROVE BuffersOK'
  <2>1. CountsOK /\ log[c][recv[c]].buf \in Buffer
    BY <1>12, ReceivedMessage, MessageBuffer DEF Written, CountsOK
  <2>2. Release(log[c][recv[c]].buf) /\ UNCHANGED <<hdr, content, lost>>
    BY <1>12 DEF Written
  <2> QED
    BY <2>1, <2>2, ReleaseTypes DEF CountsOK
<1>13. ASSUME NEW c \in Consumer, WriteFails(c) PROVE BuffersOK'
  <2>1. CountsOK /\ log[c][recv[c]].buf \in Buffer
    BY <1>13, ReceivedMessage, MessageBuffer DEF WriteFails, CountsOK
  <2>2. Release(log[c][recv[c]].buf) /\ UNCHANGED <<hdr, content, lost>>
    BY <1>13 DEF WriteFails
  <2> QED
    BY <2>1, <2>2, ReleaseTypes DEF CountsOK
<1>14. ASSUME NEW c \in Consumer, Drain(c) PROVE BuffersOK'
  <2>1. CountsOK /\ log[c][recv[c] + 1].buf \in Buffer
    BY <1>14, ReceivedMessage, MessageBuffer DEF Drain, CountsOK
  <2>2. Release(log[c][recv[c] + 1].buf) /\ UNCHANGED <<hdr, content, lost>>
    BY <1>14 DEF Drain
  <2> QED
    BY <2>1, <2>2, ReleaseTypes DEF CountsOK
<1>15. CASE EndMapWrite \/ EndLoop \/ StopRemoved \/ PubStop \/ CheckExists
            \/ InsertPublisher \/ Unregister
  BY <1>15 DEF EndMapWrite, EndLoop, StopRemoved, PubStop, CheckExists,
     InsertPublisher, Unregister
<1>16. ASSUME NEW c \in Consumer,
             Enqueue(c) \/ Connect(c) \/ PeerLost(c) \/ Lookup(c)
             \/ HasConsumer(c) \/ Snapshot(c) \/ InitialOverflow(c) \/ Refuse(c)
             \/ Insert(c) \/ LeaveLookup(c) \/ RemoveConsumer(c) \/ Receive(c)
             \/ WriterEnds(c)
      PROVE  BuffersOK'
  BY <1>16 DEF Enqueue, Connect, PeerLost, Lookup, HasConsumer, Snapshot,
     InitialOverflow, Refuse, Insert, LeaveLookup, RemoveConsumer, Receive,
     WriterEnds
<1> QED
  BY NextCases, <1>0, <1>1, <1>2, <1>3, <1>4, <1>5, <1>6, <1>7, <1>8, <1>9,
     <1>10, <1>11, <1>12, <1>13, <1>14, <1>15, <1>16
     DEF SenderStep, EncoderStep, ViewerStep, HandlerStep, WriteStep, WriterStep
-----------------------------------------------------------------------------
(***************************************************************************)
(* Queues: what is pushed is a message, and the read index stays behind.   *)
(***************************************************************************)
LEMMA PushTypes ==
  ASSUME QueuesOK, NEW c \in Consumer, NEW m \in Message, Push(c, m)
  PROVE  /\ log' \in [Consumer -> Seq(Message)]
         /\ \A d \in Consumer : Len(log[d]) <= Len(log'[d])
<1>1. log[c] \in Seq(Message) /\ Append(log[c], m) \in Seq(Message)
  BY DEF QueuesOK
<1>2. Len(log[c]) \in Nat /\ Len(Append(log[c], m)) = Len(log[c]) + 1
  BY <1>1
<1>3. log' = [log EXCEPT ![c] = Append(log[c], m)]
  BY DEF Push
<1>4. log \in [Consumer -> Seq(Message)]
  BY DEF QueuesOK
<1>5. log' \in [Consumer -> Seq(Message)]
  BY <1>1, <1>3, <1>4
<1>6. ASSUME NEW d \in Consumer PROVE Len(log[d]) <= Len(log'[d])
  <2>1. Len(log[d]) \in Nat
    BY <1>4
  <2>2. CASE d = c
    BY <1>2, <1>3, <1>4, <2>2
  <2>3. CASE d # c
    BY <1>3, <1>4, <2>1, <2>3
  <2> QED
    BY <2>2, <2>3
<1> QED
  BY <1>5, <1>6

LEMMA PushKeeps ==
  ASSUME QueuesOK, NEW c \in Consumer, NEW m \in Message, Push(c, m),
         init' \in [Consumer -> Seq(Message)], UNCHANGED <<recv, wpc>>
  PROVE  QueuesOK'
<1>1. \A d \in Consumer : /\ recv[d] \in Nat /\ recv[d] <= Len(log[d])
                         /\ Len(log[d]) \in Nat /\ Len(log'[d]) \in Nat
  BY PushTypes DEF QueuesOK
<1>2. \A d \in Consumer : Len(log[d]) <= Len(log'[d])
  BY PushTypes
<1>3. \A d \in Consumer : recv[d] <= Len(log'[d])
  BY <1>1, <1>2
<1> QED
  BY <1>3, PushTypes DEF QueuesOK

LEMMA ReceiveKeeps ==
  ASSUME QueuesOK, NEW c \in Consumer, InQueue(c) > 0,
         recv' = [recv EXCEPT ![c] = @ + 1], UNCHANGED <<log, init>>,
         \A d \in Consumer \ {c} : wpc'[d] = wpc[d]
  PROVE  QueuesOK'
<1>1. /\ recv[c] \in Nat /\ Len(log[c]) \in Nat /\ recv[c] + 1 <= Len(log[c])
      /\ recv' \in [Consumer -> Nat]
  BY DEF QueuesOK, InQueue
<1>2. ASSUME NEW d \in Consumer
      PROVE  recv'[d] <= Len(log'[d]) /\ (wpc'[d] = "write" => recv'[d] > 0)
  <2>1. CASE d = c
    <3>1. recv'[d] = recv[c] + 1 /\ log'[d] = log[c]
      BY <2>1 DEF QueuesOK
    <3> QED
      BY <1>1, <3>1
  <2>2. CASE d # c
    <3>1. recv'[d] = recv[d] /\ log'[d] = log[d] /\ wpc'[d] = wpc[d]
      BY <2>2 DEF QueuesOK
    <3> QED
      BY <3>1 DEF QueuesOK
  <2> QED
    BY <2>1, <2>2
<1> QED
  BY <1>1, <1>2 DEF QueuesOK

\* What sendInitialData sends is well typed.
LEMMA InitialType ==
  ASSUME BuffersOK, NEW k \in StoredKind
  PROVE  Initial(k) \in Seq(Message)
<1>1. CASE hdr[k] = NoBuf
  BY <1>1 DEF Initial
<1>2. CASE hdr[k] # NoBuf
  <2>1. hdr[k] \in Buffer /\ content[hdr[k]] \in Nat
    BY <1>2 DEF BuffersOK, Buffer
  <2>2. [kind |-> k, cont |-> FALSE, no |-> content[hdr[k]], buf |-> hdr[k]] \in Message
    BY <2>1 DEF Message, MsgKind
  <2> QED
    BY <1>2, <2>2 DEF Initial
<1> QED
  BY <1>1, <1>2

LEMMA SenderQueues ==
  ASSUME TypeInv, SenderStep \/ EncoderStep
  PROVE  QueuesOK'
<1> USE DEF TypeInv
<1>1. ASSUME NEW c \in Consumer, Enqueue(c) PROVE QueuesOK'
  <2>1. /\ cur \in Message /\ Push(c, cur)
        /\ init' = init /\ UNCHANGED <<recv, wpc>>
    BY <1>1 DEF Enqueue, Visit, CursorOK, InHand, viewerVars
  <2> QED
    BY <2>1, PushKeeps DEF QueuesOK
<1> DEFINE Same == UNCHANGED <<init, recv, log, wpc>>
<1>2. ASSUME NEW c \in Consumer, SkipConsumer(c) \/ Overflow(c) PROVE Same
  BY <1>2 DEF SkipConsumer, Overflow, viewerVars, queueVars
<1>3. ASSUME NEW b \in Buffer, NextFragment(b) \/ StoreHeader(b) \/ SendMetaData(b)
      PROVE  Same
  BY <1>3 DEF NextFragment, StoreHeader, SendMetaData, viewerVars, queueVars
<1>4. CASE BeginLoop \/ EndMapWrite \/ EndLoop \/ StopRemoved \/ FinishSend
           \/ PubStop
  <2> Same
    BY <1>4 DEF BeginLoop, EndMapWrite, EndLoop, StopRemoved, FinishSend,
                PubStop, viewerVars, queueVars
  <2> QED
    BY DEF QueuesOK
<1>5. ASSUME NEW k \in Frames, NEW n \in 1..MaxFrags, NEW b \in PoolBuf,
             OpenFrame(k, n, b)
      PROVE  Same
  BY <1>5 DEF OpenFrame, viewerVars, queueVars
<1>6. CASE CheckExists \/ InsertPublisher \/ Fill \/ ReadFails \/ Unregister
  <2> Same
    BY <1>6 DEF CheckExists, InsertPublisher, Fill, ReadFails, Unregister,
                viewerVars, queueVars
  <2> QED
    BY DEF QueuesOK
<1>7. Same => QueuesOK'
  BY DEF QueuesOK
<1> HIDE DEF Same
<1> QED
  BY <1>1, <1>2, <1>3, <1>4, <1>5, <1>6, <1>7 DEF SenderStep, EncoderStep, Buffer

LEMMA ViewerQueues ==
  ASSUME TypeInv, NEW c \in Consumer, ViewerStep(c)
  PROVE  QueuesOK'
<1> USE DEF TypeInv
<1>1. CASE SendInitial(c)
  <2>1. init \in [Consumer -> Seq(Message)] /\ init[c] # <<>>
    BY <1>1 DEF SendInitial, QueuesOK
  <2>2. /\ Push(c, Head(init[c])) /\ init' = [init EXCEPT ![c] = Tail(@)]
        /\ UNCHANGED <<recv, wpc>>
    BY <1>1 DEF SendInitial
  <2>3. Head(init[c]) \in Message /\ Tail(init[c]) \in Seq(Message)
    BY <2>1
  <2>4. init' \in [Consumer -> Seq(Message)]
    BY <2>1, <2>2, <2>3
  <2> QED
    BY <2>2, <2>3, <2>4, PushKeeps
<1>2. CASE Snapshot(c)
  <2> DEFINE all == Initial("meta") \o Initial("vhdr") \o Initial("ahdr")
  <2>1. all \in Seq(Message)
    BY InitialType DEF StoredKind, HeaderKind
  <2>2. init' = [init EXCEPT ![c] = all] /\ UNCHANGED <<recv, log, wpc>>
    BY <1>2 DEF Snapshot, queueVars
  <2> HIDE DEF all
  <2> QED
    BY <2>1, <2>2 DEF QueuesOK
<1>3. CASE Refuse(c)
  <2>1. init' = [init EXCEPT ![c] = <<>>] /\ UNCHANGED <<recv, log, wpc>>
    BY <1>3 DEF Refuse
  <2>2. <<>> \in Seq(Message)
    OBVIOUS
  <2> QED
    BY <2>1, <2>2 DEF QueuesOK
<1>4. CASE Receive(c)
  BY <1>4, ReceiveKeeps DEF Receive, viewerVars, ControlOK
<1>5. CASE Drain(c)
  BY <1>5, ReceiveKeeps DEF Drain, viewerVars
<1>6. CASE Connect(c) \/ Written(c) \/ WriteFails(c) \/ WriterEnds(c)
  <2>1. /\ UNCHANGED <<init, recv, log>>
        /\ \A d \in Consumer : wpc'[d] = "write" => wpc[d] = "write"
    BY <1>6 DEF Connect, Written, WriteFails, WriterEnds, viewerVars, ControlOK
  <2> QED
    BY <2>1 DEF QueuesOK
<1>7. CASE PeerLost(c) \/ Lookup(c) \/ HasConsumer(c) \/ InitialOverflow(c)
           \/ Insert(c) \/ LeaveLookup(c) \/ RemoveConsumer(c)
  <2>1. UNCHANGED <<init, recv, log, wpc>>
    BY <1>7 DEF PeerLost, Lookup, HasConsumer, InitialOverflow, Insert,
                LeaveLookup, RemoveConsumer, queueVars
  <2> QED
    BY <2>1 DEF QueuesOK
<1> QED
  BY <1>1, <1>2, <1>3, <1>4, <1>5, <1>6, <1>7
     DEF ViewerStep, HandlerStep, WriteStep, WriterStep

LEMMA QueuesStep == TypeInv /\ [Next]_vars => QueuesOK'
<1> SUFFICES ASSUME TypeInv, [Next]_vars PROVE QueuesOK'
  OBVIOUS
<1>1. UNCHANGED vars => QueuesOK'
  BY DEF TypeInv, QueuesOK, vars, viewerVars, queueVars
<1> QED
  BY <1>1, NextCases, SenderQueues, ViewerQueues

LEMMA TypeInitially == Init => TypeInv
<1> SUFFICES ASSUME Init PROVE TypeInv
  OBVIOUS
<1>1. ControlOK
  BY DEF Init, ControlOK
<1>2. CursorOK
  BY DEF Init, CursorOK, InHand
<1>3. BuffersOK
  BY DEF Init, BuffersOK, Buffer
<1>4. QueuesOK
  BY DEF Init, QueuesOK
<1> QED
  BY <1>1, <1>2, <1>3, <1>4 DEF TypeInv

LEMMA TypeInvariant == Spec => []TypeInv
<1>1. TypeInv /\ [Next]_vars => TypeInv'
  BY ControlStep, CursorStep, BuffersStep, QueuesStep DEF TypeInv
<1> QED
  BY TypeInitially, <1>1, PTL DEF Spec

\* The state of a session and its viewers is well typed: every message in
\* flight has a payload and a buffer, and no goroutine releases the buffer of a
\* message it has not received.
THEOREM SessionTypes == Spec => []TypeOK
  BY TypeInvariant, TypeParts, PTL
-----------------------------------------------------------------------------
(***************************************************************************)
(* Who may still be sent to.  The sender finds only open consumers in the  *)
(* map, since whoever stops one also takes it out, except for Stop, after  *)
(* which the session sends no more; the map does not change during the     *)
(* loop; and until its handler has inserted it nobody else knows of a      *)
(* consumer.                                                               *)
(***************************************************************************)
Joining == {"idle", "lookup", "check", "snap", "initial", "refuse"}

MembersOpen == spc # "ended" => members \cap stopped = {}
LoopOverMembers == spc = "loop" => todo \subseteq members /\ removed \subseteq members
JoiningUnknown ==
  \A c \in Consumer : vpc[c] \in Joining => c \notin members \cup stopped \cup removed
SendsOpen == fatal # "send on closed channel"

LockInv == MembersOpen /\ LoopOverMembers /\ JoiningUnknown /\ SendsOpen

LEMMA SenderLocks ==
  ASSUME ControlOK, LockInv, SenderStep
  PROVE  LockInv'
<1> USE DEF ControlOK, LockInv, MembersOpen, LoopOverMembers, JoiningUnknown,
            SendsOpen, Joining, InHand, pubVars, viewerVars, queueVars
<1>1. ASSUME NEW b \in PoolBuf, NextFragment(b) PROVE LockInv'
  BY <1>1 DEF NextFragment, TakeBuffer
<1>2. ASSUME NEW b \in CopyBuf, StoreHeader(b) PROVE LockInv'
  BY <1>2 DEF StoreHeader
<1>3. CASE BeginLoop
  BY <1>3 DEF BeginLoop
<1>4. ASSUME NEW c \in Consumer, SkipConsumer(c) PROVE LockInv'
  BY <1>4 DEF SkipConsumer, Visit, Release
<1>5. ASSUME NEW c \in Consumer, Enqueue(c) PROVE LockInv'
  <2>1. c \in members /\ c \notin stopped /\ spc = "loop"
    BY <1>5 DEF Enqueue, Visit
  <2> QED
    BY <1>5, <2>1 DEF Enqueue, Visit
<1>6. ASSUME NEW c \in Consumer, Overflow(c) PROVE LockInv'
  <2>1. c \in members /\ vpc[c] \notin Joining
    BY <1>6 DEF Overflow, Visit
  <2> QED
    BY <1>6, <2>1 DEF Overflow, Visit
<1>7. CASE EndMapWrite
  BY <1>7 DEF EndMapWrite
<1>8. CASE EndLoop
  BY <1>8 DEF EndLoop
<1>9. CASE StopRemoved
  BY <1>9 DEF StopRemoved, StopConsumers
<1>10. CASE FinishSend
  BY <1>10 DEF FinishSend, Release
<1>11. CASE PubStop
  BY <1>11 DEF PubStop
<1> QED
  BY <1>1, <1>2, <1>3, <1>4, <1>5, <1>6, <1>7, <1>8, <1>9, <1>10, <1>11
     DEF SenderStep

LEMMA EncoderLocks ==
  ASSUME ControlOK, LockInv, EncoderStep
  PROVE  LockInv'
<1> USE DEF ControlOK, LockInv, MembersOpen, LoopOverMembers, JoiningUnknown,
            SendsOpen, Joining, InHand, pubVars, viewerVars, queueVars
<1>1. ASSUME NEW k \in Frames, NEW n \in 1..MaxFrags, NEW b \in PoolBuf,
             OpenFrame(k, n, b)
      PROVE  LockInv'
  BY <1>1 DEF OpenFrame, TakeBuffer
<1>2. ASSUME NEW b \in CopyBuf, SendMetaData(b) PROVE LockInv'
  BY <1>2 DEF SendMetaData
<1>3. CASE CheckExists \/ InsertPublisher \/ Fill \/ ReadFails \/ Unregister
  BY <1>3 DEF CheckExists, InsertPublisher, Fill, ReadFails, Unregister, Release
<1> QED
  BY <1>1, <1>2, <1>3 DEF EncoderStep

LEMMA ViewerLocks ==
  ASSUME ControlOK, LockInv, NEW c \in Consumer, ViewerStep(c)
  PROVE  LockInv'
<1> USE DEF ControlOK, LockInv, MembersOpen, LoopOverMembers, JoiningUnknown,
            SendsOpen, Joining, InHand, Unlocked, pubVars, senderVars,
            viewerVars, queueVars
<1>1. CASE Connect(c) \/ PeerLost(c)
  BY <1>1 DEF Connect, PeerLost
<1>2. CASE Lookup(c) \/ HasConsumer(c)
  BY <1>2 DEF Lookup, HasConsumer, Return
<1>3. CASE SendInitial(c)
  BY <1>3 DEF SendInitial
<1>4. CASE Snapshot(c) \/ InitialOverflow(c)
  BY <1>4 DEF Snapshot, InitialOverflow
<1>5. CASE Refuse(c)
  BY <1>5 DEF Refuse, StopConsumers, Return
<1>6. CASE Insert(c)
  BY <1>6 DEF Insert
<1>7. CASE LeaveLookup(c)
  BY <1>7 DEF LeaveLookup, Return
<1>8. CASE RemoveConsumer(c)
  BY <1>8 DEF RemoveConsumer, StopConsumers, Return
<1>9. CASE WriteStep(c)
  BY <1>9 DEF WriteStep, Written, WriteFails, Release
<1>10. CASE WriterStep(c)
  BY <1>10 DEF WriterStep, Receive, Drain, WriterEnds, Release
<1> QED
  BY <1>1, <1>2, <1>3, <1>4, <1>5, <1>6, <1>7, <1>8, <1>9, <1>10
     DEF ViewerStep, HandlerStep

LEMMA LockInvariant == Spec => []LockInv
<1>1. Init => LockInv
  BY DEF Init, LockInv, MembersOpen, LoopOverMembers, JoiningUnknown, SendsOpen
<1>2. TypeInv /\ LockInv /\ [Next]_vars => LockInv'
  <2> SUFFICES ASSUME TypeInv, LockInv, [Next]_vars PROVE LockInv'
    OBVIOUS
  <2>1. UNCHANGED vars => LockInv'
    BY DEF LockInv, MembersOpen, LoopOverMembers, JoiningUnknown, SendsOpen, vars,
           pubVars, senderVars, viewerVars, queueVars
  <2> QED
    BY <2>1, NextCases, SenderLocks, EncoderLocks, ViewerLocks DEF TypeInv
<1> QED
  BY <1>1, <1>2, TypeInvariant, PTL DEF Spec

\* No message is sent on a closed channel, neither by SendMessage nor by
\* sendInitialData, whoever stops the consumer and whenever: the first half of
\* NoPanic.
THEOREM NoSendOnClosed == Spec => []SendsOpen
  BY LockInvariant, PTL DEF LockInv
=============================================================================
