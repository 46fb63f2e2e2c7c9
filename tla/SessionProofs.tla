--------------------------- MODULE SessionProofs ---------------------------
(***************************************************************************)
(* Proofs about what a viewer is sent in Publisher, and that Publisher     *)
(* implements MediaFeed, MediaChannel and BufferPool, for any number of    *)
(* viewers and buffers, any capacity of the queues and any length of the   *)
(* frames.                                                                 *)
(***************************************************************************)
EXTENDS BufferProofs

(***************************************************************************)
(* The messages of one channel.                                            *)
(***************************************************************************)
HasKey(s) == \E j \in DOMAIN s : s[j].kind = "key"

InOrder(s) ==
  \A i, j \in DOMAIN s :
    i < j /\ s[i].kind = s[j].kind /\ s[i].kind \in StoredKind => s[i].no <= s[j].no

Gapless(s) ==
  \A i \in 2..Len(s) :
    (\E j \in 1..(i - 1) : s[j].kind = "key") => s[i].no = s[i-1].no + 1

Decodable(s) ==
  \A i \in DOMAIN s :
    s[i].kind \in VideoKind =>
      /\ \/ s[i].kind = "key" /\ ~s[i].cont
         \/ \E j \in 1..(i - 1) : s[j].kind = "key"
      /\ s[i].cont => i > 1 /\ s[i-1].no = s[i].no - 1

LEMMA Appended ==
  ASSUME NEW s \in Seq(Message), NEW m \in Message
  PROVE  /\ Append(s, m) \in Seq(Message)
         /\ Len(s) \in Nat /\ Len(Append(s, m)) = Len(s) + 1
         /\ DOMAIN s = 1..Len(s) /\ DOMAIN Append(s, m) = 1..(Len(s) + 1)
         /\ Append(s, m)[Len(s) + 1] = m
         /\ \A i \in 1..Len(s) : Append(s, m)[i] = s[i]
         /\ \A i \in 1..Len(s) : s[i] \in Message
  OBVIOUS

LEMMA AppendKey ==
  ASSUME NEW s \in Seq(Message), NEW m \in Message
  PROVE  HasKey(Append(s, m)) <=> HasKey(s) \/ m.kind = "key"
<1> DEFINE t == Append(s, m)
<1>1. /\ Len(s) \in Nat /\ DOMAIN s = 1..Len(s) /\ DOMAIN t = 1..(Len(s) + 1)
      /\ t[Len(s) + 1] = m /\ \A i \in 1..Len(s) : t[i] = s[i]
  BY Appended
<1> HIDE DEF t
<1> QED
  BY <1>1 DEF HasKey, t

LEMMA AppendInOrder ==
  ASSUME NEW s \in Seq(Message), NEW m \in Message, InOrder(s),
         \A i \in DOMAIN s : s[i].kind = m.kind /\ m.kind \in StoredKind => s[i].no <= m.no
  PROVE  InOrder(Append(s, m))
<1> DEFINE t == Append(s, m)
           n == Len(s)
<1>1. /\ n \in Nat /\ DOMAIN s = 1..n /\ DOMAIN t = 1..(n + 1)
      /\ t[n + 1] = m /\ \A i \in 1..n : t[i] = s[i]
  BY Appended
<1> HIDE DEF t, n
<1>2. ASSUME NEW i \in DOMAIN t, NEW j \in DOMAIN t, i < j, t[i].kind = t[j].kind,
             t[i].kind \in StoredKind
      PROVE  t[i].no <= t[j].no
  <2>1. i \in 1..n /\ t[i] = s[i]
    BY <1>1, <1>2
  <2>2. CASE j \in 1..n
    BY <1>1, <1>2, <2>1, <2>2 DEF InOrder
  <2>3. CASE j = n + 1
    BY <1>1, <1>2, <2>1, <2>3
  <2> QED
    BY <1>1, <2>2, <2>3
<1> QED
  BY <1>2 DEF InOrder, t

LEMMA AppendGapless ==
  ASSUME NEW s \in Seq(Message), NEW m \in Message, Gapless(s),
         HasKey(s) => m.no = s[Len(s)].no + 1
  PROVE  Gapless(Append(s, m))
<1> DEFINE t == Append(s, m)
           n == Len(s)
<1>1. /\ n \in Nat /\ DOMAIN s = 1..n /\ DOMAIN t = 1..(n + 1) /\ Len(t) = n + 1
      /\ t[n + 1] = m /\ \A i \in 1..n : t[i] = s[i]
  BY Appended
<1>2. HasKey(s) => m.no = s[n].no + 1
  OBVIOUS
<1>3. \A i \in 2..n : (\E j \in 1..(i - 1) : s[j].kind = "key") => s[i].no = s[i-1].no + 1
  BY DEF Gapless
<1> HIDE DEF t, n
<1>4. ASSUME NEW i \in 2..(n + 1), NEW j \in 1..(i - 1), t[j].kind = "key"
      PROVE  t[i].no = t[i-1].no + 1
  <2>1. /\ j \in 1..n /\ i - 1 \in 1..n /\ t[j] = s[j] /\ t[i-1] = s[i-1]
    BY <1>1
  <2>2. CASE i \in 2..n
    BY <1>1, <1>3, <1>4, <2>1, <2>2
  <2>3. CASE i = n + 1
    <3>1. HasKey(s) /\ i - 1 = n
      BY <1>1, <1>4, <2>1, <2>3 DEF HasKey
    <3> QED
      BY <1>1, <1>2, <2>1, <2>3, <3>1
  <2> QED
    BY <1>1, <2>2, <2>3
<1> QED
  BY <1>1, <1>4 DEF Gapless, t

LEMMA AppendDecodable ==
  ASSUME NEW s \in Seq(Message), NEW m \in Message, Decodable(s),
         m.kind \in VideoKind =>
           /\ (m.kind = "key" /\ ~m.cont) \/ HasKey(s)
           /\ m.cont => HasKey(s) /\ s[Len(s)].no = m.no - 1
  PROVE  Decodable(Append(s, m))
<1> DEFINE t == Append(s, m)
           n == Len(s)
<1>1. /\ n \in Nat /\ DOMAIN s = 1..n /\ DOMAIN t = 1..(n + 1) /\ Len(t) = n + 1
      /\ t[n + 1] = m /\ \A i \in 1..n : t[i] = s[i]
  BY Appended
<1>2. m.kind \in VideoKind =>
           /\ (m.kind = "key" /\ ~m.cont) \/ HasKey(s)
           /\ m.cont => HasKey(s) /\ s[n].no = m.no - 1
  OBVIOUS
<1> HIDE DEF t, n
<1>3. HasKey(s) => n > 0 /\ \E j \in 1..n : t[j].kind = "key"
  BY <1>1 DEF HasKey
<1>4. ASSUME NEW i \in 1..(n + 1), t[i].kind \in VideoKind
      PROVE  /\ (t[i].kind = "key" /\ ~t[i].cont) \/ \E j \in 1..(i - 1) : t[j].kind = "key"
             /\ t[i].cont => i > 1 /\ t[i-1].no = t[i].no - 1
  <2>1. CASE i \in 1..n
    <3>1. t[i] = s[i] /\ \A j \in 1..(i - 1) : t[j] = s[j]
      BY <1>1, <2>1
    <3>2. i > 1 => t[i-1] = s[i-1]
      BY <1>1, <2>1
    <3> QED
      BY <1>1, <1>4, <2>1, <3>1, <3>2 DEF Decodable
  <2>2. CASE i = n + 1
    <3>1. t[i] = m /\ i - 1 = n
      BY <1>1, <2>2
    <3>2. n > 0 => t[n] = s[n]
      BY <1>1
    <3> QED
      BY <1>1, <1>2, <1>3, <1>4, <2>2, <3>1, <3>2
  <2> QED
    BY <1>1, <2>1, <2>2
<1> QED
  BY <1>1, <1>4 DEF Decodable, t
-----------------------------------------------------------------------------
(***************************************************************************)
(* How the queues and the initial data change.                             *)
(***************************************************************************)
LEMMA LogSteps ==
  ASSUME TypeInv, [Next]_vars, NEW d \in Consumer
  PROVE  \/ log'[d] = log[d]
         \/ Enqueue(d) /\ cur \in Message /\ log'[d] = Append(log[d], cur)
         \/ /\ SendInitial(d) /\ init[d] # <<>> /\ Head(init[d]) \in Message
            /\ log'[d] = Append(log[d], Head(init[d]))
<1>1. log \in [Consumer -> Seq(Message)] /\ init \in [Consumer -> Seq(Message)]
  BY DEF TypeInv, QueuesOK
<1>2. ASSUME NEW c \in Consumer, NEW m, Push(c, m)
      PROVE  log'[d] = log[d] \/ (d = c /\ log'[d] = Append(log[d], m))
  BY <1>1, <1>2 DEF Push
<1>3. ASSUME NEW c \in Consumer, Enqueue(c)
      PROVE  log'[d] = log[d] \/ (Enqueue(d) /\ cur \in Message /\ log'[d] = Append(log[d], cur))
  <2>1. cur \in Message /\ Push(c, cur)
    BY <1>3 DEF Enqueue, Visit, TypeInv, CursorOK, InHand
  <2> QED
    BY <1>2, <1>3, <2>1
<1>4. ASSUME NEW c \in Consumer, SendInitial(c)
      PROVE  \/ log'[d] = log[d]
             \/ /\ SendInitial(d) /\ init[d] # <<>> /\ Head(init[d]) \in Message
                /\ log'[d] = Append(log[d], Head(init[d]))
  <2>1. init[c] # <<>> /\ Push(c, Head(init[c]))
    BY <1>4 DEF SendInitial
  <2>2. Head(init[c]) \in Message
    BY <1>1, <2>1
  <2> QED
    BY <1>2, <1>4, <2>1, <2>2
<1>5. CASE SenderStep \/ EncoderStep
  <2>1. UNCHANGED log \/ \E c \in Consumer : Enqueue(c)
    BY <1>5 DEF SenderStep, EncoderStep, NextFragment, StoreHeader, BeginLoop,
     SkipConsumer, Overflow, EndMapWrite, EndLoop, StopRemoved, FinishSend,
     PubStop, CheckExists, InsertPublisher, OpenFrame, SendMetaData, Fill, ReadFails,
     Unregister, queueVars
  <2> QED
    BY <1>3, <2>1
<1>6. ASSUME NEW c \in Consumer, ViewerStep(c) PROVE UNCHANGED log \/ SendInitial(c)
  BY <1>6 DEF ViewerStep, Connect, PeerLost, HandlerStep, Lookup, HasConsumer, Snapshot,
     InitialOverflow, Refuse, Insert, LeaveLookup, RemoveConsumer,
     WriteStep, WriterStep, Receive, Written, WriteFails, Drain, WriterEnds, queueVars
<1> QED
  BY NextCases, <1>4, <1>5, <1>6 DEF vars, queueVars

LEMMA InitSteps ==
  ASSUME TypeInv, [Next]_vars, NEW d \in Consumer
  PROVE  \/ init'[d] = init[d]
         \/ Snapshot(d)
         \/ SendInitial(d) /\ init[d] # <<>> /\ init'[d] = Tail(init[d])
         \/ init'[d] = <<>>
<1>1. init \in [Consumer -> Seq(Message)]
  BY DEF TypeInv, QueuesOK
<1>2. CASE SenderStep \/ EncoderStep
  BY <1>2 DEF SenderStep, EncoderStep, NextFragment, StoreHeader, BeginLoop,
     SkipConsumer, Enqueue, Overflow, EndMapWrite, EndLoop, StopRemoved, FinishSend, PubStop,
     CheckExists, InsertPublisher, OpenFrame, SendMetaData, Fill, ReadFails, Unregister,
     viewerVars
<1>3. ASSUME NEW c \in Consumer, Snapshot(c) PROVE init'[d] = init[d] \/ Snapshot(d)
  <2>1. \E s : init' = [init EXCEPT ![c] = s]
    BY <1>3 DEF Snapshot
  <2> QED
    BY <1>1, <1>3, <2>1
<1>4. ASSUME NEW c \in Consumer, SendInitial(c)
      PROVE  \/ init'[d] = init[d]
             \/ SendInitial(d) /\ init[d] # <<>> /\ init'[d] = Tail(init[d])
  <2>1. init[c] # <<>> /\ init' = [init EXCEPT ![c] = Tail(@)]
    BY <1>4 DEF SendInitial
  <2> QED
    BY <1>1, <1>4, <2>1
<1>5. ASSUME NEW c \in Consumer, Refuse(c) PROVE init'[d] = init[d] \/ init'[d] = <<>>
  BY <1>1, <1>5 DEF Refuse
<1>6. ASSUME NEW c \in Consumer, ViewerStep(c)
      PROVE  UNCHANGED init \/ Snapshot(c) \/ SendInitial(c) \/ Refuse(c)
  BY <1>6 DEF ViewerStep, Connect, PeerLost, HandlerStep, Lookup, HasConsumer,
     InitialOverflow, Insert, LeaveLookup, RemoveConsumer,
     WriteStep, WriterStep, Receive, Written, WriteFails, Drain, WriterEnds, viewerVars
<1> QED
  BY NextCases, <1>2, <1>3, <1>4, <1>5, <1>6 DEF vars, viewerVars

(***************************************************************************)
(* The numbers of the payloads: the message in hand has the last one, and  *)
(* nothing stored, queued or about to be queued has a later one.           *)
(***************************************************************************)
Upto(s, n) == \A i \in DOMAIN s : s[i].no <= n

NumbersOK ==
  /\ spc \in InHand => cur.no = sent
  /\ \A b \in Buffer : content[b] <= sent
  /\ \A c \in Consumer : Upto(log[c], sent) /\ Upto(init[c], sent)

LEMMA SentGrows ==
  ASSUME TypeInv, [Next]_vars PROVE sent' = sent \/ sent' = sent + 1
<1>1. CASE SenderStep
  BY <1>1 DEF SenderStep, NextFragment, TakeBuffer, StoreHeader, BeginLoop,
     SkipConsumer, Enqueue, Overflow, EndMapWrite, EndLoop, StopRemoved, FinishSend, PubStop
<1>2. CASE EncoderStep
  BY <1>2 DEF EncoderStep, CheckExists, InsertPublisher, OpenFrame, TakeBuffer,
     SendMetaData, Fill, ReadFails, Unregister
<1>3. CASE UNCHANGED vars \/ \E c \in Consumer : ViewerStep(c)
  BY <1>3, ViewersApart DEF vars, senderVars
<1> QED
  BY NextCases, <1>1, <1>2, <1>3

LEMMA CursorNumber ==
  ASSUME TypeInv, NumbersOK, [Next]_vars, spc' \in InHand PROVE cur'.no = sent'
<1>1. ASSUME spc \in InHand, UNCHANGED <<cur, sent>> PROVE cur'.no = sent'
  BY <1>1 DEF NumbersOK
<1>2. ASSUME NEW b \in PoolBuf, NextFragment(b) PROVE cur'.no = sent'
  <2>1. /\ cur \in Fragment /\ sent' = sent + 1
        /\ cur' = [cur EXCEPT !.cont = TRUE, !.no = sent + 1, !.buf = b]
    BY <1>2 DEF NextFragment, TakeBuffer, TypeInv, CursorOK
  <2> QED
    BY <2>1 DEF Fragment
<1>3. CASE SenderStep
  <2>1. (spc \in InHand /\ UNCHANGED <<cur, sent>>) \/ \E b \in PoolBuf : NextFragment(b)
    BY <1>3 DEF SenderStep, StoreHeader, BeginLoop, SkipConsumer, Enqueue, Overflow, Visit,
       EndMapWrite, EndLoop, StopRemoved, FinishSend, PubStop, InHand
  <2> QED
    BY <1>1, <1>2, <2>1
<1>4. CASE EncoderStep
  BY <1>1, <1>4 DEF EncoderStep, CheckExists, InsertPublisher, OpenFrame, TakeBuffer,
     SendMetaData, Fill, ReadFails, Unregister, InHand
<1>5. CASE UNCHANGED vars \/ \E c \in Consumer : ViewerStep(c)
  BY <1>1, <1>5, ViewersApart DEF vars, senderVars
<1> QED
  BY NextCases, <1>3, <1>4, <1>5

LEMMA ContentNumber ==
  ASSUME TypeInv, NumbersOK, [Next]_vars, NEW b \in Buffer PROVE content'[b] <= sent'
<1>1. /\ sent \in Nat /\ sent' \in {sent, sent + 1} /\ content[b] \in Nat /\ content[b] <= sent
  BY SentGrows DEF TypeInv, CursorOK, BuffersOK, NumbersOK
<1>2. CASE content'[b] = content[b]
  BY <1>1, <1>2
<1>3. CASE Fill /\ b = cur.buf
  <2>1. content' = [content EXCEPT ![cur.buf] = cur.no] /\ sent' = sent /\ cur.no = sent
    BY <1>3 DEF Fill, NumbersOK, InHand
  <2>2. content'[b] = cur.no
    BY <1>3, <2>1 DEF TypeInv, BuffersOK
  <2> QED
    BY <1>1, <2>1, <2>2
<1>4. CASE StoreHeader(b)
  <2>1. content' = [content EXCEPT ![b] = content[cur.buf]] /\ sent' = sent
        /\ cur \in Message
    BY <1>4 DEF StoreHeader, TypeInv, CursorOK, InHand
  <2>2. content'[b] = content[cur.buf] /\ cur.buf \in Buffer
    BY <2>1, MessageBuffer DEF TypeInv, BuffersOK
  <2> QED
    BY <2>1, <2>2 DEF NumbersOK
<1>5. CASE SendMetaData(b)
  <2>1. content' = [content EXCEPT ![b] = sent + 1] /\ sent' = sent + 1
    BY <1>5 DEF SendMetaData
  <2>2. content'[b] = sent + 1
    BY <2>1 DEF TypeInv, BuffersOK
  <2> QED
    BY <1>1, <2>1, <2>2
<1> QED
  BY <1>2, <1>3, <1>4, <1>5, ContentSteps

\* The pieces sendInitialData copies: each of its own kind, with the number its
\* buffer holds.
LEMMA InitialPiece ==
  ASSUME TypeInv, NumbersOK, NEW k \in StoredKind
  PROVE  /\ Initial(k) \in Seq(Message)
         /\ Len(Initial(k)) <= 1
         /\ \A i \in DOMAIN Initial(k) : Initial(k)[i].kind = k /\ Initial(k)[i].no <= sent
<1>1. Initial(k) \in Seq(Message)
  BY InitialType DEF TypeInv
<1>2. CASE hdr[k] = NoBuf
  BY <1>2 DEF Initial
<1>3. CASE hdr[k] # NoBuf
  <2> DEFINE e == [kind |-> k, cont |-> FALSE, no |-> content[hdr[k]], buf |-> hdr[k]]
  <2>1. Initial(k) = <<e>>
    BY <1>3 DEF Initial
  <2>2. hdr[k] \in Buffer
    BY <1>3 DEF TypeInv, BuffersOK, Buffer
  <2>3. e.kind = k /\ e.no <= sent
    BY <2>2 DEF NumbersOK
  <2> HIDE DEF e
  <2>4. Len(<<e>>) = 1 /\ DOMAIN <<e>> = {1} /\ <<e>>[1] = e
    OBVIOUS
  <2> QED
    BY <1>1, <2>1, <2>3, <2>4
<1> QED
  BY <1>2, <1>3, <1>1

\* Three pieces of different kinds in a row.
LEMMA Pieces ==
  ASSUME NEW a \in Seq(Message), NEW b \in Seq(Message), NEW c \in Seq(Message), NEW n \in Nat,
         Len(a) <= 1, Len(b) <= 1, Len(c) <= 1,
         \A i \in DOMAIN a : a[i].kind = "meta" /\ a[i].no <= n,
         \A i \in DOMAIN b : b[i].kind = "vhdr" /\ b[i].no <= n,
         \A i \in DOMAIN c : c[i].kind = "ahdr" /\ c[i].no <= n
  PROVE  /\ Upto(a \o b \o c, n)
         /\ \A i \in DOMAIN (a \o b \o c) : (a \o b \o c)[i].kind \in StoredKind
         /\ \A i, j \in DOMAIN (a \o b \o c) :
              i # j => (a \o b \o c)[i].kind # (a \o b \o c)[j].kind
<1> DEFINE s == a \o b \o c
           la == Len(a)
           lb == Len(b)
           lc == Len(c)
<1>1. /\ la \in {0, 1} /\ lb \in {0, 1} /\ lc \in {0, 1}
      /\ DOMAIN a = 1..la /\ DOMAIN b = 1..lb /\ DOMAIN c = 1..lc
  <2>1. ASSUME NEW q \in Seq(Message), Len(q) <= 1
        PROVE  Len(q) \in {0, 1} /\ DOMAIN q = 1..Len(q)
    <3>1. Len(q) \in Nat /\ DOMAIN q = 1..Len(q)
      OBVIOUS
    <3>2. \A n0 \in Nat : n0 <= 1 => n0 \in {0, 1}
      OBVIOUS
    <3> QED
      BY <2>1, <3>1, <3>2
  <2> QED
    BY <2>1
<1>2. /\ DOMAIN s = 1..(la + lb + lc)
      /\ \A i \in 1..la : s[i] = a[i]
      /\ \A i \in (la + 1)..(la + lb) : s[i] = b[i - la]
      /\ \A i \in (la + lb + 1)..(la + lb + lc) : s[i] = c[i - la - lb]
  OBVIOUS
<1> HIDE DEF s, la, lb, lc
<1>3. ASSUME NEW i \in DOMAIN s
      PROVE  /\ s[i].no <= n
             /\ \/ i = la /\ la = 1 /\ s[i].kind = "meta"
                \/ i = la + 1 /\ lb = 1 /\ s[i].kind = "vhdr"
                \/ i = la + lb + 1 /\ lc = 1 /\ s[i].kind = "ahdr"
  <2>1. CASE i \in 1..la
    BY <1>1, <1>2, <2>1
  <2>2. CASE i \in (la + 1)..(la + lb)
    <3>1. lb = 1 /\ i = la + 1 /\ s[i] = b[1] /\ 1 \in DOMAIN b
      BY <1>1, <1>2, <2>2
    <3> QED
      BY <3>1
  <2>3. CASE i \in (la + lb + 1)..(la + lb + lc)
    <3>1. lc = 1 /\ i = la + lb + 1 /\ s[i] = c[1] /\ 1 \in DOMAIN c
      BY <1>1, <1>2, <2>3
    <3> QED
      BY <3>1
  <2> QED
    BY <1>1, <1>2, <2>1, <2>2, <2>3
<1>4. \A i \in DOMAIN s : s[i].kind \in StoredKind
  BY <1>3 DEF StoredKind, HeaderKind
<1>5. ASSUME NEW i \in DOMAIN s, NEW j \in DOMAIN s, i # j PROVE s[i].kind # s[j].kind
  BY <1>1, <1>3, <1>5
<1> QED
  BY <1>3, <1>4, <1>5 DEF s, Upto

LEMMA SnapshotPieces ==
  ASSUME TypeInv, NumbersOK, NEW c \in Consumer, Snapshot(c)
  PROVE  /\ Upto(init'[c], sent)
         /\ \A i \in DOMAIN init'[c] : init'[c][i].kind \in StoredKind
         /\ \A i, j \in DOMAIN init'[c] : i # j => init'[c][i].kind # init'[c][j].kind
<1> DEFINE m == Initial("meta")
           v == Initial("vhdr")
           a == Initial("ahdr")
<1>1. init'[c] = m \o v \o a
  BY DEF Snapshot, TypeInv, QueuesOK
<1>2. "meta" \in StoredKind /\ "vhdr" \in StoredKind /\ "ahdr" \in StoredKind /\ sent \in Nat
  BY DEF StoredKind, HeaderKind, TypeInv, CursorOK
<1>3. /\ m \in Seq(Message) /\ Len(m) <= 1
      /\ \A i \in DOMAIN m : m[i].kind = "meta" /\ m[i].no <= sent
  BY <1>2, InitialPiece
<1>4. /\ v \in Seq(Message) /\ Len(v) <= 1
      /\ \A i \in DOMAIN v : v[i].kind = "vhdr" /\ v[i].no <= sent
  BY <1>2, InitialPiece
<1>5. /\ a \in Seq(Message) /\ Len(a) <= 1
      /\ \A i \in DOMAIN a : a[i].kind = "ahdr" /\ a[i].no <= sent
  BY <1>2, InitialPiece
<1> HIDE DEF m, v, a
<1> QED
  BY <1>1, <1>2, <1>3, <1>4, <1>5, Pieces

LEMMA TailPart ==
  ASSUME NEW s \in Seq(Message), s # <<>>
  PROVE  /\ 1 \in DOMAIN s /\ Head(s) = s[1]
         /\ \A i \in DOMAIN Tail(s) : i + 1 \in DOMAIN s /\ Tail(s)[i] = s[i + 1] /\ i \in Nat
  OBVIOUS

LEMMA NumbersStep == ASSUME TypeInv, NumbersOK, [Next]_vars PROVE NumbersOK'
<1>0. sent \in Nat /\ sent' \in {sent, sent + 1}
  BY SentGrows DEF TypeInv, CursorOK
<1>1. ASSUME NEW s \in Seq(Message), Upto(s, sent) PROVE Upto(s, sent')
  <2>1. \A i \in DOMAIN s : s[i] \in Message
    OBVIOUS
  <2>2. \A i \in DOMAIN s : s[i].no \in Nat
    BY <2>1 DEF Message
  <2> QED
    BY <1>0, <1>1, <2>2 DEF Upto
<1>2. ASSUME NEW d \in Consumer PROVE Upto(log'[d], sent')
  <2>0. log[d] \in Seq(Message) /\ Upto(log[d], sent) /\ Upto(init[d], sent)
    BY DEF NumbersOK, TypeInv, QueuesOK
  <2>1. ASSUME NEW m \in Message, m.no <= sent, log'[d] = Append(log[d], m)
        PROVE  Upto(log'[d], sent)
    <3>1. \A i \in DOMAIN log'[d] : log'[d][i] = m \/ (i \in DOMAIN log[d] /\ log'[d][i] = log[d][i])
      BY <2>0, <2>1, Appended
    <3> QED
      BY <2>0, <2>1, <3>1 DEF Upto
  <2>2. CASE log'[d] = log[d]
    BY <1>1, <2>0, <2>2
  <2>3. CASE Enqueue(d) /\ cur \in Message /\ log'[d] = Append(log[d], cur)
    <3>1. cur.no = sent
      BY <2>3 DEF NumbersOK, Enqueue, Visit, InHand
    <3>2. Upto(log'[d], sent)
      BY <1>0, <2>1, <2>3, <3>1
    <3>3. sent' = sent
      BY <2>3 DEF Enqueue
    <3> QED
      BY <3>2, <3>3
  <2>4. CASE /\ SendInitial(d) /\ init[d] # <<>> /\ Head(init[d]) \in Message
             /\ log'[d] = Append(log[d], Head(init[d]))
    <3>1. Head(init[d]).no <= sent
      <4>1. init[d] \in Seq(Message)
        BY DEF TypeInv, QueuesOK
      <4> QED
        BY <2>0, <2>4, <4>1, TailPart DEF Upto
    <3>2. Upto(log'[d], sent) /\ sent' = sent
      BY <2>1, <2>4, <3>1 DEF SendInitial, senderVars
    <3> QED
      BY <3>2
  <2> QED
    BY <2>2, <2>3, <2>4, LogSteps
<1>3. ASSUME NEW d \in Consumer PROVE Upto(init'[d], sent')
  <2>0. init[d] \in Seq(Message) /\ Upto(init[d], sent)
    BY DEF NumbersOK, TypeInv, QueuesOK
  <2>1. CASE init'[d] = init[d]
    BY <1>1, <2>0, <2>1
  <2>2. CASE Snapshot(d)
    BY <2>2, SnapshotPieces DEF Snapshot, senderVars
  <2>3. CASE SendInitial(d) /\ init[d] # <<>> /\ init'[d] = Tail(init[d])
    <3>1. Upto(init'[d], sent)
      BY <2>0, <2>3, TailPart DEF Upto
    <3> QED
      BY <2>3, <3>1 DEF SendInitial, senderVars
  <2>4. CASE init'[d] = <<>>
    BY <2>4 DEF Upto
  <2> QED
    BY <2>1, <2>2, <2>3, <2>4, InitSteps
<1> QED
  BY <1>2, <1>3, CursorNumber, ContentNumber DEF NumbersOK

(***************************************************************************)
(* A viewer that joins is sent each kind of initial data once, and nothing *)
(* else before its handler has inserted it.                                *)
(***************************************************************************)
Early == {"idle", "lookup", "check", "snap"}

Distinct(s) ==
  /\ \A i \in DOMAIN s : s[i].kind \in StoredKind
  /\ \A i, j \in DOMAIN s : i # j => s[i].kind # s[j].kind

Unlike(s, t) == \A i \in DOMAIN s, j \in DOMAIN t : s[i].kind # t[j].kind

JoinOK ==
  \A c \in Consumer :
    /\ vpc[c] \in Early => log[c] = <<>>
    /\ vpc[c] \in Joining => \A i \in DOMAIN log[c] : log[c][i].kind \in StoredKind
    /\ Distinct(init[c])
    /\ vpc[c] = "initial" => Unlike(log[c], init[c])

LEMMA HandlerSteps ==
  ASSUME TypeInv, [Next]_vars, NEW d \in Consumer
  PROVE  /\ vpc'[d] \in Early => vpc[d] \in Early
         /\ vpc'[d] \in Joining => vpc[d] \in Joining
         /\ vpc'[d] = "initial" => vpc[d] = "initial" \/ Snapshot(d)
<1> DEFINE Goal == /\ vpc'[d] \in Early => vpc[d] \in Early
                   /\ vpc'[d] \in Joining => vpc[d] \in Joining
                   /\ vpc'[d] = "initial" => vpc[d] = "initial" \/ Snapshot(d)
<1>0. vpc \in [Consumer -> {"idle", "lookup", "check", "snap", "initial",
                            "refuse", "watch", "remove", "done"}]
  BY DEF TypeInv, ControlOK
<1>1. CASE UNCHANGED vpc
  BY <1>1
<1>2. ASSUME NEW c \in Consumer, NEW l, vpc' = [vpc EXCEPT ![c] = l],
             l \in Early => vpc[c] \in Early, l \in Joining => vpc[c] \in Joining,
             l # "initial"
      PROVE  Goal
  BY <1>0, <1>2
<1>3. ASSUME NEW c \in Consumer, Snapshot(c) PROVE Goal
  BY <1>0, <1>3 DEF Snapshot, Early, Joining
<1> HIDE DEF Goal
<1>4. CASE SenderStep \/ EncoderStep
  <2>1. UNCHANGED vpc
    BY <1>4 DEF SenderStep, EncoderStep, NextFragment, StoreHeader, BeginLoop,
     SkipConsumer, Enqueue, Overflow, EndMapWrite, EndLoop, StopRemoved, FinishSend, PubStop,
     CheckExists, InsertPublisher, OpenFrame, SendMetaData, Fill, ReadFails, Unregister,
     viewerVars
  <2> QED
    BY <1>1, <2>1 DEF Goal
<1>5. ASSUME NEW c \in Consumer, Connect(c) PROVE Goal
  BY <1>2, <1>5 DEF Connect, Early, Joining
<1>6. ASSUME NEW c \in Consumer, Lookup(c) \/ HasConsumer(c) PROVE Goal
  BY <1>2, <1>6 DEF Lookup, HasConsumer, Return, Early, Joining
<1>7. ASSUME NEW c \in Consumer, InitialOverflow(c) PROVE Goal
  BY <1>2, <1>7 DEF InitialOverflow, Early, Joining
<1>8. ASSUME NEW c \in Consumer, Refuse(c) \/ Insert(c) \/ RemoveConsumer(c) PROVE Goal
  BY <1>2, <1>8 DEF Refuse, Insert, RemoveConsumer, Return, Early, Joining
<1>9. ASSUME NEW c \in Consumer, LeaveLookup(c) PROVE Goal
  BY <1>2, <1>9 DEF LeaveLookup, Return, Early, Joining
<1>10. ASSUME NEW c \in Consumer, PeerLost(c) \/ SendInitial(c) \/ WriteStep(c) \/ WriterStep(c)
       PROVE  UNCHANGED vpc
  BY <1>10 DEF PeerLost, SendInitial, WriteStep, WriterStep, Receive, Written, WriteFails,
     Drain, WriterEnds, viewerVars
<1>11. ASSUME NEW c \in Consumer, ViewerStep(c) PROVE Goal
  <2>1. UNCHANGED vpc => Goal
    BY <1>1 DEF Goal
  <2> QED
    BY <1>3, <1>5, <1>6, <1>7, <1>8, <1>9, <1>10, <1>11, <2>1 DEF ViewerStep, HandlerStep
<1>12. CASE UNCHANGED vars
  BY <1>1, <1>12 DEF vars, viewerVars, Goal
<1> QED
  BY NextCases, <1>4, <1>11, <1>12 DEF Goal

\* Nobody but its handler sends to a consumer that has not been inserted.
LEMMA JoiningAlone ==
  ASSUME LockInv, NEW c \in Consumer, Enqueue(c) PROVE vpc[c] \notin Joining
  BY DEF LockInv, LoopOverMembers, JoiningUnknown, Enqueue, Visit

LEMMA JoinStep ==
  ASSUME TypeInv, LockInv, NumbersOK, JoinOK, [Next]_vars
  PROVE  JoinOK'
<1> SUFFICES ASSUME NEW d \in Consumer
             PROVE  /\ vpc'[d] \in Early => log'[d] = <<>>
                    /\ vpc'[d] \in Joining => \A i \in DOMAIN log'[d] : log'[d][i].kind \in StoredKind
                    /\ Distinct(init'[d])
                    /\ vpc'[d] = "initial" => Unlike(log'[d], init'[d])
  BY DEF JoinOK
<1>1. /\ vpc[d] \in Early => log[d] = <<>>
      /\ vpc[d] \in Joining => \A i \in DOMAIN log[d] : log[d][i].kind \in StoredKind
      /\ Distinct(init[d])
      /\ vpc[d] = "initial" => Unlike(log[d], init[d])
      /\ log[d] \in Seq(Message) /\ init[d] \in Seq(Message)
  BY DEF JoinOK, TypeInv, QueuesOK
<1>2. CASE SendInitial(d)
  <2>1. /\ vpc[d] = "initial" /\ vpc' = vpc /\ init[d] # <<>>
        /\ log'[d] = Append(log[d], Head(init[d])) /\ init'[d] = Tail(init[d])
    BY <1>2 DEF SendInitial, Push, TypeInv, QueuesOK
  <2> DEFINE m == Head(init[d])
             n == Len(log[d])
  <2>2. /\ m = init[d][1] /\ 1 \in DOMAIN init[d] /\ m \in Message
        /\ \A i \in DOMAIN init'[d] :
             /\ i \in Nat /\ i + 1 \in DOMAIN init[d] /\ init'[d][i] = init[d][i + 1]
             /\ i + 1 # 1
    BY <1>1, <2>1, TailPart
  <2>3. \A i \in DOMAIN log'[d] : log'[d][i] = m \/ (i \in DOMAIN log[d] /\ log'[d][i] = log[d][i])
    BY <1>1, <2>1, <2>2, Appended
  <2> HIDE DEF m
  <2>4. Distinct(init'[d])
    BY <1>1, <2>2 DEF Distinct
  <2>5. \A j \in DOMAIN init'[d] : init'[d][j].kind # m.kind
    BY <1>1, <2>2 DEF Distinct
  <2>6. Unlike(log'[d], init'[d])
    BY <1>1, <2>1, <2>2, <2>3, <2>5 DEF Unlike
  <2>7. \A i \in DOMAIN log'[d] : log'[d][i].kind \in StoredKind
    BY <1>1, <2>1, <2>2, <2>3 DEF Distinct, Joining
  <2> QED
    BY <2>1, <2>4, <2>6, <2>7 DEF Early
<1>3. CASE Snapshot(d)
  <2>1. /\ vpc[d] = "snap" /\ vpc'[d] = "initial" /\ log' = log
    BY <1>3 DEF Snapshot, queueVars, TypeInv, ControlOK
  <2>2. Distinct(init'[d])
    BY <1>3, SnapshotPieces DEF Distinct
  <2> QED
    BY <1>1, <2>1, <2>2 DEF Early, Joining, Unlike
<1>4. CASE Enqueue(d)
  <2>1. vpc[d] \notin Joining /\ vpc' = vpc /\ init' = init
    BY <1>4, JoiningAlone DEF Enqueue, viewerVars
  <2> QED
    BY <1>1, <2>1 DEF Early, Joining
<1>5. CASE ~SendInitial(d) /\ ~Snapshot(d) /\ ~Enqueue(d)
  <2>1. log'[d] = log[d] /\ (init'[d] = init[d] \/ init'[d] = <<>>)
    BY <1>5, LogSteps, InitSteps
  <2> QED
    BY <1>1, <1>5, <2>1, HandlerSteps DEF Distinct, Unlike
<1> QED
  BY <1>2, <1>3, <1>4, <1>5

LEMMA InOrderStep ==
  ASSUME TypeInv, LockInv, NumbersOK, JoinOK, HeadersInOrder, [Next]_vars
  PROVE  HeadersInOrder'
<1> SUFFICES ASSUME NEW d \in Consumer PROVE InOrder(log'[d])
  BY DEF HeadersInOrder, InOrder
<1>1. log[d] \in Seq(Message) /\ init[d] \in Seq(Message) /\ InOrder(log[d])
  BY DEF HeadersInOrder, InOrder, TypeInv, QueuesOK
<1>2. CASE log'[d] = log[d]
  BY <1>1, <1>2
<1>3. CASE Enqueue(d) /\ cur \in Message /\ log'[d] = Append(log[d], cur)
  <2>1. \A i \in DOMAIN log[d] : log[d][i].no <= cur.no
    BY <1>3 DEF NumbersOK, Upto, Enqueue, Visit, InHand
  <2> QED
    BY <1>1, <1>3, <2>1, AppendInOrder
<1>4. CASE /\ SendInitial(d) /\ init[d] # <<>> /\ Head(init[d]) \in Message
           /\ log'[d] = Append(log[d], Head(init[d]))
  <2>1. vpc[d] = "initial" /\ Head(init[d]) = init[d][1] /\ 1 \in DOMAIN init[d]
    BY <1>1, <1>4, TailPart DEF SendInitial
  <2>2. \A i \in DOMAIN log[d] : log[d][i].kind # Head(init[d]).kind
    BY <2>1 DEF JoinOK, Unlike
  <2> QED
    BY <1>1, <1>4, <2>2, AppendInOrder
<1> QED
  BY <1>2, <1>3, <1>4, LogSteps

(***************************************************************************)
(* From its first key frame on a member is sent everything: what it was    *)
(* sent last is the payload the sender read last, or the one before while  *)
(* the loop has not come to it.  One whose queue is full is taken out      *)
(* before the next payload.                                                *)
(***************************************************************************)
LastNo(s) == s[Len(s)].no

Behind(c) == spc \in {"fill", "store", "lock"} \/ (spc = "loop" /\ c \in todo)
Level(c)  == \/ spc \in {"start", "insert", "idle", "next", "stop", "sent"}
             \/ spc = "loop" /\ c \notin todo

RemovedOK == removed \cap todo = {} /\ (spc \notin {"loop", "stop"} => removed = {})

KeyedMembers == keyed \subseteq members /\ \A c \in members : c \in keyed <=> HasKey(log[c])

KeyedLevel ==
  \A c \in keyed \ removed : /\ Level(c) => LastNo(log[c]) = sent
                             /\ Behind(c) => LastNo(log[c]) = sent - 1

LEMMA RemovedStep == ASSUME TypeInv, CursorInv, RemovedOK, [Next]_vars PROVE RemovedOK'
<1> USE DEF RemovedOK
<1>1. CASE UNCHANGED vars \/ \E c \in Consumer : ViewerStep(c)
  BY <1>1, ViewersApart DEF vars, senderVars
<1>2. ASSUME NEW c \in Consumer, SkipConsumer(c) \/ Enqueue(c) PROVE RemovedOK'
  BY <1>2 DEF SkipConsumer, Enqueue, Visit
<1>3. ASSUME NEW c \in Consumer, Overflow(c) PROVE RemovedOK'
  BY <1>3 DEF Overflow, Visit
<1>4. CASE SenderStep
  BY <1>2, <1>3, <1>4 DEF SenderStep, NextFragment, TakeBuffer, StoreHeader, BeginLoop,
     EndMapWrite, EndLoop, StopRemoved, FinishSend, PubStop
<1>5. CASE EncoderStep
  BY <1>5 DEF EncoderStep, CheckExists, InsertPublisher, OpenFrame, TakeBuffer,
     SendMetaData, Fill, ReadFails, Unregister, pubVars
<1> QED
  BY NextCases, <1>1, <1>4, <1>5

\* Who becomes a member, and whose first key frame comes.
LEMMA MemberSteps ==
  ASSUME [Next]_vars
  PROVE  \/ UNCHANGED <<members, keyed>>
         \/ \E S : members' = members \ S /\ keyed' = keyed \ S
         \/ \E c \in Consumer : Insert(c)
         \/ \E c \in Consumer : Enqueue(c)
<1>1. CASE SenderStep
  BY <1>1 DEF SenderStep, NextFragment, StoreHeader, BeginLoop, SkipConsumer, Overflow,
     EndMapWrite, EndLoop, StopRemoved, StopConsumers, FinishSend, PubStop, pubVars
<1>2. CASE EncoderStep
  BY <1>2 DEF EncoderStep, CheckExists, InsertPublisher, OpenFrame,
     SendMetaData, Fill, ReadFails, Unregister, pubVars
<1>3. ASSUME NEW c \in Consumer, ViewerStep(c), ~Insert(c)
      PROVE  \/ UNCHANGED <<members, keyed>>
             \/ \E S : members' = members \ S /\ keyed' = keyed \ S
  BY <1>3 DEF ViewerStep, Connect, PeerLost, HandlerStep, Lookup, HasConsumer, Snapshot,
     SendInitial, InitialOverflow, Refuse, LeaveLookup, RemoveConsumer, StopConsumers,
     WriteStep, WriterStep, Receive, Written, WriteFails, Drain, WriterEnds, pubVars
<1> QED
  BY NextCases, <1>1, <1>2, <1>3 DEF vars, pubVars

LEMMA KeyedMembersStep ==
  ASSUME TypeInv, LockInv, JoinOK, KeyedMembers, [Next]_vars
  PROVE  KeyedMembers'
<1>0. /\ keyed \subseteq members /\ \A c \in members : c \in keyed <=> HasKey(log[c])
      /\ members \subseteq Consumer /\ log \in [Consumer -> Seq(Message)]
  BY DEF KeyedMembers, TypeInv, ControlOK, QueuesOK
<1>1. ASSUME NEW c \in Consumer, Enqueue(c) PROVE KeyedMembers'
  <2>1. c \in members /\ members' = members /\ cur \in Message
    BY <1>1 DEF Enqueue, Visit, LockInv, LoopOverMembers, TypeInv, CursorOK, InHand
  <2>2. /\ keyed' = IF cur.kind = "key" THEN keyed \cup {c} ELSE keyed
        /\ log' = [log EXCEPT ![c] = Append(@, cur)]
    BY <1>1 DEF Enqueue, Push
  <2>3. HasKey(log'[c]) <=> HasKey(log[c]) \/ cur.kind = "key"
    BY <1>0, <2>1, <2>2, AppendKey
  <2>4. \A d \in members \ {c} : log'[d] = log[d]
    BY <1>0, <2>2
  <2> QED
    BY <1>0, <2>1, <2>2, <2>3, <2>4 DEF KeyedMembers
<1>2. ASSUME ~\E c \in Consumer : Enqueue(c), NEW d \in Consumer
      PROVE  HasKey(log'[d]) <=> HasKey(log[d])
  <2>1. CASE log'[d] = log[d]
    BY <2>1
  <2>2. CASE /\ SendInitial(d) /\ init[d] # <<>> /\ Head(init[d]) \in Message
             /\ log'[d] = Append(log[d], Head(init[d]))
    <3>1. init[d] \in Seq(Message)
      BY DEF TypeInv, QueuesOK
    <3>2. Head(init[d]).kind \in StoredKind
      BY <2>2, <3>1, TailPart DEF JoinOK, Distinct
    <3>3. Head(init[d]).kind # "key"
      BY <3>2 DEF StoredKind, HeaderKind
    <3> QED
      BY <1>0, <2>2, <3>3, AppendKey
  <2> QED
    BY <1>2, <2>1, <2>2, LogSteps
<1>3. ASSUME ~\E c \in Consumer : Enqueue(c), UNCHANGED <<members, keyed>>
      PROVE  KeyedMembers'
  BY <1>0, <1>2, <1>3 DEF KeyedMembers
<1>4. ASSUME ~\E c \in Consumer : Enqueue(c), NEW S, members' = members \ S, keyed' = keyed \ S
      PROVE  KeyedMembers'
  BY <1>0, <1>2, <1>4 DEF KeyedMembers
<1>5. ASSUME ~\E c \in Consumer : Enqueue(c), NEW c \in Consumer, Insert(c)
      PROVE  KeyedMembers'
  <2>1. /\ vpc[c] = "initial" /\ members' = members \cup {c} /\ keyed' = keyed
    BY <1>5 DEF Insert
  <2>2. c \notin members /\ \A i \in DOMAIN log[c] : log[c][i].kind \in StoredKind
    BY <2>1 DEF LockInv, JoiningUnknown, JoinOK, Joining
  <2>3. ~HasKey(log[c])
    BY <2>2 DEF HasKey, StoredKind, HeaderKind
  <2> QED
    BY <1>0, <1>2, <1>5, <2>1, <2>2, <2>3 DEF KeyedMembers
<1> QED
  BY <1>1, <1>3, <1>4, <1>5, MemberSteps

\* The numbers a member has been sent follow the sender.
LEMMA KeyedLevelStep ==
  ASSUME TypeInv, CursorInv, LockInv, NumbersOK, JoinOK, RemovedOK, KeyedMembers, KeyedLevel,
         [Next]_vars
  PROVE  KeyedLevel'
<1>0. /\ keyed \subseteq members /\ members \subseteq Consumer
      /\ log \in [Consumer -> Seq(Message)] /\ sent \in Nat
  BY DEF KeyedMembers, TypeInv, ControlOK, CursorOK, QueuesOK
<1>1. ASSUME NEW d \in Consumer, SendInitial(d) PROVE d \notin keyed
  BY <1>0, <1>1 DEF SendInitial, LockInv, JoiningUnknown, Joining
<1>2. ASSUME NEW d \in keyed, ~Enqueue(d) PROVE log'[d] = log[d]
  BY <1>0, <1>1, <1>2, LogSteps
<1>3. ASSUME ~\E c \in Consumer : Enqueue(c) PROVE keyed' \subseteq keyed
  BY <1>3, MemberSteps DEF Insert
\* The sender does not move.
<1>4. ASSUME ~\E c \in Consumer : Enqueue(c), UNCHANGED <<spc, todo, removed, sent>>
      PROVE  KeyedLevel'
  BY <1>0, <1>2, <1>3, <1>4 DEF KeyedLevel, Level, Behind
<1>6. CASE UNCHANGED vars \/ \E c \in Consumer : ViewerStep(c)
  <2>1. UNCHANGED senderVars
    BY <1>6, ViewersApart DEF vars
  <2>2. \A c \in Consumer : ~Enqueue(c)
    BY <2>1 DEF Enqueue, Visit, senderVars
  <2> QED
    BY <1>4, <2>1, <2>2 DEF senderVars
<1>7. ASSUME NEW d \in Consumer, Enqueue(d) PROVE KeyedLevel'
  <2>1. /\ spc = "loop" /\ d \in todo /\ cur \in Message /\ cur.no = sent
        /\ todo' = todo \ {d} /\ keyed' \subseteq keyed \cup {d}
        /\ UNCHANGED <<spc, sent, removed>> /\ log' = [log EXCEPT ![d] = Append(@, cur)]
    BY <1>7 DEF Enqueue, Visit, Push, NumbersOK, TypeInv, CursorOK, InHand
  <2>2. LastNo(log'[d]) = sent
    <3>1. log'[d] = Append(log[d], cur) /\ log[d] \in Seq(Message)
      BY <1>0, <2>1
    <3> QED
      BY <2>1, <3>1, Appended DEF LastNo
  <2>3. ASSUME NEW c \in keyed' \ removed'
        PROVE  /\ Level(c)' => LastNo(log'[c]) = sent'
               /\ Behind(c)' => LastNo(log'[c]) = sent' - 1
    <3>1. CASE c = d
      BY <2>1, <2>2, <3>1 DEF Level, Behind
    <3>2. CASE c # d
      <4>1. c \in keyed \ removed /\ log'[c] = log[c]
        BY <1>0, <2>1, <2>3, <3>2
      <4>2. /\ Level(c)' => Level(c)
            /\ Behind(c)' => Behind(c)
        BY <2>1, <3>2 DEF Level, Behind
      <4> QED
        BY <2>1, <4>1, <4>2 DEF KeyedLevel
    <3> QED
      BY <3>1, <3>2
  <2> QED
    BY <2>3 DEF KeyedLevel
<1>8. ASSUME NEW d \in Consumer, SkipConsumer(d) PROVE KeyedLevel'
  <2>1. /\ log' = log
        /\ d \notin keyed /\ UNCHANGED <<spc, keyed, sent, removed>> /\ todo' = todo \ {d}
    BY <1>8 DEF SkipConsumer, Skips, Visit, pubVars, queueVars
  <2> QED
    BY <2>1 DEF KeyedLevel, Level, Behind
<1>9. ASSUME NEW d \in Consumer, Overflow(d) PROVE KeyedLevel'
  <2>1. /\ UNCHANGED <<spc, keyed, sent, log>> /\ todo' = todo \ {d}
        /\ removed' = removed \cup {d}
    BY <1>9 DEF Overflow, Visit, pubVars, queueVars
  <2> QED
    BY <2>1 DEF KeyedLevel, Level, Behind
<1>10. CASE BeginLoop
  <2>1. /\ spc = "lock" /\ spc' = "loop" /\ todo' = members /\ removed' = {} /\ removed = {}
        /\ UNCHANGED <<keyed, sent, log>>
    BY <1>10 DEF BeginLoop, RemovedOK, pubVars, queueVars
  <2> QED
    BY <1>0, <2>1 DEF KeyedLevel, Level, Behind
<1>11. CASE EndLoop
  <2>1. /\ spc = "loop" /\ todo = {} /\ spc' \in {"sent", "stop"}
        /\ UNCHANGED <<keyed, sent, log, todo, removed>>
    BY <1>11 DEF EndLoop, pubVars, queueVars
  <2> QED
    BY <2>1 DEF KeyedLevel, Level, Behind
<1>12. CASE StopRemoved
  <2>1. /\ spc = "stop" /\ spc' = "sent" /\ keyed' = keyed \ removed /\ removed' = {}
        /\ UNCHANGED <<sent, log, todo>>
    BY <1>12 DEF StopRemoved, StopConsumers
  <2> QED
    BY <2>1 DEF KeyedLevel, Level, Behind
<1>13. CASE FinishSend \/ CheckExists \/ InsertPublisher
  <2>1. /\ spc \in {"sent", "start", "insert"} /\ spc' \in {"next", "idle", "insert"}
        /\ UNCHANGED <<keyed, sent, log, todo, removed>>
    BY <1>13 DEF FinishSend, CheckExists, InsertPublisher, pubVars, queueVars
  <2> QED
    BY <2>1 DEF KeyedLevel, Level, Behind
<1>14. CASE Fill \/ \E b \in CopyBuf : StoreHeader(b)
  <2>1. /\ spc \in {"fill", "store"} /\ spc' \in {"store", "lock"}
        /\ UNCHANGED <<keyed, sent, log, todo, removed>>
    BY <1>14 DEF Fill, StoreHeader, pubVars, queueVars
  <2> QED
    BY <2>1 DEF KeyedLevel, Level, Behind
<1>15. CASE ReadFails \/ Unregister \/ PubStop
  <2>1. /\ spc' \in {"leave", "unregistered", "ended"}
        /\ UNCHANGED <<keyed, sent, log, todo, removed>>
    BY <1>15 DEF ReadFails, Unregister, PubStop, pubVars, queueVars
  <2> QED
    BY <2>1 DEF KeyedLevel, Level, Behind
<1>16. ASSUME spc \in {"idle", "next"}, spc' \in {"fill", "lock"}, sent' = sent + 1,
              UNCHANGED <<keyed, log, todo, removed>>
       PROVE  KeyedLevel'
  BY <1>0, <1>16 DEF KeyedLevel, Level, Behind
<1>17. ASSUME NEW b \in PoolBuf, NextFragment(b) PROVE KeyedLevel'
  BY <1>16, <1>17 DEF NextFragment, TakeBuffer, pubVars, queueVars
<1>18. ASSUME NEW k, NEW n, NEW b \in PoolBuf, OpenFrame(k, n, b) PROVE KeyedLevel'
  BY <1>16, <1>18 DEF OpenFrame, TakeBuffer, pubVars, queueVars
<1>19. ASSUME NEW b \in CopyBuf, SendMetaData(b) PROVE KeyedLevel'
  BY <1>16, <1>19 DEF SendMetaData, pubVars, queueVars
<1>20. CASE EndMapWrite
  <2>1. UNCHANGED <<spc, keyed, sent, log, todo, removed>>
    BY <1>20 DEF EndMapWrite, pubVars, queueVars
  <2> QED
    BY <2>1 DEF KeyedLevel, Level, Behind
<1> QED
  BY NextCases, <1>6, <1>7, <1>8, <1>9, <1>10, <1>11, <1>12, <1>13, <1>14, <1>15, <1>17,
     <1>18, <1>19, <1>20 DEF SenderStep, EncoderStep

(***************************************************************************)
(* What is queued then fits what was queued before.                        *)
(***************************************************************************)
DeliveryInv ==
  /\ NumbersOK /\ JoinOK /\ HeadersInOrder
  /\ RemovedOK /\ KeyedMembers /\ KeyedLevel
  /\ \A c \in Consumer : Gapless(log[c]) /\ Decodable(log[c])

\* A message the loop queues for a viewer that has seen a key frame comes next.
LEMMA EnqueuedNext ==
  ASSUME TypeInv, LockInv, DeliveryInv, NEW d \in Consumer, Enqueue(d), HasKey(log[d])
  PROVE  d \in keyed /\ LastNo(log[d]) = cur.no - 1
<1>1. /\ spc = "loop" /\ d \in todo /\ d \in members /\ cur.no = sent
  BY DEF Enqueue, Visit, LockInv, LoopOverMembers, DeliveryInv, NumbersOK, InHand
<1>2. d \in keyed /\ d \notin removed
  BY <1>1 DEF DeliveryInv, RemovedOK, KeyedMembers
<1> QED
  BY <1>1, <1>2 DEF DeliveryInv, KeyedLevel, Behind

LEMMA ContentsStep ==
  ASSUME TypeInv, LockInv, DeliveryInv, [Next]_vars, NEW d \in Consumer
  PROVE  Gapless(log'[d]) /\ Decodable(log'[d])
<1>1. log[d] \in Seq(Message) /\ Gapless(log[d]) /\ Decodable(log[d])
  BY DEF DeliveryInv, TypeInv, QueuesOK
<1>2. CASE log'[d] = log[d]
  BY <1>1, <1>2
<1>3. CASE Enqueue(d) /\ cur \in Message /\ log'[d] = Append(log[d], cur)
  <2>1. HasKey(log[d]) => cur.no = log[d][Len(log[d])].no + 1
    <3>1. SUFFICES ASSUME HasKey(log[d]) PROVE cur.no = log[d][Len(log[d])].no + 1
      OBVIOUS
    <3>2. Len(log[d]) \in DOMAIN log[d]
      BY <1>1, <3>1, Appended, <1>3 DEF HasKey
    <3>3. log[d][Len(log[d])] \in Message /\ cur \in Message
      BY <1>1, <1>3, <3>2, Appended
    <3>4. log[d][Len(log[d])].no \in Nat /\ cur.no \in Nat
      BY <3>3 DEF Message
    <3> QED
      BY <1>3, <3>1, <3>4, EnqueuedNext DEF LastNo
  <2>2. Gapless(log'[d])
    BY <1>1, <1>3, <2>1, AppendGapless
  <2>3. d \in keyed => HasKey(log[d])
    BY DEF DeliveryInv, KeyedMembers
  <2>4. cur.kind \in VideoKind => (cur.kind = "key" /\ ~cur.cont) \/ d \in keyed
    BY <1>3 DEF Enqueue, Skips
  <2>5. cur.kind \in VideoKind /\ cur.cont =>
          HasKey(log[d]) /\ log[d][Len(log[d])].no = cur.no - 1
    BY <1>3, <2>3, <2>4, EnqueuedNext DEF LastNo
  <2>6. Decodable(log'[d])
    BY <1>1, <1>3, <2>3, <2>4, <2>5, AppendDecodable
  <2> QED
    BY <2>2, <2>6
<1>4. CASE /\ SendInitial(d) /\ init[d] # <<>> /\ Head(init[d]) \in Message
           /\ log'[d] = Append(log[d], Head(init[d]))
  <2>1. init[d] \in Seq(Message) /\ vpc[d] = "initial"
    BY <1>4 DEF SendInitial, TypeInv, QueuesOK
  <2>2. Head(init[d]).kind \in StoredKind /\ \A i \in DOMAIN log[d] : log[d][i].kind \in StoredKind
    BY <1>4, <2>1, TailPart DEF DeliveryInv, JoinOK, Distinct, Joining
  <2>3. ~HasKey(log[d]) /\ Head(init[d]).kind \notin VideoKind
    BY <2>2 DEF HasKey, StoredKind, HeaderKind, VideoKind
  <2> QED
    BY <1>1, <1>4, <2>3, AppendGapless, AppendDecodable
<1> QED
  BY <1>2, <1>3, <1>4, LogSteps

LEMMA DeliveryInvariant == Spec => []DeliveryInv
<1>1. Init => DeliveryInv
  <2> SUFFICES ASSUME Init PROVE DeliveryInv
    OBVIOUS
  <2>1. \A c \in Consumer : log[c] = <<>> /\ init[c] = <<>>
    BY DEF Init
  <2>2. \A b \in Buffer : content[b] = 0
    BY DEF Init
  <2>3. NumbersOK
    BY <2>1, <2>2 DEF Init, NumbersOK, InHand, Upto
  <2>4. JoinOK /\ HeadersInOrder
    BY <2>1 DEF JoinOK, HeadersInOrder, Distinct, Unlike
  <2>5. RemovedOK /\ KeyedMembers /\ KeyedLevel
    BY DEF Init, RemovedOK, KeyedMembers, KeyedLevel
  <2>6. \A c \in Consumer : Gapless(log[c]) /\ Decodable(log[c])
    BY <2>1 DEF Gapless, Decodable
  <2> QED
    BY <2>3, <2>4, <2>5, <2>6 DEF DeliveryInv
<1>2. HoldInv /\ LockInv /\ DeliveryInv /\ [Next]_vars => DeliveryInv'
  <2> SUFFICES ASSUME HoldInv, LockInv, DeliveryInv, [Next]_vars PROVE DeliveryInv'
    OBVIOUS
  <2>1. TypeInv /\ CursorInv
    BY DEF HoldInv
  <2>2. NumbersOK' /\ JoinOK' /\ HeadersInOrder'
    BY <2>1, NumbersStep, JoinStep, InOrderStep DEF DeliveryInv
  <2>3. RemovedOK' /\ KeyedMembers' /\ KeyedLevel'
    BY <2>1, RemovedStep, KeyedMembersStep, KeyedLevelStep DEF DeliveryInv
  <2>4. \A c \in Consumer : Gapless(log'[c]) /\ Decodable(log'[c])
    BY <2>1, ContentsStep
  <2> QED
    BY <2>2, <2>3, <2>4 DEF DeliveryInv
<1> QED
  BY <1>1, <1>2, RefInvariant, LockInvariant, PTL DEF Spec

\* A viewer never gets an older sequence header or older metadata after newer
\* ones, wherever sendInitialData, which holds no lock, meets SendMessage.
THEOREM HeadersTheorem == Spec => []HeadersInOrder
<1>1. DeliveryInv => HeadersInOrder
  BY DEF DeliveryInv
<1> QED
  BY <1>1, DeliveryInvariant, PTL

\* A viewer that has been sent a key frame is sent every later payload or is
\* stopped: SendMessage leaves no hole when a queue overflows.
THEOREM NothingSkippedTheorem == Spec => []NothingSkipped
<1>1. DeliveryInv => NothingSkipped
  <2> SUFFICES ASSUME DeliveryInv PROVE NothingSkipped
    OBVIOUS
  <2>1. \A c \in keyed : spc = "idle" => LastNo(log[c]) = sent
    BY DEF DeliveryInv, KeyedLevel, RemovedOK, Level
  <2> QED
    BY <2>1 DEF DeliveryInv, NothingSkipped, Gapless, LastNo
<1> QED
  BY <1>1, DeliveryInvariant, PTL

\* The video a viewer is sent starts with the first buffer of a key frame, and no
\* continuation is separated from what it continues, in frames of any length.
THEOREM VideoTheorem == Spec => []VideoWellFormed
<1>1. DeliveryInv => VideoWellFormed
  BY DEF DeliveryInv, VideoWellFormed, Decodable
<1> QED
  BY <1>1, DeliveryInvariant, PTL
-----------------------------------------------------------------------------
(***************************************************************************)
(* The session implements MediaFeed.  Only a frame that is not a header    *)
(* has fragments left.                                                     *)
(***************************************************************************)
WholeInv == spc \in InHand \cup {"next"} /\ cur.kind \in HeaderKind => left = 0

\* What the frame in hand looks like to MediaFeed.
FedFrame ==
  IF FeedAt \in {"held", "between"} THEN [kind |-> cur.kind, cont |-> cur.cont \/ spc = "next"]
  ELSE [kind |-> "none", cont |-> FALSE]

LEMMA FrameContinued ==
  ASSUME NEW k, NEW c \in BOOLEAN, NEW f, f = [kind |-> k, cont |-> c]
  PROVE  [f EXCEPT !.cont = TRUE] = [kind |-> k, cont |-> TRUE]
<1> DEFINE g == [f EXCEPT !.cont = TRUE]
<1>1. f \in [kind : {k}, cont : BOOLEAN] /\ f.kind = k
  OBVIOUS
<1>2. g \in [kind : {k}, cont : BOOLEAN] /\ g.kind = k /\ g.cont = TRUE
  BY <1>1
<1> HIDE DEF g
<1>3. g = [kind |-> k, cont |-> TRUE]
  BY <1>2
<1> QED
  BY <1>3 DEF g

\* The sender's view of a message changes when it takes a buffer, when it is done
\* with one, and when it ends.
LEMMA FeedStep ==
  ASSUME TypeInv, CursorInv, WholeInv, [Next]_vars
  PROVE  [Feed!Next]_<<FeedAt, FedFrame>>
<1> DEFINE Goal == [Feed!Next]_<<FeedAt, FedFrame>>
<1>1. ASSUME FeedAt = "idle", FeedAt' = "idle" PROVE Goal
  BY <1>1 DEF FedFrame
<1>2. ASSUME spc \in InHand, spc' \in InHand, UNCHANGED cur PROVE Goal
  <2>1. FeedAt' = FeedAt /\ spc # "next" /\ spc' # "next"
    BY <1>2 DEF FeedAt, InHand
  <2> QED
    BY <1>2, <2>1 DEF FedFrame
<1>3. ASSUME FeedAt \in {"idle", "held", "over"}, FeedAt' = "over" PROVE Goal
  <2>1. FedFrame' = Feed!NoFrame /\ (FeedAt = "over" => FedFrame = Feed!NoFrame)
    BY <1>3 DEF FedFrame, Feed!NoFrame
  <2> QED
    BY <1>3, <2>1 DEF Feed!Next, Feed!End, FedFrame
<1>4. ASSUME NEW b \in PoolBuf, NextFragment(b) PROVE Goal
  <2>1. /\ spc = "next" /\ spc' = "fill" /\ cur \in Fragment
        /\ cur' = [cur EXCEPT !.cont = TRUE, !.no = sent + 1, !.buf = b]
    BY <1>4 DEF NextFragment, TakeBuffer, TypeInv, CursorOK
  <2>2. cur'.kind = cur.kind /\ cur'.cont = TRUE /\ cur.kind # "meta"
    BY <2>1 DEF Fragment, CursorInv
  <2>3. FeedAt = "between" /\ FeedAt' = "held"
    BY <2>1, <2>2 DEF FeedAt
  <2>4. FedFrame = [kind |-> cur.kind, cont |-> TRUE]
    BY <2>1, <2>3 DEF FedFrame
  <2>5. FedFrame' = [kind |-> cur.kind, cont |-> TRUE]
    BY <2>1, <2>2, <2>3 DEF FedFrame
  <2> QED
    BY <2>3, <2>4, <2>5 DEF Feed!Next, Feed!More, FedFrame
<1>5. ASSUME NEW k \in Frames \ {"meta"}, NEW n, NEW b, OpenFrame(k, n, b) PROVE Goal
  <2>1. k \in HeaderKind \cup DataKind
    BY ConstantsAssumption DEF MsgKind, StoredKind
  <2>2. spc = "idle" /\ spc' = "fill" /\ cur'.kind = k /\ cur'.cont = FALSE
    BY <1>5 DEF OpenFrame, TakeBuffer
  <2>3. FeedAt = "idle" /\ FeedAt' = "held"
    BY <2>2 DEF FeedAt
  <2>4. FedFrame' = [kind |-> k, cont |-> FALSE]
    BY <2>2, <2>3 DEF FedFrame
  <2> QED
    BY <2>1, <2>3, <2>4 DEF Feed!Next, Feed!Open, FedFrame
<1>6. ASSUME FinishSend PROVE Goal
  <2>1. /\ spc = "sent" /\ cur \in Message /\ left \in Nat
        /\ spc' = IF left > 0 THEN "next" ELSE "idle"
        /\ left > 0 => cur' = [cur EXCEPT !.buf = NoBuf]
    BY <1>6 DEF FinishSend, TypeInv, CursorOK, InHand
  <2>2. CASE left > 0
    <3>1. /\ cur.kind # "meta" /\ cur.kind \notin HeaderKind /\ cur.cont \in BOOLEAN
          /\ spc' = "next" /\ cur'.kind = cur.kind
      BY <2>1, <2>2 DEF CursorInv, WholeInv, InHand, Message
    <3>2. FeedAt = "held" /\ FeedAt' = "between"
      BY <2>1, <3>1 DEF FeedAt
    <3>3. FedFrame = [kind |-> cur.kind, cont |-> cur.cont]
      BY <2>1, <3>1, <3>2 DEF FedFrame
    <3>4. FedFrame' = [kind |-> cur.kind, cont |-> TRUE]
      BY <3>1, <3>2 DEF FedFrame
    <3>5. FedFrame' = [FedFrame EXCEPT !.cont = TRUE] /\ FedFrame.kind \notin HeaderKind
      BY <3>1, <3>3, <3>4, FrameContinued
    <3> QED
      BY <3>2, <3>5 DEF Feed!Next, Feed!Forward, FedFrame
  <2>3. CASE ~(left > 0)
    <3>1. FeedAt \in {"held", "idle"} /\ FeedAt' = "idle"
      BY <2>1, <2>3 DEF FeedAt
    <3>2. FedFrame' = Feed!NoFrame
      BY <3>1 DEF FedFrame, Feed!NoFrame
    <3> QED
      BY <1>1, <3>1, <3>2 DEF Feed!Next, Feed!Forward, FedFrame
  <2> QED
    BY <2>2, <2>3
<1>7. ASSUME NEW b, SendMetaData(b) PROVE Goal
  <2>1. FeedAt = "idle" /\ FeedAt' = "idle"
    BY <1>7 DEF SendMetaData, FeedAt
  <2> QED
    BY <1>1, <2>1
<1>8. ASSUME CheckExists \/ InsertPublisher PROVE Goal
  <2>1. FeedAt = "idle" /\ FeedAt' = "idle"
    BY <1>8 DEF CheckExists, InsertPublisher, FeedAt
  <2> QED
    BY <1>1, <2>1
<1>9. ASSUME ReadFails \/ Unregister \/ PubStop PROVE Goal
  <2>1. FeedAt \in {"idle", "held", "over"} /\ FeedAt' = "over"
    BY <1>9 DEF ReadFails, Unregister, PubStop, FeedAt
  <2> QED
    BY <1>3, <2>1
<1>10. ASSUME UNCHANGED senderVars PROVE Goal
  BY <1>10 DEF senderVars, FeedAt, FedFrame
<1>11. ASSUME EndMapWrite PROVE Goal
  BY <1>11 DEF EndMapWrite, FeedAt, FedFrame
<1> HIDE DEF Goal
<1>12. ASSUME SenderStep PROVE Goal
  <2>1. \/ spc \in InHand /\ spc' \in InHand /\ UNCHANGED cur
        \/ EndMapWrite \/ FinishSend \/ PubStop \/ \E b \in PoolBuf : NextFragment(b)
    BY <1>12 DEF SenderStep, StoreHeader, BeginLoop, SkipConsumer, Enqueue, Overflow, Visit,
       EndLoop, StopRemoved, InHand
  <2> QED
    BY <1>2, <1>4, <1>6, <1>9, <1>11, <2>1
<1>13. ASSUME EncoderStep PROVE Goal
  <2>1. Fill => spc \in InHand /\ spc' \in InHand /\ UNCHANGED cur
    BY DEF Fill, InHand
  <2> QED
    BY <1>2, <1>5, <1>7, <1>8, <1>9, <1>13, <2>1 DEF EncoderStep
<1>14. ASSUME UNCHANGED vars \/ \E c \in Consumer : ViewerStep(c) PROVE Goal
  BY <1>10, <1>14, ViewersApart DEF vars
<1> QED
  BY NextCases, <1>12, <1>13, <1>14 DEF Goal

LEMMA WholeStep == ASSUME TypeInv, WholeInv, [Next]_vars PROVE WholeInv'
<1> USE DEF WholeInv, InHand
<1>1. ASSUME NEW b \in PoolBuf, NextFragment(b) PROVE WholeInv'
  <2>1. /\ spc = "next" /\ left > 0 /\ cur \in Fragment
        /\ cur' = [cur EXCEPT !.cont = TRUE, !.no = sent + 1, !.buf = b]
    BY <1>1 DEF NextFragment, TypeInv, CursorOK
  <2>2. cur'.kind = cur.kind
    BY <2>1 DEF Fragment
  <2> QED
    BY <2>1, <2>2 DEF TypeInv, CursorOK
<1>2. CASE FinishSend
  <2>1. /\ cur \in Message /\ left \in Nat /\ left' = left /\ spc = "sent"
        /\ left > 0 => cur' = [cur EXCEPT !.buf = NoBuf]
        /\ ~(left > 0) => spc' = "idle"
    BY <1>2 DEF FinishSend, TypeInv, CursorOK
  <2>2. left > 0 => cur'.kind = cur.kind
    BY <2>1 DEF Message
  <2> QED
    BY <2>1, <2>2
<1>3. CASE SenderStep
  BY <1>1, <1>2, <1>3 DEF SenderStep, StoreHeader, BeginLoop, SkipConsumer, Enqueue, Overflow,
     Visit, EndMapWrite, EndLoop, StopRemoved, PubStop
<1>4. CASE EncoderStep
  BY <1>4 DEF EncoderStep, CheckExists, InsertPublisher, OpenFrame, TakeBuffer,
     SendMetaData, Fill, ReadFails, Unregister, HeaderKind
<1>5. CASE UNCHANGED vars \/ \E c \in Consumer : ViewerStep(c)
  BY <1>5, ViewersApart DEF vars, senderVars
<1> QED
  BY NextCases, <1>3, <1>4, <1>5

\* The frames reach the viewers' publisher as MediaFeed says: in order, whole, and
\* sequence headers in one piece.
THEOREM FeedTheorem == Spec => ImplementsFeed
<1>1. Init => Feed!Init /\ WholeInv
  BY DEF Init, WholeInv, InHand, FeedAt, Feed!Init, Feed!NoFrame
<1>2. TypeInv /\ WholeInv /\ [Next]_vars => WholeInv'
  BY WholeStep
<1>3. TypeInv /\ CursorInv /\ WholeInv /\ [Next]_vars => [Feed!Next]_<<FeedAt, FedFrame>>
  BY FeedStep
<1>4. HoldInv => TypeInv /\ CursorInv
  BY DEF HoldInv
<1> QED
  BY <1>1, <1>2, <1>3, <1>4, RefInvariant, PTL DEF Spec, ImplementsFeed, Feed!Spec, FedFrame
-----------------------------------------------------------------------------
(***************************************************************************)
(* The session with its viewers implements MediaChannel.  These are the    *)
(* variables of the channel as the session determines them.                *)
(***************************************************************************)
ChPublishers == [i \in {"user"} |-> IF registered THEN "rtmp" ELSE "nil"]
ChSpc        == [s \in {"rtmp"} |-> ChannelSession]
ChMembers    == [s \in {"rtmp"} |-> members]
ChVpc        == [c \in Consumer |-> ChannelViewer(c)]
ChTarget     == [c \in Consumer |->
                   IF ChannelViewer(c) \in {"join", "remove"} THEN "rtmp" ELSE "nil"]
ChPanic      == IF fatal = "send on closed channel" THEN fatal ELSE "none"

Calling(l) == IF l \in {"join", "remove"} THEN "rtmp" ELSE "nil"

LEMMA ChannelVars ==
  Channel!vars = <<ChPublishers, ChSpc, ChMembers, ChVpc, ChTarget, stopped, ChPanic>>
  BY DEF Channel!vars, ChPublishers, ChSpc, ChMembers, ChVpc, ChTarget, ChPanic

LEMMA NoChannelPanic == ASSUME LockInv PROVE ChPanic = "none"
  BY Zenon DEF ChPanic, LockInv, SendsOpen

\* While the session streams, what the publisher stops is either still in its map
\* or was stopped by the handler it belongs to.
ChannelInv ==
  /\ spc \in {"start", "insert"} => ~registered
  /\ spc = "stop" => removed \subseteq members \cup stopped

LEMMA ViewerMoves ==
  ASSUME TypeInv, NEW c \in Consumer, NEW l, vpc' = [vpc EXCEPT ![c] = l]
  PROVE  /\ ChVpc' = [ChVpc EXCEPT ![c] = ChannelViewer(c)']
         /\ ChTarget' = [ChTarget EXCEPT ![c] = Calling(ChannelViewer(c)')]
         /\ ChVpc[c] = ChannelViewer(c) /\ ChTarget[c] = Calling(ChannelViewer(c))
<1>1. \A d \in Consumer \ {c} : ChannelViewer(d)' = ChannelViewer(d)
  BY DEF ChannelViewer, TypeInv, ControlOK
<1>2. \A d \in Consumer \ {c} : ChVpc'[d] = ChVpc[d] /\ ChTarget'[d] = ChTarget[d]
  BY <1>1 DEF ChVpc, ChTarget
<1>3. ChVpc'[c] = ChannelViewer(c)' /\ ChTarget'[c] = Calling(ChannelViewer(c)')
  BY DEF ChVpc, ChTarget, Calling
<1>4. /\ ChVpc = [d \in Consumer |-> ChVpc[d]] /\ ChVpc' = [d \in Consumer |-> ChVpc'[d]]
      /\ ChTarget = [d \in Consumer |-> ChTarget[d]] /\ ChTarget' = [d \in Consumer |-> ChTarget'[d]]
  BY DEF ChVpc, ChTarget
<1>5. ChVpc[c] = ChannelViewer(c) /\ ChTarget[c] = Calling(ChannelViewer(c))
  BY DEF ChVpc, ChTarget, Calling
<1> QED
  BY <1>2, <1>3, <1>4, <1>5

LEMMA ViewersStay ==
  ASSUME TypeInv, UNCHANGED vpc PROVE UNCHANGED <<ChVpc, ChTarget>>
  BY DEF ChVpc, ChTarget, ChannelViewer

LEMMA SessionMoves ==
  /\ ChSpc' = [ChSpc EXCEPT !["rtmp"] = ChannelSession'] /\ ChSpc["rtmp"] = ChannelSession
  /\ ChMembers' = [ChMembers EXCEPT !["rtmp"] = members'] /\ ChMembers["rtmp"] = members
  /\ ChPublishers' = [ChPublishers EXCEPT !["user"] = IF registered' THEN "rtmp" ELSE "nil"]
  /\ ChPublishers["user"] = IF registered THEN "rtmp" ELSE "nil"
  BY DEF ChSpc, ChMembers, ChPublishers

LEMMA RegistryStays == ASSUME UNCHANGED registered PROVE UNCHANGED ChPublishers
  BY DEF ChPublishers
LEMMA MembersStay == ASSUME UNCHANGED members PROVE UNCHANGED ChMembers
  BY DEF ChMembers
LEMMA SessionStays == ASSUME UNCHANGED ChannelSession PROVE UNCHANGED ChSpc
  BY DEF ChSpc

\* What the channel does not notice.
LEMMA Unnoticed ==
  ASSUME LockInv, LockInv', UNCHANGED <<registered, ChannelSession, members, stopped>>,
         \A c \in Consumer : ChannelViewer(c)' = ChannelViewer(c)
  PROVE  UNCHANGED Channel!vars
<1>1. UNCHANGED <<ChPublishers, ChSpc, ChMembers, ChVpc, ChTarget>>
  BY DEF ChPublishers, ChSpc, ChMembers, ChVpc, ChTarget
<1>2. UNCHANGED ChPanic
  BY NoChannelPanic DEF ChPanic, LockInv, SendsOpen
<1> QED
  BY <1>1, <1>2, ChannelVars DEF Channel!vars, ChPublishers, ChSpc, ChMembers, ChVpc, ChTarget, ChPanic

LEMMA PanicNever ==
  ASSUME LockInv, LockInv' PROVE ChPanic = "none" /\ ChPanic' = "none"
  BY Zenon DEF ChPanic, LockInv, SendsOpen

LEMMA SessionChannel ==
  ASSUME TypeInv, LockInv, LockInv', ChannelInv, UNCHANGED vpc,
         CheckExists \/ InsertPublisher \/ StopRemoved \/ Unregister \/ PubStop
  PROVE  Channel!SessionStep("rtmp")
<1>1. /\ ChPanic = "none" /\ ChPanic' = "none" /\ UNCHANGED <<ChVpc, ChTarget>>
  BY PanicNever, ViewersStay
<1>2. CASE CheckExists
  <2>1. /\ UNCHANGED <<registered, members, stopped>> /\ ~registered
        /\ ChannelSession = "new" /\ ChannelSession' = "insert"
    BY <1>2 DEF CheckExists, ChannelSession, ChannelInv, pubVars, queueVars
  <2>2. /\ ChSpc["rtmp"] = "new" /\ ChSpc' = [ChSpc EXCEPT !["rtmp"] = "insert"]
        /\ ChPublishers["user"] = "nil" /\ UNCHANGED <<ChPublishers, ChMembers>>
    BY <2>1, SessionMoves, RegistryStays, MembersStay
  <2>3. Channel!CheckExists("rtmp")
    BY <1>1, <2>1, <2>2 DEF Channel!CheckExists, Channel!Goto, Channel!getPublisher,
       ChPublishers, ChSpc, ChMembers, ChVpc, ChTarget, ChPanic
  <2> QED
    BY <2>3 DEF Channel!SessionStep
<1>3. CASE InsertPublisher
  <2>1. /\ UNCHANGED <<members, stopped>> /\ registered' = TRUE
        /\ ChannelSession = "insert" /\ ChannelSession' = "live"
    BY <1>3 DEF InsertPublisher, ChannelSession, queueVars
  <2>2. /\ ChSpc["rtmp"] = "insert" /\ ChSpc' = [ChSpc EXCEPT !["rtmp"] = "live"]
        /\ ChPublishers' = [ChPublishers EXCEPT !["user"] = "rtmp"] /\ UNCHANGED ChMembers
    BY <2>1, SessionMoves, MembersStay
  <2>3. Channel!InsertPublisher("rtmp")
    BY <1>1, <2>1, <2>2 DEF Channel!InsertPublisher, Channel!Goto,
       ChPublishers, ChSpc, ChMembers, ChVpc, ChTarget, ChPanic
  <2> QED
    BY <2>3 DEF Channel!SessionStep
<1>4. CASE Unregister
  <2>1. /\ UNCHANGED <<members, stopped>> /\ registered' = FALSE
        /\ ChannelSession = "live" /\ ChannelSession' = "stop"
    BY <1>4 DEF Unregister, ChannelSession, queueVars
  <2>2. /\ ChSpc["rtmp"] = "live" /\ ChSpc' = [ChSpc EXCEPT !["rtmp"] = "stop"]
        /\ ChPublishers' = [ChPublishers EXCEPT !["user"] = "nil"] /\ UNCHANGED ChMembers
    BY <2>1, SessionMoves, MembersStay
  <2>3. Channel!DeletePublisher("rtmp")
    BY <1>1, <2>1, <2>2 DEF Channel!DeletePublisher, Channel!Goto,
       ChPublishers, ChSpc, ChMembers, ChVpc, ChTarget, ChPanic
  <2> QED
    BY <2>3 DEF Channel!SessionStep
<1>5. CASE PubStop
  <2>1. /\ UNCHANGED <<registered, members>> /\ stopped' = stopped \cup members
        /\ ChannelSession = "stop" /\ ChannelSession' = "ended"
    BY <1>5 DEF PubStop, ChannelSession, pubVars
  <2>2. /\ ChSpc["rtmp"] = "stop" /\ ChSpc' = [ChSpc EXCEPT !["rtmp"] = "ended"]
        /\ ChMembers["rtmp"] = members /\ UNCHANGED <<ChPublishers, ChMembers>>
    BY <2>1, SessionMoves, RegistryStays, MembersStay
  <2>3. Channel!PubStop("rtmp")
    BY <1>1, <2>1, <2>2 DEF Channel!PubStop, Channel!Stop, Channel!Goto,
       ChPublishers, ChSpc, ChMembers, ChVpc, ChTarget, ChPanic
  <2> QED
    BY <2>3 DEF Channel!SessionStep
<1>6. CASE StopRemoved
  <2> DEFINE full == removed \cap members
  <2>1. /\ spc = "stop" /\ members' = members \ removed /\ stopped' = stopped \cup removed
        /\ UNCHANGED registered /\ ChannelSession = "live" /\ ChannelSession' = "live"
    BY <1>6 DEF StopRemoved, StopConsumers, ChannelSession
  <2>2. members' = members \ full /\ stopped' = stopped \cup full /\ members \cap stopped = {}
    BY <2>1 DEF ChannelInv, LockInv, MembersOpen
  <2>3. /\ ChSpc["rtmp"] = "live" /\ ChMembers["rtmp"] = members
        /\ ChMembers' = [ChMembers EXCEPT !["rtmp"] = members \ full]
        /\ UNCHANGED <<ChPublishers, ChSpc>>
    BY <2>1, <2>2, SessionMoves, RegistryStays, SessionStays
  <2>4. full \in SUBSET members
    OBVIOUS
  <2> HIDE DEF full
  <2>5. Channel!SendMessage("rtmp", full)
    BY <1>1, <2>2, <2>3, <2>4 DEF Channel!SendMessage, Channel!RemoveMembers, Channel!Stop,
       ChPublishers, ChSpc, ChMembers, ChVpc, ChTarget, ChPanic
  <2>6. full \in SUBSET ChMembers["rtmp"]
    BY <2>3, <2>4
  <2> QED
    BY <2>5, <2>6 DEF Channel!SessionStep, ChMembers
<1> QED
  BY <1>2, <1>3, <1>4, <1>5, <1>6

LEMMA ViewerChannel ==
  ASSUME TypeInv, LockInv, LockInv', NEW c \in Consumer, UNCHANGED spc,
         Lookup(c) \/ Refuse(c) \/ Insert(c) \/ LeaveLookup(c) \/ RemoveConsumer(c)
  PROVE  Channel!ViewerStep(c)
<1>1. ChPanic = "none" /\ ChPanic' = "none"
  BY PanicNever
<1>2. ChannelSession' = ChannelSession
  BY DEF ChannelSession
<1>3. UNCHANGED ChSpc
  BY <1>2, SessionStays
<1>4. CASE Lookup(c)
  <2>1. /\ vpc' = [vpc EXCEPT ![c] = IF registered THEN "check" ELSE "done"]
        /\ UNCHANGED <<registered, members, stopped>> /\ vpc[c] = "lookup"
    BY <1>4 DEF Lookup, Return, pubVars, queueVars
  <2>2. /\ ChannelViewer(c) = "idle"
        /\ ChannelViewer(c)' = IF registered THEN "join" ELSE "done"
    BY <2>1 DEF ChannelViewer, TypeInv, ControlOK
  <2>3. /\ ChVpc[c] = "idle"
        /\ ChVpc' = [ChVpc EXCEPT ![c] = IF ChPublishers["user"] = "nil" THEN "done" ELSE "join"]
        /\ ChTarget' = [ChTarget EXCEPT ![c] = ChPublishers["user"]]
    BY <2>1, <2>2, ViewerMoves, SessionMoves DEF Calling
  <2>4. UNCHANGED <<ChPublishers, ChMembers>>
    BY <2>1, RegistryStays, MembersStay
  <2>5. Channel!Lookup(c)
    BY <1>1, <1>3, <2>1, <2>3, <2>4 DEF Channel!Lookup, Channel!Find, Channel!getPublisher,
       ChPublishers, ChSpc, ChMembers, ChVpc, ChTarget, ChPanic
  <2> QED
    BY <2>5 DEF Channel!ViewerStep
<1>5. CASE LeaveLookup(c)
  <2>1. /\ vpc' = [vpc EXCEPT ![c] = IF registered THEN "remove" ELSE "done"]
        /\ UNCHANGED <<registered, members, stopped>> /\ vpc[c] = "watch"
    BY <1>5 DEF LeaveLookup, Return, pubVars, queueVars
  <2>2. /\ ChannelViewer(c) = "watch"
        /\ ChannelViewer(c)' = IF registered THEN "remove" ELSE "done"
    BY <2>1 DEF ChannelViewer, TypeInv, ControlOK
  <2>3. /\ ChVpc[c] = "watch"
        /\ ChVpc' = [ChVpc EXCEPT ![c] = IF ChPublishers["user"] = "nil" THEN "done" ELSE "remove"]
        /\ ChTarget' = [ChTarget EXCEPT ![c] = ChPublishers["user"]]
    BY <2>1, <2>2, ViewerMoves, SessionMoves DEF Calling
  <2>4. UNCHANGED <<ChPublishers, ChMembers>>
    BY <2>1, RegistryStays, MembersStay
  <2>5. Channel!Leave(c)
    BY <1>1, <1>3, <2>1, <2>3, <2>4 DEF Channel!Leave, Channel!Find, Channel!getPublisher,
       ChPublishers, ChSpc, ChMembers, ChVpc, ChTarget, ChPanic
  <2> QED
    BY <2>5 DEF Channel!ViewerStep
<1>6. CASE Insert(c)
  <2>1. /\ vpc' = [vpc EXCEPT ![c] = "watch"] /\ vpc[c] = "initial"
        /\ UNCHANGED <<registered, stopped>> /\ members' = members \cup {c}
    BY <1>6 DEF Insert, queueVars
  <2>2. ChannelViewer(c) = "join" /\ ChannelViewer(c)' = "watch"
    BY <2>1 DEF ChannelViewer, TypeInv, ControlOK
  <2>3. /\ ChVpc[c] = "join" /\ ChTarget[c] = "rtmp"
        /\ ChVpc' = [ChVpc EXCEPT ![c] = "watch"]
        /\ ChTarget' = [ChTarget EXCEPT ![c] = "nil"]
    BY <2>1, <2>2, ViewerMoves DEF Calling
  <2>4. ChMembers' = [ChMembers EXCEPT !["rtmp"] = @ \cup {c}] /\ UNCHANGED ChPublishers
    BY <2>1, RegistryStays, SessionMoves
  <2>5. Channel!Join(c)
    BY <1>1, <1>3, <2>1, <2>3, <2>4 DEF Channel!Join, Channel!Return,
       ChPublishers, ChSpc, ChMembers, ChVpc, ChTarget, ChPanic
  <2> QED
    BY <2>5 DEF Channel!ViewerStep
<1>7. CASE Refuse(c) \/ RemoveConsumer(c)
  <2>1. /\ vpc' = [vpc EXCEPT ![c] = "done"]
        /\ vpc[c] = "refuse" \/ vpc[c] = "remove"
        /\ UNCHANGED registered /\ members' = members \ {c} /\ stopped' = stopped \cup {c}
    BY <1>7 DEF Refuse, RemoveConsumer, StopConsumers, Return
  <2>2. ChannelViewer(c) \in {"join", "remove"} /\ ChannelViewer(c)' = "done"
    BY <2>1 DEF ChannelViewer, TypeInv, ControlOK
  <2>3. /\ ChVpc[c] \in {"join", "remove"} /\ ChTarget[c] = "rtmp"
        /\ ChVpc' = [ChVpc EXCEPT ![c] = "done"]
        /\ ChTarget' = [ChTarget EXCEPT ![c] = "nil"]
    BY <2>1, <2>2, ViewerMoves DEF Calling
  <2>4. ChMembers' = [ChMembers EXCEPT !["rtmp"] = @ \ {c}] /\ UNCHANGED ChPublishers
    BY <2>1, RegistryStays, SessionMoves
  <2>5. Channel!Refuse(c) \/ Channel!RemoveConsumer(c)
    BY <1>1, <1>3, <2>1, <2>3, <2>4 DEF Channel!Refuse, Channel!RemoveConsumer,
       Channel!RemoveMembers, Channel!Stop, Channel!Return,
       ChPublishers, ChSpc, ChMembers, ChVpc, ChTarget, ChPanic
  <2> QED
    BY <2>5 DEF Channel!ViewerStep
<1> QED
  BY <1>4, <1>5, <1>6, <1>7

LEMMA ChannelInvStep ==
  ASSUME TypeInv, LockInv, ChannelInv, [Next]_vars PROVE ChannelInv'
<1> USE DEF ChannelInv
<1>1. CASE SenderStep
  <2>1. CASE EndLoop
    <3>1. spc = "loop" /\ spc' \in {"sent", "stop"} /\ UNCHANGED <<removed, members>>
      BY <2>1 DEF EndLoop, pubVars
    <3> QED
      BY <3>1 DEF LockInv, LoopOverMembers
  <2>2. CASE ~EndLoop
    <3>1. /\ spc' \notin {"start", "insert", "stop"} \/ UNCHANGED <<spc, removed, stopped>>
          /\ UNCHANGED registered
          /\ spc' # "stop" \/ UNCHANGED members
      BY <1>1, <2>2 DEF SenderStep, NextFragment, TakeBuffer, StoreHeader, BeginLoop,
         SkipConsumer, Enqueue, Overflow, Visit, EndMapWrite, StopRemoved, FinishSend, PubStop,
         pubVars, queueVars
    <3> QED
      BY <3>1
  <2> QED
    BY <2>1, <2>2
<1>2. CASE EncoderStep
  BY <1>2 DEF EncoderStep, CheckExists, InsertPublisher, OpenFrame, TakeBuffer,
     SendMetaData, Fill, ReadFails, Unregister, pubVars, queueVars
<1>3. ASSUME NEW c \in Consumer, ViewerStep(c)
      PROVE  /\ UNCHANGED <<registered, spc, removed>>
             /\ members \cup stopped \subseteq members' \cup stopped'
  <2>1. UNCHANGED <<spc, removed>>
    BY <1>3, ViewersApart DEF senderVars
  <2>2. CASE Refuse(c) \/ RemoveConsumer(c)
    BY <2>1, <2>2 DEF Refuse, RemoveConsumer, StopConsumers
  <2>3. CASE Insert(c)
    BY <2>1, <2>3 DEF Insert, queueVars
  <2>4. CASE ~(Refuse(c) \/ RemoveConsumer(c) \/ Insert(c))
    <3>1. UNCHANGED <<registered, members, stopped>>
      BY <1>3, <2>4 DEF ViewerStep, Connect, PeerLost, HandlerStep, Lookup, HasConsumer,
         Snapshot, SendInitial, InitialOverflow, LeaveLookup, WriteStep, WriterStep, Receive,
         Written, WriteFails, Drain, WriterEnds, pubVars, queueVars
    <3> QED
      BY <2>1, <3>1
  <2> QED
    BY <2>2, <2>3, <2>4
<1>4. CASE UNCHANGED vars
  BY <1>4 DEF vars, pubVars, senderVars, queueVars
<1> QED
  BY NextCases, <1>1, <1>2, <1>3, <1>4

LEMMA ChannelStep ==
  ASSUME TypeInv, LockInv, LockInv', ChannelInv, [Next]_vars
  PROVE  [Channel!Next]_(Channel!vars)
<1>0. ASSUME Channel!SessionStep("rtmp") \/ \E c \in Consumer : Channel!ViewerStep(c)
      PROVE  Channel!Next
  <2>1. ChPanic = "none"
    BY PanicNever
  <2> QED
    BY <1>0, <2>1 DEF Channel!Next, ChPanic
<1>1. ASSUME UNCHANGED <<registered, ChannelSession, members, stopped, vpc>>
      PROVE  UNCHANGED Channel!vars
  BY <1>1, Unnoticed DEF ChannelViewer
<1>2. ASSUME UNCHANGED vars PROVE UNCHANGED Channel!vars
  BY <1>1, <1>2 DEF vars, pubVars, senderVars, queueVars, viewerVars, ChannelSession
<1>3. ASSUME UNCHANGED vpc, CheckExists \/ InsertPublisher \/ StopRemoved \/ Unregister \/ PubStop
      PROVE  Channel!Next
  BY <1>0, <1>3, SessionChannel
<1>4. ASSUME SenderStep, ~StopRemoved, ~PubStop PROVE UNCHANGED Channel!vars
  <2>1. /\ UNCHANGED <<registered, members, stopped, vpc>>
        /\ \/ UNCHANGED spc
           \/ /\ spc \in InHand \cup {"next"} /\ spc' \in InHand \cup {"next", "idle"}
    BY <1>4 DEF SenderStep, NextFragment, TakeBuffer, StoreHeader, BeginLoop, SkipConsumer,
     Enqueue, Overflow, Visit, EndMapWrite, EndLoop, FinishSend, InHand,
     pubVars, queueVars, viewerVars
  <2> QED
    BY <1>1, <2>1 DEF ChannelSession, InHand
<1>5. ASSUME EncoderStep, ~CheckExists, ~InsertPublisher, ~Unregister
      PROVE  UNCHANGED Channel!vars
  <2>1. /\ UNCHANGED <<registered, members, stopped, vpc>>
        /\ spc \in InHand \cup {"idle"} /\ spc' \in InHand \cup {"leave"}
    BY <1>5 DEF EncoderStep, OpenFrame, TakeBuffer, SendMetaData, Fill, ReadFails, InHand,
     pubVars, queueVars, viewerVars
  <2> QED
    BY <1>1, <2>1 DEF ChannelSession, InHand
<1>6. ASSUME NEW c \in Consumer, ViewerStep(c)
      PROVE  UNCHANGED Channel!vars \/ Channel!Next
  <2>0. UNCHANGED spc
    BY <1>6, ViewersApart DEF senderVars
  <2>1. CASE Lookup(c) \/ Refuse(c) \/ Insert(c) \/ LeaveLookup(c) \/ RemoveConsumer(c)
    BY <1>0, <2>0, <2>1, ViewerChannel
  <2>2. ASSUME NEW l, vpc' = [vpc EXCEPT ![c] = l], ChannelViewer(c)' = ChannelViewer(c),
               UNCHANGED <<registered, members, stopped>>
        PROVE  UNCHANGED Channel!vars
    <3>1. \A d \in Consumer : ChannelViewer(d)' = ChannelViewer(d)
      BY <2>2 DEF ChannelViewer, TypeInv, ControlOK
    <3> QED
      BY <2>0, <2>2, <3>1, Unnoticed DEF ChannelSession
  <2>3. CASE Connect(c)
    <3>1. /\ vpc[c] = "idle" /\ vpc' = [vpc EXCEPT ![c] = "lookup"]
          /\ UNCHANGED <<registered, members, stopped>>
      BY <2>3 DEF Connect, pubVars
    <3>2. ChannelViewer(c)' = ChannelViewer(c)
      BY <3>1 DEF ChannelViewer, TypeInv, ControlOK
    <3> QED
      BY <2>2, <3>1, <3>2
  <2>4. CASE HasConsumer(c) \/ Snapshot(c) \/ InitialOverflow(c)
    <3>1. vpc[c] \in {"check", "snap", "initial"} /\ c \notin members
      BY <2>4 DEF HasConsumer, Snapshot, InitialOverflow, LockInv, JoiningUnknown, Joining
    <3>2. PICK l \in {"snap", "initial", "refuse"} : vpc' = [vpc EXCEPT ![c] = l]
      BY <2>4, <3>1 DEF HasConsumer, Snapshot, InitialOverflow
    <3>3. UNCHANGED <<registered, members, stopped>>
      BY <2>4 DEF HasConsumer, Snapshot, InitialOverflow, pubVars, queueVars
    <3>4. ChannelViewer(c)' = ChannelViewer(c)
      BY <3>1, <3>2 DEF ChannelViewer, TypeInv, ControlOK
    <3> QED
      BY <2>2, <3>2, <3>3, <3>4
  <2>5. CASE PeerLost(c) \/ SendInitial(c) \/ WriteStep(c) \/ WriterStep(c)
    <3>1. UNCHANGED <<registered, members, stopped, vpc>>
      BY <2>5 DEF PeerLost, SendInitial, WriteStep, WriterStep, Receive,
         Written, WriteFails, Drain, WriterEnds, pubVars, queueVars, viewerVars
    <3> QED
      BY <1>1, <2>0, <3>1 DEF ChannelSession
  <2> QED
    BY <1>6, <2>1, <2>3, <2>4, <2>5 DEF ViewerStep, HandlerStep
<1>7. UNCHANGED vpc \/ ~(CheckExists \/ InsertPublisher \/ StopRemoved \/ Unregister \/ PubStop)
  BY DEF CheckExists, InsertPublisher, StopRemoved, Unregister, PubStop, viewerVars
<1> QED
  BY NextCases, <1>2, <1>3, <1>4, <1>5, <1>6, <1>7

\* A session with its viewers is what MediaChannel takes it for, so that what is
\* proved of the channel holds of the session: the steps of AddConsumer,
\* SendMessage and readMessages in between are invisible.
THEOREM ChannelTheorem == Spec => ImplementsChannel
<1>1. Init => Channel!Init /\ ChannelInv
  BY DEF Init, Channel!Init, ChannelInv, ChannelSession, ChannelViewer
<1>2. TypeInv /\ LockInv /\ ChannelInv /\ [Next]_vars => ChannelInv'
  BY ChannelInvStep
<1>3. TypeInv /\ LockInv /\ LockInv' /\ ChannelInv /\ [Next]_vars
        => [Channel!Next]_(Channel!vars)
  BY ChannelStep
<1> QED
  BY <1>1, <1>2, <1>3, TypeInvariant, LockInvariant, PTL DEF Spec, ImplementsChannel, Channel!Spec
-----------------------------------------------------------------------------
(***************************************************************************)
(* BuffersRecycled.  A viewer has at most one reference to a pooled        *)
(* buffer, so that releasing it makes the viewer a holder no longer.       *)
(***************************************************************************)
HasRef(c, b) ==
  \/ c \in todo /\ cur.buf = b
  \/ \E i \in Unreleased(c) : log[c][i].buf = b

TodoAlone ==
  cur.buf \in PoolBuf =>
    \A c \in todo : \A i \in Unreleased(c) : log[c][i].buf # cur.buf

QueuedOnce ==
  \A c \in Consumer : \A i, j \in Unreleased(c) :
    i # j /\ log[c][i].buf \in PoolBuf => log[c][i].buf # log[c][j].buf

RefOnce == TodoAlone /\ QueuedOnce

\* The instance's view of the pool, and what relates its two variables.
PoFree    == pooled \cap PoolBuf
PoHolders == [b \in PoolBuf |-> Holders(b)]
FreeExact == \A b \in PoolBuf : b \in pooled <=> Holders(b) = {}

LEMMA PoolVars == Pool!Next <=> 
  \E b \in PoolBuf, h \in Consumer \cup {"rtmp"} :
    \/ Pool!Take(b, h)
    \/ \E others \in SUBSET (Consumer \cup {"rtmp"}) : Pool!Share(b, h, others)
    \/ Pool!Drop(b, h)
    \/ Pool!Forget(b, h)
  BY DEF Pool!Next

LEMMA HolderMembers ==
  ASSUME NEW b, NEW h
  PROVE  h \in Holders(b) <=> \/ h = "rtmp" /\ SenderHolds(b)
                              \/ h \in Consumer /\ HasRef(h, b)
                              \/ h = "nobody" /\ lost[b] > 0
  BY DEF Holders, HasRef

LEMMA HolderMembersNext ==
  ASSUME NEW b, NEW h
  PROVE  h \in Holders(b)' <=> \/ h = "rtmp" /\ SenderHolds(b)'
                               \/ h \in Consumer /\ HasRef(h, b)'
                               \/ h = "nobody" /\ lost'[b] > 0
  BY DEF Holders, HasRef

LEMMA HoldersSame ==
  ASSUME NEW b, SenderHolds(b)' <=> SenderHolds(b), lost'[b] = lost[b],
         \A c \in Consumer : HasRef(c, b)' <=> HasRef(c, b)
  PROVE  Holders(b)' = Holders(b)
<1>1. ASSUME NEW h PROVE h \in Holders(b)' <=> h \in Holders(b)
  BY HolderMembers, HolderMembersNext
<1> QED
  BY <1>1

\* Nobody holds what is in the pool.
LEMMA FreeExactHolds == ASSUME HoldInv, RefInv PROVE FreeExact
<1> SUFFICES ASSUME NEW b \in PoolBuf PROVE b \in pooled <=> Holders(b) = {}
  BY DEF FreeExact
<1>1. b \in Buffer /\ b \notin CopyBuf
  BY ConstantsAssumption DEF Buffer
<1>2. /\ b \in pooled <=> refs[b] = 0
      /\ refs[b] = Cardinality(Held(b)) + lost[b] /\ lost[b] \in Nat
      /\ IsFiniteSet(Held(b)) /\ Cardinality(Held(b)) \in Nat
  BY <1>1, CountTypes DEF HoldInv, RefInv, PoolExact
<1>3. Cardinality(Held(b)) = 0 <=> Held(b) = {}
  BY <1>2, FS_EmptySet
<1>4. b \in pooled <=> Held(b) = {} /\ lost[b] = 0
  BY <1>2, <1>3
<1>5. todo \subseteq Consumer
  BY DEF HoldInv, TypeInv, ControlOK
<1>6. Held(b) = {} <=> ~SenderHolds(b) /\ \A c \in Consumer : ~HasRef(c, b)
  <2>1. Sending(b) = {} <=> ~SenderHolds(b)
    BY DEF Sending
  <2>2. Keeping(b) = {}
    BY <1>1 DEF Keeping
  <2>3. Waiting(b) = {} <=> \A c \in Consumer : ~(c \in todo /\ cur.buf = b)
    BY <1>5 DEF Waiting
  <2>4. Queued(b) = {} <=> \A c \in Consumer : \A i \in Unreleased(c) : log[c][i].buf # b
    <3>1. ASSUME NEW c \in Consumer, NEW i \in Unreleased(c), log[c][i].buf = b
          PROVE  Queued(b) # {}
      BY <3>1, QueuedMembers
    <3>2. ASSUME NEW t \in Queued(b)
          PROVE  \E c \in Consumer : \E i \in Unreleased(c) : log[c][i].buf = b
      BY QueuedMembers
    <3> QED
      BY <3>1, <3>2
  <2> QED
    BY <2>1, <2>2, <2>3, <2>4, HeldParts DEF HasRef
<1>7. Holders(b) = {} <=> ~SenderHolds(b) /\ (\A c \in Consumer : ~HasRef(c, b)) /\ ~(lost[b] > 0)
  BY HolderMembers
<1> QED
  BY <1>2, <1>4, <1>6, <1>7

(***************************************************************************)
(* The steps of the pool, by what becomes of the holders of one buffer.    *)
(***************************************************************************)
Only(b) == \A d \in PoolBuf \ {b} : Holders(d)' = Holders(d)

LEMMA PoolStutter ==
  ASSUME FreeExact, FreeExact', \A d \in PoolBuf : Holders(d)' = Holders(d)
  PROVE  UNCHANGED <<PoFree, PoHolders>>
  BY DEF FreeExact, PoFree, PoHolders

LEMMA PoolTake ==
  ASSUME FreeExact, FreeExact', NEW b \in PoolBuf, Only(b),
         b \in pooled, Holders(b)' = {"rtmp"}
  PROVE  Pool!Next
<1>1. Pool!Take(b, "rtmp")
  BY DEF Pool!Take, FreeExact, Only
<1> QED
  BY <1>1, PoolVars

LEMMA PoolShare ==
  ASSUME FreeExact, FreeExact', NEW b \in PoolBuf, Only(b),
         "rtmp" \in Holders(b), NEW others \in SUBSET Consumer,
         Holders(b)' = Holders(b) \cup others
  PROVE  Pool!Next
<1>1. Pool!Share(b, "rtmp", others)
  BY DEF Pool!Share, FreeExact, Only
<1> QED
  BY <1>1, PoolVars

LEMMA PoolDrop ==
  ASSUME FreeExact, FreeExact', NEW b \in PoolBuf, Only(b),
         NEW h \in Consumer \cup {"rtmp"}, h \in Holders(b), Holders(b)' = Holders(b) \ {h}
  PROVE  Pool!Next
<1>1. Pool!Drop(b, h)
  BY DEF Pool!Drop, FreeExact, Only
<1> QED
  BY <1>1, PoolVars

LEMMA PoolForget ==
  ASSUME FreeExact, FreeExact', NEW b \in PoolBuf, Only(b),
         NEW h \in Consumer \cup {"rtmp"}, h \in Holders(b),
         Holders(b)' = (Holders(b) \ {h}) \cup {"nobody"}
  PROVE  Pool!Next
<1>1. Pool!Forget(b, h)
  BY DEF Pool!Forget, FreeExact, Only
<1> QED
  BY <1>1, PoolVars

(***************************************************************************)
(* A message enters a queue.                                               *)
(***************************************************************************)
LEMMA PushIndexes ==
  ASSUME TypeInv, NEW c \in Consumer, NEW m \in Message, Push(c, m), UNCHANGED <<wpc, recv>>
  PROVE  /\ \A d \in Consumer \ {c} : Unreleased(d)' = Unreleased(d) /\ log'[d] = log[d]
         /\ Unreleased(c)' = Unreleased(c) \cup {Len(log[c]) + 1}
         /\ Len(log[c]) + 1 \notin Unreleased(c)
         /\ \A i \in Unreleased(c) : log'[c][i] = log[c][i]
         /\ log'[c][Len(log[c]) + 1] = m
<1>1. /\ log[c] \in Seq(Message) /\ Len(log[c]) \in Nat /\ recv[c] \in Nat
      /\ recv[c] <= Len(log[c]) /\ log \in [Consumer -> Seq(Message)]
  BY DEF TypeInv, QueuesOK
<1>2. /\ log'[c] = Append(log[c], m) /\ Len(log'[c]) = Len(log[c]) + 1
      /\ log'[c][Len(log[c]) + 1] = m
      /\ \A i \in 1..Len(log[c]) : log'[c][i] = log[c][i]
      /\ \A d \in Consumer \ {c} : log'[d] = log[d]
  BY <1>1 DEF Push
<1>3. \A d \in Consumer \ {c} : Unreleased(d)' = Unreleased(d)
  BY <1>2 DEF Unreleased
<1>4. Unreleased(c)' = Unreleased(c) \cup {Len(log[c]) + 1}
  BY <1>1, <1>2 DEF Unreleased
<1>5. Unreleased(c) \subseteq 1..Len(log[c])
  BY UnreleasedIndexes
<1> QED
  BY <1>1, <1>2, <1>3, <1>4, <1>5

\* What of the queues was there before, and what is new, of one kind.
LEMMA QueueGrowth ==
  ASSUME HoldInv, [Next]_vars, NEW d \in Consumer
  PROVE  \/ \A i \in Unreleased(d)' : i \in Unreleased(d) /\ log'[d][i] = log[d][i]
         \/ \E n, m : /\ \/ Enqueue(d) /\ m = cur
                         \/ m.buf \in CopyBuf
                      /\ log'[d][n] = m
                      /\ \A i \in Unreleased(d)' :
                           i = n \/ (i \in Unreleased(d) /\ log'[d][i] = log[d][i])
<1>0. TypeInv /\ StoredInv
  BY DEF HoldInv
<1>1. CASE Enqueue(d)
  <2>1. cur \in Message /\ Push(d, cur) /\ UNCHANGED <<wpc, recv>>
    BY <1>0, <1>1 DEF Enqueue, Visit, TypeInv, CursorOK, InHand
  <2>2. /\ log'[d][Len(log[d]) + 1] = cur
        /\ \A i \in Unreleased(d)' :
             i = Len(log[d]) + 1 \/ (i \in Unreleased(d) /\ log'[d][i] = log[d][i])
    BY <1>0, <2>1, PushIndexes
  <2> QED
    BY <1>1, <2>2
<1>2. CASE SendInitial(d)
  <2>1. init[d] # <<>> /\ init[d] \in Seq(Message)
    BY <1>0, <1>2 DEF SendInitial, TypeInv, QueuesOK
  <2>2. Head(init[d]) \in Message /\ Head(init[d]) = init[d][1] /\ 1 \in DOMAIN init[d]
    BY <2>1
  <2>3. Push(d, Head(init[d])) /\ UNCHANGED <<wpc, recv>>
    BY <1>2 DEF SendInitial
  <2>4. Head(init[d]).buf \in CopyBuf
    BY <1>0, <2>2 DEF StoredInv, Filled
  <2>5. /\ log'[d][Len(log[d]) + 1] = Head(init[d])
        /\ \A i \in Unreleased(d)' :
             i = Len(log[d]) + 1 \/ (i \in Unreleased(d) /\ log'[d][i] = log[d][i])
    BY <1>0, <2>2, <2>3, PushIndexes
  <2> QED
    BY <2>4, <2>5
<1>3. CASE ~Enqueue(d) /\ ~SendInitial(d)
  BY <1>3, QueueSteps
<1> QED
  BY <1>1, <1>2, <1>3

\* What is left to the loop of SendMessage.
LEMMA TodoSteps ==
  ASSUME HoldInv, [Next]_vars
  PROVE  \/ todo' = {}
         \/ cur' = cur /\ todo' \subseteq todo /\ \A c \in Consumer : Enqueue(c) => c \notin todo'
         \/ BeginLoop
<1>0. TypeInv /\ CursorInv
  BY DEF HoldInv
<1>1. CASE spc # "loop" /\ ~BeginLoop
  <2>1. todo = {}
    BY <1>0, <1>1 DEF CursorInv
  <2>2. ASSUME SenderStep \/ EncoderStep PROVE UNCHANGED todo
    BY <1>1, <2>2 DEF SenderStep, EncoderStep, NextFragment, StoreHeader,
     SkipConsumer, Enqueue, Overflow, Visit, EndMapWrite, EndLoop, StopRemoved, FinishSend,
     PubStop, CheckExists, InsertPublisher, OpenFrame, SendMetaData, Fill, ReadFails,
     Unregister
  <2> QED
    BY <2>1, <2>2, NextCases, ViewersApart DEF vars, senderVars
<1>2. CASE spc = "loop"
  <2>1. ASSUME SenderStep
        PROVE  cur' = cur /\ todo' \subseteq todo /\ \A c \in Consumer : Enqueue(c) => c \notin todo'
    BY <1>2, <2>1 DEF SenderStep, NextFragment, StoreHeader, BeginLoop,
     SkipConsumer, Enqueue, Overflow, Visit, EndMapWrite, EndLoop, StopRemoved, FinishSend,
     PubStop
  <2>2. ~EncoderStep
    BY <1>2 DEF EncoderStep, CheckExists, InsertPublisher, OpenFrame, SendMetaData, Fill,
     ReadFails, Unregister
  <2>3. ASSUME UNCHANGED senderVars
        PROVE  cur' = cur /\ todo' \subseteq todo /\ \A c \in Consumer : Enqueue(c) => c \notin todo'
    BY <2>3 DEF senderVars, Enqueue, Visit
  <2> QED
    BY <2>1, <2>2, <2>3, NextCases, ViewersApart DEF vars
<1> QED
  BY <1>1, <1>2

LEMMA RefOnceStep ==
  ASSUME HoldInv, PayloadInv, RefOnce, [Next]_vars PROVE RefOnce'
<1>0. PoolBuf \cap CopyBuf = {} /\ todo \subseteq Consumer
  BY ConstantsAssumption DEF HoldInv, TypeInv, ControlOK
<1>1. TodoAlone'
  <2>1. CASE todo' = {}
    BY <2>1 DEF TodoAlone
  <2>2. ASSUME cur' = cur, todo' \subseteq todo,
               \A c \in Consumer : Enqueue(c) => c \notin todo'
        PROVE  TodoAlone'
    <3> SUFFICES ASSUME cur.buf \in PoolBuf, NEW c \in todo', NEW i \in Unreleased(c)'
                 PROVE  log'[c][i].buf # cur.buf
      BY <2>2 DEF TodoAlone
    <3>1. c \in Consumer /\ c \in todo /\ ~Enqueue(c)
      BY <1>0, <2>2
    <3>2. ASSUME i \in Unreleased(c), log'[c][i] = log[c][i] PROVE log'[c][i].buf # cur.buf
      BY <3>1, <3>2 DEF RefOnce, TodoAlone
    <3>3. ASSUME log'[c][i].buf \in CopyBuf PROVE log'[c][i].buf # cur.buf
      BY <1>0, <3>3
    <3> QED
      BY <3>1, <3>2, <3>3, QueueGrowth
  <2>3. CASE BeginLoop
    <3>1. /\ spc = "lock" /\ cur' = cur /\ UNCHANGED <<wpc, recv, log>>
          /\ todo' = members /\ members \subseteq Consumer
      BY <2>3 DEF BeginLoop, queueVars, HoldInv, TypeInv, ControlOK
    <3>2. \A c \in Consumer : Unreleased(c)' = Unreleased(c)
      BY <3>1, UnreleasedSame
    <3> QED
      BY <3>1, <3>2 DEF TodoAlone, PayloadInv, TakenAlone
  <2> QED
    BY <2>1, <2>2, <2>3, TodoSteps
<1>2. QueuedOnce'
  <2> SUFFICES ASSUME NEW d \in Consumer, NEW i \in Unreleased(d)', NEW j \in Unreleased(d)',
                      i # j, log'[d][i].buf \in PoolBuf
               PROVE  log'[d][i].buf # log'[d][j].buf
    BY DEF QueuedOnce
  <2>1. ASSUME i \in Unreleased(d), log'[d][i] = log[d][i],
               j \in Unreleased(d), log'[d][j] = log[d][j]
        PROVE  log'[d][i].buf # log'[d][j].buf
    BY <2>1 DEF RefOnce, QueuedOnce
  <2>2. ASSUME NEW n, NEW m, (Enqueue(d) /\ m = cur) \/ m.buf \in CopyBuf, log'[d][n] = m,
               \A k \in Unreleased(d)' :
                 k = n \/ (k \in Unreleased(d) /\ log'[d][k] = log[d][k])
        PROVE  log'[d][i].buf # log'[d][j].buf
    <3>1. ASSUME NEW k \in Unreleased(d), log'[d][k] = log[d][k], log'[d][k].buf = m.buf,
                 m.buf \in PoolBuf
          PROVE  FALSE
      <4>1. d \in todo /\ m = cur
        BY <1>0, <2>2, <3>1 DEF Enqueue, Visit
      <4> QED
        BY <3>1, <4>1 DEF RefOnce, TodoAlone
    <3>2. CASE i = n
      BY <2>2, <3>1, <3>2
    <3>3. CASE j = n
      BY <2>2, <3>1, <3>3
    <3> QED
      BY <2>1, <2>2, <3>2, <3>3
  <2> QED
    BY <2>1, <2>2, QueueGrowth
<1> QED
  BY <1>1, <1>2 DEF RefOnce

\* A viewer's references, when the queues stay.
LEMMA RefSame ==
  ASSUME UNCHANGED <<log, todo>>, \A c \in Consumer : Unreleased(c)' = Unreleased(c),
         todo = {} \/ cur' = cur, NEW c \in Consumer, NEW b
  PROVE  HasRef(c, b)' <=> HasRef(c, b)
  BY DEF HasRef

\* A step that moves no reference.
LEMMA PoolQuiet ==
  ASSUME FreeExact, FreeExact', UNCHANGED <<log, lost, todo>>,
         \A c \in Consumer : Unreleased(c)' = Unreleased(c), todo = {} \/ cur' = cur,
         \A b \in PoolBuf : SenderHolds(b)' <=> SenderHolds(b)
  PROVE  UNCHANGED <<PoFree, PoHolders>>
<1>1. ASSUME NEW b \in PoolBuf PROVE Holders(b)' = Holders(b)
  BY HoldersSame, RefSame
<1> QED
  BY <1>1, PoolStutter

\* The RTMP transport takes a buffer ...
LEMMA TakeStep ==
  ASSUME HoldInv, FreeExact, FreeExact', NEW b \in PoolBuf, TakeBuffer(b),
         spc \notin InHand, cur'.buf = b, UNCHANGED <<todo, lost, queueVars>>
  PROVE  Pool!Next
<1>1. todo = {} /\ spc' \in InHand /\ b \in pooled
  BY DEF HoldInv, CursorInv, InHand, TakeBuffer
<1>2. \A c \in Consumer, d \in PoolBuf : HasRef(c, d)' <=> HasRef(c, d)
  BY <1>1, RefSame, UnreleasedSame DEF queueVars
<1>3. \A d \in PoolBuf : ~SenderHolds(d) /\ (SenderHolds(d)' <=> d = b)
  BY <1>1 DEF SenderHolds, InHand
<1>4. Only(b)
  BY <1>2, <1>3, HoldersSame DEF Only
<1>5. Holders(b) = {}
  BY <1>1 DEF FreeExact
<1>6. ASSUME NEW h PROVE h \in Holders(b)' <=> h = "rtmp"
  BY <1>2, <1>3, <1>5, HolderMembers, HolderMembersNext
<1>7. Holders(b)' = {"rtmp"}
  BY <1>6
<1> QED
  BY <1>1, <1>4, <1>7, PoolTake

\* ... and releases it.
LEMMA FinishStep ==
  ASSUME HoldInv, FreeExact, FreeExact', spc \in InHand, spc' \notin InHand, todo = {},
         cur.buf \in PoolBuf, UNCHANGED <<todo, lost, queueVars>>
  PROVE  Pool!Next
<1>1. PICK b \in PoolBuf : b = cur.buf
  OBVIOUS
<1>2. \A c \in Consumer, d \in PoolBuf : HasRef(c, d)' <=> HasRef(c, d)
  BY RefSame, UnreleasedSame DEF queueVars
<1>3. \A d \in PoolBuf : ~SenderHolds(d)' /\ (SenderHolds(d) <=> d = b)
  BY <1>1 DEF SenderHolds, InHand
<1>4. Only(b)
  BY <1>2, <1>3, HoldersSame DEF Only
<1>5. "rtmp" \in Holders(b)
  BY <1>3, HolderMembers
<1>6. ASSUME NEW h PROVE h \in Holders(b)' <=> h \in Holders(b) /\ h # "rtmp"
  BY <1>2, <1>3, HolderMembers, HolderMembersNext, ConstantsAssumption
<1>7. Holders(b)' = Holders(b) \ {"rtmp"}
  BY <1>6
<1> QED
  BY <1>4, <1>5, <1>7, PoolDrop

\* The references of the fan-out.
LEMMA ShareStep ==
  ASSUME HoldInv, FreeExact, FreeExact', BeginLoop
  PROVE  Pool!Next \/ UNCHANGED <<PoFree, PoHolders>>
<1>1. /\ todo = {} /\ todo' = members /\ members \subseteq Consumer
      /\ UNCHANGED <<cur, lost, queueVars>>
      /\ spc \in InHand /\ spc' \in InHand
  BY DEF BeginLoop, HoldInv, TypeInv, ControlOK, CursorInv, InHand
<1>2. \A c \in Consumer : Unreleased(c)' = Unreleased(c)
  BY <1>1, UnreleasedSame DEF queueVars
<1>3. \A c \in Consumer, d \in PoolBuf :
        HasRef(c, d)' <=> HasRef(c, d) \/ (c \in members /\ d = cur.buf)
  BY <1>1, <1>2 DEF HasRef, queueVars
<1>4. \A d \in PoolBuf : SenderHolds(d)' <=> SenderHolds(d)
  BY <1>1 DEF SenderHolds, InHand
<1>5. \A d \in PoolBuf \ {cur.buf} : Holders(d)' = Holders(d)
  BY <1>1, <1>3, <1>4, HoldersSame
<1>6. CASE cur.buf \notin PoolBuf
  BY <1>5, <1>6, PoolStutter
<1>7. CASE cur.buf \in PoolBuf
  <2>1. PICK b \in PoolBuf : b = cur.buf
    BY <1>7
  <2>2. "rtmp" \in Holders(b)
    BY <1>1, <2>1, HolderMembers DEF SenderHolds, InHand
  <2>3. ASSUME NEW h PROVE h \in Holders(b)' <=> h \in Holders(b) \cup members
    BY <1>1, <1>3, <1>4, <2>1, HolderMembers, HolderMembersNext
  <2>4. Holders(b)' = Holders(b) \cup members
    BY <2>3
  <2> QED
    BY <1>1, <1>5, <2>1, <2>2, <2>4, PoolShare DEF Only
<1> QED
  BY <1>6, <1>7

\* The loop comes to a viewer that is not sent the message.
LEMMA SkipStep ==
  ASSUME HoldInv, RefOnce, FreeExact, FreeExact', NEW c \in Consumer,
         SkipConsumer(c) \/ Overflow(c)
  PROVE  Pool!Next \/ UNCHANGED <<PoFree, PoHolders>>
<1>1. /\ c \in todo /\ todo' = todo \ {c}
      /\ UNCHANGED <<cur, spc, queueVars>>
  BY DEF SkipConsumer, Overflow, Visit
<1>2. \A d \in Consumer : Unreleased(d)' = Unreleased(d)
  BY <1>1, UnreleasedSame DEF queueVars
<1>3. \A e \in Consumer, d \in PoolBuf :
        HasRef(e, d)' <=> HasRef(e, d) /\ ~(e = c /\ d = cur.buf)
  <2>1. ASSUME NEW e \in Consumer, NEW d \in PoolBuf, e # c \/ d # cur.buf
        PROVE  HasRef(e, d)' <=> HasRef(e, d)
    BY <1>1, <1>2, <2>1 DEF HasRef, queueVars
  <2>2. ASSUME cur.buf \in PoolBuf PROVE ~HasRef(c, cur.buf)'
    BY <1>1, <1>2, <2>2 DEF HasRef, queueVars, RefOnce, TodoAlone
  <2> QED
    BY <1>1, <2>1, <2>2
<1>4. \A d : SenderHolds(d)' <=> SenderHolds(d)
  BY <1>1 DEF SenderHolds
<1>5. \A d \in PoolBuf \ {cur.buf} : lost'[d] = lost[d]
  BY DEF SkipConsumer, Overflow, HoldInv, TypeInv, BuffersOK, Buffer
<1>6. \A d \in PoolBuf \ {cur.buf} : Holders(d)' = Holders(d)
  BY <1>3, <1>4, <1>5, HoldersSame
<1>7. CASE cur.buf \notin PoolBuf
  BY <1>6, <1>7, PoolStutter
<1>8. CASE cur.buf \in PoolBuf
  <2>1. PICK b \in PoolBuf : b = cur.buf
    BY <1>8
  <2>2. c \in Holders(b)
    BY <1>1, <2>1, HolderMembers DEF HasRef
  <2>3. c # "rtmp" /\ c # "nobody" /\ "nobody" \notin Consumer /\ "rtmp" \notin Consumer
    BY ConstantsAssumption
  <2>4. Only(b)
    BY <1>6, <2>1 DEF Only
  <2>5. CASE SkipConsumer(c)
    <3>1. lost' = lost
      BY <2>5 DEF SkipConsumer
    <3>2. ASSUME NEW h PROVE h \in Holders(b)' <=> h \in Holders(b) \ {c}
      BY <1>3, <1>4, <2>1, <2>3, <3>1, HolderMembers, HolderMembersNext
    <3>3. Holders(b)' = Holders(b) \ {c}
      BY <3>2
    <3> QED
      BY <2>2, <2>4, <3>3, PoolDrop
  <2>6. CASE Overflow(c)
    <3>1. lost'[b] > 0
      BY <2>1, <2>6 DEF Overflow, HoldInv, TypeInv, BuffersOK, Buffer
    <3>2. ASSUME NEW h PROVE h \in Holders(b)' <=> h \in (Holders(b) \ {c}) \cup {"nobody"}
      BY <1>3, <1>4, <2>1, <2>3, <3>1, HolderMembers, HolderMembersNext
    <3>3. Holders(b)' = (Holders(b) \ {c}) \cup {"nobody"}
      BY <3>2
    <3> QED
      BY <2>2, <2>4, <3>3, PoolForget
  <2> QED
    BY <2>5, <2>6
<1> QED
  BY <1>7, <1>8

\* ... or is: the viewer keeps the reference, in its queue.
LEMMA EnqueueStep ==
  ASSUME HoldInv, FreeExact, FreeExact', NEW c \in Consumer, Enqueue(c)
  PROVE  UNCHANGED <<PoFree, PoHolders>>
<1>1. /\ c \in todo /\ todo' = todo \ {c} /\ cur \in Message /\ Push(c, cur)
      /\ UNCHANGED <<cur, spc, lost, wpc, recv>>
  BY DEF Enqueue, Visit, HoldInv, TypeInv, CursorOK, InHand, bufVars
<1>2. /\ \A d \in Consumer \ {c} : Unreleased(d)' = Unreleased(d) /\ log'[d] = log[d]
      /\ Unreleased(c)' = Unreleased(c) \cup {Len(log[c]) + 1}
      /\ \A i \in Unreleased(c) : log'[c][i] = log[c][i]
      /\ log'[c][Len(log[c]) + 1] = cur
  BY <1>1, PushIndexes DEF HoldInv
<1>3. ASSUME NEW e \in Consumer, NEW d \in PoolBuf PROVE HasRef(e, d)' <=> HasRef(e, d)
  <2>1. CASE e # c
    BY <1>1, <1>2, <2>1 DEF HasRef
  <2>2. CASE e = c
    BY <1>1, <1>2, <2>2 DEF HasRef
  <2> QED
    BY <2>1, <2>2
<1>4. \A d : SenderHolds(d)' <=> SenderHolds(d)
  BY <1>1 DEF SenderHolds
<1>5. \A d \in PoolBuf : Holders(d)' = Holders(d)
  BY <1>1, <1>3, <1>4, HoldersSame
<1> QED
  BY <1>5, PoolStutter

\* The initial data lie in copies, which the pool knows nothing of.
LEMMA InitialStep ==
  ASSUME HoldInv, FreeExact, FreeExact', NEW c \in Consumer, SendInitial(c)
  PROVE  UNCHANGED <<PoFree, PoHolders>>
<1>1. init[c] # <<>> /\ init[c] \in Seq(Message)
  BY DEF SendInitial, HoldInv, TypeInv, QueuesOK
<1>2. Head(init[c]) \in Message /\ Head(init[c]).buf \in CopyBuf
  <2>1. 1 \in DOMAIN init[c] /\ Head(init[c]) = init[c][1]
    BY <1>1
  <2> QED
    BY <1>1, <2>1 DEF HoldInv, StoredInv, Filled
<1>3. Push(c, Head(init[c])) /\ UNCHANGED <<cur, spc, todo, lost, wpc, recv>>
  BY DEF SendInitial, senderVars
<1>4. /\ \A d \in Consumer \ {c} : Unreleased(d)' = Unreleased(d) /\ log'[d] = log[d]
      /\ Unreleased(c)' = Unreleased(c) \cup {Len(log[c]) + 1}
      /\ \A i \in Unreleased(c) : log'[c][i] = log[c][i]
      /\ log'[c][Len(log[c]) + 1].buf \notin PoolBuf
  BY <1>2, <1>3, PushIndexes, ConstantsAssumption DEF HoldInv
<1>5. ASSUME NEW e \in Consumer, NEW d \in PoolBuf PROVE HasRef(e, d)' <=> HasRef(e, d)
  <2>1. CASE e # c
    BY <1>3, <1>4, <2>1 DEF HasRef
  <2>2. CASE e = c
    BY <1>3, <1>4, <2>2 DEF HasRef
  <2> QED
    BY <2>1, <2>2
<1>6. \A d : SenderHolds(d)' <=> SenderHolds(d)
  BY <1>3 DEF SenderHolds
<1>7. \A d \in PoolBuf : Holders(d)' = Holders(d)
  BY <1>3, <1>5, <1>6, HoldersSame
<1> QED
  BY <1>7, PoolStutter

\* readMessages releases a message.
LEMMA PopStep ==
  ASSUME HoldInv, RefOnce, FreeExact, FreeExact', NEW c \in Consumer, NEW n \in Unreleased(c),
         UNCHANGED <<log, senderVars, lost>>, Unreleased(c)' = Unreleased(c) \ {n},
         \A d \in Consumer \ {c} : Unreleased(d)' = Unreleased(d)
  PROVE  Pool!Next \/ UNCHANGED <<PoFree, PoHolders>>
<1>1. UNCHANGED <<cur, spc, todo>>
  BY DEF senderVars
<1>2. \A e \in Consumer, d \in PoolBuf :
        HasRef(e, d)' <=> HasRef(e, d) /\ ~(e = c /\ d = log[c][n].buf)
  <2>1. ASSUME NEW e \in Consumer, NEW d \in PoolBuf, e # c \/ d # log[c][n].buf
        PROVE  HasRef(e, d)' <=> HasRef(e, d)
    <3>1. CASE e # c
      BY <1>1, <3>1 DEF HasRef
    <3>2. CASE e = c
      BY <1>1, <2>1, <3>2 DEF HasRef
    <3> QED
      BY <3>1, <3>2
  <2>2. ASSUME log[c][n].buf \in PoolBuf PROVE ~HasRef(c, log[c][n].buf)'
    BY <1>1, <2>2 DEF HasRef, RefOnce, TodoAlone, QueuedOnce
  <2> QED
    BY <2>1, <2>2
<1>3. \A d : SenderHolds(d)' <=> SenderHolds(d)
  BY <1>1 DEF SenderHolds
<1>4. \A d \in PoolBuf \ {log[c][n].buf} : Holders(d)' = Holders(d)
  BY <1>2, <1>3, HoldersSame
<1>5. CASE log[c][n].buf \notin PoolBuf
  BY <1>4, <1>5, PoolStutter
<1>6. CASE log[c][n].buf \in PoolBuf
  <2>1. PICK b \in PoolBuf : b = log[c][n].buf
    BY <1>6
  <2>2. c \in Holders(b)
    BY <2>1, HolderMembers DEF HasRef
  <2>3. ASSUME NEW h PROVE h \in Holders(b)' <=> h \in Holders(b) \ {c}
    BY <1>2, <1>3, <2>1, HolderMembers, HolderMembersNext, ConstantsAssumption
  <2>4. Holders(b)' = Holders(b) \ {c}
    BY <2>3
  <2> QED
    BY <1>4, <2>1, <2>2, <2>4, PoolDrop DEF Only
<1> QED
  BY <1>5, <1>6

LEMMA SenderPool ==
  ASSUME HoldInv, RefOnce, FreeExact, FreeExact', SenderStep \/ EncoderStep
  PROVE  Pool!Next \/ UNCHANGED <<PoFree, PoHolders>>
<1>0. TypeInv /\ CursorInv /\ PoolBuf \cap CopyBuf = {}
  BY ConstantsAssumption DEF HoldInv
<1>1. ASSUME UNCHANGED <<cur, todo, lost, queueVars>>, spc' \in InHand <=> spc \in InHand
      PROVE  UNCHANGED <<PoFree, PoHolders>>
  <2>1. \A b \in PoolBuf : SenderHolds(b)' <=> SenderHolds(b)
    BY <1>1 DEF SenderHolds, InHand
  <2> QED
    BY <1>1, <2>1, PoolQuiet, UnreleasedSame DEF queueVars
<1>2. ASSUME NEW b \in PoolBuf, NextFragment(b) PROVE Pool!Next
  <2>1. /\ spc = "next" /\ cur \in Fragment /\ TakeBuffer(b)
        /\ cur' = [cur EXCEPT !.cont = TRUE, !.no = sent + 1, !.buf = b]
        /\ UNCHANGED <<todo, lost, queueVars>>
    BY <1>0, <1>2 DEF NextFragment, TypeInv, CursorOK
  <2>2. cur'.buf = b
    BY <2>1 DEF Fragment
  <2> QED
    BY <2>1, <2>2, TakeStep DEF InHand
<1>3. ASSUME NEW k, NEW n, NEW b \in PoolBuf, OpenFrame(k, n, b) PROVE Pool!Next
  <2>1. /\ spc = "idle" /\ TakeBuffer(b) /\ cur'.buf = b
        /\ UNCHANGED <<todo, lost, queueVars>>
    BY <1>3 DEF OpenFrame
  <2> QED
    BY <2>1, TakeStep DEF InHand
<1>4. ASSUME NEW b \in CopyBuf, StoreHeader(b) PROVE UNCHANGED <<PoFree, PoHolders>>
  BY <1>1, <1>4 DEF StoreHeader, InHand
<1>5. ASSUME NEW b \in CopyBuf, SendMetaData(b) PROVE UNCHANGED <<PoFree, PoHolders>>
  <2>1. /\ spc = "idle" /\ cur'.buf \in CopyBuf /\ UNCHANGED <<todo, lost, queueVars>>
    BY <1>5 DEF SendMetaData
  <2>2. todo = {}
    BY <1>0, <2>1 DEF CursorInv
  <2>3. \A d \in PoolBuf : SenderHolds(d)' <=> SenderHolds(d)
    BY <1>0, <2>1 DEF SenderHolds
  <2> QED
    BY <2>1, <2>2, <2>3, PoolQuiet, UnreleasedSame DEF queueVars
<1>6. CASE BeginLoop
  BY <1>6, ShareStep
<1>7. ASSUME NEW c \in Consumer, SkipConsumer(c) \/ Enqueue(c) \/ Overflow(c)
      PROVE  Pool!Next \/ UNCHANGED <<PoFree, PoHolders>>
  BY <1>7, SkipStep, EnqueueStep
<1>8. CASE EndMapWrite \/ EndLoop \/ StopRemoved
  <2>1. UNCHANGED <<cur, todo, lost, wpc, recv, log>> /\ (spc' \in InHand <=> spc \in InHand)
    BY <1>8 DEF EndMapWrite, EndLoop, StopRemoved, InHand, bufVars, queueVars
  <2>2. \A b \in PoolBuf : SenderHolds(b)' <=> SenderHolds(b)
    BY <2>1 DEF SenderHolds, InHand
  <2> QED
    BY <2>1, <2>2, PoolQuiet, UnreleasedSame
<1>9. CASE PubStop
  <2>1. UNCHANGED <<cur, todo, lost, wpc, recv, log>> /\ spc \notin InHand /\ spc' \notin InHand
    BY <1>9 DEF PubStop, InHand, bufVars
  <2>2. \A b \in PoolBuf : SenderHolds(b)' <=> SenderHolds(b)
    BY <2>1 DEF SenderHolds, InHand
  <2> QED
    BY <2>1, <2>2, PoolQuiet, UnreleasedSame
<1>10. CASE FinishSend
  <2>1. /\ spc = "sent" /\ spc' \notin InHand
        /\ UNCHANGED <<todo, lost, queueVars>> /\ todo = {}
    BY <1>0, <1>10 DEF FinishSend, InHand, CursorInv
  <2>2. CASE cur.buf \in PoolBuf
    BY <2>1, <2>2, FinishStep DEF InHand
  <2>3. CASE cur.buf \notin PoolBuf
    <3>1. \A b \in PoolBuf : SenderHolds(b)' <=> SenderHolds(b)
      BY <2>1, <2>3 DEF SenderHolds, InHand
    <3> QED
      BY <2>1, <3>1, PoolQuiet, UnreleasedSame DEF queueVars
  <2> QED
    BY <2>2, <2>3
<1>11. CASE ReadFails
  <2>1. /\ spc = "fill" /\ spc' \notin InHand
        /\ UNCHANGED <<todo, lost, queueVars>> /\ todo = {}
    BY <1>0, <1>11 DEF ReadFails, InHand, CursorInv
  <2>2. cur.buf \in PoolBuf
    BY <1>0, <2>1, MessageBuffer DEF CursorInv, TypeInv, CursorOK, InHand, Buffer
  <2> QED
    BY <2>1, <2>2, FinishStep DEF InHand
<1>12. CASE CheckExists \/ InsertPublisher \/ Fill \/ Unregister
  <2>1. UNCHANGED <<cur, todo, lost, queueVars>> /\ (spc' \in InHand <=> spc \in InHand)
    BY <1>12 DEF CheckExists, InsertPublisher, Fill, Unregister, InHand, bufVars
  <2> QED
    BY <1>1, <2>1
<1> QED
  BY <1>2, <1>3, <1>4, <1>5, <1>6, <1>7, <1>8, <1>9, <1>10, <1>11, <1>12
     DEF SenderStep, EncoderStep

LEMMA ViewerPool ==
  ASSUME HoldInv, RefOnce, FreeExact, FreeExact', NEW c \in Consumer, ViewerStep(c)
  PROVE  Pool!Next \/ UNCHANGED <<PoFree, PoHolders>>
<1>0. TypeInv /\ UNCHANGED senderVars
  BY ViewersApart DEF HoldInv
<1>1. ASSUME UNCHANGED <<log, lost>>, \A d \in Consumer : Unreleased(d)' = Unreleased(d)
      PROVE  UNCHANGED <<PoFree, PoHolders>>
  <2>1. \A b \in PoolBuf : SenderHolds(b)' <=> SenderHolds(b)
    BY <1>0 DEF SenderHolds, senderVars
  <2> QED
    BY <1>0, <1>1, <2>1, PoolQuiet DEF senderVars
<1>2. CASE \/ PeerLost(c) \/ Lookup(c) \/ HasConsumer(c) \/ Snapshot(c) \/ InitialOverflow(c)
           \/ Refuse(c) \/ Insert(c) \/ LeaveLookup(c) \/ RemoveConsumer(c)
  <2>1. UNCHANGED <<lost, wpc, recv, log>>
    BY <1>2 DEF PeerLost, Lookup, HasConsumer, Snapshot, InitialOverflow, Refuse, Insert,
       LeaveLookup, RemoveConsumer, bufVars, queueVars
  <2> QED
    BY <1>1, <2>1, UnreleasedSame
<1>3. CASE Connect(c)
  <2>1. /\ wpc[c] = "off" /\ wpc' = [wpc EXCEPT ![c] = "recv"] /\ UNCHANGED <<lost, recv, log>>
    BY <1>3 DEF Connect, HoldInv, WriterOff, bufVars
  <2>2. \A d \in Consumer : Unreleased(d)' = Unreleased(d)
    BY <1>0, <2>1 DEF Unreleased, TypeInv, ControlOK
  <2> QED
    BY <1>1, <2>1, <2>2
<1>4. CASE Receive(c)
  <2>1. /\ wpc[c] = "recv" /\ wpc' = [wpc EXCEPT ![c] = "write"]
        /\ recv' = [recv EXCEPT ![c] = @ + 1] /\ UNCHANGED <<lost, log>>
    BY <1>4 DEF Receive, bufVars
  <2>2. \A d \in Consumer : Unreleased(d)' = Unreleased(d)
    BY <1>0, <2>1 DEF Unreleased, TypeInv, ControlOK, QueuesOK
  <2> QED
    BY <1>1, <2>1, <2>2
<1>5. CASE WriterEnds(c)
  <2>1. /\ wpc[c] # "write" /\ wpc' = [wpc EXCEPT ![c] = "ended"] /\ UNCHANGED <<lost, recv, log>>
    BY <1>5 DEF WriterEnds, bufVars
  <2>2. \A d \in Consumer : Unreleased(d)' = Unreleased(d)
    BY <1>0, <2>1 DEF Unreleased, TypeInv, ControlOK
  <2> QED
    BY <1>1, <2>1, <2>2
<1>6. CASE Written(c) \/ WriteFails(c)
  <2>1. /\ wpc[c] = "write" /\ UNCHANGED <<recv, log, lost>>
        /\ wpc' = [wpc EXCEPT ![c] = "recv"] \/ wpc' = [wpc EXCEPT ![c] = "drain"]
    BY <1>6 DEF Written, WriteFails
  <2>2. \A d \in Consumer \ {c} : Unreleased(d)' = Unreleased(d)
    BY <1>0, <2>1 DEF Unreleased, TypeInv, ControlOK
  <2>3. wpc'[c] # "write"
    BY <1>0, <2>1 DEF TypeInv, ControlOK
  <2>4. recv[c] \in Nat /\ Len(log[c]) \in Nat
    BY <1>0 DEF TypeInv, QueuesOK
  <2>5. Unreleased(c)' = Unreleased(c) \ {recv[c]}
    BY <2>1, <2>3, <2>4 DEF Unreleased
  <2>6. recv[c] \in Unreleased(c)
    BY <1>0, <2>1, UnreleasedIndexes
  <2> QED
    BY <1>0, <2>1, <2>2, <2>5, <2>6, PopStep
<1>7. CASE Drain(c)
  <2>1. /\ wpc[c] = "drain" /\ InQueue(c) > 0
        /\ recv' = [recv EXCEPT ![c] = @ + 1] /\ UNCHANGED <<wpc, log, lost>>
    BY <1>7 DEF Drain
  <2>2. \A d \in Consumer \ {c} : Unreleased(d)' = Unreleased(d)
    BY <1>0, <2>1 DEF Unreleased, TypeInv, QueuesOK
  <2>3. recv[c] \in Nat /\ Len(log[c]) \in Nat /\ recv'[c] = recv[c] + 1
    BY <1>0, <2>1 DEF TypeInv, QueuesOK
  <2>4. Unreleased(c)' = Unreleased(c) \ {recv[c] + 1}
    BY <2>1, <2>3 DEF Unreleased
  <2>5. recv[c] + 1 \in Unreleased(c)
    BY <1>0, <2>1, UnreleasedIndexes
  <2> QED
    BY <1>0, <2>1, <2>2, <2>4, <2>5, PopStep
<1>8. CASE SendInitial(c)
  BY <1>8, InitialStep
<1> QED
  BY <1>2, <1>3, <1>4, <1>5, <1>6, <1>7, <1>8
     DEF ViewerStep, HandlerStep, WriteStep, WriterStep

LEMMA PoolStep ==
  ASSUME HoldInv, RefOnce, FreeExact, FreeExact', [Next]_vars
  PROVE  [Pool!Next]_<<PoFree, PoHolders>>
<1>1. CASE UNCHANGED vars
  <2>1. UNCHANGED <<cur, spc, todo, lost, wpc, recv, log>>
    BY <1>1 DEF vars, senderVars, bufVars, queueVars
  <2>2. \A b \in PoolBuf : SenderHolds(b)' <=> SenderHolds(b)
    BY <2>1 DEF SenderHolds
  <2> QED
    BY <2>1, <2>2, PoolQuiet, UnreleasedSame
<1> QED
  BY <1>1, NextCases, SenderPool, ViewerPool

\* The reference counts implement the pool BufferPool promises: a buffer is taken
\* when nobody has it, each holder gives up its own reference once, and only the
\* last one to do so puts the buffer back; what an overflowed queue forgot never
\* comes back.
THEOREM BuffersTheorem == Spec => BuffersRecycled
<1>1. Init => Pool!Init /\ RefOnce
  <2> SUFFICES ASSUME Init PROVE Pool!Init /\ RefOnce
    OBVIOUS
  <2>1. \A c \in Consumer : Unreleased(c) = {}
    BY DEF Init, Unreleased
  <2>2. ASSUME NEW b \in PoolBuf PROVE Holders(b) = {}
    <3>1. ASSUME NEW h PROVE h \notin Holders(b)
      BY <2>1, HolderMembers DEF Init, SenderHolds, HasRef, Buffer
    <3> QED
      BY <3>1
  <2>3. Pool!Init
    BY <2>2 DEF Init, Pool!Init
  <2>4. RefOnce
    BY <2>1 DEF Init, RefOnce, TodoAlone, QueuedOnce
  <2> QED
    BY <2>3, <2>4
<1>2. HoldInv /\ PayloadInv /\ RefOnce /\ [Next]_vars => RefOnce'
  BY RefOnceStep
<1>3. HoldInv /\ RefInv => FreeExact
  BY FreeExactHolds
<1>4. HoldInv /\ RefOnce /\ FreeExact /\ FreeExact' /\ [Next]_vars
        => [Pool!Next]_<<pooled \cap PoolBuf, [b \in PoolBuf |-> Holders(b)]>>
  BY PoolStep DEF PoFree, PoHolders
<1> QED
  BY <1>1, <1>2, <1>3, <1>4, PayloadInvariant, PTL DEF Spec, BuffersRecycled, Pool!Spec
=============================================================================
