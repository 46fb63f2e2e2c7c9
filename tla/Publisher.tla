----------------------------- MODULE Publisher -----------------------------
(***************************************************************************)
(* One publisher session of the media channel and the viewers that watch   *)
(* it: the RTMP goroutine that reads frames into pooled SharedBuffers and  *)
(* fans each of them out (transport/rtmp, transport/media_channel), and    *)
(* for every viewer the two goroutines of a wsConsumer                     *)
(* (transport/ws_media): the HTTP handler, which joins and leaves the      *)
(* publisher, and readMessages, which writes the queued messages to the    *)
(* connection and releases their buffers.                                  *)
(*                                                                         *)
(* Steps are cut where the code takes or drops pub.mu, touches a channel   *)
(* or changes a reference count.  A section under pub.mu.Lock is one step, *)
(* guarded by the absence of a reader that holds the lock over several     *)
(* steps: only the loop of SendMessage does (spc = "loop").                *)
(*                                                                         *)
(* A channel is an append-only log with a read index, so that properties   *)
(* can speak of everything a viewer was ever sent.                         *)
(***************************************************************************)
EXTENDS Integers, Sequences, FiniteSets

CONSTANTS
  Consumer,   \* viewer connections; the uuid of each makes it unique
  PoolBuf,    \* the buffers videoPool and audioPool can hand out
  CopyBuf,    \* the exact-size buffers made by CopySlice and SendMetaData
  NoBuf,      \* the nil *SharedBuffer
  Frames,     \* the kinds of messages the encoder sends in this instance
  QueueCap,   \* capacity of wsConsumer.messages (128 in the code)
  MaxFrags,   \* bound: buffers one frame is cut into
  MaxSends    \* bound: calls of SendMessage in a behaviour

VideoKind  == {"key", "inter"}
HeaderKind == {"vhdr", "ahdr"}
DataKind   == VideoKind \cup {"audio"}
StoredKind == HeaderKind \cup {"meta"}
MsgKind    == DataKind \cup StoredKind
Buffer     == PoolBuf \cup CopyBuf

ASSUME ConstantsAssumption ==
  /\ IsFiniteSet(Consumer)
  /\ \A role \in {"rtmp", "pub", "nobody"} : role \notin Consumer
  /\ PoolBuf \cap CopyBuf = {} /\ NoBuf \notin Buffer
  /\ Frames \subseteq MsgKind
  /\ QueueCap \in Nat \ {0} /\ MaxFrags \in Nat \ {0} /\ MaxSends \in Nat

(***************************************************************************)
(* A media.Message: "kind" is Type together with FlagKeyFrame, "cont" is   *)
(* FlagContinuation, "no" identifies the payload and "buf" is Data.        *)
(***************************************************************************)
Message == [kind : MsgKind, cont : BOOLEAN, no : Nat, buf : Buffer]
NoMsg   == [kind |-> "none", cont |-> FALSE, no |-> 0, buf |-> NoBuf]

VARIABLES
  registered, \* the channel's publishers map holds this publisher
  members,    \* DOMAIN pub.consumers
  keyed,      \* members whose sentVideoKeyFrame is set
  hdr,        \* pub.videoSeqHdr, pub.audioSeqHdr and pub.meta
  spc,        \* control state of the RTMP goroutine
  cur,        \* the message SendMessage is working on
  left,       \* fragments of the current frame still to be read
  sent,       \* number of payloads read so far
  todo,       \* consumers the loop of SendMessage has not visited
  removed,    \* its local "removed"
  writing,    \* the runtime's "map is being written" flag of pub.consumers
  refs,       \* SharedBuffer.refs
  pooled,     \* buffers in their sync.Pool
  content,    \* payload a buffer holds
  lost,       \* history: references dropped without Release, per buffer
  vpc,        \* control state of each HTTP handler (wsConsumer.run)
  init,       \* messages sendInitialData has still to send
  conn,       \* the TCP connection: open, lost by the peer, closed by us
  wpc,        \* control state of each readMessages goroutine
  recv,       \* messages received from the channel so far
  log,        \* messages ever sent on the channel
  stopped,    \* consumers whose channel Stop has closed
  fatal       \* "none", or what brought the whole process down

pubVars    == <<registered, members, keyed, hdr>>
senderVars == <<spc, cur, left, sent, todo, removed, writing>>
bufVars    == <<refs, pooled, content, lost>>
viewerVars == <<vpc, init, conn>>
queueVars  == <<wpc, recv, log, stopped>>
vars == <<pubVars, senderVars, bufVars, viewerVars, queueVars, fatal>>

Init ==
  /\ registered = FALSE /\ members = {} /\ keyed = {}
  /\ hdr = [k \in StoredKind |-> NoBuf]
  /\ spc = "start" /\ cur = NoMsg /\ left = 0 /\ sent = 0
  /\ todo = {} /\ removed = {} /\ writing = FALSE
  /\ refs = [b \in Buffer |-> 0] /\ pooled = PoolBuf
  /\ content = [b \in Buffer |-> 0] /\ lost = [b \in Buffer |-> 0]
  /\ vpc = [c \in Consumer |-> "idle"]
  /\ init = [c \in Consumer |-> <<>>]
  /\ conn = [c \in Consumer |-> "open"]
  /\ wpc = [c \in Consumer |-> "off"]
  /\ recv = [c \in Consumer |-> 0]
  /\ log = [c \in Consumer |-> <<>>]
  /\ stopped = {}
  /\ fatal = "none"
-----------------------------------------------------------------------------
(***************************************************************************)
(* SharedBuffer.                                                           *)
(***************************************************************************)
Acquire(b, n) == refs' = [refs EXCEPT ![b] = @ + n]

\* The last reference resets the buffer and puts it back in its pool; one
\* more than that panics.
ReleaseEarly(b) ==
  /\ refs' = [refs EXCEPT ![b] = @ - 1]
  /\ pooled' = IF refs[b] \in {1, 2} THEN pooled \cup {b} ELSE pooled
  /\ fatal' = IF refs[b] < 1 THEN "released more times than acquired" ELSE fatal

Release(b) ==
  /\ refs' = [refs EXCEPT ![b] = @ - 1]
  /\ pooled' = IF refs[b] = 1 THEN pooled \cup {b} ELSE pooled
  /\ fatal' = IF refs[b] < 1 THEN "released more times than acquired" ELSE fatal

\* CopySlice and NewSharedBuffer allocate: a member of CopyBuf stands for one
\* allocation (content 0 before it), so CopyBuf bounds how many are made.
FreshCopy(b) == b \in CopyBuf /\ content[b] = 0

Unlocked == spc # "loop"   \* nobody holds pub.mu.RLock across steps
InQueue(c) == Len(log[c]) - recv[c]
Push(c, m) == log' = [log EXCEPT ![c] = Append(@, m)]
-----------------------------------------------------------------------------
(***************************************************************************)
(* The RTMP goroutine: onConn, and SendMessage which it calls.             *)
(***************************************************************************)

\* AddPublisher finds no publisher with this ID ...
CheckExists ==
  /\ spc = "start" /\ spc' = "insert"
  /\ UNCHANGED <<pubVars, cur, left, sent, todo, removed, writing,
                 bufVars, viewerVars, queueVars, fatal>>

\* ... and registers it: the session starts.
InsertPublisher ==
  /\ spc = "insert"
  /\ registered' = TRUE /\ spc' = "idle"
  /\ UNCHANGED <<members, keyed, hdr, cur, left, sent, todo, removed, writing,
                 bufVars, viewerVars, queueVars, fatal>>

\* AcquireVideoBuffer or AcquireAudioBuffer, at the first fragment of a frame
\* (kind and number of fragments are the encoder's choice) ...
TakeBuffer(b) ==
  /\ b \in pooled
  /\ pooled' = pooled \ {b} /\ Acquire(b, 1)
  /\ sent' = sent + 1 /\ spc' = "fill"

OpenFrame(kind, n, b) ==
  /\ spc = "idle" /\ sent + n <= MaxSends
  /\ kind \in HeaderKind => n = 1 /\ \E h \in CopyBuf : FreshCopy(h)   \* bound
  /\ TakeBuffer(b)
  /\ cur' = [kind |-> kind, cont |-> FALSE, no |-> sent + 1, buf |-> b]
  /\ left' = n - 1
  /\ UNCHANGED <<pubVars, todo, removed, writing, content, lost,
                 viewerVars, queueVars, fatal>>

\* ... and at each later one, flagged as a continuation.
NextFragmentUnflagged(b) ==
  /\ spc = "next"
  /\ TakeBuffer(b)
  /\ cur' = [cur EXCEPT !.no = sent + 1, !.buf = b]
  /\ left' = left - 1
  /\ UNCHANGED <<pubVars, todo, removed, writing, content, lost,
                 viewerVars, queueVars, fatal>>

NextFragment(b) ==
  /\ spc = "next"
  /\ TakeBuffer(b)
  /\ cur' = [cur EXCEPT !.cont = TRUE, !.no = sent + 1, !.buf = b]
  /\ left' = left - 1
  /\ UNCHANGED <<pubVars, todo, removed, writing, content, lost,
                 viewerVars, queueVars, fatal>>

\* ReadN fills the buffer from the RTMP connection.
Fill ==
  /\ spc = "fill"
  /\ content' = [content EXCEPT ![cur.buf] = cur.no]
  /\ spc' = IF cur.kind \in HeaderKind THEN "store" ELSE "lock"
  /\ UNCHANGED <<pubVars, cur, left, sent, todo, removed, writing,
                 refs, pooled, lost, viewerVars, queueVars, fatal>>

\* ReadN fails: the buffer is released and onConn returns.
ReadFails ==
  /\ spc = "fill"
  /\ Release(cur.buf)
  /\ cur' = NoMsg /\ left' = 0 /\ spc' = "leave"
  /\ UNCHANGED <<pubVars, sent, todo, removed, writing, content, lost,
                 viewerVars, queueVars>>

\* SendMessage keeps a private copy of a sequence header for later viewers.
StoreHeaderShared(b) ==
  /\ spc = "store" /\ FreshCopy(b)
  /\ Acquire(cur.buf, 1)
  /\ hdr' = [hdr EXCEPT ![cur.kind] = cur.buf]
  /\ spc' = "lock"
  /\ UNCHANGED <<registered, members, keyed, cur, left, sent, todo, removed,
                 writing, pooled, content, lost, viewerVars, queueVars, fatal>>

StoreHeaderUnheld(b) ==
  /\ spc = "store" /\ FreshCopy(b)
  /\ content' = [content EXCEPT ![b] = content[cur.buf]]
  /\ hdr' = [hdr EXCEPT ![cur.kind] = b]
  /\ spc' = "lock"
  /\ UNCHANGED <<registered, members, keyed, cur, left, sent, todo, removed,
                 writing, refs, pooled, lost, viewerVars, queueVars, fatal>>

StoreHeader(b) ==
  /\ spc = "store" /\ FreshCopy(b)
  /\ Acquire(b, 1)
  /\ content' = [content EXCEPT ![b] = content[cur.buf]]
  /\ hdr' = [hdr EXCEPT ![cur.kind] = b]
  /\ spc' = "lock"
  /\ UNCHANGED <<registered, members, keyed, cur, left, sent, todo, removed,
                 writing, pooled, lost, viewerVars, queueVars, fatal>>

\* SendMetaData sends the very buffer it keeps.
SendMetaData(b) ==
  /\ spc = "idle" /\ sent < MaxSends /\ FreshCopy(b)
  /\ Acquire(b, 1)
  /\ content' = [content EXCEPT ![b] = sent + 1]
  /\ hdr' = [hdr EXCEPT !["meta"] = b]
  /\ cur' = [kind |-> "meta", cont |-> FALSE, no |-> sent + 1, buf |-> b]
  /\ sent' = sent + 1 /\ spc' = "lock"
  /\ UNCHANGED <<registered, members, keyed, left, todo, removed, writing,
                 pooled, lost, viewerVars, queueVars, fatal>>

\* Under RLock, all the references of the fan-out are taken at once.
BeginLoopUnheld ==
  /\ spc = "lock"
  /\ todo' = members /\ removed' = {} /\ spc' = "loop"
  /\ UNCHANGED <<pubVars, cur, left, sent, writing, bufVars,
                 viewerVars, queueVars, fatal>>

BeginLoop ==
  /\ spc = "lock"
  /\ Acquire(cur.buf, Cardinality(members))
  /\ todo' = members /\ removed' = {} /\ spc' = "loop"
  /\ UNCHANGED <<pubVars, cur, left, sent, writing, pooled, content, lost,
                 viewerVars, queueVars, fatal>>

\* Video is withheld from a viewer until the first buffer of a key frame.
SkipsNonKeyOnly(c) == cur.kind = "inter" /\ c \notin keyed

Skips(c) ==
  /\ cur.kind \in VideoKind /\ c \notin keyed
  /\ cur.kind # "key" \/ cur.cont

Visit(c) ==
  /\ spc = "loop" /\ ~writing /\ c \in todo
  /\ todo' = todo \ {c}

SkipConsumerUnreleased(c) ==
  /\ Visit(c) /\ Skips(c)
  /\ UNCHANGED <<pubVars, spc, cur, left, sent, removed, writing, bufVars,
                 viewerVars, queueVars, fatal>>

SkipConsumer(c) ==
  /\ Visit(c) /\ Skips(c)
  /\ Release(cur.buf)
  /\ UNCHANGED <<pubVars, spc, cur, left, sent, removed, writing, content,
                 lost, viewerVars, queueVars>>

\* sendMessage succeeds.  Sending on a closed channel panics even in a
\* select with a default case.  The write of sentVideoKeyFrame back to the
\* map happens under the read lock and is not atomic (EndMapWrite).
Enqueue(c) ==
  LET first == cur.kind = "key" /\ c \notin keyed IN
  /\ Visit(c) /\ ~Skips(c)
  /\ InQueue(c) < QueueCap \/ c \in stopped
  /\ Push(c, cur)
  /\ fatal' = IF c \in stopped THEN "send on closed channel" ELSE fatal
  /\ keyed' = IF first THEN keyed \cup {c} ELSE keyed
  /\ writing' = first
  /\ UNCHANGED <<registered, members, hdr, spc, cur, left, sent, removed,
                 bufVars, viewerVars, wpc, recv, stopped>>

EndMapWrite ==
  /\ writing /\ writing' = FALSE
  /\ UNCHANGED <<pubVars, spc, cur, left, sent, todo, removed, bufVars,
                 viewerVars, queueVars, fatal>>

\* The queue is full: the consumer is noted for removal; the reference taken
\* for it is not released.
OverflowDrops(c) ==
  /\ Visit(c) /\ ~Skips(c) /\ c \notin stopped /\ InQueue(c) >= QueueCap
  /\ lost' = [lost EXCEPT ![cur.buf] = @ + 1]
  /\ UNCHANGED <<pubVars, spc, cur, left, sent, removed, writing, refs, pooled,
                 content, viewerVars, queueVars, fatal>>

OverflowBlocks(c) == FALSE /\ c \in Consumer /\ UNCHANGED vars

Overflow(c) ==
  /\ Visit(c) /\ ~Skips(c) /\ c \notin stopped /\ InQueue(c) >= QueueCap
  /\ removed' = removed \cup {c}
  /\ lost' = [lost EXCEPT ![cur.buf] = @ + 1]
  /\ UNCHANGED <<pubVars, spc, cur, left, sent, writing, refs, pooled, content,
                 viewerVars, queueVars, fatal>>

EndLoop ==
  /\ spc = "loop" /\ todo = {} /\ ~writing
  /\ spc' = IF removed = {} THEN "sent" ELSE "stop"
  /\ UNCHANGED <<pubVars, cur, left, sent, todo, removed, writing, bufVars,
                 viewerVars, queueVars, fatal>>

\* stopConsumer, under the write lock: out of the map, channel closed.
StopKeepsMember(S) ==
  /\ stopped' = stopped \cup S
  /\ UNCHANGED <<members, keyed>>

StopOnlyForgets(S) ==
  /\ members' = members \ S /\ keyed' = keyed \ S
  /\ UNCHANGED stopped

StopConsumers(S) ==
  /\ members' = members \ S /\ keyed' = keyed \ S
  /\ stopped' = stopped \cup S

StopRemoved ==
  /\ spc = "stop"
  /\ StopConsumers(removed)
  /\ removed' = {} /\ spc' = "sent"
  /\ UNCHANGED <<registered, hdr, cur, left, sent, todo, writing, bufVars,
                 viewerVars, wpc, recv, log, fatal>>

\* Back in the RTMP transport, which releases the buffer it acquired; the
\* metadata buffer stays with the publisher.
FinishSend ==
  /\ spc = "sent"
  /\ IF cur.kind = "meta" THEN UNCHANGED <<refs, pooled, fatal>>
                          ELSE Release(cur.buf)
  /\ spc' = IF left > 0 THEN "next" ELSE "idle"
  /\ cur' = IF left > 0 THEN [cur EXCEPT !.buf = NoBuf] ELSE NoMsg
  /\ UNCHANGED <<pubVars, left, sent, todo, removed, writing, content, lost,
                 viewerVars, queueVars>>

\* The stream ends: RemovePublisher deletes the entry of the channel ...
Unregister ==
  /\ spc \in {"idle", "leave"}
  /\ registered' = FALSE /\ spc' = "unregistered"
  /\ UNCHANGED <<members, keyed, hdr, cur, left, sent, todo, removed, writing,
                 bufVars, viewerVars, queueVars, fatal>>

\* ... and then pub.Stop stops every consumer it finds, leaving the map.
PubStopSilent ==
  /\ spc = "unregistered" /\ spc' = "ended"
  /\ UNCHANGED <<pubVars, cur, left, sent, todo, removed, writing, bufVars,
                 viewerVars, queueVars, fatal>>

PubStop ==
  /\ spc = "unregistered"
  /\ stopped' = stopped \cup members /\ spc' = "ended"
  /\ UNCHANGED <<pubVars, cur, left, sent, todo, removed, writing, bufVars,
                 viewerVars, wpc, recv, log, fatal>>
-----------------------------------------------------------------------------
(***************************************************************************)
(* The HTTP handler of a viewer: ServeHTTP, wsConsumer.run and, inside it, *)
(* AddConsumer and RemoveConsumer of the channel and of the publisher.     *)
(***************************************************************************)

\* ServeHTTP returns: its deferred conn.Close closes the connection.
Return(c) ==
  /\ vpc' = [vpc EXCEPT ![c] = "done"]
  /\ conn' = [conn EXCEPT ![c] = "closed"]

\* A viewer connects: readMessages starts before the handler goes on.
Connect(c) ==
  /\ vpc[c] = "idle"
  /\ vpc' = [vpc EXCEPT ![c] = "lookup"] /\ wpc' = [wpc EXCEPT ![c] = "recv"]
  /\ UNCHANGED <<pubVars, senderVars, bufVars, init, conn, recv, log, stopped,
                 fatal>>

\* getPublisher; without a publisher, run returns and nobody calls Stop.
Lookup(c) ==
  /\ vpc[c] = "lookup"
  /\ IF registered THEN vpc' = [vpc EXCEPT ![c] = "check"] /\ UNCHANGED conn
                   ELSE Return(c)
  /\ UNCHANGED <<pubVars, senderVars, bufVars, init, queueVars, fatal>>

\* hasConsumer reads the map under the read lock.  If SendMessage is writing
\* to it at that moment the runtime may notice and kill the process.
HasConsumer(c) ==
  /\ vpc[c] = "check"
  /\ IF c \in members THEN Return(c)
                      ELSE vpc' = [vpc EXCEPT ![c] = "snap"] /\ UNCHANGED conn
  /\ fatal' \in IF writing THEN {fatal, "concurrent map read and map write"}
                           ELSE {fatal}
  /\ UNCHANGED <<pubVars, senderVars, bufVars, init, queueVars>>

\* sendInitialData copies the pointers under the read lock ...
Initial(k) ==
  IF hdr[k] = NoBuf THEN <<>>
  ELSE << [kind |-> k, cont |-> FALSE, no |-> content[hdr[k]], buf |-> hdr[k]] >>

Snapshot(c) ==
  /\ vpc[c] = "snap"
  /\ init' = [init EXCEPT ![c] = Initial("meta") \o Initial("vhdr") \o Initial("ahdr")]
  /\ vpc' = [vpc EXCEPT ![c] = "initial"]
  /\ UNCHANGED <<pubVars, senderVars, bufVars, conn, queueVars, fatal>>

\* ... and sends them one by one, without a lock.
SendInitial(c) ==
  /\ vpc[c] = "initial" /\ init[c] # <<>>
  /\ InQueue(c) < QueueCap \/ c \in stopped
  /\ Acquire(Head(init[c]).buf, 1)
  /\ Push(c, Head(init[c]))
  /\ init' = [init EXCEPT ![c] = Tail(@)]
  /\ fatal' = IF c \in stopped THEN "send on closed channel" ELSE fatal
  /\ UNCHANGED <<pubVars, senderVars, pooled, content, lost, vpc, conn,
                 wpc, recv, stopped>>

\* The queue is full: the reference is taken and released again (the
\* publisher holds another one), the consumer is stopped, run returns.
InitialOverflow(c) ==
  /\ vpc[c] = "initial" /\ init[c] # <<>>
  /\ c \notin stopped /\ InQueue(c) >= QueueCap
  /\ vpc' = [vpc EXCEPT ![c] = "refuse"]
  /\ UNCHANGED <<pubVars, senderVars, bufVars, init, conn, queueVars, fatal>>

Refuse(c) ==
  /\ vpc[c] = "refuse" /\ Unlocked
  /\ StopConsumers({c})
  /\ Return(c)
  /\ init' = [init EXCEPT ![c] = <<>>]
  /\ UNCHANGED <<registered, hdr, senderVars, bufVars, wpc, recv, log, fatal>>

InsertBeforeInitial(c) ==
  /\ vpc[c] = "initial" /\ Unlocked
  /\ members' = members \cup {c}
  /\ vpc' = IF init[c] = <<>> THEN [vpc EXCEPT ![c] = "watch"] ELSE vpc
  /\ UNCHANGED <<registered, keyed, hdr, senderVars, bufVars, init, conn,
                 queueVars, fatal>>

\* Last part of AddConsumer, under the write lock.
Insert(c) ==
  /\ vpc[c] = "initial" /\ init[c] = <<>> /\ Unlocked
  /\ members' = members \cup {c}
  /\ vpc' = [vpc EXCEPT ![c] = "watch"]
  /\ UNCHANGED <<registered, keyed, hdr, senderVars, bufVars, init, conn,
                 queueVars, fatal>>

\* The peer goes away, at any time.
PeerLost(c) ==
  /\ vpc[c] # "idle" /\ conn[c] = "open"
  /\ conn' = [conn EXCEPT ![c] = "lost"]
  /\ UNCHANGED <<pubVars, senderVars, bufVars, vpc, init, queueVars, fatal>>

\* conn.Read fails; the deferred RemoveConsumer asks the channel for the
\* publisher and does nothing when it is gone.
LeaveLookup(c) ==
  /\ vpc[c] = "watch" /\ conn[c] # "open"
  /\ IF registered THEN vpc' = [vpc EXCEPT ![c] = "remove"] /\ UNCHANGED conn
                   ELSE Return(c)
  /\ UNCHANGED <<pubVars, senderVars, bufVars, init, queueVars, fatal>>

RemoveConsumer(c) ==
  /\ vpc[c] = "remove" /\ Unlocked
  /\ StopConsumers({c})
  /\ Return(c)
  /\ UNCHANGED <<registered, hdr, senderVars, bufVars, init, wpc, recv, log,
                 fatal>>
-----------------------------------------------------------------------------
(***************************************************************************)
(* readMessages.  The message log[c][recv[c]] is in its hands while        *)
(* wpc[c] = "write".                                                       *)
(***************************************************************************)
Receive(c) ==
  /\ wpc[c] = "recv" /\ InQueue(c) > 0
  /\ recv' = [recv EXCEPT ![c] = @ + 1] /\ wpc' = [wpc EXCEPT ![c] = "write"]
  /\ UNCHANGED <<pubVars, senderVars, bufVars, viewerVars, log, stopped, fatal>>

\* writeMessage releases the buffer whether the write succeeds ...
Written(c) ==
  /\ wpc[c] = "write" /\ conn[c] # "closed"
  /\ Release(log[c][recv[c]].buf)
  /\ wpc' = [wpc EXCEPT ![c] = "recv"]
  /\ UNCHANGED <<pubVars, senderVars, content, lost, viewerVars, recv, log,
                 stopped>>

\* ... or fails, which ends the first loop.
WriteFails(c) ==
  /\ wpc[c] = "write" /\ conn[c] # "open"
  /\ Release(log[c][recv[c]].buf)
  /\ wpc' = [wpc EXCEPT ![c] = "drain"]
  /\ UNCHANGED <<pubVars, senderVars, content, lost, viewerVars, recv, log,
                 stopped>>

\* The second loop only releases.
DrainForgets(c) ==
  /\ wpc[c] = "drain" /\ InQueue(c) > 0
  /\ recv' = [recv EXCEPT ![c] = @ + 1]
  /\ UNCHANGED <<pubVars, senderVars, bufVars, viewerVars, wpc, log, stopped,
                 fatal>>

Drain(c) ==
  /\ wpc[c] = "drain" /\ InQueue(c) > 0
  /\ recv' = [recv EXCEPT ![c] = @ + 1]
  /\ Release(log[c][recv[c] + 1].buf)
  /\ UNCHANGED <<pubVars, senderVars, content, lost, viewerVars, wpc, log,
                 stopped>>

\* Both loops end when the channel is closed and empty; the deferred
\* conn.Close follows.
WriterEnds(c) ==
  /\ wpc[c] \in {"recv", "drain"} /\ InQueue(c) = 0 /\ c \in stopped
  /\ wpc' = [wpc EXCEPT ![c] = "ended"] /\ conn' = [conn EXCEPT ![c] = "closed"]
  /\ UNCHANGED <<pubVars, senderVars, bufVars, vpc, init, recv, log, stopped,
                 fatal>>
-----------------------------------------------------------------------------
\* The steps of the RTMP goroutine that need no input from the encoder.
SenderStep ==
  \/ \E b \in PoolBuf : NextFragment(b)
  \/ \E b \in CopyBuf : StoreHeader(b)
  \/ BeginLoop
  \/ \E c \in Consumer : SkipConsumer(c) \/ Enqueue(c) \/ Overflow(c)
  \/ EndMapWrite
  \/ EndLoop
  \/ StopRemoved
  \/ FinishSend
  \/ PubStop

EncoderStep ==
  \/ CheckExists
  \/ InsertPublisher
  \/ \E k \in Frames \ {"meta"}, n \in 1..MaxFrags, b \in PoolBuf : OpenFrame(k, n, b)
  \/ "meta" \in Frames /\ \E b \in CopyBuf : SendMetaData(b)
  \/ Fill
  \/ ReadFails
  \/ Unregister

HandlerStep(c) ==
  \/ Lookup(c) \/ HasConsumer(c) \/ Snapshot(c) \/ SendInitial(c)
  \/ InitialOverflow(c) \/ Refuse(c) \/ Insert(c) \/ LeaveLookup(c)
  \/ RemoveConsumer(c)

WriteStep(c) == Written(c) \/ WriteFails(c)
WriterStep(c) == Receive(c) \/ Drain(c) \/ WriterEnds(c)

\* Nothing is left to do: the process died, or the session is over, every
\* viewer is gone and every readMessages has returned or waits for a channel
\* that nobody will close.
Finished ==
  \/ fatal # "none"
  \/ /\ spc = "ended"
     /\ \A c \in Consumer : vpc[c] = "done" /\ (wpc[c] = "ended" \/ c \notin stopped)

Next ==
  \/ /\ fatal = "none"
     /\ \/ SenderStep
        \/ EncoderStep
        \/ \E c \in Consumer : \/ Connect(c) \/ PeerLost(c) \/ HandlerStep(c)
                               \/ WriteStep(c) \/ WriterStep(c)
  \/ Finished /\ UNCHANGED vars

Spec == Init /\ [][Next]_vars

\* The Go scheduler runs every goroutine that can proceed.  Nothing is assumed
\* of the encoder (EncoderStep), of new viewers (Connect), of a peer leaving
\* (PeerLost), nor of conn.Write, which a viewer that stops reading can block
\* for ever (WriteStep).  A goroutine waiting for pub.mu.Lock is served because
\* Go's RWMutex bars new readers once a writer waits.
FairSpec ==
  /\ Spec
  /\ WF_vars(fatal = "none" /\ SenderStep)
  /\ \A c \in Consumer : /\ WF_vars(fatal = "none" /\ HandlerStep(c))
                         /\ WF_vars(fatal = "none" /\ WriterStep(c))

\* Every conn.Write to c returns, with or without an error.
Responsive(c) == WF_vars(fatal = "none" /\ WriteStep(c))
-----------------------------------------------------------------------------
(***************************************************************************)
(* Properties.                                                             *)
(***************************************************************************)

TypeOK ==
  /\ registered \in BOOLEAN /\ writing \in BOOLEAN
  /\ members \subseteq Consumer /\ keyed \subseteq Consumer
  /\ todo \subseteq Consumer /\ removed \subseteq Consumer
  /\ stopped \subseteq Consumer
  /\ hdr \in [StoredKind -> CopyBuf \cup {NoBuf}]
  /\ spc \in {"start", "insert", "idle", "fill", "store", "lock", "loop", "stop", "sent",
              "next", "leave", "unregistered", "ended"}
  /\ spc \in {"fill", "store", "lock", "loop", "stop", "sent"} => cur \in Message
  /\ left \in Nat /\ sent \in Nat
  /\ refs \in [Buffer -> Int] /\ pooled \subseteq Buffer
  /\ content \in [Buffer -> Nat] /\ lost \in [Buffer -> Nat]
  /\ vpc \in [Consumer -> {"idle", "lookup", "check", "snap", "initial",
                           "refuse", "watch", "remove", "done"}]
  /\ init \in [Consumer -> Seq(Message)]
  /\ conn \in [Consumer -> {"open", "lost", "closed"}]
  /\ wpc \in [Consumer -> {"off", "recv", "write", "drain", "ended"}]
  /\ recv \in [Consumer -> Nat]
  /\ log \in [Consumer -> Seq(Message)]
  /\ fatal \in {"none", "released more times than acquired",
                "send on closed channel", "concurrent map read and map write"}

\* No interleaving of the sender, the handlers and the writers releases a
\* buffer too often or sends on the closed channel of a stopped consumer: both
\* would end the process with a panic (SharedBuffer.Release, sendMessage).
NoPanic == fatal \notin {"released more times than acquired",
                         "send on closed channel"}

\* The messages of a channel whose reference readMessages has yet to release.
Unreleased(c) ==
  (IF wpc[c] = "write" THEN recv[c] ELSE recv[c] + 1)..Len(log[c])

\* Who holds a reference to b: the RTMP transport between Acquire and its own
\* Release, the publisher for what it stores, the viewers SendMessage has
\* taken a reference for and not yet visited, and every unreleased message.
SenderHolds(b) ==
  /\ spc \in {"fill", "store", "lock", "loop", "stop", "sent"}
  /\ cur.buf = b /\ b \in PoolBuf

Held(b) ==
  {t \in {<<"rtmp", 0>>} : SenderHolds(b)}
  \cup {t \in {<<"pub", 0>>} : b \in CopyBuf /\ content[b] # 0}
  \cup {<<c, 0>> : c \in {d \in todo : cur.buf = b}}
  \cup UNION {{<<c, i>> : i \in {j \in Unreleased(c) : log[c][j].buf = b}} :
              c \in Consumer}

\* SharedBuffer.refs counts exactly the holders, plus the references that
\* overflowed queues leak: a buffer is back in its pool only when nobody holds
\* it, so the pool never hands out a buffer a viewer has still to be sent.
RefsExact ==
  \A b \in Buffer :
    /\ refs[b] = Cardinality(Held(b)) + lost[b]
    /\ b \in pooled <=> b \in PoolBuf /\ refs[b] = 0

\* A message a viewer has not been sent yet still has the payload it had when
\* it was queued: recycling never overwrites it.
PayloadIntact ==
  \A c \in Consumer : \A i \in Unreleased(c) :
    content[log[c][i].buf] = log[c][i].no

\* What a viewer is sent of the video can be decoded and framed: it starts with
\* the first buffer of a key frame, and a continuation directly follows the
\* buffer it continues (SendMessage's test of sentVideoKeyFrame).
VideoWellFormed ==
  \A c \in Consumer : \A i \in DOMAIN log[c] :
    log[c][i].kind \in VideoKind =>
      /\ \/ log[c][i].kind = "key" /\ ~log[c][i].cont
         \/ \E j \in 1..(i - 1) : log[c][j].kind = "key"
      /\ log[c][i].cont => i > 1 /\ log[c][i-1].no = log[c][i].no - 1

\* From its first key frame on, a viewer misses nothing until it is stopped:
\* one that cannot keep up is removed, never sent a stream with a hole.
NothingSkipped ==
  \A c \in Consumer :
    /\ \A i \in 2..Len(log[c]) :
         (\E j \in 1..(i - 1) : log[c][j].kind = "key")
           => log[c][i].no = log[c][i-1].no + 1
    /\ c \in keyed /\ spc = "idle" => log[c][Len(log[c])].no = sent

\* SendMessage always returns, whatever the viewers do: a full queue or a
\* viewer that stopped reading never holds up the encoder.
SendReturns == spc \in {"lock", "loop", "stop"} ~> (spc = "sent" \/ fatal # "none")

\* A viewer that is stopped, because it could not keep up, because the stream
\* ended or because it left, is let go if its connection still takes data or
\* fails: readMessages empties the channel and ends.
StoppedEnds ==
  \A c \in Consumer :
    Responsive(c) =>
      (c \in removed \cup stopped ~> (wpc[c] = "ended" \/ fatal # "none"))

\* Of each kind of header, and of the metadata, a viewer is never sent an older
\* version after a newer one, although its initial data are sent without a lock
\* while SendMessage stores and sends others (sendInitialData, SendMessage).
HeadersInOrder ==
  \A c \in Consumer : \A i, j \in DOMAIN log[c] :
    i < j /\ log[c][i].kind = log[c][j].kind /\ log[c][i].kind \in StoredKind
      => log[c][i].no <= log[c][j].no

\* The pooled buffers implement BufferPool: the RTMP transport takes a buffer,
\* SendMessage shares it with the viewers, each of them releases it once, and
\* only the last release puts it back.  A queue overflow forgets a reference.
Holders(b) ==
  {h \in {"rtmp"} : SenderHolds(b)}
  \cup {c \in Consumer : \/ c \in todo /\ cur.buf = b
                         \/ \E i \in Unreleased(c) : log[c][i].buf = b}
  \cup {h \in {"nobody"} : lost[b] > 0}

Pool == INSTANCE BufferPool WITH
  Holder  <- Consumer \cup {"rtmp"},
  Nobody  <- "nobody",
  Buf     <- PoolBuf,
  free    <- pooled \cap PoolBuf,
  holders <- [b \in PoolBuf |-> Holders(b)]

BuffersRecycled == Pool!Spec

\* With its viewers the session implements MediaChannel: the finer steps of
\* pub.AddConsumer, pub.SendMessage and readMessages add nothing the channel
\* could notice.
ChannelSession ==
  CASE spc = "start" -> "new"
    [] spc = "insert" -> "insert"
    [] spc = "unregistered" -> "stop"
    [] spc = "ended" -> "ended"
    [] OTHER -> "live"

ChannelViewer(c) ==
  CASE vpc[c] \in {"idle", "lookup"} -> "idle"
    [] vpc[c] \in {"check", "snap", "initial", "refuse"} -> "join"
    [] OTHER -> vpc[c]

Channel == INSTANCE MediaChannel WITH
  Session    <- {"rtmp"},
  Id         <- {"user"},
  SessionId  <- [s \in {"rtmp"} |-> "user"],
  ViewedId   <- [c \in Consumer |-> "user"],
  Nil        <- "nil",
  Overlap    <- FALSE,
  publishers <- [i \in {"user"} |-> IF registered THEN "rtmp" ELSE "nil"],
  spc        <- [s \in {"rtmp"} |-> ChannelSession],
  members    <- [s \in {"rtmp"} |-> members],
  vpc        <- [c \in Consumer |-> ChannelViewer(c)],
  target     <- [c \in Consumer |->
                   IF ChannelViewer(c) \in {"join", "remove"} THEN "rtmp" ELSE "nil"],
  closed     <- stopped,
  panic      <- IF fatal = "send on closed channel" THEN fatal ELSE "none"

ImplementsChannel == Channel!Spec

\* The frames the session feeds its viewers come as RtmpIngest cuts them.
FeedAt ==
  CASE spc \in {"fill", "store", "lock", "loop", "stop", "sent"} /\ cur.kind # "meta" -> "held"
    [] spc = "next" -> "between"
    [] spc \in {"leave", "unregistered", "ended"} -> "over"
    [] OTHER -> "idle"

Feed == INSTANCE MediaFeed WITH
  FeedKind  <- HeaderKind \cup DataKind,
  WholeKind <- HeaderKind,
  at    <- FeedAt,
  frame <- IF FeedAt \in {"held", "between"}
             THEN [kind |-> cur.kind, cont |-> cur.cont \/ spc = "next"]
             ELSE [kind |-> "none", cont |-> FALSE]

ImplementsFeed == Feed!Spec
-----------------------------------------------------------------------------
(***************************************************************************)
(* What the comments and tests of the repository say, and the code does    *)
(* not do.                                                                 *)
(***************************************************************************)

\* core/media/publisher.go:22-23: once Stop has run, every consumer of the
\* publisher is stopped.  A handler that looked the publisher up before
\* RemovePublisher can still add its consumer afterwards.
StopStopsAll == spc = "ended" => members \subseteq stopped

\* README.md:13, a message protocol on top of WebSocket: whatever follows in a
\* connection starts with the headers of a message or continues that message.
\* SendMessage forwards the continuation of an audio frame to a viewer that
\* joined in the middle of it.
FramesStayWhole ==
  \A c \in Consumer : \A i \in DOMAIN log[c] :
    log[c][i].cont => i > 1 /\ log[c][i-1].no = log[c][i].no - 1

\* core/media/media.go:21-24, the three ways AddConsumer returns.  It may also
\* not return: hasConsumer reads the map that SendMessage writes to under the
\* read lock, for which the Go runtime kills the process.
AddConsumerReturns == fatal # "concurrent map read and map write"

=============================================================================
