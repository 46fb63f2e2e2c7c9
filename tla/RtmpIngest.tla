---------------------------- MODULE RtmpIngest ----------------------------
(***************************************************************************)
(* How an RTMP session cuts the messages of an encoder into the media      *)
(* messages of its publisher (transport/rtmp): video into the NAL units of *)
(* two types, each written with its 5-byte header into buffers of 64 KiB,  *)
(* audio into buffers of 512 bytes, sequence headers into one of those.    *)
(*                                                                         *)
(* Bytes are counted, not stored.  The connection is a reader that returns *)
(* the bytes of a message in pieces of any size, may fail at any time and  *)
(* reports the end of the message with the last piece or after it.         *)
(* Lengths are unsigned and wrap at Mod.  Metadata and unsupported         *)
(* messages involve none of this and are left out.                         *)
(***************************************************************************)
EXTENDS Integers, Sequences, FiniteSets, SequencesExt

CONSTANTS
  Mod,       \* 2^32: lengths are uint32
  VideoCap,  \* size of the video buffers (64 KiB)
  AudioCap,  \* size of the audio buffers (512)
  Declared,  \* lengths a NAL unit may declare
  MaxBody,   \* bound: bytes of a message after its tag header (below 2^24)
  MaxMesgs   \* bound: messages of a session

NaluHdr   == 5   \* naluHdrSize: four bytes of length and the type
MesgHdr   == 6   \* mesgHdrLen, added to every frame by writeMessage
VideoKind == {"key", "inter"}
WholeKind == {"vhdr", "ahdr"}
FeedKind  == VideoKind \cup WholeKind \cup {"audio"}

ASSUME SizesAssumption ==
  /\ Mod \in Nat /\ MaxBody \in Nat /\ MaxMesgs \in Nat
  /\ VideoCap \in Nat /\ VideoCap > NaluHdr /\ AudioCap \in Nat \ {0}
  /\ AudioCap + MesgHdr < Mod /\ MaxBody + NaluHdr + MesgHdr < Mod
  /\ Declared \subseteq 0..(Mod - 1)

VARIABLES
  pc,     \* where onConn and the functions it calls are
  left,   \* bytes of the current message not read yet
  need,   \* "remaining": bytes of the frame not read yet
  frame,  \* kind, total size and continuation flag of the current frame
  len,    \* SharedBuffer.len of the buffer in hand
  held,   \* buffers acquired and not released
  mesgs,  \* messages so far
  out,    \* history: what was passed to SendMessage
  owed,   \* history: bytes a viewer was promised of the current frame and
          \*   has not been sent
  units,  \* history: the frames found in the messages, with their sizes
  excuse  \* history: the encoder or the connection gave cause to end the
          \*   session

vars == <<pc, left, need, frame, len, held, mesgs, out, owed, units, excuse>>

NoFrame == [kind |-> "none", total |-> 0, cont |-> FALSE]

Init ==
  /\ pc = "idle" /\ left = 0 /\ need = 0 /\ frame = NoFrame /\ len = 0
  /\ held = 0 /\ mesgs = 0 /\ out = <<>> /\ owed = 0 /\ units = <<>>
  /\ excuse = FALSE

Cap(kind) == IF kind \in VideoKind THEN VideoCap ELSE AudioCap
Room == LET free == Cap(frame.kind) - len IN IF need < free THEN need ELSE free

StartFrame(kind, total) ==
  /\ frame' = [kind |-> kind, total |-> total, cont |-> FALSE]
  /\ units' = Append(units, [kind |-> kind, total |-> total])

\* Mutant: an error path returns without releasing the buffer.
GiveUpKeeping ==
  /\ pc' = "over" /\ frame' = NoFrame /\ len' = 0
  /\ UNCHANGED <<held, left, need, mesgs, out, owed, units>>

\* onConn returns; whoever holds a buffer releases it first.
GiveUp ==
  /\ pc' = "over" /\ frame' = NoFrame /\ len' = 0
  /\ held' = IF pc \in {"read", "send"} THEN held - 1 ELSE held
  /\ UNCHANGED <<left, need, mesgs, out, owed, units>>

\* onVideoMessage, onAudioMessage: a message with n bytes after a valid tag
\* header.  A frame of audio of no bytes is skipped.
NextMessage(kind, n) ==
  /\ pc = "idle" /\ mesgs < MaxMesgs
  /\ mesgs' = mesgs + 1 /\ left' = n
  /\ \/ kind = "video" /\ pc' = "unit" /\ UNCHANGED <<need, frame, units>>
     \/ kind = "audio" /\ n = 0 /\ UNCHANGED <<pc, need, frame, units>>
     \/ /\ kind \in WholeKind \/ (kind = "audio" /\ n > 0)
        /\ pc' = "take" /\ need' = n /\ StartFrame(kind, n)
  /\ excuse' = (excuse \/ (kind \in WholeKind /\ n > AudioCap))
  /\ UNCHANGED <<len, held, out, owed>>

\* The connection or the stream is closed, or the message has an unknown codec
\* or packet type or is shorter than a tag header.
SessionEnds == pc = "idle" /\ GiveUp /\ excuse' = TRUE

\* sendVideoData: the header of a NAL unit.  No byte is left, ...
VideoDone ==
  /\ pc = "unit" /\ left = 0 /\ pc' = "idle"
  /\ UNCHANGED <<left, need, frame, len, held, mesgs, out, owed, units, excuse>>

\* Mutant: the end of the message is an error, whether or not a byte was read.
HeaderCutAtEnd ==
  /\ pc = "unit" /\ left \in 0..(NaluHdr - 1) /\ GiveUp
  /\ excuse' = (excuse \/ left > 0)

\* ... too few are, ...
HeaderCut == pc = "unit" /\ left \in 1..(NaluHdr - 1) /\ GiveUp /\ excuse' = TRUE

\* ... or there is one.  The declared length counts the type byte, which has
\* been read.  Other types are discarded.  A unit of nothing but its type is
\* written to a buffer that is neither sent nor released.
\* (Mutant first: as a signed number.)
NaluLenSigned(declared) == declared - 1

NaluLen(declared) == (declared - 1) % Mod

NaluHeader(type, declared) ==
  LET n == NaluLen(declared) IN
  /\ pc = "unit" /\ left >= NaluHdr
  /\ left' = left - NaluHdr /\ need' = n
  /\ excuse' = (excuse \/ declared = 0 \/ n > left - NaluHdr)
  /\ IF type \in VideoKind
       THEN /\ StartFrame(type, NaluHdr + n) /\ held' = held + 1
            /\ pc' = IF n = 0 THEN "unit" ELSE "read"
            /\ len' = IF n = 0 THEN 0 ELSE NaluHdr
       ELSE /\ pc' = IF n = 0 THEN "unit" ELSE "discard"
            /\ UNCHANGED <<frame, units, held, len>>
  /\ UNCHANGED <<mesgs, out, owed>>

\* discardNALU reads on until the unit is gone.  An end of the message reported
\* with the unit's last bytes is passed on as an error.
Discard(k) ==
  /\ pc = "discard" /\ k \in 1..left /\ k <= need
  /\ left' = left - k /\ need' = need - k
  /\ pc' = IF need = k THEN "unit" ELSE "discard"
  /\ UNCHANGED <<frame, len, held, mesgs, out, owed, units, excuse>>

DiscardEnds ==
  /\ pc = "discard" /\ left <= need
  /\ GiveUp /\ excuse' = TRUE

\* AcquireVideoBuffer, AcquireAudioBuffer.
Take ==
  /\ pc = "take" /\ pc' = (IF Room = 0 THEN "send" ELSE "read") /\ held' = held + 1
  /\ UNCHANGED <<left, need, frame, len, mesgs, out, owed, units, excuse>>

\* One Read of ReadN, which goes on until the frame is complete or the buffer
\* is full ...
Read(k) ==
  /\ pc = "read" /\ k \in 1..left /\ k <= Room
  /\ left' = left - k /\ need' = need - k /\ len' = len + k
  /\ pc' = IF k = Room THEN "send" ELSE "read"
  /\ UNCHANGED <<frame, held, mesgs, out, owed, units, excuse>>

\* Mutant: ReadN goes on after the end of the message.
TruncatedWaits == FALSE /\ UNCHANGED vars

\* ... or the message ends too early, ...
Truncated == pc = "read" /\ left = 0 /\ GiveUp /\ UNCHANGED excuse

\* ... or, here and wherever it reads, the connection fails.
ReadFails == pc \in {"unit", "discard", "read"} /\ GiveUp /\ excuse' = TRUE

\* The length announced with every buffer of a frame, and what writeMessage
\* makes of it.
\* (Mutant first: without the header of the unit.)
LengthOfUnit ==
  (CASE frame.kind \in WholeKind -> len
     [] frame.kind \in VideoKind -> frame.total - NaluHdr
     [] OTHER -> frame.total) % Mod

Length == (IF frame.kind \in WholeKind THEN len ELSE frame.total) % Mod
Announced == (Length + MesgHdr) % Mod

\* A sequence header that did not fit is an error.
HeaderTooLong ==
  /\ pc = "send" /\ frame.kind \in WholeKind /\ need > 0
  /\ GiveUp /\ UNCHANGED excuse

\* SendMessage and Release, and how a frame that is not complete goes on.
SendAs(next, kept) ==
  /\ pc = "send" /\ (frame.kind \in WholeKind => need = 0)
  /\ out' = Append(out, [kind |-> frame.kind, cont |-> frame.cont, size |-> len])
  /\ owed' = (IF frame.cont THEN owed ELSE Announced - MesgHdr) - len
  /\ held' = held - 1 /\ len' = 0
  /\ frame' = IF need > 0 THEN next ELSE NoFrame
  /\ pc' = IF need > 0 THEN kept
           ELSE IF frame.kind \in VideoKind THEN "unit" ELSE "idle"
  /\ UNCHANGED <<left, need, mesgs, units, excuse>>

\* Mutants: no buffer is flagged as a continuation; the released buffer is
\* filled again.
SendUnflagged == SendAs(frame, "take")
SendKeeping   == SendAs([frame EXCEPT !.cont = TRUE], "read")

\* In a buffer of its own, and the next buffer of the frame is a continuation.
Send == SendAs([frame EXCEPT !.cont = TRUE], "take")
-----------------------------------------------------------------------------
ReadStep == VideoDone \/ HeaderCut \/ DiscardEnds \/ Truncated
            \/ \E type \in VideoKind \cup {"other"}, d \in Declared : NaluHeader(type, d)
            \/ \E k \in 1..left : Discard(k) \/ Read(k)

CutStep == Take \/ Send \/ HeaderTooLong

Next ==
  \/ \E kind \in {"video", "audio"} \cup WholeKind, n \in 0..MaxBody : NextMessage(kind, n)
  \/ SessionEnds \/ ReadStep \/ ReadFails \/ CutStep
  \/ pc = "over" /\ UNCHANGED vars

Spec == Init /\ [][Next]_vars

\* The goroutine runs, and every Read returns bytes, the end of the message or
\* an error; nothing is assumed of when messages come.
FairSpec == Spec /\ WF_vars(ReadStep) /\ WF_vars(CutStep)
-----------------------------------------------------------------------------
\* The type invariant.
TypeOK ==
  /\ pc \in {"idle", "unit", "discard", "take", "read", "send", "over"}
  /\ left \in 0..MaxBody /\ need \in 0..(Mod - 1) /\ excuse \in BOOLEAN
  /\ frame \in [kind : FeedKind \cup {"none"}, total : Nat, cont : BOOLEAN]
  /\ len \in Nat /\ (frame.kind # "none" => len <= Cap(frame.kind))
  /\ held \in Nat /\ mesgs \in Nat /\ owed \in Int

\* The bytes of a frame that a viewer is sent are exactly those its WebSocket
\* header announces, so that the next header is found where it is expected,
\* however the frame is cut and however the bytes arrive (the Length of
\* sendVideoData and sendAudioData, wsHeader.encode).  A unit whose declared
\* length makes Length wrap is longer than its message, and the session ends
\* before the next one.
WireAligned ==
  /\ pc \in {"idle", "unit", "discard"} => owed = 0
  /\ frame.cont /\ frame.total + MesgHdr < Mod => owed = need + len

\* The reference: a frame is cut into buffers that are full but for the last,
\* all but the first flagged as continuations.  A unit of one byte is lost.
Cut(unit) ==
  LET cap    == Cap(unit.kind)
      pieces == IF unit.kind \in WholeKind THEN 1 ELSE (unit.total + cap - 1) \div cap
      rest(i) == unit.total - cap * (i - 1)
  IN IF unit.kind \in VideoKind /\ unit.total = NaluHdr THEN <<>>
     ELSE [i \in 1..pieces |-> [kind |-> unit.kind, cont |-> i > 1,
                                size |-> IF rest(i) < cap THEN rest(i) ELSE cap]]

\* What is passed to SendMessage is the frames of the encoder, cut like that, in
\* order and nothing else: at any time a prefix of it, and all of it once a
\* message has been handled (sendVideoData, sendAudioData, sendSeqHeader).
OutputExact ==
  LET expected == FlattenSeq([i \in DOMAIN units |-> Cut(units[i])]) IN
  /\ IsPrefix(out, expected)
  /\ pc \in {"idle", "unit", "discard"} => out = expected

\* On every path, errors included, each buffer taken from a pool is released,
\* but for one for every unit of one byte (the early returns of sendVideoData).
Lost == {i \in DOMAIN units : units[i].kind \in VideoKind /\ units[i].total = NaluHdr}

BuffersReturned ==
  held = Cardinality(Lost) + (IF pc \in {"read", "send"} THEN 1 ELSE 0)

\* A stream that is well formed, on a connection that works, is never given up:
\* neither a boundary of the cutting nor a short Read is taken for an error
\* (ReadN, discardNALU, sendSeqHeader).
OnlyBadInputEnds == pc = "over" => excuse

\* Every message is handled or ends the session, even one that ends too early or
\* declares lengths that wrap around.
MessageHandled == pc \notin {"idle", "over"} ~> pc \in {"idle", "over"}

\* The session implements MediaFeed.
FeedAt ==
  CASE pc \in {"read", "send"} -> "held"
    [] pc = "take" /\ frame.cont -> "between"
    [] pc = "over" -> "over"
    [] OTHER -> "idle"

Feed == INSTANCE MediaFeed WITH
  at    <- FeedAt,
  frame <- IF FeedAt \in {"held", "between"}
             THEN [kind |-> frame.kind, cont |-> frame.cont]
             ELSE [kind |-> "none", cont |-> FALSE]

ImplementsFeed == Feed!Spec
=============================================================================
