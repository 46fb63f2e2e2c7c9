-------------------------- MODULE RtmpIngestProofs --------------------------
(***************************************************************************)
(* Proofs about RtmpIngest for buffers, messages and declared lengths of   *)
(* any size.                                                               *)
(***************************************************************************)
EXTENDS RtmpIngest, FiniteSetTheorems, SequenceTheorems, WellFoundedInduction, TLAPS

\* A frame is being cut.
Busy == pc \in {"take", "read", "send"}

\* What is left of a frame, what is in the buffer and what has been sent add up.
Phase ==
  /\ ~Busy => frame.cont = FALSE
  /\ Busy => frame.kind \in FeedKind
  /\ Busy /\ ~frame.cont => need + len = frame.total
  /\ frame.kind \in WholeKind => ~frame.cont
  /\ pc \notin {"read", "send"} => len = 0
  /\ pc = "take" => (need > 0 \/ frame.kind \in WholeKind)
  /\ pc \in {"read", "send"} => held > 0
  /\ pc = "read" => need > 0 /\ len < Cap(frame.kind)
  /\ pc = "send" => need = 0 \/ len = Cap(frame.kind)

\* A length that wraps around belongs to a frame the message cannot complete.
Aligned ==
  /\ Busy /\ frame.total + MesgHdr >= Mod => need > left
  /\ WireAligned

\* Why the session may have to end.
Excused ==
  /\ (Busy \/ pc = "discard") /\ need > left => excuse
  /\ Busy /\ frame.kind \in WholeKind /\ frame.total > AudioCap => excuse
  /\ OnlyBadInputEnds

Inv == TypeOK /\ Phase /\ Aligned /\ Excused

(***************************************************************************)
(* Arithmetic.                                                             *)
(***************************************************************************)
LEMMA ModSmall == ASSUME NEW m \in Nat, NEW x \in Nat, x < m PROVE x % m = x
  OBVIOUS

LEMMA ModRange ==
  ASSUME NEW m \in Nat \ {0}, NEW x \in Int PROVE x % m \in 0..(m - 1)
  OBVIOUS

LEMMA ModLarge == Mod \in Nat \ {0} /\ MaxBody \in Nat /\ MaxBody + NaluHdr + MesgHdr < Mod
<1>1. Mod \in Nat /\ MaxBody \in Nat /\ MaxBody + NaluHdr + MesgHdr < Mod
  BY SizesAssumption
<1> QED
  BY <1>1 DEF NaluHdr, MesgHdr

LEMMA NaluLens ==
  ASSUME NEW d \in Declared PROVE NaluLen(d) \in 0..(Mod - 1) /\ NaluLen(d) \in Nat
<1>1. d \in 0..(Mod - 1) /\ Mod \in Nat
  BY SizesAssumption
<1>2. d - 1 \in Int
  BY <1>1
<1>3. NaluLen(d) \in 0..(Mod - 1)
  BY <1>2, ModLarge, ModRange DEF NaluLen
<1> QED
  BY <1>1, <1>3

LEMMA Caps == ASSUME NEW k PROVE Cap(k) \in Nat \ {0} /\ Cap(k) <= VideoCap + AudioCap
  BY SizesAssumption DEF Cap, NaluHdr

LEMMA VideoCaps == ASSUME NEW k \in VideoKind PROVE Cap(k) = VideoCap
  BY DEF Cap

LEMMA WholeCaps == ASSUME NEW k \in WholeKind PROVE Cap(k) = AudioCap /\ k \notin VideoKind
  BY DEF Cap, WholeKind, VideoKind

\* What a viewer makes of the length announced with the first buffer.
LEMMA AnnouncedLength ==
  ASSUME TypeOK, Phase, pc = "send", ~frame.cont, frame.kind \in WholeKind => need = 0,
         frame.total + MesgHdr < Mod
  PROVE  Announced - MesgHdr = need + len
<1> USE SizesAssumption DEF MesgHdr
<1>1. need \in Nat /\ len \in Nat /\ frame.total \in Nat /\ need + len = frame.total
  BY DEF TypeOK, Phase, Busy
<1>2. (IF frame.kind \in WholeKind THEN len ELSE frame.total) = need + len
  BY <1>1
<1>3. Length = need + len
  BY <1>1, <1>2, ModSmall DEF Length
<1> QED
  BY <1>1, <1>3, ModSmall DEF Announced

(***************************************************************************)
(* The invariant is inductive.                                             *)
(***************************************************************************)
LEMMA InitInv == Init => Inv
<1> SUFFICES ASSUME Init PROVE Inv
  OBVIOUS
<1>1. /\ pc = "idle" /\ excuse = FALSE /\ left = 0 /\ need = 0
      /\ len = 0 /\ held = 0 /\ mesgs = 0 /\ owed = 0
      /\ len \in Nat /\ held \in Nat /\ mesgs \in Nat /\ owed \in Int
  BY DEF Init
<1>7. excuse \in BOOLEAN
  BY Zenon DEF Init
<1>2. /\ frame \in [kind : FeedKind \cup {"none"}, total : Nat, cont : BOOLEAN]
      /\ frame.kind = "none" /\ frame.cont = FALSE
  <2>1. "none" \in FeedKind \cup {"none"} /\ 0 \in Nat /\ FALSE \in BOOLEAN
    OBVIOUS
  <2> QED
    BY <2>1 DEF Init, NoFrame
<1>3. left \in 0..MaxBody /\ need \in 0..(Mod - 1)
  BY <1>1, ModLarge
<1>4. TypeOK
  BY <1>1, <1>7, <1>2, <1>3 DEF TypeOK
<1>5. Phase
  BY <1>1, <1>2 DEF Phase, Busy
<1>6. Aligned /\ Excused
  BY <1>1, <1>2 DEF Aligned, WireAligned, Excused, OnlyBadInputEnds, Busy
<1> QED
  BY <1>4, <1>5, <1>6 DEF Inv

\* The session ends with its reason.
LEMMA GiveUpInv ==
  ASSUME Inv, GiveUp, excuse' \in BOOLEAN, excuse' PROVE Inv'
<1> USE DEF GiveUp, NoFrame
<1>1. held' \in Nat
  BY DEF Inv, TypeOK, Phase
<1>2. TypeOK'
  BY <1>1 DEF Inv, TypeOK, FeedKind, VideoKind, WholeKind
<1>3. Phase' /\ Aligned' /\ Excused'
  BY DEF Inv, Phase, Aligned, Excused, Busy, WireAligned, OnlyBadInputEnds, WholeKind
<1> QED
  BY <1>2, <1>3 DEF Inv

\* A frame starts.
LEMMA StartKinds ==
  ASSUME NEW kind \in FeedKind, NEW total \in Nat, StartFrame(kind, total)
  PROVE  /\ frame' = [kind |-> kind, total |-> total, cont |-> FALSE]
         /\ frame'.kind = kind /\ frame'.total = total /\ frame'.cont = FALSE
         /\ frame' \in [kind : FeedKind \cup {"none"}, total : Nat, cont : BOOLEAN]
  BY DEF StartFrame

LEMMA NextMessageInv ==
  ASSUME Inv, NEW kind \in {"video", "audio"} \cup WholeKind, NEW n \in 0..MaxBody,
         NextMessage(kind, n)
  PROVE  Inv'
<1> USE SizesAssumption DEF Inv
<1>1. /\ pc = "idle" /\ left' = n /\ mesgs' \in Nat /\ excuse' \in BOOLEAN
      /\ UNCHANGED <<len, held, out, owed>> /\ owed = 0 /\ ~frame.cont
  BY DEF NextMessage, TypeOK, Aligned, WireAligned, Phase, Busy
<1>2. CASE kind = "video" /\ pc' = "unit" /\ UNCHANGED <<need, frame, units>>
  BY <1>1, <1>2 DEF TypeOK, Phase, Aligned, Excused, Busy, WireAligned, OnlyBadInputEnds
<1>3. CASE UNCHANGED <<pc, need, frame, units>>
  BY <1>1, <1>3 DEF TypeOK, Phase, Aligned, Excused, Busy, WireAligned, OnlyBadInputEnds
<1>4. CASE /\ kind \in WholeKind \/ (kind = "audio" /\ n > 0)
           /\ pc' = "take" /\ need' = n /\ StartFrame(kind, n)
  <2>1. kind \in FeedKind /\ n \in Nat /\ n < Mod
    BY <1>4 DEF FeedKind, NaluHdr, MesgHdr
  <2>2. /\ frame'.kind = kind /\ frame'.total = n /\ frame'.cont = FALSE
        /\ frame' \in [kind : FeedKind \cup {"none"}, total : Nat, cont : BOOLEAN]
    BY <1>4, <2>1, StartKinds
  <2>3. n + MesgHdr < Mod
    BY DEF MesgHdr, NaluHdr
  <2>4. TypeOK'
    <3>1. need' \in 0..(Mod - 1) /\ left' \in 0..MaxBody
      BY <1>1, <1>4, <2>1
    <3>2. len' = 0 /\ len' <= Cap(frame'.kind)
      BY <1>1, Caps DEF Phase
    <3> QED
      BY <1>1, <1>4, <2>2, <3>1, <3>2 DEF TypeOK
  <2>5. Phase'
    <3>1. len' = 0 /\ need' = n /\ pc' = "take"
      BY <1>1, <1>4 DEF Phase
    <3>2. need' > 0 \/ frame'.kind \in WholeKind
      BY <1>4, <2>2, <3>1
    <3> QED
      BY <2>1, <2>2, <3>1, <3>2 DEF Phase, Busy
  <2>6. Aligned'
    BY <1>1, <1>4, <2>1, <2>2, <2>3 DEF Aligned, Busy, WireAligned, MesgHdr
  <2>7. Excused'
    <3>1. excuse' = (excuse \/ (kind \in WholeKind /\ n > AudioCap))
      BY DEF NextMessage
    <3>2. kind \in WholeKind /\ n > AudioCap => excuse'
      BY <3>1
    <3> QED
      BY <1>1, <1>4, <2>1, <2>2, <3>2 DEF Excused, Busy, OnlyBadInputEnds
  <2> QED
    BY <2>4, <2>5, <2>6, <2>7
<1> QED
  BY <1>2, <1>3, <1>4 DEF NextMessage


LEMMA NaluHeaderInv ==
  ASSUME Inv, NEW type \in VideoKind \cup {"other"}, NEW d \in Declared, NaluHeader(type, d)
  PROVE  Inv'
<1> DEFINE n == NaluLen(d)
<1> USE SizesAssumption DEF Inv
<1>1. n \in 0..(Mod - 1)
  BY NaluLens
<1> HIDE DEF n
<1>2. /\ pc = "unit" /\ left >= NaluHdr /\ left' = left - NaluHdr /\ need' = n
      /\ left \in Nat /\ left <= MaxBody /\ left' \in 0..MaxBody
      /\ UNCHANGED <<mesgs, out, owed>> /\ owed = 0 /\ ~frame.cont /\ len = 0
  BY DEF NaluHeader, n, TypeOK, Aligned, WireAligned, Phase, Busy, NaluHdr
<1>3. excuse' \in BOOLEAN /\ (need' > left' => excuse')
  <2>1. excuse' = (excuse \/ d = 0 \/ n > left - NaluHdr)
    BY DEF NaluHeader, n
  <2> QED
    BY <1>2, <2>1 DEF TypeOK
<1>4. CASE type \in VideoKind
  <2>1. /\ StartFrame(type, NaluHdr + n) /\ held' = held + 1
        /\ pc' = IF n = 0 THEN "unit" ELSE "read"
        /\ len' = IF n = 0 THEN 0 ELSE NaluHdr
    BY <1>4 DEF NaluHeader, n
  <2>2. /\ type \in FeedKind /\ type \notin WholeKind /\ NaluHdr + n \in Nat
        /\ Cap(type) = VideoCap /\ NaluHdr < VideoCap
    BY <1>1, <1>4, VideoCaps, WholeCaps DEF FeedKind, NaluHdr
  <2>3. /\ frame'.kind = type /\ frame'.total = NaluHdr + n /\ frame'.cont = FALSE
        /\ frame' \in [kind : FeedKind \cup {"none"}, total : Nat, cont : BOOLEAN]
    BY <2>1, <2>2, StartKinds
  <2>4. len' \in Nat /\ len' <= Cap(frame'.kind) /\ held' \in Nat /\ held' > 0
    BY <2>1, <2>2, <2>3 DEF TypeOK, NaluHdr
  <2>5. TypeOK'
    BY <1>1, <1>2, <1>3, <2>1, <2>3, <2>4 DEF TypeOK
  <2>6. CASE n = 0
    BY <1>2, <1>3, <2>1, <2>2, <2>3, <2>4, <2>5, <2>6
       DEF Phase, Aligned, Excused, Busy, WireAligned, OnlyBadInputEnds
  <2>7. CASE n # 0
    <3>1. pc' = "read" /\ len' = NaluHdr /\ need' = n /\ n > 0 /\ n \in Nat
      BY <1>1, <1>2, <2>1, <2>7
    <3>2. Phase'
      BY <2>2, <2>3, <2>4, <3>1 DEF Phase, Busy, NaluHdr
    <3>3. frame'.total + MesgHdr >= Mod => need' > left'
      BY <1>2, <2>3, <3>1 DEF NaluHdr, MesgHdr
    <3>4. Aligned' /\ Excused'
      BY <1>3, <2>2, <2>3, <3>1, <3>3 DEF Aligned, Excused, Busy, WireAligned, OnlyBadInputEnds
    <3> QED
      BY <2>5, <3>2, <3>4
  <2> QED
    BY <2>6, <2>7
<1>5. CASE type \notin VideoKind
  <2>1. pc' \in {"unit", "discard"} /\ UNCHANGED <<frame, units, held, len>>
    BY <1>5 DEF NaluHeader, n
  <2>2. TypeOK'
    BY <1>1, <1>2, <1>3, <2>1 DEF TypeOK
  <2> QED
    BY <1>2, <1>3, <2>1, <2>2
       DEF Phase, Aligned, Excused, Busy, WireAligned, OnlyBadInputEnds
<1> QED
  BY <1>4, <1>5


LEMMA DiscardInv == ASSUME Inv, NEW k \in 1..left, Discard(k) PROVE Inv'
<1> USE DEF Inv
<1>1. /\ pc = "discard" /\ left' = left - k /\ need' = need - k /\ k <= need
      /\ pc' \in {"unit", "discard"} /\ k \in Nat /\ left \in Nat /\ need \in Nat
      /\ UNCHANGED <<frame, len, held, mesgs, out, owed, units, excuse>>
  BY DEF Discard, TypeOK
<1>2. left' \in 0..MaxBody /\ need' \in 0..(Mod - 1)
  BY <1>1, ModLarge DEF TypeOK
<1>3. TypeOK'
  BY <1>1, <1>2 DEF TypeOK
<1>4. Phase' /\ Aligned'
  BY <1>1 DEF Phase, Aligned, Busy, WireAligned
<1>5. Excused'
  BY <1>1 DEF Excused, Busy, OnlyBadInputEnds
<1> QED
  BY <1>3, <1>4, <1>5

LEMMA TakeInv == ASSUME Inv, Take PROVE Inv'
<1> USE DEF Inv
<1>1. /\ pc = "take" /\ pc' = (IF Room = 0 THEN "send" ELSE "read") /\ held' = held + 1
      /\ UNCHANGED <<left, need, frame, len, mesgs, out, owed, units, excuse>>
      /\ len = 0 /\ need \in Nat /\ held \in Nat
  BY DEF Take, TypeOK, Phase
<1>2. Cap(frame.kind) \in Nat \ {0}
  BY Caps
<1>3. Room = (IF need < Cap(frame.kind) THEN need ELSE Cap(frame.kind))
  BY <1>1, <1>2 DEF Room
<1>4. TypeOK'
  BY <1>1 DEF TypeOK
<1>5. Phase'
  BY <1>1, <1>2, <1>3 DEF Phase, Busy
<1>6. Aligned' /\ Excused'
  BY <1>1 DEF Aligned, WireAligned, Excused, OnlyBadInputEnds, Busy
<1> QED
  BY <1>4, <1>5, <1>6

LEMMA ReadInv == ASSUME Inv, NEW k \in 1..left, Read(k) PROVE Inv'
<1> USE DEF Inv
<1>1. /\ pc = "read" /\ left' = left - k /\ need' = need - k /\ len' = len + k /\ k <= Room
      /\ pc' = (IF k = Room THEN "send" ELSE "read")
      /\ k \in Nat /\ k > 0 /\ left \in Nat /\ k <= left /\ need \in Nat /\ len \in Nat
      /\ UNCHANGED <<frame, held, mesgs, out, owed, units, excuse>>
  BY DEF Read, TypeOK
<1>2. Cap(frame.kind) \in Nat /\ len < Cap(frame.kind) /\ need > 0 /\ frame.total \in Nat
  BY <1>1, Caps DEF Phase, TypeOK
<1>3. k <= need /\ k <= Cap(frame.kind) - len
      /\ (k = Room => k = need \/ k = Cap(frame.kind) - len)
      /\ (k # Room => k < need /\ k < Cap(frame.kind) - len)
  BY <1>1, <1>2 DEF Room
<1>4. left' \in 0..MaxBody /\ need' \in 0..(Mod - 1) /\ len' \in Nat /\ len' <= Cap(frame.kind)
  BY <1>1, <1>2, <1>3, ModLarge DEF TypeOK
<1>5. TypeOK'
  BY <1>1, <1>4 DEF TypeOK
<1>6. Phase'
  BY <1>1, <1>2, <1>3 DEF Phase, Busy
<1>7. Aligned'
  BY <1>1, <1>2 DEF Aligned, WireAligned, Busy, TypeOK
<1>8. Excused'
  BY <1>1 DEF Excused, OnlyBadInputEnds, Busy
<1> QED
  BY <1>5, <1>6, <1>7, <1>8

LEMMA SendInv == ASSUME Inv, Send PROVE Inv'
<1> USE DEF Inv
<1>1. /\ pc = "send" /\ (frame.kind \in WholeKind => need = 0)
      /\ owed' = (IF frame.cont THEN owed ELSE Announced - MesgHdr) - len
      /\ held' = held - 1 /\ len' = 0
      /\ frame' = (IF need > 0 THEN [frame EXCEPT !.cont = TRUE] ELSE NoFrame)
      /\ pc' = (IF need > 0 THEN "take"
                ELSE IF frame.kind \in VideoKind THEN "unit" ELSE "idle")
      /\ UNCHANGED <<left, need, mesgs, units, excuse>>
  BY DEF Send, SendAs
<1>2. /\ need \in Nat /\ len \in Nat /\ held \in Nat /\ held > 0 /\ owed \in Int /\ left \in Nat
      /\ frame \in [kind : FeedKind \cup {"none"}, total : Nat, cont : BOOLEAN]
      /\ frame.kind \in FeedKind
  BY <1>1 DEF TypeOK, Phase, Busy
<1>3. frame.total + MesgHdr < Mod => owed' = need
  <2>1. CASE frame.cont
    BY <1>1, <1>2, <2>1 DEF Aligned, WireAligned
  <2>2. CASE ~frame.cont
    BY <1>1, <1>2, <2>2, AnnouncedLength
  <2> QED
    BY <2>1, <2>2
<1>4. need = 0 => frame.total + MesgHdr < Mod
  BY <1>1, <1>2, ModLarge DEF Aligned, Busy, MesgHdr
<1>5. owed' \in Int
  <2>1. frame.total \in Nat /\ Mod \in Nat \ {0}
    BY <1>2, ModLarge
  <2>2. (IF frame.kind \in WholeKind THEN len ELSE frame.total) \in Int
    BY <1>2, <2>1
  <2>3. Length \in 0..(Mod - 1)
    BY <2>1, <2>2, ModRange DEF Length
  <2>4. Length + MesgHdr \in Int
    BY <2>1, <2>3 DEF MesgHdr
  <2>5. Announced \in 0..(Mod - 1)
    BY <2>1, <2>4, ModRange DEF Announced
  <2> QED
    BY <1>1, <1>2, <2>1, <2>5 DEF MesgHdr
<1>6. CASE need > 0
  <2>1. /\ pc' = "take" /\ frame' = [frame EXCEPT !.cont = TRUE]
        /\ frame.kind \notin WholeKind
    BY <1>1, <1>6
  <2>2. /\ frame' \in [kind : FeedKind \cup {"none"}, total : Nat, cont : BOOLEAN]
        /\ frame'.kind = frame.kind /\ frame'.total = frame.total /\ frame'.cont = TRUE
    BY <1>2, <2>1
  <2>3. TypeOK'
    BY <1>1, <1>2, <1>5, <2>1, <2>2, Caps DEF TypeOK
  <2>4. Phase'
    BY <1>1, <1>2, <1>6, <2>1, <2>2 DEF Phase, Busy
  <2>5. Aligned'
    BY <1>1, <1>2, <1>3, <2>1, <2>2 DEF Aligned, WireAligned, Busy
  <2>6. Excused'
    BY <1>1, <2>1, <2>2 DEF Excused, OnlyBadInputEnds, Busy
  <2> QED
    BY <2>3, <2>4, <2>5, <2>6
<1>7. CASE need = 0
  <2>1. pc' \in {"unit", "idle"} /\ frame' = NoFrame /\ owed' = 0
    BY <1>1, <1>3, <1>4, <1>7
  <2>2. /\ frame' \in [kind : FeedKind \cup {"none"}, total : Nat, cont : BOOLEAN]
        /\ frame'.kind = "none" /\ frame'.cont = FALSE
    BY <2>1 DEF NoFrame
  <2>3. TypeOK'
    BY <1>1, <1>2, <1>5, <2>1, <2>2 DEF TypeOK
  <2>4. Phase'
    BY <1>1, <2>1, <2>2 DEF Phase, Busy, WholeKind
  <2>5. Aligned' /\ Excused'
    BY <2>1, <2>2 DEF Aligned, WireAligned, Busy, Excused, OnlyBadInputEnds
  <2> QED
    BY <2>3, <2>4, <2>5
<1> QED
  BY <1>2, <1>6, <1>7

\* Every step that ends the session has a reason to.
LEMMA StepInv == Inv /\ [Next]_vars => Inv'
<1> SUFFICES ASSUME Inv, [Next]_vars PROVE Inv'
  OBVIOUS
<1>1. CASE UNCHANGED vars
  BY <1>1 DEF vars, Inv, TypeOK, Phase, Aligned, Excused, Busy, WireAligned, OnlyBadInputEnds
<1>2. ASSUME NEW kind \in {"video", "audio"} \cup WholeKind, NEW n \in 0..MaxBody,
             NextMessage(kind, n)
      PROVE  Inv'
  BY <1>2, NextMessageInv
<1>3. ASSUME GiveUp, excuse' = TRUE PROVE Inv'
  BY <1>3, GiveUpInv
<1>4. ASSUME VideoDone PROVE Inv'
  BY <1>4 DEF VideoDone, Inv, TypeOK, Phase, Aligned, Excused, Busy, WireAligned, OnlyBadInputEnds
<1>5. ASSUME Truncated PROVE Inv'
  <2>1. excuse
    BY <1>5 DEF Truncated, Inv, Phase, Excused, Busy
  <2>2. GiveUp /\ excuse' /\ excuse' \in BOOLEAN
    BY <1>5, <2>1 DEF Truncated, Inv, TypeOK
  <2> QED
    BY <2>2, GiveUpInv
<1>6. ASSUME HeaderTooLong PROVE Inv'
  <2>1. pc = "send" /\ frame.kind \in WholeKind /\ need > 0
    BY <1>6 DEF HeaderTooLong
  <2>2. len = AudioCap /\ need + len = frame.total /\ need \in Nat /\ AudioCap \in Nat
    BY <2>1, WholeCaps, SizesAssumption DEF Inv, Phase, Busy, TypeOK
  <2>3. excuse
    BY <2>1, <2>2 DEF Inv, Excused, Busy
  <2>4. GiveUp /\ excuse' /\ excuse' \in BOOLEAN
    BY <1>6, <2>3 DEF HeaderTooLong, Inv, TypeOK
  <2> QED
    BY <2>4, GiveUpInv
<1>7. ASSUME NEW type \in VideoKind \cup {"other"}, NEW d \in Declared, NaluHeader(type, d)
      PROVE  Inv'
  BY <1>7, NaluHeaderInv
<1>8. ASSUME NEW k \in 1..left, Discard(k) \/ Read(k) PROVE Inv'
  BY <1>8, DiscardInv, ReadInv
<1>9. ASSUME CutStep PROVE Inv'
  BY <1>6, <1>9, TakeInv, SendInv DEF CutStep
<1>10. ASSUME ReadStep PROVE Inv'
  BY <1>3, <1>4, <1>5, <1>7, <1>8, <1>10 DEF ReadStep, HeaderCut, DiscardEnds
<1> QED
  BY <1>1, <1>2, <1>3, <1>9, <1>10 DEF Next, SessionEnds, ReadFails

LEMMA InvHolds == Spec => []Inv
BY InitInv, StepInv, PTL DEF Spec

\* The types of the session's state, for any sizes.
THEOREM IngestTypes == Spec => []TypeOK
<1>1. Inv => TypeOK
  BY DEF Inv
<1> QED
  BY <1>1, InvHolds, PTL

\* The announced length of every frame is the number of its bytes sent before
\* the next one (sendVideoData, sendAudioData), although lengths wrap around.
THEOREM WireTheorem == Spec => []WireAligned
<1>1. Inv => WireAligned
  BY DEF Inv, Aligned
<1> QED
  BY <1>1, InvHolds, PTL

\* A session ends only for a reason (ReadN, discardNALU, sendSeqHeader).
THEOREM EndTheorem == Spec => []OnlyBadInputEnds
<1>1. Inv => OnlyBadInputEnds
  BY DEF Inv, Excused
<1> QED
  BY <1>1, InvHolds, PTL

(***************************************************************************)
(* Buffers.                                                                *)
(***************************************************************************)
InHand == IF pc \in {"read", "send"} THEN 1 ELSE 0

Counted ==
  /\ units \in Seq([kind : FeedKind, total : Nat])
  /\ IsFiniteSet(Lost) /\ held = Cardinality(Lost) + InHand

LEMMA LostStart ==
  ASSUME Counted, NEW kind \in FeedKind, NEW total \in Nat, StartFrame(kind, total)
  PROVE  /\ units' \in Seq([kind : FeedKind, total : Nat]) /\ IsFiniteSet(Lost')
         /\ Cardinality(Lost') = Cardinality(Lost)
              + (IF kind \in VideoKind /\ total = NaluHdr THEN 1 ELSE 0)
<1> DEFINE u == [kind |-> kind, total |-> total]
<1>1. /\ u \in [kind : FeedKind, total : Nat] /\ u.kind = kind /\ u.total = total
      /\ units' = Append(units, u) /\ units \in Seq([kind : FeedKind, total : Nat])
  BY DEF StartFrame, Counted
<1> HIDE DEF u
<1>2. /\ units' \in Seq([kind : FeedKind, total : Nat]) /\ Len(units) \in Nat
      /\ DOMAIN units = 1..Len(units) /\ DOMAIN units' = 1..(Len(units) + 1)
      /\ units'[Len(units) + 1] = u /\ \A i \in 1..Len(units) : units'[i] = units[i]
  BY <1>1
<1>3. Len(units) + 1 \notin Lost /\ IsFiniteSet(Lost)
  BY <1>2 DEF Lost, Counted
<1>4. CASE kind \in VideoKind /\ total = NaluHdr
  <2>1. Lost' = Lost \cup {Len(units) + 1}
    BY <1>1, <1>2, <1>4 DEF Lost
  <2> QED
    BY <1>2, <1>3, <1>4, <2>1, FS_AddElement
<1>5. CASE ~(kind \in VideoKind /\ total = NaluHdr)
  <2>1. Lost' = Lost
    BY <1>1, <1>2, <1>5 DEF Lost
  <2>2. Cardinality(Lost) \in Nat
    BY <1>3, FS_CardinalityType
  <2> QED
    BY <1>2, <1>3, <1>5, <2>1, <2>2
<1> QED
  BY <1>4, <1>5

LEMMA LostSame ==
  ASSUME Counted, UNCHANGED units
  PROVE  units' \in Seq([kind : FeedKind, total : Nat]) /\ IsFiniteSet(Lost') /\ Lost' = Lost
BY DEF Counted, Lost

LEMMA CountedStep == Inv /\ Counted /\ [Next]_vars => Counted'
<1> SUFFICES ASSUME Inv, Counted, [Next]_vars PROVE Counted'
  OBVIOUS
<1>1. Cardinality(Lost) \in Nat /\ held = Cardinality(Lost) + InHand
  BY FS_CardinalityType DEF Counted
<1>2. ASSUME UNCHANGED units, held' - InHand' = held - InHand, held' \in Int PROVE Counted'
  BY <1>1, <1>2, LostSame DEF Counted, InHand
<1>3. held \in Int
  BY DEF Inv, TypeOK
<1>4. CASE UNCHANGED vars
  BY <1>2, <1>3, <1>4 DEF vars, InHand
<1>5. ASSUME GiveUp PROVE Counted'
  BY <1>2, <1>3, <1>5 DEF GiveUp, InHand
<1>6. ASSUME NEW kind \in {"video", "audio"} \cup WholeKind, NEW n \in 0..MaxBody,
             NextMessage(kind, n)
      PROVE  Counted'
  <2>1. UNCHANGED held /\ InHand = 0 /\ InHand' = 0
    BY <1>6 DEF NextMessage, InHand
  <2>2. CASE UNCHANGED units
    BY <1>2, <1>3, <2>1, <2>2
  <2>3. CASE (kind \in WholeKind \/ kind = "audio") /\ StartFrame(kind, n)
    <3>1. kind \in FeedKind /\ kind \notin VideoKind /\ n \in Nat
      BY <2>3, ModLarge DEF FeedKind, VideoKind, WholeKind
    <3>2. /\ units' \in Seq([kind : FeedKind, total : Nat]) /\ IsFiniteSet(Lost')
          /\ Cardinality(Lost') = Cardinality(Lost) + 0
      BY <2>3, <3>1, LostStart
    <3> QED
      BY <1>1, <2>1, <3>2 DEF Counted
  <2> QED
    BY <1>6, <2>2, <2>3 DEF NextMessage
<1>7. ASSUME NEW type \in VideoKind \cup {"other"}, NEW d \in Declared, NaluHeader(type, d)
      PROVE  Counted'
  <2>1. CASE type \notin VideoKind
    BY <1>2, <1>3, <1>7, <2>1 DEF NaluHeader, InHand
  <2>2. CASE type \in VideoKind
    <3> DEFINE n == NaluLen(d)
    <3>1. n \in Nat
      BY NaluLens
    <3> HIDE DEF n
    <3>2. /\ StartFrame(type, NaluHdr + n) /\ held' = held + 1
          /\ pc = "unit" /\ pc' = (IF n = 0 THEN "unit" ELSE "read")
      BY <1>7, <2>2 DEF NaluHeader, n
    <3>3. type \in FeedKind /\ NaluHdr + n \in Nat /\ (NaluHdr + n = NaluHdr <=> n = 0)
      BY <2>2, <3>1 DEF FeedKind, NaluHdr
    <3>4. InHand = 0 /\ InHand' = IF n = 0 THEN 0 ELSE 1
      BY <3>2 DEF InHand
    <3>5. /\ units' \in Seq([kind : FeedKind, total : Nat]) /\ IsFiniteSet(Lost')
          /\ Cardinality(Lost') = Cardinality(Lost) + (IF n = 0 THEN 1 ELSE 0)
      BY <2>2, <3>2, <3>3, LostStart
    <3> QED
      BY <1>1, <3>2, <3>4, <3>5 DEF Counted
  <2> QED
    BY <2>1, <2>2
<1>8. ASSUME NEW k \in 1..left, Discard(k) \/ Read(k) PROVE Counted'
  BY <1>2, <1>3, <1>8 DEF Discard, Read, InHand
<1>9. ASSUME VideoDone \/ Take \/ Send PROVE Counted'
  BY <1>2, <1>3, <1>9 DEF VideoDone, Take, Send, SendAs, InHand
<1> QED
  BY <1>4, <1>5, <1>6, <1>7, <1>8, <1>9
     DEF Next, SessionEnds, ReadFails, ReadStep, CutStep, HeaderCut, DiscardEnds, Truncated,
         HeaderTooLong

\* No path leaks a buffer or releases one twice, but for the units of one byte.
THEOREM BuffersTheorem == Spec => []BuffersReturned
<1>1. Init => Counted
  <2> SUFFICES ASSUME Init PROVE Counted
    OBVIOUS
  <2>1. units = <<>> /\ held = 0 /\ pc = "idle"
    BY DEF Init
  <2>2. Lost = {}
    BY <2>1 DEF Lost
  <2> QED
    BY <2>1, <2>2, FS_EmptySet DEF Counted, InHand
<1>2. Counted => BuffersReturned
  BY DEF Counted, BuffersReturned, InHand
<1> QED
  BY <1>1, <1>2, CountedStep, InvHolds, PTL DEF Spec

(***************************************************************************)
(* The session implements MediaFeed.                                       *)
(***************************************************************************)
FedFrame ==
  IF FeedAt \in {"held", "between"} THEN [kind |-> frame.kind, cont |-> frame.cont]
  ELSE [kind |-> "none", cont |-> FALSE]

LEMMA Continued ==
  ASSUME NEW k \in FeedKind, NEW c \in BOOLEAN, NEW f, f = [kind |-> k, cont |-> c]
  PROVE  [f EXCEPT !.cont = TRUE] = [kind |-> k, cont |-> TRUE]
<1> DEFINE g == [f EXCEPT !.cont = TRUE]
<1>1. f \in [kind : FeedKind, cont : BOOLEAN] /\ f.kind = k
  OBVIOUS
<1>2. g \in [kind : FeedKind, cont : BOOLEAN] /\ g.kind = k /\ g.cont = TRUE
  BY <1>1
<1> HIDE DEF g
<1>3. g = [kind |-> k, cont |-> TRUE]
  BY <1>2
<1> QED
  BY <1>3 DEF g

LEMMA FeedStep == Inv /\ [Next]_vars => [Feed!Next]_<<FeedAt, FedFrame>>
<1> SUFFICES ASSUME Inv, [Next]_vars PROVE [Feed!Next]_<<FeedAt, FedFrame>>
  OBVIOUS
<1> DEFINE Goal == [Feed!Next]_<<FeedAt, FedFrame>>
<1>1. CASE UNCHANGED vars
  BY <1>1 DEF vars, FeedAt, FedFrame
<1>2. ASSUME pc \in {"idle", "unit", "discard", "read", "send"}, GiveUp PROVE Goal
  <2>1. FeedAt \in {"idle", "held"} /\ FeedAt' = "over"
    BY <1>2 DEF GiveUp, FeedAt
  <2>2. FedFrame' = Feed!NoFrame
    BY <2>1 DEF FedFrame, Feed!NoFrame
  <2> QED
    BY <2>1, <2>2 DEF Feed!Next, Feed!End, FedFrame
<1>3. ASSUME FeedAt = "idle", FeedAt' = "idle" PROVE Goal
  BY <1>3 DEF FedFrame
<1>4. ASSUME NEW kind \in {"video", "audio"} \cup WholeKind, NEW n \in 0..MaxBody,
             NextMessage(kind, n)
      PROVE  Goal
  <2>1. FeedAt = "idle" /\ FeedAt' = "idle"
    BY <1>4 DEF NextMessage, FeedAt, StartFrame
  <2> QED
    BY <1>3, <2>1
<1>5. ASSUME VideoDone PROVE Goal
  BY <1>3, <1>5 DEF VideoDone, FeedAt
<1>6. ASSUME NEW type \in VideoKind \cup {"other"}, NEW d \in Declared, NaluHeader(type, d)
      PROVE  Goal
  <2>1. pc = "unit" /\ FeedAt = "idle" /\ FedFrame = Feed!NoFrame
    BY <1>6 DEF NaluHeader, FeedAt, FedFrame, Feed!NoFrame
  <2>2. CASE pc' = "read"
    <3>1. type \in FeedKind /\ NaluHdr + NaluLen(d) \in Nat /\ StartFrame(type, NaluHdr + NaluLen(d))
      <4>3. NaluLen(d) \in Nat
        BY NaluLens
      <4>4. type \in VideoKind /\ StartFrame(type, NaluHdr + NaluLen(d))
        BY <1>6, <2>2 DEF NaluHeader
      <4> QED
        BY <4>3, <4>4 DEF FeedKind, NaluHdr
    <3>2. FeedAt' = "held" /\ FedFrame' = [kind |-> type, cont |-> FALSE]
      BY <2>2, <3>1, StartKinds DEF FeedAt, FedFrame
    <3>3. Feed!Open(type)
      BY <2>1, <3>2 DEF Feed!Open, FedFrame
    <3> QED
      BY <3>1, <3>3 DEF Feed!Next
  <2>3. CASE pc' # "read"
    <3>1. pc' \in {"unit", "discard"}
      BY <1>6, <2>3 DEF NaluHeader
    <3> QED
      BY <1>3, <2>1, <3>1 DEF FeedAt
  <2> QED
    BY <2>2, <2>3
<1>7. ASSUME NEW k \in 1..left, Discard(k) PROVE Goal
  BY <1>3, <1>7 DEF Discard, FeedAt
<1>8. ASSUME NEW k \in 1..left, Read(k) PROVE Goal
  <2>1. FeedAt = "held" /\ FeedAt' = "held" /\ frame' = frame
    BY <1>8 DEF Read, FeedAt
  <2> QED
    BY <2>1 DEF FedFrame
<1>9. ASSUME Take PROVE Goal
  <2>1. FeedAt' = "held" /\ frame' = frame /\ FeedAt = (IF frame.cont THEN "between" ELSE "idle")
        /\ frame.kind \in FeedKind /\ frame.cont \in BOOLEAN
    BY <1>9 DEF Take, FeedAt, Inv, Phase, Busy, TypeOK
  <2>2. CASE frame.cont
    BY <2>1, <2>2 DEF FedFrame, Feed!Next, Feed!More
  <2>3. CASE ~frame.cont
    <3>1. Feed!Open(frame.kind)
      BY <2>1, <2>3 DEF FedFrame, Feed!Open
    <3> QED
      BY <2>1, <3>1 DEF Feed!Next
  <2> QED
    BY <2>2, <2>3
<1>10. ASSUME Send PROVE Goal
  <2>1. /\ pc = "send" /\ FeedAt = "held" /\ (frame.kind \in WholeKind => need = 0)
        /\ frame' = (IF need > 0 THEN [frame EXCEPT !.cont = TRUE] ELSE NoFrame)
        /\ pc' = (IF need > 0 THEN "take"
                  ELSE IF frame.kind \in VideoKind THEN "unit" ELSE "idle")
        /\ frame \in [kind : FeedKind \cup {"none"}, total : Nat, cont : BOOLEAN]
    BY <1>10 DEF Send, SendAs, FeedAt, Inv, TypeOK
  <2>2. FedFrame = [kind |-> frame.kind, cont |-> frame.cont]
    BY <2>1 DEF FedFrame
  <2>3. CASE need > 0
    <3>1. frame'.kind = frame.kind /\ frame'.cont = TRUE /\ pc' = "take"
          /\ frame.kind \notin WholeKind
      BY <2>1, <2>3
    <3>2. FeedAt' = "between" /\ FedFrame' = [kind |-> frame.kind, cont |-> TRUE]
      BY <3>1 DEF FeedAt, FedFrame
    <3>3. FedFrame' = [FedFrame EXCEPT !.cont = TRUE]
      <4>1. frame.kind \in FeedKind /\ frame.cont \in BOOLEAN
        BY <2>1 DEF Inv, Phase, Busy
      <4> QED
        BY <2>2, <3>2, <4>1, Continued
    <3>4. FedFrame.kind \notin WholeKind
      BY <2>2, <3>1
    <3> QED
      BY <2>1, <3>2, <3>3, <3>4 DEF Feed!Next, Feed!Forward, FedFrame
  <2>4. CASE ~(need > 0)
    <3>1. FeedAt' = "idle" /\ FedFrame' = Feed!NoFrame
      BY <2>1, <2>4 DEF FeedAt, FedFrame, Feed!NoFrame
    <3> QED
      BY <2>1, <3>1 DEF Feed!Next, Feed!Forward, FedFrame
  <2> QED
    BY <2>3, <2>4
<1>11. ASSUME ReadStep PROVE Goal
  BY <1>2, <1>5, <1>6, <1>7, <1>8, <1>11
     DEF ReadStep, HeaderCut, DiscardEnds, Truncated
<1>12. ASSUME CutStep PROVE Goal
  BY <1>2, <1>9, <1>10, <1>12 DEF CutStep, HeaderTooLong
<1> QED
  BY <1>1, <1>2, <1>4, <1>11, <1>12 DEF Next, SessionEnds, ReadFails

\* A session feeds its publisher as MediaFeed says.
THEOREM FeedTheorem == Spec => ImplementsFeed
<1>1. Init => Feed!Init
  BY DEF Init, FeedAt, Feed!Init, Feed!NoFrame
<1>2. Inv /\ [Next]_vars => [Feed!Next]_<<FeedAt, FedFrame>>
  BY FeedStep
<1> QED
  BY <1>1, <1>2, InvHolds, PTL DEF Spec, ImplementsFeed, Feed!Spec, FedFrame
-----------------------------------------------------------------------------
(***************************************************************************)
(* Induction.  A non-empty set of natural numbers has a least element:     *)
(* what fails for some number fails for a least one.                       *)
(***************************************************************************)
LEMMA Least ==
  ASSUME NEW T \in SUBSET Nat, T # {}
  PROVE  \E x \in T : \A y \in T : x <= y
<1> DEFINE R == {ss \in Nat \X Nat : ss[1] < ss[2]}
<1>1. IsWellFoundedOn(R, Nat)
  BY NatLessThanWellFounded DEF OpToRel
<1>2. \A x \in Nat, y \in Nat : y < x => <<y, x>> \in R
  OBVIOUS
<1> HIDE DEF R
<1>3. PICK x \in T : \A y \in T : <<y, x>> \notin R
  <2>1. T \subseteq Nat
    OBVIOUS
  <2> QED
    BY <1>1, <2>1, WFMin
<1>4. ASSUME NEW y \in T PROVE x <= y
  <2>1. x \in Nat /\ y \in Nat
    OBVIOUS
  <2>2. ~(y < x)
    BY <1>2, <1>3, <2>1, Zenon
  <2> QED
    BY <2>1, <2>2
<1> QED
  BY <1>4

(***************************************************************************)
(* FlattenSeq: the recursive function it is defined by exists, and does    *)
(* not look ahead.                                                         *)
(***************************************************************************)
Joins(f, s, n) == f = [i \in 1..n |-> IF i = 1 THEN s[i] ELSE f[i-1] \o s[i]]

LEMMA JoinsExists ==
  ASSUME NEW s, NEW n \in Nat
  PROVE  \E f : Joins(f, s, n)
<1> DEFINE T == {m \in Nat : ~\E f : Joins(f, s, m)}
<1> SUFFICES ASSUME T # {} PROVE FALSE
  OBVIOUS
<1>1. PICK m \in T : \A k \in T : m <= k
  <2>1. T \in SUBSET Nat
    OBVIOUS
  <2> HIDE DEF T
  <2> QED
    BY <2>1, Least
<1>2. CASE m = 0
  <2> DEFINE f == [i \in 1..0 |-> 0]
  <2>1. f = [i \in 1..0 |-> IF i = 1 THEN s[i] ELSE f[i-1] \o s[i]]
    OBVIOUS
  <2> QED
    BY <1>2, <2>1 DEF Joins
<1>3. CASE m # 0
  <2>1. m - 1 \in Nat /\ m - 1 \notin T
    BY <1>1, <1>3
  <2>2. PICK f : f = [i \in 1..(m-1) |-> IF i = 1 THEN s[i] ELSE f[i-1] \o s[i]]
    BY <2>1 DEF Joins
  <2> DEFINE g == [i \in 1..m |-> IF i = 1 THEN s[i] ELSE f[i-1] \o s[i]]
  <2>3. ASSUME NEW i \in 1..m, i # 1 PROVE g[i - 1] = f[i - 1]
    <3>1. i - 1 \in 1..(m-1) /\ i - 1 \in 1..m
      BY <2>1, <2>3
    <3>2. g[i-1] = IF i-1 = 1 THEN s[i-1] ELSE f[i-1-1] \o s[i-1]
      BY <3>1
    <3>3. f[i-1] = IF i-1 = 1 THEN s[i-1] ELSE f[i-1-1] \o s[i-1]
      BY <2>2, <3>1
    <3> QED
      BY <3>2, <3>3
  <2>4. g = [i \in 1..m |-> IF i = 1 THEN s[i] ELSE g[i-1] \o s[i]]
    BY <2>3
  <2>5. Joins(g, s, m)
    BY <2>4 DEF Joins
  <2> QED
    BY <2>5
<1> QED
  BY <1>2, <1>3

LEMMA JoinsStep ==
  ASSUME NEW f, NEW s, NEW n \in Nat, Joins(f, s, n), NEW i \in 1..n
  PROVE  f[i] = IF i = 1 THEN s[i] ELSE f[i-1] \o s[i]
<1>1. f = [k \in 1..n |-> IF k = 1 THEN s[k] ELSE f[k-1] \o s[k]]
  BY DEF Joins
<1> QED
  BY <1>1

\* The recursion does not look ahead.
LEMMA JoinsAgree ==
  ASSUME NEW f, NEW g, NEW s, NEW t, NEW n \in Nat, NEW m \in Nat, n <= m,
         Joins(f, s, n), Joins(g, t, m), \A i \in 1..n : s[i] = t[i],
         NEW i \in 1..n
  PROVE  f[i] = g[i]
<1> DEFINE T == {k \in 1..n : f[k] # g[k]}
<1> SUFFICES ASSUME T # {} PROVE FALSE
  OBVIOUS
<1>1. PICK k \in T : \A x \in T : k <= x
  <2>1. T \in SUBSET Nat
    OBVIOUS
  <2> HIDE DEF T
  <2> QED
    BY <2>1, Least
<1>2. k \in 1..n /\ k \in 1..m /\ s[k] = t[k] /\ f[k] # g[k]
  OBVIOUS
<1>3. /\ f[k] = IF k = 1 THEN s[k] ELSE f[k-1] \o s[k]
      /\ g[k] = IF k = 1 THEN t[k] ELSE g[k-1] \o t[k]
  BY <1>2, JoinsStep
<1>4. k # 1
  BY <1>2, <1>3
<1>5. k - 1 \in 1..n /\ k - 1 \notin T
  BY <1>1, <1>2, <1>4
<1>6. f[k-1] = g[k-1]
  BY <1>5
<1> QED
  BY <1>2, <1>3, <1>4, <1>6

LEMMA JoinsType ==
  ASSUME NEW S, NEW s \in Seq(Seq(S)), NEW n \in Nat, n <= Len(s), NEW f, Joins(f, s, n),
         NEW i \in 1..n
  PROVE  f[i] \in Seq(S)
<1> DEFINE T == {k \in 1..n : f[k] \notin Seq(S)}
<1> SUFFICES ASSUME T # {} PROVE FALSE
  OBVIOUS
<1>1. PICK k \in T : \A x \in T : k <= x
  <2>1. T \in SUBSET Nat
    OBVIOUS
  <2> HIDE DEF T
  <2> QED
    BY <2>1, Least
<1>2. k \in 1..n /\ s[k] \in Seq(S) /\ f[k] \notin Seq(S)
  OBVIOUS
<1>3. f[k] = IF k = 1 THEN s[k] ELSE f[k-1] \o s[k]
  BY <1>2, JoinsStep
<1>4. k # 1
  BY <1>2, <1>3
<1>5. k - 1 \in 1..n /\ k - 1 \notin T
  BY <1>1, <1>2, <1>4
<1>6. f[k-1] \in Seq(S)
  BY <1>5
<1>7. f[k-1] \o s[k] \in Seq(S)
  BY <1>2, <1>6
<1> QED
  BY <1>2, <1>3, <1>4, <1>7

LEMMA FlattenJoins ==
  ASSUME NEW s, Len(s) \in Nat, Len(s) # 0
  PROVE  \E f : Joins(f, s, Len(s)) /\ FlattenSeq(s) = f[Len(s)]
<1> DEFINE f == CHOOSE f : f = [i \in 1..Len(s) |-> IF i = 1 THEN s[i] ELSE f[i-1] \o s[i]]
<1>1. FlattenSeq(s) = f[Len(s)]
  BY DEF FlattenSeq
<1>2. \E g : g = [i \in 1..Len(s) |-> IF i = 1 THEN s[i] ELSE g[i-1] \o s[i]]
  BY JoinsExists DEF Joins
<1>3. f = [i \in 1..Len(s) |-> IF i = 1 THEN s[i] ELSE f[i-1] \o s[i]]
  BY <1>2
<1> QED
  BY <1>1, <1>3 DEF Joins

LEMMA FlattenAppend ==
  ASSUME NEW S, NEW s \in Seq(Seq(S)), NEW x \in Seq(S)
  PROVE  /\ FlattenSeq(s) \in Seq(S)
         /\ FlattenSeq(Append(s, x)) = FlattenSeq(s) \o x
         /\ FlattenSeq(<<>>) = <<>>
<1> DEFINE r == Append(s, x)
           n == Len(s)
<1>1. /\ r \in Seq(Seq(S)) /\ n \in Nat /\ Len(r) = n + 1 /\ r[n + 1] = x
      /\ \A i \in 1..n : s[i] = r[i]
      /\ n + 1 \in Nat /\ n + 1 \in 1..(n + 1) /\ n + 1 - 1 = n
  OBVIOUS
<1>2. FlattenSeq(<<>>) = <<>>
  BY DEF FlattenSeq
<1> HIDE DEF r, n
<1>3. PICK g : Joins(g, r, n + 1) /\ FlattenSeq(r) = g[n + 1]
  <2>1. Len(r) \in Nat /\ Len(r) # 0 /\ Len(r) = n + 1
    BY <1>1
  <2>2. PICK f : Joins(f, r, Len(r)) /\ FlattenSeq(r) = f[Len(r)]
    BY <2>1, FlattenJoins
  <2>3. Joins(f, r, n + 1) /\ FlattenSeq(r) = f[n + 1]
    BY <2>1, <2>2
  <2> QED
    BY <2>3
<1>4. g[n + 1] = IF n + 1 = 1 THEN r[n + 1] ELSE g[n] \o r[n + 1]
  <2>1. g[n + 1] = IF n + 1 = 1 THEN r[n + 1] ELSE g[n + 1 - 1] \o r[n + 1]
    BY <1>1, <1>3, JoinsStep
  <2> QED
    BY <1>1, <2>1
<1>5. CASE n = 0
  <2>1. s = <<>> /\ FlattenSeq(s) = <<>>
    BY <1>2, <1>5 DEF n
  <2>2. FlattenSeq(r) = x
    BY <1>1, <1>3, <1>4, <1>5
  <2>3. <<>> \o x = x
    BY ConcatEmptySeq
  <2>4. <<>> \in Seq(S)
    OBVIOUS
  <2> QED
    BY <1>2, <2>1, <2>2, <2>3, <2>4 DEF r
<1>6. CASE n # 0
  <2>1. PICK f : Joins(f, s, n) /\ FlattenSeq(s) = f[n]
    BY <1>1, <1>6, FlattenJoins DEF n
  <2>2. n \in 1..n /\ n <= n + 1 /\ n + 1 \in Nat /\ n <= Len(s)
    BY <1>1, <1>6 DEF n
  <2>3. f[n] = g[n]
    <3>1. PICK m \in Nat : m = n + 1
      BY <1>1
    <3>2. Joins(g, r, m) /\ n <= m
      BY <1>3, <2>2, <3>1
    <3>3. Joins(f, s, n) /\ n \in Nat /\ n \in 1..n /\ \A i \in 1..n : s[i] = r[i]
      BY <1>1, <2>1, <2>2
    <3> QED
      BY <3>2, <3>3, JoinsAgree
  <2>4. f[n] \in Seq(S)
    BY <1>1, <2>1, <2>2, JoinsType
  <2>5. FlattenSeq(r) = g[n] \o x
    <3>1. n + 1 # 1
      BY <1>1, <1>6
    <3>2. g[n + 1] = g[n] \o r[n + 1]
      BY <1>4, <3>1
    <3> QED
      BY <1>1, <1>3, <3>2
  <2> QED
    BY <1>2, <2>1, <2>3, <2>4, <2>5 DEF r
<1> QED
  BY <1>5, <1>6
(***************************************************************************)
(* How a frame is cut.                                                     *)
(***************************************************************************)
Unit  == [kind : FeedKind, total : Nat]
Piece == [kind : FeedKind, cont : BOOLEAN, size : Int]

LEMMA Division ==
  ASSUME NEW c \in Nat \ {0}, NEW x \in Nat
  PROVE  x \div c \in Nat /\ c * (x \div c) <= x /\ x < c * (x \div c) + c
  OBVIOUS

LEMMA Multiples ==
  ASSUME NEW c \in Nat \ {0}, NEW a \in Nat, NEW b \in Nat
  PROVE  /\ c * a \in Nat /\ c * (a + 1) = c * a + c
         /\ a < b <=> c * a < c * b
         /\ a < b => c * a + c <= c * b
  OBVIOUS

\* Rounding up.
LEMMA RoundedUp ==
  ASSUME NEW c \in Nat \ {0}, NEW t \in Nat, NEW j \in Nat, c * j < t
  PROVE  /\ (t + c - 1) \div c \in Nat /\ j + 1 <= (t + c - 1) \div c
         /\ t <= c * j + c => (t + c - 1) \div c = j + 1
<1> DEFINE p == (t + c - 1) \div c
<1>1. t + c - 1 \in Nat
  OBVIOUS
<1>2. p \in Nat /\ c * p <= t + c - 1 /\ t + c - 1 < c * p + c
  BY <1>1, Division
<1> HIDE DEF p
<1>3. c * p \in Nat /\ c * j \in Nat /\ c * (p + 1) = c * p + c
  BY <1>2, Multiples
<1>4. j < p
  <2>1. c * j < c * (p + 1) /\ t <= c * p /\ c * j < c * p
    BY <1>2, <1>3
  <2> QED
    BY <1>2, <2>1, Multiples
<1>5. ASSUME t <= c * j + c PROVE p = j + 1
  <2>1. ~(j + 1 < p)
    <3> SUFFICES ASSUME j + 1 < p PROVE FALSE
      OBVIOUS
    <3>1. c * (j + 1) + c <= c * p /\ c * (j + 1) = c * j + c
      BY <1>2, Multiples
    <3> QED
      BY <1>2, <1>3, <1>5, <3>1
  <2> QED
    BY <1>2, <1>4, <2>1
<1> QED
  BY <1>2, <1>4, <1>5 DEF p

Pieces(unit) ==
  IF unit.kind \in WholeKind THEN 1 ELSE (unit.total + Cap(unit.kind) - 1) \div Cap(unit.kind)

LEMMA CutIs ==
  ASSUME NEW unit \in Unit
  PROVE  /\ Pieces(unit) \in Nat
         /\ unit.kind \in VideoKind /\ unit.total = NaluHdr => Cut(unit) = <<>>
         /\ ~(unit.kind \in VideoKind /\ unit.total = NaluHdr) =>
              /\ Len(Cut(unit)) = Pieces(unit)
              /\ \A i \in 1..Pieces(unit) :
                   LET rest == unit.total - Cap(unit.kind) * (i - 1) IN
                   Cut(unit)[i] = [kind |-> unit.kind, cont |-> i > 1,
                      size |-> IF rest < Cap(unit.kind) THEN rest ELSE Cap(unit.kind)]
         /\ Cut(unit) \in Seq(Piece)
<1> DEFINE c == Cap(unit.kind)
<1>1. c \in Nat \ {0} /\ unit.total \in Nat /\ unit.kind \in FeedKind
  BY Caps DEF Unit
<1> HIDE DEF c
<1>2. Pieces(unit) \in Nat
  <2>1. unit.total + c - 1 \in Nat
    BY <1>1
  <2>2. (unit.total + c - 1) \div c \in Nat
    BY <1>1, <2>1, Division
  <2> QED
    BY <2>2 DEF Pieces, c
<1>3. CASE unit.kind \in VideoKind /\ unit.total = NaluHdr
  <2>1. Cut(unit) = <<>>
    BY <1>3 DEF Cut
  <2> QED
    BY <1>2, <1>3, <2>1
<1>4. CASE ~(unit.kind \in VideoKind /\ unit.total = NaluHdr)
  <2> DEFINE rest(i) == unit.total - c * (i - 1)
             piece(i) == [kind |-> unit.kind, cont |-> i > 1,
                          size |-> IF rest(i) < c THEN rest(i) ELSE c]
  <2>1. Cut(unit) = [i \in 1..Pieces(unit) |-> piece(i)]
    BY <1>4 DEF Cut, Pieces, c
  <2>2. ASSUME NEW i \in 1..Pieces(unit) PROVE piece(i) \in Piece
    <3>1. c * (i - 1) \in Int /\ rest(i) \in Int
      BY <1>1, <1>2
    <3>2. (i > 1) \in BOOLEAN /\ (IF rest(i) < c THEN rest(i) ELSE c) \in Int
      BY <1>1, <3>1
    <3> QED
      BY <1>1, <3>2 DEF Piece
  <2>3. Cut(unit) \in Seq(Piece) /\ Len(Cut(unit)) = Pieces(unit)
    <3> HIDE DEF piece
    <3> QED
      BY <1>2, <2>1, <2>2
  <2>4. \A i \in 1..Pieces(unit) : Cut(unit)[i] = piece(i)
    <3> HIDE DEF piece
    <3> QED
      BY <2>1
  <2> QED
    BY <1>2, <1>4, <2>3, <2>4 DEF c
<1> QED
  BY <1>3, <1>4

\* The buffer after j full ones.
LEMMA CutPiece ==
  ASSUME NEW unit \in Unit, ~(unit.kind \in VideoKind /\ unit.total = NaluHdr),
         NEW j \in Nat, NEW rest \in Nat, unit.total = Cap(unit.kind) * j + rest,
         unit.kind \in WholeKind => j = 0,
         unit.kind \notin WholeKind => rest > 0
  PROVE  /\ j + 1 <= Len(Cut(unit))
         /\ \E cont \in BOOLEAN :
              /\ cont <=> j > 0
              /\ Cut(unit)[j + 1] = [kind |-> unit.kind, cont |-> cont,
                   size |-> IF rest < Cap(unit.kind) THEN rest ELSE Cap(unit.kind)]
         /\ rest <= Cap(unit.kind) => Len(Cut(unit)) = j + 1
<1> DEFINE c == Cap(unit.kind)
<1>1. c \in Nat \ {0} /\ unit.total \in Nat
  BY Caps DEF Unit
<1>2. c * j \in Nat /\ unit.total = c * j + rest
  BY <1>1, Multiples
<1>3. j + 1 <= Pieces(unit) /\ (rest <= c => Pieces(unit) = j + 1)
  <2>1. CASE unit.kind \in WholeKind
    BY <2>1 DEF Pieces
  <2>2. CASE unit.kind \notin WholeKind
    <3>1. c * j < unit.total /\ (rest <= c => unit.total <= c * j + c)
      BY <1>1, <1>2, <2>2
    <3> HIDE DEF c
    <3>2. /\ j + 1 <= (unit.total + c - 1) \div c
          /\ unit.total <= c * j + c => (unit.total + c - 1) \div c = j + 1
      BY <1>1, <3>1, RoundedUp
    <3> QED
      BY <2>2, <3>1, <3>2 DEF Pieces, c
  <2> QED
    BY <2>1, <2>2
<1>4. Pieces(unit) \in Nat /\ Len(Cut(unit)) = Pieces(unit)
      /\ j + 1 \in 1..Pieces(unit) /\ j + 1 - 1 = j
  BY <1>3, CutIs
<1>5. unit.total - c * (j + 1 - 1) = rest
  BY <1>2, <1>4
<1>6. PICK cont \in BOOLEAN : cont = (j + 1 > 1)
  <2>1. (j + 1 > 1) \in BOOLEAN
    OBVIOUS
  <2> QED
    BY <2>1, Zenon
<1>7. Cut(unit)[j + 1] = [kind |-> unit.kind, cont |-> j + 1 > 1,
                          size |-> IF rest < c THEN rest ELSE c]
  BY <1>4, <1>5, CutIs
<1>8. cont <=> j > 0
  <2>1. j + 1 > 1 <=> j > 0
    OBVIOUS
  <2> QED
    BY <1>6, <2>1, Zenon
<1>9. Cut(unit)[j + 1] = [kind |-> unit.kind, cont |-> cont,
                          size |-> IF rest < c THEN rest ELSE c]
  BY <1>6, <1>7, Zenon
<1> QED
  BY <1>3, <1>4, <1>8, <1>9
(***************************************************************************)
(* OutputExact.  While a frame is cut, what has been sent is the frames    *)
(* before it and as many of its buffers as the bytes read account for.     *)
(***************************************************************************)
Sent(us) == FlattenSeq([i \in DOMAIN us |-> Cut(us[i])])

Before  == SubSeq(units, 1, Len(units) - 1)
Current == units[Len(units)]
Gone    == Len(out) - Len(Sent(Before))

Partial ==
  /\ units # <<>> /\ Current.kind = frame.kind /\ Current.total = frame.total
  /\ ~(frame.kind \in VideoKind /\ frame.total = NaluHdr)
  /\ Gone \in Nat /\ Gone <= Len(Cut(Current))
  /\ out = Sent(Before) \o SubSeq(Cut(Current), 1, Gone)
  /\ Cap(frame.kind) * Gone + len + need = frame.total
  /\ frame.cont <=> Gone > 0

OutInv ==
  /\ units \in Seq(Unit)
  /\ pc \in {"idle", "unit", "discard"} => out = Sent(units)
  /\ Busy => Partial
  /\ pc = "over" => IsPrefix(out, Sent(units))
  /\ pc = "send" /\ frame.kind \notin WholeKind => len > 0

LEMMA SentAppend ==
  ASSUME NEW us \in Seq(Unit), NEW u \in Unit
  PROVE  /\ Sent(us) \in Seq(Piece) /\ Cut(u) \in Seq(Piece)
         /\ Sent(Append(us, u)) = Sent(us) \o Cut(u)
<1> DEFINE s == [i \in DOMAIN us |-> Cut(us[i])]
           v == Append(us, u)
           r == [i \in DOMAIN v |-> Cut(v[i])]
<1>1. \A i \in DOMAIN us : Cut(us[i]) \in Seq(Piece)
  BY CutIs
<1>2. Cut(u) \in Seq(Piece)
  BY CutIs
<1>3. /\ DOMAIN us = 1..Len(us) /\ Len(us) \in Nat /\ DOMAIN v = 1..(Len(us) + 1)
      /\ v[Len(us) + 1] = u /\ \A i \in 1..Len(us) : v[i] = us[i]
  OBVIOUS
<1>4. s \in Seq(Seq(Piece)) /\ Len(s) = Len(us)
  BY <1>1, <1>3
<1> HIDE DEF v
<1>5. r = Append(s, Cut(u))
  <2>1. r \in Seq(Seq(Piece)) /\ Len(r) = Len(us) + 1
    BY <1>1, <1>2, <1>3
  <2>2. Append(s, Cut(u)) \in Seq(Seq(Piece)) /\ Len(Append(s, Cut(u))) = Len(us) + 1
    BY <1>2, <1>4
  <2>3. ASSUME NEW i \in 1..(Len(us) + 1) PROVE r[i] = Append(s, Cut(u))[i]
    BY <1>3, <1>4
  <2> HIDE DEF r, s
  <2> QED
    BY <1>3, <2>1, <2>2, <2>3, SeqEqual
<1> HIDE DEF r, s
<1>6. FlattenSeq(s) \in Seq(Piece) /\ FlattenSeq(r) = FlattenSeq(s) \o Cut(u)
  BY <1>2, <1>4, <1>5, FlattenAppend
<1> QED
  BY <1>2, <1>6 DEF r, s, v, Sent

LEMMA SentNothing == Sent(<<>>) = <<>>
<1>1. [i \in DOMAIN <<>> |-> Cut(<<>>[i])] = <<>>
  OBVIOUS
<1> QED
  BY <1>1 DEF FlattenSeq, Sent

LEMMA FirstPart ==
  ASSUME NEW S, NEW q \in Seq(S), NEW j \in Nat, j <= Len(q)
  PROVE  /\ SubSeq(q, 1, j) \in Seq(S) /\ Len(SubSeq(q, 1, j)) = j
         /\ \A i \in 1..j : SubSeq(q, 1, j)[i] = q[i]
  OBVIOUS

\* The frame in hand is the last one.
LEMMA LastUnit ==
  ASSUME units \in Seq(Unit), units # <<>>
  PROVE  /\ Before \in Seq(Unit) /\ Current \in Unit /\ units = Append(Before, Current)
         /\ Sent(Before) \in Seq(Piece) /\ Cut(Current) \in Seq(Piece)
         /\ Sent(units) = Sent(Before) \o Cut(Current)
<1>1. Before \in Seq(Unit) /\ Current \in Unit /\ units = Append(Before, Current)
  <2>1. Len(units) \in Nat /\ Len(units) > 0 /\ Current \in Unit
    BY DEF Current
  <2>2. /\ Before \in Seq(Unit) /\ Len(Before) = Len(units) - 1
        /\ \A i \in 1..(Len(units) - 1) : Before[i] = units[i]
    <3>1. Len(units) - 1 \in Nat /\ Len(units) - 1 <= Len(units)
      BY <2>1
    <3> QED
      BY <2>1, <3>1, FirstPart DEF Before
  <2>3. Append(Before, Current) \in Seq(Unit) /\ Len(Append(Before, Current)) = Len(units)
    BY <2>1, <2>2
  <2>4. ASSUME NEW i \in 1..Len(units) PROVE units[i] = Append(Before, Current)[i]
    BY <2>1, <2>2 DEF Current
  <2> QED
    BY <2>1, <2>2, <2>3, <2>4, SeqEqual
<1> QED
  BY <1>1, SentAppend

\* Sequences: one more buffer, all buffers, and a part of them.
LEMMA OneMore ==
  ASSUME NEW S, NEW a \in Seq(S), NEW q \in Seq(S), NEW j \in Nat, j + 1 <= Len(q)
  PROVE  Append(a \o SubSeq(q, 1, j), q[j + 1]) = a \o SubSeq(q, 1, j + 1)
<1>1. /\ SubSeq(q, 1, j) \in Seq(S) /\ Len(SubSeq(q, 1, j)) = j
      /\ \A i \in 1..j : SubSeq(q, 1, j)[i] = q[i]
  OBVIOUS
<1>2. /\ SubSeq(q, 1, j + 1) \in Seq(S) /\ Len(SubSeq(q, 1, j + 1)) = j + 1
      /\ \A i \in 1..(j + 1) : SubSeq(q, 1, j + 1)[i] = q[i]
  OBVIOUS
<1> DEFINE b == SubSeq(q, 1, j)
           d == SubSeq(q, 1, j + 1)
<1> HIDE DEF b, d
<1>3. q[j + 1] \in S /\ Len(a) \in Nat
  OBVIOUS
<1>4. /\ Append(a \o b, q[j + 1]) \in Seq(S)
      /\ Len(Append(a \o b, q[j + 1])) = Len(a) + j + 1
      /\ a \o d \in Seq(S) /\ Len(a \o d) = Len(a) + j + 1
  BY <1>1, <1>2, <1>3 DEF b, d
<1>5. ASSUME NEW i \in 1..(Len(a) + j + 1) PROVE Append(a \o b, q[j + 1])[i] = (a \o d)[i]
  <2>1. CASE i <= Len(a)
    BY <1>1, <1>2, <1>3, <2>1 DEF b, d
  <2>2. CASE i > Len(a) /\ i <= Len(a) + j
    <3>1. i - Len(a) \in 1..j
      BY <1>3, <2>2
    <3> QED
      BY <1>1, <1>2, <1>3, <2>2, <3>1 DEF b, d
  <2>3. CASE i = Len(a) + j + 1
    BY <1>1, <1>2, <1>3, <2>3 DEF b, d
  <2>4. i <= Len(a) \/ (i > Len(a) /\ i <= Len(a) + j) \/ i = Len(a) + j + 1
    BY <1>3
  <2> QED
    BY <2>1, <2>2, <2>3, <2>4
<1>6. Append(a \o b, q[j + 1]) = a \o d
  BY <1>4, <1>5, SeqEqual
<1> QED
  BY <1>6 DEF b, d

LEMMA PartOf ==
  ASSUME NEW S, NEW a \in Seq(S), NEW q \in Seq(S), NEW j \in Nat, j <= Len(q)
  PROVE  /\ IsPrefix(a \o SubSeq(q, 1, j), a \o q)
         /\ Len(a \o SubSeq(q, 1, j)) = Len(a) + j
         /\ j = Len(q) => SubSeq(q, 1, j) = q
         /\ IsPrefix(a, a)
         /\ a \o SubSeq(q, 1, 0) = a
<1> DEFINE b == SubSeq(q, 1, j)
<1>1. /\ b \in Seq(S) /\ Len(b) = j /\ \A i \in 1..j : b[i] = q[i]
      /\ Len(a) \in Nat /\ Len(q) \in Nat
  OBVIOUS
<1> HIDE DEF b
<1>2. /\ a \o b \in Seq(S) /\ Len(a \o b) = Len(a) + j
      /\ a \o q \in Seq(S) /\ Len(a \o q) = Len(a) + Len(q)
  BY <1>1
<1>3. ASSUME NEW i \in 1..(Len(a) + j) PROVE (a \o b)[i] = (a \o q)[i]
  BY <1>1
<1>4. IsPrefix(a \o b, a \o q)
  <2>1. /\ SubSeq(a \o b, 1, Len(a) + j) \in Seq(S)
        /\ Len(SubSeq(a \o b, 1, Len(a) + j)) = Len(a) + j
        /\ \A i \in 1..(Len(a) + j) : SubSeq(a \o b, 1, Len(a) + j)[i] = (a \o b)[i]
    BY <1>1, <1>2, SubSeqProperties
  <2>2. /\ SubSeq(a \o q, 1, Len(a) + j) \in Seq(S)
        /\ Len(SubSeq(a \o q, 1, Len(a) + j)) = Len(a) + j
        /\ \A i \in 1..(Len(a) + j) : SubSeq(a \o q, 1, Len(a) + j)[i] = (a \o q)[i]
    BY <1>1, <1>2, SubSeqProperties
  <2>3. SubSeq(a \o b, 1, Len(a) + j) = SubSeq(a \o q, 1, Len(a) + j)
    BY <1>3, <2>1, <2>2, SeqEqual
  <2> QED
    BY <1>1, <1>2, <2>3 DEF IsPrefix
<1>5. j = Len(q) => b = q
  BY <1>1, SeqEqual
<1>6. IsPrefix(a, a)
  BY <1>1 DEF IsPrefix
<1>7. SubSeq(q, 1, 0) = <<>> /\ a \o <<>> = a
  BY ConcatEmptySeq
<1> QED
  BY <1>2, <1>4, <1>5, <1>6, <1>7 DEF b

LEMMA StartOut ==
  ASSUME OutInv, out = Sent(units), NEW kind \in FeedKind, NEW total \in Nat,
         StartFrame(kind, total), UNCHANGED out
  PROVE  /\ units' \in Seq(Unit) /\ units' # <<>>
         /\ Current'.kind = kind /\ Current'.total = total /\ Before' = units
         /\ Gone' = 0
         /\ out' = Sent(Before') \o SubSeq(Cut(Current'), 1, 0)
         /\ kind \in VideoKind /\ total = NaluHdr => out' = Sent(units')
<1> DEFINE u == [kind |-> kind, total |-> total]
<1>1. u \in Unit /\ u.kind = kind /\ u.total = total /\ units' = Append(units, u)
      /\ units \in Seq(Unit)
  BY DEF Unit, StartFrame, OutInv
<1> HIDE DEF u
<1>2. /\ units' \in Seq(Unit) /\ units' # <<>> /\ Len(units') = Len(units) + 1
      /\ Len(units) \in Nat /\ units'[Len(units) + 1] = u
      /\ \A i \in 1..Len(units) : units'[i] = units[i]
  BY <1>1
<1>3. Current' = u
  BY <1>2 DEF Current
<1>4. Before' = units
  <2>1. Before' = SubSeq(units', 1, Len(units))
    BY <1>2 DEF Before
  <2>2. /\ SubSeq(units', 1, Len(units)) \in Seq(Unit)
        /\ Len(SubSeq(units', 1, Len(units))) = Len(units)
        /\ \A i \in 1..Len(units) : SubSeq(units', 1, Len(units))[i] = units'[i]
    BY <1>2, FirstPart
  <2> QED
    BY <1>1, <1>2, <2>1, <2>2, SeqEqual
<1>5. Sent(units) \in Seq(Piece) /\ Cut(u) \in Seq(Piece) /\ Sent(units') = Sent(units) \o Cut(u)
  BY <1>1, SentAppend
<1>6. Gone' = 0
  BY <1>4, <1>5 DEF Gone
<1>7. Sent(units) \o SubSeq(Cut(u), 1, 0) = Sent(units)
  BY <1>5, PartOf
<1>8. ASSUME kind \in VideoKind, total = NaluHdr PROVE out' = Sent(units')
  <2>1. Cut(u) = <<>>
    BY <1>1, <1>8, CutIs
  <2>2. Sent(units) \o <<>> = Sent(units)
    BY <1>5, ConcatEmptySeq
  <2> QED
    BY <1>5, <2>1, <2>2
<1> QED
  BY <1>1, <1>2, <1>3, <1>4, <1>6, <1>7, <1>8

\* What has been sent is a prefix at any time.
LEMMA SentPrefix ==
  ASSUME Inv, OutInv
  PROVE  IsPrefix(out, Sent(units))
<1>1. CASE Busy
  <2>1. Partial /\ units \in Seq(Unit)
    BY <1>1 DEF OutInv
  <2>2. /\ Sent(Before) \in Seq(Piece) /\ Cut(Current) \in Seq(Piece)
        /\ Sent(units) = Sent(Before) \o Cut(Current)
    BY <2>1, LastUnit DEF Partial
  <2>3. Gone \in Nat /\ Gone <= Len(Cut(Current))
        /\ out = Sent(Before) \o SubSeq(Cut(Current), 1, Gone)
    BY <2>1 DEF Partial
  <2> QED
    BY <2>2, <2>3, PartOf
<1>2. CASE ~Busy /\ pc # "over"
  <2>1. out = Sent(units) /\ units \in Seq(Unit)
    BY <1>2 DEF OutInv, Inv, TypeOK, Busy
  <2>2. Sent(units) \in Seq(Piece) /\ 0 \in Nat
    <3>1. CASE units = <<>>
      <4>1. <<>> \in Seq(Piece)
        OBVIOUS
      <4> QED
        BY <3>1, <4>1, SentNothing
    <3>2. CASE units # <<>>
      <4>1. /\ Sent(Before) \in Seq(Piece) /\ Cut(Current) \in Seq(Piece)
            /\ Sent(units) = Sent(Before) \o Cut(Current)
        BY <2>1, <3>2, LastUnit
      <4> QED
        BY <4>1
    <3> QED
      BY <3>1, <3>2
  <2>3. 0 <= Len(Sent(units))
    BY <2>2
  <2> QED
    BY <2>1, <2>2, <2>3, PartOf
<1>3. CASE pc = "over"
  BY <1>3 DEF OutInv
<1> QED
  BY <1>1, <1>2, <1>3

LEMMA GiveUpOut ==
  ASSUME Inv, OutInv, GiveUp
  PROVE  OutInv'
<1>1. pc' = "over" /\ UNCHANGED <<out, units>>
  BY DEF GiveUp
<1> QED
  BY <1>1, SentPrefix DEF OutInv, Busy

LEMMA LastInSeq ==
  ASSUME NEW S, NEW s \in Seq(S), s # <<>> PROVE s[Len(s)] \in S
  OBVIOUS

LEMMA SendOut ==
  ASSUME Inv, OutInv, Send
  PROVE  OutInv'
<1>1. /\ pc = "send" /\ (frame.kind \in WholeKind => need = 0)
      /\ out' = Append(out, [kind |-> frame.kind, cont |-> frame.cont, size |-> len])
      /\ len' = 0
      /\ frame' = (IF need > 0 THEN [frame EXCEPT !.cont = TRUE] ELSE NoFrame)
      /\ pc' = (IF need > 0 THEN "take"
                ELSE IF frame.kind \in VideoKind THEN "unit" ELSE "idle")
      /\ UNCHANGED <<need, units>>
  BY DEF Send, SendAs
<1>2. /\ need \in Nat /\ len \in Nat /\ frame.kind \in FeedKind /\ frame.total \in Nat
      /\ frame \in [kind : FeedKind \cup {"none"}, total : Nat, cont : BOOLEAN]
      /\ need = 0 \/ len = Cap(frame.kind)
      /\ len <= Cap(frame.kind) /\ frame.cont \in BOOLEAN
      /\ frame.kind \in WholeKind => ~frame.cont
  <2>1. /\ frame \in [kind : FeedKind \cup {"none"}, total : Nat, cont : BOOLEAN]
        /\ len \in Nat /\ (frame.kind # "none" => len <= Cap(frame.kind))
    BY DEF Inv, TypeOK
  <2>2. need \in Nat
    BY ModLarge DEF Inv, TypeOK
  <2>3. /\ frame.kind \in FeedKind /\ (need = 0 \/ len = Cap(frame.kind))
        /\ frame.kind \in WholeKind => ~frame.cont
    BY <1>1 DEF Inv, Phase, Busy
  <2>4. frame.kind # "none"
    BY <2>3 DEF FeedKind, VideoKind, WholeKind
  <2> QED
    BY <2>1, <2>2, <2>3, <2>4
<1>3. Partial /\ units \in Seq(Unit) /\ (frame.kind \notin WholeKind => len > 0)
  BY <1>1 DEF OutInv, Busy
<1>4. /\ units # <<>> /\ Current.kind = frame.kind /\ Current.total = frame.total
      /\ ~(frame.kind \in VideoKind /\ frame.total = NaluHdr)
      /\ Gone \in Nat /\ Gone <= Len(Cut(Current))
      /\ out = Sent(Before) \o SubSeq(Cut(Current), 1, Gone)
      /\ Cap(frame.kind) * Gone + len + need = frame.total
      /\ (frame.cont <=> Gone > 0)
  BY <1>3 DEF Partial
<1>5. /\ Sent(Before) \in Seq(Piece) /\ Cut(Current) \in Seq(Piece)
      /\ Sent(units) = Sent(Before) \o Cut(Current) /\ Current \in Unit
  BY <1>3, <1>4, LastUnit
<1>6. Cap(frame.kind) \in Nat \ {0}
  BY Caps
<1> DEFINE j == Gone
           c == Cap(frame.kind)
           rest == len + need
<1>7. /\ j \in Nat /\ rest \in Nat /\ c * j \in Nat /\ Current.total = c * j + rest
      /\ c * (j + 1) = c * j + c
  BY <1>2, <1>4, <1>6, Multiples
<1>8. frame.kind \in WholeKind => j = 0
  BY <1>2, <1>4
<1>9. (IF rest < c THEN rest ELSE c) = len
  BY <1>2, <1>6
<1> HIDE DEF j, c, rest
<1>10. /\ j + 1 <= Len(Cut(Current))
       /\ \E cont \in BOOLEAN :
            /\ cont <=> j > 0
            /\ Cut(Current)[j + 1] = [kind |-> Current.kind, cont |-> cont,
                                      size |-> IF rest < c THEN rest ELSE c]
       /\ rest <= c => Len(Cut(Current)) = j + 1
  <2>1. /\ Current.kind = frame.kind /\ Current.total = c * j + rest
        /\ ~(Current.kind \in VideoKind /\ Current.total = NaluHdr)
        /\ (Current.kind \in WholeKind => j = 0)
        /\ c = Cap(Current.kind)
    BY <1>4, <1>7, <1>8 DEF c
  <2>2. Current.kind \notin WholeKind => rest > 0
    BY <1>2, <1>3, <1>4 DEF rest
  <2> QED
    BY <1>5, <1>7, <2>1, <2>2, CutPiece
<1>11. Cut(Current)[j + 1] = [kind |-> frame.kind, cont |-> frame.cont, size |-> len]
  <2>1. PICK cont \in BOOLEAN :
            /\ cont <=> j > 0
            /\ Cut(Current)[j + 1] = [kind |-> Current.kind, cont |-> cont,
                                      size |-> IF rest < c THEN rest ELSE c]
    BY <1>10
  <2>2. cont = frame.cont
    <3>1. frame.cont <=> j > 0
      BY <1>4 DEF j
    <3> QED
      BY <1>2, <2>1, <3>1, Zenon
  <2> QED
    BY <1>4, <1>9, <2>1, <2>2
<1>12. out' = Sent(Before) \o SubSeq(Cut(Current), 1, j + 1)
  <2>1. out' = Append(out, Cut(Current)[j + 1])
    BY <1>1, <1>11
  <2>2. out = Sent(Before) \o SubSeq(Cut(Current), 1, j)
    BY <1>4 DEF j
  <2> QED
    BY <1>5, <1>7, <1>10, <2>1, <2>2, OneMore
<1>13. Before' = Before /\ Current' = Current
  BY <1>1 DEF Before, Current
<1>14. CASE need > 0
  <2>1. pc' = "take" /\ frame' = [frame EXCEPT !.cont = TRUE] /\ frame.kind \notin WholeKind
        /\ len = c
    BY <1>1, <1>2, <1>14 DEF c
  <2>2. frame'.kind = frame.kind /\ frame'.total = frame.total /\ frame'.cont = TRUE
    BY <1>2, <2>1
  <2>3. Gone' = j + 1
    <3>1. Len(out') = Len(Sent(Before)) + (j + 1)
      BY <1>5, <1>7, <1>10, <1>12, PartOf
    <3>2. Len(Sent(Before)) \in Nat
      BY <1>5
    <3> QED
      BY <1>7, <1>13, <3>1, <3>2 DEF Gone
  <2>4. c * (j + 1) + len' + need' = frame.total
    BY <1>1, <1>2, <1>4, <1>7, <2>1 DEF rest
  <2>5. Partial'
    <3>1. /\ units' # <<>> /\ Current'.kind = frame'.kind /\ Current'.total = frame'.total
          /\ ~(frame'.kind \in VideoKind /\ frame'.total = NaluHdr)
      BY <1>1, <1>4, <1>13, <2>2
    <3>2. Gone' \in Nat /\ Gone' <= Len(Cut(Current')) /\ Gone' > 0
      BY <1>7, <1>10, <1>13, <2>3
    <3>3. out' = Sent(Before') \o SubSeq(Cut(Current'), 1, Gone')
      BY <1>12, <1>13, <2>3
    <3>4. Cap(frame'.kind) * Gone' + len' + need' = frame'.total
      BY <2>2, <2>3, <2>4 DEF c
    <3>5. frame'.cont <=> Gone' > 0
      BY <2>2, <3>2
    <3> QED
      BY <3>1, <3>2, <3>3, <3>4, <3>5 DEF Partial
  <2> QED
    BY <1>1, <1>3, <2>1, <2>5 DEF OutInv, Busy
<1>15. CASE ~(need > 0)
  <2>1. pc' \in {"unit", "idle"} /\ rest <= c
    BY <1>1, <1>2, <1>15 DEF rest, c
  <2>2. out' = Sent(units)
    <3>1. SubSeq(Cut(Current), 1, j + 1) = Cut(Current)
      BY <1>5, <1>7, <1>10, <2>1, PartOf
    <3> QED
      BY <1>5, <1>12, <3>1
  <2> QED
    BY <1>1, <1>3, <2>1, <2>2 DEF OutInv, Busy
<1> QED
  BY <1>14, <1>15

LEMMA NextMessageOut ==
  ASSUME Inv, OutInv, NEW kind \in {"video", "audio"} \cup WholeKind, NEW n \in 0..MaxBody,
         NextMessage(kind, n)
  PROVE  OutInv'
<1>1. pc = "idle" /\ len' = len /\ out' = out /\ out = Sent(units) /\ len = 0
  BY DEF NextMessage, OutInv, Inv, Phase
<1>2. CASE pc' \in {"idle", "unit"} /\ UNCHANGED <<need, frame, units>>
  BY <1>1, <1>2 DEF OutInv, Busy
<1>3. CASE /\ kind \in WholeKind \/ (kind = "audio" /\ n > 0)
           /\ pc' = "take" /\ need' = n /\ StartFrame(kind, n)
  <2>1. kind \in FeedKind /\ kind \notin VideoKind /\ n \in Nat
    BY <1>3, ModLarge DEF FeedKind, VideoKind, WholeKind
  <2>2. /\ units' \in Seq(Unit) /\ units' # <<>>
        /\ Current'.kind = kind /\ Current'.total = n /\ Gone' = 0
        /\ out' = Sent(Before') \o SubSeq(Cut(Current'), 1, 0)
    BY <1>1, <1>3, <2>1, StartOut
  <2>3. frame'.kind = kind /\ frame'.total = n /\ frame'.cont = FALSE
    BY <1>3, <2>1, StartKinds
  <2>4. Current' \in Unit
    BY <2>2, LastInSeq DEF Current
  <2>5. 0 <= Len(Cut(Current'))
    BY <2>4, CutIs
  <2>6. Cap(kind) * 0 + 0 + n = n
    BY <2>1, Caps
  <2>7. Partial'
    BY <1>1, <1>3, <2>1, <2>2, <2>3, <2>5, <2>6 DEF Partial
  <2> QED
    BY <1>3, <2>2, <2>7 DEF OutInv, Busy
<1> QED
  BY <1>1, <1>2, <1>3 DEF NextMessage

LEMMA NaluHeaderOut ==
  ASSUME Inv, OutInv, NEW type \in VideoKind \cup {"other"}, NEW d \in Declared, NaluHeader(type, d)
  PROVE  OutInv'
<1> DEFINE n == NaluLen(d)
<1>1. pc = "unit" /\ need' = n /\ out' = out /\ out = Sent(units)
  BY DEF NaluHeader, OutInv
<1>2. n \in Nat
  BY NaluLens
<1> HIDE DEF n
<1>3. CASE type \notin VideoKind
  <2>1. pc' \in {"unit", "discard"} /\ UNCHANGED <<units, frame>>
    BY <1>3 DEF NaluHeader
  <2> QED
    BY <1>1, <2>1 DEF OutInv, Busy
<1>4. CASE type \in VideoKind
  <2>1. /\ StartFrame(type, NaluHdr + n) /\ pc' = (IF n = 0 THEN "unit" ELSE "read")
        /\ len' = (IF n = 0 THEN 0 ELSE NaluHdr)
    BY <1>4 DEF NaluHeader, n
  <2>2. type \in FeedKind /\ NaluHdr + n \in Nat /\ NaluHdr \in Nat /\ NaluHdr > 0
    BY <1>2, <1>4 DEF FeedKind, NaluHdr
  <2>3. /\ units' \in Seq(Unit) /\ units' # <<>>
        /\ Current'.kind = type /\ Current'.total = NaluHdr + n /\ Gone' = 0
        /\ out' = Sent(Before') \o SubSeq(Cut(Current'), 1, 0)
        /\ NaluHdr + n = NaluHdr => out' = Sent(units')
    BY <1>1, <1>4, <2>1, <2>2, StartOut
  <2>4. CASE n = 0
    <3>1. out' = Sent(units')
      BY <2>2, <2>3, <2>4
    <3> QED
      BY <2>1, <2>3, <2>4, <3>1 DEF OutInv, Busy
  <2>5. CASE n # 0
    <3>1. frame'.kind = type /\ frame'.total = NaluHdr + n /\ frame'.cont = FALSE
      BY <2>1, <2>2, StartKinds
    <3>2. Current' \in Unit
      BY <2>3, LastInSeq DEF Current
    <3>3. 0 <= Len(Cut(Current'))
      BY <3>2, CutIs
    <3>4. Cap(type) * 0 + NaluHdr + n = NaluHdr + n
      BY <2>2, Caps
    <3>5. NaluHdr + n # NaluHdr
      BY <1>2, <2>2, <2>5
    <3>6. Partial'
      BY <1>1, <2>1, <2>3, <2>5, <3>1, <3>3, <3>4, <3>5 DEF Partial
    <3> QED
      BY <2>1, <2>3, <2>5, <3>6 DEF OutInv, Busy
  <2> QED
    BY <2>4, <2>5
<1> QED
  BY <1>3, <1>4

LEMMA ReadOut ==
  ASSUME Inv, OutInv, NEW k \in 1..left, Read(k) PROVE OutInv'
<1>1. /\ pc = "read" /\ need' = need - k /\ len' = len + k /\ pc' \in {"read", "send"}
      /\ UNCHANGED <<frame, out, units>>
  BY DEF Read
<1>2. need \in Nat /\ len \in Nat /\ k \in Nat /\ k > 0 /\ left \in Nat
  BY ModLarge DEF Inv, TypeOK
<1>3. Partial
  BY <1>1 DEF OutInv, Busy
<1>4. Before' = Before /\ Current' = Current /\ Gone' = Gone
  BY <1>1 DEF Before, Current, Gone
<1>5. Cap(frame.kind) * Gone \in Nat
  BY <1>3, Caps DEF Partial
<1>6. Cap(frame.kind) * Gone + len' + need' = frame.total
  BY <1>1, <1>2, <1>3, <1>5 DEF Partial
<1>7. Partial'
  BY <1>1, <1>3, <1>4, <1>6 DEF Partial
<1>8. len' > 0
  BY <1>1, <1>2
<1> QED
  BY <1>1, <1>7, <1>8 DEF OutInv, Busy

LEMMA TakeOut ==
  ASSUME Inv, OutInv, Take PROVE OutInv'
<1>1. /\ pc = "take" /\ pc' = (IF Room = 0 THEN "send" ELSE "read")
      /\ UNCHANGED <<need, frame, len, out, units>>
  BY DEF Take
<1>2. Partial
  BY <1>1 DEF OutInv, Busy
<1>3. Partial'
  BY <1>1, <1>2 DEF Partial, Gone, Before, Current
<1>4. pc' = "send" => frame.kind \in WholeKind
  <2>1. len = 0 /\ (need > 0 \/ frame.kind \in WholeKind) /\ Cap(frame.kind) \in Nat \ {0}
    BY <1>1, Caps DEF Inv, Phase
  <2>2. need \in Nat
    BY ModLarge DEF Inv, TypeOK
  <2> QED
    BY <1>1, <2>1, <2>2 DEF Room
<1> QED
  BY <1>1, <1>3, <1>4 DEF OutInv, Busy

LEMMA OutStep == Inv /\ OutInv /\ [Next]_vars => OutInv'
<1> SUFFICES ASSUME Inv, OutInv, [Next]_vars PROVE OutInv'
  OBVIOUS
<1>1. CASE UNCHANGED vars
  BY <1>1 DEF vars, OutInv, Busy, Partial, Gone, Before, Current
<1>2. ASSUME NEW kind \in {"video", "audio"} \cup WholeKind, NEW n \in 0..MaxBody,
             NextMessage(kind, n)
      PROVE  OutInv'
  BY <1>2, NextMessageOut
<1>3. ASSUME NEW type \in VideoKind \cup {"other"}, NEW d \in Declared, NaluHeader(type, d)
      PROVE  OutInv'
  BY <1>3, NaluHeaderOut
<1>4. ASSUME GiveUp PROVE OutInv'
  BY <1>4, GiveUpOut
<1>5. ASSUME VideoDone \/ \E k \in 1..left : Discard(k) PROVE OutInv'
  <2>1. pc \in {"unit", "discard"} /\ pc' \in {"idle", "unit", "discard"} /\ UNCHANGED <<out, units>>
    BY <1>5 DEF VideoDone, Discard
  <2> QED
    BY <2>1 DEF OutInv, Busy
<1>6. ASSUME ReadStep PROVE OutInv'
  BY <1>3, <1>4, <1>5, <1>6, ReadOut DEF ReadStep, HeaderCut, DiscardEnds, Truncated
<1>7. ASSUME CutStep PROVE OutInv'
  BY <1>4, <1>7, TakeOut, SendOut DEF CutStep, HeaderTooLong
<1>8. ASSUME SessionEnds \/ ReadFails PROVE OutInv'
  BY <1>4, <1>8 DEF SessionEnds, ReadFails
<1> QED
  BY <1>1, <1>2, <1>6, <1>7, <1>8 DEF Next

\* What is passed to SendMessage is the encoder's frames, each cut into buffers
\* that are full but for the last, for frames, messages and buffers of any size
\* and however the bytes arrive.
THEOREM OutputTheorem == Spec => []OutputExact
<1>1. Init => OutInv
  <2> SUFFICES ASSUME Init PROVE OutInv
    OBVIOUS
  <2>1. units = <<>> /\ out = <<>> /\ pc = "idle"
    BY DEF Init
  <2>2. units \in Seq(Unit)
    BY <2>1
  <2> QED
    BY <2>1, <2>2, SentNothing DEF OutInv, Busy
<1>2. Inv /\ OutInv => OutputExact
  <2> SUFFICES ASSUME Inv, OutInv PROVE OutputExact
    OBVIOUS
  <2>1. units \in Seq(Unit) /\ (pc \in {"idle", "unit", "discard"} => out = Sent(units))
    BY DEF OutInv
  <2>2. IsPrefix(out, Sent(units))
    BY SentPrefix
  <2> QED
    BY <2>1, <2>2 DEF OutputExact, Sent
<1> QED
  BY <1>1, <1>2, OutStep, InvHolds, PTL DEF Spec
=============================================================================
