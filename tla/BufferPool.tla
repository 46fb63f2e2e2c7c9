----------------------------- MODULE BufferPool -----------------------------
(***************************************************************************)
(* What the pooled SharedBuffers of core/media promise their users: a      *)
(* buffer taken from the pool is shared by a growing and shrinking set of  *)
(* holders, and it goes back to the pool in the very step in which the     *)
(* last of them drops it, never earlier and never twice.                   *)
(***************************************************************************)
EXTENDS TLAPS

CONSTANTS
  Holder,  \* who can hold a reference
  Nobody,  \* stands for references that were dropped without Release
  Buf      \* the buffers of the pool

VARIABLES
  free,    \* buffers in the pool
  holders  \* holders[b]: who has a reference to b

Init == free = Buf /\ holders = [b \in Buf |-> {}]

\* Get a buffer out of the pool.
Take(b, h) ==
  /\ b \in free
  /\ free' = free \ {b}
  /\ holders' = [holders EXCEPT ![b] = {h}]

\* A holder passes the buffer on to others.
Share(b, h, others) ==
  /\ h \in holders[b]
  /\ holders' = [holders EXCEPT ![b] = @ \cup others]
  /\ UNCHANGED free

\* Release.
Drop(b, h) ==
  /\ h \in holders[b]
  /\ holders' = [holders EXCEPT ![b] = @ \ {h}]
  /\ free' = IF holders[b] = {h} THEN free \cup {b} ELSE free

\* A holder forgets its reference: the buffer will never be free again.
Forget(b, h) ==
  /\ h \in holders[b]
  /\ holders' = [holders EXCEPT ![b] = (@ \ {h}) \cup {Nobody}]
  /\ UNCHANGED free

Next ==
  \E b \in Buf, h \in Holder :
    \/ Take(b, h)
    \/ \E others \in SUBSET Holder : Share(b, h, others)
    \/ Drop(b, h)
    \/ Forget(b, h)

Spec == Init /\ [][Next]_<<free, holders>>
-----------------------------------------------------------------------------
\* A buffer is free exactly when nobody has a reference to it, so a buffer that
\* Take hands out is not visible to anyone else (videoPool.Get, audioPool.Get).
FreeIffUnheld ==
  /\ free \subseteq Buf
  /\ holders \in [Buf -> SUBSET (Holder \cup {Nobody})]
  /\ \A b \in Buf : b \in free <=> holders[b] = {}

\* FreeIffUnheld is inductive: the pool is sound for any number of buffers and
\* holders.
THEOREM PoolSound == Spec => []FreeIffUnheld
<1>1. Init => FreeIffUnheld
  BY DEF Init, FreeIffUnheld
<1>2. FreeIffUnheld /\ [Next]_<<free, holders>> => FreeIffUnheld'
  <2> SUFFICES ASSUME FreeIffUnheld, [Next]_<<free, holders>>
               PROVE  FreeIffUnheld'
    OBVIOUS
  <2> USE DEF FreeIffUnheld
  <2>1. CASE UNCHANGED <<free, holders>>
    BY <2>1
  <2>2. ASSUME NEW b \in Buf, NEW h \in Holder, Take(b, h)
        PROVE  FreeIffUnheld'
    BY <2>2 DEF Take
  <2>3. ASSUME NEW b \in Buf, NEW h \in Holder,
               NEW others \in SUBSET Holder, Share(b, h, others)
        PROVE  FreeIffUnheld'
    BY <2>3 DEF Share
  <2>4. ASSUME NEW b \in Buf, NEW h \in Holder, Drop(b, h)
        PROVE  FreeIffUnheld'
    BY <2>4 DEF Drop
  <2>5. ASSUME NEW b \in Buf, NEW h \in Holder, Forget(b, h)
        PROVE  FreeIffUnheld'
    BY <2>5 DEF Forget
  <2> QED
    BY <2>1, <2>2, <2>3, <2>4, <2>5 DEF Next
<1> QED
  BY <1>1, <1>2, PTL DEF Spec
=============================================================================
