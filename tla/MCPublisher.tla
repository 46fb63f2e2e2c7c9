---------------------------- MODULE MCPublisher ----------------------------
(***************************************************************************)
(* Publisher on small instances.                                           *)
(***************************************************************************)
EXTENDS Publisher, TLC

\* Viewers are interchangeable, and so are the buffers of each kind: no action
\* or invariant tells one from another.
Symmetry == Permutations(Consumer) \cup Permutations(PoolBuf) \cup Permutations(CopyBuf)

Video        == {"key", "inter"}
Audio        == {"audio"}
KeyAndStored == {"key", "vhdr", "meta"}
=============================================================================
