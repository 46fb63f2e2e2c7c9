---------------------------- MODULE MCRtmpIngest ----------------------------
(***************************************************************************)
(* RtmpIngest with short buffers and lengths.                              *)
(***************************************************************************)
EXTENDS RtmpIngest

\* Lengths around the buffer sizes, none at all, and the largest: 2^32 - 10 on,
\* the announced length of a frame wraps.
Lengths == {0, 1, 2, 3, 4, 8} \cup {Mod - 12, Mod - 10, Mod - 4, Mod - 1}
=============================================================================
