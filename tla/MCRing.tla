------------------------------- MODULE MCRing -------------------------------
(***************************************************************************)
(* Ring for TLC.  Capacity 3 and chunks of 0 to 5 bytes: shorter than the  *)
(* ring, exactly as long, and longer; two byte values; enough output for   *)
(* the write position to go round the buffer more than twice.              *)
(***************************************************************************)
EXTENDS Ring

MCByte == {0, 1}
MCChunks == UNION {[1 .. n -> MCByte] : n \in {0, 1, 2, 3, 5}}
MCRequests == 0 .. 8
=============================================================================
