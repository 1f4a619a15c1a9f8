--------------------------- MODULE MCStreamFramer ---------------------------
(* Bytes of one bit of length and one of continuation: 0 and 1 end a length, *)
(* 2 and 3 continue it, and 0 is no packet type.  Lengths have one byte or   *)
(* two, so a packet has up to six bytes, one more than is accepted.          *)
EXTENDS StreamFramer

SmallChunks == UNION {[1..n -> Bytes] : n \in 1..2}
=============================================================================
