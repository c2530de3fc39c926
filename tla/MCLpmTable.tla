----------------------------- MODULE MCLpmTable -----------------------------
(* Tries of three levels.  The keys differ in their first, second or third     *)
(* byte, so that the lists on all levels grow at both ends and the lowest also *)
(* in the middle.  Prefix lengths: 7 is refused, 12 is cut to one byte, 23 to  *)
(* two, and the last one is longer than the key.                               *)
EXTENDS LpmTable

MCCallKey == {<<1, 2, 1>>, <<2, 1, 2>>, <<2, 2, 1>>, <<2, 2, 2>>, <<2, 2, 3>>}
MCPrefixLength == {7, 12, 23, 24, 32}
=============================================================================
