--------------------------- MODULE MCCsum16Loop ------------------------------
(* Bytes of two bits: 0, 1 and 3, and buffers of up to 9 bytes, so that both  *)
(* loops, the odd byte and both folds are needed.                             *)
EXTENDS Csum16Loop
=============================================================================
