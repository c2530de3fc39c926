--------------------------- MODULE MCTernaryTable ---------------------------
(* Two-byte keys over two byte values, under all four masks.                  *)
EXTENDS TernaryTable
=============================================================================
