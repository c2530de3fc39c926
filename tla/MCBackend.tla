------------------------------ MODULE MCBackend ------------------------------
(* Addresses are keys of one byte: 1 is a host's, 2 is nobody's.              *)
EXTENDS Backend

MCByte == {1, 2, 255}
MCHost == {<<1>>}
MCDst == {<<1>>, <<2>>, <<255>>}
MCBroadcast == <<255>>
=============================================================================
