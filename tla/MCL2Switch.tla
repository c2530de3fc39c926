----------------------------- MODULE MCL2Switch ------------------------------
(* Three hosts behind the ports 0, 2 and 3 (port number 1 is the broadcast    *)
(* port here).  Addresses are keys of one byte: the hosts' are 1, 2 and 3,    *)
(* the switch devices' 11, 12 and 13; 9 is nobody's and 255 is everybody's.   *)
EXTENDS L2Switch

MCDevices == <<1, 2, 3>>
MCHostAddress == [d \in 1..3 |-> <<d>>]
MCGetAddress == [d \in 1..3 |-> <<d + 10>>]
MCByte == {1, 2, 3, 9, 11, 12, 13, 255}
MCAddress == {<<b>> : b \in MCByte}
MCBroadcast == <<255>>
MCNoAddress == <<>>
MCDst == {<<b>> : b \in {1, 2, 3, 9, 11, 255}}
=============================================================================
