--------------------------- MODULE MCP4SwitchDevice --------------------------
(* Four devices for a switch of at most three ports, so that it can be full;  *)
(* port numbers 0, 2 and 3 step over the broadcast port 1.  Device 1 has      *)
(* address 1, the other devices address 2; address 9 belongs to none of them. *)
(* 255 is the broadcast address and 33 a multicast one.                       *)
EXTENDS P4SwitchDevice

MCDevice == 1..4
MCAddress == {1, 2, 9, 33, 255}
MCGetAddress == [d \in MCDevice |-> IF d = 1 THEN 1 ELSE 2]
=============================================================================
