------------------------- MODULE MCPacketDescriptor --------------------------
(* Every port number with a single one-bit, and those with all or none of the *)
(* bits of a byte or of the field; frames of zeroes only, of ones only, and   *)
(* of zeroes and ones in turn.                                                *)
EXTENDS PacketDescriptor

Bits(n) == {b \in 0..15 : (n \div 2^b) % 2 = 1}
All == 0..159
Even == {b \in All : b % 2 = 0}
MCFrame == {[ethernet |-> {}, ipv4 |-> {}], [ethernet |-> All, ipv4 |-> All],
            [ethernet |-> Even, ipv4 |-> Even]}
MCInport == {Bits(2^b) : b \in 0..7} \cup {Bits(n) : n \in {0, 100, 255}}
MCPortParam == MCInport \cup {Bits(n) : n \in {256, 511, 65535}}
MCTtl == {{}, 0..31, {0, 7}}
MCCsum == {{}, 0..15, {0, 15}}
=============================================================================
