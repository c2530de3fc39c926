----------------------------- MODULE L3Program -------------------------------
(***************************************************************************)
(* The generated P4 program of l3_switch_code as operators on a packet     *)
(* descriptor: parser, the actions of tables ipv4_fib_lpm and sendout, and *)
(* update_packet.  The caller looks the keys up and passes what it found.  *)
(*                                                                         *)
(* A descriptor's ipv4 is the frame's payload, of which the program reads  *)
(* 20 bytes, once the parser has set the header's pointer; NoHeader is the *)
(* pointer reset_headers left NULL.  FieldBits shows that the macros       *)
(* the fields are read and written with do what is done here.              *)
(***************************************************************************)
EXTENDS Csum16

CONSTANT NoHeader

IPV4 == <<8, 0>>          \* case_value_0 of the parser
Octet == 0..(ByteBase - 1)

\* Action values; fib_hit_nexthop_params and rewrite_src_mac_params.
fib_hit_nexthop(dmac, port) == [action_id |-> "fib_hit_nexthop", dmac |-> dmac, port |-> port]
rewrite_src_mac(smac) == [action_id |-> "rewrite_src_mac", smac |-> smac]
on_miss == [action_id |-> "on_miss"]

\* init_dataplane on what BufferFromPacket made of the frame.
init_dataplane(f) == [dstAddr |-> f.dst, srcAddr |-> f.src, etherType |-> f.etherType,
                      data |-> f.data, ipv4 |-> NoHeader, modified |-> FALSE,
                      egress_port |-> 0, dropped |-> FALSE]

\* A packet of any other type goes on to the tables without an IPv4 header, unverified.
parse_packet(pd) ==
  IF pd.etherType = IPV4 THEN [pd EXCEPT !.ipv4 = pd.data, !.dropped = IsCorrupt(pd.data)]
  ELSE pd

\* table_ipv4_fib_lpm_key: the four bytes of dstAddr as they lie in the header.
table_ipv4_fib_lpm_key(pd) == SubSeq(pd.ipv4, 17, 20)

\* A mutation of table_sendout_key: the low byte last.
table_sendout_keySwapped(pd) == <<pd.egress_port \div ByteBase, pd.egress_port % ByteBase>>

\* table_sendout_key: the two bytes of the egress port, low byte first.
table_sendout_key(pd) == <<pd.egress_port % ByteBase, pd.egress_port \div ByteBase>>

\* action_code_fib_hit_nexthop: ttl is 32 bits wide until update_packet writes it, so
\* the 0xffffffff added to it is the 255 added to its byte.  The port is a 9-bit field.
action_ipv4_fib_lpm(pd, res) ==
  IF res.action_id = "fib_hit_nexthop"
  THEN [pd EXCEPT !.dstAddr = res.dmac, !.egress_port = res.port % 512, !.modified = TRUE]
  ELSE pd

\* A mutation of action_sendout: the address goes where fib_hit_nexthop put its own.
action_sendoutDst(pd, res) ==
  IF res.action_id = "rewrite_src_mac" THEN [pd EXCEPT !.dstAddr = res.smac] ELSE pd

action_sendout(pd, res) ==
  IF res.action_id = "rewrite_src_mac" THEN [pd EXCEPT !.srcAddr = res.smac] ELSE pd

\* A mutation of update_packet: the checksum first, the TTL after it.
update_packetLate(pd) ==
  IF pd.ipv4 = NoHeader THEN pd
  ELSE [pd EXCEPT !.ipv4 =
          LET summed == WithChecksum(@, calculate_ipv4_checksum(@))
          IN  [summed EXCEPT ![9] = IF pd.modified THEN (@ + ByteBase - 1) % ByteBase ELSE @]]

\* A mutation of update_packet: the TTL is written wider than its byte.
update_packetWide(pd) ==
  IF pd.ipv4 = NoHeader THEN pd
  ELSE [pd EXCEPT !.ipv4 = [@ EXCEPT ![9] = IF pd.modified THEN @ - 1 ELSE @]]

\* The TTL is one lower, as the byte it is, if an action changed it.
LoweredTtl(ipv4, modified) ==
  [ipv4 EXCEPT ![9] = IF modified THEN (@ + ByteBase - 1) % ByteBase ELSE @]

\* The TTL first, then the checksum of the header it is now in.
update_packet(pd) ==
  IF pd.ipv4 = NoHeader THEN pd
  ELSE LET lowered == LoweredTtl(pd.ipv4, pd.modified)
       IN  [pd EXCEPT !.ipv4 = WithChecksum(lowered, calculate_ipv4_checksum(lowered))]

\* A mutation of ipv4_fib_lpm_key_added: the bytes are kept as they come.
ipv4_fib_lpm_key_addedAsIs(key) == key

\* ipv4_fib_lpm_add of the control plane turns the bytes of its key round before it
\* hands them to lpm_add.
ipv4_fib_lpm_key_added(key) == [i \in 1..4 |-> key[5 - i]]

=============================================================================
