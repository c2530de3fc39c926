----------------------------- MODULE MCL3Switch ------------------------------
(* The network of test-switch-l3.cc: four links, numbered from 0; the host on *)
(* link i has the hardware address 1 + 2i, the switch's device 2 + 2i.  7 and *)
(* 9 stand for next hops the tests do not have.                               *)
EXTENDS L3Switch

MCDevices == <<0, 1, 2, 3>>
MCDevice == 0..3
MCGetAddress == [i \in MCDevice |-> 2 + 2 * i]
MCAddress == 1..9 \cup {255}
MCEgressPort == 0..511
MCAddressByte == {1, 2, 3, 4, 10}

\* A header from 10.1.1.1 with this identification, TTL and checksum.
Unsummed(id, lifetime, ip) ==
  <<69, 0, 0, 20, id % 256, id \div 256, 0, 0, lifetime, 17, 0, 0, 10, 1, 1, 1>> \o ip
SumOf(id, lifetime, ip) == W - 1 - OnesComplement(WordSum(Unsummed(id, lifetime, ip)))
Hdr(id, lifetime, ip, sum) == WithChecksum(Unsummed(id, lifetime, ip), sum)

\* A right checksum; none, as ns-3 sends when checksums are off; a wrong one; one that is
\* right and happens to be 0.
Headers(lifetime, ip) ==
  {Hdr(1, lifetime, ip, s) : s \in {SumOf(1, lifetime, ip), 0, SumOf(1, lifetime, ip) - 1}}
  \cup {Hdr(SumOf(0, lifetime, ip), lifetime, ip, 0)}

To(mac, type, data) == [dst |-> mac, src |-> 1, etherType |-> type, data |-> data]
Known == HostIp(2)
Unknown == <<10, 2, 1, 1>>
Below == <<4, 1, 1, 1>>

Right(lifetime, ip) == Hdr(1, lifetime, ip, SumOf(1, lifetime, ip))
Arp == To(255, <<8, 6>>, <<0, 1, 8, 0, 6, 4>>)

\* To a host, with every kind of checksum, and with a TTL of 0; to three unknown ones, one of
\* them below the hosts' addresses; to the switch's own, a port's and everybody's hardware
\* address; and one frame that is not IPv4.  5 is the hardware address of no port.
MCFrame ==
  {To(5, IPV4, h) : h \in Headers(64, Known) \cup {Right(0, Known), Right(64, Unknown),
                                                  Right(64, <<10, 2, 2, 1>>), Right(64, Below)}}
  \cup {To(mac, IPV4, Right(64, Known)) : mac \in {2, 4, 255}}
  \cup {Arp}

MCFrameRight == {To(5, IPV4, Right(64, ip)) : ip \in {Known, Unknown}}

Add(table, key, len, action) ==
  [type |-> "add", table_name |-> table, key |-> key, prefix_length |-> len, action |-> action]
Default(table) == [type |-> "set_default", table_name |-> table]

\* Host 2's route withdrawn, a route for 10.2/16, one for 10.2.1/24 that names a missing
\* port, one for 4/8, in front of all others, that goes everywhere, one of no whole byte, a
\* source address replaced, and new defaults.
MCMessage ==
  {Add("ipv4_fib_lpm", <<3, 1, 1, 10>>, 32, on_miss),
   Add("ipv4_fib_lpm", <<1, 1, 2, 10>>, 16, fib_hit_nexthop(7, 1)),
   Add("ipv4_fib_lpm", <<1, 1, 2, 10>>, 24, fib_hit_nexthop(9, 5)),
   Add("ipv4_fib_lpm", <<1, 1, 1, 4>>, 8, fib_hit_nexthop(7, BROADCAST_PORT)),
   Add("ipv4_fib_lpm", <<1, 1, 1, 4>>, 7, fib_hit_nexthop(9, 3)),
   Add("sendout", <<1, 0>>, 0, rewrite_src_mac(9)),
   Default("ipv4_fib_lpm"), Default("sendout")}
=============================================================================
