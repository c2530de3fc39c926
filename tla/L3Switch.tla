------------------------------ MODULE L3Switch -------------------------------
(***************************************************************************)
(* The router of l3_switch_code, set up as test-switch-l3.cc sets it up: a *)
(* P4SwitchNetDevice whose program looks the destination up in the trie    *)
(* ipv4_fib_lpm, the egress port in the exact table sendout, and rewrites  *)
(* addresses, TTL and checksum in the packet descriptor.                   *)
(*                                                                         *)
(* Composes P4SwitchDevice (ports, classification, egress), LpmTable,      *)
(* ExactList and L3Program, with the controller's messages that            *)
(* l3_switch_code/controlplane.c understands.  A behaviour ends where the  *)
(* program uses a pointer that leads nowhere (undefined).                  *)
(***************************************************************************)
EXTENDS SwitchPorts, FiniteSets

CONSTANTS ByteBase,               \* see Csum16; 256
          AddressByte,            \* the byte values that occur in IP addresses
          Address, NoAddress, GetAddress, Broadcast, Multicast, EgressPort, Self,
          Devices,                \* the switch's port devices, in the order installed
          Frame,                  \* [dst, src, etherType, data]: what hosts send
          Message,                \* what the controller sends
          NoHeader, NoEntry

VARIABLES m_ports, m_address, m_drop, last,     \* the device, see P4SwitchDevice
          fib_kids, fib_val, fib_default,       \* m_tables[0], see LpmTable
          sendout,      \* m_tables[1]: its entries and its default_val
          pd,           \* <<d>> after a frame was handled, d its descriptor at the end
          wire,         \* <<f>> with it, f the frame that is sent on
          arrived,      \* history: <<f>>, f the frame that is, or was being, handled
          leaked,       \* what handled frames have left allocated, and nothing frees
          undefined,    \* a NULL or dead pointer has been dereferenced
          bg,           \* a frame has been handled, so the controller's handlers find the tables
          named,        \* history: the ports that routes have named
          want          \* history: the latest action for each prefix whose route is not
                        \* lost, and for each egress port

switchVars == <<m_ports, m_address, m_drop, last>>
fibVars    == <<fib_kids, fib_val, fib_default>>
handled    == <<pd, wire, leaked>>
history    == <<named, want>>
vars       == <<switchVars, fibVars, sendout, handled, undefined, bg, arrived, history>>

INSTANCE L3Program

\* An action whose struct was on a stack frame that is gone.
Dangling == [action_id |-> "dangling"]

Switch == INSTANCE P4SwitchDevice
Fib    == INSTANCE LpmTable WITH KeySize <- 4, Byte <- AddressByte,
                                 CallKey <- {}, PrefixLength <- {},
                                 Value <- {on_miss}, kids <- fib_kids, val <- fib_val,
                                 default_val <- fib_default,
                                 call <- [op |-> "nothing"]
List   == INSTANCE ExactList WITH KeySize <- 2, Byte <- Octet, Value <- {on_miss}
\* The operators of both fit any Value.

\* As P4SwitchDevice has it; and a route can name every number of the 9-bit field.
ASSUME SwitchAssumption ==
  /\ NoAddress \notin Address /\ Self \notin Device /\ Devices \in Seq(Device)
  /\ Broadcast \in Address /\ Multicast \subseteq Address \ {Broadcast}
  /\ GetAddress \in [Device -> Address \ (Multicast \cup {Broadcast})]
  /\ EgressPort = 0..511

ASSUME ByteAssumption ==
  /\ ByteBase = 256 /\ NoHeader \notin Seq(Octet)
  /\ AddressByte \subseteq Octet /\ {1, 2, 3, 4, 10} \subseteq AddressByte

\* An IPv4 frame has a whole header without options; its data are those 20 bytes.
ASSUME FrameAssumption ==
  \A f \in Frame :
    /\ f.dst \in Address
    /\ f.etherType = IPV4 => /\ f.data \in Seq(Octet) /\ Len(f.data) = 20
                            /\ \A i \in 17..20 : f.data[i] \in AddressByte

\* A message has the fields of its P4 table: four bytes and a length, or two bytes; and a
\* route names a number of the 9-bit field.
ASSUME MessageAssumption ==
  \A m \in Message : m.type = "add" =>
    /\ m.action # NoEntry
    /\ m.table_name = "ipv4_fib_lpm" =>
         /\ m.key \in [1..4 -> AddressByte] /\ m.prefix_length \in 0..255
         /\ \/ m.action = on_miss
            \/ m.action.action_id = "fib_hit_nexthop" /\ m.action.port \in 0..511
    /\ m.table_name = "sendout" =>
         m.key \in [1..2 -> Octet] /\ m.action.action_id \in {"on_miss", "rewrite_src_mac"}

\* The latest of the actions told: f with action a for x.
Told(f, x, a) == [y \in DOMAIN f \cup {x} |-> IF y = x THEN a ELSE f[y]]

\* The same for routes.  One whose first byte is below those of all the others loses them
\* (AddKeepsRoutes of LpmTable, which fails), and is the only one left.
ToldRoute(fib, prefix, a) ==
  IF \A q \in DOMAIN fib : prefix[1] < q[1] THEN Told(<<>>, prefix, a) ELSE Told(fib, prefix, a)

-----------------------------------------------------------------------------
(* test-switch-l3.cc                                                       *)

\* create_tables, then the defaults of init_tables_v1.
Init == /\ Switch!Init
        /\ fib_kids = [p \in Fib!Path |-> <<>>]
        /\ fib_val = [p \in Fib!Prefix |-> NoEntry]
        /\ fib_default = on_miss
        /\ sendout = [entries |-> <<>>, default_val |-> on_miss]
        /\ pd = <<>> /\ wire = <<>> /\ arrived = <<>>
        /\ leaked = {} /\ undefined = FALSE /\ bg = FALSE
        /\ named = {}
        /\ want = [fib |-> <<>>, sendout |-> <<>>]

\* 10.1.1.1 and so on, and the hardware addresses the containers are given in turn.
HostIp(i)  == <<10, 1, 1, i + 1>>
HostMac(i) == 1 + 2 * i

ASSUME EntryAssumption ==
  \A i \in 0..3 : NoEntry \notin {on_miss, Dangling, fib_hit_nexthop(HostMac(i), i),
                                  rewrite_src_mac(HostMac(i))}

\* P4SwitchHelper::Install adds the devices first.
Install == /\ Len(m_ports) < Len(Devices)
           /\ Switch!AddSwitchPort(Devices[Len(m_ports) + 1])
           /\ UNCHANGED <<fibVars, sendout, handled, arrived, undefined, bg, history>>

\* Then SetCallbackFunctions runs the rest of init_tables_v1: for i from 0 to 3, the host's
\* route and its port's source address, here in one round.  Nothing runs in between.
init_tables_v1(i) ==
  /\ i < 4 /\ i = Len(sendout.entries) /\ Len(m_ports) = Len(Devices)
  /\ \E route \in {fib_hit_nexthop(HostMac(i), i)}, smac \in {rewrite_src_mac(HostMac(i))} :
       /\ Fib!LpmAdd(HostIp(i), 32, route)
       /\ sendout' = [sendout EXCEPT !.entries = List!exact_add(@, <<i, 0>>, smac)]
       /\ named' = named \cup {i}
       /\ want' = [fib     |-> ToldRoute(want.fib, HostIp(i), route),
                   sendout |-> Told(want.sendout, i, smac)]
  /\ UNCHANGED <<switchVars, handled, arrived, undefined, bg>>

Ready == Len(m_ports) = Len(Devices) /\ Len(sendout.entries) >= 4 /\ ~undefined

Forget == pd' = <<>> /\ wire' = <<>> /\ arrived' = <<>> /\ UNCHANGED leaked

AllowPacketDrop(b) == /\ Ready
                      /\ Switch!SetPacketDrop(b)
                      /\ Forget
                      /\ UNCHANGED <<fibVars, sendout, undefined, bg, history>>

-----------------------------------------------------------------------------
(* Frames                                                                  *)

\* A mutation of Leaks: the return for a dropped packet skips the deletes too.
LeaksDropped(d, port) ==
  {"standard_metadata"} \cup
  {x \in {"descriptor"} : \/ m_drop /\ d.dropped
                          \/ \A i \in DOMAIN m_ports : m_ports[i].second # port}

\* A descriptor is deleted, but for the error return where no port has the number; the
\* header that init_headers allocated for it is never freed.
Leaks(d, port) ==
  {"standard_metadata"} \cup
  {x \in {"descriptor"} : /\ ~ (m_drop /\ d.dropped)
                          /\ port # BROADCAST_PORT
                          /\ \A i \in DOMAIN m_ports : m_ports[i].second # port}

\* What leaves is a copy of the packet that came in, with the addresses it came with.
OnTheWire(f, d) == [dst |-> f.dst, src |-> f.src, data |-> f.data]

\* The program follows a pointer that leads nowhere.
Stray == /\ undefined' = TRUE
         /\ pd' = <<>> /\ wire' = <<>>
         /\ UNCHANGED <<switchVars, leaked>>

\* apply_table_sendout and what follows it, for a descriptor the FIB's action is done with.
SendOut(dev, f, routed) ==
  \E res \in {List!exact_lookup(sendout.entries, table_sendout_key(routed), sendout.default_val)} :
    IF res = Dangling THEN Stray
    ELSE \E d \in {update_packet(action_sendout(routed, res))} :
           /\ Switch!ReceiveFromDevice(dev, Switch!PacketTypeOf(dev, f.dst), f.dst,
                                       d.egress_port, d.dropped)
           /\ pd' = <<d>>
           /\ wire' = <<OnTheWire(f, d)>>
           /\ leaked' = leaked \cup Leaks(d, d.egress_port)
           /\ UNCHANGED undefined

\* ReceiveFromDevice for a frame that HandlePacket gets.  Without an IPv4 header
\* table_ipv4_fib_lpm_key dereferences a NULL pointer.
Handle(dev, f) ==
  /\ Ready
  /\ Switch!GoesThrough(Switch!PacketTypeOf(dev, f.dst), f.dst)
  /\ \E parsed \in {parse_packet(init_dataplane(f))} :
       IF parsed.ipv4 = NoHeader THEN Stray
       ELSE \E res \in {Fib!lpm_lookup(table_ipv4_fib_lpm_key(parsed))} :
              IF res = Dangling THEN Stray
              ELSE SendOut(dev, f, action_ipv4_fib_lpm(parsed, res))
  /\ bg' = TRUE
  /\ arrived' = <<f>>
  /\ UNCHANGED <<fibVars, sendout, history>>

\* A frame for the switch's own address ends at the local stack.
ReceiveOwn(dev, f) ==
  /\ Ready
  /\ ~Switch!GoesThrough(Switch!PacketTypeOf(dev, f.dst), f.dst)
  /\ Switch!ReceiveFromDevice(dev, Switch!PacketTypeOf(dev, f.dst), f.dst, 0, FALSE)
  /\ Forget
  /\ UNCHANGED <<fibVars, sendout, undefined, bg, history>>

-----------------------------------------------------------------------------
(* recv_from_controller                                                    *)

\* A message comes after a frame has been handled (see Backend for those that come
\* before).
Sent == /\ Ready /\ bg
        /\ Forget
        /\ UNCHANGED <<m_ports, m_address, m_drop, undefined, bg>>
        /\ last' = Switch!Nothing

\* ipv4_fib_lpm_add_table_entry, with on_miss or fib_hit_nexthop.  The controller names
\* the address as a little-endian number, so what it wants is the route for its bytes
\* the other way round; lpm_add refuses one of less than a byte or more than four.
FibAddEntry(m) ==
  /\ Sent /\ m.type = "add" /\ m.table_name = "ipv4_fib_lpm"
  /\ IF Fib!ValidDepth(Fib!depthOf(m.prefix_length % 256))
     THEN /\ Fib!LpmAdd(ipv4_fib_lpm_key_added(m.key), m.prefix_length % 256, m.action)
          /\ named' = named \cup IF m.action.action_id = "fib_hit_nexthop" THEN {m.action.port} ELSE {}
          /\ want' = [want EXCEPT !.fib =
                        ToldRoute(@, Fib!First(Reverse(m.key), m.prefix_length \div 8), m.action)]
     ELSE UNCHANGED <<fibVars, history>>
  /\ UNCHANGED sendout

\* sendout_add_table_entry, with on_miss or rewrite_src_mac.  The key is the port's number,
\* low byte first.
SendoutAddEntry(m) ==
  /\ Sent /\ m.type = "add" /\ m.table_name = "sendout"
  /\ sendout' = [sendout EXCEPT !.entries = List!exact_add(@, m.key, m.action)]
  /\ want' = [want EXCEPT !.sendout = Told(@, m.key[1] + ByteBase * m.key[2], m.action)]
  /\ UNCHANGED <<fibVars, named>>

\* The two set_default handlers keep the address of their parameter.
SetDefault(m) ==
  /\ Sent /\ m.type = "set_default"
  /\ IF m.table_name = "ipv4_fib_lpm"
     THEN fib_default' = Dangling /\ UNCHANGED sendout
     ELSE sendout' = [sendout EXCEPT !.default_val = Dangling] /\ UNCHANGED fib_default
  /\ UNCHANGED <<fib_kids, fib_val, history>>

Next == \/ \E i \in 0..3 : init_tables_v1(i)
        \/ Install
        \/ \E b \in BOOLEAN : AllowPacketDrop(b)
        \/ \E dev \in Device, f \in Frame : Handle(dev, f) \/ ReceiveOwn(dev, f)
        \/ \E m \in Message : FibAddEntry(m) \/ SendoutAddEntry(m) \/ SetDefault(m)

Spec == Init /\ [][Next]_vars

-----------------------------------------------------------------------------

Header20(buf) == Len(buf) = 20 /\ \A i \in 1..20 : buf[i] \in Octet

TypeOK ==
  /\ Switch!TypeOK
  /\ fib_kids \in [Fib!Path -> Seq(AddressByte)]
  /\ \A d \in ToSet(pd) : /\ d.egress_port \in 0..511
                         /\ d.modified \in BOOLEAN /\ d.dropped \in BOOLEAN
                         /\ d.ipv4 # NoHeader => Header20(d.ipv4)
  /\ leaked \subseteq {"standard_metadata", "descriptor"}
  /\ undefined \in BOOLEAN /\ bg \in BOOLEAN

\* What the router should do with the routes fib: the one with the longest prefix.
Matching(fib, addr) == {p \in DOMAIN fib : IsPrefix(p, addr)}
RouteOf(fib, addr) ==
  LET M == Matching(fib, addr)
  IN  IF M = {} THEN on_miss ELSE fib[CHOOSE p \in M : \A q \in M : Len(q) <= Len(p)]
Routed(fib, addr) == RouteOf(fib, addr).action_id = "fib_hit_nexthop"
PortFor(fib, addr) == IF Routed(fib, addr) THEN RouteOf(fib, addr).port ELSE 0
DestinationIp(data) == SubSeq(data, 17, 20)

\* A header whose words add up to all ones; the code also refuses a checksum of 0, which
\* is as right as 0xffff.
Accepted(data) == OnesComplement(WordSum(SubSeq(data, 1, 20))) = W - 1 /\ hdrChecksumOf(data) # 0

\* The frames the P4 program handled, each with the packet that came in.
Handled == {e \in ToSet(last) : e.handled /\ wire # <<>>}

\* A frame leaves on the port of the latest and longest route for its destination address,
\* whatever its MAC address and wherever it came in; on port 0 if there is none; once on
\* every port but the one it came in on if that is "everywhere"; nowhere if the port does
\* not exist, or if packets may be dropped and its header is not right.  The routes are all
\* those told, but for the ones lost to a route in front of them (ToldRoute).
RoutedAsTold ==
  \A e \in Handled :
    LET port == PortFor(want.fib, DestinationIp(arrived[1].data))
    IN  IF m_drop /\ ~Accepted(arrived[1].data) THEN e.out = <<>>
        ELSE IF port = BROADCAST_PORT
        THEN IsInjective(e.out) /\ ToSet(e.out) = {p \in ToSet(m_ports) : p.first # e.dev}
        ELSE \/ e.out = <<>> /\ \A p \in ToSet(m_ports) : p.second # port
             \/ \E p \in ToSet(m_ports) : p.second = port /\ e.out = <<p>>

\* The descriptor ends with the next hop's address, and with the source address the
\* router was last given for the port the frame leaves on -- also when that port is the
\* 0 of a frame without a route.
RewrittenAsTold ==
  \A e \in Handled :
    LET addr == DestinationIp(arrived[1].data)
        port == PortFor(want.fib, addr)
    IN  /\ pd[1].dstAddr = IF Routed(want.fib, addr)
                            THEN RouteOf(want.fib, addr).dmac ELSE arrived[1].dst
        /\ pd[1].srcAddr = IF port \in DOMAIN want.sendout
                             /\ want.sendout[port].action_id = "rewrite_src_mac"
                           THEN want.sendout[port].smac ELSE arrived[1].src

\* The descriptor's header is right whatever header came in, and its TTL is one lower (255
\* below 0) exactly if the frame was routed; the rest is as it came.
UpdatedHeader ==
  \A e \in Handled :
    /\ OnesComplement(WordSum(pd[1].ipv4)) = W - 1
    /\ \A i \in 1..20 \ {9, 11, 12} : pd[1].ipv4[i] = arrived[1].data[i]
    /\ pd[1].ipv4[9] = (arrived[1].data[9] + IF Routed(want.fib, DestinationIp(arrived[1].data))
                                         THEN ByteBase - 1 ELSE 0) % ByteBase

\* The one pointer the program follows without knowing where it leads, but for a frame
\* without an IPv4 header, is a default the controller has set: nothing else is undefined,
\* and a lookup that a route or an address answers never reads the default.
StraysOnlyAsTold ==
  undefined => \E f \in ToSet(arrived) :
    LET addr == DestinationIp(f.data)
    IN  \/ f.etherType # IPV4
        \/ fib_default = Dangling /\ Matching(want.fib, addr) = {}
        \/ sendout.default_val = Dangling /\ PortFor(want.fib, addr) \notin DOMAIN want.sendout

\* A descriptor, and the buffer of the packet in it, is lost only once a route has named a
\* number that no port has and that does not mean "everywhere"; that every frame loses the
\* header of its metadata is another matter.
DescriptorLostOnlyWithoutPort ==
  "descriptor" \in leaked =>
    \E port \in named \ {BROADCAST_PORT} : \A i \in DOMAIN m_ports : m_ports[i].second # port

-----------------------------------------------------------------------------
(* What the repository says of the program, and the code does not do.      *)

\* "set dst mac", "set smac from standard_metadata.egress_port": what is sent on is the
\* packet the tables' actions have changed.
RewritesLeave ==
  \A e \in Handled : e.out # <<>> => wire[1] = [dst |-> pd[1].dstAddr, src |-> pd[1].srcAddr,
                                                data |-> pd[1].ipv4]

=============================================================================
