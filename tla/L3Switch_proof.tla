--------------------------- MODULE L3Switch_proof ----------------------------
(***************************************************************************)
(* The router, for any ports, any frames and whatever a controller tells   *)
(* it in any order: by which route a frame leaves, with which addresses    *)
(* and which header, and when a pointer leads nowhere.                     *)
(***************************************************************************)
EXTENDS L3Switch, SequenceTheorems, TLAPS

-----------------------------------------------------------------------------
(* The parts.  What is proved of the device, of the trie, of the list and  *)
(* of the checksum can be used here.                                       *)

FibKey == [1..4 -> AddressByte]

\* The actions the two tables can hold.
FibAdds == {m \in Message : m.type = "add" /\ m.table_name = "ipv4_fib_lpm"}
SendoutAdds == {m \in Message : m.type = "add" /\ m.table_name = "sendout"}
RouteAction == {on_miss, Dangling} \cup {m.action : m \in FibAdds}
                 \cup {fib_hit_nexthop(HostMac(i), i) : i \in 0..3}
SourceAction == {on_miss, Dangling} \cup {m.action : m \in SendoutAdds}
                  \cup {rewrite_src_mac(HostMac(i)) : i \in 0..3}

Dev  == INSTANCE P4SwitchDevice_proof
Fibs == INSTANCE LpmTernary_proof
          WITH KeySize <- 4, Byte <- AddressByte, Value <- RouteAction,
               CallKey <- FibKey, PrefixLength <- 0..255,
               kids <- fib_kids, val <- fib_val, default_val <- fib_default,
               call <- [op |-> "nothing"],
               TernaryValue <- {}, entries <- <<>>, ternary_default <- 0
Outs == INSTANCE ExactTable_proof
          WITH KeySize <- 2, Byte <- Octet, Value <- SourceAction,
               table <- sendout.entries, default_val <- sendout.default_val, call <- <<>>
Sums == INSTANCE Packet_proof
          WITH Byte <- Octet, MaxLen <- 0, Frame <- {}, Inport <- {}, PortParam <- {},
               Ttl <- {}, Csum <- {}, buf <- <<>>, len <- 0, u16 <- 0, sum <- 0, pc <- 0,
               headers <- 0, value <- 0, phase <- 0

\* What the lemmas of the parts assume.
LEMMA DeviceAssumed ==
  /\ MAX_PORTS \in Nat \ {0} /\ BROADCAST_PORT \in Nat
  /\ NoAddress \notin Address /\ Self \notin Device
  /\ Broadcast \in Address /\ Multicast \subseteq Address \ {Broadcast}
  /\ GetAddress \in [Device -> Address \ (Multicast \cup {Broadcast})]
  /\ EgressPort \subseteq 0..511
BY PortAssumption, SwitchAssumption

LEMMA OctetSet == Octet = 0..255
BY ByteAssumption DEF Octet

LEMMA NoEntryIsNoAction == NoEntry \notin RouteAction /\ NoEntry \notin SourceAction
<1>1. \A m \in FibAdds \cup SendoutAdds : m.action # NoEntry
  BY MessageAssumption DEF FibAdds, SendoutAdds
<1>2. NoEntry # on_miss /\ NoEntry # Dangling
  <2>1. 0 \in 0..3
    OBVIOUS
  <2> QED
    BY <2>1, EntryAssumption
<1>3. \A i \in 0..3 : /\ NoEntry # fib_hit_nexthop(HostMac(i), i)
                      /\ NoEntry # rewrite_src_mac(HostMac(i))
  BY EntryAssumption
<1> QED
  BY <1>1, <1>2, <1>3 DEF RouteAction, SourceAction

LEMMA FibAssumed ==
  /\ 4 \in Nat \ {0} /\ AddressByte \subseteq 0..255
  /\ NoEntry \notin RouteAction /\ FibKey \subseteq Fibs!Key /\ 0..255 \subseteq 0..255
BY ByteAssumption, OctetSet, NoEntryIsNoAction DEF Fibs!Key, FibKey

LEMMA OutsAssumed == 2 \in Nat \ {0} /\ Octet \subseteq 0..255 /\ NoEntry \notin SourceAction
BY OctetSet, NoEntryIsNoAction

LEMMA SumsAssumed ==
  /\ ByteBase \in Nat /\ ByteBase > 1
  /\ Octet \subseteq 0..(ByteBase - 1) /\ 0 \in 0..(Sums!W - 1)
  /\ {} \subseteq [ethernet : Sums!HeaderBits, ipv4 : Sums!HeaderBits]
  /\ {} \subseteq SUBSET Sums!Word /\ {} \subseteq SUBSET (0..15)
BY ByteAssumption DEF Octet, Sums!W

-----------------------------------------------------------------------------
(* The operators of an instance are those of any other.                    *)

LEMMA SameSwitch ==
  ASSUME NEW ports, NEW x, NEW y
  PROVE  /\ Switch!PortOf(ports, x) = Dev!PortOf(ports, x)
         /\ Switch!Egress(ports, x, y) = Dev!Egress(ports, x, y)
<1>1. Switch!PortOf(ports, x) = Dev!PortOf(ports, x)
  BY DEF Switch!PortOf, Dev!PortOf, Switch!SelectInSeq, Dev!SelectInSeq, Switch!Min, Dev!Min
<1>2. Switch!Flooded(ports, x) = Dev!Flooded(ports, x)
  BY DEF Switch!Flooded, Dev!Flooded
<1>3. Switch!Egress(ports, x, y) = Dev!Egress(ports, x, y)
  BY <1>2 DEF Switch!Egress, Dev!Egress, Switch!SelectInSeq, Dev!SelectInSeq, Switch!Min, Dev!Min
<1> QED
  BY <1>1, <1>3

LEMMA SameActions ==
  /\ Switch!Init <=> Dev!Init
  /\ \A d : Switch!AddSwitchPort(d) <=> Dev!AddSwitchPort(d)
  /\ \A b : Switch!SetPacketDrop(b) <=> Dev!SetPacketDrop(b)
  /\ \A d, dst : Switch!PacketTypeOf(d, dst) = Dev!PacketTypeOf(d, dst)
  /\ \A d, t, dst, e, b :
       Switch!ReceiveFromDevice(d, t, dst, e, b) <=> Dev!ReceiveFromDevice(d, t, dst, e, b)
  /\ Switch!TypeOK <=> Dev!TypeOK
<1>1. Switch!Init <=> Dev!Init
  BY DEF Switch!Init, Dev!Init, Switch!Nothing, Dev!Nothing
<1>2. \A d : Switch!AddSwitchPort(d) <=> Dev!AddSwitchPort(d)
  BY DEF Switch!AddSwitchPort, Dev!AddSwitchPort, Switch!NewPortNumber, Dev!NewPortNumber,
         Switch!Nothing, Dev!Nothing, Switch!Last, Dev!Last
<1>3. \A d, dst : Switch!PacketTypeOf(d, dst) = Dev!PacketTypeOf(d, dst)
  BY DEF Switch!PacketTypeOf, Dev!PacketTypeOf
<1>4. ASSUME NEW d, NEW t, NEW dst, NEW e, NEW b
      PROVE  Switch!ReceiveFromDevice(d, t, dst, e, b) <=> Dev!ReceiveFromDevice(d, t, dst, e, b)
  <2>1. Switch!PortOf(m_ports, d) = Dev!PortOf(m_ports, d)
    BY SameSwitch
  <2>2. \A x : Switch!Egress(m_ports, x, e) = Dev!Egress(m_ports, x, e)
    BY SameSwitch
  <2> QED
    BY <2>1, <2>2 DEF Switch!ReceiveFromDevice, Dev!ReceiveFromDevice, Switch!GoesUp, Dev!GoesUp,
                      Switch!GoesThrough, Dev!GoesThrough
<1>5. Switch!TypeOK <=> Dev!TypeOK
  BY DEF Switch!TypeOK, Dev!TypeOK, Switch!Port, Dev!Port, Switch!Effect, Dev!Effect,
         Switch!PacketType, Dev!PacketType, Switch!ToSet, Dev!ToSet
<1>6. \A b : Switch!SetPacketDrop(b) <=> Dev!SetPacketDrop(b)
  BY DEF Switch!SetPacketDrop, Dev!SetPacketDrop, Switch!Nothing, Dev!Nothing
<1> QED
  BY <1>1, <1>2, <1>3, <1>4, <1>5, <1>6

LEMMA SameList ==
  ASSUME NEW t, NEW k, NEW v
  PROVE  /\ List!exact_add(t, k, v) = Outs!exact_add(t, k, v)
         /\ List!exact_lookup(t, k, v) = Outs!exact_lookup(t, k, v)
<1>1. List!StopAt(t, k) = Outs!StopAt(t, k)
  BY DEF List!StopAt, Outs!StopAt, List!compare_keys, Outs!compare_keys,
         List!CompareOver, Outs!CompareOver, List!Min, Outs!Min
<1>2. List!Hit(t, k) <=> Outs!Hit(t, k)
  BY <1>1 DEF List!Hit, Outs!Hit, List!compare_keys, Outs!compare_keys,
              List!CompareOver, Outs!CompareOver, List!Min, Outs!Min
<1>3. List!exact_add(t, k, v) = Outs!exact_add(t, k, v)
  BY <1>1, <1>2 DEF List!exact_add, Outs!exact_add, List!InsertAt, Outs!InsertAt
<1>4. List!exact_lookup(t, k, v) = Outs!exact_lookup(t, k, v)
  BY <1>1, <1>2 DEF List!exact_lookup, Outs!exact_lookup
<1> QED
  BY <1>3, <1>4

LEMMA SameTrie ==
  /\ \A key, depth : Fib!MatchDepth(key, depth) = Fibs!MatchDepth(key, depth)
  /\ \A key : Fib!lpm_lookup(key) = Fibs!lpm_lookup(key)
  /\ \A key, l, v : Fib!LpmAdd(key, l, v) <=> Fibs!LpmAdd(key, l, v)
  /\ \A key, d : Fib!First(key, d) = Fibs!First(key, d)
  /\ Fib!Path = Fibs!Path /\ Fib!Prefix = Fibs!Prefix
<1>0. ASSUME NEW key, NEW d
      PROVE  Fib!First(key, d) = Fibs!First(key, d)
  BY DEF Fib!First, Fibs!First
<1>1. ASSUME NEW path, NEW key
      PROVE  Fib!SiblingStop(path, key) = Fibs!SiblingStop(path, key)
  BY DEF Fib!SiblingStop, Fibs!SiblingStop, Fib!compare_keys, Fibs!compare_keys,
         Fib!CompareOver, Fibs!CompareOver, Fib!Min, Fibs!Min
<1>2. ASSUME NEW path, NEW key
      PROVE  Fib!Found(path, key) <=> Fibs!Found(path, key)
  BY <1>1 DEF Fib!Found, Fibs!Found
<1>3. ASSUME NEW key, NEW depth
      PROVE  Fib!MatchDepth(key, depth) = Fibs!MatchDepth(key, depth)
  BY <1>0, <1>2 DEF Fib!MatchDepth, Fibs!MatchDepth, Fib!Max, Fibs!Max
<1>4. ASSUME NEW key
      PROVE  Fib!lpm_lookup(key) = Fibs!lpm_lookup(key)
  <2>1. Fib!lpm_match(key) = Fibs!lpm_match(key)
    BY <1>0, <1>3 DEF Fib!lpm_match, Fibs!lpm_match, Fib!Max, Fibs!Max
  <2> QED
    BY <1>0, <2>1 DEF Fib!lpm_lookup, Fibs!lpm_lookup
<1>5. Fib!Path = Fibs!Path /\ Fib!Prefix = Fibs!Prefix
  BY DEF Fib!Path, Fibs!Path, Fib!Prefix, Fibs!Prefix, Fib!BoundedSeq, Fibs!BoundedSeq,
         Fib!SeqOf, Fibs!SeqOf
<1>6. ASSUME NEW path, NEW key
      PROVE  Fib!Linked(path, key) = Fibs!Linked(path, key)
  BY <1>1 DEF Fib!Linked, Fibs!Linked, Fib!InsertAt, Fibs!InsertAt
<1>7. ASSUME NEW key, NEW l, NEW v
      PROVE  Fib!LpmAdd(key, l, v) <=> Fibs!LpmAdd(key, l, v)
  <2>1. Fib!depthOf(l) = Fibs!depthOf(l) /\ \A d : Fib!ValidDepth(d) <=> Fibs!ValidDepth(d)
    BY DEF Fib!depthOf, Fibs!depthOf, Fib!ValidDepth, Fibs!ValidDepth
  <2> QED
    BY <1>0, <1>1, <1>3, <1>5, <1>6, <2>1 DEF Fib!LpmAdd, Fibs!LpmAdd
<1> QED
  BY <1>0, <1>3, <1>4, <1>5, <1>7

-----------------------------------------------------------------------------
(* The inductive invariant.                                                *)

\* The least of the first bytes told heads the trie's table: a route is in front of the table
\* exactly if it is in front of all those told.
HeadTold ==
  /\ \A p \in DOMAIN want.fib : p[1] \in Int
  /\ fib_kids[<<>>] = <<>> => DOMAIN want.fib = {}
  /\ fib_kids[<<>>] # <<>> =>
       /\ fib_kids[<<>>][1] \in Int
       /\ \A p \in DOMAIN want.fib : fib_kids[<<>>][1] <= p[1]
       /\ \E p \in DOMAIN want.fib : fib_kids[<<>>][1] = p[1]

\* The trie is in order.
FibOK == Fibs!IInv /\ HeadTold /\ fib_default \in {on_miss, Dangling}

\* The actions that the trie may have been told.
Routable(a) == /\ a \in RouteAction
               /\ \/ a = on_miss
                  \/ /\ a.action_id = "fib_hit_nexthop"
                     /\ a.port \in 0..511 /\ a.port \in named

\* It holds what it was told last, but for what is lost.
FibTold ==
  /\ DOMAIN want.fib \subseteq Fibs!Route
  /\ \A p \in Fibs!Route :
       Fibs!Routes[p] = IF p \in DOMAIN want.fib THEN want.fib[p] ELSE NoEntry
  /\ \A p \in DOMAIN want.fib : Routable(want.fib[p])

\* The key of an egress port.
PortKey(port) == <<port % 256, port \div 256>>

\* The list is in order, and holds what it was told last.
SendoutOK ==
  /\ sendout = [entries |-> sendout.entries, default_val |-> sendout.default_val]
  /\ sendout.entries \in Seq(Outs!Entry) /\ Outs!Descending(sendout.entries)
  /\ sendout.default_val \in {on_miss, Dangling}

SendoutTold ==
  /\ \A port \in 0..511 : Outs!exact_lookup(sendout.entries, PortKey(port), NoEntry) =
                            IF port \in DOMAIN want.sendout THEN want.sendout[port] ELSE NoEntry
  /\ \A port \in DOMAIN want.sendout :
       /\ want.sendout[port] \in SourceAction
       /\ want.sendout[port].action_id \in {"on_miss", "rewrite_src_mac"}

\* No frame comes before the tables are initialised, and the ports come before them.
Phases ==
  /\ leaked \subseteq {"standard_metadata", "descriptor"}
  /\ undefined \in BOOLEAN /\ bg \in BOOLEAN
  /\ bg \/ undefined \/ leaked # {} \/ arrived # <<>> \/ wire # <<>> => Len(sendout.entries) >= 4
  /\ Len(sendout.entries) > 0 => Len(m_ports) = Len(Devices) /\ 0 \in named

PdOK == \A d \in ToSet(pd) : /\ d.egress_port \in 0..511
                            /\ d.modified \in BOOLEAN /\ d.dropped \in BOOLEAN
                            /\ d.ipv4 # NoHeader => Header20(d.ipv4)

Tables == FibOK /\ FibTold /\ SendoutOK /\ SendoutTold
             /\ want = [fib |-> want.fib, sendout |-> want.sendout]

AsTold == /\ PdOK /\ RoutedAsTold /\ RewrittenAsTold /\ UpdatedHeader
          /\ DescriptorLostOnlyWithoutPort /\ StraysOnlyAsTold

RouterInv == Dev!DeviceInv /\ Tables /\ Phases /\ AsTold

-----------------------------------------------------------------------------
(* The device.                                                             *)

LEMMA DeviceInit == Switch!Init => Dev!DeviceInv
<1>1. Dev!Init => Dev!DeviceInv
  BY DeviceAssumed, Dev!InitDevice
<1> QED
  BY <1>1, SameActions

LEMMA DeviceStep == Dev!DeviceInv /\ [Dev!Next]_(Dev!vars) => Dev!DeviceInv'
BY DeviceAssumed, Dev!NextDevice

\* What the controller does leaves the device alone.
LEMMA DeviceStill ==
  ASSUME Dev!DeviceInv, UNCHANGED <<m_ports, m_address, m_drop>>, last' = Switch!Nothing
  PROVE  Dev!DeviceInv'
<1>1. Dev!FloodOrUnicast' /\ (Dev!ToSet(last))' \subseteq Dev!Effect
  <2>1. last' = Dev!Nothing
    BY DEF Switch!Nothing, Dev!Nothing
  <2> QED
    BY <2>1, DeviceAssumed, Dev!NothingReceivedInv
<1>2. Dev!Numbered' /\ Dev!DevicesOnce'
  BY DEF Dev!DeviceInv, Dev!Numbered, Dev!DevicesOnce
<1>3. Dev!TypeOK'
  BY <1>1 DEF Dev!DeviceInv, Dev!TypeOK
<1> QED
  BY <1>1, <1>2, <1>3 DEF Dev!DeviceInv

-----------------------------------------------------------------------------
(* The trie.                                                               *)

LEMMA OnMissIsRoute == on_miss \in RouteAction /\ on_miss \in SourceAction
                         /\ Dangling \in RouteAction /\ Dangling \in SourceAction
                         /\ on_miss.action_id = "on_miss" /\ Dangling.action_id = "dangling"
BY DEF RouteAction, SourceAction, on_miss, Dangling

\* The bytes a route names begin with the key's first.
LEMMA FirstByte ==
  ASSUME NEW key \in FibKey, NEW d \in 1..4
  PROVE  Fibs!First(key, d)[1] = key[1] /\ key[1] \in Int
<1>1. key \in Seq(AddressByte) /\ Len(key) = 4 /\ key[1] \in AddressByte
  <2>1. key \in Fibs!Key
    BY FibAssumed
  <2>2. 1 \in 1..4
    OBVIOUS
  <2> QED
    BY <2>1, <2>2, FibAssumed, Fibs!KeyIsSeq
<1>2. Fibs!First(key, d)[1] = key[1]
  <2>1. d \in 0..Len(key) /\ 1 \in 1..d
    BY <1>1
  <2> QED
    BY <1>1, <2>1, FibAssumed, Fibs!FirstBytes
<1>3. \A b \in AddressByte : b \in Int
  BY FibAssumed
<1> QED
  BY <1>1, <1>2, <1>3

\* A destination is answered with the longest route told, and with the default if none is.
LEMMA FibLookup ==
  ASSUME FibOK, FibTold, NEW addr \in FibKey
  PROVE  /\ Matching(want.fib, addr) = {} => /\ Fib!lpm_lookup(addr) = fib_default
                                            /\ RouteOf(want.fib, addr) = on_miss
         /\ Matching(want.fib, addr) # {} => Fib!lpm_lookup(addr) = RouteOf(want.fib, addr)
         /\ Routable(RouteOf(want.fib, addr))
<1> DEFINE R == Fibs!Routes
           M == Matching(want.fib, addr)
           Fits(q) == Fibs!IsPrefix(q, addr)
<1>1. \/ /\ \A q \in Fibs!Route : R[q] # NoEntry => ~Fits(q)
         /\ Fibs!lpm_lookup(addr) = fib_default
      \/ \E p \in Fibs!Route :
           /\ R[p] # NoEntry /\ Fits(p)
           /\ \A q \in Fibs!Route : R[q] # NoEntry /\ Fits(q) => Len(q) < Len(p) \/ q = p
           /\ Fibs!lpm_lookup(addr) = R[p]
  <2>1. Fibs!IInv /\ addr \in Fibs!Key
    BY DEF FibOK, FibKey, Fibs!Key
  <2> QED
    BY <2>1, FibAssumed, Fibs!LookupAnswers
<1>2. \A q \in Fibs!Route : /\ R[q] # NoEntry <=> q \in DOMAIN want.fib
                            /\ q \in DOMAIN want.fib => R[q] = want.fib[q]
  BY NoEntryIsNoAction DEF FibTold, Routable
<1>3. M = {q \in Fibs!Route : R[q] # NoEntry /\ Fits(q)}
  <2>1. \A q : IsPrefix(q, addr) <=> Fits(q)
    BY DEF IsPrefix, Fibs!IsPrefix
  <2>2. DOMAIN want.fib \subseteq Fibs!Route
    BY DEF FibTold
  <2> HIDE DEF Fits, R
  <2> QED
    BY <1>2, <2>1, <2>2 DEF Matching
<1>4. Fib!lpm_lookup(addr) = Fibs!lpm_lookup(addr)
  BY SameTrie
<1>5. \A q \in M : Len(q) \in Nat
  <2>1. Fibs!Route \in SUBSET Fibs!Prefix
    BY FibAssumed, Fibs!RoutesArePrefixes
  <2>2. \A q : q \in Fibs!Prefix => q \in Seq(AddressByte)
    BY FibAssumed, Fibs!PathsAndPrefixes
  <2> QED
    BY <1>3, <2>1, <2>2, LenProperties
<1> HIDE DEF Fits, R
<1>6. CASE M = {}
  <2>1. Fibs!lpm_lookup(addr) = fib_default
    BY <1>1, <1>3, <1>6
  <2>2. RouteOf(want.fib, addr) = on_miss
    BY <1>6 DEF RouteOf
  <2> QED
    BY <1>4, <1>6, <2>1, <2>2, OnMissIsRoute DEF Routable
<1>7. CASE M # {}
  <2>1. PICK p \in Fibs!Route :
           /\ R[p] # NoEntry /\ Fits(p)
           /\ \A q \in Fibs!Route : R[q] # NoEntry /\ Fits(q) => Len(q) < Len(p) \/ q = p
           /\ Fibs!lpm_lookup(addr) = R[p]
    BY <1>1, <1>3, <1>7
  <2>2. p \in M /\ \A q \in M : Len(q) < Len(p) \/ q = p
    BY <1>3, <2>1
  <2> DEFINE c == CHOOSE x \in M : \A q \in M : Len(q) <= Len(x)
  <2>3. c \in M /\ \A q \in M : Len(q) <= Len(c)
    <3>1. \A q \in M : Len(q) <= Len(p)
      BY <1>5, <2>2
    <3> HIDE DEF M
    <3> QED
      BY <2>2, <3>1
  <2>4. RouteOf(want.fib, addr) = want.fib[c]
    BY <1>7 DEF RouteOf
  <2> HIDE DEF c, M
  <2>5. c = p
    <3>1. Len(p) <= Len(c) /\ (Len(c) < Len(p) \/ c = p)
      BY <2>2, <2>3
    <3> QED
      BY <1>5, <2>2, <2>3, <3>1
  <2>6. want.fib[p] = R[p] /\ p \in DOMAIN want.fib
    BY <1>2, <2>1
  <2>7. Routable(want.fib[p])
    BY <2>6 DEF FibTold
  <2> QED
    BY <1>4, <1>7, <2>1, <2>4, <2>5, <2>6, <2>7 DEF M
<1> QED
  BY <1>6, <1>7

\* A route is added, is the last for its prefix, and heads the table if it is in front.
LEMMA FibAdd ==
  ASSUME FibOK, FibTold, NEW key \in FibKey, NEW l \in 0..255, NEW a \in RouteAction,
         Fib!LpmAdd(key, l, a),
         a = on_miss \/ (a.action_id = "fib_hit_nexthop" /\ a.port \in 0..511 /\ a.port \in named'),
         named \subseteq named',
         want'.fib = ToldRoute(want.fib, Fib!First(key, l \div 8), a)
  PROVE  FibOK' /\ FibTold'
<1> DEFINE here == Fibs!First(key, Fibs!depthOf(l))
           front == \A q \in DOMAIN want.fib : here[1] < q[1]
<1>1. Fibs!LpmAdd(key, l, a) /\ Fibs!IInv
  BY SameTrie DEF FibOK
<1>2. /\ fib_kids'[<<>>] # <<>>
      /\ fib_kids'[<<>>][1] = IF fib_kids[<<>>] = <<>> \/ Fibs!InFront(key) THEN key[1]
                              ELSE fib_kids[<<>>][1]
  BY <1>1, FibAssumed, Fibs!AddHead
<1>3. Fibs!IInv'
  BY <1>1, FibAssumed, Fibs!AddInv
<1>4. /\ Fibs!depthOf(l) \in 1..4 /\ fib_default' = fib_default
      /\ Fibs!First(key, Fibs!depthOf(l)) \in Fibs!Route
      /\ ~Fibs!InFront(key) => Fibs!OneRoute(Fibs!First(key, Fibs!depthOf(l)), a)
      /\ Fibs!InFront(key) => Fibs!OnlyRoute(Fibs!First(key, Fibs!depthOf(l)), a)
  BY <1>1, FibAssumed, Fibs!AddRoutes
<1>5. /\ here \in Fibs!Route
      /\ \A p \in Fibs!Route :
           Fibs!Routes'[p] = IF p = here THEN a
                             ELSE IF Fibs!InFront(key) THEN NoEntry ELSE Fibs!Routes[p]
  BY <1>4 DEF Fibs!OneRoute, Fibs!OnlyRoute
<1>6. here[1] = key[1] /\ key[1] \in Int
  BY <1>4, FirstByte
<1>7. want'.fib = IF front THEN Told(<<>>, here, a) ELSE Told(want.fib, here, a)
  <2>1. Fib!First(key, l \div 8) = here
    BY SameTrie DEF Fibs!depthOf
  <2> QED
    BY <2>1 DEF ToldRoute
<1> HIDE DEF here
<1>8. front <=> fib_kids[<<>>] = <<>> \/ Fibs!InFront(key)
  <2>1. CASE fib_kids[<<>>] = <<>>
    BY <2>1 DEF FibOK, HeadTold
  <2>2. CASE fib_kids[<<>>] # <<>> /\ Fibs!InFront(key)
    BY <1>6, <2>2 DEF FibOK, HeadTold, Fibs!InFront
  <2>3. CASE fib_kids[<<>>] # <<>> /\ ~Fibs!InFront(key)
    BY <1>6, <2>3 DEF FibOK, HeadTold, Fibs!InFront
  <2> QED
    BY <2>1, <2>2, <2>3
<1>9. /\ DOMAIN want'.fib = IF front THEN {here} ELSE DOMAIN want.fib \cup {here}
      /\ want'.fib[here] = a
      /\ \A p \in DOMAIN want'.fib : p # here => p \in DOMAIN want.fib /\ want'.fib[p] = want.fib[p]
  <2>1. CASE front
    <3>1. want'.fib = [y \in {here} |-> a]
      BY <1>7, <2>1 DEF Told
    <3> QED
      BY <2>1, <3>1
  <2>2. CASE ~front
    BY <1>7, <2>2 DEF Told
  <2> QED
    BY <2>1, <2>2
<1>10. front => \A p \in Fibs!Route : p # here => Fibs!Routes'[p] = NoEntry
  <2>1. CASE Fibs!InFront(key)
    BY <1>5, <2>1
  <2>2. CASE fib_kids[<<>>] = <<>> /\ ~Fibs!InFront(key)
    BY <1>5, <2>2 DEF FibOK, HeadTold, FibTold
  <2> QED
    BY <1>8, <2>1, <2>2
<1>11. ~front => \A p \in Fibs!Route : p # here => Fibs!Routes'[p] = Fibs!Routes[p]
  BY <1>5, <1>8
<1>12. HeadTold'
  <2>1. CASE front
    <3>1. DOMAIN want'.fib = {here} /\ fib_kids'[<<>>][1] = key[1]
      BY <1>2, <1>8, <1>9, <2>1
    <3> QED
      BY <1>2, <1>6, <3>1 DEF HeadTold
  <2>2. CASE ~front
    <3>1. DOMAIN want'.fib = DOMAIN want.fib \cup {here} /\ fib_kids'[<<>>][1] = fib_kids[<<>>][1]
      BY <1>2, <1>8, <1>9, <2>2
    <3>2. fib_kids[<<>>] # <<>> /\ fib_kids[<<>>][1] <= here[1]
      BY <1>6, <1>8, <2>2 DEF FibOK, HeadTold, Fibs!InFront
    <3> QED
      BY <1>2, <1>6, <3>1, <3>2 DEF FibOK, HeadTold
  <2> QED
    BY <2>1, <2>2
<1> HIDE DEF front
<1>13. FibTold'
  <2>1. DOMAIN want'.fib \subseteq Fibs!Route
    BY <1>5, <1>9 DEF FibTold
  <2>2. ASSUME NEW p \in Fibs!Route
        PROVE  Fibs!Routes'[p] = IF p \in DOMAIN want'.fib THEN want'.fib[p] ELSE NoEntry
    <3>1. CASE p = here
      BY <1>5, <1>9, <3>1
    <3>2. CASE p # here /\ front
      BY <1>9, <1>10, <3>2
    <3>3. CASE p # here /\ ~front
      BY <1>9, <1>11, <3>3 DEF FibTold
    <3> QED
      BY <3>1, <3>2, <3>3
  <2>3. ASSUME NEW p \in DOMAIN want'.fib
        PROVE  /\ want'.fib[p] \in RouteAction
               /\ \/ want'.fib[p] = on_miss
                  \/ /\ want'.fib[p].action_id = "fib_hit_nexthop"
                     /\ want'.fib[p].port \in 0..511 /\ want'.fib[p].port \in named'
    <3>1. CASE p = here
      BY <1>9, <3>1
    <3>2. CASE p # here
      <4>1. p \in DOMAIN want.fib /\ want'.fib[p] = want.fib[p]
        BY <1>9, <3>2
      <4> QED
        BY <4>1 DEF FibTold, Routable
    <3> QED
      BY <3>1, <3>2
  <2> QED
    BY <2>1, <2>2, <2>3 DEF FibTold, Routable
<1>14. FibOK'
  BY <1>3, <1>4, <1>12 DEF FibOK
<1> QED
  BY <1>13, <1>14

\* What leaves the trie and the history as they are.
LEMMA FibKept ==
  ASSUME FibOK, FibTold, UNCHANGED <<fib_kids, fib_val, named>>, want'.fib = want.fib,
         fib_default' \in {on_miss, Dangling}
  PROVE  FibOK' /\ FibTold'
<1>1. Fibs!IInv'
  BY OnMissIsRoute DEF FibOK, Fibs!IInv, Fibs!TypeOK, Fibs!SiblingsAscending, Fibs!ValuesOnRoutes,
     Fibs!FreedNodesEmpty
<1>2. Fibs!Routes' = Fibs!Routes
  BY FibAssumed, Fibs!RoutesByReach
<1>3. HeadTold'
  BY DEF FibOK, HeadTold
<1> QED
  BY <1>1, <1>2, <1>3 DEF FibTold, FibOK, Routable

-----------------------------------------------------------------------------
(* The list.                                                               *)

LEMMA PortKeys ==
  /\ \A port \in 0..511 : PortKey(port) \in Outs!Key
  /\ \A port \in 0..511, k \in [1..2 -> Octet] : PortKey(port) = k <=> port = k[1] + 256 * k[2]
  /\ [1..2 -> Octet] = Outs!Key
<1>1. ASSUME NEW port \in 0..511
      PROVE  /\ PortKey(port) \in [1..2 -> Octet]
             /\ PortKey(port)[1] = port % 256 /\ PortKey(port)[2] = port \div 256
  <2>1. port % 256 \in 0..255 /\ port \div 256 \in 0..255
    OBVIOUS
  <2> QED
    BY <2>1, OctetSet DEF PortKey
<1>3. ASSUME NEW port \in 0..511, NEW k \in [1..2 -> Octet]
      PROVE  PortKey(port) = k <=> port = k[1] + 256 * k[2]
  <2> DEFINE lo == k[1]
             hi == k[2]
  <2>1. lo \in 0..255 /\ hi \in 0..255
    BY OctetSet
  <2>2. port = k[1] + 256 * k[2] <=> port % 256 = k[1] /\ port \div 256 = k[2]
    <3> HIDE DEF lo, hi
    <3>1. port = lo + 256 * hi <=> port % 256 = lo /\ port \div 256 = hi
      BY <2>1
    <3> QED
      BY <3>1 DEF lo, hi
  <2>3. PortKey(port) = k <=> PortKey(port)[1] = k[1] /\ PortKey(port)[2] = k[2]
    <3>1. \A x, y \in [1..2 -> Octet] : x = y <=> x[1] = y[1] /\ x[2] = y[2]
      OBVIOUS
    <3>2. PortKey(port) \in [1..2 -> Octet]
      BY <1>1
    <3> HIDE DEF PortKey
    <3> QED
      BY <3>1, <3>2
  <2> QED
    BY <1>1, <2>2, <2>3
<1> QED
  BY <1>1, <1>3 DEF Outs!Key

\* A port's key is answered with what was last told for it, and with the default if nothing.
LEMMA SendoutLookup ==
  ASSUME SendoutOK, SendoutTold, NEW port \in 0..511
  PROVE  List!exact_lookup(sendout.entries, PortKey(port), sendout.default_val) =
           IF port \in DOMAIN want.sendout THEN want.sendout[port] ELSE sendout.default_val
<1> DEFINE t == sendout.entries
           k == PortKey(port)
           d == sendout.default_val
<1>1. t \in Seq(Outs!Entry) /\ Outs!Descending(t)
  BY DEF SendoutOK
<1>2. k \in Outs!Key
  BY PortKeys
<1>3. Outs!exact_lookup(t, k, NoEntry) = IF port \in DOMAIN want.sendout THEN want.sendout[port]
                                         ELSE NoEntry
  BY DEF SendoutTold
<1>4. port \in DOMAIN want.sendout => want.sendout[port] # NoEntry
  BY NoEntryIsNoAction DEF SendoutTold
<1>5. List!exact_lookup(t, k, d) = Outs!exact_lookup(t, k, d)
  BY SameList
<1> HIDE DEF t, k, d
<1>6. /\ \A i \in 1..Len(t) : t[i].key = k => /\ Outs!exact_lookup(t, k, d) = t[i].value
                                             /\ Outs!exact_lookup(t, k, NoEntry) = t[i].value
      /\ (\A i \in 1..Len(t) : t[i].key # k) => /\ Outs!exact_lookup(t, k, d) = d
                                                /\ Outs!exact_lookup(t, k, NoEntry) = NoEntry
  BY <1>1, <1>2, OutsAssumed, Outs!LookupIsMembership
<1>7. \A i \in 1..Len(t) : t[i].value # NoEntry
  <2>1. ASSUME NEW i \in 1..Len(t) PROVE t[i] \in Outs!Entry
    BY <1>1, ElementOfSeq
  <2> QED
    BY <2>1, NoEntryIsNoAction DEF Outs!Entry
<1>8. Outs!exact_lookup(t, k, d) = IF port \in DOMAIN want.sendout THEN want.sendout[port] ELSE d
  BY <1>3, <1>4, <1>6, <1>7
<1> QED
  BY <1>5, <1>8 DEF t, k, d

\* What ExactTable_proof says of an added entry.
LEMMA ListAdd ==
  ASSUME NEW t \in Seq(Outs!Entry), Outs!Descending(t), NEW k \in Outs!Key, NEW v \in SourceAction
  PROVE  /\ Outs!exact_add(t, k, v) \in Seq(Outs!Entry)
         /\ Outs!Descending(Outs!exact_add(t, k, v))
         /\ Len(Outs!exact_add(t, k, v)) \in {Len(t), Len(t) + 1}
         /\ \A k2 \in Outs!Key : \A d :
              Outs!exact_lookup(Outs!exact_add(t, k, v), k2, d) =
                IF k2 = k THEN v ELSE Outs!exact_lookup(t, k2, d)
<1>1. Outs!exact_add(t, k, v) \in Seq(Outs!Entry) /\ Outs!Descending(Outs!exact_add(t, k, v))
  BY OutsAssumed, Outs!AddDescending
<1>2. Len(Outs!exact_add(t, k, v)) \in {Len(t), Len(t) + 1}
  BY OutsAssumed, Outs!AddLength
<1>3. ASSUME NEW k2 \in Outs!Key, NEW d
      PROVE  Outs!exact_lookup(Outs!exact_add(t, k, v), k2, d) =
               IF k2 = k THEN v ELSE Outs!exact_lookup(t, k2, d)
  BY OutsAssumed, Outs!AddLookup
<1> QED
  BY <1>1, <1>2, <1>3

\* An address for a port is added, and the last for it.
LEMMA SendoutAdd ==
  ASSUME SendoutOK, SendoutTold, NEW k \in [1..2 -> Octet], NEW a \in SourceAction,
         a.action_id \in {"on_miss", "rewrite_src_mac"},
         sendout' = [sendout EXCEPT !.entries = List!exact_add(@, k, a)],
         want'.sendout = Told(want.sendout, k[1] + 256 * k[2], a)
  PROVE  /\ SendoutOK' /\ SendoutTold'
         /\ Len(sendout'.entries) \in {Len(sendout.entries), Len(sendout.entries) + 1}
<1> DEFINE t == sendout.entries
           u == Outs!exact_add(t, k, a)
           n == k[1] + 256 * k[2]
<1>1. t \in Seq(Outs!Entry) /\ Outs!Descending(t) /\ k \in Outs!Key
  BY PortKeys DEF SendoutOK
<1>2. sendout' = [entries |-> u, default_val |-> sendout.default_val]
  <2>1. List!exact_add(sendout.entries, k, a) = u
    BY SameList
  <2> QED
    BY <2>1 DEF SendoutOK
<1> HIDE DEF u
<1>3. u \in Seq(Outs!Entry) /\ Outs!Descending(u)
  BY <1>1, ListAdd DEF u
<1>4. Len(u) \in {Len(t), Len(t) + 1}
  BY <1>1, ListAdd DEF u
<1>5. ASSUME NEW port \in 0..511
      PROVE  Outs!exact_lookup(u, PortKey(port), NoEntry) =
               IF PortKey(port) = k THEN a ELSE Outs!exact_lookup(t, PortKey(port), NoEntry)
  <2>1. PortKey(port) \in Outs!Key
    BY PortKeys
  <2> QED
    BY <1>1, <2>1, ListAdd DEF u
<1> HIDE DEF n
<1>6. /\ DOMAIN want'.sendout = DOMAIN want.sendout \cup {n} /\ want'.sendout[n] = a
      /\ \A port \in DOMAIN want.sendout : port # n => want'.sendout[port] = want.sendout[port]
  BY DEF Told, n
<1>7. \A port \in 0..511 : PortKey(port) = k <=> port = n
  BY PortKeys DEF n
<1>8. SendoutOK'
  BY <1>2, <1>3 DEF SendoutOK
<1>9. SendoutTold'
  <2>1. ASSUME NEW port \in 0..511
        PROVE  Outs!exact_lookup(sendout'.entries, PortKey(port), NoEntry) =
                 IF port \in DOMAIN want'.sendout THEN want'.sendout[port] ELSE NoEntry
    <3>1. Outs!exact_lookup(t, PortKey(port), NoEntry) =
            IF port \in DOMAIN want.sendout THEN want.sendout[port] ELSE NoEntry
      BY DEF SendoutTold
    <3>2. sendout'.entries = u
      BY <1>2
    <3> QED
      BY <1>5, <1>6, <1>7, <3>1, <3>2
  <2>2. ASSUME NEW port \in DOMAIN want'.sendout
        PROVE  /\ want'.sendout[port] \in SourceAction
               /\ want'.sendout[port].action_id \in {"on_miss", "rewrite_src_mac"}
    BY <1>6 DEF SendoutTold
  <2> QED
    BY <2>1, <2>2 DEF SendoutTold
<1>10. Len(sendout'.entries) \in {Len(t), Len(t) + 1}
  BY <1>2, <1>4
<1> QED
  BY <1>8, <1>9, <1>10

-----------------------------------------------------------------------------
(* The header.                                                             *)

LEMMA SameSums ==
  /\ Sums!W = W /\ Sums!Octet = Octet
  /\ \A h : /\ Sums!WordSum(h) = WordSum(h)
            /\ Sums!hdrChecksumOf(h) = hdrChecksumOf(h)
            /\ Sums!calculate_ipv4_checksum(h) = calculate_ipv4_checksum(h)
            /\ Sums!IsCorrupt(h) <=> IsCorrupt(h)
            /\ \A c : Sums!WithChecksum(h, c) = WithChecksum(h, c)
  /\ \A s : Sums!OnesComplement(s) = OnesComplement(s)
<1>1. Sums!W = W /\ Sums!Octet = Octet
  BY DEF Sums!W, W, Sums!Octet, Octet
<1>2. ASSUME NEW h
      PROVE  Sums!WordSum(h) = WordSum(h)
  BY DEF Sums!WordSum, WordSum, Sums!SumTo, SumTo, Sums!Words, Words, Sums!WordAt, WordAt
<1>3. ASSUME NEW h
      PROVE  Sums!calculate_ipv4_checksum(h) = calculate_ipv4_checksum(h)
  BY <1>1, <1>2 DEF Sums!calculate_ipv4_checksum, calculate_ipv4_checksum,
     Sums!calculate_csum16, calculate_csum16, Sums!csum16_add, csum16_add, Sums!Fold, Fold
<1>4. \A h : Sums!hdrChecksumOf(h) = hdrChecksumOf(h)
  BY DEF Sums!hdrChecksumOf, hdrChecksumOf
<1>5. \A h : Sums!IsCorrupt(h) <=> IsCorrupt(h)
  BY <1>3, <1>4 DEF Sums!IsCorrupt, IsCorrupt
<1>6. \A h, c : Sums!WithChecksum(h, c) = WithChecksum(h, c)
  BY DEF Sums!WithChecksum, WithChecksum
<1>7. \A s : Sums!OnesComplement(s) = OnesComplement(s)
  BY <1>1 DEF Sums!OnesComplement, OnesComplement
<1> QED
  BY <1>1, <1>2, <1>3, <1>4, <1>5, <1>6, <1>7

\* What verify_packet and update_packet do with a whole header.
LEMMA HeaderSums ==
  ASSUME NEW h \in Seq(Octet), Len(h) = 20,
         NEW u, u = WithChecksum(h, calculate_ipv4_checksum(h))
  PROVE  /\ u \in Seq(Octet) /\ Len(u) = 20 /\ OnesComplement(WordSum(u)) = W - 1
         /\ \A i \in (1..20) \ {11, 12} : u[i] = h[i]
         /\ IsCorrupt(h) <=> ~Accepted(h)
<1>1. h \in Seq(Sums!Octet) /\ ByteBase >= 3
      /\ u = Sums!WithChecksum(h, Sums!calculate_ipv4_checksum(h))
  BY SameSums, ByteAssumption
<1>2. /\ u \in Seq(Sums!Octet) /\ Len(u) = 20
      /\ \A i \in (1..20) \ {11, 12} : u[i] = h[i]
      /\ Sums!OnesComplement(Sums!WordSum(u)) = Sums!W - 1
  BY <1>1, SumsAssumed, Sums!ChecksumWritten
<1>3. Sums!IsCorrupt(h) <=>
        ~(Sums!OnesComplement(Sums!WordSum(h)) = Sums!W - 1 /\ Sums!hdrChecksumOf(h) # 0)
  BY <1>1, SumsAssumed, Sums!ChecksumVerified
<1>4. SubSeq(h, 1, 20) = h
  BY SubSeqFull
<1> QED
  BY <1>2, <1>3, <1>4, SameSums DEF Accepted

-----------------------------------------------------------------------------
(* The program on a frame.                                                 *)

\* What the parser makes of an IPv4 frame.
ParsedFrom(f) == [dstAddr |-> f.dst, srcAddr |-> f.src, etherType |-> f.etherType,
                  data |-> f.data, ipv4 |-> f.data, modified |-> FALSE,
                  egress_port |-> 0, dropped |-> IsCorrupt(f.data)]

LEMMA Parsed ==
  ASSUME NEW f \in Frame
  PROVE  /\ f.etherType # IPV4 => parse_packet(init_dataplane(f)).ipv4 = NoHeader
         /\ f.etherType = IPV4 => /\ parse_packet(init_dataplane(f)) = ParsedFrom(f)
                                 /\ f.data \in Seq(Octet) /\ Len(f.data) = 20
                                 /\ f.data # NoHeader
                                 /\ DestinationIp(f.data) \in FibKey
<1>1. f.etherType # IPV4 => parse_packet(init_dataplane(f)).ipv4 = NoHeader
  BY DEF parse_packet, init_dataplane
<1>2. f.etherType = IPV4 => parse_packet(init_dataplane(f)) = ParsedFrom(f)
  BY DEF parse_packet, init_dataplane, ParsedFrom
<1>3. f.etherType = IPV4 => f.data \in Seq(Octet) /\ Len(f.data) = 20 /\ f.data # NoHeader
  BY FrameAssumption, ByteAssumption
<1>4. ASSUME f.etherType = IPV4
      PROVE  DestinationIp(f.data) \in FibKey
  <2> DEFINE h == f.data
             s == SubSeq(h, 17, 20)
  <2>1. h \in Seq(Octet) /\ Len(h) = 20 /\ \A i \in 17..20 : h[i] \in AddressByte
    BY <1>4, FrameAssumption
  <2> HIDE DEF h
  <2>2. s \in Seq(Octet) /\ Len(s) = 4 /\ \A i \in 1..4 : s[i] = h[16 + i]
    <3>1. \A i \in 17..20 : h[i] \in Octet
      <4>1. \A i \in 17..20 : i \in 1..Len(h)
        BY <2>1
      <4> QED
        BY <2>1, <4>1, ElementOfSeq
    <3>2. /\ s \in Seq(Octet)
          /\ Len(s) = IF 17 <= 20 THEN 20 - 17 + 1 ELSE 0
          /\ \A i \in 1..(20 - 17 + 1) : s[i] = h[17 + i - 1]
      BY <3>1, SubSeqProperties
    <3>3. \A i \in 1..4 : 17 + i - 1 = 16 + i
      OBVIOUS
    <3> QED
      BY <3>2, <3>3
  <2> HIDE DEF s
  <2>3. \A i \in 1..4 : s[i] \in AddressByte
    <3>1. \A i \in 1..4 : 16 + i \in 17..20
      OBVIOUS
    <3> QED
      BY <2>1, <2>2, <3>1
  <2>4. s \in [1..4 -> AddressByte]
    <3>1. DOMAIN s = 1..4 /\ s = [i \in DOMAIN s |-> s[i]]
      BY <2>2, LenProperties
    <3> QED
      BY <2>3, <3>1
  <2> QED
    BY <2>4 DEF s, h, DestinationIp, FibKey
<1> QED
  BY <1>1, <1>2, <1>3, <1>4

\* After the routing action res, and after the action smac for its port and update_packet.
Hit(res) == res.action_id = "fib_hit_nexthop"

RoutedFrom(f, res) ==
  [dstAddr |-> IF Hit(res) THEN res.dmac ELSE f.dst, srcAddr |-> f.src,
   etherType |-> f.etherType, data |-> f.data, ipv4 |-> f.data, modified |-> Hit(res),
   egress_port |-> IF Hit(res) THEN res.port ELSE 0, dropped |-> IsCorrupt(f.data)]

Updated(h, modified) ==
  WithChecksum(LoweredTtl(h, modified), calculate_ipv4_checksum(LoweredTtl(h, modified)))

Sourced(smac, src) == IF smac.action_id = "rewrite_src_mac" THEN smac.smac ELSE src

FinishedFrom(f, res, smac) ==
  [RoutedFrom(f, res) EXCEPT !.srcAddr = Sourced(smac, f.src), !.ipv4 = Updated(f.data, Hit(res))]

LEMMA RoutedPacket ==
  ASSUME NEW f \in Frame, f.etherType = IPV4, NEW res, Hit(res) => res.port \in 0..511
  PROVE  /\ action_ipv4_fib_lpm(ParsedFrom(f), res) = RoutedFrom(f, res)
         /\ RoutedFrom(f, res).egress_port \in 0..511
         /\ table_sendout_key(RoutedFrom(f, res)) = PortKey(RoutedFrom(f, res).egress_port)
<1>1. action_ipv4_fib_lpm(ParsedFrom(f), res) = RoutedFrom(f, res)
  <2>1. CASE Hit(res)
    <3>1. res.port % 512 = res.port
      <4>1. \A n \in 0..511 : n % 512 = n
        OBVIOUS
      <4> QED
        BY <2>1, <4>1
    <3>2. Hit(res) = TRUE
      BY <2>1 DEF Hit
    <3>3. RoutedFrom(f, res) =
            [dstAddr |-> res.dmac, srcAddr |-> f.src, etherType |-> f.etherType, data |-> f.data,
             ipv4 |-> f.data, modified |-> TRUE, egress_port |-> res.port,
             dropped |-> IsCorrupt(f.data)]
      BY <3>2, Zenon DEF RoutedFrom
    <3> DEFINE c == IsCorrupt(f.data)
               yes == TRUE
               no == FALSE
    <3>4. action_ipv4_fib_lpm(ParsedFrom(f), res) =
            [ParsedFrom(f) EXCEPT !.dstAddr = res.dmac, !.egress_port = res.port, !.modified = yes]
      BY <2>1, <3>1 DEF action_ipv4_fib_lpm, Hit
    <3>5. ParsedFrom(f) =
            [dstAddr |-> f.dst, srcAddr |-> f.src, etherType |-> f.etherType, data |-> f.data,
             ipv4 |-> f.data, modified |-> no, egress_port |-> 0, dropped |-> c]
      BY DEF ParsedFrom
    <3> HIDE DEF c, yes, no
    <3> DEFINE one == [ParsedFrom(f) EXCEPT !.dstAddr = res.dmac]
               two == [one EXCEPT !.egress_port = res.port]
    <3>6. one = [dstAddr |-> res.dmac, srcAddr |-> f.src, etherType |-> f.etherType,
                 data |-> f.data, ipv4 |-> f.data, modified |-> no, egress_port |-> 0,
                 dropped |-> c]
      BY <3>5
    <3> HIDE DEF one
    <3>7. two = [dstAddr |-> res.dmac, srcAddr |-> f.src, etherType |-> f.etherType,
                 data |-> f.data, ipv4 |-> f.data, modified |-> no, egress_port |-> res.port,
                 dropped |-> c]
      BY <3>6
    <3> HIDE DEF two
    <3>8. [two EXCEPT !.modified = yes] =
            [dstAddr |-> res.dmac, srcAddr |-> f.src, etherType |-> f.etherType, data |-> f.data,
             ipv4 |-> f.data, modified |-> yes, egress_port |-> res.port, dropped |-> c]
      BY <3>7
    <3> QED
      BY <3>3, <3>4, <3>8 DEF c, yes, one, two
  <2>2. CASE ~Hit(res)
    <3>1. action_ipv4_fib_lpm(ParsedFrom(f), res) = ParsedFrom(f)
      BY <2>2 DEF action_ipv4_fib_lpm, Hit
    <3>2. Hit(res) = FALSE
      BY <2>2 DEF Hit
    <3>3. RoutedFrom(f, res) = ParsedFrom(f)
      BY <3>2, Zenon DEF RoutedFrom, ParsedFrom
    <3> QED
      BY <3>1, <3>3
  <2> QED
    BY <2>1, <2>2
<1>2. RoutedFrom(f, res).egress_port \in 0..511
  BY DEF RoutedFrom
<1>3. table_sendout_key(RoutedFrom(f, res)) = PortKey(RoutedFrom(f, res).egress_port)
  BY ByteAssumption DEF table_sendout_key, PortKey
<1> QED
  BY <1>1, <1>2, <1>3

\* The next hop's address and the port are those of the route, the source address is that
\* of the port, and the header is right.
LEMMA FinishedPacket ==
  ASSUME NEW f \in Frame, f.etherType = IPV4, NEW res, Hit(res) => res.port \in 0..511, NEW smac,
         NEW d, d = update_packet(action_sendout(RoutedFrom(f, res), smac))
  PROVE  /\ d.egress_port = IF Hit(res) THEN res.port ELSE 0
         /\ d.egress_port \in 0..511 /\ d.modified \in BOOLEAN /\ d.dropped \in BOOLEAN
         /\ d.dropped <=> ~Accepted(f.data)
         /\ d.dstAddr = IF Hit(res) THEN res.dmac ELSE f.dst
         /\ d.srcAddr = Sourced(smac, f.src)
         /\ Header20(d.ipv4) /\ OnesComplement(WordSum(d.ipv4)) = W - 1
         /\ \A i \in (1..20) \ {9, 11, 12} : d.ipv4[i] = f.data[i]
         /\ d.ipv4[9] = (f.data[9] + IF Hit(res) THEN ByteBase - 1 ELSE 0) % ByteBase
<1> DEFINE h == f.data
           low == LoweredTtl(h, Hit(res))
           u == Updated(h, Hit(res))
<1>1. h \in Seq(Octet) /\ Len(h) = 20 /\ h # NoHeader
  BY Parsed
<1>2. d = FinishedFrom(f, res, smac)
  <2> DEFINE s == action_sendout(RoutedFrom(f, res), smac)
  <2>1. s = [RoutedFrom(f, res) EXCEPT !.srcAddr = Sourced(smac, f.src)]
    BY DEF action_sendout, Sourced, RoutedFrom
  <2>2. s.ipv4 = h /\ s.modified = Hit(res)
    BY <2>1 DEF RoutedFrom
  <2>3. d = [s EXCEPT !.ipv4 = Updated(h, Hit(res))]
    BY <1>1, <2>2 DEF update_packet, Updated
  <2> HIDE DEF s
  <2> QED
    BY <2>1, <2>3 DEF FinishedFrom
<1>3. /\ d.egress_port = IF Hit(res) THEN res.port ELSE 0
      /\ d.modified = Hit(res) /\ d.dropped = IsCorrupt(h) /\ d.ipv4 = u
      /\ d.dstAddr = IF Hit(res) THEN res.dmac ELSE f.dst
      /\ d.srcAddr = Sourced(smac, f.src)
  BY <1>2 DEF FinishedFrom, RoutedFrom
<1> HIDE DEF h
<1>4. /\ low \in Seq(Octet) /\ Len(low) = 20
      /\ low[9] = (h[9] + IF Hit(res) THEN ByteBase - 1 ELSE 0) % ByteBase
      /\ \A i \in (1..20) \ {9} : low[i] = h[i]
  <2> DEFINE x == h[9]
             b == (x + IF Hit(res) THEN ByteBase - 1 ELSE 0) % ByteBase
  <2>1. DOMAIN h = 1..20 /\ h \in [1..20 -> Octet]
    <3>1. \A i \in 1..20 : h[i] \in Octet
      <4>1. \A i \in 1..20 : i \in 1..Len(h)
        BY <1>1
      <4> QED
        BY <1>1, <4>1, ElementOfSeq
    <3> QED
      BY <1>1, <3>1, LenProperties
  <2>2. x \in 0..255
    BY <2>1, OctetSet
  <2>3. LoweredTtl(h, Hit(res)) = [h EXCEPT ![9] = b]
    <3> HIDE DEF x
    <3>1. CASE Hit(res)
      <4>1. LoweredTtl(h, Hit(res)) = [h EXCEPT ![9] = (x + ByteBase - 1) % ByteBase]
        BY <3>1 DEF LoweredTtl, x
      <4>2. x + ByteBase - 1 = x + (ByteBase - 1)
        BY <2>2, ByteAssumption
      <4> QED
        BY <3>1, <4>1, <4>2
    <3>2. CASE ~Hit(res)
      <4>1. LoweredTtl(h, Hit(res)) = [h EXCEPT ![9] = x]
        BY <3>2 DEF LoweredTtl, x
      <4>2. (x + 0) % ByteBase = x
        <5>1. (x + 0) % 256 = x
          BY <2>2
        <5> QED
          BY <5>1, ByteAssumption
      <4> QED
        BY <3>2, <4>1, <4>2
    <3> QED
      BY <3>1, <3>2
  <2>4. b \in Octet
    <3> HIDE DEF x
    <3>1. (x + 255) % 256 \in 0..255 /\ (x + 0) % 256 \in 0..255
      BY <2>2
    <3>2. b = (x + 255) % 256 \/ b = (x + 0) % 256
      BY ByteAssumption
    <3> QED
      BY <3>1, <3>2, OctetSet
  <2> HIDE DEF b, x
  <2>5. low \in [1..20 -> Octet] /\ low[9] = b /\ \A i \in (1..20) \ {9} : low[i] = h[i]
    BY <2>1, <2>3, <2>4
  <2>6. low \in Seq(Octet) /\ Len(low) = 20
    <3> HIDE DEF low
    <3>1. low \in Seq(Octet)
      <4>1. 20 \in Nat /\ low \in [1..20 -> Octet]
        BY <2>5
      <4>2. \E n \in Nat : low \in [1..n -> Octet]
        BY ONLY <4>1
      <4> QED
        BY <4>2, SeqDef
    <3> QED
      BY <2>5, <3>1, LenProperties
  <2> QED
    BY <2>5, <2>6 DEF b, x
<1> HIDE DEF low
<1>5. /\ u \in Seq(Octet) /\ Len(u) = 20 /\ OnesComplement(WordSum(u)) = W - 1
      /\ \A i \in (1..20) \ {11, 12} : u[i] = low[i]
  <2>1. u = WithChecksum(low, calculate_ipv4_checksum(low))
    BY DEF Updated, low
  <2> HIDE DEF u
  <2> QED
    BY <1>4, <2>1, HeaderSums
<1>6. IsCorrupt(h) <=> ~Accepted(h)
  BY <1>1, HeaderSums
<1> HIDE DEF u
<1>7. Header20(u)
  BY <1>5, ElementOfSeq DEF Header20
<1>8. IsCorrupt(h) \in BOOLEAN /\ Hit(res) \in BOOLEAN
  BY DEF IsCorrupt, Hit
<1>9. u[9] = low[9] /\ \A i \in (1..20) \ {9, 11, 12} : u[i] = h[i]
  BY <1>4, <1>5
<1>10. d.egress_port \in 0..511
  BY <1>3
<1> QED
  BY <1>3, <1>4, <1>5, <1>6, <1>7, <1>8, <1>9, <1>10 DEF h

-----------------------------------------------------------------------------
(* A frame.                                                                *)

\* It ends at a pointer that leads nowhere: there is no IPv4 header, or the default of one
\* of the tables is read.
Strayed(f) ==
  LET addr == DestinationIp(f.data)
  IN  /\ Stray
      /\ \/ f.etherType # IPV4
         \/ fib_default = Dangling /\ Matching(want.fib, addr) = {}
         \/ sendout.default_val = Dangling /\ PortFor(want.fib, addr) \notin DOMAIN want.sendout

\* Or it is sent where the tables say, and as they say.
Described(f, d) ==
  LET addr == DestinationIp(f.data)
      port == PortFor(want.fib, addr)
  IN  /\ d.egress_port = port /\ port \in 0..511 /\ port \in named
      /\ d.modified \in BOOLEAN /\ d.dropped \in BOOLEAN /\ (d.dropped <=> ~Accepted(f.data))
      /\ Header20(d.ipv4) /\ OnesComplement(WordSum(d.ipv4)) = W - 1
      /\ \A i \in (1..20) \ {9, 11, 12} : d.ipv4[i] = f.data[i]
      /\ d.ipv4[9] = (f.data[9] + IF Routed(want.fib, addr) THEN ByteBase - 1 ELSE 0) % ByteBase
      /\ d.dstAddr = IF Routed(want.fib, addr) THEN RouteOf(want.fib, addr).dmac ELSE f.dst
      /\ d.srcAddr = IF port \in DOMAIN want.sendout
                       /\ want.sendout[port].action_id = "rewrite_src_mac"
                     THEN want.sendout[port].smac ELSE f.src

Delivered(dev, f, d) ==
  /\ Switch!ReceiveFromDevice(dev, Switch!PacketTypeOf(dev, f.dst), f.dst,
                              d.egress_port, d.dropped)
  /\ pd' = <<d>> /\ wire' = <<OnTheWire(f, d)>>
  /\ leaked' = leaked \cup Leaks(d, d.egress_port)
  /\ UNCHANGED undefined

LEMMA HandleEffect ==
  ASSUME Tables, Phases, NEW dev \in Device, NEW f \in Frame, Handle(dev, f)
  PROVE  Strayed(f) \/ \E d : Described(f, d) /\ Delivered(dev, f, d)
<1> DEFINE addr == DestinationIp(f.data)
           route == RouteOf(want.fib, addr)
           port == PortFor(want.fib, addr)
<1>1. PICK parsed \in {parse_packet(init_dataplane(f))} :
        IF parsed.ipv4 = NoHeader THEN Stray
        ELSE \E res \in {Fib!lpm_lookup(table_ipv4_fib_lpm_key(parsed))} :
               IF res = Dangling THEN Stray
               ELSE SendOut(dev, f, action_ipv4_fib_lpm(parsed, res))
  BY DEF Handle
<1>2. CASE f.etherType # IPV4
  <2>1. parsed.ipv4 = NoHeader
    BY <1>1, <1>2, Parsed
  <2>2. Stray
    BY <1>1, <2>1
  <2> QED
    BY <1>2, <2>2 DEF Strayed
<1>3. CASE f.etherType = IPV4
  <2>1. /\ parsed = ParsedFrom(f) /\ addr \in FibKey /\ f.data # NoHeader
    BY <1>1, <1>3, Parsed
  <2>2. parsed.ipv4 = f.data /\ table_ipv4_fib_lpm_key(parsed) = addr
    BY <2>1 DEF ParsedFrom, table_ipv4_fib_lpm_key, DestinationIp
  <2> HIDE DEF addr
  <2>3. PICK res \in {Fib!lpm_lookup(addr)} :
          IF res = Dangling THEN Stray ELSE SendOut(dev, f, action_ipv4_fib_lpm(ParsedFrom(f), res))
    BY <1>1, <2>1, <2>2
  <2>4. /\ Matching(want.fib, addr) = {} => res = fib_default /\ route = on_miss
        /\ Matching(want.fib, addr) # {} => res = route
        /\ Routable(route)
    BY <2>1, <2>3, FibLookup DEF Tables
  <2>5. Routable(route) => route # Dangling /\ (Hit(route) \/ route = on_miss)
    BY OnMissIsRoute DEF Routable, Hit
  <2>6. CASE res = Dangling
    <3>1. Stray /\ Matching(want.fib, addr) = {} /\ fib_default = Dangling
      BY <2>3, <2>4, <2>5, <2>6
    <3> QED
      BY <3>1 DEF Strayed, addr
  <2>7. CASE res # Dangling
    <3>1. res = route
      BY <2>4, <2>7 DEF Tables, FibOK
    <3>2. /\ Hit(res) <=> Routed(want.fib, addr)
          /\ port = IF Hit(res) THEN res.port ELSE 0
      BY <3>1 DEF Hit, Routed, PortFor
    <3>3. port \in 0..511 /\ port \in named
          /\ (Hit(res) => res.port \in 0..511)
      <4>1. 0 \in named
        <5>1. Len(sendout.entries) >= 4
          BY DEF Handle, Ready
        <5>2. Len(sendout.entries) \in Nat
          BY LenProperties DEF Tables, SendoutOK
        <5>3. Len(sendout.entries) > 0
          BY <5>1, <5>2
        <5> QED
          BY <5>3 DEF Phases
      <4>2. CASE Hit(res)
        BY <2>4, <3>1, <3>2, <4>2, OnMissIsRoute DEF Routable, Hit
      <4>3. CASE ~Hit(res)
        BY <3>2, <4>1, <4>3
      <4> QED
        BY <4>2, <4>3
    <3>4. /\ action_ipv4_fib_lpm(ParsedFrom(f), res) = RoutedFrom(f, res)
          /\ RoutedFrom(f, res).egress_port = port
          /\ table_sendout_key(RoutedFrom(f, res)) = PortKey(port)
      <4>1. RoutedFrom(f, res).egress_port = port
        BY <3>2 DEF RoutedFrom
      <4> QED
        BY <1>3, <3>3, <4>1, RoutedPacket
    <3>5. SendOut(dev, f, RoutedFrom(f, res))
      BY <2>3, <2>7, <3>4
    <3> HIDE DEF route, port
    <3>6. PICK smac \in {List!exact_lookup(sendout.entries, PortKey(port), sendout.default_val)} :
            IF smac = Dangling THEN Stray
            ELSE \E d \in {update_packet(action_sendout(RoutedFrom(f, res), smac))} :
                   Delivered(dev, f, d)
      BY <3>4, <3>5 DEF SendOut, Delivered
    <3>7. smac = IF port \in DOMAIN want.sendout THEN want.sendout[port] ELSE sendout.default_val
      BY <3>3, <3>6, SendoutLookup DEF Tables
    <3>8. port \in DOMAIN want.sendout => smac # Dangling
      BY <3>7, OnMissIsRoute DEF Tables, SendoutTold
    <3>9. CASE smac = Dangling
      <4>1. Stray /\ port \notin DOMAIN want.sendout /\ sendout.default_val = Dangling
        BY <3>6, <3>7, <3>8, <3>9
      <4> QED
        BY <4>1 DEF Strayed, addr, port
    <3>10. CASE smac # Dangling
      <4>1. PICK d \in {update_packet(action_sendout(RoutedFrom(f, res), smac))} :
              Delivered(dev, f, d)
        BY <3>6, <3>10
      <4>2. /\ d.egress_port = IF Hit(res) THEN res.port ELSE 0
            /\ d.modified \in BOOLEAN /\ d.dropped \in BOOLEAN
            /\ d.dropped <=> ~Accepted(f.data)
            /\ d.dstAddr = IF Hit(res) THEN res.dmac ELSE f.dst
            /\ d.srcAddr = Sourced(smac, f.src)
            /\ Header20(d.ipv4) /\ OnesComplement(WordSum(d.ipv4)) = W - 1
            /\ \A i \in (1..20) \ {9, 11, 12} : d.ipv4[i] = f.data[i]
            /\ d.ipv4[9] = (f.data[9] + IF Hit(res) THEN ByteBase - 1 ELSE 0) % ByteBase
        BY <1>3, <3>3, <4>1, FinishedPacket
      <4>3. d.srcAddr = IF port \in DOMAIN want.sendout
                             /\ want.sendout[port].action_id = "rewrite_src_mac"
                           THEN want.sendout[port].smac ELSE f.src
        <5>1. port \notin DOMAIN want.sendout => smac = on_miss
          BY <3>7, <3>10 DEF Tables, SendoutOK
        <5>2. on_miss.action_id # "rewrite_src_mac"
          BY OnMissIsRoute
        <5> QED
          BY <3>7, <4>2, <5>1, <5>2 DEF Sourced
      <4>4. d.egress_port = port
        BY <3>2, <4>2
      <4>5. d.dstAddr = IF Routed(want.fib, addr) THEN RouteOf(want.fib, addr).dmac ELSE f.dst
        BY <3>1, <3>2, <4>2 DEF route
      <4>6. d.ipv4[9] = (f.data[9] + IF Routed(want.fib, addr) THEN ByteBase - 1 ELSE 0) % ByteBase
        BY <3>2, <4>2
      <4>7. Described(f, d)
        BY <3>3, <4>2, <4>3, <4>4, <4>5, <4>6 DEF Described, addr, port
      <4> QED
        BY <4>1, <4>7
    <3> QED
      BY <3>9, <3>10
  <2> QED
    BY <2>6, <2>7
<1> QED
  BY <1>2, <1>3

-----------------------------------------------------------------------------
(* The steps.                                                              *)

LEMMA TablesKept ==
  ASSUME Tables, UNCHANGED <<fib_kids, fib_val, fib_default, sendout, named, want>>
  PROVE  Tables'
<1>1. FibOK' /\ FibTold'
  BY FibKept DEF Tables, FibOK
<1>2. SendoutOK'
  BY DEF Tables, SendoutOK
<1>3. SendoutTold'
  BY DEF Tables, SendoutTold
<1> QED
  BY <1>1, <1>2, <1>3 DEF Tables

\* A frame that strayed leaves only the fact that it did.
LEMMA StrayedAsTold ==
  ASSUME AsTold, NEW f, Strayed(f), arrived' = <<f>>,
         UNCHANGED <<fib_default, sendout, named, want>>
  PROVE  AsTold'
<1>1. pd' = <<>> /\ wire' = <<>> /\ UNCHANGED <<m_ports, m_drop, last, leaked>>
  BY DEF Strayed, Stray, switchVars
<1>2. PdOK' /\ RoutedAsTold' /\ RewrittenAsTold' /\ UpdatedHeader'
  BY <1>1 DEF PdOK, RoutedAsTold, RewrittenAsTold, UpdatedHeader, Handled, ToSet
<1>3. DescriptorLostOnlyWithoutPort'
  BY <1>1 DEF AsTold, DescriptorLostOnlyWithoutPort
<1>4. StraysOnlyAsTold'
  <2>1. f \in ToSet(arrived')
    BY DEF ToSet
  <2> QED
    BY <2>1 DEF StraysOnlyAsTold, Strayed
<1> QED
  BY <1>2, <1>3, <1>4 DEF AsTold

\* "Everywhere" is once on every port whose device is another.
LEMMA Everywhere ==
  ASSUME Dev!DeviceInv, NEW dev \in Device, Switch!PortOf(m_ports, dev) # 0,
         NEW out,
         out = Switch!Egress(m_ports, m_ports[Switch!PortOf(m_ports, dev)].second, BROADCAST_PORT)
  PROVE  IsInjective(out) /\ ToSet(out) = {p \in ToSet(m_ports) : p.first # dev}
<1> DEFINE i == Switch!PortOf(m_ports, dev)
           inport == m_ports[i].second
<1>1. i \in 1..Len(m_ports) /\ m_ports[i].first = dev
  <2>1. m_ports \in Seq(Dev!Port)
    BY DEF Dev!DeviceInv, Dev!Numbered
  <2>2. Switch!PortOf(m_ports, dev) = Dev!PortOf(m_ports, dev)
    BY SameSwitch
  <2>3. Dev!PortOf(m_ports, dev) # 0
    BY <2>2
  <2>4. /\ Dev!PortOf(m_ports, dev) \in 1..Len(m_ports)
        /\ m_ports[Dev!PortOf(m_ports, dev)].first = dev
    BY <2>1, <2>3, DeviceAssumed, Dev!PortFound
  <2> QED
    BY <2>2, <2>4
<1> HIDE DEF i
<1>2. out = Dev!Egress(m_ports, inport, BROADCAST_PORT)
  BY SameSwitch DEF i
<1>3. /\ m_ports \in Seq(Dev!Port) /\ Dev!Numbered /\ Dev!DevicesOnce
      /\ \A j, k \in 1..Len(m_ports) : j # k => m_ports[j].first # m_ports[k].first
  BY DEF Dev!DeviceInv, Dev!Numbered, Dev!DevicesOnce
<1>4. /\ out \in Seq(Dev!Port)
      /\ \A k, l \in 1..Len(out) : k # l => out[k].first # out[l].first
      /\ \A k \in 1..Len(out) : \E j \in 1..Len(m_ports) : out[k] = m_ports[j]
  BY <1>2, <1>3, DeviceAssumed, Dev!EgressPorts
<1>5. /\ \A j \in 1..Len(m_ports) : j # i => \E k \in 1..Len(out) : out[k] = m_ports[j]
      /\ \A k \in 1..Len(out) : out[k].first # m_ports[i].first
  <2>1. Dev!Copied(Dev!Egress(m_ports, m_ports[i].second, BROADCAST_PORT), m_ports, i, BROADCAST_PORT)
    BY <1>1, <1>3, DeviceAssumed, Dev!EgressCopies
  <2> QED
    BY <1>2, <2>1 DEF Dev!Copied
<1>6. DOMAIN out = 1..Len(out) /\ DOMAIN m_ports = 1..Len(m_ports)
  BY <1>3, <1>4, LenProperties
<1>7. IsInjective(out)
  BY <1>4, <1>6 DEF IsInjective
<1>8. ToSet(out) = {p \in ToSet(m_ports) : p.first # dev}
  <2>1. /\ ToSet(out) = {out[k] : k \in 1..Len(out)}
        /\ ToSet(m_ports) = {m_ports[j] : j \in 1..Len(m_ports)}
    BY <1>6 DEF ToSet
  <2>2. ASSUME NEW k \in 1..Len(out)
        PROVE  out[k] \in {p \in ToSet(m_ports) : p.first # dev}
    BY <1>1, <1>4, <1>5, <2>1
  <2>3. ASSUME NEW j \in 1..Len(m_ports), m_ports[j].first # dev
        PROVE  m_ports[j] \in ToSet(out)
    <3>1. PICK k \in 1..Len(out) : out[k] = m_ports[j]
      BY <1>1, <1>5, <2>3
    <3> QED
      BY <2>1, <3>1
  <2> QED
    BY <2>1, <2>2, <2>3
<1> QED
  BY <1>7, <1>8

\* One that was delivered left as it should have.
LEMMA DeliveredAsTold ==
  ASSUME AsTold, Dev!DeviceInv, ~undefined, NEW dev \in Device, NEW f, NEW d,
         Described(f, d), Delivered(dev, f, d),
         arrived' = <<f>>, UNCHANGED <<fib_default, sendout, named, want>>
  PROVE  AsTold'
<1> DEFINE addr == DestinationIp(f.data)
           port == PortFor(want.fib, addr)
           i == Switch!PortOf(m_ports, dev)
           type == Switch!PacketTypeOf(dev, f.dst)
           handled_ == i # 0 /\ Switch!GoesThrough(type, f.dst)
           out == IF handled_ /\ ~ (m_drop /\ d.dropped)
                  THEN Switch!Egress(m_ports, m_ports[i].second, d.egress_port) ELSE <<>>
           e0 == [dev |-> dev, type |-> type, dst |-> f.dst,
                  up |-> i # 0 /\ Switch!GoesUp(type, f.dst), handled |-> handled_,
                  egress |-> d.egress_port, out |-> out]
<1>1. /\ last' = <<e0>> /\ UNCHANGED <<m_ports, m_address, m_drop>>
      /\ pd' = <<d>> /\ wire' # <<>> /\ undefined' = undefined
      /\ leaked' = leaked \cup Leaks(d, d.egress_port)
  BY DEF Delivered, Switch!ReceiveFromDevice
<1>2. /\ d.egress_port = port /\ port \in named
      /\ d.dropped <=> ~Accepted(f.data)
  BY DEF Described
<1>3. \A e \in Handled' : e.handled /\ e.out = e0.out /\ e = e0
  BY <1>1 DEF Handled, ToSet
<1>4. e0.handled => e0.out = IF m_drop /\ d.dropped THEN <<>>
                             ELSE Switch!Egress(m_ports, m_ports[i].second, port)
  BY <1>2
<1>5. pd'[1] = d /\ arrived'[1] = f /\ e0.dev = dev /\ (e0.handled => i # 0)
  BY <1>1
<1> HIDE DEF e0, i
<1>6. ASSUME port # BROADCAST_PORT
      PROVE  \/ /\ Switch!Egress(m_ports, m_ports[i].second, port) = <<>>
                /\ \A p \in ToSet(m_ports) : p.second # port
             \/ \E p \in ToSet(m_ports) :
                  p.second = port /\ Switch!Egress(m_ports, m_ports[i].second, port) = <<p>>
  <2> DEFINE inport == m_ports[i].second
  <2> HIDE DEF inport, port
  <2>1. \/ /\ Dev!Egress(m_ports, inport, port) = <<>>
           /\ \A j \in 1..Len(m_ports) : m_ports[j].second # port
        \/ \E j \in 1..Len(m_ports) :
             m_ports[j].second = port /\ Dev!Egress(m_ports, inport, port) = <<m_ports[j]>>
    BY <1>6, DeviceAssumed, Dev!EgressNamed
  <2>2. Switch!Egress(m_ports, inport, port) = Dev!Egress(m_ports, inport, port)
    BY SameSwitch
  <2> QED
    BY <2>1, <2>2 DEF ToSet, inport
<1> HIDE DEF addr, port
<1>7. RoutedAsTold'
  <2> SUFFICES ASSUME NEW e \in Handled'
               PROVE  IF m_drop /\ ~Accepted(f.data) THEN e.out = <<>>
                      ELSE IF port = BROADCAST_PORT
                      THEN IsInjective(e.out) /\ ToSet(e.out) = {p \in ToSet(m_ports) : p.first # e.dev}
                      ELSE \/ e.out = <<>> /\ \A p \in ToSet(m_ports) : p.second # port
                           \/ \E p \in ToSet(m_ports) : p.second = port /\ e.out = <<p>>
    BY <1>1, <1>5 DEF RoutedAsTold, port, addr
  <2>1. CASE m_drop /\ ~Accepted(f.data)
    BY <1>2, <1>3, <1>4, <2>1
  <2>2. CASE ~(m_drop /\ ~Accepted(f.data)) /\ port # BROADCAST_PORT
    BY <1>2, <1>3, <1>4, <1>6, <2>2
  <2>3. CASE ~(m_drop /\ ~Accepted(f.data)) /\ port = BROADCAST_PORT
    <3>1. e.out = Switch!Egress(m_ports, m_ports[i].second, BROADCAST_PORT)
      BY <1>2, <1>3, <1>4, <2>3
    <3>2. e.dev = dev /\ i # 0
      BY <1>3, <1>5
    <3> QED
      BY <2>3, <3>1, <3>2, Everywhere DEF i
  <2> QED
    BY <2>1, <2>2, <2>3
<1>8. RewrittenAsTold'
  BY <1>1, <1>5 DEF RewrittenAsTold, Described
<1>9. UpdatedHeader'
  BY <1>1, <1>5 DEF UpdatedHeader, Described
<1>10. PdOK'
  <2>1. ToSet(pd') = {d}
    BY <1>1 DEF ToSet
  <2> QED
    BY <2>1 DEF PdOK, Described
<1>11. DescriptorLostOnlyWithoutPort'
  <2>1. CASE "descriptor" \in leaked
    BY <1>1, <2>1 DEF AsTold, DescriptorLostOnlyWithoutPort
  <2>2. CASE "descriptor" \notin leaked
    BY <1>1, <1>2, <2>2 DEF DescriptorLostOnlyWithoutPort, Leaks
  <2> QED
    BY <2>1, <2>2
<1>12. StraysOnlyAsTold'
  BY <1>1 DEF StraysOnlyAsTold
<1> QED
  BY <1>7, <1>8, <1>9, <1>10, <1>11, <1>12 DEF AsTold

LEMMA HandleInv ==
  ASSUME RouterInv, NEW dev \in Device, NEW f \in Frame, Handle(dev, f)
  PROVE  RouterInv'
<1>1. /\ Tables /\ Phases /\ AsTold /\ Dev!DeviceInv
      /\ UNCHANGED <<fib_kids, fib_val, fib_default, sendout, named, want>>
      /\ bg' = TRUE /\ arrived' = <<f>> /\ ~undefined /\ Len(sendout.entries) >= 4
      /\ Len(m_ports) = Len(Devices)
  BY DEF RouterInv, Handle, fibVars, history, Ready
<1>2. Tables'
  BY <1>1, TablesKept
<1>3. Strayed(f) \/ \E d : Described(f, d) /\ Delivered(dev, f, d)
  BY <1>1, HandleEffect
<1>4. CASE Strayed(f)
  <2>1. undefined' = TRUE /\ UNCHANGED <<m_ports, m_address, m_drop, last, leaked>>
    BY <1>4 DEF Strayed, Stray, switchVars
  <2>2. AsTold'
    BY <1>1, <1>4, StrayedAsTold
  <2>3. Dev!DeviceInv'
    BY <1>1, <2>1, DeviceStep DEF Dev!vars
  <2>4. Phases'
    BY <1>1, <2>1 DEF Phases
  <2> QED
    BY <1>2, <2>2, <2>3, <2>4 DEF RouterInv
<1>5. ASSUME NEW d, Described(f, d), Delivered(dev, f, d)
      PROVE  RouterInv'
  <2>1. AsTold'
    BY <1>1, <1>5, DeliveredAsTold
  <2>2. /\ UNCHANGED <<m_ports, undefined>> /\ leaked' = leaked \cup Leaks(d, d.egress_port)
    BY <1>5 DEF Delivered, Switch!ReceiveFromDevice
  <2>3. Dev!DeviceInv'
    <3>1. f.dst \in Address /\ d.egress_port \in EgressPort /\ d.dropped \in BOOLEAN
      BY <1>5, FrameAssumption, SwitchAssumption DEF Described
    <3>2. Dev!ReceiveFromDevice(dev, Dev!PacketTypeOf(dev, f.dst), f.dst, d.egress_port, d.dropped)
      BY <1>5, SameActions DEF Delivered
    <3>3. Dev!Next
      BY <3>1, <3>2 DEF Dev!Next
    <3> QED
      BY <1>1, <3>3, DeviceStep
  <2>4. Phases'
    <3>1. leaked' \subseteq {"standard_metadata", "descriptor"}
      BY <1>1, <2>2 DEF Phases, Leaks
    <3> QED
      BY <1>1, <2>2, <3>1 DEF Phases
  <2> QED
    BY <1>2, <2>1, <2>3, <2>4 DEF RouterInv
<1> QED
  BY <1>3, <1>4, <1>5

\* A step that handles no frame.
LEMMA NothingHandled ==
  ASSUME AsTold, wire' = <<>>, undefined' = FALSE, pd' \in {<<>>, pd}, UNCHANGED leaked,
         leaked # {} => UNCHANGED m_ports, named \subseteq named'
  PROVE  AsTold'
<1>1. RoutedAsTold' /\ RewrittenAsTold' /\ UpdatedHeader'
  BY DEF RoutedAsTold, RewrittenAsTold, UpdatedHeader, Handled
<1>2. PdOK'
  <2>1. CASE pd' = <<>>
    BY <2>1 DEF PdOK, ToSet
  <2>2. CASE pd' = pd
    BY <2>2 DEF AsTold, PdOK, ToSet
  <2> QED
    BY <2>1, <2>2
<1>3. DescriptorLostOnlyWithoutPort'
  BY DEF AsTold, DescriptorLostOnlyWithoutPort
<1>4. StraysOnlyAsTold'
  BY DEF StraysOnlyAsTold
<1> QED
  BY <1>1, <1>2, <1>3, <1>4 DEF AsTold

\* Before the first round of init_tables_v1 is done nothing has come or gone.
LEMMA EntriesLength ==
  ASSUME Tables, Phases
  PROVE  /\ Len(sendout.entries) \in Nat
         /\ Len(sendout.entries) < 4 =>
              ~undefined /\ leaked = {} /\ ~bg /\ arrived = <<>> /\ wire = <<>>
<1>1. Len(sendout.entries) \in Nat
  BY LenProperties DEF Tables, SendoutOK
<1> QED
  BY <1>1 DEF Phases

LEMMA InstallInv ==
  ASSUME RouterInv, Install
  PROVE  RouterInv'
<1>1. /\ Tables /\ Phases /\ AsTold /\ Dev!DeviceInv
      /\ Len(m_ports) < Len(Devices)
      /\ Switch!AddSwitchPort(Devices[Len(m_ports) + 1])
      /\ UNCHANGED <<fib_kids, fib_val, fib_default, sendout, pd, wire, leaked, arrived,
                     undefined, bg, named, want>>
  BY DEF RouterInv, Install, fibVars, handled, history
<1>2. Len(m_ports) \in Nat /\ Len(Devices) \in Nat
  <2>1. m_ports \in Seq(Dev!Port)
    BY <1>1 DEF Dev!DeviceInv, Dev!Numbered
  <2> QED
    BY <2>1, SwitchAssumption, LenProperties
<1>3. Len(sendout.entries) = 0
  BY <1>1, <1>2, EntriesLength DEF Phases
<1>4. ~undefined /\ leaked = {} /\ wire = <<>>
  BY <1>1, <1>3, EntriesLength
<1>5. Dev!DeviceInv'
  <2>1. Devices[Len(m_ports) + 1] \in Device
    <3>1. Len(m_ports) + 1 \in 1..Len(Devices)
      BY <1>1, <1>2
    <3> QED
      BY <3>1, SwitchAssumption, ElementOfSeq
  <2>2. Dev!AddSwitchPort(Devices[Len(m_ports) + 1])
    BY <1>1, SameActions
  <2>3. Dev!Next
    BY <2>1, <2>2 DEF Dev!Next
  <2> QED
    BY <1>1, <2>3, DeviceStep
<1>6. Tables'
  BY <1>1, TablesKept
<1>7. Phases'
  BY <1>1, <1>3 DEF Phases
<1>8. AsTold'
  BY <1>1, <1>4, NothingHandled DEF Phases
<1> QED
  BY <1>5, <1>6, <1>7, <1>8 DEF RouterInv

LEMMA HostKeys ==
  ASSUME NEW i \in 0..3
  PROVE  /\ HostIp(i) \in FibKey
         /\ Fib!First(HostIp(i), 32 \div 8) = HostIp(i)
         /\ <<i, 0>> \in [1..2 -> Octet]
<1>1. 10 \in AddressByte /\ 1 \in AddressByte /\ i + 1 \in AddressByte
  <2>1. i + 1 \in {1, 2, 3, 4}
    OBVIOUS
  <2> QED
    BY <2>1, ByteAssumption
<1>2. HostIp(i) \in FibKey
  BY <1>1 DEF HostIp, FibKey
<1>3. HostIp(i) \in Seq(AddressByte) /\ Len(HostIp(i)) = 4
  BY <1>1 DEF HostIp
<1>4. Fib!First(HostIp(i), 32 \div 8) = HostIp(i)
  <2> DEFINE s == HostIp(i)
  <2>1. s \in Seq(AddressByte) /\ Len(s) = 4
    BY <1>3
  <2> HIDE DEF s
  <2>2. SubSeq(s, 1, 4) = s
    BY <2>1, SubSeqFull
  <2>3. 32 \div 8 = 4
    OBVIOUS
  <2> QED
    BY <2>2, <2>3 DEF Fib!First, s
<1>5. <<i, 0>> \in [1..2 -> Octet]
  BY OctetSet
<1> QED
  BY <1>2, <1>4, <1>5

LEMMA InitTablesInv ==
  ASSUME RouterInv, NEW i \in 0..3, init_tables_v1(i)
  PROVE  RouterInv'
<1> DEFINE route == fib_hit_nexthop(HostMac(i), i)
           smac == rewrite_src_mac(HostMac(i))
<1>1. /\ Tables /\ Phases /\ AsTold /\ Dev!DeviceInv
      /\ i = Len(sendout.entries) /\ Len(m_ports) = Len(Devices)
      /\ Fib!LpmAdd(HostIp(i), 32, route)
      /\ sendout' = [sendout EXCEPT !.entries = List!exact_add(@, <<i, 0>>, smac)]
      /\ named' = named \cup {i}
      /\ want' = [fib     |-> ToldRoute(want.fib, HostIp(i), route),
                  sendout |-> Told(want.sendout, i, smac)]
      /\ UNCHANGED <<m_ports, m_address, m_drop, last, pd, wire, leaked, arrived, undefined, bg>>
  BY DEF RouterInv, init_tables_v1, switchVars, handled
<1> HIDE DEF route, smac
<1>2. /\ ~undefined /\ leaked = {} /\ ~bg /\ arrived = <<>> /\ wire = <<>>
      /\ Len(sendout.entries) \in Nat
  <2>1. Len(sendout.entries) < 4
    <3>1. i < 4
      OBVIOUS
    <3>2. i = Len(sendout.entries)
      BY <1>1
    <3> QED
      BY ONLY <3>1, <3>2
  <2> QED
    BY <1>1, <2>1, EntriesLength
<1>3. /\ route \in RouteAction /\ route.action_id = "fib_hit_nexthop" /\ route.port = i
      /\ smac \in SourceAction /\ smac.action_id = "rewrite_src_mac"
  BY DEF RouteAction, SourceAction, fib_hit_nexthop, rewrite_src_mac, route, smac
<1>4. i \in 0..511 /\ i \in named'
  <2>1. i \in 0..511
    OBVIOUS
  <2> QED
    BY <1>1, <2>1
<1>5. FibOK' /\ FibTold'
  <2>1. HostIp(i) \in FibKey /\ Fib!First(HostIp(i), 32 \div 8) = HostIp(i) /\ 32 \in 0..255
    BY HostKeys
  <2>2. want'.fib = ToldRoute(want.fib, Fib!First(HostIp(i), 32 \div 8), route)
    BY <1>1, <2>1
  <2>3. named \subseteq named'
    BY <1>1
  <2>4. \/ route = on_miss
        \/ route.action_id = "fib_hit_nexthop" /\ route.port \in 0..511 /\ route.port \in named'
    BY <1>3, <1>4
  <2>5. FibOK /\ FibTold /\ Fib!LpmAdd(HostIp(i), 32, route) /\ route \in RouteAction
    BY <1>1, <1>3 DEF Tables
  <2> QED
    BY ONLY <2>1, <2>2, <2>3, <2>4, <2>5, FibAdd
<1>6. SendoutOK' /\ SendoutTold'
  <2>1. <<i, 0>> \in [1..2 -> Octet] /\ <<i, 0>>[1] + 256 * <<i, 0>>[2] = i
    BY HostKeys
  <2>2. want'.sendout = Told(want.sendout, <<i, 0>>[1] + 256 * <<i, 0>>[2], smac)
    BY <1>1, <2>1
  <2> QED
    BY <1>1, <1>3, <2>1, <2>2, SendoutAdd DEF Tables
<1>7. Tables'
  <2>1. want' = [fib |-> want'.fib, sendout |-> want'.sendout]
    BY <1>1
  <2> QED
    BY <1>5, <1>6, <2>1 DEF Tables
<1>8. Phases'
  <2>1. 0 \in named'
    <3>1. i = 0 \/ Len(sendout.entries) > 0
      BY <1>1
    <3> QED
      BY <1>1, <3>1 DEF Phases
  <2> QED
    BY <1>1, <1>2, <2>1 DEF Phases
<1>9. AsTold'
  BY <1>1, <1>2, NothingHandled DEF Phases
<1>10. Dev!DeviceInv'
  BY <1>1, DeviceStep DEF Dev!vars
<1> QED
  BY <1>7, <1>8, <1>9, <1>10 DEF RouterInv

\* What a message finds.
LEMMA SentFinds ==
  ASSUME RouterInv, Sent
  PROVE  /\ Tables /\ Phases /\ AsTold /\ Len(sendout.entries) >= 4 /\ Len(sendout.entries) \in Nat
         /\ Len(m_ports) = Len(Devices)
         /\ UNCHANGED <<m_ports, bg, leaked>> /\ undefined' = FALSE /\ undefined = FALSE
         /\ pd' = <<>> /\ wire' = <<>> /\ arrived' = <<>>
         /\ Dev!DeviceInv'
<1>1. /\ Tables /\ Phases /\ AsTold /\ Len(sendout.entries) >= 4 /\ ~undefined
      /\ Len(m_ports) = Len(Devices) /\ Dev!DeviceInv
      /\ UNCHANGED <<m_ports, m_address, m_drop, bg, leaked, undefined>> /\ last' = Switch!Nothing
      /\ pd' = <<>> /\ wire' = <<>> /\ arrived' = <<>>
  BY DEF RouterInv, Sent, Ready, Forget
<1>2. Dev!DeviceInv'
  BY <1>1, DeviceStill
<1>3. Len(sendout.entries) \in Nat
  BY <1>1, EntriesLength
<1>4. undefined = FALSE
  BY <1>1 DEF Phases
<1> QED
  BY <1>1, <1>2, <1>3, <1>4

\* A message that leaves the tables as they should be, and forgets no port.
LEMMA SentInv ==
  ASSUME RouterInv, Sent, Tables', named \subseteq named',
         Len(sendout'.entries) \in {Len(sendout.entries), Len(sendout.entries) + 1}
  PROVE  RouterInv'
<1>1. /\ Phases /\ AsTold /\ Len(sendout.entries) >= 4 /\ Len(sendout.entries) \in Nat
      /\ Len(m_ports) = Len(Devices)
      /\ UNCHANGED <<m_ports, bg, leaked>> /\ undefined' = FALSE /\ undefined = FALSE
      /\ pd' = <<>> /\ wire' = <<>> /\ arrived' = <<>>
      /\ Dev!DeviceInv'
  BY SentFinds
<1>2. Len(sendout'.entries) >= 4
  BY <1>1
<1>3. Phases'
  <2>1. Len(sendout.entries) > 0
    BY <1>1
  <2> QED
    BY <1>1, <1>2, <2>1 DEF Phases
<1>4. AsTold'
  BY <1>1, NothingHandled
<1> QED
  BY <1>1, <1>3, <1>4 DEF RouterInv

LEMMA FibAddEntryInv ==
  ASSUME RouterInv, NEW m \in Message, FibAddEntry(m)
  PROVE  RouterInv'
<1> DEFINE key == ipv4_fib_lpm_key_added(m.key)
           l == m.prefix_length
           a == m.action
<1>1. /\ Sent /\ m.type = "add" /\ m.table_name = "ipv4_fib_lpm"
      /\ \/ /\ Fib!LpmAdd(key, l % 256, a)
            /\ named' = named \cup IF a.action_id = "fib_hit_nexthop" THEN {a.port} ELSE {}
            /\ want' = [want EXCEPT !.fib = ToldRoute(@, Fib!First(Reverse(m.key), l \div 8), a)]
         \/ UNCHANGED <<fib_kids, fib_val, fib_default, named, want>>
      /\ UNCHANGED sendout
  BY DEF FibAddEntry, fibVars, history
<1>2. /\ m.key \in [1..4 -> AddressByte] /\ l \in 0..255 /\ a \in RouteAction
      /\ a = on_miss \/ (a.action_id = "fib_hit_nexthop" /\ a.port \in 0..511)
  <2>1. m \in FibAdds
    BY <1>1 DEF FibAdds
  <2> QED
    BY <1>1, <2>1, MessageAssumption DEF RouteAction
<1>3. Tables /\ Len(sendout.entries) >= 4
  BY <1>1, SentFinds
<1>4. key \in FibKey /\ key = Reverse(m.key)
  <2> DEFINE k == m.key
  <2>1. k \in [1..4 -> AddressByte]
    BY <1>2
  <2>2. key = [i \in 1..4 |-> k[5 - i]]
    BY DEF ipv4_fib_lpm_key_added
  <2> HIDE DEF k, key
  <2>3. \A i \in 1..4 : 5 - i \in 1..4 /\ (4 - i) + 1 = 5 - i
    OBVIOUS
  <2>4. key \in FibKey
    BY <2>1, <2>2, <2>3 DEF FibKey
  <2>5. Len(k) = 4
    BY <2>1, LenProperties
  <2>6. Reverse(k) = [i \in 1..4 |-> k[(4 - i) + 1]]
    BY <2>5 DEF Reverse
  <2>7. Reverse(k) = key
    BY <2>2, <2>3, <2>6
  <2> QED
    BY <2>4, <2>7 DEF k
<1> HIDE DEF key, l, a
<1>5. l % 256 = l
  BY <1>2
<1>6. CASE UNCHANGED <<fib_kids, fib_val, fib_default, named, want>>
  <2>1. Tables'
    BY <1>1, <1>3, <1>6, TablesKept
  <2> QED
    BY <1>1, <1>6, <2>1, SentInv
<1>7. ASSUME Fib!LpmAdd(key, l % 256, a),
             named' = named \cup IF a.action_id = "fib_hit_nexthop" THEN {a.port} ELSE {},
             want' = [want EXCEPT !.fib = ToldRoute(@, Fib!First(Reverse(m.key), l \div 8), a)]
      PROVE  RouterInv'
  <2>1. a = on_miss \/ (a.action_id = "fib_hit_nexthop" /\ a.port \in 0..511 /\ a.port \in named')
    BY <1>2, <1>7
  <2>2. want' = [fib |-> ToldRoute(want.fib, Fib!First(key, l \div 8), a), sendout |-> want.sendout]
    BY <1>3, <1>4, <1>7 DEF Tables
  <2>3. FibOK' /\ FibTold'
    <3>1. /\ FibOK /\ FibTold /\ key \in FibKey /\ l \in 0..255 /\ a \in RouteAction
          /\ Fib!LpmAdd(key, l, a) /\ named \subseteq named'
          /\ want'.fib = ToldRoute(want.fib, Fib!First(key, l \div 8), a)
      BY <1>2, <1>3, <1>4, <1>5, <1>7, <2>2 DEF Tables
    <3> QED
      BY ONLY <2>1, <3>1, FibAdd
  <2>4. Tables'
    <3>1. SendoutOK' /\ SendoutTold'
      <4>1. want'.sendout = want.sendout
        BY <2>2
      <4> QED
        BY <1>1, <1>3, <4>1 DEF Tables, SendoutOK, SendoutTold
    <3>2. want' = [fib |-> want'.fib, sendout |-> want'.sendout]
      BY <2>2
    <3> QED
      BY <2>3, <3>1, <3>2 DEF Tables
  <2>5. named \subseteq named' /\ Len(sendout'.entries) = Len(sendout.entries)
    BY <1>1, <1>7
  <2> QED
    BY <1>1, <2>4, <2>5, SentInv
<1> QED
  BY <1>1, <1>6, <1>7

LEMMA SendoutAddEntryInv ==
  ASSUME RouterInv, NEW m \in Message, SendoutAddEntry(m)
  PROVE  RouterInv'
<1> DEFINE k == m.key
           a == m.action
<1>1. /\ Sent /\ m.type = "add" /\ m.table_name = "sendout"
      /\ sendout' = [sendout EXCEPT !.entries = List!exact_add(@, k, a)]
      /\ want' = [want EXCEPT !.sendout = Told(@, k[1] + ByteBase * k[2], a)]
      /\ UNCHANGED <<fib_kids, fib_val, fib_default, named>>
  BY DEF SendoutAddEntry, fibVars
<1>2. /\ k \in [1..2 -> Octet] /\ a \in SourceAction
      /\ a.action_id \in {"on_miss", "rewrite_src_mac"}
  <2>1. m \in SendoutAdds
    BY <1>1 DEF SendoutAdds
  <2> QED
    BY <1>1, <2>1, MessageAssumption DEF SourceAction
<1>3. Tables
  BY <1>1, SentFinds
<1> HIDE DEF k, a
<1>4. want' = [fib |-> want.fib, sendout |-> Told(want.sendout, k[1] + 256 * k[2], a)]
  BY <1>1, <1>3, ByteAssumption DEF Tables
<1>5. /\ SendoutOK' /\ SendoutTold'
      /\ Len(sendout'.entries) \in {Len(sendout.entries), Len(sendout.entries) + 1}
  <2>1. want'.sendout = Told(want.sendout, k[1] + 256 * k[2], a)
    BY <1>4
  <2> QED
    BY <1>1, <1>2, <1>3, <2>1, SendoutAdd DEF Tables
<1>6. FibOK' /\ FibTold'
  <2>1. want'.fib = want.fib /\ fib_default' \in {on_miss, Dangling}
    BY <1>1, <1>3, <1>4 DEF Tables, FibOK
  <2> QED
    BY <1>1, <1>3, <2>1, FibKept DEF Tables
<1>7. Tables'
  <2>1. want' = [fib |-> want'.fib, sendout |-> want'.sendout]
    BY <1>4
  <2> QED
    BY <1>5, <1>6, <2>1 DEF Tables
<1> QED
  BY <1>1, <1>5, <1>7, SentInv

LEMMA SetDefaultInv ==
  ASSUME RouterInv, NEW m \in Message, SetDefault(m)
  PROVE  RouterInv'
<1>1. /\ Sent /\ UNCHANGED <<fib_kids, fib_val, named, want>>
      /\ fib_default' \in {fib_default, Dangling}
      /\ sendout' = sendout \/ sendout' = [sendout EXCEPT !.default_val = Dangling]
  BY DEF SetDefault, history
<1>2. Tables
  BY <1>1, SentFinds
<1>3. sendout'.entries = sendout.entries /\ SendoutOK'
  BY <1>1, <1>2 DEF Tables, SendoutOK
<1>4. FibOK' /\ FibTold'
  <2>1. fib_default' \in {on_miss, Dangling}
    BY <1>1, <1>2 DEF Tables, FibOK
  <2> QED
    BY <1>1, <1>2, <2>1, FibKept DEF Tables
<1>5. Tables'
  <2>1. SendoutTold'
    BY <1>1, <1>2, <1>3 DEF Tables, SendoutTold
  <2>2. want' = [fib |-> want'.fib, sendout |-> want'.sendout]
    BY <1>1, <1>2 DEF Tables
  <2> QED
    BY <1>3, <1>4, <2>1, <2>2 DEF Tables
<1> QED
  BY <1>1, <1>3, <1>5, SentInv

\* A step that changes nothing but the device, and forgets the last frame.
LEMMA ForgetInv ==
  ASSUME RouterInv, Ready, Forget, Dev!DeviceInv',
         UNCHANGED <<m_ports, fibVars, sendout, undefined, bg, history>>
  PROVE  RouterInv'
<1>1. /\ Tables /\ Phases /\ AsTold /\ ~undefined
      /\ UNCHANGED <<m_ports, fib_kids, fib_val, fib_default, sendout, undefined, bg, named, want,
                     leaked>>
      /\ pd' = <<>> /\ wire' = <<>> /\ arrived' = <<>>
  BY DEF RouterInv, Ready, Forget, fibVars, history
<1>2. Tables'
  BY <1>1, TablesKept
<1>3. Phases'
  BY <1>1 DEF Phases
<1>4. AsTold'
  BY <1>1, NothingHandled DEF Phases
<1> QED
  BY <1>2, <1>3, <1>4 DEF RouterInv

LEMMA AllowPacketDropInv ==
  ASSUME RouterInv, NEW b \in BOOLEAN, AllowPacketDrop(b)
  PROVE  RouterInv'
<1>1. /\ Ready /\ Forget /\ Switch!SetPacketDrop(b) /\ Dev!DeviceInv
      /\ UNCHANGED <<fibVars, sendout, undefined, bg, history>>
  BY DEF RouterInv, AllowPacketDrop
<1>2. Dev!SetPacketDrop(b) /\ UNCHANGED m_ports
  BY <1>1, SameActions DEF Switch!SetPacketDrop
<1>3. Dev!Next
  BY <1>2 DEF Dev!Next
<1> QED
  BY <1>1, <1>2, <1>3, DeviceStep, ForgetInv

LEMMA ReceiveOwnInv ==
  ASSUME RouterInv, NEW dev \in Device, NEW f \in Frame, ReceiveOwn(dev, f)
  PROVE  RouterInv'
<1>1. /\ Ready /\ Forget /\ Dev!DeviceInv
      /\ Switch!ReceiveFromDevice(dev, Switch!PacketTypeOf(dev, f.dst), f.dst, 0, FALSE)
      /\ UNCHANGED <<fibVars, sendout, undefined, bg, history>>
  BY DEF RouterInv, ReceiveOwn
<1>2. /\ Dev!ReceiveFromDevice(dev, Dev!PacketTypeOf(dev, f.dst), f.dst, 0, FALSE)
      /\ UNCHANGED m_ports
  BY <1>1, SameActions DEF Switch!ReceiveFromDevice
<1>3. Dev!Next
  <2>1. f.dst \in Address /\ 0 \in EgressPort /\ FALSE \in BOOLEAN
    BY FrameAssumption, SwitchAssumption
  <2> QED
    BY <1>2, <2>1 DEF Dev!Next
<1> QED
  BY <1>1, <1>2, <1>3, DeviceStep, ForgetInv

-----------------------------------------------------------------------------
(* From the first state on.                                                *)

\* A switch without ports, with empty tables that were told nothing.
LEMMA InitRouter == Init => RouterInv
<1> SUFFICES ASSUME Init PROVE RouterInv
  OBVIOUS
<1>1. /\ fib_kids = [p \in Fibs!Path |-> <<>>] /\ fib_val = [p \in Fibs!Prefix |-> NoEntry]
      /\ fib_default = on_miss /\ sendout = [entries |-> <<>>, default_val |-> on_miss]
      /\ pd = <<>> /\ wire = <<>> /\ arrived = <<>>
      /\ leaked = {} /\ undefined = FALSE /\ bg = FALSE
      /\ want = [fib |-> <<>>, sendout |-> <<>>]
  BY SameTrie DEF Init
<1>2. Dev!DeviceInv
  BY DeviceInit DEF Init
<1>3. DOMAIN want.fib = {} /\ DOMAIN want.sendout = {}
  BY <1>1
<1>4. FibOK
  <2>1. Fibs!IInv
    <3>1. Fibs!Init
      BY <1>1, OnMissIsRoute DEF Fibs!Init
    <3> QED
      BY <3>1, FibAssumed, Fibs!InitInv
  <2>2. fib_kids[<<>>] = <<>>
    <3>1. <<>> \in Fibs!Path
      <4>1. \A p : p \in Fibs!Path <=> p \in Seq(AddressByte) /\ Len(p) <= 4 - 1
        BY FibAssumed, Fibs!PathsAndPrefixes
      <4>2. <<>> \in Seq(AddressByte) /\ Len(<<>>) <= 4 - 1
        OBVIOUS
      <4> QED
        BY <4>1, <4>2
    <3> QED
      BY <1>1, <3>1
  <2> QED
    BY <1>1, <1>3, <2>1, <2>2 DEF FibOK, HeadTold
<1>5. FibTold
  <2>1. Fibs!Routes = [p \in Fibs!Route |->
                         IF Fibs!Reach(fib_kids, p) THEN fib_val[p] ELSE NoEntry]
    BY FibAssumed, Fibs!RoutesByReach
  <2>2. Fibs!Route \subseteq Fibs!Prefix
    BY FibAssumed, Fibs!RoutesArePrefixes
  <2> QED
    BY <1>1, <1>3, <2>1, <2>2 DEF FibTold
<1>6. SendoutOK /\ SendoutTold
  <2>1. SendoutOK
    BY <1>1, OutsAssumed, Outs!EmptyList DEF SendoutOK
  <2>2. \A port \in 0..511 : Outs!exact_lookup(<<>>, PortKey(port), NoEntry) = NoEntry
    BY OutsAssumed, Outs!EmptyList, PortKeys
  <2> QED
    BY <1>1, <1>3, <2>1, <2>2 DEF SendoutTold
<1>7. Tables
  BY <1>1, <1>4, <1>5, <1>6 DEF Tables
<1>8. Phases
  <2>1. sendout.entries = <<>> /\ Len(<<>>) = 0
    BY <1>1
  <2>2. ~ (Len(sendout.entries) > 0)
    BY <2>1
  <2>3. ~ (bg \/ undefined \/ leaked # {} \/ arrived # <<>> \/ wire # <<>>)
    BY <1>1
  <2>4. leaked \subseteq {"standard_metadata", "descriptor"} /\ undefined \in BOOLEAN /\ bg \in BOOLEAN
    BY <1>1
  <2> QED
    BY <2>2, <2>3, <2>4 DEF Phases
<1>9. AsTold
  BY <1>1 DEF AsTold, PdOK, RoutedAsTold, RewrittenAsTold, UpdatedHeader, DescriptorLostOnlyWithoutPort,
              StraysOnlyAsTold, Handled, ToSet
<1> QED
  BY <1>2, <1>7, <1>8, <1>9 DEF RouterInv

LEMMA StutterInv ==
  ASSUME RouterInv, UNCHANGED vars
  PROVE  RouterInv'
<1>1. /\ Tables /\ Phases /\ AsTold /\ Dev!DeviceInv
      /\ UNCHANGED <<m_ports, m_address, m_drop, last, fib_kids, fib_val, fib_default, sendout,
                     pd, wire, leaked, arrived, undefined, bg, named, want>>
  BY DEF RouterInv, vars, switchVars, fibVars, handled, history
<1>2. Dev!DeviceInv'
  BY <1>1, DeviceStep DEF Dev!vars
<1>3. Tables'
  BY <1>1, TablesKept
<1>4. Phases'
  BY <1>1 DEF Phases
<1>5. AsTold'
  <2>1. PdOK'
    BY <1>1 DEF AsTold, PdOK
  <2>2. RoutedAsTold'
    BY <1>1 DEF AsTold, RoutedAsTold, Handled
  <2>3. RewrittenAsTold' /\ UpdatedHeader'
    BY <1>1 DEF AsTold, RewrittenAsTold, UpdatedHeader, Handled
  <2>4. DescriptorLostOnlyWithoutPort' /\ StraysOnlyAsTold'
    BY <1>1 DEF AsTold, DescriptorLostOnlyWithoutPort, StraysOnlyAsTold
  <2> QED
    BY <2>1, <2>2, <2>3, <2>4 DEF AsTold
<1> QED
  BY <1>2, <1>3, <1>4, <1>5 DEF RouterInv

\* Every step keeps the invariant.
LEMMA NextRouter == RouterInv /\ [Next]_vars => RouterInv'
<1> SUFFICES ASSUME RouterInv, [Next]_vars PROVE RouterInv'
  OBVIOUS
<1>1. ASSUME NEW i \in 0..3, init_tables_v1(i) PROVE RouterInv'
  BY <1>1, InitTablesInv
<1>2. CASE Install
  BY <1>2, InstallInv
<1>3. ASSUME NEW b \in BOOLEAN, AllowPacketDrop(b) PROVE RouterInv'
  BY <1>3, AllowPacketDropInv
<1>4. ASSUME NEW dev \in Device, NEW f \in Frame, Handle(dev, f) PROVE RouterInv'
  BY <1>4, HandleInv
<1>5. ASSUME NEW dev \in Device, NEW f \in Frame, ReceiveOwn(dev, f) PROVE RouterInv'
  BY <1>5, ReceiveOwnInv
<1>6. ASSUME NEW m \in Message, FibAddEntry(m) PROVE RouterInv'
  BY <1>6, FibAddEntryInv
<1>7. ASSUME NEW m \in Message, SendoutAddEntry(m) PROVE RouterInv'
  BY <1>7, SendoutAddEntryInv
<1>8. ASSUME NEW m \in Message, SetDefault(m) PROVE RouterInv'
  BY <1>8, SetDefaultInv
<1>9. CASE UNCHANGED vars
  BY <1>9, StutterInv
<1> QED
  BY <1>1, <1>2, <1>3, <1>4, <1>5, <1>6, <1>7, <1>8, <1>9 DEF Next

LEMMA AlwaysRouterInv == Spec => []RouterInv
BY InitRouter, NextRouter, PTL DEF Spec

\* The device and the trie are well formed, and the descriptor of a frame the router is
\* done with has an egress port that the 9-bit field holds and a header of 20 bytes, if any.
THEOREM TypeCorrect == Spec => []TypeOK
<1>1. RouterInv => TypeOK
  <2> SUFFICES ASSUME RouterInv PROVE TypeOK
    OBVIOUS
  <2>1. Switch!TypeOK
    BY SameActions DEF RouterInv, Dev!DeviceInv
  <2>2. fib_kids \in [Fib!Path -> Seq(AddressByte)]
    BY SameTrie DEF RouterInv, Tables, FibOK, Fibs!IInv, Fibs!TypeOK
  <2>3. PdOK /\ Phases
    BY DEF RouterInv, AsTold
  <2> QED
    BY <2>1, <2>2, <2>3 DEF TypeOK, PdOK, Phases
<1> QED
  BY <1>1, AlwaysRouterInv, PTL

\* Frames leave by the latest and longest route for their destination and by no other port,
\* on the device with that number, on every other port for "everywhere", or not at all; of
\* those with a bad header none leaves once packets may be dropped.  Whatever routes the
\* controller adds or overwrites in whatever order, and whatever ports there are: HandlePacket,
\* lpm_lookup and the switch's egress.  The routes are those that lpm_add has not lost to one
\* in front of them: which those are is told by the routes' first bytes alone (ToldRoute).
THEOREM RoutesAsTold == Spec => []RoutedAsTold
<1>1. RouterInv => RoutedAsTold
  BY DEF RouterInv, AsTold
<1> QED
  BY <1>1, AlwaysRouterInv, PTL

\* action_ipv4_fib_lpm and action_sendout leave the next hop's address and the egress port's
\* latest source address in the descriptor, although the trie and the sorted list reorder
\* what they were told.
THEOREM RewritesAsTold == Spec => []RewrittenAsTold
<1>1. RouterInv => RewrittenAsTold
  BY DEF RouterInv, AsTold
<1> QED
  BY <1>1, AlwaysRouterInv, PTL

\* update_packet's checksum is right whatever bytes came in, a TTL of 0 included, and no
\* other byte of the header has changed.
THEOREM HeadersUpdated == Spec => []UpdatedHeader
<1>1. RouterInv => UpdatedHeader
  BY DEF RouterInv, AsTold
<1> QED
  BY <1>1, AlwaysRouterInv, PTL

\* A descriptor, with the packet's buffer, is only lost on the error return of HandlePacket, to a
\* route whose port was never installed: not to a dropped packet, not to a flood, not to a frame
\* that no route matches.
THEOREM DescriptorsLostAsTold == Spec => []DescriptorLostOnlyWithoutPort
<1>1. RouterInv => DescriptorLostOnlyWithoutPort
  BY DEF RouterInv, AsTold
<1> QED
  BY <1>1, AlwaysRouterInv, PTL

\* But for a frame without an IPv4 header, the only pointer that leads nowhere is a default
\* the controller has set, and only where no route, or no entry for the port, answers.
THEOREM StraysAsTold == Spec => []StraysOnlyAsTold
<1>1. RouterInv => StraysOnlyAsTold
  BY DEF RouterInv, AsTold
<1> QED
  BY <1>1, AlwaysRouterInv, PTL

-----------------------------------------------------------------------------
(* The router is one of the devices of P4SwitchDevice.                     *)

\* What becomes of a message, and of a frame that strays, leaves the device as it is or
\* only forgets the last frame.
LEMMA DeviceForgets ==
  ASSUME Dev!DeviceInv, UNCHANGED <<m_ports, m_address, m_drop>>, last' = Switch!Nothing
  PROVE  Switch!Next
<1>1. m_drop \in BOOLEAN
  BY DEF Dev!DeviceInv, Dev!TypeOK
<1>2. Switch!SetPacketDrop(m_drop)
  BY DEF Switch!SetPacketDrop
<1> QED
  BY <1>1, <1>2 DEF Switch!Next

LEMMA RouterStep == RouterInv /\ [Next]_vars => [Switch!Next]_(Switch!vars)
<1> SUFFICES ASSUME RouterInv, [Next]_vars PROVE [Switch!Next]_(Switch!vars)
  OBVIOUS
<1>1. ASSUME NEW i \in 0..3, init_tables_v1(i) PROVE UNCHANGED Switch!vars
  BY <1>1 DEF init_tables_v1, switchVars, Switch!vars
<1>2. CASE Install
  <2>1. Len(m_ports) \in Nat /\ Len(Devices) \in Nat /\ Devices \in Seq(Device)
    BY SwitchAssumption, LenProperties DEF RouterInv, Dev!DeviceInv, Dev!Numbered
  <2>2. Len(m_ports) + 1 \in 1..Len(Devices)
    BY <1>2, <2>1 DEF Install
  <2>3. Devices[Len(m_ports) + 1] \in Device
    BY <2>1, <2>2, ElementOfSeq
  <2> QED
    BY <1>2, <2>3 DEF Install, Switch!Next
<1>3. ASSUME NEW b \in BOOLEAN, AllowPacketDrop(b) PROVE Switch!Next
  BY <1>3 DEF AllowPacketDrop, Switch!Next
<1>4. ASSUME NEW dev \in Device, NEW f \in Frame, Handle(dev, f)
      PROVE  [Switch!Next]_(Switch!vars)
  <2>1. Tables /\ Phases
    BY DEF RouterInv
  <2>2. Strayed(f) \/ \E d : Described(f, d) /\ Delivered(dev, f, d)
    BY <1>4, <2>1, HandleEffect
  <2>3. CASE Strayed(f)
    BY <2>3 DEF Strayed, Stray, switchVars, Switch!vars
  <2>4. ASSUME NEW d, Described(f, d), Delivered(dev, f, d) PROVE Switch!Next
    <3>1. f.dst \in Address /\ d.egress_port \in EgressPort /\ d.dropped \in BOOLEAN
      BY <2>4, FrameAssumption, SwitchAssumption DEF Described
    <3> QED
      BY <2>4, <3>1 DEF Delivered, Switch!Next
  <2> QED
    BY <2>2, <2>3, <2>4
<1>5. ASSUME NEW dev \in Device, NEW f \in Frame, ReceiveOwn(dev, f) PROVE Switch!Next
  <2>1. f.dst \in Address /\ 0 \in EgressPort /\ FALSE \in BOOLEAN
    BY FrameAssumption, SwitchAssumption
  <2> QED
    BY <1>5, <2>1 DEF ReceiveOwn, Switch!Next
<1>6. ASSUME Sent PROVE Switch!Next
  BY <1>6, DeviceForgets DEF RouterInv, Sent
<1>7. ASSUME NEW m \in Message, FibAddEntry(m) \/ SendoutAddEntry(m) \/ SetDefault(m)
      PROVE  Switch!Next
  BY <1>6, <1>7 DEF FibAddEntry, SendoutAddEntry, SetDefault
<1>8. CASE UNCHANGED vars
  BY <1>8 DEF vars, switchVars, Switch!vars
<1> QED
  BY <1>1, <1>2, <1>3, <1>4, <1>5, <1>7, <1>8 DEF Next

\* Every behaviour of the router is one of P4SwitchDevice, whose data plane may choose any
\* egress port: the generated program never leaves a number in egress_port that the device does
\* not expect, and neither it nor the controller's handlers touch the device's own state.  So
\* what is proved of the device holds of the router.
THEOREM RouterIsDevice == Spec => Switch!Spec
<1>1. Init => Switch!Init
  BY DEF Init
<1> QED
  BY <1>1, RouterStep, AlwaysRouterInv, PTL DEF Spec, Switch!Spec

=============================================================================
