--------------------------- MODULE L2Switch_proof ----------------------------
(***************************************************************************)
(* The learning switch, for any number of hosts and frames, any addresses  *)
(* and any order of the frames on the links: what its tables say of a      *)
(* host, and where the frames go.                                          *)
(***************************************************************************)
EXTENDS L2Switch, FiniteSetTheorems, SequenceTheorems, TLAPS

-----------------------------------------------------------------------------
(* The parts.  The device is P4SwitchDevice, each table an ExactTable with *)
(* actions of its own, so that what is proved of those can be used here.   *)

Dev  == INSTANCE P4SwitchDevice_proof
Smac == INSTANCE ExactTable_proof
          WITH Value <- smac_action, NoEntry <- "none",
               table <- m_tables.smac.entries, default_val <- m_tables.smac.default_val,
               call <- <<>>
Dmac == INSTANCE ExactTable_proof
          WITH Value <- dmac_action, NoEntry <- [action_id |-> "none", port |-> 0],
               table <- m_tables.dmac.entries, default_val <- m_tables.dmac.default_val,
               call <- <<>>

\* What the lemmas of the parts assume.
LEMMA PartsAssumed ==
  /\ MAX_PORTS \in Nat \ {0} /\ BROADCAST_PORT \in Nat
  /\ NoAddress \notin Address /\ Self \notin Device
  /\ Broadcast \in Address /\ Multicast \subseteq Address \ {Broadcast}
  /\ GetAddress \in [Device -> Address \ (Multicast \cup {Broadcast})]
  /\ EgressPort \subseteq 0..511
  /\ KeySize \in Nat \ {0} /\ Byte \subseteq 0..255
  /\ "none" \notin smac_action
  /\ [action_id |-> "none", port |-> 0] \notin dmac_action
<1>1. \A a \in dmac_action : a.action_id \in {"forward", "bcast"}
  BY DEF dmac_action
<1>2. [action_id |-> "none", port |-> 0] \notin dmac_action
  BY <1>1
<1> QED
  BY <1>2, PortAssumption, SwitchAssumption, AddressAssumption DEF smac_action

\* The instances of the list's operators are the same operators.
LEMMA SameList ==
  ASSUME NEW t, NEW k, NEW v
  PROVE  /\ List!exact_add(t, k, v) = Smac!exact_add(t, k, v)
         /\ List!exact_add(t, k, v) = Dmac!exact_add(t, k, v)
         /\ List!exact_lookup(t, k, v) = Smac!exact_lookup(t, k, v)
         /\ List!exact_lookup(t, k, v) = Dmac!exact_lookup(t, k, v)
<1>1. List!StopAt(t, k) = Smac!StopAt(t, k) /\ List!StopAt(t, k) = Dmac!StopAt(t, k)
  BY DEF List!StopAt, Smac!StopAt, Dmac!StopAt,
         List!compare_keys, Smac!compare_keys, Dmac!compare_keys,
         List!CompareOver, Smac!CompareOver, Dmac!CompareOver, List!Min, Smac!Min, Dmac!Min
<1>2. (List!Hit(t, k) <=> Smac!Hit(t, k)) /\ (List!Hit(t, k) <=> Dmac!Hit(t, k))
  BY <1>1 DEF List!Hit, Smac!Hit, Dmac!Hit,
              List!compare_keys, Smac!compare_keys, Dmac!compare_keys,
              List!CompareOver, Smac!CompareOver, Dmac!CompareOver, List!Min, Smac!Min, Dmac!Min
<1>3. List!exact_add(t, k, v) = Smac!exact_add(t, k, v)
      /\ List!exact_add(t, k, v) = Dmac!exact_add(t, k, v)
  BY <1>1, <1>2 DEF List!exact_add, Smac!exact_add, Dmac!exact_add,
                    List!InsertAt, Smac!InsertAt, Dmac!InsertAt
<1>4. List!exact_lookup(t, k, v) = Smac!exact_lookup(t, k, v)
      /\ List!exact_lookup(t, k, v) = Dmac!exact_lookup(t, k, v)
  BY <1>1, <1>2 DEF List!exact_lookup, Smac!exact_lookup, Dmac!exact_lookup
<1> QED
  BY <1>3, <1>4

\* So are those of the device's.
LEMMA SameSwitch ==
  ASSUME NEW ports, NEW x, NEW y
  PROVE  /\ Switch!PortOf(ports, x) = Dev!PortOf(ports, x) /\ PortOf(ports, x) = Dev!PortOf(ports, x)
         /\ Switch!Egress(ports, x, y) = Dev!Egress(ports, x, y)
<1>1. Switch!PortOf(ports, x) = Dev!PortOf(ports, x) /\ PortOf(ports, x) = Dev!PortOf(ports, x)
  BY DEF Switch!PortOf, Dev!PortOf, PortOf, Switch!SelectInSeq, Dev!SelectInSeq, SelectInSeq,
         Switch!Min, Dev!Min, Min
<1>2. Switch!Flooded(ports, x) = Dev!Flooded(ports, x)
  BY DEF Switch!Flooded, Dev!Flooded
<1>3. Switch!Egress(ports, x, y) = Dev!Egress(ports, x, y)
  BY <1>2 DEF Switch!Egress, Dev!Egress, Switch!SelectInSeq, Dev!SelectInSeq, Switch!Min, Dev!Min
<1> QED
  BY <1>1, <1>3

\* And of its actions.
LEMMA SameActions ==
  /\ Switch!Init <=> Dev!Init
  /\ \A d : Switch!AddSwitchPort(d) <=> Dev!AddSwitchPort(d)
  /\ \A d, dst : Switch!PacketTypeOf(d, dst) = Dev!PacketTypeOf(d, dst)
  /\ \A d, t, dst, e, b :
       Switch!ReceiveFromDevice(d, t, dst, e, b) <=> Dev!ReceiveFromDevice(d, t, dst, e, b)
  /\ Switch!TypeOK <=> Dev!TypeOK
<1>1. Switch!Init <=> Dev!Init
  BY DEF Switch!Init, Dev!Init, Switch!Nothing, Dev!Nothing
<1>2. \A d : Switch!AddSwitchPort(d) <=> Dev!AddSwitchPort(d)
  BY DEF Switch!AddSwitchPort, Dev!AddSwitchPort, Switch!NewPortNumber, Dev!NewPortNumber,
         Switch!Nothing, Dev!Nothing, Switch!Last, Dev!Last
<1>3. \A d, dst : Switch!PacketTypeOf(d, dst) = Dev!PacketTypeOf(d, dst)
  BY DEF Switch!PacketTypeOf, Dev!PacketTypeOf
<1>4. ASSUME NEW d, NEW t, NEW dst, NEW e, NEW b
      PROVE  Switch!ReceiveFromDevice(d, t, dst, e, b) <=> Dev!ReceiveFromDevice(d, t, dst, e, b)
  <2>1. Switch!PortOf(m_ports, d) = Dev!PortOf(m_ports, d)
    BY SameSwitch
  <2>2. \A x : Switch!Egress(m_ports, x, e) = Dev!Egress(m_ports, x, e)
    BY SameSwitch
  <2> QED
    BY <2>1, <2>2 DEF Switch!ReceiveFromDevice, Dev!ReceiveFromDevice, Switch!GoesUp, Dev!GoesUp,
                      Switch!GoesThrough, Dev!GoesThrough
<1>5. Switch!TypeOK <=> Dev!TypeOK
  BY DEF Switch!TypeOK, Dev!TypeOK, Switch!Port, Dev!Port, Switch!Effect, Dev!Effect,
         Switch!PacketType, Dev!PacketType, Switch!ToSet, Dev!ToSet
<1> QED
  BY <1>1, <1>2, <1>3, <1>4, <1>5


-----------------------------------------------------------------------------
(* The tables.                                                             *)

\* Entries are in order and the defaults are those of init_tables_v1, which nothing changes.
TablesOK(T) ==
  /\ T \in [smac : [entries : Seq(Smac!Entry), default_val : {"mac_learn"}],
            dmac : [entries : Seq(Dmac!Entry), default_val : {bcast}]]
  /\ Smac!Descending(T.smac.entries) /\ Dmac!Descending(T.dmac.entries)

\* What the program's actions are.
LEMMA Actions ==
  /\ "mac_learn" \in smac_action /\ "_nop" \in smac_action /\ bcast \in dmac_action
  /\ \A port \in 0..MAX_PORTS : forward(port) \in dmac_action
  /\ \A port : forward(port) # bcast /\ forward(port).action_id = "forward"
               /\ forward(port).port = port
  /\ bcast.action_id # "forward" /\ bcast.port = BROADCAST_PORT
BY DEF smac_action, dmac_action, bcast, forward

\* The keys of the instances are the same keys, and addresses are keys.
LEMMA AddressesAreKeys == Address \subseteq Smac!Key /\ Address \subseteq Dmac!Key
BY AddressAssumption DEF List!Key, Smac!Key, Dmac!Key

\* What ExactTable_proof says of an addition to a list of either kind.
LEMMA SmacAdd ==
  ASSUME NEW t \in Seq(Smac!Entry), Smac!Descending(t), NEW k \in Smac!Key, NEW v \in smac_action
  PROVE  /\ Smac!exact_add(t, k, v) \in Seq(Smac!Entry)
         /\ Smac!Descending(Smac!exact_add(t, k, v))
         /\ \A k2 \in Smac!Key : \A d :
              Smac!exact_lookup(Smac!exact_add(t, k, v), k2, d) =
                IF k2 = k THEN v ELSE Smac!exact_lookup(t, k2, d)
<1>1. "none" \notin smac_action /\ Byte \subseteq 0..255 /\ KeySize \in Nat \ {0}
  BY PartsAssumed
<1>2. Smac!exact_add(t, k, v) \in Seq(Smac!Entry) /\ Smac!Descending(Smac!exact_add(t, k, v))
  BY <1>1, Smac!AddDescending
<1>3. ASSUME NEW k2 \in Smac!Key, NEW d
      PROVE  Smac!exact_lookup(Smac!exact_add(t, k, v), k2, d) =
               IF k2 = k THEN v ELSE Smac!exact_lookup(t, k2, d)
  BY <1>1, Smac!AddLookup
<1> QED
  BY <1>2, <1>3

LEMMA DmacAdd ==
  ASSUME NEW t \in Seq(Dmac!Entry), Dmac!Descending(t), NEW k \in Dmac!Key, NEW v \in dmac_action
  PROVE  /\ Dmac!exact_add(t, k, v) \in Seq(Dmac!Entry)
         /\ Dmac!Descending(Dmac!exact_add(t, k, v))
         /\ \A k2 \in Dmac!Key : \A d :
              Dmac!exact_lookup(Dmac!exact_add(t, k, v), k2, d) =
                IF k2 = k THEN v ELSE Dmac!exact_lookup(t, k2, d)
<1>1. [action_id |-> "none", port |-> 0] \notin dmac_action
      /\ Byte \subseteq 0..255 /\ KeySize \in Nat \ {0}
  BY PartsAssumed
<1>2. Dmac!exact_add(t, k, v) \in Seq(Dmac!Entry) /\ Dmac!Descending(Dmac!exact_add(t, k, v))
  BY <1>1, Dmac!AddDescending
<1>3. ASSUME NEW k2 \in Dmac!Key, NEW d
      PROVE  Dmac!exact_lookup(Dmac!exact_add(t, k, v), k2, d) =
               IF k2 = k THEN v ELSE Dmac!exact_lookup(t, k2, d)
  BY <1>1, Dmac!AddLookup
<1> QED
  BY <1>2, <1>3

\* One more entry in either table changes the answer for its own key only.
LEMMA EntryAdded ==
  ASSUME NEW T, TablesOK(T), NEW mac \in Address
  PROVE  /\ TablesOK(Added(T, "smac", mac, "_nop"))
         /\ \A a \in Address :
              /\ Lookup(Added(T, "smac", mac, "_nop").smac, a) =
                   IF a = mac THEN "_nop" ELSE Lookup(T.smac, a)
              /\ Lookup(Added(T, "smac", mac, "_nop").dmac, a) = Lookup(T.dmac, a)
         /\ \A v \in dmac_action :
              /\ TablesOK(Added(T, "dmac", mac, v))
              /\ \A a \in Address :
                   /\ Lookup(Added(T, "dmac", mac, v).dmac, a) =
                        IF a = mac THEN v ELSE Lookup(T.dmac, a)
                   /\ Lookup(Added(T, "dmac", mac, v).smac, a) = Lookup(T.smac, a)
<1> DEFINE s == T.smac.entries
           d == T.dmac.entries
<1>1. /\ s \in Seq(Smac!Entry) /\ Smac!Descending(s)
      /\ d \in Seq(Dmac!Entry) /\ Dmac!Descending(d)
      /\ T.smac.default_val = "mac_learn" /\ T.dmac.default_val = bcast
      /\ mac \in Smac!Key /\ mac \in Dmac!Key /\ "_nop" \in smac_action
      /\ T = [smac |-> T.smac, dmac |-> T.dmac]
      /\ T.smac = [entries |-> s, default_val |-> "mac_learn"]
      /\ T.dmac = [entries |-> d, default_val |-> bcast]
  BY AddressesAreKeys, Actions DEF TablesOK
<1>2. ASSUME TRUE
      PROVE  /\ TablesOK(Added(T, "smac", mac, "_nop"))
             /\ \A a \in Address :
                  /\ Lookup(Added(T, "smac", mac, "_nop").smac, a) =
                       IF a = mac THEN "_nop" ELSE Lookup(T.smac, a)
                  /\ Lookup(Added(T, "smac", mac, "_nop").dmac, a) = Lookup(T.dmac, a)
  <2> DEFINE new == List!exact_add(s, mac, "_nop")
             U == Added(T, "smac", mac, "_nop")
  <2>1. new = Smac!exact_add(s, mac, "_nop")
    BY SameList
  <2>2. new \in Seq(Smac!Entry) /\ Smac!Descending(new)
    <3> HIDE DEF s, new
    <3> QED
      BY <1>1, <2>1, SmacAdd
  <2>3. \A a \in Address : Smac!exact_lookup(new, a, "mac_learn") =
                              IF a = mac THEN "_nop" ELSE Smac!exact_lookup(s, a, "mac_learn")
    <3> SUFFICES ASSUME NEW a \in Address
                 PROVE  Smac!exact_lookup(new, a, "mac_learn") =
                          IF a = mac THEN "_nop" ELSE Smac!exact_lookup(s, a, "mac_learn")
      OBVIOUS
    <3>1. a \in Smac!Key
      BY AddressesAreKeys
    <3> HIDE DEF s, new
    <3> QED
      BY <1>1, <2>1, <3>1, SmacAdd
  <2>4. U = [smac |-> [entries |-> new, default_val |-> "mac_learn"], dmac |-> T.dmac]
    <3>1. U = [T EXCEPT !["smac"].entries = new]
      BY DEF Added
    <3> HIDE DEF new, U, s, d
    <3> QED
      BY <1>1, <3>1
  <2> HIDE DEF new, U, s, d
  <2>5. TablesOK(U)
    BY <1>1, <2>2, <2>4 DEF TablesOK
  <2>6. \A a \in Address : Lookup(U.smac, a) = IF a = mac THEN "_nop" ELSE Lookup(T.smac, a)
    BY <1>1, <2>3, <2>4, SameList DEF Lookup
  <2>7. \A a \in Address : Lookup(U.dmac, a) = Lookup(T.dmac, a)
    BY <2>4
  <2> QED
    BY <2>5, <2>6, <2>7 DEF U
<1>3. ASSUME NEW v \in dmac_action
      PROVE  /\ TablesOK(Added(T, "dmac", mac, v))
             /\ \A a \in Address :
                  /\ Lookup(Added(T, "dmac", mac, v).dmac, a) =
                       IF a = mac THEN v ELSE Lookup(T.dmac, a)
                  /\ Lookup(Added(T, "dmac", mac, v).smac, a) = Lookup(T.smac, a)
  <2> DEFINE new == List!exact_add(d, mac, v)
             U == Added(T, "dmac", mac, v)
  <2>1. new = Dmac!exact_add(d, mac, v)
    BY SameList
  <2>2. new \in Seq(Dmac!Entry) /\ Dmac!Descending(new)
    <3> HIDE DEF d, new
    <3> QED
      BY <1>1, <2>1, DmacAdd
  <2>3. \A a \in Address : Dmac!exact_lookup(new, a, bcast) =
                              IF a = mac THEN v ELSE Dmac!exact_lookup(d, a, bcast)
    <3> SUFFICES ASSUME NEW a \in Address
                 PROVE  Dmac!exact_lookup(new, a, bcast) =
                          IF a = mac THEN v ELSE Dmac!exact_lookup(d, a, bcast)
      OBVIOUS
    <3>1. a \in Dmac!Key
      BY AddressesAreKeys
    <3> HIDE DEF d, new
    <3> QED
      BY <1>1, <2>1, <3>1, DmacAdd
  <2>4. U = [smac |-> T.smac, dmac |-> [entries |-> new, default_val |-> bcast]]
    <3>1. U = [T EXCEPT !["dmac"].entries = new]
      BY DEF Added
    <3> HIDE DEF new, U, s, d
    <3> QED
      BY <1>1, <3>1
  <2> HIDE DEF new, U, s, d
  <2>5. TablesOK(U)
    BY <1>1, <2>2, <2>4 DEF TablesOK
  <2>6. \A a \in Address : Lookup(U.dmac, a) = IF a = mac THEN v ELSE Lookup(T.dmac, a)
    BY <1>1, <2>3, <2>4, SameList DEF Lookup
  <2>7. \A a \in Address : Lookup(U.smac, a) = Lookup(T.smac, a)
    BY <2>4
  <2> QED
    BY <2>5, <2>6, <2>7 DEF U
<1> QED
  BY <1>2, <1>3

\* The digest callback, which writes both tables: the source is known, and forwarded to
\* where it was seen.
LEMMA Digested ==
  ASSUME NEW T, TablesOK(T), NEW mac \in Address, NEW port \in 0..MAX_PORTS
  PROVE  /\ TablesOK(p4_msg_digest_v1(T, mac, port))
         /\ \A a \in Address :
              /\ Lookup(p4_msg_digest_v1(T, mac, port).smac, a) =
                   IF a = mac THEN "_nop" ELSE Lookup(T.smac, a)
              /\ Lookup(p4_msg_digest_v1(T, mac, port).dmac, a) =
                   IF a = mac THEN forward(port) ELSE Lookup(T.dmac, a)
<1> DEFINE U == Added(T, "smac", mac, "_nop")
<1>1. /\ TablesOK(U)
      /\ \A a \in Address : /\ Lookup(U.smac, a) = IF a = mac THEN "_nop" ELSE Lookup(T.smac, a)
                            /\ Lookup(U.dmac, a) = Lookup(T.dmac, a)
  BY EntryAdded
<1>2. p4_msg_digest_v1(T, mac, port) = Added(U, "dmac", mac, forward(port))
  BY DEF p4_msg_digest_v1
<1> HIDE DEF U
<1>3. forward(port) \in dmac_action
  BY Actions
<1>4. /\ TablesOK(Added(U, "dmac", mac, forward(port)))
      /\ \A a \in Address : /\ Lookup(Added(U, "dmac", mac, forward(port)).dmac, a) =
                                 IF a = mac THEN forward(port) ELSE Lookup(U.dmac, a)
                            /\ Lookup(Added(U, "dmac", mac, forward(port)).smac, a)
                                 = Lookup(U.smac, a)
  BY <1>1, <1>3, EntryAdded
<1> QED
  BY <1>1, <1>2, <1>4

\* The tables of init_tables_v1 know no source and flood everything.
LEMMA InitialTables ==
  /\ TablesOK(init_tables_v1)
  /\ \A a \in Address : /\ Lookup(init_tables_v1.smac, a) = "mac_learn"
                        /\ Lookup(init_tables_v1.dmac, a) = bcast
<1> DEFINE T == [smac |-> [entries |-> <<>>, default_val |-> "mac_learn"],
                 dmac |-> [entries |-> <<>>, default_val |-> bcast]]
<1>1. /\ <<>> \in Seq(Smac!Entry) /\ Smac!Descending(<<>>)
      /\ \A a \in Address : Smac!exact_lookup(<<>>, a, "mac_learn") = "mac_learn"
  BY PartsAssumed, AddressesAreKeys, Smac!EmptyList
<1>2. /\ <<>> \in Seq(Dmac!Entry) /\ Dmac!Descending(<<>>)
      /\ \A a \in Address : Dmac!exact_lookup(<<>>, a, bcast) = bcast
  BY PartsAssumed, AddressesAreKeys, Dmac!EmptyList
<1>3. TablesOK(T)
  BY <1>1, <1>2 DEF TablesOK
<1>4. \A a \in Address : Lookup(T.smac, a) = "mac_learn" /\ Lookup(T.dmac, a) = bcast
  BY <1>1, <1>2, SameList DEF Lookup
<1>5. init_tables_v1 = Added(T, "dmac", Broadcast, bcast)
  BY DEF init_tables_v1, Added
<1> HIDE DEF T
<1>6. Broadcast \in Address /\ bcast \in dmac_action
  BY PartsAssumed, Actions
<1>7. /\ TablesOK(Added(T, "dmac", Broadcast, bcast))
      /\ \A a \in Address : /\ Lookup(Added(T, "dmac", Broadcast, bcast).dmac, a) =
                                 IF a = Broadcast THEN bcast ELSE Lookup(T.dmac, a)
                            /\ Lookup(Added(T, "dmac", Broadcast, bcast).smac, a)
                                 = Lookup(T.smac, a)
  BY <1>3, <1>6, EntryAdded
<1> QED
  BY <1>4, <1>5, <1>7


-----------------------------------------------------------------------------
(* The device.                                                             *)

\* What P4SwitchDevice_proof says of it, once the program's tables are put in its place.
LEMMA DeviceInit == Dev!Init => Dev!DeviceInv
<1>1. /\ MAX_PORTS \in Nat \ {0} /\ BROADCAST_PORT \in Nat
      /\ NoAddress \notin Address /\ Self \notin Device
      /\ Broadcast \in Address /\ Multicast \subseteq Address \ {Broadcast}
      /\ GetAddress \in [Device -> Address \ (Multicast \cup {Broadcast})]
      /\ EgressPort \subseteq 0..511
  BY PartsAssumed
<1> QED
  BY <1>1, Dev!InitDevice

LEMMA DeviceStep == Dev!DeviceInv /\ [Dev!Next]_(Dev!vars) => Dev!DeviceInv'
<1>1. /\ MAX_PORTS \in Nat \ {0} /\ BROADCAST_PORT \in Nat
      /\ NoAddress \notin Address /\ Self \notin Device
      /\ Broadcast \in Address /\ Multicast \subseteq Address \ {Broadcast}
      /\ GetAddress \in [Device -> Address \ (Multicast \cup {Broadcast})]
      /\ EgressPort \subseteq 0..511
  BY PartsAssumed
<1> QED
  BY <1>1, Dev!NextDevice

\* The port a device is, and its number.
LEMMA PortOfDevice ==
  ASSUME NEW ports, NEW dev
  PROVE  /\ (\E i \in 1..Len(ports) : ports[i].first = dev) => PortOf(ports, dev) # 0
         /\ PortOf(ports, dev) # 0 => /\ PortOf(ports, dev) \in 1..Len(ports)
                                      /\ ports[PortOf(ports, dev)].first = dev
<1>1. /\ MAX_PORTS \in Nat \ {0} /\ BROADCAST_PORT \in Nat
      /\ NoAddress \notin Address /\ Self \notin Device
      /\ Broadcast \in Address /\ Multicast \subseteq Address \ {Broadcast}
      /\ GetAddress \in [Device -> Address \ (Multicast \cup {Broadcast})]
      /\ EgressPort \subseteq 0..511
  BY PartsAssumed
<1>2. /\ (\E i \in 1..Len(ports) : ports[i].first = dev) => Dev!PortOf(ports, dev) # 0
      /\ Dev!PortOf(ports, dev) # 0 => /\ Dev!PortOf(ports, dev) \in 1..Len(ports)
                                       /\ ports[Dev!PortOf(ports, dev)].first = dev
  BY <1>1, Dev!PortFound
<1> QED
  BY <1>2, SameSwitch

LEMMA DeviceNumbers ==
  ASSUME Dev!DeviceInv, NEW i \in 1..Len(m_ports)
  PROVE  m_ports[i] \in Port /\ m_ports[i].second \in 0..MAX_PORTS
<1>1. /\ MAX_PORTS \in Nat \ {0} /\ BROADCAST_PORT \in Nat
      /\ NoAddress \notin Address /\ Self \notin Device
      /\ Broadcast \in Address /\ Multicast \subseteq Address \ {Broadcast}
      /\ GetAddress \in [Device -> Address \ (Multicast \cup {Broadcast})]
      /\ EgressPort \subseteq 0..511
  BY PartsAssumed
<1>2. Dev!PortNumbers
  BY <1>1, Dev!NumberedPorts DEF Dev!DeviceInv
<1>3. m_ports \in Seq(Port)
  BY DEF Dev!DeviceInv, Dev!Numbered, Dev!Port, Port
<1>4. m_ports[i] \in Port
  BY <1>3, ElementOfSeq
<1>5. m_ports[i].second \in Nat
  BY <1>4 DEF Port
<1> QED
  BY <1>1, <1>2, <1>4, <1>5 DEF Dev!PortNumbers

\* Where frames leave, see EgressPorts and EgressCopies there.
Leaves(in, port, out) ==
  /\ out \in Seq(Port)
  /\ \A k, l \in 1..Len(out) : k # l => out[k].first # out[l].first
  /\ port = BROADCAST_PORT =>
       /\ \A j \in 1..Len(m_ports) : j # in => \E k \in 1..Len(out) : out[k] = m_ports[j]
       /\ \A k \in 1..Len(out) : out[k].first # m_ports[in].first
  /\ \A j \in 1..Len(m_ports) : m_ports[j].second = port => out = <<m_ports[j]>>

LEMMA Leaving ==
  ASSUME Dev!DeviceInv, NEW in \in 1..Len(m_ports), NEW port
  PROVE  Leaves(in, port, Dev!Egress(m_ports, m_ports[in].second, port))
<1> DEFINE out == Dev!Egress(m_ports, m_ports[in].second, port)
<1>1. /\ MAX_PORTS \in Nat \ {0} /\ BROADCAST_PORT \in Nat
      /\ NoAddress \notin Address /\ Self \notin Device
      /\ Broadcast \in Address /\ Multicast \subseteq Address \ {Broadcast}
      /\ GetAddress \in [Device -> Address \ (Multicast \cup {Broadcast})]
      /\ EgressPort \subseteq 0..511
  BY PartsAssumed
<1>2. Dev!Numbered /\ Dev!DevicesOnce
  BY DEF Dev!DeviceInv
<1>3. /\ m_ports \in Seq(Dev!Port)
      /\ \A i, j \in 1..Len(m_ports) : i # j => m_ports[i].first # m_ports[j].first
  BY <1>2 DEF Dev!Numbered, Dev!DevicesOnce
<1>4. /\ out \in Seq(Dev!Port)
      /\ \A k, l \in 1..Len(out) : k # l => out[k].first # out[l].first
  BY <1>1, <1>3, Dev!EgressPorts
<1>5. /\ port = BROADCAST_PORT =>
           /\ \A j \in 1..Len(m_ports) : j # in => \E k \in 1..Len(out) : out[k] = m_ports[j]
           /\ \A k \in 1..Len(out) : out[k].first # m_ports[in].first
      /\ \A j \in 1..Len(m_ports) : m_ports[j].second = port => out = <<m_ports[j]>>
  <2>1. Dev!Copied(Dev!Egress(m_ports, m_ports[in].second, port), m_ports, in, port)
    BY <1>1, <1>2, Dev!EgressCopies
  <2> QED
    BY <2>1 DEF Dev!Copied
<1>6. Dev!Port = Port
  BY DEF Dev!Port, Port
<1> HIDE DEF out
<1>7. Leaves(in, port, out)
  BY <1>4, <1>5, <1>6 DEF Leaves
<1> QED
  BY <1>7 DEF out


-----------------------------------------------------------------------------
(* What the tables know.                                                   *)

\* A source is known to both tables, as the host behind the port dmac names, or to neither.
\* Nobody learns where everybody is.
WhereSeen(T) ==
  \A a \in Address :
    \/ Lookup(T.smac, a) = "mac_learn" /\ Lookup(T.dmac, a) = bcast
    \/ /\ a # Broadcast /\ Lookup(T.smac, a) = "_nop"
       /\ \E i \in 1..Len(m_ports) : /\ Lookup(T.dmac, a) = forward(m_ports[i].second)
                                     /\ HostAddress[m_ports[i].first] = a

Knows(T, a) == Lookup(T.smac, a) = "_nop"

LEMMA WhereSeenLearned ==
  ASSUME m_ports \in Seq(Port), WhereSeen(m_tables)
  PROVE  LearnedWhereSeen
<1> SUFFICES ASSUME NEW a \in Address \ {Broadcast}
             PROVE  /\ Knows(m_tables, a) <=> Lookup(m_tables.dmac, a) # bcast
                    /\ Knows(m_tables, a) =>
                         \E i \in DOMAIN m_ports :
                           /\ m_ports[i].second = Lookup(m_tables.dmac, a).port
                           /\ HostAddress[m_ports[i].first] = a
  BY DEF LearnedWhereSeen, Knows
<1>1. DOMAIN m_ports = 1..Len(m_ports)
  BY LenProperties
<1>2. CASE Lookup(m_tables.smac, a) = "mac_learn" /\ Lookup(m_tables.dmac, a) = bcast
  BY <1>2 DEF Knows
<1>3. ASSUME Knows(m_tables, a), NEW i \in 1..Len(m_ports),
             Lookup(m_tables.dmac, a) = forward(m_ports[i].second),
             HostAddress[m_ports[i].first] = a
      PROVE  /\ Lookup(m_tables.dmac, a) # bcast
             /\ m_ports[i].second = Lookup(m_tables.dmac, a).port
  BY <1>3, Actions
<1> QED
  BY <1>1, <1>2, <1>3 DEF WhereSeen, Knows

\* A frame from dev, through smac: afterwards its sender is known, everyone known before
\* still is, and the tables still agree.
LEMMA SourceLearned ==
  ASSUME Dev!DeviceInv, NEW T, TablesOK(T), WhereSeen(T),
         NEW in \in 1..Len(m_ports), NEW f \in Frame, f.src = HostAddress[m_ports[in].first],
         NEW U, U = apply_table_smac(T, f, m_ports[in].second)
  PROVE  /\ TablesOK(U) /\ WhereSeen(U)
         /\ Knows(U, f.src)
         /\ \A a \in Address : Knows(T, a) => Knows(U, a)
<1>1. m_ports[in] \in Port /\ m_ports[in].second \in 0..MAX_PORTS
  BY DeviceNumbers
<1>2. f.src \in Address /\ f.src # Broadcast
  BY <1>1, HostAssumption DEF Port
<1>3. CASE Lookup(T.smac, f.src) = "mac_learn"
  <2>1. U = p4_msg_digest_v1(T, f.src, m_ports[in].second)
    BY <1>3 DEF apply_table_smac, IsDigested
  <2>2. /\ TablesOK(U)
        /\ \A a \in Address :
             /\ Lookup(U.smac, a) = IF a = f.src THEN "_nop" ELSE Lookup(T.smac, a)
             /\ Lookup(U.dmac, a) = IF a = f.src THEN forward(m_ports[in].second)
                                                 ELSE Lookup(T.dmac, a)
    BY <1>1, <1>2, <2>1, Digested
  <2>3. WhereSeen(U)
    <3> SUFFICES ASSUME NEW a \in Address
                 PROVE  \/ Lookup(U.smac, a) = "mac_learn" /\ Lookup(U.dmac, a) = bcast
                        \/ /\ a # Broadcast /\ Lookup(U.smac, a) = "_nop"
                           /\ \E i \in 1..Len(m_ports) :
                                /\ Lookup(U.dmac, a) = forward(m_ports[i].second)
                                /\ HostAddress[m_ports[i].first] = a
      BY DEF WhereSeen
    <3>1. CASE a = f.src
      BY <1>2, <2>2, <3>1
    <3>2. CASE a # f.src
      BY <2>2, <3>2 DEF WhereSeen
    <3> QED
      BY <3>1, <3>2
  <2>4. Knows(U, f.src) /\ \A a \in Address : Knows(T, a) => Knows(U, a)
    BY <1>2, <2>2 DEF Knows
  <2> QED
    BY <2>2, <2>3, <2>4
<1>4. CASE Lookup(T.smac, f.src) # "mac_learn"
  <2>1. U = T
    BY <1>4 DEF apply_table_smac, IsDigested
  <2>2. Knows(T, f.src)
    BY <1>2, <1>4 DEF WhereSeen, Knows
  <2> QED
    BY <2>1, <2>2
<1> QED
  BY <1>3, <1>4

\* A frame dmac has looked up: where it goes depends on whether its destination is known,
\* and never back to its sender.
LEMMA Directed ==
  ASSUME Dev!DeviceInv, NEW T, WhereSeen(T), \A d \in Device : \E i \in 1..Len(m_ports) : m_ports[i].first = d,
         NEW in \in 1..Len(m_ports), NEW f \in Frame, f.src = HostAddress[m_ports[in].first],
         f.src # f.dst,
         NEW egress, egress = apply_table_dmac(T, f),
         NEW out, out = Dev!Egress(m_ports, m_ports[in].second, egress)
  PROVE  /\ egress \in EgressPort
         /\ out \in Seq(Port)
         /\ \A k, l \in 1..Len(out) : k # l => out[k].first # out[l].first
         /\ \A k \in 1..Len(out) : out[k].first # m_ports[in].first
         /\ \A d \in Device \ {m_ports[in].first} :
              f.dst \in {HostAddress[d], Broadcast} => \E k \in 1..Len(out) : out[k].first = d
         /\ \A d \in Device :
              Knows(T, f.dst) /\ f.dst = HostAddress[d] =>
                \A k \in 1..Len(out) : out[k].first = d
<1>1. f.dst \in Address /\ \A i \in 1..Len(m_ports) : m_ports[i].first \in Device
  BY DeviceNumbers DEF Port, Frame
<1>2. /\ out \in Seq(Port)
      /\ \A k, l \in 1..Len(out) : k # l => out[k].first # out[l].first
      /\ egress = BROADCAST_PORT =>
           /\ \A j \in 1..Len(m_ports) : j # in => \E k \in 1..Len(out) : out[k] = m_ports[j]
           /\ \A k \in 1..Len(out) : out[k].first # m_ports[in].first
      /\ \A j \in 1..Len(m_ports) : m_ports[j].second = egress => out = <<m_ports[j]>>
  <2>1. Leaves(in, egress, out)
    BY Leaving
  <2> QED
    BY <2>1 DEF Leaves
<1>3. CASE ~ Knows(T, f.dst)
  <2>1. egress = BROADCAST_PORT
    BY <1>1, <1>3, Actions DEF WhereSeen, Knows, apply_table_dmac
  <2>2. \A d \in Device \ {m_ports[in].first} : \E k \in 1..Len(out) : out[k].first = d
    BY <1>2, <2>1
  <2>3. egress \in EgressPort
    BY <2>1, SwitchAssumption
  <2> QED
    BY <1>2, <1>3, <2>1, <2>2, <2>3
<1>4. CASE Knows(T, f.dst)
  <2>1. PICK i \in 1..Len(m_ports) : /\ Lookup(T.dmac, f.dst) = forward(m_ports[i].second)
                                     /\ HostAddress[m_ports[i].first] = f.dst
    BY <1>1, <1>4 DEF WhereSeen, Knows
  <2>2. f.dst # Broadcast
    BY <1>1, <1>4 DEF WhereSeen, Knows
  <2>3. egress = m_ports[i].second
    BY <2>1, Actions DEF apply_table_dmac
  <2>4. egress \in EgressPort
    BY <2>3, DeviceNumbers, SwitchAssumption
  <2>5. Len(out) = 1 /\ out[1] = m_ports[i]
    BY <1>2, <2>3
  <2>6. m_ports[i].first # m_ports[in].first
    BY <2>1
  <2>7. \A d \in Device : f.dst = HostAddress[d] => m_ports[i].first = d
    BY <1>1, <2>1, HostAssumption
  <2> QED
    BY <1>2, <2>2, <2>4, <2>5, <2>6, <2>7
<1> QED
  BY <1>3, <1>4


-----------------------------------------------------------------------------
(* The invariant.                                                          *)

\* The ports are the devices installed so far, in their order; hosts send when all are.
PortsOK == /\ Dev!DeviceInv
           /\ Len(m_ports) <= Len(Devices)
           /\ \A i \in 1..Len(m_ports) : m_ports[i].first = Devices[i]
           /\ sent # <<>> => Len(m_ports) = Len(Devices)

\* Nobody writes to himself, and what is on a link was sent by the host at its end.
FramesOK == /\ sent \in Seq(Frame)
            /\ \A id \in 1..Len(sent) : sent[id].src # sent[id].dst
            /\ toSwitch \in [Device -> Seq(1..Len(sent))]
            /\ \A d \in Device : \A k \in 1..Len(toSwitch[d]) :
                 sent[toSwitch[d][k]].src = HostAddress[d]

Outcome == [id : 1..Len(sent), dev : Device, handled : BOOLEAN, out : Seq(Device)]

\* A host whose frame the program got is known, and is behind the port it came in on.
OutcomesOK == /\ outcome \in Seq(Outcome)
              /\ \A i \in 1..Len(outcome) :
                   /\ sent[outcome[i].id].src = HostAddress[outcome[i].dev]
                   /\ outcome[i].handled => Knows(m_tables, sent[outcome[i].id].src)

\* One outcome's part in ReachesDestination, without counting; f is its frame.
Reaches(o, f) ==
  o.handled =>
    /\ \A k \in 1..Len(o.out) : o.out[k] # o.dev
    /\ \A k, l \in 1..Len(o.out) : k # l => o.out[k] # o.out[l]
    /\ \A d \in Device \ {o.dev} :
         f.dst \in {HostAddress[d], Broadcast} => \E k \in 1..Len(o.out) : o.out[k] = d

\* And two outcomes' part in FloodedOnlyUntilLearned; f and g are their frames.
OnlyTo(o, p, f, g) == o.handled /\ g.dst = f.src => \A k \in 1..Len(p.out) : p.out[k] = o.dev

SentWell ==
  /\ \A i \in 1..Len(outcome) : Reaches(outcome[i], sent[outcome[i].id])
  /\ \A i, j \in 1..Len(outcome) :
       i < j => OnlyTo(outcome[i], outcome[j], sent[outcome[i].id], sent[outcome[j].id])

L2Inv == PortsOK /\ TablesOK(m_tables) /\ WhereSeen(m_tables) /\ FramesOK /\ OutcomesOK /\ SentWell

\* Once a frame has been sent every device is a port.
LEMMA EveryDeviceIsPort ==
  ASSUME PortsOK, Len(m_ports) = Len(Devices), NEW d \in Device
  PROVE  \E i \in 1..Len(m_ports) : m_ports[i].first = d
<1>1. PICK i \in 1..Len(Devices) : Devices[i] = d
  <2>1. d \in ToSet(Devices) /\ DOMAIN Devices = 1..Len(Devices)
    BY HostAssumption, LenProperties
  <2> QED
    BY <2>1 DEF ToSet
<1> QED
  BY <1>1 DEF PortsOK

\* What the switch makes of the frame that has reached it on dev's link.
LEMMA Handled ==
  ASSUME L2Inv, NEW dev \in Device, Handle(dev)
  PROVE  \E o \in Outcome :
           /\ outcome' = Append(outcome, o) /\ o.dev = dev /\ o.id = Head(toSwitch[dev])
           /\ sent[o.id].src = HostAddress[dev]
           /\ TablesOK(m_tables') /\ WhereSeen(m_tables')
           /\ \A a \in Address : Knows(m_tables, a) => Knows(m_tables', a)
           /\ o.handled => Knows(m_tables', sent[o.id].src)
           /\ Reaches(o, sent[o.id])
           /\ \A d \in Device : Knows(m_tables, sent[o.id].dst) /\ sent[o.id].dst = HostAddress[d]
                => \A k \in 1..Len(o.out) : o.out[k] = d
           /\ m_ports' = m_ports /\ Dev!DeviceInv' /\ Switch!Next
<1> DEFINE id == Head(toSwitch[dev])
           f == sent[id]
           in == PortOf(m_ports, dev)
           U == apply_table_smac(m_tables, f, m_ports[in].second)
           egress == apply_table_dmac(U, f)
           outs == Dev!Egress(m_ports, m_ports[in].second, egress)
           e == last'[1]
           o == [id |-> id, dev |-> dev, handled |-> e.handled,
                 out |-> [i \in DOMAIN e.out |-> e.out[i].first]]
<1>1. /\ toSwitch[dev] # <<>>
      /\ Switch!ReceiveFromDevice(dev, Switch!PacketTypeOf(dev, f.dst), f.dst, egress, FALSE)
      /\ m_tables' = IF e.handled THEN U ELSE m_tables
      /\ outcome' = Append(outcome, o)
  BY DEF Handle
<1>2. id \in 1..Len(sent) /\ f.src = HostAddress[dev]
  <2>1. toSwitch[dev] \in Seq(1..Len(sent))
    BY DEF L2Inv, FramesOK
  <2>2. id = toSwitch[dev][1] /\ 1 \in 1..Len(toSwitch[dev])
    BY <1>1, <2>1, EmptySeq, LenProperties
  <2> HIDE DEF id
  <2> QED
    BY <2>1, <2>2, ElementOfSeq DEF L2Inv, FramesOK
<1> HIDE DEF id
<1>3. f \in Frame /\ f.src # f.dst /\ f.dst \in Address
  <2>1. sent \in Seq(Frame) /\ f.src # f.dst
    BY <1>2 DEF L2Inv, FramesOK
  <2>2. f \in Frame
    BY <1>2, <2>1, ElementOfSeq
  <2> QED
    BY <2>1, <2>2 DEF Frame
<1> HIDE DEF f
<1>4. Len(m_ports) = Len(Devices)
  BY <1>2, EmptySeq DEF L2Inv, PortsOK
<1>5. in \in 1..Len(m_ports) /\ m_ports[in].first = dev
  BY <1>4, EveryDeviceIsPort, PortOfDevice DEF L2Inv
<1> HIDE DEF in
<1>6. TablesOK(U) /\ WhereSeen(U) /\ Knows(U, f.src)
      /\ \A a \in Address : Knows(m_tables, a) => Knows(U, a)
  BY <1>2, <1>3, <1>5, SourceLearned DEF L2Inv, PortsOK
<1> HIDE DEF U
<1>7. \A d \in Device : \E i \in 1..Len(m_ports) : m_ports[i].first = d
  BY <1>4, EveryDeviceIsPort DEF L2Inv
<1>8. /\ egress \in EgressPort
      /\ outs \in Seq(Port)
      /\ \A k, l \in 1..Len(outs) : k # l => outs[k].first # outs[l].first
      /\ \A k \in 1..Len(outs) : outs[k].first # dev
      /\ \A d \in Device \ {dev} :
           f.dst \in {HostAddress[d], Broadcast} => \E k \in 1..Len(outs) : outs[k].first = d
      /\ \A d \in Device :
           Knows(U, f.dst) /\ f.dst = HostAddress[d] => \A k \in 1..Len(outs) : outs[k].first = d
  BY <1>2, <1>3, <1>5, <1>6, <1>7, Directed DEF L2Inv, PortsOK
<1> HIDE DEF egress
<1>9. Dev!ReceiveFromDevice(dev, Dev!PacketTypeOf(dev, f.dst), f.dst, egress, FALSE)
  BY <1>1, SameActions
<1>10. /\ m_ports' = m_ports
       /\ e.handled \in BOOLEAN
       /\ e.out = IF e.handled THEN outs ELSE <<>>
  <2>1. in = Dev!PortOf(m_ports, dev)
    BY SameSwitch DEF in
  <2> QED
    BY <1>9, <2>1 DEF Dev!ReceiveFromDevice, Dev!GoesThrough
<1>11. Dev!DeviceInv' /\ Switch!Next
  <2>1. FALSE \in BOOLEAN
    OBVIOUS
  <2>2. Dev!Next
    BY <1>3, <1>8, <1>9, <2>1 DEF Dev!Next
  <2>3. Switch!Next
    BY <1>1, <1>3, <1>8, <2>1 DEF Switch!Next
  <2> QED
    BY <2>2, <2>3, DeviceStep DEF L2Inv, PortsOK
<1> HIDE DEF outs, e
<1>12. /\ e.out \in Seq(Port) /\ Len(o.out) = Len(e.out)
       /\ \A k \in 1..Len(o.out) : o.out[k] = e.out[k].first
       /\ o.out \in Seq(Device)
  <2>1. e.out \in Seq(Port)
    BY <1>8, <1>10
  <2>2. Len(e.out) \in Nat /\ DOMAIN e.out = 1..Len(e.out)
        /\ \A i \in 1..Len(e.out) : e.out[i].first \in Device
    <3>1. Len(e.out) \in Nat /\ DOMAIN e.out = 1..Len(e.out)
      BY <2>1, LenProperties
    <3>2. \A i \in 1..Len(e.out) : e.out[i] \in Port
      BY <2>1, ElementOfSeq
    <3> QED
      BY <3>1, <3>2 DEF Port
  <2> QED
    BY <2>1, <2>2
<1>13. o.id = id /\ o.dev = dev /\ o.handled = e.handled
  OBVIOUS
<1>14. o \in Outcome
  BY <1>2, <1>10, <1>12 DEF Outcome
<1> HIDE DEF o
<1>15. sent[o.id] = f
  BY <1>13 DEF f
<1>16. Reaches(o, sent[o.id])
  <2> SUFFICES ASSUME o.handled PROVE Reaches(o, sent[o.id])
    BY DEF Reaches
  <2>1. e.out = outs
    BY <1>10, <1>13
  <2> QED
    BY <1>8, <1>12, <1>13, <1>15, <2>1 DEF Reaches
<1>17. \A d \in Device : Knows(m_tables, f.dst) /\ f.dst = HostAddress[d]
         => \A k \in 1..Len(o.out) : o.out[k] = d
  <2> SUFFICES ASSUME NEW d \in Device, Knows(m_tables, f.dst), f.dst = HostAddress[d],
                      NEW k \in 1..Len(o.out)
               PROVE  o.out[k] = d
    OBVIOUS
  <2>1. e.out # <<>>
    BY <1>12, EmptySeq
  <2>2. e.out = outs
    BY <1>10, <2>1
  <2> QED
    BY <1>3, <1>6, <1>8, <1>12, <2>2
<1>18. /\ TablesOK(m_tables') /\ WhereSeen(m_tables')
       /\ \A a \in Address : Knows(m_tables, a) => Knows(m_tables', a)
       /\ o.handled => Knows(m_tables', f.src)
  BY <1>1, <1>6, <1>13 DEF L2Inv
<1> QED
  BY <1>1, <1>2, <1>10, <1>11, <1>13, <1>14, <1>15, <1>16, <1>17, <1>18 DEF id


\* What has been handled stays as it was when more is sent or learned.
LEMMA OutcomesKept ==
  ASSUME L2Inv, Len(sent') \in Nat, Len(sent) <= Len(sent'),
         \A id \in 1..Len(sent) : sent'[id] = sent[id],
         \A a \in Address : Knows(m_tables, a) => Knows(m_tables', a)
  PROVE  /\ outcome \in Seq(Outcome')
         /\ \A i \in 1..Len(outcome) :
              /\ outcome[i].id \in 1..Len(sent) /\ outcome[i].id \in 1..Len(sent')
              /\ sent'[outcome[i].id].src = HostAddress[outcome[i].dev]
              /\ outcome[i].handled => Knows(m_tables', sent'[outcome[i].id].src)
              /\ Reaches(outcome[i], sent'[outcome[i].id])
         /\ \A i, j \in 1..Len(outcome) :
              i < j => OnlyTo(outcome[i], outcome[j],
                              sent'[outcome[i].id], sent'[outcome[j].id])
<1>1. outcome \in Seq(Outcome) /\ sent \in Seq(Frame) /\ Len(sent) \in Nat
  <2>1. outcome \in Seq(Outcome) /\ sent \in Seq(Frame)
    BY DEF L2Inv, OutcomesOK, FramesOK
  <2> QED
    BY <2>1, LenProperties
<1>2. Outcome \subseteq Outcome'
  BY <1>1 DEF Outcome
<1>3. outcome \in Seq(Outcome')
  BY <1>1, <1>2
<1>4. \A i \in 1..Len(outcome) : outcome[i].id \in 1..Len(sent)
  <2>1. \A i \in 1..Len(outcome) : outcome[i] \in Outcome
    BY <1>1, ElementOfSeq
  <2> QED
    BY <2>1 DEF Outcome
<1>5. \A i \in 1..Len(outcome) : /\ outcome[i].id \in 1..Len(sent')
                                 /\ sent'[outcome[i].id] = sent[outcome[i].id]
                                 /\ sent[outcome[i].id] \in Frame
  BY <1>1, <1>4, ElementOfSeq
<1>6. \A i \in 1..Len(outcome) :
        /\ sent[outcome[i].id].src = HostAddress[outcome[i].dev]
        /\ outcome[i].handled => Knows(m_tables, sent[outcome[i].id].src)
  BY DEF L2Inv, OutcomesOK
<1>7. \A i \in 1..Len(outcome) : sent[outcome[i].id].src \in Address
  BY <1>5 DEF Frame
<1>8. \A i \in 1..Len(outcome) : /\ Reaches(outcome[i], sent'[outcome[i].id])
                                 /\ \A j \in 1..Len(outcome) :
                                      i < j => OnlyTo(outcome[i], outcome[j],
                                                 sent'[outcome[i].id], sent'[outcome[j].id])
  BY <1>5 DEF L2Inv, SentWell
<1> QED
  BY <1>3, <1>4, <1>5, <1>6, <1>7, <1>8

\* Nothing is known, sent or handled yet.
LEMMA InitL2 == Init => L2Inv
<1> SUFFICES ASSUME Init PROVE L2Inv
  OBVIOUS
<1>1. /\ m_ports = <<>> /\ sent = <<>> /\ outcome = <<>> /\ m_tables = init_tables_v1
      /\ toSwitch = [d \in Device |-> <<>>]
  BY SameActions DEF Init, Dev!Init
<1>2. Len(<<>>) = 0 /\ Len(Devices) \in Nat
  BY EmptySeq, LenProperties, HostAssumption
<1>3. PortsOK
  BY <1>1, <1>2, SameActions, DeviceInit DEF Init, PortsOK
<1>4. TablesOK(m_tables) /\ WhereSeen(m_tables)
  BY <1>1, InitialTables DEF WhereSeen
<1>5. FramesOK
  BY <1>1, <1>2 DEF FramesOK
<1>6. OutcomesOK /\ SentWell
  BY <1>1, <1>2 DEF OutcomesOK, SentWell
<1> QED
  BY <1>3, <1>4, <1>5, <1>6 DEF L2Inv

\* The next device becomes a port, if the switch has room for it.
LEMMA InstallL2 == ASSUME L2Inv, Install PROVE L2Inv'
<1>1. /\ Len(m_ports) < Len(Devices) /\ UNCHANGED <<m_tables, sent, toSwitch, outcome>>
      /\ Dev!AddSwitchPort(Devices[Len(m_ports) + 1])
  BY SameActions DEF Install
<1>2. Len(m_ports) \in Nat /\ Len(Devices) \in Nat /\ m_ports \in Seq(Port)
  <2>1. m_ports \in Seq(Port)
    BY DEF L2Inv, PortsOK, Dev!DeviceInv, Dev!Numbered, Dev!Port, Port
  <2> QED
    BY <2>1, LenProperties, HostAssumption
<1>3. Devices[Len(m_ports) + 1] \in Device
  <2>1. Len(m_ports) + 1 \in 1..Len(Devices)
    BY <1>1, <1>2
  <2> QED
    BY <2>1, ElementOfSeq, HostAssumption
<1>4. Dev!DeviceInv'
  <2>1. Dev!Next
    BY <1>1, <1>3 DEF Dev!Next
  <2> QED
    BY <2>1, DeviceStep DEF L2Inv, PortsOK
<1>5. /\ Len(m_ports') \in {Len(m_ports), Len(m_ports) + 1}
      /\ \A i \in 1..Len(m_ports) : m_ports'[i] = m_ports[i]
      /\ \A i \in 1..Len(m_ports') : m_ports'[i].first = Devices[i]
  <2> DEFINE port == [first |-> Devices[Len(m_ports) + 1], second |-> Dev!NewPortNumber(m_ports)]
  <2>1. m_ports' = m_ports \/ m_ports' = Append(m_ports, port)
    BY <1>1 DEF Dev!AddSwitchPort
  <2>2. CASE m_ports' = m_ports
    BY <1>2, <2>2 DEF L2Inv, PortsOK
  <2>3. CASE m_ports' = Append(m_ports, port)
    <3>1. port.first = Devices[Len(m_ports) + 1]
      OBVIOUS
    <3> HIDE DEF port
    <3>2. /\ Len(m_ports') = Len(m_ports) + 1
          /\ \A i \in 1..Len(m_ports) : m_ports'[i] = m_ports[i]
          /\ m_ports'[Len(m_ports) + 1] = port
      BY <1>2, <2>3, AppendProperties
    <3>3. \A i \in 1..Len(m_ports) : m_ports[i].first = Devices[i]
      BY DEF L2Inv, PortsOK
    <3> QED
      BY <1>2, <3>1, <3>2, <3>3
  <2> QED
    BY <2>1, <2>2, <2>3
<1>6. PortsOK'
  BY <1>1, <1>2, <1>4, <1>5 DEF L2Inv, PortsOK
<1>7. TablesOK(m_tables)' /\ FramesOK'
  BY <1>1 DEF L2Inv, FramesOK, TablesOK
<1>8. WhereSeen(m_tables)'
  <2> SUFFICES ASSUME NEW a \in Address
               PROVE  \/ Lookup(m_tables.smac, a) = "mac_learn" /\ Lookup(m_tables.dmac, a) = bcast
                      \/ /\ a # Broadcast /\ Lookup(m_tables.smac, a) = "_nop"
                         /\ \E i \in 1..Len(m_ports') :
                              /\ Lookup(m_tables.dmac, a) = forward(m_ports'[i].second)
                              /\ HostAddress[m_ports'[i].first] = a
    BY <1>1 DEF WhereSeen
  <2>1. \A i \in 1..Len(m_ports) : i \in 1..Len(m_ports') /\ m_ports'[i] = m_ports[i]
    BY <1>2, <1>5
  <2> QED
    BY <2>1 DEF L2Inv, WhereSeen
<1>9. OutcomesOK' /\ SentWell'
  <2>1. Len(sent) \in Nat
    BY LenProperties DEF L2Inv, FramesOK
  <2> QED
    BY <1>1, <2>1, OutcomesKept DEF OutcomesOK, SentWell
<1> QED
  BY <1>6, <1>7, <1>8, <1>9 DEF L2Inv


\* One more frame is under way.
LEMMA SendL2 ==
  ASSUME L2Inv, NEW dev \in Device, NEW dst \in Dst, Send(dev, dst)
  PROVE  L2Inv'
<1> DEFINE f == [src |-> HostAddress[dev], dst |-> dst]
<1>1. /\ Len(m_ports) = Len(Devices) /\ f.src # f.dst /\ f \in Frame /\ sent' = Append(sent, f)
      /\ toSwitch' = [toSwitch EXCEPT ![dev] = Append(@, Len(sent'))]
      /\ UNCHANGED <<m_ports, m_address, m_drop, last, m_tables, outcome>>
  BY HostAssumption DEF Send, switchVars, Frame
<1>2. f.src = HostAddress[dev]
  OBVIOUS
<1> HIDE DEF f
<1>3. sent \in Seq(Frame) /\ Len(sent) \in Nat
  <2>1. sent \in Seq(Frame)
    BY DEF L2Inv, FramesOK
  <2> QED
    BY <2>1, LenProperties
<1>4. /\ sent' \in Seq(Frame) /\ Len(sent') = Len(sent) + 1
      /\ \A id \in 1..Len(sent) : sent'[id] = sent[id]
      /\ sent'[Len(sent) + 1] = f
  BY <1>1, <1>3, AppendProperties
<1>5. Dev!DeviceInv'
  BY <1>1, DeviceStep DEF L2Inv, PortsOK, Dev!vars
<1>6. PortsOK'
  BY <1>1, <1>5 DEF L2Inv, PortsOK
<1>7. TablesOK(m_tables)' /\ WhereSeen(m_tables)'
  BY <1>1 DEF L2Inv, TablesOK, WhereSeen
<1>8. FramesOK'
  <2>1. \A id \in 1..Len(sent') : sent'[id].src # sent'[id].dst
    <3>1. \A id \in 1..Len(sent') : id = Len(sent) + 1 \/ id \in 1..Len(sent)
      BY <1>3, <1>4
    <3> QED
      BY <1>1, <1>4, <3>1 DEF L2Inv, FramesOK
  <2>2. ASSUME NEW d \in Device
        PROVE  /\ toSwitch'[d] \in Seq(1..Len(sent'))
               /\ \A k \in 1..Len(toSwitch'[d]) : sent'[toSwitch'[d][k]].src = HostAddress[d]
    <3>1. /\ toSwitch[d] \in Seq(1..Len(sent))
          /\ \A k \in 1..Len(toSwitch[d]) : sent[toSwitch[d][k]].src = HostAddress[d]
          /\ toSwitch'[d] = IF d = dev THEN Append(toSwitch[d], Len(sent) + 1) ELSE toSwitch[d]
      BY <1>1, <1>4 DEF L2Inv, FramesOK
    <3>2. /\ toSwitch[d] \in Seq(1..Len(sent')) /\ Len(toSwitch[d]) \in Nat
          /\ Len(sent) + 1 \in 1..Len(sent')
      <4>1. 1..Len(sent) \subseteq 1..Len(sent') /\ Len(sent) + 1 \in 1..Len(sent')
        BY <1>3, <1>4
      <4> QED
        BY <3>1, <4>1, LenProperties
    <3>3. \A k \in 1..Len(toSwitch[d]) : toSwitch[d][k] \in 1..Len(sent)
      BY <3>1, ElementOfSeq
    <3>4. CASE d = dev
      <4>1. toSwitch'[d] = Append(toSwitch[d], Len(sent) + 1)
        BY <3>1, <3>4
      <4>2. /\ toSwitch'[d] \in Seq(1..Len(sent')) /\ Len(toSwitch'[d]) = Len(toSwitch[d]) + 1
            /\ \A k \in 1..Len(toSwitch[d]) : toSwitch'[d][k] = toSwitch[d][k]
            /\ toSwitch'[d][Len(toSwitch[d]) + 1] = Len(sent) + 1
        BY <3>2, <4>1, AppendProperties
      <4>3. \A k \in 1..Len(toSwitch'[d]) :
              k = Len(toSwitch[d]) + 1 \/ k \in 1..Len(toSwitch[d])
        BY <3>2, <4>2
      <4>4. \A k \in 1..Len(toSwitch'[d]) : sent'[toSwitch'[d][k]].src = HostAddress[d]
        BY <1>2, <1>4, <3>1, <3>3, <3>4, <4>2, <4>3
      <4> QED
        BY <4>2, <4>4
    <3>5. CASE d # dev
      BY <1>4, <3>1, <3>2, <3>3, <3>5
    <3> QED
      BY <3>4, <3>5
  <2>3. toSwitch' \in [Device -> Seq(1..Len(sent'))]
    <3>1. toSwitch' = [d \in Device |-> toSwitch'[d]]
      BY <1>1 DEF L2Inv, FramesOK
    <3> QED
      BY <2>2, <3>1
  <2> QED
    BY <1>4, <2>1, <2>2, <2>3 DEF FramesOK
<1>9. OutcomesOK' /\ SentWell'
  BY <1>1, <1>3, <1>4, OutcomesKept DEF OutcomesOK, SentWell
<1> QED
  BY <1>6, <1>7, <1>8, <1>9 DEF L2Inv


\* One frame is handled: its outcome joins those there are.
LEMMA HandleL2 ==
  ASSUME L2Inv, NEW dev \in Device, Handle(dev)
  PROVE  L2Inv'
<1>1. PICK o \in Outcome :
        /\ outcome' = Append(outcome, o) /\ o.dev = dev /\ o.id = Head(toSwitch[dev])
        /\ sent[o.id].src = HostAddress[dev]
        /\ TablesOK(m_tables') /\ WhereSeen(m_tables')
        /\ \A a \in Address : Knows(m_tables, a) => Knows(m_tables', a)
        /\ o.handled => Knows(m_tables', sent[o.id].src)
        /\ Reaches(o, sent[o.id])
        /\ \A d \in Device : Knows(m_tables, sent[o.id].dst) /\ sent[o.id].dst = HostAddress[d]
             => \A k \in 1..Len(o.out) : o.out[k] = d
        /\ m_ports' = m_ports /\ Dev!DeviceInv'
  BY Handled
<1>2. sent' = sent /\ toSwitch' = [toSwitch EXCEPT ![dev] = Tail(@)] /\ toSwitch[dev] # <<>>
  BY DEF Handle
<1>3. Len(sent) \in Nat /\ sent \in Seq(Frame) /\ o.id \in 1..Len(sent)
  <2>1. sent \in Seq(Frame)
    BY DEF L2Inv, FramesOK
  <2> QED
    BY <2>1, LenProperties DEF Outcome
<1>4. PortsOK'
  BY <1>1, <1>2 DEF L2Inv, PortsOK
<1>5. TablesOK(m_tables)' /\ WhereSeen(m_tables)'
  BY <1>1 DEF TablesOK, WhereSeen
<1>6. FramesOK'
  <2>1. ASSUME NEW d \in Device
        PROVE  /\ toSwitch'[d] \in Seq(1..Len(sent))
               /\ \A k \in 1..Len(toSwitch'[d]) : sent[toSwitch'[d][k]].src = HostAddress[d]
    <3>1. /\ toSwitch[d] \in Seq(1..Len(sent))
          /\ \A k \in 1..Len(toSwitch[d]) : sent[toSwitch[d][k]].src = HostAddress[d]
          /\ toSwitch'[d] = IF d = dev THEN Tail(toSwitch[d]) ELSE toSwitch[d]
      BY <1>2 DEF L2Inv, FramesOK
    <3>2. CASE d = dev
      <4>1. toSwitch'[d] = Tail(toSwitch[d]) /\ toSwitch[d] # <<>>
        BY <1>2, <3>1, <3>2
      <4>2. /\ toSwitch'[d] \in Seq(1..Len(sent)) /\ Len(toSwitch'[d]) = Len(toSwitch[d]) - 1
            /\ \A k \in 1..Len(toSwitch'[d]) : toSwitch'[d][k] = toSwitch[d][k + 1]
        <5> DEFINE s == toSwitch[d]
        <5>1. s \in Seq(1..Len(sent)) /\ s # <<>>
          BY <3>1, <4>1
        <5>2. toSwitch'[d] = Tail(s)
          BY <4>1
        <5> HIDE DEF s
        <5>3. /\ Tail(s) \in Seq(1..Len(sent)) /\ Len(Tail(s)) = Len(s) - 1
              /\ \A k \in 1..Len(Tail(s)) : Tail(s)[k] = s[k + 1]
          BY <5>1, HeadTailProperties
        <5>4. /\ toSwitch'[d] \in Seq(1..Len(sent)) /\ Len(toSwitch'[d]) = Len(s) - 1
              /\ \A k \in 1..Len(toSwitch'[d]) : toSwitch'[d][k] = s[k + 1]
          BY <5>2, <5>3
        <5> QED
          BY <5>4 DEF s
      <4>3. \A k \in 1..Len(toSwitch'[d]) : k + 1 \in 1..Len(toSwitch[d])
        <5>1. Len(toSwitch[d]) \in Nat
          BY <3>1, LenProperties
        <5> QED
          BY <4>2, <5>1
      <4> QED
        BY <3>1, <4>2, <4>3
    <3>3. CASE d # dev
      BY <3>1, <3>3
    <3> QED
      BY <3>2, <3>3
  <2>2. toSwitch' = [d \in Device |-> toSwitch'[d]]
    BY <1>2 DEF L2Inv, FramesOK
  <2>3. toSwitch' \in [Device -> Seq(1..Len(sent))]
    BY <2>1, <2>2
  <2> QED
    BY <1>2, <2>1, <2>3 DEF L2Inv, FramesOK
<1>7. OutcomesOK' /\ SentWell'
  <2> DEFINE n == Len(outcome)
  <2>1. /\ outcome \in Seq(Outcome')
        /\ \A i \in 1..n :
             /\ sent[outcome[i].id].src = HostAddress[outcome[i].dev]
             /\ outcome[i].handled => Knows(m_tables', sent[outcome[i].id].src)
             /\ Reaches(outcome[i], sent[outcome[i].id])
        /\ \A i, j \in 1..n :
             i < j => OnlyTo(outcome[i], outcome[j], sent[outcome[i].id], sent[outcome[j].id])
    <3>1. \A id \in 1..Len(sent) : sent'[id] = sent[id]
      BY <1>2
    <3> QED
      BY <1>1, <1>2, <1>3, <3>1, OutcomesKept
  <2>2. n \in Nat
    BY <2>1, LenProperties
  <2>3. o \in Outcome'
    BY <1>2 DEF Outcome
  <2> HIDE DEF n
  <2>4. /\ outcome' \in Seq(Outcome') /\ Len(outcome') = n + 1
        /\ \A i \in 1..n : outcome'[i] = outcome[i]
        /\ outcome'[n + 1] = o
    BY <1>1, <2>1, <2>3, AppendProperties DEF n
  <2>5. \A i \in 1..n : OnlyTo(outcome[i], o, sent[outcome[i].id], sent[o.id])
    <3> SUFFICES ASSUME NEW i \in 1..n, outcome[i].handled,
                        sent[o.id].dst = sent[outcome[i].id].src
                 PROVE  \A k \in 1..Len(o.out) : o.out[k] = outcome[i].dev
      BY DEF OnlyTo
    <3>1. /\ outcome[i] \in Outcome
          /\ sent[outcome[i].id].src = HostAddress[outcome[i].dev]
          /\ Knows(m_tables, sent[outcome[i].id].src)
      BY ElementOfSeq DEF L2Inv, OutcomesOK, n
    <3>2. outcome[i].dev \in Device
      BY <3>1 DEF Outcome
    <3> QED
      BY <1>1, <3>1, <3>2
  <2>6. \A i \in 1..(n + 1) : i = n + 1 \/ i \in 1..n
    BY <2>2
  <2>7. OutcomesOK'
    <3>1. \A i \in 1..(n + 1) :
            /\ sent[outcome'[i].id].src = HostAddress[outcome'[i].dev]
            /\ outcome'[i].handled => Knows(m_tables', sent[outcome'[i].id].src)
      BY <1>1, <2>1, <2>4, <2>6
    <3> QED
      BY <1>2, <2>4, <3>1 DEF OutcomesOK
  <2>8. SentWell'
    <3>1. \A i \in 1..(n + 1) : Reaches(outcome'[i], sent[outcome'[i].id])
      BY <1>1, <2>1, <2>4, <2>6
    <3>2. ASSUME NEW i \in 1..(n + 1), NEW j \in 1..(n + 1), i < j
          PROVE  OnlyTo(outcome'[i], outcome'[j], sent[outcome'[i].id], sent[outcome'[j].id])
      <4>1. i \in 1..n
        BY <2>2, <3>2
      <4> QED
        BY <2>1, <2>4, <2>5, <2>6, <3>2, <4>1
    <3> QED
      BY <1>2, <2>4, <3>1, <3>2 DEF SentWell
  <2> QED
    BY <2>7, <2>8
<1> QED
  BY <1>4, <1>5, <1>6, <1>7 DEF L2Inv

\* Whatever happens next, all of it stays true.
LEMMA NextL2 == L2Inv /\ [Next]_vars => L2Inv'
<1> SUFFICES ASSUME L2Inv, [Next]_vars PROVE L2Inv'
  OBVIOUS
<1>1. CASE Install
  BY <1>1, InstallL2
<1>2. ASSUME NEW dev \in Device, NEW dst \in Dst, Send(dev, dst)
      PROVE  L2Inv'
  BY <1>2, SendL2
<1>3. ASSUME NEW dev \in Device, Handle(dev)
      PROVE  L2Inv'
  BY <1>3, HandleL2
<1>4. CASE UNCHANGED vars
  <2>1. UNCHANGED <<m_ports, m_address, m_drop, last, m_tables, sent, toSwitch, outcome>>
    BY <1>4 DEF vars
  <2>2. Dev!DeviceInv'
    BY <2>1, DeviceStep DEF L2Inv, PortsOK, Dev!vars
  <2>3. PortsOK' /\ TablesOK(m_tables)' /\ WhereSeen(m_tables)' /\ FramesOK'
    BY <2>1, <2>2 DEF L2Inv, PortsOK, TablesOK, WhereSeen, FramesOK
  <2>4. OutcomesOK' /\ SentWell'
    <3>1. Len(sent) \in Nat
      BY LenProperties DEF L2Inv, FramesOK
    <3> QED
      BY <2>1, <3>1, OutcomesKept DEF OutcomesOK, SentWell
  <2> QED
    BY <2>3, <2>4 DEF L2Inv
<1> QED
  BY <1>1, <1>2, <1>3, <1>4 DEF Next


-----------------------------------------------------------------------------
(* What follows.                                                           *)

\* The domains the properties quantify over.
LEMMA Domains ==
  ASSUME L2Inv
  PROVE  /\ DOMAIN outcome = 1..Len(outcome)
         /\ \A i \in 1..Len(outcome) : /\ outcome[i] \in Outcome
                                       /\ outcome[i].dev \in Device
                                       /\ DOMAIN outcome[i].out = 1..Len(outcome[i].out)
                                       /\ Len(outcome[i].out) \in Nat
<1>1. outcome \in Seq(Outcome)
  BY DEF L2Inv, OutcomesOK
<1>2. DOMAIN outcome = 1..Len(outcome) /\ \A i \in 1..Len(outcome) : outcome[i] \in Outcome
  BY <1>1, LenProperties, ElementOfSeq
<1>3. ASSUME NEW i \in 1..Len(outcome)
      PROVE  /\ outcome[i].dev \in Device
             /\ DOMAIN outcome[i].out = 1..Len(outcome[i].out) /\ Len(outcome[i].out) \in Nat
  <2>1. outcome[i].dev \in Device /\ outcome[i].out \in Seq(Device)
    BY <1>2 DEF Outcome
  <2> QED
    BY <2>1, LenProperties
<1> QED
  BY <1>2, <1>3

\* The types.
LEMMA InvTyped == L2Inv => TypeOK
<1> SUFFICES ASSUME L2Inv PROVE TypeOK
  OBVIOUS
<1>1. Switch!TypeOK
  BY SameActions DEF L2Inv, PortsOK, Dev!DeviceInv
<1>2. /\ Smac!Entry = [key : List!Key, value : smac_action]
      /\ Dmac!Entry = [key : List!Key, value : dmac_action]
  BY DEF Smac!Entry, Dmac!Entry, Smac!Key, Dmac!Key, List!Key
<1>3. /\ m_tables.smac \in [entries : Seq(Smac!Entry), default_val : {"mac_learn"}]
      /\ m_tables.dmac \in [entries : Seq(Dmac!Entry), default_val : {bcast}]
  BY DEF L2Inv, TablesOK
<1>4. /\ m_tables.smac \in [entries : Seq(Smac!Entry), default_val : smac_action]
      /\ m_tables.dmac \in [entries : Seq(Dmac!Entry), default_val : dmac_action]
  BY <1>3, Actions
<1> QED
  BY <1>1, <1>2, <1>4 DEF TypeOK, L2Inv, FramesOK, OutcomesOK, Outcome

\* Sent to each device at most once, a frame leaves on one port for each device it reaches.
LEMMA InvReaches == L2Inv => ReachesDestination
<1> SUFFICES ASSUME L2Inv PROVE ReachesDestination
  OBVIOUS
<1> SUFFICES ASSUME NEW i \in 1..Len(outcome), outcome[i].handled
             PROVE  /\ Cardinality({k \in DOMAIN outcome[i].out :
                                      outcome[i].out[k] = outcome[i].dev}) = 0
                    /\ \A d \in Device \ {outcome[i].dev} :
                         sent[outcome[i].id].dst \in {HostAddress[d], Broadcast} =>
                           Cardinality({k \in DOMAIN outcome[i].out : outcome[i].out[k] = d}) = 1
  BY Domains DEF ReachesDestination
<1> DEFINE o == outcome[i]
           Ks(d) == {k \in DOMAIN o.out : o.out[k] = d}
<1>1. /\ DOMAIN o.out = 1..Len(o.out)
      /\ \A k \in 1..Len(o.out) : o.out[k] # o.dev
      /\ \A k, l \in 1..Len(o.out) : k # l => o.out[k] # o.out[l]
      /\ \A d \in Device \ {o.dev} :
           sent[o.id].dst \in {HostAddress[d], Broadcast} => \E k \in 1..Len(o.out) : o.out[k] = d
  BY Domains DEF L2Inv, SentWell, Reaches
<1> HIDE DEF o
<1>2. Cardinality(Ks(o.dev)) = 0
  <2>1. Ks(o.dev) = {}
    BY <1>1
  <2> QED
    BY <2>1, FS_EmptySet
<1>3. ASSUME NEW d \in Device \ {o.dev}, sent[o.id].dst \in {HostAddress[d], Broadcast}
      PROVE  Cardinality(Ks(d)) = 1
  <2>1. PICK k \in 1..Len(o.out) : o.out[k] = d
    BY <1>1, <1>3
  <2>2. Ks(d) = {k}
    BY <1>1, <2>1
  <2> QED
    BY <2>2, FS_Singleton
<1> QED
  BY <1>2, <1>3 DEF o

\* SentWell says it of the frames.
LEMMA InvFlooded == L2Inv => FloodedOnlyUntilLearned
<1> SUFFICES ASSUME L2Inv, NEW i \in DOMAIN outcome, NEW j \in DOMAIN outcome,
                    i < j, outcome[i].handled,
                    sent[outcome[j].id].dst = sent[outcome[i].id].src,
                    NEW k \in DOMAIN outcome[j].out
             PROVE  outcome[j].out[k] = outcome[i].dev
  BY DEF FloodedOnlyUntilLearned
<1>1. i \in 1..Len(outcome) /\ j \in 1..Len(outcome) /\ k \in 1..Len(outcome[j].out)
  BY Domains
<1> QED
  BY <1>1 DEF L2Inv, SentWell, OnlyTo

\* The tables' invariant is stronger than what the property asks.
LEMMA InvLearned == L2Inv => LearnedWhereSeen
<1> SUFFICES ASSUME L2Inv PROVE LearnedWhereSeen
  OBVIOUS
<1>1. m_ports \in Seq(Port)
  BY DEF L2Inv, PortsOK, Dev!DeviceInv, Dev!Numbered, Dev!Port, Port
<1> QED
  BY <1>1, WhereSeenLearned DEF L2Inv

\* Every reachable state has its types: tables, ports, frames and outcomes.
THEOREM TypeCorrect == Spec => []TypeOK
BY InitL2, NextL2, InvTyped, PTL DEF Spec

\* However frames overtake each other: a host is known to both tables or to neither, and if
\* known, then behind the port its frames came in on.
THEOREM LearnsWhereSeen == Spec => []LearnedWhereSeen
BY InitL2, NextL2, InvLearned, PTL DEF Spec

\* A frame the program handles leaves exactly once towards whom it is for, and never towards
\* its sender.
THEOREM AlwaysReaches == Spec => []ReachesDestination
BY InitL2, NextL2, InvReaches, PTL DEF Spec

\* After a host's first frame, what is for it leaves on its port only.
THEOREM FloodingStops == Spec => []FloodedOnlyUntilLearned
BY InitL2, NextL2, InvFlooded, PTL DEF Spec

-----------------------------------------------------------------------------
(* The learning switch is one of the devices of P4SwitchDevice.            *)

LEMMA SwitchStep == L2Inv /\ [Next]_vars => [Switch!Next]_(Switch!vars)
<1> SUFFICES ASSUME L2Inv, [Next]_vars PROVE [Switch!Next]_(Switch!vars)
  OBVIOUS
<1>1. CASE Install
  <2>1. Devices[Len(m_ports) + 1] \in Device
    <3>1. m_ports \in Seq(Dev!Port) /\ Devices \in Seq(Device)
      BY HostAssumption DEF L2Inv, PortsOK, Dev!DeviceInv, Dev!Numbered
    <3>2. Len(m_ports) + 1 \in 1..Len(Devices)
      BY <1>1, <3>1, LenProperties DEF Install
    <3> QED
      BY <3>1, <3>2, ElementOfSeq
  <2> QED
    BY <1>1, <2>1 DEF Install, Switch!Next
<1>2. ASSUME NEW dev \in Device, NEW dst \in Dst, Send(dev, dst) PROVE UNCHANGED Switch!vars
  BY <1>2 DEF Send, switchVars, Switch!vars
<1>3. ASSUME NEW dev \in Device, Handle(dev) PROVE Switch!Next
  BY <1>3, Handled
<1>4. CASE UNCHANGED vars
  BY <1>4 DEF vars, Switch!vars
<1> QED
  BY <1>1, <1>2, <1>3, <1>4 DEF Next

\* Every behaviour of the learning switch is one of P4SwitchDevice, whose data plane may choose
\* any egress port: whatever has been learned, the port that apply_table_dmac leaves in
\* egress_port is one the device expects.  So what is proved of the device holds of the switch.
THEOREM LearningSwitchIsDevice == Spec => Switch!Spec
<1>1. Init => Switch!Init
  BY DEF Init
<1> QED
  BY <1>1, InitL2, NextL2, SwitchStep, PTL DEF Spec, Switch!Spec

=============================================================================
