------------------------ MODULE P4SwitchDevice_proof -------------------------
(***************************************************************************)
(* Port numbering, where frames leave, and what becomes of frames for the  *)
(* switch's own address, for every number of ports and every broadcast     *)
(* port.                                                                   *)
(*                                                                         *)
(* PortNumbers is not inductive: that the numbers ascend says nothing of   *)
(* how large the last one is.  The invariant that is says exactly which    *)
(* number the i-th port has.  FloodOrUnicast speaks of devices where the   *)
(* code compares numbers: it needs that no device is two ports.            *)
(* OwnFramesLocal needs that the switch never takes a group address for    *)
(* its own.                                                                *)
(***************************************************************************)
EXTENDS P4SwitchDevice, SequenceTheorems, WellFoundedInduction, TLAPS

\* The number of the i-th port, for every list AddSwitchPort can build.
Nth(i) == IF i - 1 < BROADCAST_PORT THEN i - 1 ELSE i

Numbered == /\ m_ports \in Seq(Port)
            /\ Len(m_ports) <= MAX_PORTS
            /\ \A i \in 1..Len(m_ports) : m_ports[i].second = Nth(i)

\* A further port gets the next number of the sequence.
LEMMA NewPortNumberIsNth ==
  ASSUME Numbered
  PROVE  NewPortNumber(m_ports) = Nth(Len(m_ports) + 1) /\ NewPortNumber(m_ports) \in Nat
<1> DEFINE n == Len(m_ports)
<1>1. n \in Nat /\ BROADCAST_PORT \in Nat
  BY LenProperties, PortAssumption DEF Numbered
<1>2. CASE m_ports = <<>>
  <2>1. n = 0
    BY <1>2, EmptySeq
  <2> QED
    BY <1>1, <1>2, <2>1 DEF NewPortNumber, Nth
<1>3. CASE m_ports # <<>>
  <2>1. n \in 1..n
    BY <1>1, <1>3, EmptySeq DEF Numbered
  <2>2. Last(m_ports).second = Nth(n)
    BY <2>1 DEF Last, Numbered
  <2> HIDE DEF n
  <2>3. NewPortNumber(m_ports) = IF Nth(n) + 1 = BROADCAST_PORT THEN Nth(n) + 2 ELSE Nth(n) + 1
    BY <1>1, <1>3, <2>2 DEF NewPortNumber, Nth
  <2>4. NewPortNumber(m_ports) = Nth(n + 1) /\ NewPortNumber(m_ports) \in Nat
    BY <1>1, <2>1, <2>3 DEF Nth
  <2> QED
    BY <2>4 DEF n
<1> QED
  BY <1>2, <1>3

\* A switch without ports is numbered.
LEMMA InitNumbered == Init => Numbered
BY EmptySeq, PortAssumption DEF Init, Numbered

\* Only AddSwitchPort changes the list, and it appends at most one port.
LEMMA NextNumbered == Numbered /\ [Next]_vars => Numbered'
<1> SUFFICES ASSUME Numbered, [Next]_vars PROVE Numbered'
  OBVIOUS
<1>1. ASSUME NEW dev \in Device, AddSwitchPort(dev)
      PROVE  Numbered'
  <2> DEFINE port == [first |-> dev, second |-> NewPortNumber(m_ports)]
  <2>1. Len(m_ports) \in Nat /\ m_ports \in Seq(Port) /\ MAX_PORTS \in Nat
    BY LenProperties, PortAssumption DEF Numbered
  <2>2. CASE Len(m_ports) < MAX_PORTS
    <3>1. port \in Port /\ port.second = Nth(Len(m_ports) + 1)
      BY NewPortNumberIsNth DEF Port
    <3>2. m_ports' = Append(m_ports, port)
      BY <1>1, <2>2 DEF AddSwitchPort
    <3> HIDE DEF port
    <3>3. /\ m_ports' \in Seq(Port) /\ Len(m_ports') = Len(m_ports) + 1
          /\ \A i \in 1..Len(m_ports) : m_ports'[i] = m_ports[i]
          /\ m_ports'[Len(m_ports) + 1] = port
      BY <2>1, <3>1, <3>2
    <3> QED
      BY <2>1, <2>2, <3>1, <3>3 DEF Numbered, Nth
  <2>3. CASE ~ (Len(m_ports) < MAX_PORTS)
    BY <1>1, <2>3 DEF AddSwitchPort, Numbered, Nth
  <2> QED
    BY <2>2, <2>3
<1>2. ASSUME UNCHANGED m_ports
      PROVE  Numbered'
  BY <1>2 DEF Numbered, Nth
<1>3. (\E b \in BOOLEAN : SetPacketDrop(b)) \/ (\E a \in Address : SetAddress(a))
        => UNCHANGED m_ports
  BY DEF SetPacketDrop, SetAddress
<1>4. ASSUME NEW dev, NEW type, NEW dst, NEW egress, NEW dropped
      PROVE  ReceiveFromDevice(dev, type, dst, egress, dropped) => UNCHANGED m_ports
  BY DEF ReceiveFromDevice
<1>5. UNCHANGED vars => UNCHANGED m_ports
  BY DEF vars
<1> QED
  BY <1>1, <1>2, <1>3, <1>4, <1>5 DEF Next, SendFrom

\* The numbers Nth(1), Nth(2), ... ascend, avoid the broadcast port and stay small.
LEMMA NumberedPorts == Numbered => PortNumbers
<1> SUFFICES ASSUME Numbered PROVE PortNumbers
  OBVIOUS
<1>1. Len(m_ports) \in Nat /\ BROADCAST_PORT \in Nat /\ MAX_PORTS \in Nat
  BY LenProperties, PortAssumption DEF Numbered
<1> QED
  BY <1>1 DEF Numbered, PortNumbers, Nth

\* However many ports are added, no two have the same number, none has the number
\* that floods, and none needs more than MAX_PORTS as its number.
THEOREM PortsWellNumbered == Spec => []PortNumbers
BY InitNumbered, NextNumbered, NumberedPorts, PTL DEF Spec

-----------------------------------------------------------------------------
(* Frames for the switch's own address.                                    *)

\* A nonempty set of naturals has a least element, and Min names it.
LEMMA LeastNatural ==
  ASSUME NEW S \in SUBSET Nat, S # {}
  PROVE  Min(S) \in S /\ \A x \in S : Min(S) <= x
<1> DEFINE R == OpToRel(<, Nat)
<1>1. \A x, y \in Nat : <<x, y>> \in R <=> x < y
  <2>1. \A x, y \in Nat : <<x, y>> \in Nat \X Nat
    OBVIOUS
  <2> QED
    BY <2>1 DEF OpToRel
<1>2. IsWellFoundedOn(R, Nat)
  BY NatLessThanWellFounded
<1> HIDE DEF R
<1>3. \E x \in S : \A y \in S : ~ (<<y, x>> \in R)
  BY <1>2, WFMin
<1>4. \A x, y \in S : ~ (<<y, x>> \in R) => x <= y
  BY <1>1
<1>5. PICK x \in S : \A y \in S : x <= y
  BY <1>3, <1>4
<1> QED
  BY <1>5 DEF Min

\* The device's number in the list: that of a port with this device, if there is one.
LEMMA PortFound ==
  ASSUME NEW ports, NEW dev
  PROVE  /\ (\E i \in 1..Len(ports) : ports[i].first = dev) => PortOf(ports, dev) # 0
         /\ PortOf(ports, dev) # 0 => /\ PortOf(ports, dev) \in 1..Len(ports)
                                      /\ ports[PortOf(ports, dev)].first = dev
<1> DEFINE I == {i \in 1..Len(ports) : ports[i].first = dev}
<1>1. I \in SUBSET Nat /\ 0 \notin I
  OBVIOUS
<1>2. PortOf(ports, dev) = IF I # {} THEN Min(I) ELSE 0
  BY DEF PortOf, SelectInSeq
<1>3. (\E i \in 1..Len(ports) : ports[i].first = dev) => I # {}
  OBVIOUS
<1>4. ASSUME I # {} PROVE PortOf(ports, dev) \in I
  <2> HIDE DEF I
  <2>1. Min(I) \in I
    BY <1>1, <1>4, LeastNatural
  <2> QED
    BY <1>2, <1>4, <2>1
<1>5. PortOf(ports, dev) # 0 => PortOf(ports, dev) \in I
  <2> HIDE DEF I
  <2> QED
    BY <1>2, <1>4
<1>6. I # {} => PortOf(ports, dev) # 0
  <2> HIDE DEF I
  <2> QED
    BY <1>1, <1>4
<1> QED
  BY <1>3, <1>5, <1>6

\* The address the switch takes for its own is one device's.
OwnAddress == m_address \in (Address \ (Multicast \cup {Broadcast})) \cup {NoAddress}

LocalInv == OwnAddress /\ OwnFramesLocal

\* A call that receives no frame leaves nothing to say about frames.
LEMMA NothingReceived == ASSUME last' = Nothing PROVE OwnFramesLocal'
<1>1. ToSet(last') = {}
  BY DEF Nothing, ToSet
<1> QED
  BY <1>1 DEF OwnFramesLocal

\* A frame for the address of the switch, classified as HOST or OTHERHOST, goes up and
\* not through.
LEMMA ReceivedLocal ==
  ASSUME NEW dev, NEW type, NEW dst, NEW egress, NEW dropped,
         ReceiveFromDevice(dev, type, dst, egress, dropped),
         dst = m_address => type \in {"HOST", "OTHERHOST"}
  PROVE  OwnFramesLocal'
<1>1. PICK e : /\ last' = <<e>>
               /\ e = [dev |-> dev, type |-> type, dst |-> dst,
                       up |-> PortOf(m_ports, dev) # 0 /\ GoesUp(type, dst),
                       handled |-> PortOf(m_ports, dev) # 0 /\ GoesThrough(type, dst),
                       egress |-> egress,
                       out |-> IF /\ PortOf(m_ports, dev) # 0 /\ GoesThrough(type, dst)
                                  /\ ~ (m_drop /\ dropped)
                               THEN Egress(m_ports, m_ports[PortOf(m_ports, dev)].second, egress)
                               ELSE <<>>]
  BY DEF ReceiveFromDevice
<1>2. ToSet(last') = {e}
  BY <1>1 DEF ToSet
<1>3. m_ports' = m_ports /\ m_address' = m_address
  BY DEF ReceiveFromDevice
<1>4. ASSUME e.dst = m_address, \E i \in 1..Len(m_ports) : m_ports[i].first = e.dev
      PROVE  e.up /\ e.out = <<>>
  <2>1. e.dst = dst /\ e.dev = dev
    BY <1>1
  <2>2. PortOf(m_ports, dev) # 0
    BY <1>4, <2>1, PortFound
  <2>3. GoesUp(type, dst) /\ ~ GoesThrough(type, dst)
    BY <1>4, <2>1 DEF GoesUp, GoesThrough
  <2> QED
    BY <1>1, <2>2, <2>3
<1> QED
  BY <1>2, <1>3, <1>4 DEF OwnFramesLocal

\* The classification of a port's device takes the switch's own address for no group's.
LEMMA OwnIsNoGroup ==
  ASSUME OwnAddress, NEW dev, NEW dst \in Address, dst = m_address
  PROVE  PacketTypeOf(dev, dst) \in {"HOST", "OTHERHOST"}
<1>1. dst # Broadcast /\ dst \notin Multicast
  BY DeviceAssumption DEF OwnAddress
<1> QED
  BY <1>1 DEF PacketTypeOf

\* A switch without ports has received nothing.
LEMMA InitLocal == Init => LocalInv
BY DEF Init, LocalInv, OwnAddress, OwnFramesLocal, Nothing, ToSet

\* Every call leaves the switch an address of its own, and handles its frames locally.
LEMMA NextLocal == LocalInv /\ [Next]_vars => LocalInv'
<1> SUFFICES ASSUME LocalInv, [Next]_vars PROVE LocalInv'
  OBVIOUS
<1>1. ASSUME NEW dev \in Device, AddSwitchPort(dev)
      PROVE  LocalInv'
  <2>1. GetAddress[dev] \in Address \ (Multicast \cup {Broadcast})
    BY DeviceAssumption
  <2> QED
    BY <1>1, <2>1, NothingReceived DEF AddSwitchPort, LocalInv, OwnAddress
<1>2. ASSUME NEW b \in BOOLEAN, SetPacketDrop(b)
      PROVE  LocalInv'
  BY <1>2, NothingReceived DEF SetPacketDrop, LocalInv, OwnAddress
<1>3. ASSUME NEW a \in Address \ (Multicast \cup {Broadcast}), SetAddress(a)
      PROVE  LocalInv'
  BY <1>3, NothingReceived DEF SetAddress, LocalInv, OwnAddress
<1>4. ASSUME NEW dst \in Address, NEW egress \in EgressPort, NEW dropped \in BOOLEAN,
             \/ \E dev \in Device :
                  ReceiveFromDevice(dev, PacketTypeOf(dev, dst), dst, egress, dropped)
             \/ SendFrom(dst, egress, dropped)
      PROVE  LocalInv'
  <2>1. ASSUME NEW dev \in Device,
               ReceiveFromDevice(dev, PacketTypeOf(dev, dst), dst, egress, dropped)
        PROVE  OwnFramesLocal' /\ m_address' = m_address
    <3>1. dst = m_address => PacketTypeOf(dev, dst) \in {"HOST", "OTHERHOST"}
      BY OwnIsNoGroup DEF LocalInv
    <3>2. OwnFramesLocal'
      BY <2>1, <3>1, ReceivedLocal
    <3> QED
      BY <2>1, <3>2 DEF ReceiveFromDevice
  <2>2. ASSUME ReceiveFromDevice(Self, "OTHERHOST", dst, egress, dropped)
        PROVE  OwnFramesLocal' /\ m_address' = m_address
    <3>1. OwnFramesLocal'
      BY <2>2, ReceivedLocal
    <3> QED
      BY <2>2, <3>1 DEF ReceiveFromDevice
  <2> QED
    BY <1>4, <2>1, <2>2 DEF SendFrom, LocalInv, OwnAddress
<1>5. CASE UNCHANGED vars
  BY <1>5 DEF vars, LocalInv, OwnAddress, OwnFramesLocal
<1> QED
  BY <1>1, <1>2, <1>3, <1>4, <1>5 DEF Next

\* What another node sends to the switch's own address arrives at the local stack,
\* whichever port it comes in on, and goes nowhere else.
THEOREM OwnFramesStayLocal == Spec => []OwnFramesLocal
<1>1. LocalInv => OwnFramesLocal
  BY DEF LocalInv
<1> QED
  BY <1>1, InitLocal, NextLocal, PTL DEF Spec

-----------------------------------------------------------------------------
(* Where frames leave.  HandlePacket's loop is a recursion over the list of *)
(* ports, so what it sends on is found by induction over the ports looked   *)
(* at.                                                                      *)

\* What holds of 0, and of each number up to n if it holds of the one before, holds of n.
LEMMA Induction ==
  ASSUME NEW n \in Nat, NEW P \in SUBSET (0..n), 0 \in P,
         \A i \in 1..n : i - 1 \in P => i \in P
  PROVE  n \in P
<1> SUFFICES ASSUME n \notin P PROVE FALSE
  OBVIOUS
<1> DEFINE S == {i \in 0..n : i \notin P}
<1>1. S \in SUBSET Nat /\ S # {}
  OBVIOUS
<1> HIDE DEF S
<1>2. Min(S) \in S /\ \A x \in S : Min(S) <= x
  BY <1>1, LeastNatural
<1>3. Min(S) \in 1..n /\ Min(S) \notin P
  BY <1>2 DEF S
<1>4. Min(S) - 1 \in 0..n /\ Min(S) - 1 \in P
  BY <1>2, <1>3 DEF S
<1> QED
  BY <1>3, <1>4

\* There is a function that is base at 0 and of which each further value is a step from the
\* value before.
Solvable(n, T, base, step) ==
  \E f \in [0..n -> T] : f[0] = base /\ \A i \in 1..n : f[i] = step[i, f[i - 1]]

\* A recursion over 1..n, written as a step on the number and the value before, has a solution.
LEMMA Recursion ==
  ASSUME NEW n \in Nat, NEW T, NEW base \in T, NEW step \in [(1..n) \X T -> T]
  PROVE  Solvable(n, T, base, step)
<1> DEFINE Fits(f, m) == f[0] = base /\ \A i \in 1..m : f[i] = step[i, f[i - 1]]
           P == {m \in 0..n : \E f \in [0..m -> T] : Fits(f, m)}
<1>1. 0 \in P
  <2> DEFINE g == [i \in 0..0 |-> base]
  <2>1. g \in [0..0 -> T]
    OBVIOUS
  <2>2. Fits(g, 0)
    OBVIOUS
  <2> HIDE DEF Fits, g
  <2>3. \E f \in [0..0 -> T] : Fits(f, 0)
    BY <2>1, <2>2
  <2>4. 0 \in 0..n
    OBVIOUS
  <2> QED
    BY <2>3, <2>4
<1>2. ASSUME NEW m \in 1..n, m - 1 \in P
      PROVE  m \in P
  <2>1. PICK f \in [0..(m - 1) -> T] : Fits(f, m - 1)
    BY <1>2
  <2> DEFINE g == [i \in 0..m |-> IF i = m THEN step[m, f[m - 1]] ELSE f[i]]
  <2>2. m - 1 \in 0..(m - 1) /\ m \in Nat /\ m \in 0..n
    OBVIOUS
  <2>3. step[m, f[m - 1]] \in T
    <3>1. <<m, f[m - 1]>> \in (1..n) \X T
      BY <2>1, <2>2
    <3> QED
      BY <3>1
  <2>4. \A i \in 0..m : i # m => i \in 0..(m - 1)
    OBVIOUS
  <2>5. g \in [0..m -> T]
    BY <2>3, <2>4
  <2>6. g[m] = step[m, f[m - 1]] /\ \A i \in 0..(m - 1) : g[i] = f[i]
    <3>1. m \in 0..m /\ \A i \in 0..(m - 1) : i \in 0..m /\ i # m
      BY <2>2
    <3> QED
      BY <3>1
  <2> HIDE DEF g
  <2>7. ASSUME NEW i \in 1..m PROVE g[i] = step[i, g[i - 1]]
    <3>1. i - 1 \in 0..(m - 1)
      OBVIOUS
    <3>2. CASE i = m
      BY <2>6, <3>1, <3>2
    <3>3. CASE i # m
      <4>1. i \in 1..(m - 1) /\ i \in 0..(m - 1)
        BY <3>3
      <4> QED
        BY <2>1, <2>6, <3>1, <4>1
    <3> QED
      BY <3>2, <3>3
  <2>8. g[0] = base
    <3>1. 0 \in 0..(m - 1)
      BY <2>2
    <3> QED
      BY <2>1, <2>6, <3>1
  <2>9. Fits(g, m)
    BY <2>7, <2>8
  <2> HIDE DEF Fits
  <2>10. \E x \in [0..m -> T] : Fits(x, m)
    BY <2>5, <2>9
  <2> QED
    BY <2>2, <2>10
<1> HIDE DEF Fits
<1>3. P \in SUBSET (0..n)
  OBVIOUS
<1> HIDE DEF P
<1>4. n \in P
  BY <1>1, <1>2, <1>3, Induction
<1> QED
  BY <1>4 DEF P, Fits, Solvable

\* The ports sent on after the first i ports were looked at.
SentOn(ports, inport, f) ==
  /\ f \in [0..Len(ports) -> Seq(Port)]
  /\ f[0] = <<>>
  /\ \A i \in 1..Len(ports) :
       f[i] = IF ports[i].second # inport THEN Append(f[i - 1], ports[i]) ELSE f[i - 1]

\* The loop of Flooded is defined on every list of ports.
LEMMA FloodedDefined ==
  ASSUME NEW ports \in Seq(Port), NEW inport
  PROVE  \E f : SentOn(ports, inport, f) /\ Flooded(ports, inport) = f[Len(ports)]
<1> DEFINE n == Len(ports)
           step == [x \in (1..n) \X Seq(Port) |->
                      IF ports[x[1]].second # inport THEN Append(x[2], ports[x[1]]) ELSE x[2]]
           Loop(g) == [i \in 0..n |-> IF i = 0 THEN <<>>
                         ELSE IF ports[i].second # inport THEN Append(g[i - 1], ports[i])
                              ELSE g[i - 1]]
           h == CHOOSE g : g = Loop(g)
<1>1. Flooded(ports, inport) = h[n]
  BY DEF Flooded
<1>2. n \in Nat /\ \A i \in 1..n : ports[i] \in Port
  BY LenProperties, ElementOfSeq
<1>3. step \in [(1..n) \X Seq(Port) -> Seq(Port)]
  BY <1>2, AppendProperties
<1>4. <<>> \in Seq(Port)
  OBVIOUS
<1>5. \A i \in 1..n, s \in Seq(Port) :
        step[i, s] = IF ports[i].second # inport THEN Append(s, ports[i]) ELSE s
  OBVIOUS
<1> HIDE DEF step
<1>6. PICK f \in [0..n -> Seq(Port)] : f[0] = <<>> /\ \A i \in 1..n : f[i] = step[i, f[i - 1]]
  <2>1. Solvable(n, Seq(Port), <<>>, step)
    BY <1>2, <1>3, <1>4, Recursion
  <2> QED
    BY <2>1 DEF Solvable
<1> HIDE DEF n
<1>7. \A i \in 0..n : f[i] = Loop(f)[i]
  <2> SUFFICES ASSUME NEW i \in 0..n PROVE f[i] = Loop(f)[i]
    OBVIOUS
  <2>1. CASE i = 0
    BY <1>6, <2>1
  <2>2. CASE i # 0
    <3>1. i \in 1..n /\ i - 1 \in 0..n
      BY <1>2, <2>2
    <3>2. f[i - 1] \in Seq(Port)
      BY <1>6, <3>1
    <3> QED
      BY <1>5, <1>6, <2>2, <3>1, <3>2
  <2> QED
    BY <2>1, <2>2
<1>8. f = Loop(f)
  BY <1>6, <1>7
<1> HIDE DEF Loop
<1>9. h = Loop(h)
  BY <1>8
<1> HIDE DEF h
<1>10. h[0] = <<>> /\ \A i \in 1..n : h[i] = IF ports[i].second # inport
                                            THEN Append(h[i - 1], ports[i]) ELSE h[i - 1]
  <2>1. \A i \in 0..n : Loop(h)[i] = IF i = 0 THEN <<>>
                         ELSE IF ports[i].second # inport THEN Append(h[i - 1], ports[i])
                              ELSE h[i - 1]
    BY DEF Loop
  <2>2. 0 \in 0..n /\ \A i \in 1..n : i \in 0..n /\ i # 0
    BY <1>2
  <2> QED
    BY <1>9, <2>1, <2>2
<1>11. DOMAIN h = 0..n /\ h = [i \in 0..n |-> h[i]]
  <2>1. Loop(h) = [i \in 0..n |-> Loop(h)[i]] /\ DOMAIN Loop(h) = 0..n
    BY DEF Loop
  <2> QED
    BY <1>9, <2>1
<1> DEFINE P == {i \in 0..n : h[i] \in Seq(Port)}
<1>12. n \in P /\ \A i \in 0..n : i \in P
  <2>1. \A i \in 1..n : i - 1 \in P => i \in P
    <3> SUFFICES ASSUME NEW i \in 1..n, i - 1 \in P PROVE i \in P
      OBVIOUS
    <3>1. h[i - 1] \in Seq(Port) /\ ports[i] \in Port /\ i \in 0..n
      BY <1>2
    <3>2. Append(h[i - 1], ports[i]) \in Seq(Port)
      BY <3>1, AppendProperties
    <3>3. h[i] = IF ports[i].second # inport THEN Append(h[i - 1], ports[i]) ELSE h[i - 1]
      BY <1>10
    <3>4. h[i] \in Seq(Port)
      BY <3>1, <3>2, <3>3
    <3> QED
      BY <3>1, <3>4
  <2>2. 0 \in P
    <3>1. 0 \in 0..n /\ h[0] \in Seq(Port)
      BY <1>2, <1>4, <1>10
    <3> QED
      BY <3>1
  <2> HIDE DEF P
  <2>3. ASSUME NEW m \in 0..n PROVE m \in P
    <3> DEFINE Q == P \cap (0..m)
    <3>1. m \in Nat /\ Q \in SUBSET (0..m) /\ 0 \in Q
      BY <2>2
    <3>2. \A i \in 1..m : i \in 1..n /\ i \in 0..m
      BY <1>2
    <3>3. \A i \in 1..m : i - 1 \in Q => i \in Q
      BY <2>1, <3>2
    <3> HIDE DEF Q
    <3>4. m \in Q
      BY <3>1, <3>3, Induction
    <3> QED
      BY <3>4 DEF Q
  <2> QED
    BY <1>2, <2>3
<1>13. h \in [0..n -> Seq(Port)]
  BY <1>11, <1>12
<1> QED
  BY <1>1, <1>10, <1>13 DEF n, SentOn

\* What the loop has sent on after m ports: those of the first m ports that are not the
\* ingress port, each once and in their order.
SentOf(out, ports, inport, m) ==
  /\ \E ix \in [1..Len(out) -> 1..m] :
       /\ \A k \in 1..Len(out) : out[k] = ports[ix[k]] /\ ports[ix[k]].second # inport
       /\ \A k, l \in 1..Len(out) : k < l => ix[k] < ix[l]
  /\ \A i \in 1..m : ports[i].second # inport => \E k \in 1..Len(out) : out[k] = ports[i]

\* The loop's next step keeps it so, whether it sends on the port or not.
LEMMA SentNext ==
  ASSUME NEW ports \in Seq(Port), NEW inport, NEW m \in 1..Len(ports), NEW out \in Seq(Port),
         SentOf(out, ports, inport, m - 1)
  PROVE  SentOf(IF ports[m].second # inport THEN Append(out, ports[m]) ELSE out,
                ports, inport, m)
<1>1. PICK ix \in [1..Len(out) -> 1..(m - 1)] :
        /\ \A k \in 1..Len(out) : out[k] = ports[ix[k]] /\ ports[ix[k]].second # inport
        /\ \A k, l \in 1..Len(out) : k < l => ix[k] < ix[l]
  BY DEF SentOf
<1>2. \A i \in 1..(m - 1) :
        ports[i].second # inport => \E k \in 1..Len(out) : out[k] = ports[i]
  BY DEF SentOf
<1>3. Len(out) \in Nat /\ Len(ports) \in Nat /\ m \in Nat
  BY LenProperties
<1>4. \A i \in 1..m : i = m \/ i \in 1..(m - 1)
  BY <1>3
<1>5. CASE ports[m].second = inport
  <2>1. ix \in [1..Len(out) -> 1..m]
    BY <1>1, <1>3
  <2>2. \A i \in 1..m : ports[i].second # inport => \E k \in 1..Len(out) : out[k] = ports[i]
    BY <1>2, <1>4, <1>5
  <2> QED
    BY <1>1, <1>5, <2>1, <2>2 DEF SentOf
<1>6. CASE ports[m].second # inport
  <2> DEFINE more == Append(out, ports[m])
             jx == [k \in 1..Len(more) |-> IF k = Len(more) THEN m ELSE ix[k]]
  <2>1. ports[m] \in Port
    BY ElementOfSeq
  <2>2. Len(more) = Len(out) + 1 /\ more[Len(more)] = ports[m]
        /\ \A k \in 1..Len(out) : more[k] = out[k]
    BY <2>1, AppendProperties
  <2> HIDE DEF more
  <2>3. \A k \in 1..Len(more) : k = Len(more) \/ k \in 1..Len(out)
    BY <1>3, <2>2
  <2>4. Len(more) \in 1..Len(more) /\ \A k \in 1..Len(out) : k \in 1..Len(more) /\ k # Len(more)
    BY <1>3, <2>2
  <2>5. jx[Len(more)] = m /\ \A k \in 1..Len(out) : jx[k] = ix[k]
    BY <2>4
  <2>6. m \in 1..m /\ \A k \in 1..Len(out) : ix[k] \in 1..m /\ ix[k] < m /\ ix[k] \in Int
    BY <1>1, <1>3
  <2>7. jx \in [1..Len(more) -> 1..m]
    BY <2>3, <2>6
  <2> HIDE DEF jx
  <2>8. \A k \in 1..Len(more) : more[k] = ports[jx[k]] /\ ports[jx[k]].second # inport
    BY <1>1, <1>6, <2>2, <2>3, <2>5
  <2>9. ASSUME NEW k \in 1..Len(more), NEW l \in 1..Len(more), k < l
        PROVE  jx[k] < jx[l]
    <3>1. k \in 1..Len(out)
      BY <1>3, <2>2, <2>9
    <3>2. CASE l = Len(more)
      BY <2>5, <2>6, <3>1, <3>2
    <3>3. CASE l \in 1..Len(out)
      BY <1>1, <2>5, <2>9, <3>1, <3>3
    <3> QED
      BY <2>3, <3>2, <3>3
  <2>10. ASSUME NEW i \in 1..m, ports[i].second # inport
         PROVE  \E k \in 1..Len(more) : more[k] = ports[i]
    <3>1. CASE i = m
      BY <2>2, <2>4, <3>1
    <3>2. CASE i \in 1..(m - 1)
      BY <1>2, <2>2, <2>4, <2>10, <3>2
    <3> QED
      BY <1>4, <3>1, <3>2
  <2>11. SentOf(more, ports, inport, m)
    BY <2>7, <2>8, <2>9, <2>10 DEF SentOf
  <2> QED
    BY <1>6, <2>11 DEF more
<1> QED
  BY <1>5, <1>6

\* A flood leaves on every port but the ingress port, once each and in their order.
LEMMA FloodedPorts ==
  ASSUME NEW ports \in Seq(Port), NEW inport
  PROVE  /\ Flooded(ports, inport) \in Seq(Port)
         /\ SentOf(Flooded(ports, inport), ports, inport, Len(ports))
<1>1. PICK f : SentOn(ports, inport, f) /\ Flooded(ports, inport) = f[Len(ports)]
  BY FloodedDefined
<1>2. Len(ports) \in Nat /\ \A i \in 0..Len(ports) : f[i] \in Seq(Port)
  BY <1>1, LenProperties DEF SentOn
<1> DEFINE P == {m \in 0..Len(ports) : SentOf(f[m], ports, inport, m)}
<1>3. 0 \in P
  <2>1. f[0] = <<>> /\ 0 \in 0..Len(ports)
    BY <1>1, <1>2 DEF SentOn
  <2>2. SentOf(<<>>, ports, inport, 0)
    <3> DEFINE ix == [k \in 1..0 |-> 1]
    <3>1. ix \in [1..Len(<<>>) -> 1..0]
      OBVIOUS
    <3>2. /\ \A k \in 1..Len(<<>>) : <<>>[k] = ports[ix[k]] /\ ports[ix[k]].second # inport
          /\ \A k, l \in 1..Len(<<>>) : k < l => ix[k] < ix[l]
          /\ \A i \in 1..0 : ports[i].second # inport => \E k \in 1..Len(<<>>) : <<>>[k] = ports[i]
      OBVIOUS
    <3> HIDE DEF ix
    <3> QED
      BY <3>1, <3>2 DEF SentOf
  <2> QED
    BY <2>1, <2>2
<1>4. ASSUME NEW m \in 1..Len(ports), m - 1 \in P
      PROVE  m \in P
  <2>1. SentOf(f[m - 1], ports, inport, m - 1) /\ f[m - 1] \in Seq(Port) /\ m \in 0..Len(ports)
    BY <1>2, <1>4
  <2>2. f[m] = IF ports[m].second # inport THEN Append(f[m - 1], ports[m]) ELSE f[m - 1]
    BY <1>1 DEF SentOn
  <2>3. SentOf(f[m], ports, inport, m)
    BY <2>1, <2>2, SentNext
  <2> QED
    BY <2>1, <2>3
<1>5. P \in SUBSET (0..Len(ports))
  OBVIOUS
<1> HIDE DEF P
<1>6. Len(ports) \in P
  BY <1>2, <1>3, <1>4, <1>5, Induction
<1>7. Len(ports) \in 0..Len(ports)
  BY <1>2
<1> QED
  BY <1>1, <1>2, <1>6, <1>7 DEF P

\* What Egress sends on is ports of the list, no two of the same device: all but the ingress
\* port when it floods, else one port with the number named.
LEMMA EgressPorts ==
  ASSUME NEW ports \in Seq(Port), NEW inport, NEW port,
         \A i, j \in 1..Len(ports) : i # j => ports[i].first # ports[j].first
  PROVE  /\ Egress(ports, inport, port) \in Seq(Port)
         /\ \A k, l \in 1..Len(Egress(ports, inport, port)) :
              k # l => Egress(ports, inport, port)[k].first # Egress(ports, inport, port)[l].first
         /\ \A k \in 1..Len(Egress(ports, inport, port)) :
              /\ \E i \in 1..Len(ports) : Egress(ports, inport, port)[k] = ports[i]
              /\ IF port = BROADCAST_PORT THEN Egress(ports, inport, port)[k].second # inport
                                          ELSE Egress(ports, inport, port)[k].second = port
<1> DEFINE out == Egress(ports, inport, port)
<1>1. CASE port = BROADCAST_PORT
  <2>1. out = Flooded(ports, inport)
    BY <1>1 DEF Egress
  <2>2. out \in Seq(Port) /\ SentOf(out, ports, inport, Len(ports))
    BY <2>1, FloodedPorts
  <2> HIDE DEF out
  <2>3. PICK ix \in [1..Len(out) -> 1..Len(ports)] :
          /\ \A k \in 1..Len(out) : out[k] = ports[ix[k]] /\ ports[ix[k]].second # inport
          /\ \A k, l \in 1..Len(out) : k < l => ix[k] < ix[l]
    BY <2>2 DEF SentOf
  <2>4. Len(out) \in Nat /\ \A k \in 1..Len(out) : ix[k] \in 1..Len(ports)
    BY <2>2, <2>3, LenProperties
  <2>5. Len(ports) \in Nat
    BY LenProperties
  <2>6. \A k, l \in 1..Len(out) : k # l => ix[k] # ix[l]
    <3> SUFFICES ASSUME NEW k \in 1..Len(out), NEW l \in 1..Len(out), k # l
                 PROVE  ix[k] # ix[l]
      OBVIOUS
    <3>1. k < l \/ l < k
      BY <2>4
    <3>2. ix[k] < ix[l] \/ ix[l] < ix[k]
      BY <2>3, <3>1
    <3>3. ix[k] \in Int /\ ix[l] \in Int
      BY <2>4, <2>5
    <3> QED
      BY <3>2, <3>3
  <2>7. \A k, l \in 1..Len(out) : k # l => out[k].first # out[l].first
    BY <2>3, <2>4, <2>6
  <2>8. \A k \in 1..Len(out) : (\E i \in 1..Len(ports) : out[k] = ports[i]) /\ out[k].second # inport
    BY <2>3, <2>4
  <2> QED
    BY <1>1, <2>2, <2>7, <2>8 DEF out
<1>2. CASE port # BROADCAST_PORT
  <2> DEFINE I == {i \in 1..Len(ports) : ports[i].second = port}
             i0 == SelectInSeq(ports, LAMBDA p : p.second = port)
  <2>1. I \in SUBSET Nat /\ 0 \notin I
    OBVIOUS
  <2>2. i0 = IF I # {} THEN Min(I) ELSE 0
    BY DEF SelectInSeq
  <2>3. out = IF i0 = 0 THEN <<>> ELSE <<ports[i0]>>
    BY <1>2 DEF Egress
  <2> HIDE DEF out, i0
  <2>4. i0 # 0 => i0 \in I
    <3> HIDE DEF I
    <3> QED
      BY <2>1, <2>2, LeastNatural
  <2>5. CASE i0 = 0
    <3>1. out = <<>>
      BY <2>3, <2>5
    <3> QED
      BY <3>1 DEF out
  <2>6. CASE i0 # 0
    <3>1. i0 \in 1..Len(ports) /\ ports[i0].second = port /\ ports[i0] \in Port
      BY <2>4, <2>6, ElementOfSeq
    <3>2. out = <<ports[i0]>>
      BY <2>3, <2>6
    <3>3. out \in Seq(Port) /\ Len(out) = 1 /\ out[1] = ports[i0]
      BY <3>1, <3>2
    <3>4. \A k \in 1..Len(out) : k = 1
      BY <3>3
    <3> QED
      BY <1>2, <3>1, <3>3, <3>4 DEF out
  <2> QED
    BY <2>5, <2>6
<1> QED
  BY <1>1, <1>2

\* No device is two ports: AddSwitchPort is called with devices that are no port yet.
DevicesOnce == \A i, j \in 1..Len(m_ports) : i # j => m_ports[i].first # m_ports[j].first

\* To a named port a frame is sent on the one with that number, if any.
LEMMA EgressNamed ==
  ASSUME NEW ports, NEW inport, NEW port, port # BROADCAST_PORT
  PROVE  \/ /\ Egress(ports, inport, port) = <<>>
            /\ \A i \in 1..Len(ports) : ports[i].second # port
         \/ \E i \in 1..Len(ports) :
              ports[i].second = port /\ Egress(ports, inport, port) = <<ports[i]>>
<1> DEFINE I == {i \in 1..Len(ports) : ports[i].second = port}
           i0 == SelectInSeq(ports, LAMBDA p : p.second = port)
<1>1. I \in SUBSET Nat /\ 0 \notin I
  OBVIOUS
<1>2. i0 = IF I # {} THEN Min(I) ELSE 0
  BY DEF SelectInSeq
<1>3. Egress(ports, inport, port) = IF i0 = 0 THEN <<>> ELSE <<ports[i0]>>
  BY DEF Egress
<1> HIDE DEF i0
<1>4. IF I = {} THEN i0 = 0 ELSE i0 \in I
  <2> HIDE DEF I
  <2> QED
    BY <1>1, <1>2, LeastNatural
<1> QED
  BY <1>1, <1>3, <1>4

\* In a numbered list a port's number leads to it alone, and a flood to every port but the
\* ingress port.
Copied(out, ports, in, port) ==
  /\ port = BROADCAST_PORT =>
       /\ \A j \in 1..Len(ports) : j # in => \E k \in 1..Len(out) : out[k] = ports[j]
       /\ \A k \in 1..Len(out) : out[k].first # ports[in].first
  /\ \A j \in 1..Len(ports) : ports[j].second = port => out = <<ports[j]>>

LEMMA EgressCopies ==
  ASSUME Numbered, DevicesOnce, NEW in \in 1..Len(m_ports), NEW port
  PROVE  Copied(Egress(m_ports, m_ports[in].second, port), m_ports, in, port)
<1> DEFINE inport == m_ports[in].second
           out == Egress(m_ports, inport, port)
<1>1. m_ports \in Seq(Port) /\ Len(m_ports) \in Nat
  BY LenProperties DEF Numbered
<1>2. PortNumbers
  BY NumberedPorts
<1>3. \A i, j \in 1..Len(m_ports) : i # j => m_ports[i].second # m_ports[j].second
  <2> SUFFICES ASSUME NEW i \in 1..Len(m_ports), NEW j \in 1..Len(m_ports), i # j
               PROVE  m_ports[i].second # m_ports[j].second
    OBVIOUS
  <2>1. i < j \/ j < i
    BY <1>1
  <2>2. m_ports[i].second \in Int /\ m_ports[j].second \in Int
    <3>1. m_ports[i] \in Port /\ m_ports[j] \in Port
      BY <1>1, ElementOfSeq
    <3> QED
      BY <3>1 DEF Port
  <2>3. m_ports[i].second < m_ports[j].second \/ m_ports[j].second < m_ports[i].second
    BY <1>2, <2>1 DEF PortNumbers
  <2> QED
    BY <2>2, <2>3
<1>4. ASSUME port = BROADCAST_PORT
      PROVE  /\ \A j \in 1..Len(m_ports) : j # in => \E k \in 1..Len(out) : out[k] = m_ports[j]
             /\ \A k \in 1..Len(out) : out[k].first # m_ports[in].first
  <2>1. out = Flooded(m_ports, inport)
    BY <1>4 DEF Egress
  <2>2. SentOf(out, m_ports, inport, Len(m_ports))
    BY <1>1, <2>1, FloodedPorts
  <2>3. \A k \in 1..Len(out) : /\ \E j \in 1..Len(m_ports) : out[k] = m_ports[j]
                               /\ out[k].second # inport
    BY <1>1, <1>4, EgressPorts DEF DevicesOnce
  <2> HIDE DEF out
  <2>4. \A j \in 1..Len(m_ports) : j # in => \E k \in 1..Len(out) : out[k] = m_ports[j]
    BY <1>3, <2>2 DEF SentOf
  <2>5. \A k \in 1..Len(out) : out[k].first # m_ports[in].first
    BY <2>3 DEF DevicesOnce
  <2> QED
    BY <2>4, <2>5
<1>5. ASSUME NEW j \in 1..Len(m_ports), m_ports[j].second = port
      PROVE  out = <<m_ports[j]>>
  <2> DEFINE I == {i \in 1..Len(m_ports) : m_ports[i].second = port}
             i0 == SelectInSeq(m_ports, LAMBDA p : p.second = port)
  <2>1. I = {j}
    BY <1>3, <1>5
  <2>2. I \in SUBSET Nat /\ I # {} /\ 0 \notin I
    BY <2>1
  <2>3. i0 = Min(I)
    BY <2>2 DEF SelectInSeq
  <2>4. port # BROADCAST_PORT
    BY <1>2, <1>5 DEF PortNumbers
  <2>5. out = IF i0 = 0 THEN <<>> ELSE <<m_ports[i0]>>
    BY <2>4 DEF Egress
  <2> HIDE DEF I, i0, out
  <2>6. i0 \in I
    BY <2>2, <2>3, LeastNatural
  <2>7. i0 = j /\ i0 # 0
    BY <2>1, <2>2, <2>6
  <2> QED
    BY <2>5, <2>7
<1> HIDE DEF out
<1>6. Copied(out, m_ports, in, port)
  BY <1>4, <1>5 DEF Copied
<1> QED
  BY <1>6 DEF out

\* The classification is one of the four.
LEMMA PacketTypes == \A dev, dst : PacketTypeOf(dev, dst) \in PacketType
<1> SUFFICES ASSUME NEW dev, NEW dst PROVE PacketTypeOf(dev, dst) \in PacketType
  OBVIOUS
<1> QED
  BY Zenon DEF PacketTypeOf, PacketType

\* What one call of ReceiveFromDevice makes of a frame.
LEMMA ReceivedEffect ==
  ASSUME Numbered, DevicesOnce,
         NEW dev \in Device \cup {Self}, NEW type \in PacketType, NEW dst \in Address,
         NEW egress \in EgressPort, NEW dropped \in BOOLEAN,
         ReceiveFromDevice(dev, type, dst, egress, dropped)
  PROVE  FloodOrUnicast' /\ ToSet(last)' \subseteq Effect
<1> DEFINE i == PortOf(m_ports, dev)
           handled == i # 0 /\ GoesThrough(type, dst)
           out == IF handled /\ ~ (m_drop /\ dropped)
                  THEN Egress(m_ports, m_ports[i].second, egress) ELSE <<>>
           up == i # 0 /\ GoesUp(type, dst)
           e == [dev |-> dev, type |-> type, dst |-> dst, up |-> up, handled |-> handled,
                 egress |-> egress, out |-> out]
<1>1. last' = <<e>> /\ m_ports' = m_ports
  BY DEF ReceiveFromDevice
<1>2. ToSet(last)' = {e}
  BY <1>1 DEF ToSet
<1>3. up \in BOOLEAN /\ handled \in BOOLEAN
  BY DEF GoesUp, GoesThrough
<1>4. m_ports \in Seq(Port)
  BY DEF Numbered
<1>5. handled => i \in 1..Len(m_ports) /\ m_ports[i].first = dev
  BY PortFound
<1>6. out \in Seq(Port)
  BY <1>4, EgressPorts DEF DevicesOnce
<1>7. out # <<>> => \E k \in 1..Len(m_ports) : m_ports[k].first = dev
  BY <1>5
<1>8. \A k, l \in 1..Len(out) : k # l => out[k].first # out[l].first
  <2>1. CASE out = <<>>
    BY <2>1
  <2>2. CASE out # <<>>
    BY <1>4, <2>2, EgressPorts DEF DevicesOnce
  <2> QED
    BY <2>1, <2>2
<1>9. \A k \in 1..Len(out) : IF egress = BROADCAST_PORT THEN out[k].first # dev
                                                      ELSE out[k].second = egress
  <2> SUFFICES ASSUME NEW k \in 1..Len(out)
               PROVE  IF egress = BROADCAST_PORT THEN out[k].first # dev
                                                 ELSE out[k].second = egress
    OBVIOUS
  <2>1. out # <<>>
    OBVIOUS
  <2>2. out = Egress(m_ports, m_ports[i].second, egress) /\ handled
    BY <2>1
  <2>3. /\ \E j \in 1..Len(m_ports) : out[k] = m_ports[j]
        /\ IF egress = BROADCAST_PORT THEN out[k].second # m_ports[i].second
                                      ELSE out[k].second = egress
    BY <1>4, <2>2, EgressPorts DEF DevicesOnce
  <2> HIDE DEF out, i, handled
  <2>4. ASSUME egress = BROADCAST_PORT PROVE out[k].first # dev
    BY <1>5, <2>2, <2>3, <2>4 DEF DevicesOnce
  <2> QED
    BY <2>3, <2>4
<1> HIDE DEF up, handled, out
<1>10. e \in Effect
  BY <1>3, <1>6 DEF Effect
<1>11. FloodOrUnicast'
  <2>1. e.dev = dev /\ e.egress = egress /\ e.out = out
    OBVIOUS
  <2> HIDE DEF e
  <2> QED
    BY <1>1, <1>2, <1>7, <1>8, <1>9, <2>1 DEF FloodOrUnicast
<1> QED
  BY <1>2, <1>10, <1>11

\* The numbering, the devices, the types and the effects of frames: each needed for the next
\* step of the others.
DeviceInv == Numbered /\ DevicesOnce /\ TypeOK /\ FloodOrUnicast

\* A switch without ports.
LEMMA InitDevice == Init => DeviceInv
<1> SUFFICES ASSUME Init PROVE DeviceInv
  OBVIOUS
<1>1. ToSet(last) = {} /\ m_ports = <<>> /\ Numbered
  BY InitNumbered DEF Init, Nothing, ToSet
<1>2. DevicesOnce /\ FloodOrUnicast
  BY <1>1 DEF DevicesOnce, FloodOrUnicast
<1>3. TypeOK
  BY <1>1 DEF Init, TypeOK, Numbered
<1> QED
  BY <1>1, <1>2, <1>3 DEF DeviceInv

\* A call that receives no frame: what is left to show is about the ports and the address.
LEMMA NothingReceivedInv ==
  ASSUME last' = Nothing
  PROVE  FloodOrUnicast' /\ ToSet(last)' \subseteq Effect
<1>1. ToSet(last)' = {}
  BY DEF Nothing, ToSet
<1> QED
  BY <1>1 DEF FloodOrUnicast

\* Every call keeps all of it.
LEMMA NextDevice == DeviceInv /\ [Next]_vars => DeviceInv'
<1> SUFFICES ASSUME DeviceInv, [Next]_vars PROVE DeviceInv'
  OBVIOUS
<1> USE DEF DeviceInv
<1>1. Numbered' /\ m_ports' \in Seq(Port)
  BY NextNumbered DEF Numbered
<1>2. Len(m_ports) \in Nat /\ m_ports \in Seq(Port)
  BY LenProperties DEF Numbered
<1>3. ASSUME NEW dev \in Device, AddSwitchPort(dev)
      PROVE  DeviceInv'
  <2>1. FloodOrUnicast' /\ ToSet(last)' \subseteq Effect
    BY <1>3, NothingReceivedInv DEF AddSwitchPort
  <2>2. m_address' \in Address \cup {NoAddress} /\ m_drop' \in BOOLEAN
    BY <1>3, DeviceAssumption DEF AddSwitchPort, TypeOK
  <2> DEFINE port == [first |-> dev, second |-> NewPortNumber(m_ports)]
  <2>3. DevicesOnce'
    <3>1. CASE m_ports' = m_ports
      BY <3>1 DEF DevicesOnce
    <3>2. CASE m_ports' # m_ports
      <4>1. m_ports' = Append(m_ports, port) /\ port.first = dev
        BY <1>3, <3>2 DEF AddSwitchPort
      <4>2. port \in Port
        BY NewPortNumberIsNth DEF Port
      <4> HIDE DEF port
      <4>3. /\ Len(m_ports') = Len(m_ports) + 1 /\ m_ports'[Len(m_ports) + 1] = port
            /\ \A i \in 1..Len(m_ports) : m_ports'[i] = m_ports[i]
        BY <1>2, <4>1, <4>2, AppendProperties
      <4>4. \A i \in 1..Len(m_ports') : i \in 1..Len(m_ports) \/ i = Len(m_ports) + 1
        BY <1>2, <4>3
      <4>5. \A i \in 1..Len(m_ports) : m_ports[i].first # dev
        BY <1>3 DEF AddSwitchPort
      <4> QED
        BY <4>1, <4>3, <4>4, <4>5 DEF DevicesOnce
    <3> QED
      BY <3>1, <3>2
  <2> QED
    BY <1>1, <2>1, <2>2, <2>3 DEF TypeOK
<1>4. ASSUME NEW b \in BOOLEAN, SetPacketDrop(b)
      PROVE  DeviceInv'
  <2>1. FloodOrUnicast' /\ ToSet(last)' \subseteq Effect
    BY <1>4, NothingReceivedInv DEF SetPacketDrop
  <2> QED
    BY <1>1, <1>4, <2>1 DEF SetPacketDrop, TypeOK, DevicesOnce
<1>5. ASSUME NEW a \in Address \ (Multicast \cup {Broadcast}), SetAddress(a)
      PROVE  DeviceInv'
  <2>1. FloodOrUnicast' /\ ToSet(last)' \subseteq Effect
    BY <1>5, NothingReceivedInv DEF SetAddress
  <2> QED
    BY <1>1, <1>5, <2>1 DEF SetAddress, TypeOK, DevicesOnce
<1>6. ASSUME NEW dev \in Device \cup {Self}, NEW type \in PacketType, NEW dst \in Address,
             NEW egress \in EgressPort, NEW dropped \in BOOLEAN,
             ReceiveFromDevice(dev, type, dst, egress, dropped)
      PROVE  DeviceInv'
  <2>1. FloodOrUnicast' /\ ToSet(last)' \subseteq Effect
    BY <1>6, ReceivedEffect
  <2> QED
    BY <1>1, <1>6, <2>1 DEF ReceiveFromDevice, TypeOK, DevicesOnce
<1>7. ASSUME NEW dst \in Address, NEW egress \in EgressPort, NEW dropped \in BOOLEAN,
             \/ \E dev \in Device :
                  ReceiveFromDevice(dev, PacketTypeOf(dev, dst), dst, egress, dropped)
             \/ SendFrom(dst, egress, dropped)
      PROVE  DeviceInv'
  <2>1. "OTHERHOST" \in PacketType /\ Self \in Device \cup {Self}
        /\ Device \subseteq Device \cup {Self}
    BY DEF PacketType
  <2> QED
    BY <1>6, <1>7, <2>1, PacketTypes DEF SendFrom
<1>8. CASE UNCHANGED vars
  BY <1>1, <1>8 DEF vars, TypeOK, DevicesOnce, FloodOrUnicast
<1> QED
  BY <1>3, <1>4, <1>5, <1>7, <1>8 DEF Next

\* Whatever ports are added and frames received, the list holds ports, the address is one or
\* none, and what a frame's handling leaves is an effect.
THEOREM TypeCorrect == Spec => []TypeOK
<1>1. DeviceInv => TypeOK
  BY DEF DeviceInv
<1> QED
  BY <1>1, InitDevice, NextDevice, PTL DEF Spec

\* Whatever the data plane says: a received frame leaves only if it came in on a port, any
\* frame on each port at most once, never on its ingress port when flooded, and else only on the port named.
THEOREM LeavesOnce == Spec => []FloodOrUnicast
<1>1. DeviceInv => FloodOrUnicast
  BY DEF DeviceInv
<1> QED
  BY <1>1, InitDevice, NextDevice, PTL DEF Spec

=============================================================================
