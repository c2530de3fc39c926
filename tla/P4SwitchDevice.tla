--------------------------- MODULE P4SwitchDevice ----------------------------
(***************************************************************************)
(* P4SwitchNetDevice under any data plane: the ports it is given, which    *)
(* received frames go up the local stack, which go through the P4 program, *)
(* and where the frames leave.  What the P4 program decides is left open:  *)
(* any egress port, and the dropped flag.  One call is one action: ns-3    *)
(* runs each event to its end.                                             *)
(***************************************************************************)
EXTENDS SwitchPorts, FiniteSets

CONSTANTS Address,        \* MAC addresses
          NoAddress,      \* a default-constructed Mac48Address
          GetAddress,     \* GetAddress[dev]: the address of a port's device
          Broadcast, Multicast,   \* the broadcast address; the multicast ones
          EgressPort,     \* what get_outport can return (a 9-bit field)
          Self            \* the switch device itself, never one of its ports

ASSUME DeviceAssumption ==
  /\ NoAddress \notin Address /\ Self \notin Device
  /\ Broadcast \in Address /\ Multicast \subseteq Address \ {Broadcast}
  /\ GetAddress \in [Device -> Address \ (Multicast \cup {Broadcast})]
  /\ EgressPort \subseteq 0..511

PacketType == {"HOST", "BROADCAST", "MULTICAST", "OTHERHOST"}

\* How a port's device classifies a frame before it calls ReceiveFromDevice.
PacketTypeOf(dev, dst) == CASE dst = Broadcast       -> "BROADCAST"
                            [] dst \in Multicast     -> "MULTICAST"
                            [] dst = GetAddress[dev] -> "HOST"
                            [] OTHER                 -> "OTHERHOST"

VARIABLES m_ports, m_address, m_drop,
          last            \* <<e>>, e the Effect of the last call if it received a frame

vars == <<m_ports, m_address, m_drop, last>>

\* A frame as ReceiveFromDevice sees it, and what became of it: whether it went up
\* the stack (m_rxCallback), whether the P4 program handled it, and the ports it
\* left on.
Effect == [dev : Device \cup {Self}, type : PacketType, dst : Address,
           up : BOOLEAN, handled : BOOLEAN, egress : EgressPort, out : Seq(Port)]
Nothing == <<>>

Init == /\ m_ports = <<>>
        /\ m_address = NoAddress
        /\ m_drop = FALSE
        /\ last = Nothing

\* Install hands every device over once, so dev is not a port yet.
AddSwitchPort(dev) ==
  /\ \A i \in 1..Len(m_ports) : m_ports[i].first # dev
  /\ m_address' = IF m_address = NoAddress THEN GetAddress[dev] ELSE m_address
  /\ m_ports' = IF Len(m_ports) < MAX_PORTS
                THEN Append(m_ports, [first |-> dev, second |-> NewPortNumber(m_ports)])
                ELSE m_ports                                        \* EXFULL
  /\ last' = Nothing
  /\ UNCHANGED m_drop

SetPacketDrop(allowDrop) == /\ m_drop' = allowDrop
                            /\ last' = Nothing
                            /\ UNCHANGED <<m_ports, m_address>>

SetAddress(address) == /\ m_address' = address
                       /\ last' = Nothing
                       /\ UNCHANGED <<m_ports, m_drop>>

\* A mutation of GoesUp: frames for the switch itself go up only when the port's own
\* address is the switch's.
GoesUpHostOnly(type, dst) == type \in {"BROADCAST", "MULTICAST"}
                               \/ (type = "HOST" /\ dst = m_address)

\* The local stack gets every broadcast and multicast, and what is sent to m_address.
GoesUp(type, dst) == \/ type \in {"BROADCAST", "MULTICAST"}
                     \/ type \in {"HOST", "OTHERHOST"} /\ dst = m_address

\* The P4 program gets what is not for this node.
GoesThrough(type, dst) == \/ type \in {"BROADCAST", "MULTICAST"}
                          \/ type = "OTHERHOST" /\ dst # m_address

\* ReceiveFromDevice and, for a frame that goes through, HandlePacket: the data plane
\* leaves `egress` and `dropped` in the packet descriptor; dropped only counts after
\* SetPacketDrop(true).
ReceiveFromDevice(dev, type, dst, egress, dropped) ==
  LET i       == PortOf(m_ports, dev)
      handled == i # 0 /\ GoesThrough(type, dst)
  IN  /\ last' = <<[dev |-> dev, type |-> type, dst |-> dst,
                    up |-> i # 0 /\ GoesUp(type, dst), handled |-> handled, egress |-> egress,
                    out |-> IF handled /\ ~ (m_drop /\ dropped)
                            THEN Egress(m_ports, m_ports[i].second, egress) ELSE <<>>]>>
      /\ UNCHANGED <<m_ports, m_address, m_drop>>

\* Send and SendFrom hand the frame to ReceiveFromDevice with the switch itself as
\* the device it came in on.
SendFrom(dst, egress, dropped) == ReceiveFromDevice(Self, "OTHERHOST", dst, egress, dropped)

Next ==
  \/ \E dev \in Device : AddSwitchPort(dev)
  \/ \E b \in BOOLEAN : SetPacketDrop(b)
  \/ \E a \in Address \ (Multicast \cup {Broadcast}) : SetAddress(a)
  \/ \E dst \in Address, egress \in EgressPort, dropped \in BOOLEAN :
       \/ \E dev \in Device :
            ReceiveFromDevice(dev, PacketTypeOf(dev, dst), dst, egress, dropped)
       \/ SendFrom(dst, egress, dropped)

Spec == Init /\ [][Next]_vars

-----------------------------------------------------------------------------

TypeOK == /\ m_ports \in Seq(Port)
          /\ m_address \in Address \cup {NoAddress}
          /\ m_drop \in BOOLEAN
          /\ ToSet(last) \subseteq Effect

\* Ports are numbered in the order they were added, without a number twice, and no
\* port is ever reached by the number that means "everywhere".  With the code's
\* MAX_PORTS every number still fits the single byte the digest hands the controller.
PortNumbers ==
  /\ \A i, j \in 1..Len(m_ports) : i < j => m_ports[i].second < m_ports[j].second
  /\ \A i \in 1..Len(m_ports) : m_ports[i].second # BROADCAST_PORT
                                /\ m_ports[i].second <= MAX_PORTS

\* A received frame leaves only if it came in on a port, not if its device was refused because
\* the switch was full.  Any frame leaves on each port at most once; never, when flooded, on
\* the port it came in on; and otherwise only on the port the data plane named.
FloodOrUnicast ==
  \A e \in ToSet(last) :
    /\ e.out # <<>> /\ e.dev # Self => \E i \in 1..Len(m_ports) : m_ports[i].first = e.dev
    /\ \A i, j \in 1..Len(e.out) : i # j => e.out[i].first # e.out[j].first
    /\ \A i \in 1..Len(e.out) :
         IF e.egress = BROADCAST_PORT THEN e.out[i].first # e.dev
                                         ELSE e.out[i].second = e.egress

\* What another node sends to the switch's own address arrives at the local stack,
\* whichever port it comes in on, and goes nowhere else.
OwnFramesLocal ==
  \A e \in ToSet(last) :
    /\ e.dst = m_address
    /\ \E i \in 1..Len(m_ports) : m_ports[i].first = e.dev
    => e.up /\ e.out = <<>>

-----------------------------------------------------------------------------
(* What the repository says of the program, and the code does not do.      *)

\* "In order to add IP connectivity to a bridging node you must enable IP on the
\* P4SwitchNetDevice itself": what the switch's own node sends to another address leaves on
\* the port the data plane names, or on all of them for "everywhere", if there is one.
OwnFramesLeave ==
  \A e \in ToSet(last) :
    /\ e.dev = Self /\ e.dst # m_address /\ ~m_drop
    /\ \E i \in 1..Len(m_ports) : e.egress \in {m_ports[i].second, BROADCAST_PORT}
    => e.out # <<>>

=============================================================================
