------------------------------ MODULE L2Switch -------------------------------
(***************************************************************************)
(* The learning switch of l2_switch_code, set up as test-switch-l2.cc sets *)
(* it up: a P4SwitchNetDevice with one host behind every port, whose P4    *)
(* program looks the source address up in table smac, has unknown sources  *)
(* learned by the digest callback, and forwards by table dmac.             *)
(*                                                                         *)
(* Composes P4SwitchDevice (ports, classification, egress) and L2Program   *)
(* (both tables).  The digest callback runs inside handle_packet, so one   *)
(* frame is handled in one action; what interleaves are the hosts and the  *)
(* frames they have under way on their links.                              *)
(***************************************************************************)
EXTENDS SwitchPorts, FiniteSets

CONSTANTS KeySize, Byte,          \* keys of both tables, as in ByteKeys
          Address, NoAddress, GetAddress, Broadcast, Multicast, EgressPort, Self,
          Devices,                \* the switch's port devices, in the order installed
          HostAddress,            \* HostAddress[dev]: the host at the far end of dev's link
          Dst,                    \* the addresses hosts send to
          MaxFrames               \* bound: frames sent in one behaviour

ASSUME HostAssumption ==
  /\ Devices \in Seq(Device) /\ ToSet(Devices) = Device
  /\ HostAddress \in [Device -> Address \ (Multicast \cup {Broadcast})]
  /\ \A d, e \in Device : HostAddress[d] # GetAddress[e]
                          /\ (d # e => HostAddress[d] # HostAddress[e])
  /\ Dst \subseteq Address

\* As P4SwitchDevice has it; and the program's own 9-bit field can name every port.
ASSUME SwitchAssumption ==
  /\ NoAddress \notin Address /\ Self \notin Device
  /\ Broadcast \in Address /\ Multicast \subseteq Address \ {Broadcast}
  /\ GetAddress \in [Device -> Address \ (Multicast \cup {Broadcast})]
  /\ EgressPort \subseteq 0..511 /\ 0..MAX_PORTS \cup {BROADCAST_PORT} \subseteq EgressPort

VARIABLES m_ports, m_address, m_drop, last,     \* the device, see P4SwitchDevice
          m_tables,     \* m_tables.smac and m_tables.dmac
          sent,         \* the frames sent so far; a frame's id is its index
          toSwitch,     \* toSwitch[dev]: ids under way on dev's link, oldest first
          outcome       \* what the switch did with the frames it received, in order

switchVars == <<m_ports, m_address, m_drop, last>>
vars       == <<m_ports, m_address, m_drop, last, m_tables, sent, toSwitch, outcome>>

Switch == INSTANCE P4SwitchDevice
INSTANCE L2Program

\* The tables' keys are addresses.
ASSUME AddressAssumption == /\ KeySize \in Nat \ {0} /\ Byte \subseteq 0..255
                            /\ Address \subseteq List!Key

-----------------------------------------------------------------------------

Init == /\ Switch!Init
        /\ m_tables = init_tables_v1
        /\ sent = <<>>
        /\ toSwitch = [d \in Device |-> <<>>]
        /\ outcome = <<>>

\* P4SwitchHelper::Install adds the devices in the container's order before the
\* simulation starts.
Install == /\ Len(m_ports) < Len(Devices)
           /\ Switch!AddSwitchPort(Devices[Len(m_ports) + 1])
           /\ UNCHANGED <<m_tables, sent, toSwitch, outcome>>

\* A host hands a frame to its end of the link; both are the network's, not the switch's.
Send(dev, dst) ==
  /\ Len(m_ports) = Len(Devices)
  /\ Len(sent) < MaxFrames
  /\ dst # HostAddress[dev]
  /\ sent' = Append(sent, [src |-> HostAddress[dev], dst |-> dst])
  /\ toSwitch' = [toSwitch EXCEPT ![dev] = Append(@, Len(sent'))]
  /\ UNCHANGED <<switchVars, m_tables, outcome>>

\* ReceiveFromDevice and HandlePacket, with handle_packet of the P4 program in it.  The
\* data plane never sets pd->dropped.
Handle(dev) ==
  /\ toSwitch[dev] # <<>>
  /\ \E id \in {Head(toSwitch[dev])} :
     \E learned \in {apply_table_smac(m_tables, sent[id], m_ports[PortOf(m_ports, dev)].second)} :
     \E egress \in {apply_table_dmac(learned, sent[id])} :
       /\ Switch!ReceiveFromDevice(dev, Switch!PacketTypeOf(dev, sent[id].dst), sent[id].dst,
                                   egress, FALSE)
       /\ m_tables' = IF last'[1].handled THEN learned ELSE m_tables
       /\ outcome' = Append(outcome, [id |-> id, dev |-> dev, handled |-> last'[1].handled,
                            out |-> [i \in DOMAIN last'[1].out |-> last'[1].out[i].first]])
  /\ toSwitch' = [toSwitch EXCEPT ![dev] = Tail(@)]
  /\ UNCHANGED sent

Next == \/ Install
        \/ \E dev \in Device : \/ \E dst \in Dst : Send(dev, dst)
                               \/ Handle(dev)

\* A frame on a link arrives: the simulator runs every event it has scheduled.
Spec == /\ Init /\ [][Next]_vars
        /\ WF_vars(Install)
        /\ \A dev \in Device : WF_vars(Handle(dev))

-----------------------------------------------------------------------------

Frame == [src : Address, dst : Address]

TypeOK ==
  /\ Switch!TypeOK
  /\ m_tables.smac \in [entries : Seq([key : List!Key, value : smac_action]),
                       default_val : smac_action]
  /\ m_tables.dmac \in [entries : Seq([key : List!Key, value : dmac_action]),
                       default_val : dmac_action]
  /\ sent \in Seq(Frame)
  /\ toSwitch \in [Device -> Seq(1..Len(sent))]
  /\ outcome \in Seq([id : 1..Len(sent), dev : Device, handled : BOOLEAN,
                      out : Seq(Device)])

\* The two tables agree: smac calls a source known exactly when dmac has a port for it,
\* and that is the port the source is behind.
LearnedWhereSeen ==
  \A a \in Address \ {Broadcast} :
    LET known == Lookup(m_tables.smac, a) = "_nop"
        port  == Lookup(m_tables.dmac, a)
    IN  /\ known <=> port # bcast
        /\ known => \E i \in DOMAIN m_ports :
                      /\ m_ports[i].second = port.port
                      /\ HostAddress[m_ports[i].first] = a

\* Of the frames the P4 program got, one for another host leaves on that host's port
\* exactly once, a broadcast on every port but its own exactly once, and none goes back
\* to its sender: whatever the switch had learned by then.
ReachesDestination ==
  \A i \in DOMAIN outcome :
    LET o == outcome[i]
        Copies(d) == Cardinality({k \in DOMAIN o.out : o.out[k] = d})
    IN  o.handled =>
          /\ Copies(o.dev) = 0
          /\ \A d \in Device \ {o.dev} :
               sent[o.id].dst \in {HostAddress[d], Broadcast} => Copies(d) = 1

\* Flooding stops with the first frame from a host: whatever is handled after one of its
\* frames and is addressed to it leaves on no port but its own.
FloodedOnlyUntilLearned ==
  \A i, j \in DOMAIN outcome :
    /\ i < j /\ outcome[i].handled
    /\ sent[outcome[j].id].dst = sent[outcome[i].id].src
    => \A k \in DOMAIN outcome[j].out : outcome[j].out[k] = outcome[i].dev

\* Every frame sent to a host or to all leaves towards everyone it is meant for,
\* whatever frames overtake it on the other links.
EverythingDelivered ==
  \A id \in 1..MaxFrames : \A d \in Device :
    (id <= Len(sent) /\ sent[id].dst \in {HostAddress[d], Broadcast}
                     /\ sent[id].src # HostAddress[d])
    ~> \E i \in DOMAIN outcome : outcome[i].id = id /\ d \in ToSet(outcome[i].out)

=============================================================================
