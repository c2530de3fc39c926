----------------------------- MODULE SwitchPorts -----------------------------
(***************************************************************************)
(* The port list of a P4SwitchNetDevice: how AddSwitchPort numbers a port, *)
(* how ReceiveFromDevice finds the port a frame came in on, and on which   *)
(* ports HandlePacket sends the frame out.                                 *)
(***************************************************************************)
EXTENDS Integers, SequencesExt

CONSTANTS Device,         \* the net devices that can become ports
          MAX_PORTS,      \* 255 in p4-interface.h
          BROADCAST_PORT  \* 100: "send everywhere", never a port's number

ASSUME PortAssumption == MAX_PORTS \in Nat \ {0} /\ BROADCAST_PORT \in Nat

Port == [first : Device, second : Nat]        \* Port_t

\* A mutation of NewPortNumber: the broadcast port is stepped over at 0 only.
NewPortNumberNoSkip(ports) ==
  IF ports = <<>> THEN (IF BROADCAST_PORT = 0 THEN 1 ELSE 0) ELSE Last(ports).second + 1

\* A mutation of NewPortNumber: a port is numbered before it is counted.
NewPortNumberTooLow(ports) == Len(ports) - 1

\* One more than the last port's number, stepping over the broadcast port.
NewPortNumber(ports) ==
  LET n == IF ports = <<>> THEN 0 ELSE Last(ports).second + 1
  IN  IF n = BROADCAST_PORT THEN n + 1 ELSE n

\* The first port whose device is dev (0 if there is none).
PortOf(ports, dev) == SelectInSeq(ports, LAMBDA port : port.first = dev)

\* The ports that HandlePacket's loop over m_ports sends a flooded frame on, in order: all
\* whose number is not the ingress port's.
Flooded(ports, inport) ==
  LET sentOn[i \in 0..Len(ports)] ==
        IF i = 0 THEN <<>>
        ELSE IF ports[i].second # inport THEN Append(sentOn[i - 1], ports[i]) ELSE sentOn[i - 1]
  IN  sentOn[Len(ports)]

\* A mutation of Egress: a flood goes back out of the port the frame came in on.
EgressFloodAll(ports, inport, port) ==
  IF port = BROADCAST_PORT THEN ports
  ELSE LET i == SelectInSeq(ports, LAMBDA p : p.second = port)
       IN  IF i = 0 THEN <<>> ELSE <<ports[i]>>

\* The ports a frame is sent on, one after the other: all but the ingress port when
\* the data plane says BROADCAST_PORT, else the first port with that number, if any.
Egress(ports, inport, port) ==
  IF port = BROADCAST_PORT
  THEN Flooded(ports, inport)
  ELSE LET i == SelectInSeq(ports, LAMBDA p : p.second = port)
       IN  IF i = 0 THEN <<>> ELSE <<ports[i]>>

=============================================================================
