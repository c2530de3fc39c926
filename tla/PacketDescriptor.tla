-------------------------- MODULE PacketDescriptor ---------------------------
(***************************************************************************)
(* The headers of a packet descriptor while one frame after the other is   *)
(* handled: the device zeroes the metadata and writes the ingress port,    *)
(* an action writes the egress port, update_packet the IPv4 fields.  All   *)
(* of these fields share bytes or lie side by side.  (The names of the     *)
(* specification carry a Pd: its theorems stand beside those of Csum16Loop *)
(* in a module that extends both.)                                         *)
(***************************************************************************)
EXTENDS FieldBits

CONSTANTS Frame,          \* [ethernet, ipv4]: the headers of the frames that arrive
          Inport,         \* what initialize is given
          PortParam,      \* the two bytes of an action's port parameter, or 100
          Ttl, Csum       \* what update_packet writes, in 32 bits

HeaderBits == SUBSET (0..159)                    \* at most 20 bytes
ASSUME FieldAssumption ==
  /\ Frame \subseteq [ethernet : HeaderBits, ipv4 : HeaderBits]
  /\ Inport \subseteq SUBSET Word /\ PortParam \subseteq SUBSET (0..15)
  /\ Ttl \subseteq SUBSET Word /\ Csum \subseteq SUBSET Word

VARIABLES headers,        \* pd->headers[h].pointer, as bits
          value,          \* value[f]: what field f was last given, or arrived with
          phase           \* how far HandlePacket is with the frame

pdVars == <<headers, value, phase>>

Get(hs, f) == GET_INT32_AUTO(hs[field_instance[f].header], field_instance[f])

\* reset_headers zeroes the metadata; the other two headers are the frame's own bytes.
Fresh(frame) == [standard_metadata |-> {}, ethernet |-> frame.ethernet, ipv4 |-> frame.ipv4]

PdInit == /\ \E frame \in Frame : headers = Fresh(frame)
          /\ value = [f \in Field |-> Get(headers, f)]
          /\ phase = "reset"

\* A mutation of Fits: a field keeps all it is given.
FitsAll(f, v) == v

\* A field keeps the low bits of what it is given.
Fits(f, v) == v \cap 0..(field_instance[f].bitwidth - 1)

Put(hs, f, v) ==
  [hs EXCEPT ![field_instance[f].header] = MODIFY_INT32_INT32_BITS(@, field_instance[f], v)]

initialize(inport) ==
  /\ phase = "reset" /\ phase' = "parse"
  /\ headers' = Put(headers, "ingress_port", inport)
  /\ value' = [value EXCEPT !.ingress_port = Fits("ingress_port", inport)]

\* fib_hit_nexthop, forward or bcast.
SetEgressPort(port) ==
  /\ phase = "parse" /\ phase' = "update"
  /\ headers' = Put(headers, "egress_port", port)
  /\ value' = [value EXCEPT !.egress_port = Fits("egress_port", port)]

\* on_miss leaves the egress port alone.
on_miss == phase = "parse" /\ phase' = "update" /\ UNCHANGED <<headers, value>>

update_packet(t, c) ==
  /\ phase = "update" /\ phase' = "done"
  /\ headers' = Put(Put(headers, "ttl", t), "hdrChecksum", c)
  /\ value' = [value EXCEPT !.ttl = Fits("ttl", t), !.hdrChecksum = Fits("hdrChecksum", c)]

\* The next frame has a descriptor of its own.
NextFrame == /\ phase = "done" /\ phase' = "reset"
             /\ \E frame \in Frame : headers' = Fresh(frame)
             /\ value' = [f \in Field |-> Get(headers', f)]

PdNext == \/ \E inport \in Inport : initialize(inport)
          \/ \E port \in PortParam : SetEgressPort(port)
          \/ on_miss
          \/ \E t \in Ttl, c \in Csum : update_packet(t, c)
          \/ NextFrame

PdSpec == PdInit /\ [][PdNext]_pdVars

-----------------------------------------------------------------------------

PdTypeOK ==
  /\ headers \in [standard_metadata : HeaderBits, ethernet : HeaderBits, ipv4 : HeaderBits]
  /\ value \in [Field -> SUBSET Word]
  /\ \A f \in Field : value[f] \subseteq 0..(field_instance[f].bitwidth - 1)
  /\ phase \in {"reset", "parse", "update", "done"}

\* A field reads back, by either macro, what it was last given, however its neighbours
\* in the same bytes were written since: a port up to 511 that an action names is the port
\* get_outport returns.
ReadsBack ==
  \A f \in Field :
    /\ Get(headers, f) = value[f]
    /\ EXTRACT_INT32_BITS(headers[field_instance[f].header], field_instance[f]) = value[f]

\* The bits of a header that are field f's own.
Own(f) == {8 * field_instance[f].byteoffset + b : b \in field_instance[f].mask}

\* While a frame is handled a header changes only in bits of fields that were given a value.
OnlyOwnBits ==
  [][phase # "done" =>
       \A h \in DOMAIN headers : \A b \in 0..159 :
         (b \in headers[h]) # (b \in headers'[h]) =>
           \E f \in Field : /\ field_instance[f].header = h /\ b \in Own(f)
                            /\ value'[f] # value[f]]_pdVars

\* The digest hands the controller the address of ingress_port's first byte, and
\* p4_msg_digest_v1 takes that byte for the port: right for every port below 256.
DigestByte ==
  value.ingress_port \subseteq 0..7 =>
    BitsAt(headers.standard_metadata, ingress_port, 8) = value.ingress_port

=============================================================================
