----------------------------- MODULE L2Program -------------------------------
(***************************************************************************)
(* The generated P4 program of l2_switch_code as operators on the tables   *)
(* it is given (lookup_table_t** tables), and the two callbacks of         *)
(* test-switch-l2.cc.  A table is its list of entries and its default_val. *)
(***************************************************************************)
EXTENDS Integers

CONSTANTS KeySize, Byte,              \* keys of both tables, as in ByteKeys
          Broadcast,                  \* ff:ff:ff:ff:ff:ff
          MAX_PORTS, BROADCAST_PORT

smac_action == {"mac_learn", "_nop"}
dmac_action == [action_id : {"forward", "bcast"}, port : 0..MAX_PORTS \cup {BROADCAST_PORT}]

\* A mutation of forward: the two bytes of the port in the other order.
forwardSwapped(port) == [action_id |-> "forward", port |-> 256 * port]

forward(port) == [action_id |-> "forward", port |-> port]
bcast         == [action_id |-> "bcast", port |-> BROADCAST_PORT]

List == INSTANCE ExactList WITH Value <- smac_action    \* its operators fit any Value

Lookup(table, key) == List!exact_lookup(table.entries, key, table.default_val)

Added(tables, name, key, value) ==
  [tables EXCEPT ![name].entries = List!exact_add(@, key, value)]

\* create_tables, then init_tables_v1, which writes both defaults.
init_tables_v1 ==
  [smac |-> [entries |-> <<>>, default_val |-> "mac_learn"],
   dmac |-> [entries |-> List!exact_add(<<>>, Broadcast, bcast), default_val |-> bcast]]

\* The controller: the source is known from now on, and lives behind its ingress port.
p4_msg_digest_v1(t, mac, port) ==
  Added(Added(t, "smac", mac, "_nop"), "dmac", mac, forward(port))

\* A mutation of IsDigested: _nop sends a digest as mac_learn does.
IsDigestedAlways(t, src) == TRUE

\* The two actions of smac: mac_learn sends a digest, _nop does not.
IsDigested(t, src) == Lookup(t.smac, src) = "mac_learn"

\* A mutation of apply_table_smac: the digest carries the destination address.
apply_table_smacOfDst(t, f, inport) ==
  IF IsDigested(t, f.src) THEN p4_msg_digest_v1(t, f.dst, inport) ELSE t

\* A mutation of apply_table_smac: a source is not learned while its destination is unknown.
apply_table_smacLate(t, f, inport) ==
  IF IsDigested(t, f.src) /\ Lookup(t.dmac, f.dst) # t.dmac.default_val
  THEN p4_msg_digest_v1(t, f.src, inport) ELSE t

\* Both actions go on to dmac; what mac_learn does to the tables happens first.
apply_table_smac(t, f, inport) ==
  IF IsDigested(t, f.src) THEN p4_msg_digest_v1(t, f.src, inport) ELSE t

\* A mutation of apply_table_dmac: an unknown destination leaves egress_port at the 0
\* that reset_headers wrote.
apply_table_dmacNoDefault(t, f) ==
  List!exact_lookup(t.dmac.entries, f.dst, forward(0)).port

\* The egress_port that table dmac's action writes: forward's parameter, or 100.
apply_table_dmac(t, f) ==
  LET res == Lookup(t.dmac, f.dst)
  IN  IF res.action_id = "forward" THEN res.port ELSE BROADCAST_PORT

=============================================================================
