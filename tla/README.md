# Verification of P4SwitchNetDevice

This directory holds TLA+ models of P4SwitchNetDevice, an ns-3 net device that
switches frames with a C program generated from P4 source, together with the TLC
configurations that check them and the TLAPS proofs about them. Paths below are
relative to the repository's root (`src/` here); line numbers are those of this
commit.

## 1. The system

ns-3 is a discrete-event simulator: one thread, every event handler runs to its
end before the next one starts. Nothing inside the switch interleaves. What does
interleave is the order of events: which host's frame reaches the switch next,
and which table call a controller makes next. A handler is therefore one action
in every module here.

| Component | Code | State it keeps | Operations |
|---|---|---|---|
| Key comparison | `p4/model/p4-interface.c:530-577` | none | `compare_keys`, `compare_ternary_keys` |
| Exact tables | `p4-interface.c:76-133, 294-325, 399-429` | a linked list in descending key order, a default | add, lookup, remove, set default, free |
| LPM tables | `p4-interface.c:135-237, 327-365, 431-488` | a trie: `child` one byte deeper, `next` the sibling, ascending | add, lookup, remove |
| Ternary tables | `p4-interface.c:239-292, 367-397, 490-517` | a linked list of masked entries, newest first | add, lookup, remove |
| Table creation, global backend | `p4-interface.c:6-74, 579-585, 684-716` | the process-wide pointer `bg` to one switch's tables and digest callback | `create_tables`, `set_fake_backend`, `generate_digest`, `*_promote`, `delete_tables` |
| The device | `p4/model/p4-switch-net-device.cc` | `m_ports`, `m_address`, `m_drop`, `m_tables`, `m_digest` | `AddSwitchPort`, `ReceiveFromDevice`, `HandlePacket`, `Send(From)`, setters |
| Helper | `p4/helper/p4-switch-helper.cc` | the device it made | `Install`, `AllowPacketDrop` |
| L2 program | `l2_switch_code/`, `test-switch-l2.cc` | tables `smac`, `dmac` | parse, look up source, learn by digest, look up destination, set egress port |
| L3 program | `l3_switch_code/`, `test-switch-l3.cc` | tables `ipv4_fib_lpm`, `sendout` | parse, verify checksum, FIB lookup, next hop, rewrite, update checksum |
| Control-plane handlers | `l2_switch_code/controlplane.c`, `l3_switch_code/controlplane.c` | none of their own | `recv_from_controller` and the add / set-default handlers |
| Field macros, generated constants | `p4-interface-dependencies.h`, `parser.h`, `tables.c`, `data_plane_data.h` | none | bit-field get and set |

How they interact. A port's own device hands every frame it receives to
`ReceiveFromDevice`, which sends it up the local stack, into `HandlePacket`, or
both. `HandlePacket` makes a packet descriptor, points `bg` at this switch's
tables, and calls the generated `handle_packet`, which looks keys up in the
tables and leaves an egress port in the descriptor. Table `smac`'s action
`mac_learn` calls the simulation's digest callback synchronously, in the middle
of `handle_packet`, and the callback adds entries to the tables the program is
working on. `HandlePacket` then sends a copy of the frame on one port or floods it.

What is hard here: the early stops of the table walks, which are right only while
every call keeps the lists in order; the trie's pointer surgery; the order of
frames from different hosts while addresses are being learned; tables that change
under the program's feet; and one global pointer shared by all switches. The
hazards are listed line by line in `PROJECT.json`.

What makes each component correct:

* a table answers like a dictionary (exact), by longest prefix (LPM), by first
  fitting entry (ternary), whatever calls came before;
* ports have distinct numbers, none of them the number that floods; a frame never
  leaves on the port it came in on when flooded, and leaves each port once;
* the two learning tables agree and name the port a host really is behind; a
  frame reaches everyone it is meant for, and no one else once its destination
  is known;
* a routed frame leaves by the latest and longest route it was given, with a header
  whose TTL and checksum belong together, and a wrong checksum is refused;
* the checksum is the ones' complement sum for a buffer of any length, in the byte order
  of the buffer; a packed field reads back what was written and touches no other bit;
* no digest or controller message reaches another switch's tables, and no pointer is
  used that leads nowhere.

## 2. Modules

| Module | Models | Extends / instantiates |
|---|---|---|
| `ByteKeys` | keys, masks, the two comparisons | |
| `ExactList` | the exact_* functions as operators on a list | `ByteKeys` |
| `TableSpec` | abstract: a dictionary with a default, each step labelled with the call it carries out | |
| `ExactTable` | one exact table under any calls | `ExactList`, instance of `TableSpec` |
| `LpmTable` | one trie under any calls | `ByteKeys`, instance of `TableSpec` |
| `TernaryTable` | one ternary table under any calls; its names say Ternary, for the modules that extend it and another table | `ByteKeys` |
| `SwitchPorts` | port numbering, ingress lookup, egress | |
| `P4SwitchDevice` | the device under *any* data plane | `SwitchPorts` |
| `L2Program` | the L2 data plane and the simulation's two callbacks, as operators on the tables | instance of `ExactList` |
| `L2Switch` | device + L2 program + hosts with frames in flight | instances of `P4SwitchDevice`, `L2Program` |
| `Backend` | several switches' tables, the global `bg`, the controller's messages | instance of `L2Program` |
| `Csum16` | the Internet checksum and the IPv4 header's use of it, as operators | |
| `Csum16Loop` | `calculate_csum16` step by step: two loops, an odd byte, two folds | `Csum16` |
| `FieldBits` | the bit-field macros and the rows of `parser.h` they work on | |
| `PacketDescriptor` | the headers of a descriptor while frame after frame is handled | `FieldBits` |
| `L3Program` | the L3 data plane as operators on a packet descriptor | `Csum16` |
| `L3Switch` | device + L3 program + both its tables + the controller's messages | instances of `P4SwitchDevice`, `LpmTable`, `ExactList`, `L3Program` |
| `*_proof` | lemmas and theorems; `Packet_proof` those of `Csum16Loop` and `PacketDescriptor`, `LpmTernary_proof` those of `LpmTable` and `TernaryTable` | the modules they are named after; those of `L2Switch`, `L3Switch` and `Backend` have instances of the others |
| `MC*` | values for TLC; `MCListTables` has an exact and a ternary table | the module they are named after |

State and actions follow the code's names. A linked list is the sequence of its
entries from `t->table` on. A trie is `kids[p]`, the sequence of next bytes under
the prefix `p` in list order, and `val[p]`. Entries, frames and action values are
records or model values; keys are functions from byte positions to bytes. In
`FieldBits` a number is the set of its one-bits. Operators whose comment begins
"A mutation of" are faulty variants of the operator they precede; no action uses
them. They are used to test that the properties can fail.

Points where the model is deliberately general or narrow:

* Defaults: `create_tables` leaves `default_val` as `malloc` returned it, so
  `Init` allows every value. `table_setdefault` keeps its caller's pointer; the
  table modules assume a buffer that the caller leaves alone, as in the simulations,
  which copy into `default_val`; `Backend` and `L3Switch` model the caller that does not.
* `LpmTable` takes calls with the keys of `CallKey` and the lengths of `PrefixLength` only; values are
  free. A length below one byte or beyond the key is refused, and removing what is not
  found changes nothing; both are calls like the others (`CallAdd`, `CallRemove`).
* `call`, in `ExactTable`, `LpmTable` and `TableSpec`, is history: the latest call and what it was
  given. `Named` in `LpmTable` says which route a call means, from its key and length in bits, without
  the division the code makes.
* `P4SwitchDevice` lets the data plane choose any egress port and the dropped flag;
  what holds there holds for the L2 and the L3 program (section 4). `last` records what became
  of the last frame so that invariants can speak about it.
* `AddSwitchPort` is called once per device, as `Install` does. How a port's device
  classifies a frame (`PacketTypeOf`) is CsmaNetDevice's rule and is marked external in
  `PROJECT.json`.
* `L2Switch` has one host behind each port, as `test-switch-l2.cc` wires it. On a
  segment shared by several hosts a frame between two of them would be sent back
  to that segment by the unicast branch of `HandlePacket`, which does not compare
  with the ingress port; no simulation in the repository has such a segment. Links
  neither lose nor reorder frames: the simulations run far below the queues' limits.
  The way from the switch to a host is left out: `outcome` says on which ports a
  frame left, in order. The broadcast literal 100 of the generated code is the
  constant `BROADCAST_PORT` here.
* `Backend` models memory only as far as a pointer in it can be dead: `bg->t` unset
  (`NoSwitch`) or of a deleted switch, and `default_val` pointing into a stack frame that
  is gone (`Dangling`). Where the program uses such a pointer, or reads a value it has
  just freed, `undefined` becomes true and the behaviour ends: nothing can be said
  of what such a build does next. `recv_from_controller` is an entry point that
  `create_backend` would register with a controller connection; here that function
  does nothing, so no simulation of the repository sends a message. The model is of what
  one that does would meet. `lastHandler`, `seen`, `told` and `careful` are history for
  the properties; which frames leave on which port is `L2Switch`'s matter.
* `L3Switch` has one switch, set up as `test-switch-l3.cc` does. A frame is handled in
  one action: parse, verify, FIB, sendout, update, send, as `HandlePacket` runs without a
  break. Its `undefined` is that of `Backend`: the NULL header pointer of a frame that is not
  IPv4 (`dataplane.c:16`) and the dead defaults of a set-default message end the behaviour.
  Controller messages come after the first frame (what comes before is `Backend`'s).
  A message is any that has the fields of its table (`MessageAssumption`): its route may have any
  first byte, any length and any action, and may name a port, a missing one, or "everywhere". A route
  whose first byte is below all others' loses the others (the run `lpm_front`); `ToldRoute` has it
  that the router has then been told that route only, and a length that `lpm_add` refuses tells it
  nothing. `want` is in whole bytes (`prefix_length \div 8`): to the properties a /12 is a /8.
  `want`, `named` and `arrived` are history: `want` has the latest action for each prefix and for
  each port's number.
* The controller names an IP address as a number of the host, low byte first, and the
  handler turns its bytes round (`l3_switch_code/controlplane.c:25`); the initial tables
  and the data plane use packet order. `want` holds prefixes in packet order.
* IPv4 frames have a header of 20 bytes without options, the only one the parser extracts.
  The test's hosts know each other's hardware addresses beforehand, so ARP is one frame
  kind among others.
* The bit-field masks and the order of the checksum's words are those of a little-endian
  host, for which the constants in `parser.h` were generated. `PacketDescriptor` begins each frame
  with zeroed metadata, as `reset_headers` leaves it.
* Two kinds of access outside an object are left out: the 4-byte write to the
  2-byte `key` of `l3_switch_code/parser.c:53`, and the read of an `index` beyond the action
  value at `l3_switch_code/dataplane.c:46` and `86`; the latter is in the L2 program too, at
  `l2_switch_code/dataplane.c:35` and `83`. C defines neither; the models take
  the outcome in which nothing else is overwritten and the unused index is just a number.

## 3. Runs

| Run | Checks | Size |
|---|---|---|
| `lists` | of an exact table: type, strictly descending list, refinement of `TableSpec` call by call; of a ternary table: type, no key under an older entry, an added key answers | 2-byte keys over bytes 1 and 255 (4 keys, every subset reached), 2 values; all 4 masks, 2 interchangeable values. One of the two tables is in use at a time |
| `lpm` | type, ascending siblings, lookup = longest route in the trie, refinement of a table of routes call by call | 3-byte keys, 5 of them over 3 byte values, so that lists grow at the front, in the middle and at the end; lengths 7, 12, 23, 24, 32 bits: both refused ends, every depth, and each depth but the last cut from a length between two |
| `lpm_front` | *violated*: adding a route keeps the others reachable | as above |
| `ternary_remove` | *violated*: removal deletes all that fits | the ternary table of `lists`, over bytes 1 and 2 |
| `device` | type, port numbers, flood or unicast, own frames stay local | 4 devices, room for 3 ports, broadcast port 1: a full switch and the stepping-over happen; egress ports include a missing one |
| `device_own` | *violated*: what the switch's own node sends leaves | as above |
| `l2` | type, tables agree with the wiring, frames reach their destination, flooding stops, everything is delivered | 3 hosts, 3 frames to hosts, nobody, everybody, the switch; enough for request, reply and a further frame, in every order across links |
| `backend` | type, no dead pointer under harmless messages, switches learn for themselves only, whom a message reaches | 2 switches installed, used and deleted in any order, 1 source on 2 ports, 3 messages: one to make a default dangle, one to read or free it, one between |
| `descriptor` | type, fields read back, nothing else changes, the digest's byte is the port | every port number with one bit set, and 0, 100, 255, 256, 511, 65535; frames of zeroes, of ones, and of both in turn |
| `csum16` | type, loop bounds, result = ones' complement sum, independence of byte order, the call returns | bytes of 2 bits (0, 1 and 3) instead of 8, words of 4; every buffer of up to 9 bytes: empty, odd, one round of the unrolled loop with and without rest, sums that carry |
| `l3` | type, latest and longest route, rewritten addresses, TTL and checksum, lost descriptors, stray pointers | the four hosts of `test-switch-l3.cc`; 12 frames: right, wrong, missing and zero checksums, TTL 0, unknown networks, own, port's and broadcast addresses, not IPv4; 8 messages in any order: a host's route withdrawn, a wider route, a longer one to a missing port, one in front of all that floods, one too short, a source address replaced, both defaults |
| `l3_rewrites` | *violated*: what the actions rewrite is in the packet sent on | as above |

Why such small instances say something: the walks compare one entry at a time, so
three entries around the insertion point (before, at, after) and both ends show every
branch of the list code; depth 2 has both ways of linking (`child` and `next`) and
depth 3 an inner node above an inner node. The checksum's arithmetic is modulo one less
than the number of words, whatever that number is. For the three kinds of tables, the device,
the two programs' switches, the backend, the checksum and the fields the proofs below remove the
bounds altogether.

`ImplementsDictionary` and `ImplementsRouteTable` refine `TableSpec` with its `call`: the step that
carries out `exact_add(k, v)` must be the dictionary's `Put(k, v)`, and `lpm_add` and `lpm_remove` must
change the route that their key and length name, to the value given, and no other. A call that does
nothing, works on another key, or cuts the length to another depth is a violation (the mutants
`exact_addKeepsOld` and `depthOfRoundedUp` are such). The one exception for the trie is
`AddInFront`, the addition below every first byte, which `lpm_front` is about; it too is pinned down: the
new route is the only one afterwards.

What the violated runs show:

* `lpm_front`: `lpm_add` of a first byte smaller than every other executes
  `t->table = s` with `s->next == NULL` (`p4-interface.c:212`): all older routes are lost.
  The test of `lookup-tables-test.cc:185-192` adds out of order, but only below the first byte.
* `device_own`: `p4-switch-net-device.h:57-59` has it that IP connectivity is added "on the
  P4SwitchNetDevice itself". What the switch's own node sends enters `ReceiveFromDevice` as coming from
  the switch, which is no port (`p4-switch-net-device.cc:391`), and leaves nowhere; `Send` returns
  true all the same. `FloodOrUnicast` speaks of received frames only where it asks for an ingress port.
* `ternary_remove`: the comment at `p4-interface.c:490` promises that all fitting entries
  go; the walk stops after one (line 513).
* `l3_rewrites`: `HandlePacket` sends a copy of the packet it was given
  (`p4-switch-net-device.cc:201`). The addresses, TTL and checksum written by the actions
  and by `update_packet` are in the descriptor, which is thrown away.

Observed on the way, and allowed by the properties as they are stated:

* `ternary_add` of a key that an entry fits replaces that entry's value and drops the new mask
  (`p4-interface.c:255`): the new mask's other keys go unanswered. `NoKeyUnderOlderEntry`
  and `AddedKeyAnswers` say what holds instead.
* The comments at `p4-interface.c:140` and `:434` call `prefix_length` "the number of bytes which
  determines the size of the prefix", but lines 148 and 442 divide it by 8, and every caller passes bits.
  Who follows the comments gets a refused call. The code and its callers agree, so the models take bits, and
  `ImplementsRouteTable` has it that the route is the one of the key's whole bytes.
* `smac_setdefault`, `dmac_setdefault` and their L3 counterparts hand over the address of their
  own parameter, which `table_setdefault` keeps (`p4-interface.c:527`). `DefinedIfCareful`
  and `StraysOnlyAsTold` say when that is harmless.
* A frame that is not IPv4 makes the L3 program read through a NULL pointer
  (`l3_switch_code/dataplane.c:16`). `StraysOnlyAsTold`: such frames and dead defaults
  are the only ways to get there.
* An unrouted frame leaves on port 0, with the source address of port 0, because `egress_port`
  is still 0 when `sendout` is looked up (`l3_switch_code/dataplane.c:80`); `RoutedAsTold`
  and `RewrittenAsTold` state it so.
* A right checksum of 0 is refused; it is dropped only after `AllowPacketDrop`.
* Two kinds of memory are lost. Every frame loses the header of its metadata:
  `init_headers` allocates it (`l3_switch_code/dataplane.c:147-149`, `l2_switch_code/dataplane.c:133-138`)
  and nothing frees it, as `HandlePacket` deletes `pd->data` and `pd` only
  (`p4-switch-net-device.cc:213-214`). The error return for a missing port (line 209) skips these two
  deletes as well. `leaked` in `L3Switch` has both kinds; `DescriptorLostOnlyWithoutPort` is about the second,
  that nothing but a route to a missing port leads there. Of the first there is nothing to prove.

`DefinedIfCareful` says which messages are safe: additions, other than of `mac_learn`, that
come while `bg` points at a switch that is there. An entry with `mac_learn` is not
safe because the digest it causes frees the very value that `apply_table_smac` looks
at again (`l2_switch_code/dataplane.c:55`).

Bounds named in the models: `MaxFrames` (frames in a behaviour of `L2Switch`), `MaxMessages`
(messages in one of `Backend`), `MaxLen` (length of a buffer of `Csum16Loop`, at most what
its `uint16_t` can say). `l2`, `backend` and `l3` may stop, when the frames are used up,
every switch is deleted or something undefined has happened, and `csum16` stops when the
call has returned: deadlock is off in these runs and on everywhere else.

Fairness. `L2Switch`: weak fairness of `Install` and of `Handle(dev)` for each
device. The simulator executes every scheduled event, and a frame on a link is a
scheduled event, so a pending frame is handled. Hosts have no obligation to send.
Liveness is stated for frames that were sent, `EverythingDelivered`. `Csum16Loop`: weak fairness of
the steps inside the function, which once called runs on; `Returns`.

## 4. Proofs

All theorems hold for every value of the constants that the named assumptions allow.

* `ByteKeys_proof`: the walk of `compare_keys` is a strict total order on keys
  (`CompareKeysOrder`), through the least differing index (`CompareOverResult`); what putting an
  element into a sequence or taking one out does (`InsertAtProperties`, `RemoveAtProperties`).
* `ExactTable_proof`: in a strictly descending list a walk with early stop hits a key exactly
  when it is in the list (`HitIsMembership`); add and remove keep the list strictly descending
  (`AddDescending`, `RemoveDescending`) and change the answer for their own key only (`AddLookup`,
  `RemoveLookup`). From these `TypeCorrect`, `AlwaysDescending`, and `ExactTableIsDictionary`, the
  refinement of `TableSpec` with its `call`. The inductive invariant is `TypeOK /\ StrictlyDescending`;
  order is needed because without it a lookup could miss an entry that the dictionary
  still has, and a step of the list would not be a step of the dictionary.
* `LpmTernary_proof`, of the trie: `TypeCorrect`, `AlwaysAscending`, `AlwaysLongestPrefix` and
  `LpmTableIsRouteTable`, the refinement of a table of routes. The invariant `IInv` adds two
  parts to `TypeOK` and `SiblingsAscending`: a node has a value only at a route, a prefix that a
  caller can name (`ValuesOnRoutes`), and a node that the sibling lists do not lead to has
  neither value nor children (`FreedNodesEmpty`). Without the first, a lookup could answer by a
  prefix that is no route; without the second, a byte added again would bring old routes back.
  Other modules use `AddRoutes`: an added route has the value, and all others are as they were, or,
  if it was added in front, are gone; and `AddHead`, which byte is then at the head of the table.
* `LpmTernary_proof`, of the ternary list: `TernaryTypeCorrect`, `NoKeyUnderOlder`,
  `AddedAnswers`. `TernaryTypeOK` and `NoKeyUnderOlderEntry` are inductive together: whether an
  entry fits depends on keys and masks, which no call changes, an entry is put in front only
  when nothing fits its key, and removal keeps the order of the rest. `TernaryAddEffect`
  and `TernaryRemoveEffect` say what a call makes of the list, `FirstFitProperties` what the walk
  finds.
* `P4SwitchDevice_proof`: `PortsWellNumbered`. The invariant `Numbered` says more than the
  property: the i-th port's number is `Nth(i)`, i-1 below the broadcast port and i from
  there on; with it an appended port's number follows from the length alone.
  `OwnFramesStayLocal` needs `OwnAddress`, that the switch's address is never a group's: only
  then is a frame for it classified as HOST or OTHERHOST on every port. `TypeCorrect` and
  `LeavesOnce` rest on `DeviceInv`, which adds to `Numbered` that no device is two ports
  (`DevicesOnce`): the code compares port numbers, the property speaks of devices. What the
  flooding loop sends on is shown by induction over the ports it has looked at (`FloodedPorts`).
* `L2Switch_proof`: `TypeCorrect`, `LearnsWhereSeen`, `AlwaysReaches`, `FloodingStops`. The lemmas
  of `P4SwitchDevice_proof` and, for each table, of `ExactTable_proof` are used through instances.
  The invariant `L2Inv` says of every address that it is unknown to both tables, or that `dmac`
  has the port of the host with that address (`WhereSeen`); that what is under way on a link was
  sent by the host at its end (`FramesOK`); that the ports are the devices in their order, all of them
  once a frame is sent (`PortsOK`); and that a host the program got a frame from is known
  (`OutcomesOK`). The last ties past to present: `FloodedOnlyUntilLearned` compares two frames that were
  handled at different times, with other hosts' frames and their digests in between.
* `Backend_proof`: `MessagesReachLastHandler`, by the invariant `BgIsLastHandler`: `bg` is unset
  or points at the tables of the switch that handled the last frame. `CarefulIsDefined` and
  `OwnKnowledge`, by an invariant on the tables of every switch (`TablesOK`): entries of `dmac`
  forward as seen or told, and as long as the controller is careful no default is dead
  and no entry of `smac` learns. It uses the lemmas of `ExactTable_proof` through an instance.
* `Packet_proof` extends `Csum16Loop` and `PacketDescriptor`, the two parts of the code that work on a
  packet's bytes. Of the checksum, `TypeCorrect` and `LoopsStayInside`: with `IInv`, which adds to
  `LoopInvariant` where the counters start and what the odd byte can add, no sum of a buffer of
  less than 2^16 bytes leaves 32 bits. `TwoFolds`, and from it `ReturnsOnesComplement`: two folds of any
  32-bit number give its ones' complement value, for every base of bytes. `SumsTheBuffer`, by the
  invariant `SumInv`: what has been added up is the sum of the words read so far, whichever loop
  read them, so that at the end it is the sum of the reference definition. `SumsInEitherOrder`:
  swapping the bytes of a value multiplies it by the base modulo one less than the number
  of words, so it commutes with the sum (`SwappedValue`). Of the fields, `FieldsTyped`, `FieldsReadBack`,
  `OthersUntouched` and `DigestsNameThePort`, for frames of any content and any 32-bit values: each bit of a
  field has one position in its header (`BitAt`), the macros read (`ReadsBits`) and write (`WritesBits`)
  these positions and no others, for each of the two shapes a row of `parser.h` has here, and no two
  fields of a header share one (`FieldsApart`). The invariant `PInv` is then that every value remembered is
  what its bits say.
* `L3Switch_proof`: `TypeCorrect`, `RoutesAsTold`, `RewritesAsTold`, `HeadersUpdated`,
  `DescriptorsLostAsTold` and `StraysAsTold`, all by the invariant `RouterInv`. The properties speak of
  what the router was told; none is inductive, as a frame is handled by a trie and a list that
  hold the outcome of everything told before. `FibTold` and `SendoutTold` tie the two together:
  each route in the trie is the latest for its prefix and no other is there, and a lookup of
  each port's number answers with the latest source address, or not at all. To keep them,
  `FibOK` has the trie's invariant and `HeadTold`, that the byte at the head of its table is the
  least first byte told, so that a new route is in front of the trie exactly if it is in front of
  all that were told, and loses the same; `SendoutOK` has the list in order; and `Phases` has the order of the set-up: ports, tables, frames,
  messages. A frame that is handled either strays, for one of the three reasons of
  `StraysOnlyAsTold`, or leaves the descriptor `Described` (`HandleEffect`), and from that the
  rest follows. Its parts are lemmas of the components, used through instances: the longest of
  the matching routes (`LookupAnswers`, `FibLookup`), what adding changes (`AddRoutes`,
  `AddLookup`), where the device sends a frame for one port (`EgressNamed`) and for
  all (`EgressCopies`), and that writing the complement of a sum into a header makes its words add up to all ones, whatever was there
  (`ChecksumWritten`). The lemmas `Same...` say that operators of two instances agree.
* Two refinements, `RouterIsDevice` in `L3Switch_proof` and `LearningSwitchIsDevice` in
  `L2Switch_proof`: each step of the two composed switches is a step of `P4SwitchDevice` or leaves its
  variables alone. `P4SwitchDevice` lets the data plane choose; the refinements show that the two real
  ones choose among what it allows, so that port numbers, flooding and the switch's own frames
  are as proved there. They use `RouterInv` and `L2Inv`: that an egress port fits the 9-bit field
  follows from what the tables hold. A controller's message is `SetPacketDrop` to the value it has,
  as it forgets the last frame and changes nothing.

Induction. The library's induction theorems cannot be used here, as they are about an operator
that is a parameter. Where the proofs need induction over numbers they take a least
counterexample (`LeastNatural`, from the well-foundedness of the order on Nat), and where a
function is defined by recursion they first show that a function with these equations exists
(`Recursion`).

Assumptions: `KeySizeAssumption`, `ByteAssumption`, `NoEntryAssumption`, `PortAssumption`,
`DeviceAssumption`, `BackendAssumption`, `ByteBaseAssumption`, `LoopAssumption`, `FieldAssumption`, the two
`AddressAssumption` (the tables' keys are addresses), and for `L2Switch` its `HostAssumption` (every
host has an address of its own, which is no group's and no port's) and `SwitchAssumption` (what
the device assumes, and that the program's 9-bit field can name every port). For `L3Switch` they are a
`SwitchAssumption` of the same kind, `ByteAssumption`, `EntryAssumption` (what stands for "no
entry" is no action), `FrameAssumption` (an IPv4 frame has a whole header of 20 bytes, any 20) and
`MessageAssumption` (a message has the fields of its table, and a route's port fits the 9-bit
field); set-default messages are not limited. TLC evaluates each on the instances it checks.

Model-checked only: the two liveness properties, `EverythingDelivered` and `Returns`, since TLAPS
does not prove liveness. Every other property of a passing run is a theorem. What the violated
runs refute stays with TLC, whose traces show it.

## 5. Plan

Done: tables, device, L2 switch, several switches with their control plane, the L3 router with
its control plane, checksum and packed fields; the proofs of section 4, which cover every safety
property of the passing runs.

Left: the promiscuous receive callback of the device, and a description of the way back, from
the switch to a host, which would make `EverythingDelivered` say that a frame arrives.

Not modelled:

* The promiscuous callback and the callback setters of the device; MTU, interface index, node and
  channel getters and setters: none influences forwarding.
* A host that moves to another port (hazard at `test-switch-l2.cc:95`): the simulations never
  move one, and the models keep each host on its link.
* `max_size` of the table configurations (`l2_switch_code/tables.c:18`): the code never reads it.
* The rest of the generated constants (field rows that neither program uses, name strings): data.
* `create_backend` and `launch_backend`, which do nothing, the ns-3 stubs (`p4-example.cc`,
  `p4-test-suite.cc`, `wscript`), console output, and memory beyond the pointers named above.
