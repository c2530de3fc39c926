------------------------------- MODULE Backend -------------------------------
(***************************************************************************)
(* The tables of all the P4 switches of one simulation and the one global  *)
(* pointer bg through which digests and the controller's messages reach    *)
(* them.  create_tables, set_fake_backend, generate_digest, delete_tables  *)
(* and the *_promote functions of p4-interface.c, with the L2 program and  *)
(* recv_from_controller of l2_switch_code/controlplane.c.                  *)
(*                                                                         *)
(* recv_from_controller is an interface for the simulation to call; none   *)
(* of the simulations in the repository does.  Memory is modelled as far   *)
(* as a pointer in it can be dead: bg, and the tables' default_val.  A     *)
(* behaviour ends where the program uses one (undefined).                  *)
(***************************************************************************)
EXTENDS Integers, Sequences

CONSTANTS KeySize, Byte, Broadcast, MAX_PORTS, BROADCAST_PORT,   \* see L2Program
          Switch,         \* the P4SwitchNetDevices of the simulation
          NoSwitch,       \* where bg->t points before set_fake_backend writes it
          Host, Dst,      \* the addresses hosts send from, and to
          InPort,         \* the port numbers of each switch
          MaxMessages     \* bound: controller messages in one behaviour

ASSUME BackendAssumption == /\ NoSwitch \notin Switch
                            /\ InPort \subseteq 0..MAX_PORTS \ {BROADCAST_PORT}
                            /\ Broadcast \notin Host
                            /\ MaxMessages \in Nat

VARIABLES life,         \* life[sw]: absent, then alive, then deleted
          tables,       \* tables[sw]: m_tables of sw
          bg,           \* the switch that bg->t belongs to
          undefined,    \* memory was used that is not, or no longer, there
          lastHandler,  \* the switch that handled the last frame
          seen,         \* seen[sw]: pairs <<source, ingress port>> of the frames sw handled
          told,         \* pairs <<address, port>> in messages that added a forward entry
          messages,     \* how many messages the controller has sent
          careful       \* whether it kept to Harmless messages so far

history == <<lastHandler, seen>>
vars == <<life, tables, bg, undefined, history, told, messages, careful>>

INSTANCE L2Program

\* As in ByteKeys; addresses are keys of both tables.
ASSUME AddressAssumption == /\ KeySize \in Nat \ {0} /\ Byte \subseteq 0..255
                            /\ Host \cup Dst \cup {Broadcast} \subseteq List!Key

\* default_val holding the address of a parameter whose function has returned.
Dangling == [smac |-> "dangling", dmac |-> [action_id |-> "dangling", port |-> 0]]

\* bg->t has been written, and its tables have not been deleted since.
Usable(b) == b \in Switch /\ life[b] = "alive"

Init == /\ life = [sw \in Switch |-> "absent"]
        /\ tables = [sw \in Switch |-> init_tables_v1]    \* of no effect until Install
        /\ bg = NoSwitch
        /\ undefined = FALSE
        /\ lastHandler = NoSwitch
        /\ seen = [sw \in Switch |-> {}]
        /\ told = {}
        /\ messages = 0
        /\ careful = TRUE

\* P4SwitchHelper::Install: the constructor's create_tables allocates a new bg and leaves
\* its fields unset; SetCallbackFunctions calls init_tables_v1.
Install(sw) ==
  /\ ~undefined /\ life[sw] = "absent"
  /\ life' = [life EXCEPT ![sw] = "alive"]
  /\ tables' = [tables EXCEPT ![sw] = init_tables_v1]
  /\ bg' = NoSwitch
  /\ UNCHANGED <<undefined, history, told, messages, careful>>

\* A mutation of set_fake_backend: bg is set for the first frame after create_tables only.
set_fake_backendOnce(sw) == IF bg = NoSwitch THEN sw ELSE bg

\* Where bg->t points while, and after, sw handles a frame.
set_fake_backend(sw) == sw

\* HandlePacket with handle_packet in it.  Lookups go to sw's own tables, the digest to
\* the tables of bg.  A result is dead if it is a dead default; and after a digest that
\* replaced the value the lookup found, apply_table_smac reads that value once more.
HandlePacket(sw, src, dst, inport) ==
  /\ ~undefined /\ life[sw] = "alive"
  /\ bg' = set_fake_backend(sw)
  /\ tables' = IF IsDigested(tables[sw], src) /\ bg' \in Switch
               THEN [tables EXCEPT ![bg'] = p4_msg_digest_v1(@, src, inport)]
               ELSE tables
  /\ undefined' = \/ Lookup(tables[sw].smac, src) = Dangling.smac
                  \/ /\ IsDigested(tables[sw], src)
                     /\ (~Usable(bg') \/ List!Hit(tables[sw].smac.entries, src))
                  \/ Lookup(tables'[sw].dmac, dst) = Dangling.dmac
  /\ lastHandler' = sw
  /\ seen' = [seen EXCEPT ![sw] = @ \cup {<<src, inport>>}]
  /\ UNCHANGED <<life, told, messages, careful>>

-----------------------------------------------------------------------------

\* What a controller can send: any other type, table or action name is the one "other".
Message == [type : {"add", "set_default", "other"}, table_name : {"smac", "dmac", "other"},
            action_name : smac_action \cup {"forward", "bcast", "other"},
            key : Host, port : InPort]

\* The strcmp's of recv_from_controller and of the handlers it calls.
Understood(m) ==
  /\ m.type # "other"
  /\ \/ m.table_name = "smac" /\ m.action_name \in smac_action
     \/ m.table_name = "dmac" /\ m.action_name \in {"forward", "bcast"}

\* The struct that the handler fills in; the port is unused by bcast.
action(m) == CASE m.table_name = "smac"     -> m.action_name
               [] m.action_name = "forward" -> forward(m.port)
               [] m.action_name = "bcast"   -> bcast

\* A message that any use of the tables survives: it adds an entry, other than one that
\* has the program replace that entry while it executes, and bg is set up for it.
Harmless(m) == Understood(m) => /\ Usable(bg)
                                /\ m.type = "add"
                                /\ m.action_name # "mac_learn"

Sent(m) == /\ ~undefined /\ messages < MaxMessages
           /\ messages' = messages + 1
           /\ careful' = (careful /\ Harmless(m))
           /\ UNCHANGED <<life, bg, history>>

\* "Table add entry: ... mismatch", and types recv_from_controller does not handle.
Ignore(m) == Sent(m) /\ ~Understood(m) /\ UNCHANGED <<tables, undefined, told>>

\* A *_promote function dereferences bg->t while it is unset or its tables are deleted.
Stray(m) == /\ Sent(m) /\ Understood(m) /\ ~Usable(bg)
            /\ undefined' = TRUE
            /\ UNCHANGED <<tables, told>>

\* smac_add and dmac_add, by exact_add_promote.
AddEntry(m) ==
  /\ Sent(m) /\ Understood(m) /\ Usable(bg) /\ m.type = "add"
  /\ tables' = [tables EXCEPT ![bg] = Added(@, m.table_name, m.key, action(m))]
  /\ told' = IF m.action_name = "forward" THEN told \cup {<<m.key, m.port>>} ELSE told
  /\ UNCHANGED undefined

\* What table_setdefault leaves in default_val: the pointer it was given.
kept_default(m) == Dangling[m.table_name]

\* smac_setdefault and dmac_setdefault, by table_setdefault_promote, which first frees
\* the old default: undefined if that is a dead stack address already.
SetDefault(m) ==
  /\ Sent(m) /\ Understood(m) /\ Usable(bg) /\ m.type = "set_default"
  /\ tables' = [tables EXCEPT ![bg][m.table_name].default_val = kept_default(m)]
  /\ undefined' = (tables[bg][m.table_name].default_val = Dangling[m.table_name])
  /\ UNCHANGED told

\* ~P4SwitchNetDevice: delete_tables frees entries and defaults; bg is left as it is.
Delete(sw) ==
  /\ ~undefined /\ life[sw] = "alive"
  /\ life' = [life EXCEPT ![sw] = "deleted"]
  /\ undefined' = \E name \in {"smac", "dmac"} :
                    tables[sw][name].default_val = Dangling[name]
  /\ UNCHANGED <<tables, bg, history, told, messages, careful>>

Next == \/ \E sw \in Switch :
             \/ Install(sw)
             \/ Delete(sw)
             \/ \E src \in Host, dst \in Dst, inport \in InPort :
                  HandlePacket(sw, src, dst, inport)
        \/ \E m \in Message : Ignore(m) \/ Stray(m) \/ AddEntry(m) \/ SetDefault(m)

Spec == Init /\ [][Next]_vars

-----------------------------------------------------------------------------

TypeOK ==
  /\ life \in [Switch -> {"absent", "alive", "deleted"}]
  /\ \A sw \in Switch :
       /\ tables[sw].smac \in [entries : Seq([key : List!Key, value : smac_action]),
                               default_val : smac_action \cup {Dangling.smac}]
       /\ tables[sw].dmac \in [entries : Seq([key : List!Key, value : dmac_action]),
                               default_val : dmac_action \cup {Dangling.dmac}]
  /\ {bg, lastHandler} \subseteq Switch \cup {NoSwitch}
  /\ seen \in [Switch -> SUBSET (Host \X InPort)]
  /\ told \subseteq Host \X InPort
  /\ messages \in 0..MaxMessages
  /\ {undefined, careful} \subseteq BOOLEAN

\* However switches are installed, used and deleted, and whatever harmless messages
\* come in between, no handler follows a dead pointer: one global bg is enough.
DefinedIfCareful == careful => ~undefined

\* A switch forwards by what its own frames or the controller told, never by what
\* another switch has learned.
ForwardsByOwnKnowledge ==
  \A sw \in Switch : \A i \in DOMAIN tables[sw].dmac.entries :
    LET e == tables[sw].dmac.entries[i]
    IN  e.value.action_id = "forward" => <<e.key, e.value.port>> \in seen[sw] \cup told

\* A message of the controller, which names no switch, changes no tables but those of
\* the switch that handled the last frame.
MessageMeetsLastHandler ==
  [][messages' # messages
     => \A sw \in Switch : tables'[sw] # tables[sw] => sw = lastHandler]_vars

=============================================================================
