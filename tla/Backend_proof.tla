---------------------------- MODULE Backend_proof ----------------------------
(***************************************************************************)
(* Whom the controller's messages reach, what a switch forwards by, and    *)
(* that careful use of the one global bg is defined, for any number of     *)
(* switches, hosts, ports and messages.                                    *)
(*                                                                         *)
(* None of these is inductive.  MessageMeetsLastHandler needs that bg is   *)
(* unset or follows the last handler; the other two need what entries and  *)
(* defaults the tables of every switch can hold (TablesOK).                *)
(***************************************************************************)
EXTENDS Backend, SequenceTheorems, TLAPS

\* bg is unset or points at the tables of the switch that handled the last frame, and
\* there are tables for every switch.
BgIsLastHandler ==
  /\ bg = NoSwitch \/ bg = lastHandler
  /\ DOMAIN tables = Switch

\* create_tables unsets bg, set_fake_backend points it at the handling switch, and
\* nothing else writes it.
LEMMA BgIsLastHandlerInvariant == Spec => []BgIsLastHandler
<1>1. Init => BgIsLastHandler
  BY DEF Init, BgIsLastHandler
<1>2. BgIsLastHandler /\ [Next]_vars => BgIsLastHandler'
  <2> SUFFICES ASSUME BgIsLastHandler, [Next]_vars PROVE BgIsLastHandler'
    OBVIOUS
  <2>1. ASSUME NEW sw \in Switch, Install(sw) PROVE BgIsLastHandler'
    BY <2>1 DEF Install, BgIsLastHandler
  <2>2. ASSUME NEW sw \in Switch, Delete(sw) PROVE BgIsLastHandler'
    BY <2>2 DEF Delete, BgIsLastHandler, history
  <2>3. ASSUME NEW sw \in Switch, NEW src \in Host, NEW dst \in Dst, NEW inport \in InPort,
               HandlePacket(sw, src, dst, inport)
        PROVE  BgIsLastHandler'
    <3>1. bg' = lastHandler'
      BY <2>3 DEF HandlePacket, set_fake_backend
    <3>2. DOMAIN tables' = DOMAIN tables
      BY <2>3 DEF HandlePacket
    <3> QED
      BY <3>1, <3>2 DEF BgIsLastHandler
  <2>4. ASSUME NEW m \in Message, Ignore(m) \/ Stray(m) \/ AddEntry(m) \/ SetDefault(m)
        PROVE  BgIsLastHandler'
    <3>1. bg' = bg /\ lastHandler' = lastHandler
      BY <2>4 DEF Ignore, Stray, AddEntry, SetDefault, Sent, history
    <3>2. DOMAIN tables' = DOMAIN tables
      BY <2>4 DEF Ignore, Stray, AddEntry, SetDefault
    <3> QED
      BY <3>1, <3>2 DEF BgIsLastHandler
  <2>5. CASE UNCHANGED vars
    BY <2>5 DEF vars, history, BgIsLastHandler
  <2> QED
    BY <2>1, <2>2, <2>3, <2>4, <2>5 DEF Next
<1> QED
  BY <1>1, <1>2, PTL DEF Spec

\* A message of the controller changes no tables but those of the switch that handled
\* the last frame.
THEOREM MessagesReachLastHandler == Spec => MessageMeetsLastHandler
<1> DEFINE Meets == messages' # messages
                      => \A sw \in Switch : tables'[sw] # tables[sw] => sw = lastHandler
<1>1. BgIsLastHandler /\ [Next]_vars => [Meets]_vars
  <2> SUFFICES ASSUME BgIsLastHandler, Next PROVE Meets
    OBVIOUS
  <2>1. ASSUME NEW sw \in Switch, Install(sw) \/ Delete(sw) PROVE Meets
    BY <2>1 DEF Install, Delete
  <2>2. ASSUME NEW sw \in Switch, NEW src \in Host, NEW dst \in Dst, NEW inport \in InPort,
               HandlePacket(sw, src, dst, inport)
        PROVE  Meets
    BY <2>2 DEF HandlePacket
  <2>3. ASSUME NEW m \in Message, Ignore(m) \/ Stray(m) PROVE Meets
    BY <2>3 DEF Ignore, Stray
  <2>4. ASSUME NEW m \in Message, AddEntry(m) \/ SetDefault(m) PROVE Meets
    <3>1. bg = lastHandler
      BY <2>4, BackendAssumption DEF AddEntry, SetDefault, Usable, BgIsLastHandler
    <3>2. PICK x : tables' = [tables EXCEPT ![bg] = x]
      BY <2>4 DEF AddEntry, SetDefault
    <3>3. ASSUME NEW sw \in Switch, sw # bg PROVE tables'[sw] = tables[sw]
      BY <3>2, <3>3 DEF BgIsLastHandler
    <3> QED
      BY <3>1, <3>3
  <2> QED
    BY <2>1, <2>2, <2>3, <2>4 DEF Next
<1> QED
  BY <1>1, BgIsLastHandlerInvariant, PTL DEF Spec, MessageMeetsLastHandler

-----------------------------------------------------------------------------
(* The entries and defaults of one switch's tables.  The lemmas of         *)
(* ExactTable_proof about lists are used for entries of either table; what *)
(* its instance has for the variables does not matter.                     *)

AnyAction == smac_action \cup dmac_action
NoAction == CHOOSE v : v \notin AnyAction
Any == INSTANCE ExactTable_proof WITH Value <- AnyAction, NoEntry <- NoAction,
                                      table <- <<>>, default_val <- NoAction, call <- <<>>

\* What can be said of the tables T of a switch whose frames and whose controller told the
\* pairs in `facts`, as long as the controller's messages were (c) harmless.
TablesOK(T, facts, c) ==
  /\ T \in [smac : [entries : Seq(Any!Entry), default_val : smac_action \cup {Dangling.smac}],
            dmac : [entries : Seq(Any!Entry), default_val : dmac_action \cup {Dangling.dmac}]]
  /\ \A i \in 1..Len(T.smac.entries) :
       /\ T.smac.entries[i].value \in smac_action
       /\ c => T.smac.entries[i].value = "_nop"
  /\ \A i \in 1..Len(T.dmac.entries) :
       LET e == T.dmac.entries[i]
       IN  /\ e.value \in dmac_action
           /\ e.value.action_id = "forward" => <<e.key, e.value.port>> \in facts
  /\ c => T.smac.default_val # Dangling.smac /\ T.dmac.default_val # Dangling.dmac

\* Addresses are keys, and not everything is an action.
LEMMA AddressesAreKeys ==
  /\ KeySize \in Nat \ {0} /\ Byte \subseteq 0..255
  /\ \A k \in Host \cup Dst \cup {Broadcast} : k \in Any!Key
  /\ NoAction \notin AnyAction
<1>1. \E v : v \notin AnyAction
  <2> DEFINE v == {x \in AnyAction : x \notin x}
  <2>1. ASSUME v \in AnyAction PROVE FALSE
    <3>1. \A x : x \in v <=> x \in AnyAction /\ x \notin x
      OBVIOUS
    <3> HIDE DEF v
    <3>2. v \in v <=> v \in AnyAction /\ v \notin v
      BY <3>1
    <3> QED
      BY <2>1, <3>2
  <2> QED
    BY <2>1
<1> QED
  BY <1>1, AddressAssumption DEF List!Key, Any!Key, NoAction

\* The two instances of ExactList agree.
LEMMA SameList ==
  ASSUME NEW t, NEW k
  PROVE  /\ List!StopAt(t, k) = Any!StopAt(t, k)
         /\ List!Hit(t, k) <=> Any!Hit(t, k)
         /\ \A v : List!exact_add(t, k, v) = Any!exact_add(t, k, v)
<1>1. List!StopAt(t, k) = Any!StopAt(t, k)
  BY DEF List!StopAt, Any!StopAt, List!compare_keys, Any!compare_keys,
         List!CompareOver, Any!CompareOver, List!Min, Any!Min
<1>2. List!Hit(t, k) <=> Any!Hit(t, k)
  BY <1>1 DEF List!Hit, Any!Hit, List!compare_keys, Any!compare_keys,
              List!CompareOver, Any!CompareOver, List!Min, Any!Min
<1>3. ASSUME NEW v PROVE List!exact_add(t, k, v) = Any!exact_add(t, k, v)
  BY <1>1, <1>2 DEF List!exact_add, Any!exact_add, List!InsertAt, Any!InsertAt
<1> QED
  BY <1>1, <1>2, <1>3

\* A hit is an entry with the key.
LEMMA HitEntry ==
  ASSUME NEW t \in Seq(Any!Entry), NEW k \in Any!Key
  PROVE  /\ Any!StopAt(t, k) \in 1..(Len(t) + 1)
         /\ List!Hit(t, k) => /\ Any!StopAt(t, k) \in 1..Len(t)
                              /\ t[Any!StopAt(t, k)].key = k
<1> DEFINE s == Any!StopAt(t, k)
<1>1. Len(t) \in Nat /\ s \in 1..(Len(t) + 1)
  BY AddressesAreKeys, Any!StopAtProperties
<1> HIDE DEF s
<1>2. ASSUME List!Hit(t, k) PROVE s \in 1..Len(t) /\ t[s].key = k
  <2>1. s <= Len(t) /\ Any!compare_keys(k, t[s].key, KeySize) = 0
    BY <1>2, SameList DEF Any!Hit, s
  <2>2. s \in 1..Len(t)
    BY <1>1, <2>1
  <2>3. t[s].key \in Any!Key
    BY <2>2, AddressesAreKeys, Any!EntryOfList
  <2> QED
    BY <2>1, <2>2, <2>3, AddressesAreKeys, Any!CompareKeysOrder
<1> QED
  BY <1>1, <1>2 DEF s

\* exact_add leaves the entries there were, and the one it was given.
LEMMA AddMembers ==
  ASSUME NEW t \in Seq(Any!Entry), NEW k \in Any!Key, NEW v \in AnyAction,
         NEW u, u = List!exact_add(t, k, v)
  PROVE  /\ u \in Seq(Any!Entry)
         /\ \A i \in 1..Len(u) : \/ u[i].key = k /\ u[i].value = v
                                 \/ \E j \in 1..Len(t) : u[i] = t[j]
<1> DEFINE s == Any!StopAt(t, k)
           new == [key |-> k, value |-> v]
<1>1. Len(t) \in Nat /\ s \in 1..(Len(t) + 1)
  BY HitEntry
<1>2. new \in Any!Entry /\ new.key = k /\ new.value = v
  BY DEF Any!Entry
<1>3. CASE List!Hit(t, k)
  <2> DEFINE upd == [t[s] EXCEPT !.value = v]
  <2>1. s \in 1..Len(t) /\ t[s].key = k
    BY <1>3, HitEntry
  <2>2. t[s] \in Any!Entry
    BY <2>1, AddressesAreKeys, Any!EntryOfList
  <2>3. upd \in Any!Entry /\ upd.key = k /\ upd.value = v
    BY <2>1, <2>2 DEF Any!Entry
  <2>4. u = [t EXCEPT ![s] = upd]
    BY <1>3, SameList DEF Any!exact_add
  <2> HIDE DEF upd, s
  <2>5. /\ u \in Seq(Any!Entry) /\ Len(u) = Len(t)
        /\ \A i \in 1..Len(t) : u[i] = IF i = s THEN upd ELSE t[i]
    BY <1>1, <2>1, <2>3, <2>4, ExceptSeq
  <2> QED
    BY <2>3, <2>5
<1>4. CASE ~List!Hit(t, k)
  <2>1. u = Any!InsertAt(t, s, new)
    BY <1>4, SameList DEF Any!exact_add
  <2> HIDE DEF s, new
  <2>2. /\ u \in Seq(Any!Entry) /\ Len(u) = Len(t) + 1
        /\ \A i \in 1..(Len(t) + 1) :
             u[i] = IF i < s THEN t[i] ELSE IF i = s THEN new ELSE t[i - 1]
    <3>1. t \in Seq(Any!Entry) /\ s \in 1..(Len(t) + 1) /\ new \in Any!Entry
      BY <1>1, <1>2
    <3>2. /\ Any!InsertAt(t, s, new) \in Seq(Any!Entry)
          /\ Len(Any!InsertAt(t, s, new)) = Len(t) + 1
          /\ \A i \in 1..(Len(t) + 1) :
               Any!InsertAt(t, s, new)[i] = IF i < s THEN t[i] ELSE IF i = s THEN new ELSE t[i - 1]
      BY <3>1, AddressesAreKeys, Any!InsertAtProperties
    <3> QED
      BY <2>1, <3>2
  <2>3. ASSUME NEW i \in 1..Len(u), i # s
        PROVE  \E j \in 1..Len(t) : u[i] = t[j]
    <3>1. CASE i < s
      BY <1>1, <2>2, <2>3, <3>1
    <3>2. CASE ~(i < s)
      <4>1. i - 1 \in 1..Len(t) /\ u[i] = t[i - 1]
        BY <1>1, <2>2, <2>3, <3>2
      <4> QED
        BY <4>1
    <3> QED
      BY <3>1, <3>2
  <2>4. s \in 1..Len(u) => u[s] = new
    BY <1>1, <2>2
  <2> QED
    BY <1>2, <2>2, <2>3, <2>4
<1> QED
  BY <1>3, <1>4

\* Facts only become more, and promises fewer.
LEMMA TablesMonotonic ==
  ASSUME NEW T, NEW F, NEW G, NEW c, NEW d, TablesOK(T, F, c), F \subseteq G, d => c
  PROVE  TablesOK(T, G, d)
BY DEF TablesOK

\* A new entry of smac; none that learns, if the controller is careful.
LEMMA AddedToSmac ==
  ASSUME NEW T, NEW F, NEW c, TablesOK(T, F, c),
         NEW k \in Any!Key, NEW v \in smac_action, c => v = "_nop"
  PROVE  TablesOK(Added(T, "smac", k, v), F, c)
<1> DEFINE t == T.smac.entries
           u == List!exact_add(t, k, v)
           U == Added(T, "smac", k, v)
<1>1. t \in Seq(Any!Entry) /\ v \in AnyAction
  BY DEF TablesOK, AnyAction
<1>2. /\ u \in Seq(Any!Entry)
      /\ \A i \in 1..Len(u) : \/ u[i].key = k /\ u[i].value = v
                              \/ \E j \in 1..Len(t) : u[i] = t[j]
  BY <1>1, AddMembers
<1>3. U = [T EXCEPT !.smac.entries = u]
  BY DEF Added
<1> HIDE DEF u, U
<1>4. /\ U.smac.entries = u /\ U.smac.default_val = T.smac.default_val /\ U.dmac = T.dmac
      /\ U \in [smac : [entries : Seq(Any!Entry), default_val : smac_action \cup {Dangling.smac}],
                dmac : [entries : Seq(Any!Entry), default_val : dmac_action \cup {Dangling.dmac}]]
  BY <1>2, <1>3 DEF TablesOK
<1>5. \A i \in 1..Len(u) : u[i].value \in smac_action /\ (c => u[i].value = "_nop")
  BY <1>2 DEF TablesOK
<1> QED
  BY <1>4, <1>5 DEF TablesOK, U

\* A new entry of dmac, that forwards as told if it forwards.
LEMMA AddedToDmac ==
  ASSUME NEW T, NEW F, NEW c, TablesOK(T, F, c), NEW k \in Any!Key, NEW v \in dmac_action,
         v.action_id = "forward" => <<k, v.port>> \in F
  PROVE  TablesOK(Added(T, "dmac", k, v), F, c)
<1> DEFINE t == T.dmac.entries
           u == List!exact_add(t, k, v)
           U == Added(T, "dmac", k, v)
<1>1. t \in Seq(Any!Entry) /\ v \in AnyAction
  BY DEF TablesOK, AnyAction
<1>2. /\ u \in Seq(Any!Entry)
      /\ \A i \in 1..Len(u) : \/ u[i].key = k /\ u[i].value = v
                              \/ \E j \in 1..Len(t) : u[i] = t[j]
  BY <1>1, AddMembers
<1>3. U = [T EXCEPT !.dmac.entries = u]
  BY DEF Added
<1> HIDE DEF u, U
<1>4. /\ U.dmac.entries = u /\ U.dmac.default_val = T.dmac.default_val /\ U.smac = T.smac
      /\ U \in [smac : [entries : Seq(Any!Entry), default_val : smac_action \cup {Dangling.smac}],
                dmac : [entries : Seq(Any!Entry), default_val : dmac_action \cup {Dangling.dmac}]]
  BY <1>2, <1>3 DEF TablesOK
<1>5. \A i \in 1..Len(u) : /\ u[i].value \in dmac_action
                           /\ u[i].value.action_id = "forward" => <<u[i].key, u[i].value.port>> \in F
  <2>1. ASSUME NEW i \in 1..Len(t)
        PROVE  /\ t[i].value \in dmac_action
               /\ t[i].value.action_id = "forward" => <<t[i].key, t[i].value.port>> \in F
    BY DEF TablesOK
  <2> HIDE DEF t
  <2> QED
    BY <1>2, <2>1
<1> QED
  BY <1>4, <1>5 DEF TablesOK, U

\* The values of the program's own entries.
LEMMA Actions ==
  /\ "_nop" \in smac_action /\ "mac_learn" \in smac_action
  /\ bcast \in dmac_action /\ bcast.action_id = "bcast"
  /\ \A port \in InPort : /\ forward(port) \in dmac_action
                          /\ forward(port).action_id = "forward" /\ forward(port).port = port
  /\ Dangling.smac \notin smac_action /\ Dangling.dmac \notin dmac_action
BY BackendAssumption DEF smac_action, dmac_action, bcast, forward, Dangling

\* What init_tables_v1 leaves.
LEMMA InitTablesOK == ASSUME NEW F, NEW c PROVE TablesOK(init_tables_v1, F, c)
<1>1. PICK none \in Seq(Any!Entry) : none = <<>> /\ Len(none) = 0
  BY EmptySeq
<1> DEFINE u == List!exact_add(none, Broadcast, bcast)
<1>2. Broadcast \in Any!Key /\ bcast \in AnyAction
  BY AddressesAreKeys, Actions DEF AnyAction
<1>3. /\ u \in Seq(Any!Entry)
      /\ \A i \in 1..Len(u) : u[i].value = bcast
  <2>1. /\ u \in Seq(Any!Entry)
        /\ \A i \in 1..Len(u) : \/ u[i].key = Broadcast /\ u[i].value = bcast
                                \/ \E j \in 1..Len(none) : u[i] = none[j]
    BY <1>2, AddMembers
  <2> HIDE DEF u
  <2>2. 1..Len(none) = {}
    BY <1>1
  <2> QED
    BY <2>1, <2>2
<1>4. init_tables_v1 = [smac |-> [entries |-> none, default_val |-> "mac_learn"],
                        dmac |-> [entries |-> u, default_val |-> bcast]]
  BY <1>1 DEF init_tables_v1
<1> HIDE DEF u
<1> QED
  BY <1>1, <1>3, <1>4, Actions DEF TablesOK

\* The digest's two entries.
LEMMA DigestOK ==
  ASSUME NEW T, NEW F, NEW c, TablesOK(T, F, c), NEW k \in Any!Key, NEW port \in InPort,
         <<k, port>> \in F
  PROVE  TablesOK(p4_msg_digest_v1(T, k, port), F, c)
<1>1. TablesOK(Added(T, "smac", k, "_nop"), F, c)
  BY Actions, AddedToSmac
<1>2. TablesOK(Added(Added(T, "smac", k, "_nop"), "dmac", k, forward(port)), F, c)
  <2> DEFINE U == Added(T, "smac", k, "_nop")
             v == forward(port)
  <2>1. v \in dmac_action /\ (v.action_id = "forward" => <<k, v.port>> \in F)
    BY Actions
  <2> HIDE DEF U, v
  <2> QED
    BY <1>1, <2>1, AddedToDmac DEF U, v
<1> QED
  BY <1>2 DEF p4_msg_digest_v1

\* A set-default message leaves a dead pointer, and nothing to promise of careful ones.
LEMMA DefaultSet ==
  ASSUME NEW T, NEW F, TablesOK(T, F, FALSE), NEW name \in {"smac", "dmac"}
  PROVE  TablesOK([T EXCEPT ![name].default_val = Dangling[name]], F, FALSE)
<1>1. CASE name = "smac"
  <2> DEFINE U == [T EXCEPT !.smac.default_val = Dangling.smac]
  <2>1. /\ U.smac.entries = T.smac.entries /\ U.dmac = T.dmac
        /\ U \in [smac : [entries : Seq(Any!Entry), default_val : smac_action \cup {Dangling.smac}],
                  dmac : [entries : Seq(Any!Entry), default_val : dmac_action \cup {Dangling.dmac}]]
    BY DEF TablesOK
  <2> HIDE DEF U
  <2>2. TablesOK(U, F, FALSE)
    BY <2>1 DEF TablesOK
  <2> QED
    BY <1>1, <2>2 DEF U
<1>2. CASE name = "dmac"
  <2> DEFINE U == [T EXCEPT !.dmac.default_val = Dangling.dmac]
  <2>1. /\ U.dmac.entries = T.dmac.entries /\ U.smac = T.smac
        /\ U \in [smac : [entries : Seq(Any!Entry), default_val : smac_action \cup {Dangling.smac}],
                  dmac : [entries : Seq(Any!Entry), default_val : dmac_action \cup {Dangling.dmac}]]
    BY DEF TablesOK
  <2> HIDE DEF U
  <2>2. TablesOK(U, F, FALSE)
    BY <2>1 DEF TablesOK
  <2> QED
    BY <1>2, <2>2 DEF U
<1> QED
  BY <1>1, <1>2

\* While the controller is careful no lookup finds a dead pointer, and no entry of smac
\* has the program send a digest.
LEMMA CarefulLookups ==
  ASSUME NEW T, NEW F, TablesOK(T, F, TRUE), NEW k \in Any!Key
  PROVE  /\ Lookup(T.smac, k) # Dangling.smac /\ Lookup(T.dmac, k) # Dangling.dmac
         /\ List!Hit(T.smac.entries, k) => ~IsDigested(T, k)
<1>1. T.smac.entries \in Seq(Any!Entry) /\ T.dmac.entries \in Seq(Any!Entry)
  BY DEF TablesOK
<1>2. ASSUME NEW t \in Seq(Any!Entry), NEW d
      PROVE  IF List!Hit(t, k)
             THEN \E i \in 1..Len(t) : List!exact_lookup(t, k, d) = t[i].value
             ELSE List!exact_lookup(t, k, d) = d
  BY <1>2, HitEntry, SameList DEF List!exact_lookup
<1>3. ASSUME List!Hit(T.smac.entries, k) PROVE Lookup(T.smac, k) = "_nop"
  BY <1>1, <1>2, <1>3 DEF Lookup, TablesOK
<1>4. Lookup(T.smac, k) # Dangling.smac
  <2>1. CASE List!Hit(T.smac.entries, k)
    BY <1>3, <2>1, Actions
  <2>2. CASE ~List!Hit(T.smac.entries, k)
    BY <1>1, <1>2, <2>2 DEF Lookup, TablesOK
  <2> QED
    BY <2>1, <2>2
<1>5. Lookup(T.dmac, k) # Dangling.dmac
  <2>1. CASE List!Hit(T.dmac.entries, k)
    <3>1. PICK i \in 1..Len(T.dmac.entries) : Lookup(T.dmac, k) = T.dmac.entries[i].value
      BY <1>1, <1>2, <2>1 DEF Lookup
    <3>2. T.dmac.entries[i].value \in dmac_action
      BY DEF TablesOK
    <3> QED
      BY <3>1, <3>2, Actions
  <2>2. CASE ~List!Hit(T.dmac.entries, k)
    BY <1>1, <1>2, <2>2 DEF Lookup, TablesOK
  <2> QED
    BY <2>1, <2>2
<1> QED
  BY <1>3, <1>4, <1>5 DEF IsDigested

-----------------------------------------------------------------------------
(* The inductive invariant: the tables of every switch, whatever bg points *)
(* at, say no more than the switch's own frames and the controller told.   *)

Counted == /\ life \in [Switch -> {"absent", "alive", "deleted"}]
           /\ {bg, lastHandler} \subseteq Switch \cup {NoSwitch}
           /\ seen \in [Switch -> SUBSET (Host \X InPort)]
           /\ told \subseteq Host \X InPort
           /\ messages \in 0..MaxMessages
           /\ {undefined, careful} \subseteq BOOLEAN

Facts(sw) == seen[sw] \cup told

IInv == /\ Counted
        /\ DOMAIN tables = Switch
        /\ \A sw \in Switch : TablesOK(tables[sw], Facts(sw), careful)
        /\ DefinedIfCareful

\* Before any switch is installed nothing was told.
LEMMA InitIInv == Init => IInv
<1> SUFFICES ASSUME Init PROVE IInv
  OBVIOUS
<1>1. Counted
  <2>1. seen \in [Switch -> SUBSET (Host \X InPort)] /\ told \subseteq Host \X InPort
    BY DEF Init
  <2>2. /\ life \in [Switch -> {"absent", "alive", "deleted"}]
        /\ {bg, lastHandler} \subseteq Switch \cup {NoSwitch}
    BY DEF Init
  <2>3. messages \in 0..MaxMessages
    BY BackendAssumption DEF Init
  <2>4. undefined \in BOOLEAN /\ careful \in BOOLEAN
    BY Zenon DEF Init
  <2> QED
    BY <2>1, <2>2, <2>3, <2>4 DEF Counted
<1>2. \A sw \in Switch : TablesOK(tables[sw], Facts(sw), careful)
  BY InitTablesOK DEF Init
<1> QED
  BY <1>1, <1>2 DEF Init, IInv, DefinedIfCareful

\* A frame teaches its own switch alone.
LEMMA HandlePacketIInv ==
  ASSUME IInv, NEW sw \in Switch, NEW src \in Host, NEW dst \in Dst, NEW inport \in InPort,
         HandlePacket(sw, src, dst, inport)
  PROVE  IInv'
<1>1. src \in Any!Key /\ dst \in Any!Key
  BY AddressesAreKeys
<1>2. bg' = sw /\ Usable(bg') /\ bg' \in Switch
  BY DEF HandlePacket, set_fake_backend, Usable
<1>3. Counted'
  BY <1>2 DEF HandlePacket, IInv, Counted
<1>4. /\ Facts(sw)' = Facts(sw) \cup {<<src, inport>>}
      /\ \A s \in Switch : Facts(s) \subseteq Facts(s)'
  BY DEF HandlePacket, IInv, Counted, Facts
<1>5. /\ DOMAIN tables' = Switch
      /\ \A s \in Switch \ {sw} : tables'[s] = tables[s]
      /\ tables'[sw] = IF IsDigested(tables[sw], src)
                       THEN p4_msg_digest_v1(tables[sw], src, inport) ELSE tables[sw]
  BY <1>2 DEF HandlePacket, IInv
<1>6. careful' = careful
  BY DEF HandlePacket
<1>7. ASSUME NEW s \in Switch PROVE TablesOK(tables'[s], Facts(s)', careful')
  <2>1. TablesOK(tables[s], Facts(s)', careful)
    BY <1>4, TablesMonotonic DEF IInv
  <2>2. CASE s = sw /\ IsDigested(tables[sw], src)
    <3>1. <<src, inport>> \in Facts(sw)'
      BY <1>4
    <3>2. TablesOK(p4_msg_digest_v1(tables[sw], src, inport), Facts(sw)', careful)
      BY <1>1, <2>1, <2>2, <3>1, DigestOK
    <3> QED
      BY <1>5, <1>6, <2>2, <3>2
  <2>3. CASE ~(s = sw /\ IsDigested(tables[sw], src))
    BY <1>5, <1>6, <2>1, <2>3
  <2> QED
    BY <2>2, <2>3
<1>8. ASSUME careful PROVE ~undefined'
  <2>1. TablesOK(tables[sw], Facts(sw), TRUE) /\ TablesOK(tables'[sw], Facts(sw)', TRUE)
    BY <1>6, <1>7, <1>8, TablesMonotonic DEF IInv
  <2>2. Lookup(tables[sw].smac, src) # Dangling.smac
    BY <1>1, <2>1, CarefulLookups
  <2>3. IsDigested(tables[sw], src) => ~List!Hit(tables[sw].smac.entries, src)
    BY <1>1, <2>1, CarefulLookups
  <2>4. Lookup(tables'[sw].dmac, dst) # Dangling.dmac
    BY <1>1, <2>1, CarefulLookups
  <2> QED
    BY <1>2, <2>2, <2>3, <2>4 DEF HandlePacket
<1> QED
  BY <1>3, <1>5, <1>6, <1>7, <1>8 DEF IInv, DefinedIfCareful

\* What an understood message has to say is an action of its table.
LEMMA MessageAction ==
  ASSUME NEW m \in Message, Understood(m)
  PROVE  \/ /\ m.table_name = "smac" /\ action(m) \in smac_action
            /\ action(m) = m.action_name /\ m.action_name # "forward"
         \/ /\ m.table_name = "dmac" /\ action(m) \in dmac_action
            /\ action(m).action_id = "forward" =>
                 m.action_name = "forward" /\ action(m).port = m.port
<1>1. CASE m.table_name = "smac" /\ m.action_name \in smac_action
  <2>1. action(m) = m.action_name
    <3>1. m.action_name # "forward" /\ m.action_name # "bcast"
      BY <1>1 DEF smac_action
    <3> QED
      BY <1>1, <3>1, Zenon DEF action
  <2> QED
    BY <1>1, <2>1 DEF smac_action
<1>2. CASE m.table_name = "dmac" /\ m.action_name = "forward"
  <2>1. action(m) = forward(m.port)
    <3>1. m.table_name # "smac"
      BY <1>2
    <3> QED
      BY <1>2, <3>1, Zenon DEF action
  <2>2. m.port \in InPort
    BY DEF Message
  <2> QED
    BY <1>2, <2>1, <2>2, Actions
<1>3. CASE m.table_name = "dmac" /\ m.action_name = "bcast"
  <2>1. action(m) = bcast
    <3>1. m.table_name # "smac" /\ m.action_name # "forward"
      BY <1>3
    <3> QED
      BY <1>3, <3>1, Zenon DEF action
  <2> QED
    BY <1>3, <2>1, Actions
<1> QED
  BY <1>1, <1>2, <1>3 DEF Understood

\* A message changes the tables bg points at, by what it tells.
LEMMA MessageIInv ==
  ASSUME IInv, NEW m \in Message, Ignore(m) \/ Stray(m) \/ AddEntry(m) \/ SetDefault(m)
  PROVE  IInv'
<1>0. /\ m.key \in Host /\ m.port \in InPort /\ m.key \in Any!Key
      /\ m.table_name \in {"smac", "dmac", "other"}
  BY AddressesAreKeys DEF Message
<1>1. /\ life' = life /\ bg' = bg /\ lastHandler' = lastHandler /\ seen' = seen
      /\ messages' = messages + 1 /\ messages < MaxMessages
      /\ careful' = (careful /\ Harmless(m)) /\ ~undefined
  BY DEF Ignore, Stray, AddEntry, SetDefault, Sent, history
<1>2. careful' \in BOOLEAN /\ (careful' => careful)
  BY <1>1 DEF IInv, Counted
<1>3. /\ told \subseteq told' /\ told' \subseteq Host \X InPort
      /\ undefined' \in BOOLEAN
  <2>1. told \subseteq Host \X InPort /\ <<m.key, m.port>> \in Host \X InPort
    BY <1>0 DEF IInv, Counted
  <2>2. told' = told \/ told' = told \cup {<<m.key, m.port>>}
    BY DEF Ignore, Stray, AddEntry, SetDefault
  <2>3. undefined' = undefined \/ undefined' = TRUE
          \/ undefined' = (tables[bg][m.table_name].default_val = Dangling[m.table_name])
    BY DEF Ignore, Stray, AddEntry, SetDefault
  <2>4. undefined' \in BOOLEAN
    BY <1>1, <2>3 DEF IInv, Counted
  <2> QED
    BY <2>1, <2>2, <2>4
<1>4. messages' \in 0..MaxMessages
  BY <1>1, BackendAssumption DEF IInv, Counted
<1>5. Counted'
  <2>1. /\ life' \in [Switch -> {"absent", "alive", "deleted"}]
        /\ {bg', lastHandler'} \subseteq Switch \cup {NoSwitch}
        /\ seen' \in [Switch -> SUBSET (Host \X InPort)]
    BY <1>1 DEF IInv, Counted
  <2> QED
    BY <1>2, <1>3, <1>4, <2>1 DEF Counted
<1>6. \A s \in Switch : TablesOK(tables[s], Facts(s)', careful')
  <2>1. \A s \in Switch : Facts(s) \subseteq Facts(s)'
    BY <1>1, <1>3 DEF Facts
  <2> QED
    BY <1>2, <2>1, TablesMonotonic DEF IInv
<1>7. CASE Ignore(m)
  BY <1>1, <1>2, <1>5, <1>6, <1>7 DEF Ignore, IInv, DefinedIfCareful
<1>8. CASE Stray(m)
  <2>1. ~careful'
    BY <1>1, <1>8 DEF Stray, Harmless
  <2> QED
    BY <1>5, <1>6, <1>8, <2>1 DEF Stray, IInv, DefinedIfCareful
<1>9. ASSUME NEW b \in Switch, b = bg, AddEntry(m)
      PROVE  IInv'
  <2> DEFINE T == Added(tables[b], m.table_name, m.key, action(m))
             F == Facts(b)'
  <2>1. Understood(m)
    BY <1>9 DEF AddEntry
  <2>2. /\ DOMAIN tables' = Switch /\ tables'[b] = T
        /\ \A s \in Switch \ {b} : tables'[s] = tables[s]
    BY <1>9 DEF AddEntry, IInv
  <2>3. TablesOK(tables[b], F, careful')
    BY <1>6
  <2>4. ASSUME m.table_name = "smac" PROVE TablesOK(T, F, careful')
    <3>1. action(m) \in smac_action /\ action(m) = m.action_name
      BY <2>1, <2>4, MessageAction
    <3>2. careful' => action(m) = "_nop"
      BY <1>1, <1>9, <2>1, <3>1 DEF Harmless, smac_action, AddEntry
    <3> HIDE DEF F
    <3> QED
      BY <1>0, <2>3, <2>4, <3>1, <3>2, AddedToSmac
  <2>5. ASSUME m.table_name = "dmac" PROVE TablesOK(T, F, careful')
    <3>1. /\ action(m) \in dmac_action
          /\ action(m).action_id = "forward" =>
               m.action_name = "forward" /\ action(m).port = m.port
      BY <2>1, <2>5, MessageAction
    <3>2. action(m).action_id = "forward" => <<m.key, action(m).port>> \in F
      BY <1>9, <3>1 DEF AddEntry, Facts
    <3> HIDE DEF F
    <3> QED
      BY <1>0, <2>3, <2>5, <3>1, <3>2, AddedToDmac
  <2>6. m.table_name \in {"smac", "dmac"}
    BY <2>1 DEF Understood
  <2> HIDE DEF T
  <2>7. \A s \in Switch : TablesOK(tables'[s], Facts(s)', careful')
    BY <1>6, <2>2, <2>4, <2>5, <2>6
  <2>8. ~undefined'
    BY <1>1, <1>9 DEF AddEntry
  <2> QED
    BY <1>5, <2>2, <2>7, <2>8 DEF IInv, DefinedIfCareful
<1>10. ASSUME NEW b \in Switch, b = bg, SetDefault(m)
       PROVE  IInv'
  <2> DEFINE T == [tables[b] EXCEPT ![m.table_name].default_val = Dangling[m.table_name]]
             F == Facts(b)'
  <2>1. m.table_name \in {"smac", "dmac"}
    BY <1>10 DEF SetDefault, Understood
  <2>2. careful' = FALSE
    BY <1>1, <1>2, <1>10 DEF SetDefault, Harmless
  <2>3. /\ DOMAIN tables' = Switch /\ tables'[b] = T
        /\ \A s \in Switch \ {b} : tables'[s] = tables[s]
    BY <1>10 DEF SetDefault, kept_default, IInv
  <2>4. TablesOK(T, F, FALSE)
    <3>1. TablesOK(tables[b], F, FALSE)
      BY <1>6, <2>2, TablesMonotonic
    <3> HIDE DEF F
    <3> QED
      BY <2>1, <3>1, DefaultSet
  <2> HIDE DEF T
  <2>5. \A s \in Switch : TablesOK(tables'[s], Facts(s)', careful')
    BY <1>6, <2>2, <2>3, <2>4
  <2> QED
    BY <1>5, <2>2, <2>3, <2>5 DEF IInv, DefinedIfCareful
<1>11. AddEntry(m) \/ SetDefault(m) => \E b \in Switch : b = bg
  BY DEF AddEntry, SetDefault, Usable
<1> QED
  BY <1>7, <1>8, <1>9, <1>10, <1>11

\* Every step keeps the invariant.
LEMMA NextIInv == IInv /\ [Next]_vars => IInv'
<1> SUFFICES ASSUME IInv, [Next]_vars PROVE IInv'
  OBVIOUS
<1>1. ASSUME NEW sw \in Switch, Install(sw) PROVE IInv'
  <2>1. Counted'
    BY <1>1 DEF Install, IInv, Counted, history
  <2>2. \A s \in Switch : Facts(s)' = Facts(s)
    BY <1>1 DEF Install, Facts, history
  <2>3. /\ DOMAIN tables' = Switch /\ tables'[sw] = init_tables_v1
        /\ \A s \in Switch \ {sw} : tables'[s] = tables[s]
    BY <1>1 DEF Install, IInv
  <2>4. careful' = careful /\ ~undefined'
    BY <1>1 DEF Install
  <2>5. \A s \in Switch : TablesOK(tables'[s], Facts(s)', careful')
    BY <2>2, <2>3, <2>4, InitTablesOK DEF IInv
  <2> QED
    BY <2>1, <2>3, <2>4, <2>5 DEF IInv, DefinedIfCareful
<1>2. ASSUME NEW sw \in Switch, Delete(sw) PROVE IInv'
  <2>1. Counted'
    BY <1>2 DEF Delete, IInv, Counted, history
  <2>2. \A s \in Switch : Facts(s)' = Facts(s)
    BY <1>2 DEF Delete, Facts, history
  <2>3. tables' = tables /\ careful' = careful
    BY <1>2 DEF Delete
  <2>4. careful => ~undefined'
    <3>1. TablesOK(tables[sw], Facts(sw), careful)
      BY DEF IInv
    <3> QED
      BY <1>2, <3>1 DEF Delete, TablesOK
  <2> QED
    BY <2>1, <2>2, <2>3, <2>4 DEF IInv, DefinedIfCareful
<1>3. ASSUME NEW sw \in Switch, NEW src \in Host, NEW dst \in Dst, NEW inport \in InPort,
             HandlePacket(sw, src, dst, inport)
      PROVE  IInv'
  BY <1>3, HandlePacketIInv
<1>4. ASSUME NEW m \in Message, Ignore(m) \/ Stray(m) \/ AddEntry(m) \/ SetDefault(m)
      PROVE  IInv'
  BY <1>4, MessageIInv
<1>5. CASE UNCHANGED vars
  BY <1>5 DEF vars, history, IInv, Counted, Facts, TablesOK, DefinedIfCareful
<1> QED
  BY <1>1, <1>2, <1>3, <1>4, <1>5 DEF Next

\* A list is as narrow as its values.
LEMMA NarrowList ==
  ASSUME NEW t \in Seq(Any!Entry), NEW V, \A i \in 1..Len(t) : t[i].value \in V
  PROVE  t \in Seq([key : List!Key, value : V])
<1>1. Len(t) \in Nat /\ t \in [1..Len(t) -> Any!Entry]
  BY LenProperties
<1>2. \A i \in 1..Len(t) : t[i] \in [key : List!Key, value : V]
  BY <1>1 DEF Any!Entry, Any!Key, List!Key
<1> DEFINE E == [key : List!Key, value : V]
<1>3. t \in [1..Len(t) -> E]
  BY <1>1, <1>2
<1> HIDE DEF E
<1>4. t \in Seq(E)
  BY <1>1, <1>3, SeqDef
<1> QED
  BY <1>4 DEF E

\* The invariant has the types in it.
LEMMA IInvTyped == IInv => TypeOK
<1> SUFFICES ASSUME IInv PROVE TypeOK
  OBVIOUS
<1>1. ASSUME NEW sw \in Switch
      PROVE  /\ tables[sw].smac \in [entries : Seq([key : List!Key, value : smac_action]),
                                     default_val : smac_action \cup {Dangling.smac}]
             /\ tables[sw].dmac \in [entries : Seq([key : List!Key, value : dmac_action]),
                                     default_val : dmac_action \cup {Dangling.dmac}]
  <2> DEFINE S == tables[sw].smac
             D == tables[sw].dmac
  <2>1. /\ S \in [entries : Seq(Any!Entry), default_val : smac_action \cup {Dangling.smac}]
        /\ D \in [entries : Seq(Any!Entry), default_val : dmac_action \cup {Dangling.dmac}]
        /\ \A i \in 1..Len(S.entries) : S.entries[i].value \in smac_action
        /\ \A i \in 1..Len(D.entries) : D.entries[i].value \in dmac_action
    BY DEF IInv, TablesOK
  <2> HIDE DEF S, D
  <2>2. /\ S.entries \in Seq([key : List!Key, value : smac_action])
        /\ D.entries \in Seq([key : List!Key, value : dmac_action])
    BY <2>1, NarrowList
  <2>3. /\ S \in [entries : Seq([key : List!Key, value : smac_action]),
                  default_val : smac_action \cup {Dangling.smac}]
        /\ D \in [entries : Seq([key : List!Key, value : dmac_action]),
                  default_val : dmac_action \cup {Dangling.dmac}]
    BY <2>1, <2>2
  <2> QED
    BY <2>3 DEF S, D
<1> QED
  BY <1>1 DEF IInv, Counted, TypeOK

\* Tables hold entries of their own actions, and defaults of theirs or dead ones.
THEOREM TypeCorrect == Spec => []TypeOK
BY IInvTyped, InitIInv, NextIInv, PTL DEF Spec

\* However many switches are installed and deleted, and whatever harmless messages come
\* in between, no handler follows a dead pointer.
THEOREM CarefulIsDefined == Spec => []DefinedIfCareful
<1>1. IInv => DefinedIfCareful
  BY DEF IInv
<1> QED
  BY <1>1, InitIInv, NextIInv, PTL DEF Spec

\* A switch forwards by what its own frames or the controller told.
THEOREM OwnKnowledge == Spec => []ForwardsByOwnKnowledge
<1>1. IInv => ForwardsByOwnKnowledge
  <2> SUFFICES ASSUME IInv, NEW sw \in Switch, NEW i \in DOMAIN tables[sw].dmac.entries,
                      tables[sw].dmac.entries[i].value.action_id = "forward"
               PROVE  <<tables[sw].dmac.entries[i].key, tables[sw].dmac.entries[i].value.port>>
                        \in seen[sw] \cup told
    BY DEF ForwardsByOwnKnowledge
  <2>1. TablesOK(tables[sw], Facts(sw), careful)
    BY DEF IInv
  <2>2. tables[sw].dmac.entries \in Seq(Any!Entry)
    BY <2>1 DEF TablesOK
  <2>3. i \in 1..Len(tables[sw].dmac.entries)
    BY <2>2, LenProperties
  <2> QED
    BY <2>1, <2>3 DEF TablesOK, Facts
<1> QED
  BY <1>1, InitIInv, NextIInv, PTL DEF Spec

=============================================================================
