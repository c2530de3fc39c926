------------------------------ MODULE LpmTable ------------------------------
(***************************************************************************)
(* One longest-prefix-match table: the trie that lpm_add, lpm_lookup and   *)
(* lpm_remove of p4-interface.c keep in table_entry_t cells.               *)
(*                                                                         *)
(* A node of depth d holds the first d bytes of a key, so a node is named  *)
(* by that prefix.  Its `child` pointer leads to a list, linked by `next`, *)
(* of nodes one byte longer: kids[p] is the sequence of those bytes in     *)
(* list order, and kids[<<>>] is the list that starts at t->table.  A node *)
(* exists while its last byte is in its parent's list.                     *)
(***************************************************************************)
EXTENDS ByteKeys, SequencesExt

CONSTANTS Value,          \* action values
          NoEntry,        \* a NULL value pointer
          CallKey,        \* the keys that callers pass,
          PrefixLength    \* and the prefix lengths, in bits
ASSUME LpmAssumption == /\ NoEntry \notin Value
                        /\ CallKey \subseteq Key /\ PrefixLength \subseteq 0..255

VARIABLES kids,           \* kids[p]: the list of p's children
          val,            \* val[p]: the value of node p, or NoEntry
          default_val,
          call            \* history: the latest call and what it was given

trie == <<kids, val, default_val>>
vars == <<trie, call>>

Path == BoundedSeq(Byte, KeySize - 1)             \* t->table and the inner nodes
Prefix == BoundedSeq(Byte, KeySize) \ {<<>>}      \* the nodes
First(key, d) == SubSeq(key, 1, d)

Init == /\ kids = [p \in Path |-> <<>>]
        /\ val = [p \in Prefix |-> NoEntry]
        /\ default_val \in Value
        /\ call = [op |-> "nothing"]

-----------------------------------------------------------------------------
(* The walks.                                                              *)

\* Where the walk along the children of `path` stops looking for the next byte of
\* key: at the first child that is not smaller, or one past the end.
SiblingStop(path, key) ==
  LET d == Len(path) + 1
  IN  Min({i \in 1..Len(kids[path]) :
             compare_keys(Append(path, kids[path][i]), key, d) >= 0}
          \cup {Len(kids[path]) + 1})

Found(path, key) ==
  LET i == SiblingStop(path, key)
  IN  i <= Len(kids[path]) /\ kids[path][i] = key[Len(path) + 1]

\* How far down, and at most to `depth`, the nodes along key are found.
MatchDepth(key, depth) ==
  Max({d \in 0..depth : \A e \in 0..(d - 1) : Found(First(key, e), key)})

\* A mutation of lpm_match: only the last node reached is asked for a value.
lpm_matchLast(key) ==
  LET m == MatchDepth(key, KeySize)
  IN  IF m > 0 /\ val[First(key, m)] # NoEntry THEN m ELSE 0

\* The depth of the node whose value lpm_lookup returns: the last one met on the way
\* down that has a value; 0 if there is none.
lpm_match(key) ==
  Max({d \in 1..MatchDepth(key, KeySize) : val[First(key, d)] # NoEntry} \cup {0})

lpm_lookup(key) ==
  IF lpm_match(key) = 0 THEN default_val ELSE val[First(key, lpm_match(key))]

-----------------------------------------------------------------------------
(* The calls.                                                              *)

\* A mutation of depthOf: a started byte counts, so that a /12 is stored as a /16.
depthOfRoundedUp(prefix_length) == (prefix_length + 7) \div 8

\* prefix_length is in bits, as every caller passes it; the comments on lpm_add and lpm_remove
\* call it a number of bytes.
depthOf(prefix_length) == prefix_length \div 8
ValidDepth(depth) == 0 < depth /\ depth <= KeySize

\* A mutation of Linked: a new child goes to the end of its list.
LinkedAtEnd(path, key) == Append(kids[path], key[Len(path) + 1])

\* A mutation of Linked: the new node's key gets the loop index, s->key[j] = j.
LinkedIndex(path, key) == InsertAt(kids[path], SiblingStop(path, key), Len(path))

\* The list of `path` with key's next byte linked in: after the last smaller child,
\* or, for a new first child, in front of the others -- except at depth 1, where
\* "t->table = s" leaves s->next NULL and so keeps none of the old list.
Linked(path, key) ==
  LET i == SiblingStop(path, key)
      b == key[Len(path) + 1]
  IN  IF path = <<>> /\ i = 1 THEN <<b>> ELSE InsertAt(kids[path], i, b)

LpmAdd(key, prefix_length, v) ==
  \E depth \in {depthOf(prefix_length)} :
    /\ ValidDepth(depth)
    /\ \E m \in {MatchDepth(key, depth)} :
         LET lost == m = 0 /\ SiblingStop(<<>>, key) = 1
             New  == {First(key, d) : d \in (m + 1)..(depth - 1)}  \* nodes below m are missing
             keptKids  == IF lost THEN [p \in Path |-> <<>>] ELSE kids
             grownKids == IF m = depth THEN keptKids
                          ELSE [keptKids EXCEPT ![First(key, m)] = Linked(First(key, m), key)]
             keptVal   == IF lost THEN [p \in Prefix |-> NoEntry] ELSE val
         IN  /\ kids' = [p \in Path |-> IF p \in New THEN <<key[Len(p) + 1]>> ELSE grownKids[p]]
             /\ val' = [keptVal EXCEPT ![First(key, depth)] = v]
             /\ UNCHANGED default_val

Childless(path) == Len(path) = KeySize \/ kids[path] = <<>>

\* A node without children is unlinked and freed; any other only loses its value.
LpmRemove(key, prefix_length) ==
  LET depth == depthOf(prefix_length)
      here  == First(key, depth)
      up    == First(key, depth - 1)
  IN  /\ ValidDepth(depth)
      /\ MatchDepth(key, depth) = depth
      /\ val' = [val EXCEPT ![here] = NoEntry]
      /\ kids' = IF Childless(here)
                 THEN [kids EXCEPT ![up] = RemoveAt(@, SiblingStop(up, key))]
                 ELSE kids
      /\ UNCHANGED default_val

SetDefault(v) == /\ default_val' = v
                 /\ UNCHANGED <<kids, val>>

\* free_entries followed by t->table = NULL.
FreeEntries == /\ kids' = [p \in Path |-> <<>>]
               /\ val' = [p \in Prefix |-> NoEntry]
               /\ UNCHANGED default_val

\* What a caller does: a depth out of range, or a key to remove that is not found, makes
\* the call return without touching the trie.
CallAdd(key, prefix_length, v) ==
  /\ call' = [op |-> "add", key |-> key, prefix_length |-> prefix_length, value |-> v]
  /\ \/ LpmAdd(key, prefix_length, v)
     \/ ~ValidDepth(depthOf(prefix_length)) /\ UNCHANGED trie

CallRemove(key, prefix_length) ==
  /\ call' = [op |-> "remove", key |-> key, prefix_length |-> prefix_length]
  /\ \/ LpmRemove(key, prefix_length)
     \/ /\ ValidDepth(depthOf(prefix_length)) =>
             MatchDepth(key, depthOf(prefix_length)) < depthOf(prefix_length)
        /\ UNCHANGED trie

Next ==
  \/ \E key \in CallKey, l \in PrefixLength : \/ \E v \in Value : CallAdd(key, l, v)
                                             \/ CallRemove(key, l)
  \/ \E v \in Value : SetDefault(v) /\ call' = [op |-> "setdefault", value |-> v]
  \/ FreeEntries /\ call' = [op |-> "free"]

Spec == Init /\ [][Next]_vars

-----------------------------------------------------------------------------

TypeOK == /\ kids \in [Path -> Seq(Byte)]
          /\ val \in [Prefix -> Value \cup {NoEntry}]
          /\ default_val \in Value

\* Every sibling list is strictly ascending, which all three walks rely on when
\* they give up at the first greater byte.
SiblingsAscending ==
  \A p \in Path : \A i, j \in 1..Len(kids[p]) : i < j => kids[p][i] < kids[p][j]

\* The routes in the trie, by following every pointer from t->table, among those that a
\* call can name.
Route == {First(key, d) : key \in CallKey, d \in 1..KeySize}
Reachable(p) == \A e \in 0..(Len(p) - 1) : p[e + 1] \in ToSet(kids[First(p, e)])
Routes == [p \in Route |-> IF Reachable(p) THEN val[p] ELSE NoEntry]

\* What longest-prefix matching means: the length of the longest route that is a
\* prefix of the key.
LongestMatch(routes, key) ==
  Max({Len(p) : p \in {q \in DOMAIN routes : routes[q] # NoEntry /\ IsPrefix(q, key)}} \cup {0})

\* A lookup, with its early stops, answers from the longest route the trie holds, and
\* with the default only if it holds none.
LookupIsLongestPrefix == \A key \in Key : lpm_match(key) = LongestMatch(Routes, key)

\* The route a call names, if it names one: as many bytes of the key as are whole in
\* prefix_length bits.
Named(key, l) == {First(key, d) : d \in {n \in 1..KeySize : 8 * n <= l /\ l < 8 * (n + 1)}}

\* The latest call in terms of routes, for RouteTable.
RouteCall ==
  IF call.op \notin {"add", "remove"} THEN call
  ELSE LET named == Named(call.key, call.prefix_length)
       IN  IF named = {} THEN [op |-> "nothing"]
           ELSE LET p == CHOOSE p \in named : TRUE
                IN  IF call.op = "add" THEN [op |-> "add", key |-> p, value |-> call.value]
                    ELSE [op |-> "remove", key |-> p]

RouteTable == INSTANCE TableSpec WITH Key <- Route, content <- Routes,
                                      default <- default_val, call <- RouteCall

\* A route whose first byte is below the one at the head of the table replaces the table:
\* it is the only route there is afterwards.
AddInFront ==
  /\ kids[<<>>] # <<>> /\ RouteCall'.op = "add"
  /\ RouteCall'.key[1] < Head(kids[<<>>])
  /\ Routes' = [p \in Route |-> IF p = RouteCall'.key THEN RouteCall'.value ELSE NoEntry]
  /\ UNCHANGED default_val

\* Every call does what the same call does to a table of routes, for the route it names, which
\* is the key's whole bytes: lpm_add makes that route hold the value, lpm_remove makes it
\* hold none, both keep all other routes, and a call that names no route changes nothing.
\* The one exception is a route added in front.
ImplementsRouteTable ==
  RouteTable!Init /\ [][AddInFront \/ RouteTable!Next]_<<Routes, default_val, RouteCall>>

\* Adding a route never takes another one out of reach of the lookups.
AddKeepsRoutes ==
  [][\A key \in CallKey, l \in PrefixLength, v \in Value :
       LpmAdd(key, l, v) => \A p \in Route : Routes[p] # NoEntry => Routes'[p] # NoEntry]_vars

=============================================================================
