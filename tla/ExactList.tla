----------------------------- MODULE ExactList ------------------------------
(***************************************************************************)
(* The exact-match operations of p4-interface.c on one table: a singly     *)
(* linked list kept in strictly descending key order, which every walk     *)
(* relies on to stop early.  The list is the sequence of its entries from  *)
(* t->table on; each operator is one C function and yields the new list    *)
(* (or, for the lookup, the value found).                                  *)
(***************************************************************************)
EXTENDS ByteKeys, SequencesExt

CONSTANT Value          \* action values, val_size bytes each, copied by memcpy

Entry == [key : Key, value : Value]

\* A mutation of StopAt: the walk goes on past an equal key.
StopAtPastEqual(t, k) ==
  Min({i \in 1..Len(t) : compare_keys(k, t[i].key, KeySize) > 0} \cup {Len(t) + 1})

\* Where the walk shared by add, lookup and remove stops: the first entry whose
\* key is not greater than the one sought, or one past the end of the list.
StopAt(t, k) ==
  Min({i \in 1..Len(t) : compare_keys(k, t[i].key, KeySize) >= 0} \cup {Len(t) + 1})

Hit(t, k) ==
  /\ StopAt(t, k) <= Len(t)
  /\ compare_keys(k, t[StopAt(t, k)].key, KeySize) = 0

\* A mutation of exact_add: a new entry's value is copied from the key.
exact_addKeyAsValue(t, k, v) ==
  IF Hit(t, k)
  THEN [t EXCEPT ![StopAt(t, k)].value = v]
  ELSE InsertAt(t, StopAt(t, k), [key |-> k, value |-> k])

\* A mutation of exact_add: an entry that is already there keeps its old value.
exact_addKeepsOld(t, k, v) ==
  IF Hit(t, k) THEN t ELSE InsertAt(t, StopAt(t, k), [key |-> k, value |-> v])

exact_add(t, k, v) ==
  IF Hit(t, k)
  THEN [t EXCEPT ![StopAt(t, k)].value = v]
  ELSE InsertAt(t, StopAt(t, k), [key |-> k, value |-> v])

exact_remove(t, k) ==
  IF Hit(t, k) THEN RemoveAt(t, StopAt(t, k)) ELSE t

exact_lookup(t, k, default) ==
  IF Hit(t, k) THEN t[StopAt(t, k)].value ELSE default

\* Strictly descending keys: what every walk above takes for granted.
Descending(t) ==
  \A i, j \in 1..Len(t) :
    i < j => compare_keys(t[i].key, t[j].key, KeySize) = 1

=============================================================================
