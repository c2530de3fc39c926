----------------------------- MODULE ExactTable -----------------------------
(***************************************************************************)
(* One exact-match lookup table (lookup_table_t with type LOOKUP_EXACT)    *)
(* under any sequence of the calls its users make: the exact_* functions,  *)
(* table_setdefault, and the "free_entries; t->table = NULL" reset of      *)
(* lookup-tables-test.cc.  A call runs to completion before the next one   *)
(* starts (ns-3 is single-threaded), so each call is one action.  Lookups  *)
(* change nothing; their answers are exact_lookup of the current state.    *)
(***************************************************************************)
EXTENDS ExactList

CONSTANT NoEntry        \* stands for a lookup that found no entry
ASSUME NoEntryAssumption == NoEntry \notin Value

VARIABLES table,        \* lookup_table_t.table
          default_val,  \* *lookup_table_t.default_val
          call          \* history: the latest call and what it was given

vars == <<table, default_val, call>>

\* create_tables: no entries, and a default_val straight from malloc.
Init == /\ table = <<>>
        /\ default_val \in Value
        /\ call = [op |-> "nothing"]

ExactAdd(k, v) == /\ table' = exact_add(table, k, v)
                  /\ UNCHANGED default_val

ExactRemove(k) == /\ table' = exact_remove(table, k)
                  /\ UNCHANGED default_val

SetDefault(v) == /\ default_val' = v
                 /\ UNCHANGED table

FreeEntries == /\ table' = <<>>
               /\ UNCHANGED default_val

Next ==
  \/ \E k \in Key, v \in Value :
       ExactAdd(k, v) /\ call' = [op |-> "add", key |-> k, value |-> v]
  \/ \E k \in Key : ExactRemove(k) /\ call' = [op |-> "remove", key |-> k]
  \/ \E v \in Value : SetDefault(v) /\ call' = [op |-> "setdefault", value |-> v]
  \/ FreeEntries /\ call' = [op |-> "free"]

Spec == Init /\ [][Next]_vars

-----------------------------------------------------------------------------

TypeOK == /\ table \in Seq(Entry)
          /\ default_val \in Value

\* The list is strictly descending: no key twice, and the early stop of the three
\* walks (c > 0, "certainly won't find matching entry") never skips an entry.
StrictlyDescending == Descending(table)

\* The table as its users see it: what a lookup of each key finds.
Content == [k \in Key |-> exact_lookup(table, k, NoEntry)]

Dictionary == INSTANCE TableSpec WITH content <- Content, default <- default_val

\* Seen through exact_lookup alone, every call does to the table what the same call with
\* the same arguments does to a dictionary: exact_add makes its key answer with its value,
\* exact_remove makes its key answer with the default, and no other key's answer changes.
ImplementsDictionary == Dictionary!Spec

=============================================================================
