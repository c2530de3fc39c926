---------------------------- MODULE TernaryTable -----------------------------
(***************************************************************************)
(* One ternary table of p4-interface.c: a list of masked entries, searched *)
(* from t->table on and extended in front, so the newest entry comes       *)
(* first.  An entry fits a key when they agree on every byte the entry's   *)
(* mask inspects.  (The names it would share with the other tables say     *)
(* Ternary, for the modules that extend two of them.)                      *)
(***************************************************************************)
EXTENDS ByteKeys, SequencesExt

CONSTANT TernaryValue          \* action values

VARIABLES entries,        \* the list, as the sequence of its entries
          ternary_default

ternaryVars == <<entries, ternary_default>>

TernaryEntry == [key : Key, mask : Mask, value : TernaryValue]

TernaryInit == /\ entries = <<>>
               /\ ternary_default \in TernaryValue

Fits(entry, key) == compare_ternary_keys(key, entry.key, KeySize, entry.mask) = 0

\* The index of the first entry that fits, or one past the end of the list.
FirstFit(key) == Min({i \in 1..Len(entries) : Fits(entries[i], key)} \cup {Len(entries) + 1})

\* A mutation of ternary_lookup: the walk does not stop at a fit (s = s->next).
ternary_lookupLastFit(key) ==
  LET fits == {i \in 1..Len(entries) : Fits(entries[i], key)}
  IN  IF fits = {} THEN ternary_default ELSE entries[Max(fits)].value

ternary_lookup(key) ==
  IF FirstFit(key) <= Len(entries) THEN entries[FirstFit(key)].value ELSE ternary_default

\* A mutation of TernaryAdd: only an entry with the same mask is overwritten.
TernaryAddSameMask(key, mask, v) ==
  LET i == FirstFit(key)
  IN  /\ entries' = IF i <= Len(entries) /\ entries[i].mask = mask
                  THEN [entries EXCEPT ![i].value = v]
                  ELSE <<[key |-> key, mask |-> mask, value |-> v]>> \o entries
      /\ UNCHANGED ternary_default

\* A mutation of TernaryAdd: key and mask are swapped in a new entry.
TernaryAddSwapped(key, mask, v) ==
  LET i == FirstFit(key)
  IN  /\ entries' = IF i <= Len(entries) THEN [entries EXCEPT ![i].value = v]
                  ELSE <<[key |-> mask, mask |-> key, value |-> v]>> \o entries
      /\ UNCHANGED ternary_default

\* The first entry that fits the new key gets the new value and keeps its own key
\* and mask; only when none fits is an entry made, in front of the list.
TernaryAdd(key, mask, v) ==
  LET i == FirstFit(key)
  IN  /\ entries' = IF i <= Len(entries) THEN [entries EXCEPT ![i].value = v]
                  ELSE <<[key |-> key, mask |-> mask, value |-> v]>> \o entries
      /\ UNCHANGED ternary_default

\* The first entry that fits is unlinked and freed; the walk ends there.
TernaryRemove(key) ==
  /\ FirstFit(key) <= Len(entries)
  /\ entries' = RemoveAt(entries, FirstFit(key))
  /\ UNCHANGED ternary_default

TernarySetDefault(v) == /\ ternary_default' = v
                        /\ UNCHANGED entries

TernaryFreeEntries == /\ entries' = <<>>
                      /\ UNCHANGED ternary_default

TernaryNext == \/ \E key \in Key, mask \in Mask, v \in TernaryValue : TernaryAdd(key, mask, v)
               \/ \E key \in Key : TernaryRemove(key)
               \/ \E v \in TernaryValue : TernarySetDefault(v)
               \/ TernaryFreeEntries

TernarySpec == TernaryInit /\ [][TernaryNext]_ternaryVars

-----------------------------------------------------------------------------

TernaryTypeOK == /\ entries \in Seq(TernaryEntry)
                 /\ ternary_default \in TernaryValue

\* No entry's own key fits an older entry: such an add would have overwritten the
\* older one.  Hence every entry answers for its own key unless a newer, wider
\* entry does, and removing entries never brings two of the same key together.
NoKeyUnderOlderEntry ==
  \A i, j \in 1..Len(entries) : i < j => ~ Fits(entries[j], entries[i].key)

\* Whichever branch ternary_add takes, a lookup of the key just added answers the
\* value just added.
AddedKeyAnswers ==
  [][\A key \in Key, mask \in Mask, v \in TernaryValue :
       TernaryAdd(key, mask, v) => ternary_lookup(key)' = v]_ternaryVars

\* After ternary_remove nothing in the table fits the removed key.
RemoveDeletesAllFits ==
  [][\A key \in Key : TernaryRemove(key) => \A i \in 1..Len(entries') : ~ Fits(entries'[i], key)]_ternaryVars

=============================================================================
