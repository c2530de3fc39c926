------------------------------ MODULE TableSpec ------------------------------
(***************************************************************************)
(* What a lookup table promises its callers: a dictionary with a default.  *)
(* `call` is part of the interface, the latest call with what it was given *)
(* to: a step carries out the call it announces and nothing else, so a     *)
(* table that ignores a call, or changes what another key answers, does    *)
(* not implement this.                                                     *)
(***************************************************************************)
CONSTANTS Key, Value, NoEntry

VARIABLES content,      \* content[k]: the value stored under k, or NoEntry
          default,      \* what a lookup without a match answers
          call          \* the latest call

Add(k, v)    == [op |-> "add", key |-> k, value |-> v]
Remove(k)    == [op |-> "remove", key |-> k]
SetTo(v)     == [op |-> "setdefault", value |-> v]
Free         == [op |-> "free"]
Nothing      == [op |-> "nothing"]      \* no call yet, or one that names no key

Init == /\ content = [k \in Key |-> NoEntry]
        /\ default \in Value
        /\ call = Nothing

\* The key answers with the value; every other key answers as before.
Put(k, v) == /\ call' = Add(k, v)
             /\ content' = [content EXCEPT ![k] = v]
             /\ UNCHANGED default

\* The key answers with the default again; every other key answers as before.
Delete(k) == /\ call' = Remove(k)
             /\ content' = [content EXCEPT ![k] = NoEntry]
             /\ UNCHANGED default

SetDefault(v) == /\ call' = SetTo(v)
                 /\ default' = v
                 /\ UNCHANGED content

Clear == /\ call' = Free
         /\ content' = [k \in Key |-> NoEntry]
         /\ UNCHANGED default

Refuse == /\ call' = Nothing
          /\ UNCHANGED <<content, default>>

Next == \/ \E k \in Key, v \in Value : Put(k, v)
        \/ \E k \in Key : Delete(k)
        \/ \E v \in Value : SetDefault(v)
        \/ Clear
        \/ Refuse

Spec == Init /\ [][Next]_<<content, default, call>>

=============================================================================
