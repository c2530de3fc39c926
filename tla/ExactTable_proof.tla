-------------------------- MODULE ExactTable_proof --------------------------
(***************************************************************************)
(* The exact-match table is a dictionary, for every key size, every set of *)
(* byte values and every set of action values.                             *)
(*                                                                         *)
(* First what the exact-match operations do to a strictly descending list, *)
(* for every list and every key: they keep it strictly descending and      *)
(* change the answer of one key only.  Modules whose tables are lists of   *)
(* this kind use these lemmas through an instance of this module.          *)
(***************************************************************************)
EXTENDS ExactTable, ByteKeys_proof

-----------------------------------------------------------------------------
(* The list.                                                               *)

Cmp(a, b) == compare_keys(a, b, KeySize)

\* What is in a list of entries is an entry, with a key and a value.
LEMMA EntryOfList ==
  ASSUME NEW t \in Seq(Entry), NEW i \in 1..Len(t)
  PROVE  t[i] \in Entry /\ t[i].key \in Key /\ t[i].value \in Value
<1>1. t[i] \in Entry
  BY ElementOfSeq
<1> QED
  BY <1>1 DEF Entry

\* The walk passes only entries with greater keys and stops at the first other one.
LEMMA StopAtProperties ==
  ASSUME NEW t \in Seq(Entry), NEW k \in Key
  PROVE  /\ StopAt(t, k) \in 1..(Len(t) + 1)
         /\ \A i \in 1..Len(t) : i < StopAt(t, k) => Cmp(k, t[i].key) = -1
         /\ StopAt(t, k) <= Len(t) => Cmp(k, t[StopAt(t, k)].key) \in {0, 1}
<1> DEFINE S == {i \in 1..Len(t) : compare_keys(k, t[i].key, KeySize) >= 0} \cup {Len(t) + 1}
<1>1. Len(t) \in Nat
  BY LenProperties
<1>2. \A i \in 1..Len(t) : Cmp(k, t[i].key) \in {-1, 0, 1}
  BY EntryOfList, CompareKeysOrder DEF Cmp
<1>3. S \in SUBSET Nat /\ S # {}
  BY <1>1
<1>4. StopAt(t, k) = Min(S)
  BY DEF StopAt
<1>5. \A i : i \in S <=> \/ i = Len(t) + 1
                         \/ i \in 1..Len(t) /\ Cmp(k, t[i].key) >= 0
  BY DEF Cmp
<1> HIDE DEF S
<1>6. Min(S) \in S /\ \A i \in S : Min(S) <= i
  BY <1>3, MinNat
<1> QED
  BY <1>1, <1>2, <1>4, <1>5, <1>6

\* In a descending list the early stop misses nothing: a key is hit exactly when
\* it is in the list, and at the only index where it is.
LEMMA HitIsMembership ==
  ASSUME NEW t \in Seq(Entry), Descending(t), NEW k \in Key
  PROVE  /\ StopAt(t, k) \in 1..(Len(t) + 1)
         /\ Hit(t, k) => StopAt(t, k) \in 1..Len(t) /\ t[StopAt(t, k)].key = k
         /\ \A i \in 1..Len(t) : t[i].key = k => Hit(t, k) /\ i = StopAt(t, k)
         /\ \A i \in 1..Len(t) : i < StopAt(t, k) => Cmp(t[i].key, k) = 1
         /\ ~Hit(t, k) => \A i \in 1..Len(t) : i >= StopAt(t, k) => Cmp(k, t[i].key) = 1
<1> DEFINE s == StopAt(t, k)
<1>1. Len(t) \in Nat
  BY LenProperties
<1>2. /\ s \in 1..(Len(t) + 1)
      /\ \A i \in 1..Len(t) : i < s => Cmp(k, t[i].key) = -1
      /\ s <= Len(t) => Cmp(k, t[s].key) \in {0, 1}
  BY StopAtProperties
<1>3. \A i \in 1..Len(t) : t[i].key \in Key
  BY EntryOfList
<1>4. \A a, b \in Key : /\ Cmp(a, b) \in {-1, 0, 1}
                        /\ Cmp(a, b) = 0 <=> a = b
                        /\ Cmp(a, b) = 1 <=> Cmp(b, a) = -1
  BY CompareKeysOrder DEF Cmp
<1>5. \A a, b, c \in Key : Cmp(a, b) = 1 /\ Cmp(b, c) = 1 => Cmp(a, c) = 1
  BY CompareKeysOrder DEF Cmp
<1>6. \A i, j \in 1..Len(t) : i < j => Cmp(t[i].key, t[j].key) = 1
  BY DEF Descending, Cmp
<1>7. Hit(t, k) <=> s <= Len(t) /\ Cmp(k, t[s].key) = 0
  BY DEF Hit, Cmp
<1>8. s <= Len(t) => s \in 1..Len(t)
  BY <1>1, <1>2
<1> HIDE DEF s
<1>9. Hit(t, k) => s \in 1..Len(t) /\ t[s].key = k
  BY <1>3, <1>4, <1>7, <1>8
<1>10. \A i \in 1..Len(t) : i < s => Cmp(t[i].key, k) = 1
  BY <1>2, <1>3, <1>4
<1>11. ASSUME ~Hit(t, k), NEW i \in 1..Len(t), i >= s
       PROVE  Cmp(k, t[i].key) = 1
  <2>1. s \in 1..Len(t)
    BY <1>1, <1>2, <1>11
  <2>2. Cmp(k, t[s].key) = 1
    BY <1>2, <1>7, <1>11, <2>1
  <2>3. CASE i = s
    BY <2>2, <2>3
  <2>4. CASE s < i
    BY <1>3, <1>5, <1>6, <2>1, <2>2, <2>4
  <2> QED
    BY <1>1, <1>2, <1>11, <2>3, <2>4
<1>12. ASSUME NEW i \in 1..Len(t), t[i].key = k
       PROVE  Hit(t, k) /\ i = s
  <2>1. Cmp(k, k) = 0
    BY <1>4
  <2>2. ~(i < s)
    BY <1>2, <1>12, <2>1
  <2>3. Hit(t, k)
    BY <1>1, <1>2, <1>11, <1>12, <2>1, <2>2
  <2>4. ~(s < i)
    BY <1>6, <1>9, <1>12, <2>1, <2>3
  <2> QED
    BY <1>1, <1>2, <2>2, <2>3, <2>4
<1> QED
  BY <1>2, <1>9, <1>10, <1>11, <1>12 DEF s

\* In a descending list a lookup answers with the value of the entry that has the
\* key, wherever it is, and with the default when no entry has it.
LEMMA LookupIsMembership ==
  ASSUME NEW t \in Seq(Entry), Descending(t), NEW k \in Key, NEW d
  PROVE  /\ \A i \in 1..Len(t) : t[i].key = k => exact_lookup(t, k, d) = t[i].value
         /\ (\A i \in 1..Len(t) : t[i].key # k) => exact_lookup(t, k, d) = d
  BY HitIsMembership DEF exact_lookup

\* An empty table is a descending list in which no lookup finds anything.
LEMMA EmptyList ==
  /\ <<>> \in Seq(Entry) /\ Descending(<<>>)
  /\ \A k \in Key : \A d : exact_lookup(<<>>, k, d) = d
<1>1. <<>> \in Seq(Entry) /\ Len(<<>>) = 0
  BY EmptySeq
<1>2. Descending(<<>>)
  BY <1>1 DEF Descending
<1>3. ASSUME NEW k \in Key, NEW d PROVE exact_lookup(<<>>, k, d) = d
  <2> DEFINE t == <<>>
  <2>1. t \in Seq(Entry) /\ Descending(t) /\ 1..Len(t) = {}
    BY <1>1, <1>2
  <2> HIDE DEF t
  <2>2. exact_lookup(t, k, d) = d
    BY <2>1, LookupIsMembership
  <2> QED
    BY <2>2 DEF t
<1> QED
  BY <1>1, <1>2, <1>3

\* exact_add keeps the list strictly descending.
LEMMA AddDescending ==
  ASSUME NEW t \in Seq(Entry), Descending(t), NEW k \in Key, NEW v \in Value
  PROVE  exact_add(t, k, v) \in Seq(Entry) /\ Descending(exact_add(t, k, v))
<1> DEFINE s == StopAt(t, k)
           e == [key |-> k, value |-> v]
           u == exact_add(t, k, v)
<1>1. Len(t) \in Nat /\ e \in Entry /\ e.key = k
  BY LenProperties DEF Entry
<1>2. s \in 1..(Len(t) + 1)
  BY HitIsMembership
<1>3. CASE Hit(t, k)
  <2>1. s \in 1..Len(t) /\ u = [t EXCEPT ![s].value = v]
    BY <1>3, HitIsMembership DEF exact_add
  <2>2. t[s] \in Entry
    BY <2>1, EntryOfList
  <2>3. [t[s] EXCEPT !.value = v] \in Entry /\ [t[s] EXCEPT !.value = v].key = t[s].key
    BY <2>2 DEF Entry
  <2>4. u = [t EXCEPT ![s] = [t[s] EXCEPT !.value = v]]
    BY <2>1
  <2>5. /\ u \in Seq(Entry) /\ Len(u) = Len(t)
        /\ \A i \in 1..Len(t) : u[i].key = t[i].key
    BY <2>1, <2>3, <2>4, ExceptSeq
  <2> QED
    BY <2>5 DEF Descending
<1>4. CASE ~Hit(t, k)
  <2>1. u = InsertAt(t, s, e)
    BY <1>4 DEF exact_add
  <2>2. /\ u \in Seq(Entry) /\ Len(u) = Len(t) + 1
        /\ \A i \in 1..(Len(t) + 1) :
             u[i] = IF i < s THEN t[i] ELSE IF i = s THEN e ELSE t[i - 1]
    <3> HIDE DEF u, s, e
    <3>1. InsertAt(t, s, e) \in Seq(Entry)
      BY <1>1, <1>2, InsertAtProperties
    <3>2. /\ Len(InsertAt(t, s, e)) = Len(t) + 1
          /\ \A i \in 1..(Len(t) + 1) :
               InsertAt(t, s, e)[i] = IF i < s THEN t[i] ELSE IF i = s THEN e ELSE t[i - 1]
      BY <1>1, <1>2, InsertAtProperties
    <3> QED BY <2>1, <3>1, <3>2
  <2>3. /\ \A i \in 1..Len(t) : i < s => Cmp(t[i].key, k) = 1
        /\ \A i \in 1..Len(t) : i >= s => Cmp(k, t[i].key) = 1
        /\ \A i, j \in 1..Len(t) : i < j => Cmp(t[i].key, t[j].key) = 1
    BY <1>4, HitIsMembership DEF Descending, Cmp
  <2> HIDE DEF u, s, e
  <2>4. ASSUME NEW i \in 1..Len(u), NEW j \in 1..Len(u), i < j
        PROVE  Cmp(u[i].key, u[j].key) = 1
    <3>1. i \in Int /\ j \in Int /\ s \in Int /\ 1 <= i /\ j <= Len(t) + 1
      BY <1>1, <1>2, <2>2
    <3>2. CASE j < s
      <4>1. u[i] = t[i] /\ u[j] = t[j] /\ i \in 1..Len(t) /\ j \in 1..Len(t)
        BY <1>1, <1>2, <2>2, <2>4, <3>1, <3>2
      <4> QED BY <2>3, <2>4, <4>1
    <3>3. CASE j = s
      <4>1. u[i] = t[i] /\ u[j] = e /\ i \in 1..Len(t) /\ i < s
        BY <1>1, <1>2, <2>2, <2>4, <3>1, <3>3
      <4> QED BY <1>1, <2>3, <4>1
    <3>4. CASE i < s /\ s < j
      <4>1. u[i] = t[i] /\ u[j] = t[j - 1] /\ i \in 1..Len(t) /\ j - 1 \in 1..Len(t) /\ i < j - 1
        BY <1>1, <1>2, <2>2, <2>4, <3>1, <3>4
      <4> QED BY <2>3, <4>1
    <3>5. CASE i = s /\ s < j
      <4>1. u[i] = e /\ u[j] = t[j - 1] /\ j - 1 \in 1..Len(t) /\ j - 1 >= s
        BY <1>1, <1>2, <2>2, <2>4, <3>1, <3>5
      <4> QED BY <1>1, <2>3, <4>1
    <3>6. CASE s < i
      <4>1. /\ u[i] = t[i - 1] /\ u[j] = t[j - 1]
            /\ i - 1 \in 1..Len(t) /\ j - 1 \in 1..Len(t) /\ i - 1 < j - 1
        BY <1>1, <1>2, <2>2, <2>4, <3>1, <3>6
      <4> QED BY <2>3, <4>1
    <3> QED
      BY <2>4, <3>1, <3>2, <3>3, <3>4, <3>5, <3>6
  <2> QED
    BY <2>2, <2>4 DEF Descending, Cmp, u
<1> QED
  BY <1>3, <1>4

\* A list never gets shorter by an add.
LEMMA AddLength ==
  ASSUME NEW t \in Seq(Entry), Descending(t), NEW k \in Key, NEW v \in Value
  PROVE  Len(exact_add(t, k, v)) \in {Len(t), Len(t) + 1}
<1> DEFINE s == StopAt(t, k)
           e == [key |-> k, value |-> v]
<1>1. e \in Entry /\ s \in 1..(Len(t) + 1)
  BY HitIsMembership DEF Entry
<1>2. CASE Hit(t, k)
  <2>1. exact_add(t, k, v) = [t EXCEPT ![s].value = v] /\ s \in 1..Len(t)
    BY <1>2, HitIsMembership DEF exact_add
  <2> HIDE DEF s
  <2> QED
    BY <2>1, LenProperties
<1>3. CASE ~Hit(t, k)
  <2>1. exact_add(t, k, v) = InsertAt(t, s, e)
    BY <1>3 DEF exact_add
  <2> HIDE DEF s, e
  <2>2. Len(InsertAt(t, s, e)) = Len(t) + 1
    BY <1>1, InsertAtProperties
  <2> QED
    BY <2>1, <2>2
<1> QED
  BY <1>2, <1>3

\* After exact_add the added key, and no other, answers differently.
LEMMA AddLookup ==
  ASSUME NEW t \in Seq(Entry), Descending(t), NEW k \in Key, NEW v \in Value,
         NEW k2 \in Key, NEW d
  PROVE  exact_lookup(exact_add(t, k, v), k2, d) =
           IF k2 = k THEN v ELSE exact_lookup(t, k2, d)
<1> DEFINE s == StopAt(t, k)
           e == [key |-> k, value |-> v]
           u == exact_add(t, k, v)
<1>1. Len(t) \in Nat /\ e \in Entry /\ e.key = k /\ e.value = v
  BY LenProperties DEF Entry
<1>2. s \in 1..(Len(t) + 1)
  BY HitIsMembership
<1>3. u \in Seq(Entry) /\ Descending(u)
  BY AddDescending
<1>4. /\ \A i \in 1..Len(u) : u[i].key = k2 => exact_lookup(u, k2, d) = u[i].value
      /\ (\A i \in 1..Len(u) : u[i].key # k2) => exact_lookup(u, k2, d) = d
      /\ \A i \in 1..Len(t) : t[i].key = k2 => exact_lookup(t, k2, d) = t[i].value
      /\ (\A i \in 1..Len(t) : t[i].key # k2) => exact_lookup(t, k2, d) = d
  BY <1>3, LookupIsMembership
<1>5. CASE Hit(t, k)
  <2>1. s \in 1..Len(t) /\ t[s].key = k /\ u = [t EXCEPT ![s].value = v]
    BY <1>5, HitIsMembership DEF exact_add
  <2>2. t[s] \in Entry /\ \A i \in 1..Len(t) : t[i].key = k => i = s
    BY <2>1, EntryOfList, HitIsMembership
  <2>3. /\ [t[s] EXCEPT !.value = v] \in Entry
        /\ [t[s] EXCEPT !.value = v].key = k
        /\ [t[s] EXCEPT !.value = v].value = v
    BY <2>1, <2>2 DEF Entry
  <2>4. /\ Len(u) = Len(t) /\ u[s].key = k /\ u[s].value = v
        /\ \A i \in 1..Len(t) : i # s => u[i] = t[i]
    BY <2>1, <2>3, ExceptSeq
  <2> HIDE DEF u, s
  <2>5. CASE k2 = k
    BY <1>4, <2>1, <2>4, <2>5 DEF u
  <2>6. CASE k2 # k
    <3>1. CASE \E i \in 1..Len(t) : t[i].key = k2
      <4>1. PICK i \in 1..Len(t) : t[i].key = k2
        BY <3>1
      <4>2. i # s /\ u[i] = t[i] /\ i \in 1..Len(u)
        BY <2>1, <2>4, <2>6, <4>1
      <4> QED BY <1>4, <2>6, <4>1, <4>2 DEF u
    <3>2. CASE \A i \in 1..Len(t) : t[i].key # k2
      <4>1. \A i \in 1..Len(u) : u[i].key # k2
        BY <2>4, <2>6, <3>2
      <4> QED BY <1>4, <2>6, <3>2, <4>1 DEF u
    <3> QED
      BY <3>1, <3>2
  <2> QED
    BY <2>5, <2>6
<1>6. CASE ~Hit(t, k)
  <2>1. u = InsertAt(t, s, e) /\ \A i \in 1..Len(t) : t[i].key # k
    BY <1>6, HitIsMembership DEF exact_add
  <2> HIDE DEF u, s, e
  <2>2. /\ Len(u) = Len(t) + 1
        /\ \A i \in 1..(Len(t) + 1) :
             u[i] = IF i < s THEN t[i] ELSE IF i = s THEN e ELSE t[i - 1]
    <3>1. /\ Len(InsertAt(t, s, e)) = Len(t) + 1
          /\ \A i \in 1..(Len(t) + 1) :
               InsertAt(t, s, e)[i] = IF i < s THEN t[i] ELSE IF i = s THEN e ELSE t[i - 1]
      BY <1>1, <1>2, InsertAtProperties
    <3> QED BY <2>1, <3>1
  <2>3. u[s] = e /\ s \in 1..Len(u)
    BY <1>1, <1>2, <2>2
  <2>4. CASE k2 = k
    BY <1>1, <1>4, <2>3, <2>4 DEF u
  <2>5. CASE k2 # k
    <3>1. ASSUME NEW i \in 1..Len(t)
          PROVE  \E j \in 1..Len(u) : u[j] = t[i]
      <4>1. CASE i < s
        <5>1. i \in 1..Len(u) /\ u[i] = t[i]
          BY <1>1, <1>2, <2>2, <4>1
        <5> QED BY <5>1
      <4>2. CASE i >= s
        <5>1. i + 1 \in 1..Len(u) /\ u[i + 1] = t[i]
          BY <1>1, <1>2, <2>2, <4>2
        <5> QED BY <5>1
      <4> QED BY <1>1, <1>2, <4>1, <4>2
    <3>2. ASSUME NEW j \in 1..Len(u), j # s
          PROVE  \E i \in 1..Len(t) : u[j] = t[i]
      <4>1. CASE j < s
        <5>1. j \in 1..Len(t) /\ u[j] = t[j]
          BY <1>1, <1>2, <2>2, <4>1
        <5> QED BY <5>1
      <4>2. CASE j > s
        <5>1. j - 1 \in 1..Len(t) /\ u[j] = t[j - 1]
          BY <1>1, <1>2, <2>2, <4>2
        <5> QED BY <5>1
      <4> QED BY <1>1, <1>2, <2>2, <3>2, <4>1, <4>2
    <3>3. CASE \E i \in 1..Len(t) : t[i].key = k2
      BY <1>4, <2>5, <3>1, <3>3 DEF u
    <3>4. CASE \A i \in 1..Len(t) : t[i].key # k2
      <4>1. \A j \in 1..Len(u) : u[j].key # k2
        BY <1>1, <2>3, <2>5, <3>2, <3>4
      <4> QED BY <1>4, <2>5, <3>4, <4>1 DEF u
    <3> QED
      BY <3>3, <3>4
  <2> QED
    BY <2>4, <2>5
<1> QED
  BY <1>5, <1>6

\* exact_remove keeps the list strictly descending.
LEMMA RemoveDescending ==
  ASSUME NEW t \in Seq(Entry), Descending(t), NEW k \in Key
  PROVE  exact_remove(t, k) \in Seq(Entry) /\ Descending(exact_remove(t, k))
<1> DEFINE s == StopAt(t, k)
           u == exact_remove(t, k)
<1>1. Len(t) \in Nat
  BY LenProperties
<1>2. CASE Hit(t, k)
  <2>1. s \in 1..Len(t) /\ u = RemoveAt(t, s)
    BY <1>2, HitIsMembership DEF exact_remove
  <2> HIDE DEF s, u
  <2>2. /\ u \in Seq(Entry) /\ Len(u) = Len(t) - 1
        /\ \A i \in 1..(Len(t) - 1) : u[i] = IF i < s THEN t[i] ELSE t[i + 1]
    BY <2>1, RemoveAtProperties
  <2>3. \A i, j \in 1..Len(t) : i < j => Cmp(t[i].key, t[j].key) = 1
    BY DEF Descending, Cmp
  <2>4. ASSUME NEW i \in 1..Len(u), NEW j \in 1..Len(u), i < j
        PROVE  Cmp(u[i].key, u[j].key) = 1
    <3> DEFINE x == IF i < s THEN i ELSE i + 1
               y == IF j < s THEN j ELSE j + 1
    <3>1. x \in 1..Len(t) /\ y \in 1..Len(t) /\ x < y
      BY <1>1, <2>1, <2>2, <2>4
    <3>2. u[i] = t[x] /\ u[j] = t[y]
      BY <1>1, <2>1, <2>2, <2>4
    <3> HIDE DEF x, y
    <3> QED BY <2>3, <3>1, <3>2
  <2> QED
    BY <2>2, <2>4 DEF Descending, Cmp, u
<1>3. CASE ~Hit(t, k)
  BY <1>3 DEF exact_remove
<1> QED
  BY <1>2, <1>3

\* After exact_remove the removed key, and no other, answers with the default.
LEMMA RemoveLookup ==
  ASSUME NEW t \in Seq(Entry), Descending(t), NEW k \in Key, NEW k2 \in Key, NEW d
  PROVE  exact_lookup(exact_remove(t, k), k2, d) =
           IF k2 = k THEN d ELSE exact_lookup(t, k2, d)
<1> DEFINE s == StopAt(t, k)
           u == exact_remove(t, k)
<1>1. Len(t) \in Nat
  BY LenProperties
<1>2. CASE Hit(t, k)
  <2>1. s \in 1..Len(t) /\ t[s].key = k /\ u = RemoveAt(t, s)
    BY <1>2, HitIsMembership DEF exact_remove
  <2>2. \A i \in 1..Len(t) : t[i].key = k => i = s
    BY HitIsMembership
  <2>3. u \in Seq(Entry) /\ Descending(u)
    BY RemoveDescending
  <2>4. /\ \A i \in 1..Len(u) : u[i].key = k2 => exact_lookup(u, k2, d) = u[i].value
        /\ (\A i \in 1..Len(u) : u[i].key # k2) => exact_lookup(u, k2, d) = d
        /\ \A i \in 1..Len(t) : t[i].key = k2 => exact_lookup(t, k2, d) = t[i].value
        /\ (\A i \in 1..Len(t) : t[i].key # k2) => exact_lookup(t, k2, d) = d
    BY <2>3, LookupIsMembership
  <2> HIDE DEF s, u
  <2>5. /\ Len(u) = Len(t) - 1
        /\ \A i \in 1..(Len(t) - 1) : u[i] = IF i < s THEN t[i] ELSE t[i + 1]
    BY <2>1, RemoveAtProperties
  <2>6. ASSUME NEW j \in 1..Len(u)
        PROVE  \E i \in 1..Len(t) : i # s /\ u[j] = t[i]
    <3> DEFINE x == IF j < s THEN j ELSE j + 1
    <3>1. x \in 1..Len(t) /\ x # s /\ u[j] = t[x]
      BY <1>1, <2>1, <2>5
    <3> QED BY <3>1
  <2>7. ASSUME NEW i \in 1..Len(t), i # s
        PROVE  \E j \in 1..Len(u) : u[j] = t[i]
    <3> DEFINE y == IF i < s THEN i ELSE i - 1
    <3>1. y \in 1..Len(u) /\ u[y] = t[i]
      BY <1>1, <2>1, <2>5, <2>7
    <3> QED BY <3>1
  <2>8. CASE k2 = k
    <3>1. \A j \in 1..Len(u) : u[j].key # k2
      BY <2>2, <2>6, <2>8
    <3> QED BY <2>4, <2>8, <3>1 DEF u
  <2>9. CASE k2 # k
    <3>1. CASE \E i \in 1..Len(t) : t[i].key = k2
      <4>1. PICK i \in 1..Len(t) : t[i].key = k2
        BY <3>1
      <4>2. PICK j \in 1..Len(u) : u[j] = t[i]
        BY <2>1, <2>7, <2>9, <4>1
      <4> QED BY <2>4, <2>9, <4>1, <4>2 DEF u
    <3>2. CASE \A i \in 1..Len(t) : t[i].key # k2
      <4>1. \A j \in 1..Len(u) : u[j].key # k2
        BY <2>6, <3>2
      <4> QED BY <2>4, <2>9, <3>2, <4>1 DEF u
    <3> QED
      BY <3>1, <3>2
  <2> QED
    BY <2>8, <2>9
<1>3. CASE ~Hit(t, k)
  <2>1. exact_remove(t, k) = t /\ exact_lookup(t, k, d) = d
    BY <1>3 DEF exact_remove, exact_lookup
  <2> QED
    BY <2>1
<1> QED
  BY <1>2, <1>3


-----------------------------------------------------------------------------
(* The table under any calls.                                              *)

Inv == TypeOK /\ StrictlyDescending

\* A table fresh from create_tables is well formed and in order.
LEMMA InitInv == Init => Inv
<1> SUFFICES ASSUME Init PROVE Inv
  OBVIOUS
<1> QED
  BY EmptyList DEF Init, Inv, TypeOK, StrictlyDescending

\* Every call keeps the table well formed and in order.
LEMMA NextInv == Inv /\ [Next]_vars => Inv'
<1> SUFFICES ASSUME Inv, [Next]_vars PROVE Inv'
  OBVIOUS
<1> USE DEF Inv, TypeOK, StrictlyDescending
<1>1. ASSUME NEW k \in Key, NEW v \in Value, ExactAdd(k, v)
      PROVE  Inv'
  <2>1. table' = exact_add(table, k, v) /\ default_val' \in Value
    BY <1>1 DEF ExactAdd
  <2> QED
    BY <2>1, AddDescending
<1>2. ASSUME NEW k \in Key, ExactRemove(k)
      PROVE  Inv'
  <2>1. table' = exact_remove(table, k) /\ default_val' \in Value
    BY <1>2 DEF ExactRemove
  <2> QED
    BY <2>1, RemoveDescending
<1>3. ASSUME NEW v \in Value, SetDefault(v)
      PROVE  Inv'
  BY <1>3 DEF SetDefault
<1>4. CASE FreeEntries
  BY <1>4, EmptyList DEF FreeEntries
<1>5. CASE UNCHANGED vars
  BY <1>5 DEF vars
<1> QED
  BY <1>1, <1>2, <1>3, <1>4, <1>5 DEF Next

\* Hence it always is.
LEMMA SpecInv == Spec => []Inv
BY InitInv, NextInv, PTL DEF Spec

\* The table holds well-formed entries and an action value as its default.
THEOREM TypeCorrect == Spec => []TypeOK
<1>1. Inv => TypeOK
  BY DEF Inv
<1> QED
  BY <1>1, SpecInv, PTL

\* No call sequence puts a key twice into the list or out of order, so the early
\* stop of exact_add, exact_lookup and exact_remove never skips an entry.
THEOREM AlwaysDescending == Spec => []StrictlyDescending
<1>1. Inv => StrictlyDescending
  BY DEF Inv
<1> QED
  BY <1>1, SpecInv, PTL

\* The empty list is the empty dictionary.
LEMMA InitRefines == Init => Dictionary!Init
<1> SUFFICES ASSUME Init PROVE Dictionary!Init
  OBVIOUS
<1>1. \A k \in Key : exact_lookup(table, k, NoEntry) = NoEntry
  BY EmptyList DEF Init
<1> QED
  BY <1>1 DEF Init, Dictionary!Init, Dictionary!Nothing, Content

\* Every call on an ordered list is the dictionary's step for the same call.
LEMMA NextRefines == Inv /\ [Next]_vars => [Dictionary!Next]_<<Content, default_val, call>>
<1> SUFFICES ASSUME Inv, [Next]_vars
             PROVE  [Dictionary!Next]_<<Content, default_val, call>>
  OBVIOUS
<1>0. table \in Seq(Entry) /\ Descending(table)
  BY DEF Inv, TypeOK, StrictlyDescending
<1>1. ASSUME NEW k \in Key, NEW v \in Value, ExactAdd(k, v),
             call' = [op |-> "add", key |-> k, value |-> v]
      PROVE  Dictionary!Put(k, v)
  <2>1. table' = exact_add(table, k, v) /\ default_val' = default_val
    BY <1>1 DEF ExactAdd
  <2>2. \A k2 \in Key : exact_lookup(table', k2, NoEntry) =
                          IF k2 = k THEN v ELSE exact_lookup(table, k2, NoEntry)
    BY <1>0, <2>1, AddLookup
  <2>3. Content' = [Content EXCEPT ![k] = v]
    BY <2>2 DEF Content
  <2> QED
    BY <1>1, <2>1, <2>3 DEF Dictionary!Put, Dictionary!Add
<1>2. ASSUME NEW k \in Key, ExactRemove(k), call' = [op |-> "remove", key |-> k]
      PROVE  Dictionary!Delete(k)
  <2>1. table' = exact_remove(table, k) /\ default_val' = default_val
    BY <1>2 DEF ExactRemove
  <2>2. \A k2 \in Key : exact_lookup(table', k2, NoEntry) =
                          IF k2 = k THEN NoEntry ELSE exact_lookup(table, k2, NoEntry)
    BY <1>0, <2>1, RemoveLookup
  <2>3. Content' = [Content EXCEPT ![k] = NoEntry]
    BY <2>2 DEF Content
  <2> QED
    BY <1>2, <2>1, <2>3 DEF Dictionary!Delete, Dictionary!Remove
<1>3. ASSUME NEW v \in Value, SetDefault(v), call' = [op |-> "setdefault", value |-> v]
      PROVE  Dictionary!SetDefault(v)
  BY <1>3 DEF SetDefault, Dictionary!SetDefault, Dictionary!SetTo, Content
<1>4. ASSUME FreeEntries, call' = [op |-> "free"]
      PROVE  Dictionary!Clear
  <2>1. table' = <<>> /\ default_val' = default_val
    BY <1>4 DEF FreeEntries
  <2>2. \A k \in Key : exact_lookup(table', k, NoEntry) = NoEntry
    BY <2>1, EmptyList
  <2>3. Content' = [k \in Key |-> NoEntry]
    BY <2>2 DEF Content
  <2> QED
    BY <1>4, <2>1, <2>3 DEF Dictionary!Clear, Dictionary!Free
<1>5. CASE UNCHANGED vars
  BY <1>5 DEF vars, Content
<1> QED
  BY <1>1, <1>2, <1>3, <1>4, <1>5 DEF Next, Dictionary!Next

\* Whatever calls are made in whatever order, the table answers like a dictionary with a
\* default: each call has the effect of the same call, with the same arguments, on it.
THEOREM ExactTableIsDictionary == Spec => ImplementsDictionary
<1>1. Init => Dictionary!Init
  BY InitRefines
<1>2. Inv /\ [Next]_vars => [Dictionary!Next]_<<Content, default_val, call>>
  BY NextRefines
<1> QED
  BY <1>1, <1>2, SpecInv, PTL DEF Spec, ImplementsDictionary, Dictionary!Spec

=============================================================================
