-------------------------- MODULE LpmTernary_proof --------------------------
(***************************************************************************)
(* The tables that match more than one key with an entry, for every key    *)
(* size, every set of byte values and every sequence of calls.             *)
(*                                                                         *)
(* The trie of the longest-prefix-match table, in the first part: its      *)
(* sibling lists stay in order, its lookups, with all their early stops,   *)
(* answer from the longest route, and every call changes the one route it  *)
(* names.                                                                  *)
(*                                                                         *)
(* The list of a ternary table, in the second.  NoKeyUnderOlderEntry and   *)
(* TernaryTypeOK together are inductive: what fits depends on the keys and *)
(* masks of entries alone, which no call changes, an entry is only put in  *)
(* front when nothing fits its key, and removing one keeps the order of    *)
(* the others.                                                             *)
(***************************************************************************)
EXTENDS LpmTable, TernaryTable, ByteKeys_proof, SequenceTheorems

-----------------------------------------------------------------------------
(* Prefixes of keys.                                                       *)

\* Paths and prefixes are the byte strings of their lengths.
LEMMA PathsAndPrefixes ==
  /\ \A p : p \in Path <=> p \in Seq(Byte) /\ Len(p) <= KeySize - 1
  /\ \A p : p \in Prefix <=> p \in Seq(Byte) /\ 1 <= Len(p) /\ Len(p) <= KeySize
<1>1. ASSUME NEW n \in Nat, NEW p
      PROVE  p \in BoundedSeq(Byte, n) <=> p \in Seq(Byte) /\ Len(p) <= n
  <2>1. ASSUME NEW m \in 0..n, p \in [1..m -> Byte]
        PROVE  p \in Seq(Byte) /\ Len(p) <= n
    <3>1. m \in Nat /\ DOMAIN p = 1..m /\ \A i \in 1..m : p[i] \in Byte
      BY <2>1
    <3>2. p \in Seq(Byte) /\ Len(p) = m
      BY <2>1, <3>1, IsASeq, LenProperties, SeqDef
    <3> QED
      BY <3>2
  <2>2. ASSUME p \in Seq(Byte), Len(p) <= n
        PROVE  \E m \in 0..n : p \in [1..m -> Byte]
    BY <2>2, LenProperties
  <2> QED
    BY <2>1, <2>2 DEF BoundedSeq, SeqOf
<1>2. KeySize \in Nat /\ KeySize - 1 \in Nat
  BY KeySizeAssumption
<1>3. \A p \in Seq(Byte) : p = <<>> <=> ~(1 <= Len(p))
  BY EmptySeq, LenProperties
<1> QED
  BY <1>1, <1>2, <1>3 DEF Path, Prefix

\* A key is a byte string of KeySize bytes.
LEMMA KeyIsSeq ==
  ASSUME NEW key \in Key
  PROVE  key \in Seq(Byte) /\ Len(key) = KeySize /\ \A i \in 1..KeySize : key[i] \in Byte
<1>1. KeySize \in Nat /\ key \in [1..KeySize -> Byte]
  BY KeySizeAssumption DEF Key
<1>2. key \in Seq(Byte)
  BY <1>1, SeqDef
<1> QED
  BY <1>1, <1>2, LenProperties

\* First(s, d) is the string of the first d bytes of s.
LEMMA FirstBytes ==
  ASSUME NEW s \in Seq(Byte), NEW d \in 0..Len(s)
  PROVE  /\ First(s, d) \in Seq(Byte)
         /\ Len(First(s, d)) = d
         /\ \A i \in 1..d : First(s, d)[i] = s[i]
         /\ \A e \in 0..d : First(First(s, d), e) = First(s, e)
         /\ First(s, Len(s)) = s
<1>1. Len(s) \in Nat
  BY LenProperties
<1>2. ASSUME NEW e \in 0..Len(s)
      PROVE  /\ First(s, e) \in Seq(Byte) /\ Len(First(s, e)) = e
             /\ \A i \in 1..e : First(s, e)[i] = s[i]
  <2>1. \A i \in 1..e : s[i] \in Byte
    BY <1>1, ElementOfSeq
  <2> QED
    BY <1>1, <2>1, SubSeqProperties DEF First
<1>3. ASSUME NEW e \in 0..d
      PROVE  First(First(s, d), e) = First(s, e)
  <2> DEFINE a == First(s, d)
  <2>1. a \in Seq(Byte) /\ Len(a) = d /\ \A i \in 1..d : a[i] = s[i]
    BY <1>2
  <2> HIDE DEF a
  <2>2. /\ First(a, e) \in Seq(Byte) /\ Len(First(a, e)) = e
        /\ \A i \in 1..e : First(a, e)[i] = a[i]
    <3>1. \A i \in 1..e : a[i] \in Byte
      BY <1>1, <2>1, ElementOfSeq
    <3> QED
      BY <1>1, <2>1, <3>1, SubSeqProperties DEF First
  <2>3. /\ First(s, e) \in Seq(Byte) /\ Len(First(s, e)) = e
        /\ \A i \in 1..e : First(s, e)[i] = s[i]
    <3>1. e \in 0..Len(s)
      BY <1>1
    <3> QED
      BY <1>2, <3>1
  <2>4. First(a, e) = First(s, e)
    BY <1>1, <2>1, <2>2, <2>3, SeqEqual
  <2> QED
    BY <2>4 DEF a
<1>4. First(s, Len(s)) = s
  BY SubSeqFull DEF First
<1> QED
  BY <1>2, <1>3, <1>4

\* Two strings agree on their first d bytes exactly when they agree on each of them.
LEMMA FirstEqual ==
  ASSUME NEW s \in Seq(Byte), NEW t \in Seq(Byte), NEW d \in Nat, d <= Len(s), d <= Len(t)
  PROVE  First(s, d) = First(t, d) <=> \A i \in 1..d : s[i] = t[i]
<1>1. Len(s) \in Nat /\ Len(t) \in Nat
  BY LenProperties
<1>2. /\ First(s, d) \in Seq(Byte) /\ Len(First(s, d)) = d
      /\ \A i \in 1..d : First(s, d)[i] = s[i]
  BY <1>1, FirstBytes
<1>3. /\ First(t, d) \in Seq(Byte) /\ Len(First(t, d)) = d
      /\ \A i \in 1..d : First(t, d)[i] = t[i]
  BY <1>1, FirstBytes
<1> QED
  BY <1>2, <1>3, SeqEqual

-----------------------------------------------------------------------------
(* The walks over an ordered trie.                                         *)

\* The nodes on the way to p are all linked in, by the child lists k.
Reach(k, p) == \A e \in 0..(Len(p) - 1) : p[e + 1] \in ToSet(k[First(p, e)])

\* A node of the list under key's first d bytes is not smaller, as compare_keys sees
\* it, exactly when its last byte is not smaller than key's.
LEMMA ChildOrder ==
  ASSUME NEW key \in Key, NEW d \in 0..(KeySize - 1), NEW b \in Byte
  PROVE  compare_keys(Append(First(key, d), b), key, d + 1) >= 0 <=> b >= key[d + 1]
<1> DEFINE a == Append(First(key, d), b)
           I == 1..(d + 1)
<1>1. /\ key \in Seq(Byte) /\ Len(key) = KeySize /\ KeySize \in Nat
      /\ d \in Nat /\ d \in 0..Len(key) /\ I \in SUBSET Nat
  BY KeyIsSeq, KeySizeAssumption
<1>2. First(key, d) \in Seq(Byte) /\ Len(First(key, d)) = d /\ \A i \in 1..d : First(key, d)[i] = key[i]
  BY <1>1, FirstBytes
<1>3. a[d + 1] = b /\ \A i \in 1..d : a[i] = key[i]
  BY <1>2, AppendProperties
<1>4. \A i \in I : i \in 1..d \/ i = d + 1
  BY <1>1
<1>5. \A x \in Byte : x \in Int
  BY ByteAssumption
<1>6. \A i \in I : key[i] \in Int
  BY <1>1, <1>5, KeyIsSeq
<1>7. \A i \in I : a[i] \in Int
  BY <1>3, <1>4, <1>5, <1>6
<1>8. d + 1 \in I
  BY <1>1
<1> HIDE DEF a, I
<1>9. /\ CompareOver(a, key, I) \in {-1, 0, 1}
      /\ CompareOver(a, key, I) = -1 <=>
           \E i \in I : a[i] < key[i] /\ \A j \in I : j < i => a[j] = key[j]
  BY <1>1, <1>6, <1>7, CompareOverResult
<1>10. CompareOver(a, key, I) = -1 <=> b < key[d + 1]
  <2>1. ASSUME NEW i \in I, a[i] < key[i] PROVE b < key[d + 1]
    BY <1>3, <1>4, <1>6, <2>1
  <2>2. ASSUME b < key[d + 1]
        PROVE  a[d + 1] < key[d + 1] /\ \A j \in I : j < d + 1 => a[j] = key[j]
    BY <1>1, <1>3, <1>4, <2>2
  <2> QED
    BY <1>8, <1>9, <2>1, <2>2
<1>11. compare_keys(a, key, d + 1) = CompareOver(a, key, I)
  BY DEF compare_keys, I
<1>12. b \in Int /\ key[d + 1] \in Int
  BY <1>5, <1>6, <1>8
<1> QED
  BY <1>9, <1>10, <1>11, <1>12 DEF a

\* The walk along a list passes only smaller bytes and stops at the first other one.
LEMMA SiblingStopProperties ==
  ASSUME TypeOK, NEW key \in Key, NEW d \in 0..(KeySize - 1), NEW path, path = First(key, d)
  PROVE  /\ path \in Path /\ kids[path] \in Seq(Byte) /\ Len(kids[path]) \in Nat
         /\ \A i \in 1..Len(kids[path]) : kids[path][i] \in Byte
         /\ Len(path) = d
         /\ SiblingStop(path, key) \in 1..(Len(kids[path]) + 1)
         /\ \A i \in 1..Len(kids[path]) : i < SiblingStop(path, key) => kids[path][i] < key[d + 1]
         /\ SiblingStop(path, key) <= Len(kids[path])
              => kids[path][SiblingStop(path, key)] >= key[d + 1]
<1> DEFINE c == kids[path]
           S == {i \in 1..Len(c) : compare_keys(Append(path, c[i]), key, d + 1) >= 0}
                  \cup {Len(c) + 1}
<1>1. key \in Seq(Byte) /\ Len(key) = KeySize /\ KeySize \in Nat /\ d \in Nat /\ d \in 0..Len(key)
  BY KeyIsSeq, KeySizeAssumption
<1>2. path \in Seq(Byte) /\ Len(path) = d
  BY <1>1, FirstBytes
<1>3. path \in Path
  BY <1>1, <1>2, PathsAndPrefixes
<1>4. c \in Seq(Byte)
  BY <1>3 DEF TypeOK
<1>5. Len(c) \in Nat /\ \A i \in 1..Len(c) : c[i] \in Byte
  BY <1>4, LenProperties, ElementOfSeq
<1>6. SiblingStop(path, key) = Min(S)
  BY <1>2 DEF SiblingStop
<1> HIDE DEF c
<1>7. \A i : i \in S <=> \/ i = Len(c) + 1
                         \/ i \in 1..Len(c) /\ c[i] >= key[d + 1]
  BY <1>5, ChildOrder
<1>8. S \in SUBSET Nat /\ S # {}
  BY <1>5
<1> HIDE DEF S
<1>9. Min(S) \in S /\ \A i \in S : Min(S) <= i
  BY <1>8, MinNat
<1>10. key[d + 1] \in Int /\ \A i \in 1..Len(c) : c[i] \in Int
  <2>1. \A x \in Byte : x \in Int
    BY ByteAssumption
  <2>2. d + 1 \in 1..KeySize
    BY <1>1
  <2> QED
    BY <1>5, <2>1, <2>2, KeyIsSeq
<1>11. /\ Min(S) \in 1..(Len(c) + 1)
       /\ \A i \in 1..Len(c) : i < Min(S) => c[i] < key[d + 1]
       /\ Min(S) <= Len(c) => c[Min(S)] >= key[d + 1]
  BY <1>5, <1>7, <1>9, <1>10
<1> QED
  BY <1>2, <1>3, <1>4, <1>5, <1>6, <1>11 DEF c

\* In an ordered list the early stop misses nothing: a child is found exactly when it
\* is in the list, and at the only place where it is; when it is not, the walk stops
\* where it belongs.
LEMMA FoundIsMembership ==
  ASSUME TypeOK, SiblingsAscending, NEW key \in Key, NEW d \in 0..(KeySize - 1),
         NEW path, path = First(key, d)
  PROVE  /\ Found(path, key) <=> key[d + 1] \in ToSet(kids[path])
         /\ \A i \in 1..Len(kids[path]) :
              kids[path][i] = key[d + 1] => i = SiblingStop(path, key)
         /\ ~Found(path, key) =>
              \A i \in 1..Len(kids[path]) :
                i >= SiblingStop(path, key) => kids[path][i] > key[d + 1]
<1> DEFINE c == kids[path]
           s == SiblingStop(path, key)
<1>1. /\ path \in Path /\ c \in Seq(Byte) /\ Len(c) \in Nat /\ Len(path) = d
      /\ \A i \in 1..Len(c) : c[i] \in Byte
      /\ s \in 1..(Len(c) + 1)
      /\ \A i \in 1..Len(c) : i < s => c[i] < key[d + 1]
      /\ s <= Len(c) => c[s] >= key[d + 1]
  BY SiblingStopProperties
<1>2. key[d + 1] \in Int /\ \A i \in 1..Len(c) : c[i] \in Int
  <2>1. \A x \in Byte : x \in Int
    BY ByteAssumption
  <2>2. d + 1 \in 1..KeySize
    BY KeySizeAssumption
  <2> QED
    BY <1>1, <2>1, <2>2, KeyIsSeq
<1>3. \A i, j \in 1..Len(c) : i < j => c[i] < c[j]
  BY <1>1 DEF SiblingsAscending
<1>4. Found(path, key) <=> s <= Len(c) /\ c[s] = key[d + 1]
  BY <1>1 DEF Found
<1>5. \A x : x \in ToSet(c) <=> \E i \in 1..Len(c) : x = c[i]
  BY <1>1, LenProperties DEF ToSet
<1> HIDE DEF c, s
<1>6. \A i \in 1..Len(c) : c[i] = key[d + 1] => i = s
  <2> TAKE i \in 1..Len(c)
  <2> HAVE c[i] = key[d + 1]
  <2>1. ~(i < s)
    BY <1>1, <1>2
  <2>2. s \in 1..Len(c)
    BY <1>1, <2>1
  <2>3. ~(s < i)
    BY <1>1, <1>2, <1>3, <2>2
  <2> QED
    BY <1>1, <2>1, <2>3
<1>7. Found(path, key) <=> key[d + 1] \in ToSet(c)
  BY <1>1, <1>4, <1>5, <1>6
<1>8. ASSUME ~Found(path, key), NEW i \in 1..Len(c), i >= s
      PROVE  c[i] > key[d + 1]
  <2>1. s \in 1..Len(c)
    BY <1>1, <1>8
  <2>2. c[s] > key[d + 1]
    BY <1>1, <1>2, <1>4, <1>8, <2>1
  <2> QED
    BY <1>1, <1>2, <1>3, <1>8, <2>1, <2>2
<1> QED
  BY <1>6, <1>7, <1>8 DEF c, s

\* A walk down gets as deep as the nodes of the key are linked in.
LEMMA MatchDepthIsReach ==
  ASSUME TypeOK, SiblingsAscending, NEW key \in Key, NEW depth \in 0..KeySize
  PROVE  /\ MatchDepth(key, depth) \in 0..depth
         /\ \A d \in 0..depth : d <= MatchDepth(key, depth) <=> Reach(kids, First(key, d))
<1> DEFINE S == {d \in 0..depth : \A e \in 0..(d - 1) : Found(First(key, e), key)}
<1>1. key \in Seq(Byte) /\ Len(key) = KeySize /\ KeySize \in Nat /\ depth \in Nat
  BY KeyIsSeq, KeySizeAssumption
<1>2. ASSUME NEW d \in 0..depth
      PROVE  Reach(kids, First(key, d)) <=> \A e \in 0..(d - 1) : Found(First(key, e), key)
  <2>1. d \in 0..Len(key) /\ Len(First(key, d)) = d
    BY <1>1, FirstBytes
  <2>2. ASSUME NEW e \in 0..(d - 1)
        PROVE  /\ First(First(key, d), e) = First(key, e)
               /\ First(key, d)[e + 1] = key[e + 1]
               /\ Found(First(key, e), key) <=> key[e + 1] \in ToSet(kids[First(key, e)])
    <3>1. e \in 0..d /\ e + 1 \in 1..d /\ e \in 0..(KeySize - 1)
      BY <1>1
    <3>2. First(First(key, d), e) = First(key, e) /\ First(key, d)[e + 1] = key[e + 1]
      BY <1>1, <2>1, <3>1, FirstBytes
    <3> QED
      BY <3>1, <3>2, FoundIsMembership
  <2> QED
    BY <2>1, <2>2 DEF Reach
<1>3. S \in SUBSET (0..depth) /\ 0 \in S
  BY <1>1
<1>4. MatchDepth(key, depth) = Max(S)
  BY DEF MatchDepth
<1>5. \A d, d2 \in 0..depth : d <= d2 /\ d2 \in S => d \in S
  BY <1>1
<1>6. \A d \in 0..depth : d \in S <=> Reach(kids, First(key, d))
  BY <1>2
<1> HIDE DEF S
<1>7. Max(S) \in S /\ \A d \in S : d <= Max(S)
  BY <1>1, <1>3, MaxNat
<1> QED
  BY <1>3, <1>4, <1>5, <1>6, <1>7

\* A value is only ever stored at a route, a prefix that a caller can name.
ValuesOnRoutes == \A p \in Prefix : val[p] # NoEntry => p \in Route

\* A freed node, and a node not yet allocated, leaves neither a child nor a value.
FreedNodesEmpty ==
  \A p \in Prefix : Reach(kids, p) \/ (val[p] = NoEntry /\ (p \in Path => kids[p] = <<>>))

IInv == TypeOK /\ SiblingsAscending /\ ValuesOnRoutes /\ FreedNodesEmpty

\* The first bytes of a key name a node, and as many as a caller asks for name a route.
LEMMA RoutesArePrefixes ==
  /\ Route \in SUBSET Prefix
  /\ \A key \in Key, d \in 1..KeySize : First(key, d) \in Prefix
  /\ \A key \in CallKey, d \in 1..KeySize : First(key, d) \in Route
<1>1. ASSUME NEW key \in Key, NEW d \in 1..KeySize
      PROVE  First(key, d) \in Prefix
  <2>1. key \in Seq(Byte) /\ Len(key) = KeySize /\ KeySize \in Nat
    BY KeyIsSeq, KeySizeAssumption
  <2>2. d \in 0..Len(key)
    BY <2>1
  <2>3. First(key, d) \in Seq(Byte) /\ Len(First(key, d)) = d
    BY <2>1, <2>2, FirstBytes
  <2> QED
    BY <2>1, <2>3, PathsAndPrefixes
<1>2. CallKey \subseteq Key
  BY LpmAssumption
<1> QED
  BY <1>1, <1>2 DEF Route

\* A string is a prefix of a key exactly when it is the key's first bytes.
LEMMA PrefixOfKey ==
  ASSUME NEW key \in Key, NEW q \in Prefix
  PROVE  IsPrefix(q, key) <=> q = First(key, Len(q))
<1>1. key \in Seq(Byte) /\ Len(key) = KeySize
  BY KeyIsSeq
<1>2. q \in Seq(Byte) /\ Len(q) <= KeySize
  BY PathsAndPrefixes
<1>3. SubSeq(q, 1, Len(q)) = q
  BY <1>2, SubSeqFull
<1> QED
  BY <1>1, <1>2, <1>3 DEF IsPrefix, First

\* A route is what is stored at a node that is reached.
LEMMA RoutesByReach ==
  /\ Routes = [p \in Route |-> IF Reach(kids, p) THEN val[p] ELSE NoEntry]
  /\ Routes' = [p \in Route |-> IF Reach(kids', p) THEN val'[p] ELSE NoEntry]
BY DEF Routes, Reachable, Reach

\* Under the invariant, the last value met on the way down is the longest route's.
LEMMA LookupCorrect == IInv => LookupIsLongestPrefix
<1> SUFFICES ASSUME IInv, NEW key \in Key
             PROVE  lpm_match(key) = LongestMatch(Routes, key)
  BY DEF LookupIsLongestPrefix
<1> DEFINE m == MatchDepth(key, KeySize)
           A == {d \in 1..m : val[First(key, d)] # NoEntry} \cup {0}
           R == {q \in Route : Routes[q] # NoEntry /\ IsPrefix(q, key)}
           B == {Len(q) : q \in R} \cup {0}
<1>1. KeySize \in Nat /\ key \in Seq(Byte) /\ Len(key) = KeySize
  BY KeySizeAssumption, KeyIsSeq
<1>2. m \in 0..KeySize /\ \A d \in 0..KeySize : d <= m <=> Reach(kids, First(key, d))
  BY <1>1, MatchDepthIsReach DEF IInv
<1>3. \A q \in Route : Routes[q] = IF Reach(kids, q) THEN val[q] ELSE NoEntry
  BY DEF Routes, Reachable, Reach
<1>4. lpm_match(key) = Max(A)
  BY DEF lpm_match
<1>5. DOMAIN Routes = Route
  BY DEF Routes
<1>6. LongestMatch(Routes, key) = Max(B)
  BY <1>5 DEF LongestMatch
<1> HIDE DEF m
<1>7. ASSUME NEW d \in 1..m, val[First(key, d)] # NoEntry
      PROVE  \E q \in R : d = Len(q)
  <2>1. d \in 1..KeySize /\ d \in 0..Len(key)
    BY <1>1, <1>2
  <2>2. First(key, d) \in Prefix /\ Len(First(key, d)) = d
    BY <1>1, <2>1, RoutesArePrefixes, FirstBytes
  <2>3. First(key, d) \in Route
    BY <1>7, <2>2 DEF IInv, ValuesOnRoutes
  <2>4. Routes[First(key, d)] # NoEntry
    BY <1>1, <1>2, <1>3, <1>7, <2>3
  <2>5. IsPrefix(First(key, d), key)
    BY <2>2, PrefixOfKey
  <2> QED
    BY <2>2, <2>3, <2>4, <2>5
<1>8. ASSUME NEW q \in R
      PROVE  Len(q) \in 1..m /\ val[First(key, Len(q))] # NoEntry
  <2>1. q \in Route /\ q \in Prefix /\ Routes[q] # NoEntry /\ q = First(key, Len(q))
    BY RoutesArePrefixes, PrefixOfKey
  <2>2. Reach(kids, q) /\ val[q] # NoEntry
    BY <1>3, <2>1
  <2>3. Len(q) \in 1..KeySize
    BY <1>1, <2>1, PathsAndPrefixes, LenProperties
  <2> QED
    BY <1>1, <1>2, <2>1, <2>2, <2>3
<1>9. A = B
  <2> HIDE DEF R
  <2> QED
    BY <1>7, <1>8
<1> QED
  BY <1>4, <1>6, <1>9

\* It answers with that route's value, or with the default if no route is a prefix.
LEMMA LookupAnswers ==
  ASSUME IInv, NEW key \in Key
  PROVE  \/ /\ \A q \in Route : Routes[q] # NoEntry => ~IsPrefix(q, key)
            /\ lpm_lookup(key) = default_val
         \/ \E p \in Route :
              /\ Routes[p] # NoEntry /\ IsPrefix(p, key)
              /\ \A q \in Route : Routes[q] # NoEntry /\ IsPrefix(q, key) =>
                                   Len(q) < Len(p) \/ q = p
              /\ lpm_lookup(key) = Routes[p]
<1> DEFINE R == {q \in Route : Routes[q] # NoEntry /\ IsPrefix(q, key)}
           B == {Len(q) : q \in R} \cup {0}
           m == lpm_match(key)
<1>1. m = Max(B)
  <2>1. m = LongestMatch(Routes, key)
    BY LookupCorrect DEF LookupIsLongestPrefix
  <2> QED
    BY <2>1 DEF LongestMatch, Routes
<1>2. KeySize \in Nat
  BY KeySizeAssumption
<1>3. \A q \in R : Len(q) \in 1..KeySize /\ q = First(key, Len(q))
  BY <1>2, RoutesArePrefixes, PathsAndPrefixes, PrefixOfKey, LenProperties
<1>4. B \in SUBSET (0..KeySize) /\ B # {}
  BY <1>2, <1>3
<1>5. m \in B /\ \A y \in B : y <= m
  <2> HIDE DEF B, m
  <2> QED
    BY <1>1, <1>2, <1>4, MaxNat
<1>6. lpm_lookup(key) = IF m = 0 THEN default_val ELSE val[First(key, m)]
  BY DEF lpm_lookup
<1>7. \A q \in Route : Routes[q] # NoEntry => Routes[q] = val[q]
  BY RoutesByReach
<1> HIDE DEF m
<1>8. CASE m = 0
  <2>1. R = {}
    <3> SUFFICES ASSUME NEW q \in R PROVE FALSE
      OBVIOUS
    <3>1. Len(q) \in 1..KeySize /\ Len(q) <= 0
      BY <1>3, <1>5, <1>8
    <3> QED
      BY <1>2, <3>1
  <2> QED
    BY <1>6, <1>8, <2>1
<1>9. CASE m # 0
  <2>1. PICK p \in R : Len(p) = m
    BY <1>5, <1>9
  <2>2. lpm_lookup(key) = Routes[p]
    BY <1>3, <1>6, <1>7, <1>9, <2>1
  <2>3. ASSUME NEW q \in R PROVE Len(q) < Len(p) \/ q = p
    <3>1. /\ Len(q) \in 1..KeySize /\ q = First(key, Len(q)) /\ Len(q) <= m
          /\ Len(p) \in 1..KeySize /\ p = First(key, Len(p))
      BY <1>3, <1>5
    <3> QED
      BY <1>2, <2>1, <3>1
  <2> QED
    BY <2>1, <2>2, <2>3
<1> QED
  BY <1>8, <1>9

-----------------------------------------------------------------------------
(* What adding a route does to the child lists and to the values.          *)

Ascending(c) == \A i, j \in 1..Len(c) : i < j => c[i] < c[j]

\* Linking in a missing child keeps the list in order and adds just that child, except
\* in front of the table's own list, where the others are dropped.
LEMMA LinkedProperties ==
  ASSUME TypeOK, SiblingsAscending, NEW key \in Key, NEW d \in 0..(KeySize - 1),
         NEW path, path = First(key, d), ~Found(path, key)
  PROVE  /\ Linked(path, key) \in Seq(Byte)
         /\ Ascending(Linked(path, key))
         /\ \A b : b \in ToSet(Linked(path, key)) <=>
                     \/ b = key[d + 1]
                     \/ b \in ToSet(kids[path]) /\ ~(d = 0 /\ SiblingStop(path, key) = 1)
<1> DEFINE c == kids[path]
           s == SiblingStop(path, key)
           n == key[d + 1]
           u == Linked(path, key)
<1>1. /\ path \in Path /\ c \in Seq(Byte) /\ Len(c) \in Nat /\ Len(path) = d
      /\ \A i \in 1..Len(c) : c[i] \in Byte
      /\ s \in 1..(Len(c) + 1)
      /\ \A i \in 1..Len(c) : i < s => c[i] < n
  BY SiblingStopProperties
<1>2. \A i \in 1..Len(c) : i >= s => c[i] > n
  BY FoundIsMembership
<1>3. \A i, j \in 1..Len(c) : i < j => c[i] < c[j]
  BY <1>1 DEF SiblingsAscending
<1>4. n \in Byte /\ d \in Nat
  <2>1. d + 1 \in 1..KeySize
    BY KeySizeAssumption
  <2> QED
    BY <2>1, KeyIsSeq
<1>5. \A x \in Byte : x \in Int
  BY ByteAssumption
<1>6. path = <<>> <=> d = 0
  BY <1>1, <1>4, PathsAndPrefixes, EmptySeq
<1>7. u = IF d = 0 /\ s = 1 THEN <<n>> ELSE InsertAt(c, s, n)
  BY <1>1, <1>6 DEF Linked
<1>8. \A x : x \in ToSet(c) <=> \E i \in 1..Len(c) : x = c[i]
  BY <1>1, LenProperties DEF ToSet
<1> HIDE DEF c, s, n, u
<1>9. CASE d = 0 /\ s = 1
  <2>1. u = <<n>> /\ <<n>> \in Seq(Byte) /\ Len(<<n>>) = 1 /\ ToSet(<<n>>) = {n}
    BY <1>4, <1>7, <1>9 DEF ToSet
  <2>2. \A i, j \in 1..1 : ~(i < j)
    OBVIOUS
  <2>3. Ascending(u)
    BY <2>1, <2>2 DEF Ascending
  <2>4. \A b : b \in ToSet(u) <=> b = n
    BY <2>1
  <2> QED
    BY <1>9, <2>1, <2>3, <2>4 DEF c, s, n, u
<1>10. CASE ~(d = 0 /\ s = 1)
  <2>1. u = InsertAt(c, s, n)
    BY <1>7, <1>10
  <2>2. /\ u \in Seq(Byte) /\ Len(u) = Len(c) + 1
        /\ \A i \in 1..(Len(c) + 1) : u[i] = IF i < s THEN c[i] ELSE IF i = s THEN n ELSE c[i - 1]
    <3>1. InsertAt(c, s, n) \in Seq(Byte) /\ Len(InsertAt(c, s, n)) = Len(c) + 1
      BY <1>1, <1>4, InsertAtProperties
    <3>2. \A i \in 1..(Len(c) + 1) :
            InsertAt(c, s, n)[i] = IF i < s THEN c[i] ELSE IF i = s THEN n ELSE c[i - 1]
      BY <1>1, <1>4, InsertAtProperties
    <3> QED
      BY <2>1, <3>1, <3>2
  <2>3. ASSUME NEW i \in 1..Len(u), NEW j \in 1..Len(u), i < j
        PROVE  u[i] < u[j]
    <3>1. CASE j < s
      <4>1. i \in 1..Len(c) /\ j \in 1..Len(c) /\ i < s
        BY <1>1, <2>2, <2>3, <3>1
      <4>2. u[i] = c[i] /\ u[j] = c[j]
        BY <2>2, <3>1, <4>1
      <4> QED
        BY <1>3, <2>3, <4>1, <4>2
    <3>2. CASE j = s
      BY <1>1, <2>2, <2>3, <3>2
    <3>3. CASE i < s /\ s < j
      <4>1. i \in 1..Len(c) /\ j - 1 \in 1..Len(c) /\ j - 1 >= s
        BY <1>1, <2>2, <3>3
      <4>2. c[i] < n /\ c[j - 1] > n /\ c[i] \in Int /\ c[j - 1] \in Int /\ n \in Int
        BY <1>1, <1>2, <1>4, <1>5, <3>3, <4>1
      <4> QED
        BY <1>1, <2>2, <3>3, <4>1, <4>2
    <3>4. CASE i = s
      <4>1. j - 1 \in 1..Len(c) /\ j - 1 >= s /\ j > s
        BY <1>1, <2>2, <2>3, <3>4
      <4>2. c[j - 1] > n /\ c[j - 1] \in Int /\ n \in Int
        BY <1>1, <1>2, <1>4, <1>5, <4>1
      <4> QED
        BY <1>1, <2>2, <3>4, <4>1, <4>2
    <3>5. CASE s < i
      <4>1. i - 1 \in 1..Len(c) /\ j - 1 \in 1..Len(c) /\ i - 1 < j - 1 /\ s < j
        BY <1>1, <2>2, <2>3, <3>5
      <4>2. u[i] = c[i - 1] /\ u[j] = c[j - 1]
        BY <1>1, <2>2, <3>5, <4>1
      <4> QED
        BY <1>3, <4>1, <4>2
    <3> QED
      BY <1>1, <2>2, <2>3, <3>1, <3>2, <3>3, <3>4, <3>5
  <2>4. ASSUME NEW b
        PROVE  (\E i \in 1..Len(u) : b = u[i]) <=> b = n \/ \E i \in 1..Len(c) : b = c[i]
    <3>1. ASSUME NEW i \in 1..Len(u), b = u[i]
          PROVE  b = n \/ \E j \in 1..Len(c) : b = c[j]
      <4>1. CASE i < s
        BY <1>1, <2>2, <3>1, <4>1
      <4>2. CASE i = s
        BY <1>1, <2>2, <3>1, <4>2
      <4>3. CASE s < i
        <5>1. i - 1 \in 1..Len(c)
          BY <1>1, <2>2, <4>3
        <5> QED
          BY <1>1, <2>2, <3>1, <4>3, <5>1
      <4> QED
        BY <1>1, <2>2, <4>1, <4>2, <4>3
    <3>2. s \in 1..Len(u) /\ u[s] = n
      BY <1>1, <2>2
    <3>3. ASSUME NEW i \in 1..Len(c)
          PROVE  \E j \in 1..Len(u) : u[j] = c[i]
      <4>1. CASE i < s
        BY <1>1, <2>2, <4>1
      <4>2. CASE i >= s
        <5>1. i + 1 \in 1..Len(u) /\ i + 1 > s /\ (i + 1) - 1 = i
          BY <1>1, <2>2, <4>2
        <5>2. u[i + 1] = c[i]
          BY <1>1, <2>2, <5>1
        <5> QED
          BY <5>1, <5>2
      <4> QED
        BY <1>1, <4>1, <4>2
    <3> QED
      BY <3>1, <3>2, <3>3
  <2>5. \A b : b \in ToSet(u) <=> \E i \in 1..Len(u) : b = u[i]
    BY <2>2, LenProperties DEF ToSet
  <2> HIDE DEF c, s, n, u
  <2>6. u \in Seq(Byte) /\ Ascending(u) /\ \A b : b \in ToSet(u) <=> b = n \/ b \in ToSet(c)
    BY <1>8, <2>2, <2>3, <2>4, <2>5 DEF Ascending
  <2> QED
    BY <1>10, <2>6 DEF c, s, n, u
<1> QED
  BY <1>9, <1>10

\* The value that lost nodes leave behind is none.
ValuesKept(lost) == IF lost THEN [p \in Prefix |-> NoEntry] ELSE val

\* The key's first byte is below all those in the table.
InFront(key) == kids[<<>>] # <<>> /\ key[1] < kids[<<>>][1]

\* Adding a route gives its node the value and links in the nodes on the way to it, each
\* in its place, and nothing else -- but when `lost`, a new first byte below all the
\* others, everything that was there is gone.
LEMMA AddEffect ==
  ASSUME IInv, NEW key \in CallKey, NEW l \in PrefixLength, NEW v \in Value,
         LpmAdd(key, l, v), NEW depth, depth = depthOf(l)
  PROVE  /\ depth \in 1..KeySize
         /\ default_val' = default_val
         /\ kids' \in [Path -> Seq(Byte)]
         /\ \A p \in Path : Ascending(kids'[p])
         /\ \E lost \in BOOLEAN :
              /\ val' = [ValuesKept(lost) EXCEPT ![First(key, depth)] = v]
              /\ \A p \in Path : \A b :
                   b \in ToSet(kids'[p]) <=>
                     \/ ~lost /\ b \in ToSet(kids[p])
                     \/ p = First(key, Len(p)) /\ Len(p) < depth /\ b = key[Len(p) + 1]
              /\ kids[<<>>] # <<>> => (lost <=> InFront(key))
<1> USE DEF IInv
<1>1. key \in Key /\ key \in Seq(Byte) /\ Len(key) = KeySize /\ KeySize \in Nat
  BY LpmAssumption, KeyIsSeq, KeySizeAssumption
<1>2. depth \in 1..KeySize
  <2>1. l \in Int
    BY LpmAssumption
  <2>2. depth \in Int
    BY <2>1 DEF depthOf
  <2> QED
    BY <1>1, <2>2 DEF LpmAdd, ValidDepth
<1> DEFINE m == MatchDepth(key, depth)
           lost == m = 0 /\ SiblingStop(<<>>, key) = 1
           New  == {First(key, d) : d \in (m + 1)..(depth - 1)}
           keptKids  == IF lost THEN [p \in Path |-> <<>>] ELSE kids
           grownKids == IF m = depth THEN keptKids
                        ELSE [keptKids EXCEPT ![First(key, m)] = Linked(First(key, m), key)]
<1>3. /\ kids' = [p \in Path |-> IF p \in New THEN <<key[Len(p) + 1]>> ELSE grownKids[p]]
      /\ val' = [ValuesKept(lost) EXCEPT ![First(key, depth)] = v]
      /\ default_val' = default_val
  BY DEF LpmAdd, ValuesKept
<1>4. m \in 0..depth /\ \A d \in 0..depth : d <= m <=> Reach(kids, First(key, d))
  BY <1>1, <1>2, MatchDepthIsReach
<1> HIDE DEF m
<1>5. ASSUME NEW d \in 0..KeySize
      PROVE  /\ First(key, d) \in Seq(Byte) /\ Len(First(key, d)) = d
             /\ d > 0 => First(key, d) \in Prefix
             /\ d < KeySize => First(key, d) \in Path /\ key[d + 1] \in Byte
  <2>1. d \in 0..Len(key)
    BY <1>1
  <2>2. First(key, d) \in Seq(Byte) /\ Len(First(key, d)) = d
    BY <1>1, <2>1, FirstBytes
  <2>3. d < KeySize => d + 1 \in 1..KeySize
    BY <1>1
  <2> QED
    BY <1>1, <2>2, <2>3, PathsAndPrefixes, KeyIsSeq
<1>6. First(key, 0) = <<>>
  BY SubSeqEmpty DEF First
<1>7. ~lost \/ m < depth
  BY <1>2, <1>4
\* The nodes that the walk did not reach have no children yet.
<1>8. ASSUME NEW d \in (m + 1)..(depth - 1)
      PROVE  kids[First(key, d)] = <<>>
  <2>1. d \in 0..KeySize /\ d \in 0..depth /\ d > 0 /\ d < KeySize /\ ~(d <= m)
    BY <1>1, <1>2, <1>4
  <2> QED
    BY <1>4, <1>5, <2>1 DEF FreedNodesEmpty
<1>9. m < depth => /\ m \in 0..(KeySize - 1)
                   /\ ~Found(First(key, m), key)
                   /\ key[m + 1] \notin ToSet(kids[First(key, m)])
  <2> SUFFICES ASSUME m < depth
               PROVE  /\ m \in 0..(KeySize - 1) /\ ~Found(First(key, m), key)
                      /\ key[m + 1] \notin ToSet(kids[First(key, m)])
    OBVIOUS
  <2>1. /\ m \in 0..(KeySize - 1) /\ m + 1 \in 0..depth /\ ~(m + 1 <= m) /\ m <= m
        /\ m \in 0..depth /\ m + 1 \in 0..Len(key)
    BY <1>1, <1>2, <1>4
  <2>2. Reach(kids, First(key, m)) /\ ~Reach(kids, First(key, m + 1))
    BY <1>4, <2>1
  <2>3. Len(First(key, m)) = m /\ Len(First(key, m + 1)) = m + 1
    BY <1>1, <2>1, FirstBytes
  <2>4. ASSUME NEW e \in 0..m
        PROVE  /\ First(First(key, m + 1), e) = First(key, e)
               /\ First(key, m + 1)[e + 1] = key[e + 1]
               /\ e < m => First(First(key, m), e) = First(key, e) /\ First(key, m)[e + 1] = key[e + 1]
    <3>1. e \in 0..(m + 1) /\ e + 1 \in 1..(m + 1) /\ e \in 0..m /\ m \in 0..Len(key)
      BY <2>1
    <3>2. e < m => e + 1 \in 1..m
      BY <2>1
    <3> QED
      BY <1>1, <2>1, <3>1, <3>2, FirstBytes
  <2>5. key[m + 1] \notin ToSet(kids[First(key, m)])
    <3>1. PICK e \in 0..m : key[e + 1] \notin ToSet(kids[First(key, e)])
      BY <2>1, <2>2, <2>3, <2>4 DEF Reach
    <3>2. ~(e < m)
      <4> SUFFICES ASSUME e < m PROVE FALSE
        OBVIOUS
      <4>1. e \in 0..(m - 1)
        BY <2>1
      <4> QED
        BY <2>2, <2>3, <2>4, <3>1, <4>1 DEF Reach
    <3> QED
      BY <2>1, <3>1, <3>2
  <2> QED
    BY <1>1, <2>1, <2>5, FoundIsMembership
<1>10. /\ keptKids \in [Path -> Seq(Byte)]
       /\ \A p \in Path : Ascending(keptKids[p])
       /\ \A p \in Path : \A b : b \in ToSet(keptKids[p]) <=> ~lost /\ b \in ToSet(kids[p])
  <2>1. <<>> \in Seq(Byte) /\ Ascending(<<>>) /\ ToSet(<<>>) = {}
    BY DEF Ascending, ToSet
  <2>2. CASE lost
    BY <2>1, <2>2
  <2>3. CASE ~lost
    BY <2>3 DEF TypeOK, SiblingsAscending, Ascending
  <2> QED
    BY <2>2, <2>3
<1> HIDE DEF keptKids
<1>11. ASSUME NEW p \in Path
       PROVE  /\ kids'[p] \in Seq(Byte) /\ Ascending(kids'[p])
              /\ \A b : b \in ToSet(kids'[p]) <=>
                     \/ ~lost /\ b \in ToSet(kids[p])
                     \/ p = First(key, Len(p)) /\ Len(p) < depth /\ b = key[Len(p) + 1]
  <2>0. p \in Seq(Byte) /\ Len(p) \in Nat /\ Len(p) <= KeySize - 1
    BY PathsAndPrefixes, LenProperties
  <2>1. CASE p \in New
    <3>1. PICK d \in (m + 1)..(depth - 1) : p = First(key, d)
      BY <2>1
    <3>2. d \in 0..KeySize /\ d < KeySize /\ d < depth
      BY <1>1, <1>2, <1>4, <3>1
    <3>3. Len(p) = d /\ key[d + 1] \in Byte
      BY <1>5, <3>1, <3>2
    <3>4. kids[p] = <<>>
      BY <1>8, <3>1
    <3>5. kids'[p] = <<key[d + 1]>>
      BY <1>3, <2>1, <3>3
    <3>6. <<key[d + 1]>> \in Seq(Byte) /\ Len(<<key[d + 1]>>) = 1 /\ ToSet(<<key[d + 1]>>) = {key[d + 1]}
      BY <3>3 DEF ToSet
    <3>7. Ascending(<<key[d + 1]>>)
      <4>1. \A i, j \in 1..1 : ~(i < j)
        OBVIOUS
      <4> QED
        BY <3>6, <4>1 DEF Ascending
    <3>8. ToSet(kids[p]) = {}
      BY <3>4 DEF ToSet
    <3> QED
      BY <3>1, <3>2, <3>3, <3>5, <3>6, <3>7, <3>8
  <2>2. CASE p \notin New /\ m < depth /\ p = First(key, m)
    <3>1. kids'[p] = Linked(p, key)
      <4>1. m # depth
        BY <1>2, <1>4, <2>2
      <4>2. grownKids = [keptKids EXCEPT ![p] = Linked(p, key)]
        BY <2>2, <4>1
      <4>3. kids'[p] = grownKids[p]
        BY <1>3, <2>2
      <4> QED
        BY <1>10, <4>2, <4>3
    <3>2. Len(p) = m
      BY <1>1, <1>5, <1>9, <2>2
    <3>3. /\ Linked(p, key) \in Seq(Byte)
          /\ Ascending(Linked(p, key))
          /\ \A b : b \in ToSet(Linked(p, key)) <=>
                      \/ b = key[m + 1]
                      \/ b \in ToSet(kids[p]) /\ ~(m = 0 /\ SiblingStop(p, key) = 1)
      BY <1>1, <1>9, <2>2, LinkedProperties
    <3>4. lost <=> m = 0 /\ SiblingStop(p, key) = 1
      BY <1>6, <2>2
    <3> HIDE DEF lost
    <3> QED
      BY <2>2, <3>1, <3>2, <3>3, <3>4
  <2>3. CASE p \notin New /\ ~(m < depth /\ p = First(key, m))
    <3>1. kids'[p] = keptKids[p]
      BY <1>2, <1>3, <1>4, <1>10, <2>3
    <3>2. ASSUME p = First(key, Len(p)), Len(p) < depth
          PROVE  ~lost /\ key[Len(p) + 1] \in ToSet(kids[p])
      <4>1. Len(p) < m
        <5>1. Len(p) \notin (m + 1)..(depth - 1)
          BY <2>3, <3>2
        <5>2. Len(p) # m
          BY <2>3, <3>2
        <5> QED
          BY <1>2, <1>4, <2>0, <3>2, <5>1, <5>2
      <4>2. m \in 0..depth /\ m <= m /\ m \in 0..Len(key) /\ Len(p) \in 0..(m - 1)
            /\ Len(p) + 1 \in 1..m /\ Len(p) \in 0..m
        BY <1>1, <1>2, <1>4, <2>0, <4>1
      <4>3. Reach(kids, First(key, m)) /\ Len(First(key, m)) = m
        BY <1>1, <1>4, <4>2, FirstBytes
      <4>4. First(First(key, m), Len(p)) = p /\ First(key, m)[Len(p) + 1] = key[Len(p) + 1]
        BY <1>1, <3>2, <4>2, FirstBytes
      <4>5. key[Len(p) + 1] \in ToSet(kids[p])
        BY <4>2, <4>3, <4>4 DEF Reach
      <4> QED
        BY <2>0, <4>1, <4>5
    <3> HIDE DEF lost, New
    <3> QED
      BY <1>10, <3>1, <3>2
  <2> QED
    BY <2>1, <2>2, <2>3
<1>12. kids' \in [Path -> Seq(Byte)]
  <2> HIDE DEF New, grownKids
  <2>1. DOMAIN kids' = Path /\ kids' = [p \in Path |-> kids'[p]]
    BY <1>3
  <2> QED
    BY <1>11, <2>1
<1>13. kids[<<>>] # <<>> => (lost <=> InFront(key))
  <2> SUFFICES ASSUME kids[<<>>] # <<>>
               PROVE  lost <=> InFront(key)
    OBVIOUS
  <2>1. /\ 0 \in 0..(KeySize - 1) /\ kids[<<>>] \in Seq(Byte) /\ Len(kids[<<>>]) \in Nat
        /\ SiblingStop(<<>>, key) \in 1..(Len(kids[<<>>]) + 1)
        /\ \A i \in 1..Len(kids[<<>>]) : i < SiblingStop(<<>>, key) => kids[<<>>][i] < key[1]
    <3>1. 0 \in 0..(KeySize - 1) /\ 0 + 1 = 1
      BY <1>1, <1>2
    <3> QED
      BY <1>1, <1>6, <3>1, SiblingStopProperties
  <2>2. 1 \in 1..Len(kids[<<>>])
    BY <2>1, EmptySeq
  <2>3. key[1] \in Int /\ kids[<<>>][1] \in Int
    <3>1. 1 \in 1..KeySize
      BY <1>1, <1>2
    <3> QED
      BY <1>1, <2>1, <2>2, <3>1, BytesAreInts, KeyIsSeq, ElementOfSeq
  <2>4. ASSUME lost PROVE kids[<<>>][1] > key[1]
    <3>1. m = 0 /\ m < depth
      BY <1>7, <2>4
    <3>2. ~Found(<<>>, key) /\ SiblingStop(<<>>, key) = 1
      BY <1>6, <1>9, <2>4, <3>1
    <3> QED
      BY <1>1, <1>6, <2>1, <2>2, <3>2, FoundIsMembership
  <2>5. ASSUME InFront(key) PROVE lost
    <3>1. kids[<<>>][1] > key[1] /\ ~(kids[<<>>][1] < key[1])
      BY <2>3, <2>5 DEF InFront
    <3>2. SiblingStop(<<>>, key) = 1
      BY <2>1, <2>2, <3>1
    <3>3. key[1] \notin ToSet(kids[<<>>])
      <4> SUFFICES ASSUME key[1] \in ToSet(kids[<<>>]) PROVE FALSE
        OBVIOUS
      <4>1. \E i \in 1..Len(kids[<<>>]) : kids[<<>>][i] = key[1]
        BY <2>1, LenProperties DEF ToSet
      <4>2. \A i \in 1..Len(kids[<<>>]) : kids[<<>>][i] = key[1] => i = SiblingStop(<<>>, key)
        <5>1. 0 + 1 = 1
          OBVIOUS
        <5> QED
          BY <1>1, <1>6, <2>1, <5>1, FoundIsMembership
      <4> QED
        BY <2>3, <3>1, <3>2, <4>1, <4>2
    <3>4. 1 \in 0..KeySize /\ 0 \in 0..(1 - 1) /\ 0 + 1 = 1 /\ 1 \in 0..Len(key)
          /\ 0 \in 0..1 /\ 1 \in 1..1 /\ 1 \in 0..depth
      BY <1>1, <1>2
    <3>5. First(First(key, 1), 0) = <<>> /\ First(key, 1)[1] = key[1] /\ Len(First(key, 1)) = 1
      BY <1>1, <1>6, <3>4, FirstBytes
    <3>6. ~Reach(kids, First(key, 1))
      BY <3>3, <3>4, <3>5 DEF Reach
    <3>7. ~(1 <= m)
      BY <1>4, <3>4, <3>6
    <3>8. m = 0
      BY <1>2, <1>4, <3>7
    <3> QED
      BY <3>2, <3>8
  <2> QED
    BY <2>2, <2>3, <2>4, <2>5 DEF InFront
<1>14. lost \in BOOLEAN
  OBVIOUS
<1> HIDE DEF lost, New, grownKids
<1> QED
  BY <1>2, <1>3, <1>11, <1>12, <1>13, <1>14

\* What that leaves reachable: the new route with the nodes on the way to it and, unless
\* they are lost, the nodes that were reachable before.
LEMMA AddReach ==
  ASSUME IInv, NEW key \in Key, NEW depth \in 1..KeySize, NEW lost \in BOOLEAN, NEW k2,
         \A p \in Path : \A b :
           b \in ToSet(k2[p]) <=>
             \/ ~lost /\ b \in ToSet(kids[p])
             \/ p = First(key, Len(p)) /\ Len(p) < depth /\ b = key[Len(p) + 1],
         NEW p \in Prefix
  PROVE  Reach(k2, p) <=> \/ ~lost /\ Reach(kids, p)
                          \/ p = First(key, Len(p)) /\ Len(p) <= depth
<1> DEFINE n == Len(p)
           OnWay(q) == q = First(key, Len(q)) /\ Len(q) < depth
           New(e) == First(p, e) = First(key, e) /\ e < depth /\ p[e + 1] = key[e + 1]
           Old(e) == ~lost /\ p[e + 1] \in ToSet(kids[First(p, e)])
<1>1. /\ p \in Seq(Byte) /\ n \in 1..KeySize /\ KeySize \in Nat
      /\ key \in Seq(Byte) /\ Len(key) = KeySize /\ depth \in Nat /\ depth <= KeySize
  BY PathsAndPrefixes, LenProperties, KeySizeAssumption, KeyIsSeq
<1>2. ASSUME NEW e \in 0..(n - 1)
      PROVE  /\ First(p, e) \in Path /\ Len(First(p, e)) = e
             /\ e > 0 => First(p, e) \in Prefix
             /\ p[e + 1] \in ToSet(k2[First(p, e)]) <=> Old(e) \/ New(e)
  <2>1. e \in 0..Len(p)
    BY <1>1
  <2>2. First(p, e) \in Seq(Byte) /\ Len(First(p, e)) = e
    BY <1>1, <2>1, FirstBytes
  <2>3. First(p, e) \in Path
    BY <1>1, <2>2, PathsAndPrefixes
  <2>4. e > 0 => First(p, e) \in Prefix
    BY <1>1, <2>2, PathsAndPrefixes
  <2> QED
    BY <2>2, <2>3, <2>4
<1>3. Reach(k2, p) <=> \A e \in 0..(n - 1) : Old(e) \/ New(e)
  <2> HIDE DEF Old, New
  <2> QED
    BY <1>2 DEF Reach
<1>4. ~lost => (Reach(kids, p) <=> \A e \in 0..(n - 1) : Old(e))
  BY DEF Reach
\* Up to where p runs along the key.
<1>5. \A d \in 0..n : First(p, d) = First(key, d) <=> \A i \in 1..d : p[i] = key[i]
  BY <1>1, FirstEqual
<1>6. \A e \in 0..(n - 1) : New(e) <=> First(p, e + 1) = First(key, e + 1) /\ e + 1 <= depth
  <2> TAKE e \in 0..(n - 1)
  <2>1. e \in 0..n /\ e + 1 \in 0..n
    BY <1>1
  <2>2. \A i : i \in 1..(e + 1) <=> i \in 1..e \/ i = e + 1
    BY <2>1
  <2> QED
    BY <1>1, <1>5, <2>1, <2>2
<1>7. First(p, n) = p
  BY <1>1, FirstBytes
<1>8. ASSUME p = First(key, n), n <= depth
      PROVE  Reach(k2, p)
  <2>1. ASSUME NEW e \in 0..(n - 1) PROVE New(e)
    <3>1. e + 1 \in 0..n /\ e + 1 <= depth /\ n \in 0..n
      BY <1>1, <1>8
    <3>2. \A i \in 1..n : p[i] = key[i]
      BY <1>5, <1>7, <1>8, <3>1
    <3>3. First(p, e + 1) = First(key, e + 1)
      <4>1. \A i \in 1..(e + 1) : i \in 1..n
        BY <1>1
      <4> QED
        BY <1>5, <3>1, <3>2, <4>1
    <3> QED
      BY <1>6, <3>1, <3>3
  <2> HIDE DEF Old, New
  <2> QED
    BY <1>3, <2>1
<1>9. ASSUME Reach(k2, p), ~(p = First(key, n) /\ n <= depth)
      PROVE  ~lost /\ Reach(kids, p)
  <2> DEFINE S == {d \in 0..n : First(p, d) = First(key, d) /\ d <= depth}
             d == Max(S)
  <2>1. First(p, 0) = First(key, 0)
    BY SubSeqEmpty DEF First
  <2>2. S \in SUBSET (0..n) /\ 0 \in S
    BY <1>1, <2>1
  <2>3. d \in S /\ \A e \in S : e <= d
    <3>1. n \in Nat
      BY <1>1
    <3> HIDE DEF S, n
    <3>2. Max(S) \in S /\ \A e \in S : e <= Max(S)
      BY <2>2, <3>1, MaxNat
    <3> QED
      BY <3>2
  <2> HIDE DEF d
  <2>4. d \in 0..(n - 1)
    BY <1>1, <1>7, <1>9, <2>3
  <2>5. \A e \in 0..(n - 1) : e >= d => ~New(e)
    <3> SUFFICES ASSUME NEW e \in 0..(n - 1), e >= d, New(e)
                 PROVE  FALSE
      OBVIOUS
    <3>1. e + 1 \in S
      BY <1>1, <1>6
    <3> QED
      BY <1>1, <2>3, <2>4, <3>1
  <2>6. \A e \in 0..(n - 1) : e >= d => Old(e)
    <3> HIDE DEF Old, New
    <3> QED
      BY <1>3, <1>9, <2>5
  <2>7. ~lost /\ p[d + 1] \in ToSet(kids[First(p, d)])
    BY <1>1, <2>4, <2>6
  <2>8. \A e \in 0..(d - 1) : p[e + 1] \in ToSet(kids[First(p, e)])
    <3>1. CASE d = 0
      BY <3>1
    <3>2. CASE d > 0
      <4>1. kids[First(p, d)] # <<>>
        BY <2>7 DEF ToSet
      <4>2. Reach(kids, First(p, d))
        BY <1>2, <2>4, <3>2, <4>1 DEF IInv, FreedNodesEmpty
      <4>3. ASSUME NEW e \in 0..(d - 1)
            PROVE  First(First(p, d), e) = First(p, e) /\ First(p, d)[e + 1] = p[e + 1]
        <5>1. d \in 0..Len(p) /\ e \in 0..d /\ e + 1 \in 1..d
          BY <1>1, <2>4
        <5> QED
          BY <1>1, <5>1, FirstBytes
      <4> QED
        BY <1>2, <2>4, <4>2, <4>3 DEF Reach
    <3> QED
      BY <2>4, <3>1, <3>2
  <2>9. \A e \in 0..(n - 1) : Old(e)
    <3> TAKE e \in 0..(n - 1)
    <3>1. CASE e < d
      <4>1. e \in 0..(d - 1)
        BY <2>4, <3>1
      <4> QED
        BY <2>7, <2>8, <4>1
    <3>2. CASE e >= d
      BY <2>6, <3>2
    <3> QED
      BY <2>4, <3>1, <3>2
  <2> HIDE DEF Old
  <2> QED
    BY <1>4, <2>7, <2>9
<1>10. ASSUME ~lost, Reach(kids, p)
       PROVE  Reach(k2, p)
  <2> HIDE DEF Old, New
  <2> QED
    BY <1>3, <1>4, <1>10
<1> QED
  BY <1>8, <1>9, <1>10

\* Adding a route keeps the invariant.
LEMMA AddInv ==
  ASSUME IInv, NEW key \in CallKey, NEW l \in PrefixLength, NEW v \in Value, LpmAdd(key, l, v)
  PROVE  IInv'
<1> DEFINE depth == depthOf(l)
           here == First(key, depth)
<1>1. /\ depth \in 1..KeySize /\ default_val' = default_val
      /\ kids' \in [Path -> Seq(Byte)] /\ \A p \in Path : Ascending(kids'[p])
  BY AddEffect
<1>2. PICK lost \in BOOLEAN :
        /\ val' = [ValuesKept(lost) EXCEPT ![here] = v]
        /\ \A p \in Path : \A b :
             b \in ToSet(kids'[p]) <=>
               \/ ~lost /\ b \in ToSet(kids[p])
               \/ p = First(key, Len(p)) /\ Len(p) < depth /\ b = key[Len(p) + 1]
        /\ kids[<<>>] # <<>> => (lost <=> InFront(key))
  BY AddEffect
<1>3. key \in Key
  BY LpmAssumption
<1> HIDE DEF depth
<1>4. \A p \in Prefix :
        Reach(kids', p) <=>
          \/ ~lost /\ Reach(kids, p)
          \/ p = First(key, Len(p)) /\ Len(p) <= depth
  BY <1>1, <1>2, <1>3, AddReach
<1>5. here \in Prefix /\ here \in Route /\ Len(here) = depth
  <2>1. depth \in 0..Len(key) /\ key \in Seq(Byte)
    BY <1>1, <1>3, KeyIsSeq, KeySizeAssumption
  <2> QED
    BY <1>1, <1>3, <2>1, RoutesArePrefixes, FirstBytes
<1>6. \A p \in Prefix : val'[p] = IF p = here THEN v ELSE IF lost THEN NoEntry ELSE val[p]
  BY <1>2, <1>5 DEF IInv, TypeOK, ValuesKept
<1>7. TypeOK'
  BY <1>1, <1>2, <1>5 DEF IInv, TypeOK, ValuesKept
<1>8. SiblingsAscending'
  BY <1>1 DEF SiblingsAscending, Ascending
<1>9. ValuesOnRoutes'
  BY <1>5, <1>6 DEF IInv, ValuesOnRoutes
<1>10. FreedNodesEmpty'
  <2> SUFFICES ASSUME NEW p \in Prefix, ~Reach(kids', p)
               PROVE  val'[p] = NoEntry /\ (p \in Path => kids'[p] = <<>>)
    BY DEF FreedNodesEmpty
  <2>1. (lost \/ ~Reach(kids, p)) /\ ~(p = First(key, Len(p)) /\ Len(p) <= depth)
    BY <1>4
  <2>2. depth \in Nat /\ Len(p) \in Nat
    BY <1>1, PathsAndPrefixes, LenProperties, KeySizeAssumption
  <2>3. p # here
    BY <1>5, <2>1, <2>2
  <2>4. val'[p] = NoEntry
    BY <1>6, <2>1, <2>3 DEF IInv, FreedNodesEmpty
  <2>5. ASSUME p \in Path PROVE kids'[p] = <<>>
    <3>1. kids'[p] \in Seq(Byte)
      BY <1>1, <2>5
    <3>2. lost \/ kids[p] = <<>>
      BY <2>1, <2>5 DEF IInv, FreedNodesEmpty
    <3>3. lost \/ ToSet(kids[p]) = {}
      BY <3>2 DEF ToSet
    <3>4. \A b : b \notin ToSet(kids'[p])
      BY <1>2, <2>1, <2>2, <2>5, <3>3
    <3>5. Len(kids'[p]) = 0
      <4>1. \A i \in 1..Len(kids'[p]) : kids'[p][i] \in ToSet(kids'[p])
        BY <3>1, LenProperties DEF ToSet
      <4> QED
        BY <3>1, <3>4, <4>1, LenProperties
    <3> QED
      BY <3>1, <3>5, EmptySeq
  <2> QED
    BY <2>4, <2>5
<1> QED
  BY <1>7, <1>8, <1>9, <1>10 DEF IInv

-----------------------------------------------------------------------------
(* What removing a route does to them.                                     *)

\* Removing a route takes the value of its node, and unlinks that node from its parent's
\* list exactly when the node has no children.
LEMMA RemoveEffect ==
  ASSUME IInv, NEW key \in CallKey, NEW l \in PrefixLength, LpmRemove(key, l),
         NEW depth, depth = depthOf(l)
  PROVE  /\ depth \in 1..KeySize
         /\ default_val' = default_val
         /\ val' = [val EXCEPT ![First(key, depth)] = NoEntry]
         /\ Reach(kids, First(key, depth))
         /\ kids' \in [Path -> Seq(Byte)]
         /\ \A p \in Path : Ascending(kids'[p])
         /\ \A p \in Path : kids'[p] = kids[p] \/ p = First(key, depth - 1)
         /\ \A p \in Path : \A b :
              b \in ToSet(kids'[p]) <=>
                /\ b \in ToSet(kids[p])
                /\ ~(Childless(First(key, depth)) /\ p = First(key, depth - 1) /\ b = key[depth])
<1> USE DEF IInv
<1> DEFINE here == First(key, depth)
           up == First(key, depth - 1)
           c == kids[up]
           s == SiblingStop(up, key)
           n == key[depth]
<1>1. key \in Key /\ key \in Seq(Byte) /\ Len(key) = KeySize /\ KeySize \in Nat
  BY LpmAssumption, KeyIsSeq, KeySizeAssumption
<1>2. depth \in 1..KeySize
  <2>1. l \in Int
    BY LpmAssumption
  <2>2. depth \in Int
    BY <2>1 DEF depthOf
  <2> QED
    BY <1>1, <2>2 DEF LpmRemove, ValidDepth
<1>3. /\ val' = [val EXCEPT ![here] = NoEntry]
      /\ default_val' = default_val
      /\ MatchDepth(key, depth) = depth
      /\ kids' = IF Childless(here) THEN [kids EXCEPT ![up] = RemoveAt(c, s)] ELSE kids
  BY DEF LpmRemove
<1>4. Reach(kids, here)
  <2>1. depth \in 0..KeySize /\ depth \in 0..depth /\ depth <= depth
    BY <1>1, <1>2
  <2> QED
    BY <1>1, <1>3, <2>1, MatchDepthIsReach
<1>5. /\ up \in Path /\ c \in Seq(Byte) /\ Len(c) \in Nat /\ s \in 1..(Len(c) + 1)
      /\ \A i \in 1..Len(c) : c[i] = n => i = s
      /\ n \in ToSet(c)
  <2>1. depth - 1 \in 0..(KeySize - 1) /\ (depth - 1) + 1 = depth /\ depth \in 0..Len(key)
        /\ depth - 1 \in 0..depth /\ depth \in 1..depth /\ depth - 1 \in 0..(depth - 1)
    BY <1>1, <1>2
  <2>2. Len(here) = depth /\ First(here, depth - 1) = up /\ here[depth] = n
    BY <1>1, <2>1, FirstBytes
  <2>3. n \in ToSet(c)
    BY <1>4, <2>1, <2>2 DEF Reach
  <2> HIDE DEF c, s
  <2> QED
    BY <1>1, <2>1, <2>3, SiblingStopProperties, FoundIsMembership DEF c, s
<1>6. s \in 1..Len(c) /\ c[s] = n
  BY <1>5, LenProperties DEF ToSet
<1>7. \A i, j \in 1..Len(c) : i < j => c[i] < c[j]
  BY <1>5 DEF SiblingsAscending
<1> HIDE DEF c, s, n
<1> DEFINE u == RemoveAt(c, s)
<1>8. /\ u \in Seq(Byte) /\ Len(u) = Len(c) - 1
      /\ \A i \in 1..(Len(c) - 1) : u[i] = IF i < s THEN c[i] ELSE c[i + 1]
  BY <1>5, <1>6, RemoveAtProperties
<1> HIDE DEF u
<1>9. Ascending(u)
  <2> SUFFICES ASSUME NEW i \in 1..Len(u), NEW j \in 1..Len(u), i < j
               PROVE  u[i] < u[j]
    BY DEF Ascending
  <2> DEFINE a(x) == IF x < s THEN x ELSE x + 1
  <2>1. a(i) \in 1..Len(c) /\ a(j) \in 1..Len(c) /\ a(i) < a(j)
    BY <1>5, <1>6, <1>8
  <2>2. u[i] = c[a(i)] /\ u[j] = c[a(j)]
    BY <1>5, <1>6, <1>8
  <2> HIDE DEF a
  <2> QED
    BY <1>7, <2>1, <2>2
<1>10. ASSUME NEW b
       PROVE  b \in ToSet(u) <=> b \in ToSet(c) /\ b # n
  <2>1. \A x : x \in ToSet(c) <=> \E i \in 1..Len(c) : x = c[i]
    BY <1>5, LenProperties DEF ToSet
  <2>2. \A x : x \in ToSet(u) <=> \E i \in 1..Len(u) : x = u[i]
    BY <1>8, LenProperties DEF ToSet
  <2>3. ASSUME NEW i \in 1..Len(u), b = u[i]
        PROVE  b # n /\ \E j \in 1..Len(c) : b = c[j]
    <3> DEFINE j == IF i < s THEN i ELSE i + 1
    <3>1. j \in 1..Len(c) /\ j # s /\ u[i] = c[j]
      BY <1>5, <1>6, <1>8
    <3> HIDE DEF j
    <3> QED
      BY <1>5, <2>3, <3>1
  <2>4. ASSUME NEW i \in 1..Len(c), b = c[i], b # n
        PROVE  \E j \in 1..Len(u) : b = u[j]
    <3>1. i # s
      BY <1>6, <2>4
    <3> DEFINE j == IF i < s THEN i ELSE i - 1
    <3>2. j \in 1..Len(u) /\ u[j] = c[i]
      BY <1>5, <1>6, <1>8, <3>1
    <3> HIDE DEF j
    <3> QED
      BY <2>4, <3>2
  <2> QED
    BY <2>1, <2>2, <2>3, <2>4
<1>11. kids' = IF Childless(here) THEN [kids EXCEPT ![up] = u] ELSE kids
  BY <1>3 DEF u
<1>12. \A p \in Path : kids'[p] = IF Childless(here) /\ p = up THEN u ELSE kids[p]
  <2> HIDE DEF here, up
  <2> QED
    BY <1>11 DEF TypeOK
<1>13. kids' \in [Path -> Seq(Byte)]
  <2> HIDE DEF here, up
  <2> QED
    BY <1>5, <1>8, <1>11 DEF TypeOK
<1>14. \A p \in Path : Ascending(kids'[p])
  <2> HIDE DEF here, up
  <2> QED
    BY <1>9, <1>12 DEF SiblingsAscending, Ascending
<1>15. ASSUME NEW p \in Path, NEW b
       PROVE  b \in ToSet(kids'[p]) <=> b \in ToSet(kids[p]) /\ ~(Childless(here) /\ p = up /\ b = n)
  <2>1. CASE Childless(here) /\ p = up
    BY <1>10, <1>12, <2>1 DEF c
  <2>2. CASE ~(Childless(here) /\ p = up)
    BY <1>12, <2>2
  <2> QED
    BY <2>1, <2>2
<1> QED
  BY <1>2, <1>3, <1>4, <1>12, <1>13, <1>14, <1>15 DEF n

\* What that leaves reachable: everything that was, but the node it unlinked.
LEMMA RemoveReach ==
  ASSUME IInv, NEW key \in Key, NEW depth \in 1..KeySize, NEW k2,
         \A p \in Path : \A b :
           b \in ToSet(k2[p]) <=>
             /\ b \in ToSet(kids[p])
             /\ ~(Childless(First(key, depth)) /\ p = First(key, depth - 1) /\ b = key[depth]),
         NEW p \in Prefix
  PROVE  Reach(k2, p) <=> Reach(kids, p) /\ ~(Childless(First(key, depth)) /\ p = First(key, depth))
<1> DEFINE n == Len(p)
           here == First(key, depth)
           up == First(key, depth - 1)
           freed == Childless(here)
<1>1. /\ p \in Seq(Byte) /\ n \in 1..KeySize /\ KeySize \in Nat
      /\ key \in Seq(Byte) /\ Len(key) = KeySize
      /\ depth \in 0..Len(key) /\ depth - 1 \in 0..depth /\ depth - 1 \in 0..Len(key)
      /\ depth \in 1..depth /\ depth \in Nat
  BY PathsAndPrefixes, LenProperties, KeySizeAssumption, KeyIsSeq
<1>2. /\ here \in Seq(Byte) /\ Len(here) = depth /\ here[depth] = key[depth]
      /\ First(here, depth - 1) = up /\ up \in Seq(Byte) /\ Len(up) = depth - 1
      /\ \A i \in 1..depth : here[i] = key[i]
      /\ \A i \in 1..(depth - 1) : up[i] = key[i]
  BY <1>1, FirstBytes
<1>3. ASSUME NEW e \in 0..(n - 1)
      PROVE  First(p, e) \in Path /\ First(p, e) \in Seq(Byte) /\ Len(First(p, e)) = e
  <2>1. e \in 0..Len(p)
    BY <1>1
  <2>2. First(p, e) \in Seq(Byte) /\ Len(First(p, e)) = e
    BY <1>1, <2>1, FirstBytes
  <2> QED
    BY <1>1, <2>2, PathsAndPrefixes
<1> HIDE DEF freed, here, up
<1>4. \A e \in 0..(n - 1) :
        p[e + 1] \in ToSet(k2[First(p, e)]) <=>
          p[e + 1] \in ToSet(kids[First(p, e)]) /\ ~(freed /\ First(p, e) = up /\ p[e + 1] = key[depth])
  BY <1>3 DEF freed, here, up
<1>5. ASSUME Reach(k2, p)
      PROVE  Reach(kids, p) /\ ~(freed /\ p = here)
  <2>1. Reach(kids, p)
    BY <1>4, <1>5 DEF Reach
  <2>2. ASSUME freed, p = here PROVE FALSE
    <3>1. depth - 1 \in 0..(n - 1) /\ (depth - 1) + 1 = depth
      BY <1>1, <1>2, <2>2
    <3>2. p[depth] \in ToSet(k2[First(p, depth - 1)])
      BY <1>5, <3>1 DEF Reach
    <3> QED
      BY <1>2, <1>4, <2>2, <3>1, <3>2
  <2> QED
    BY <2>1, <2>2
<1>6. ASSUME Reach(kids, p), ~(freed /\ p = here)
      PROVE  Reach(k2, p)
  <2>1. ASSUME NEW e \in 0..(n - 1), freed, First(p, e) = up, p[e + 1] = key[depth]
        PROVE  FALSE
    <3>1. e = depth - 1 /\ e + 1 = depth /\ depth <= n
      BY <1>1, <1>2, <1>3, <2>1
    <3>2. depth \in 0..Len(p) /\ e \in 0..depth /\ e \in 0..Len(p)
      BY <1>1, <3>1
    <3>3. /\ First(p, depth) \in Seq(Byte) /\ Len(First(p, depth)) = depth
          /\ \A i \in 1..depth : First(p, depth)[i] = p[i]
          /\ \A i \in 1..e : First(p, e)[i] = p[i]
      BY <1>1, <3>2, FirstBytes
    <3>4. \A i \in 1..depth : First(p, depth)[i] = here[i]
      <4> TAKE i \in 1..depth
      <4>1. CASE i = depth
        BY <1>2, <2>1, <3>1, <3>3, <4>1
      <4>2. CASE i < depth
        <5>1. i \in 1..e /\ i \in 1..(depth - 1)
          BY <1>1, <3>1, <4>2
        <5> QED
          BY <1>2, <2>1, <3>3, <5>1
      <4> QED
        BY <1>1, <4>1, <4>2
    <3>5. First(p, depth) = here
      BY <1>2, <3>3, <3>4, SeqEqual
    <3>6. CASE depth = n
      BY <1>1, <1>6, <2>1, <3>5, <3>6, FirstBytes
    <3>7. CASE depth < n
      <4>1. depth \in 0..(n - 1)
        BY <1>1, <3>7
      <4>2. p[depth + 1] \in ToSet(kids[here])
        BY <1>6, <3>5, <4>1 DEF Reach
      <4>3. kids[here] # <<>>
        BY <4>2 DEF ToSet
      <4>4. Len(here) # KeySize
        BY <1>1, <1>2, <3>7
      <4> QED
        BY <2>1, <4>3, <4>4 DEF freed, Childless
    <3> QED
      BY <1>1, <3>1, <3>6, <3>7
  <2> QED
    BY <1>4, <1>6, <2>1 DEF Reach
<1> QED
  BY <1>5, <1>6 DEF freed, here

\* Removing a route keeps the invariant.
LEMMA RemoveInv ==
  ASSUME IInv, NEW key \in CallKey, NEW l \in PrefixLength, LpmRemove(key, l)
  PROVE  IInv'
<1> DEFINE depth == depthOf(l)
           here == First(key, depth)
           up == First(key, depth - 1)
<1>1. /\ depth \in 1..KeySize /\ default_val' = default_val
      /\ val' = [val EXCEPT ![here] = NoEntry]
      /\ Reach(kids, here)
      /\ kids' \in [Path -> Seq(Byte)] /\ \A p \in Path : Ascending(kids'[p])
      /\ \A p \in Path : kids'[p] = kids[p] \/ p = up
  BY RemoveEffect
<1>2. key \in Key
  BY LpmAssumption
<1>3. \A p \in Path : \A b :
        b \in ToSet(kids'[p]) <=>
          /\ b \in ToSet(kids[p])
          /\ ~(Childless(here) /\ p = up /\ b = key[depth])
  BY RemoveEffect
<1> HIDE DEF depth
<1>4. \A p \in Prefix : Reach(kids', p) <=> Reach(kids, p) /\ ~(Childless(here) /\ p = here)
  BY <1>1, <1>2, <1>3, RemoveReach
<1>5. /\ here \in Prefix /\ Len(here) = depth
      /\ up \in Seq(Byte) /\ Len(up) = depth - 1 /\ up = First(here, depth - 1)
  <2>1. depth \in 0..Len(key) /\ depth - 1 \in 0..Len(key) /\ depth - 1 \in 0..depth /\ key \in Seq(Byte)
    BY <1>1, <1>2, KeyIsSeq, KeySizeAssumption
  <2> QED
    BY <1>1, <1>2, <2>1, RoutesArePrefixes, FirstBytes
<1> HIDE DEF here, up
<1>6. \A p \in Prefix : val'[p] = IF p = here THEN NoEntry ELSE val[p]
  BY <1>1, <1>5 DEF IInv, TypeOK
<1>7. TypeOK'
  BY <1>1 DEF IInv, TypeOK
<1>8. SiblingsAscending'
  BY <1>1 DEF SiblingsAscending, Ascending
<1>9. ValuesOnRoutes'
  BY <1>6 DEF IInv, ValuesOnRoutes
\* A node reached below `up` is reached through it.
<1>10. \A p \in Prefix : p = up => Reach(kids, p)
  <2> SUFFICES ASSUME up \in Prefix PROVE Reach(kids, up)
    OBVIOUS
  <2>1. ASSUME NEW e \in 0..(Len(up) - 1)
        PROVE  First(up, e) = First(here, e) /\ up[e + 1] = here[e + 1] /\ e \in 0..(Len(here) - 1)
    <3>1. /\ depth - 1 \in 0..Len(here) /\ e \in 0..(depth - 1) /\ e + 1 \in 1..(depth - 1)
          /\ here \in Seq(Byte) /\ depth \in Nat
      BY <1>1, <1>5, PathsAndPrefixes, KeySizeAssumption
    <3> QED
      BY <1>5, <3>1, FirstBytes
  <2> QED
    BY <1>1, <2>1 DEF Reach
<1>11. FreedNodesEmpty'
  <2> SUFFICES ASSUME NEW p \in Prefix, ~Reach(kids', p)
               PROVE  val'[p] = NoEntry /\ (p \in Path => kids'[p] = <<>>)
    BY DEF FreedNodesEmpty
  <2>1. CASE p = here
    <3>1. Childless(here) /\ val'[p] = NoEntry
      BY <1>1, <1>4, <1>6, <2>1
    <3>2. ASSUME p \in Path PROVE kids'[p] = <<>>
      <4>1. Len(here) # KeySize /\ here # up
        BY <1>1, <1>5, <2>1, <3>2, PathsAndPrefixes, KeySizeAssumption
      <4> QED
        BY <1>1, <2>1, <3>1, <3>2, <4>1 DEF Childless
    <3> QED
      BY <3>1, <3>2
  <2>2. CASE p # here
    <3>1. ~Reach(kids, p) /\ p # up
      BY <1>4, <1>10, <2>2
    <3> QED
      BY <1>1, <1>6, <2>2, <3>1 DEF IInv, FreedNodesEmpty
  <2> QED
    BY <2>1, <2>2
<1> QED
  BY <1>7, <1>8, <1>9, <1>11 DEF IInv

-----------------------------------------------------------------------------
(* The invariants.                                                         *)

\* An empty table has no children, no values and nothing reachable.
LEMMA EmptyTrie ==
  ASSUME NEW k, k = [p \in Path |-> <<>>]
  PROVE  /\ k \in [Path -> Seq(Byte)]
         /\ \A p \in Path : k[p] = <<>> /\ Ascending(k[p])
         /\ \A p \in Prefix : ~Reach(k, p)
<1>1. <<>> \in Seq(Byte) /\ Ascending(<<>>) /\ ToSet(<<>>) = {}
  BY DEF Ascending, ToSet
<1>2. ASSUME NEW p \in Prefix PROVE ~Reach(k, p)
  <2>1. p \in Seq(Byte) /\ Len(p) \in Nat /\ 1 <= Len(p) /\ KeySize \in Nat \ {0}
    BY PathsAndPrefixes, LenProperties, KeySizeAssumption
  <2>2. First(p, 0) = <<>>
    BY SubSeqEmpty DEF First
  <2>3. <<>> \in Path
    <3>1. <<>> \in Seq(Byte) /\ Len(<<>>) = 0 /\ 0 <= KeySize - 1
      BY <2>1, EmptySeq
    <3> QED
      BY <3>1, PathsAndPrefixes
  <2>4. 0 \in 0..(Len(p) - 1)
    BY <2>1
  <2> QED
    BY <1>1, <2>2, <2>3, <2>4 DEF Reach
<1> QED
  BY <1>1, <1>2

LEMMA InitInv == Init => IInv
<1> SUFFICES ASSUME Init PROVE IInv
  OBVIOUS
<1>1. /\ kids \in [Path -> Seq(Byte)] /\ \A p \in Path : kids[p] = <<>> /\ Ascending(kids[p])
      /\ val = [p \in Prefix |-> NoEntry] /\ default_val \in Value
  BY EmptyTrie DEF Init
<1> QED
  BY <1>1 DEF IInv, TypeOK, SiblingsAscending, Ascending, ValuesOnRoutes, FreedNodesEmpty

\* Every call keeps the invariant.
LEMMA NextInv == IInv /\ [Next]_vars => IInv'
<1> SUFFICES ASSUME IInv, [Next]_vars PROVE IInv'
  OBVIOUS
<1>0. ASSUME UNCHANGED trie
      PROVE  IInv'
  BY <1>0 DEF trie, IInv, TypeOK, SiblingsAscending, ValuesOnRoutes, FreedNodesEmpty
<1>1. ASSUME NEW key \in CallKey, NEW l \in PrefixLength, NEW v \in Value, CallAdd(key, l, v)
      PROVE  IInv'
  BY <1>0, <1>1, AddInv DEF CallAdd
<1>2. ASSUME NEW key \in CallKey, NEW l \in PrefixLength, CallRemove(key, l)
      PROVE  IInv'
  BY <1>0, <1>2, RemoveInv DEF CallRemove
<1>3. ASSUME NEW v \in Value, SetDefault(v)
      PROVE  IInv'
  BY <1>3 DEF SetDefault, IInv, TypeOK, SiblingsAscending, ValuesOnRoutes, FreedNodesEmpty
<1>4. CASE FreeEntries
  <2>1. /\ kids' \in [Path -> Seq(Byte)] /\ \A p \in Path : kids'[p] = <<>> /\ Ascending(kids'[p])
        /\ val' = [p \in Prefix |-> NoEntry] /\ default_val' = default_val
    BY <1>4, EmptyTrie DEF FreeEntries
  <2> QED
    BY <2>1 DEF IInv, TypeOK, SiblingsAscending, Ascending, ValuesOnRoutes, FreedNodesEmpty
<1>5. CASE UNCHANGED vars
  BY <1>0, <1>5 DEF vars
<1> QED
  BY <1>1, <1>2, <1>3, <1>4, <1>5 DEF Next

LEMMA SpecInv == Spec => []IInv
BY InitInv, NextInv, PTL DEF Spec

\* The trie is well formed: every list holds bytes, every value is an action value or none.
THEOREM TypeCorrect == Spec => []TypeOK
<1>1. IInv => TypeOK
  BY DEF IInv
<1> QED
  BY <1>1, SpecInv, PTL

\* lpm_add, which links a new node in after the last smaller sibling, and lpm_remove keep
\* every sibling list strictly ascending, whatever is added or removed in whatever order
\* -- even when the table's own list is dropped.
THEOREM AlwaysAscending == Spec => []SiblingsAscending
<1>1. IInv => SiblingsAscending
  BY DEF IInv
<1> QED
  BY <1>1, SpecInv, PTL

\* lpm_lookup always answers from the longest route in the trie that is a prefix of the
\* key, although it stops at the first greater sibling and remembers only the last value
\* it met.
THEOREM AlwaysLongestPrefix == Spec => []LookupIsLongestPrefix
BY LookupCorrect, SpecInv, PTL

-----------------------------------------------------------------------------
(* The table of routes.                                                    *)

\* The empty trie is the empty table of routes.
LEMMA InitRefines == Init => RouteTable!Init
<1> SUFFICES ASSUME Init PROVE RouteTable!Init
  OBVIOUS
<1>1. \A p \in Route : ~Reach(kids, p)
  BY EmptyTrie, RoutesArePrefixes DEF Init
<1>2. Routes = [p \in Route |-> NoEntry]
  BY <1>1 DEF Routes, Reachable, Reach
<1>3. RouteCall = [op |-> "nothing"]
  BY DEF Init, RouteCall
<1> QED
  BY <1>2, <1>3 DEF Init, RouteTable!Init, RouteTable!Nothing

\* Of the routes only the one at p changes: to v.
OneRoute(p, v) == \A q \in Route : Routes'[q] = IF q = p THEN v ELSE Routes[q]

\* Only the one at p is left, with v.
OnlyRoute(p, v) == \A q \in Route : Routes'[q] = IF q = p THEN v ELSE NoEntry

\* Adding a route puts that route in the table and leaves the others alone, unless its first
\* byte goes in front of all those in the table: then it is the only one left.
LEMMA AddRoutes ==
  ASSUME IInv, NEW key \in CallKey, NEW l \in PrefixLength, NEW v \in Value,
         LpmAdd(key, l, v)
  PROVE  /\ depthOf(l) \in 1..KeySize /\ default_val' = default_val
         /\ First(key, depthOf(l)) \in Route
         /\ ~InFront(key) => OneRoute(First(key, depthOf(l)), v)
         /\ InFront(key) => OnlyRoute(First(key, depthOf(l)), v)
<1> DEFINE depth == depthOf(l)
           here == First(key, depth)
<1>1. depth \in 1..KeySize /\ default_val' = default_val
  BY AddEffect
<1>2. PICK lost \in BOOLEAN :
        /\ val' = [ValuesKept(lost) EXCEPT ![here] = v]
        /\ \A p \in Path : \A b :
             b \in ToSet(kids'[p]) <=>
               \/ ~lost /\ b \in ToSet(kids[p])
               \/ p = First(key, Len(p)) /\ Len(p) < depth /\ b = key[Len(p) + 1]
        /\ kids[<<>>] # <<>> => (lost <=> InFront(key))
  BY AddEffect
<1>3. key \in Key
  BY LpmAssumption
<1> HIDE DEF depth
<1>4. \A p \in Prefix :
        Reach(kids', p) <=>
          \/ ~lost /\ Reach(kids, p)
          \/ p = First(key, Len(p)) /\ Len(p) <= depth
  BY <1>1, <1>2, <1>3, AddReach
<1>5. here \in Prefix /\ here \in Route /\ Len(here) = depth /\ depth <= depth
  <2>1. depth \in 0..Len(key) /\ key \in Seq(Byte) /\ depth \in Nat
    BY <1>1, <1>3, KeyIsSeq, KeySizeAssumption
  <2> QED
    BY <1>1, <1>3, <2>1, RoutesArePrefixes, FirstBytes
<1>6. \A p \in Prefix : val'[p] = IF p = here THEN v ELSE IF lost THEN NoEntry ELSE val[p]
  BY <1>2, <1>5 DEF IInv, TypeOK, ValuesKept
<1>7. ASSUME NEW p \in Route
      PROVE  Routes'[p] = IF p = here THEN v ELSE IF lost THEN NoEntry ELSE Routes[p]
  <2>1. p \in Prefix
    BY RoutesArePrefixes
  <2>2. CASE p = here
    BY <1>4, <1>5, <1>6, <2>1, <2>2, RoutesByReach
  <2>3. CASE p # here /\ lost
    BY <1>6, <2>1, <2>3, RoutesByReach
  <2>4. CASE p # here /\ ~lost /\ Reach(kids, p)
    BY <1>4, <1>6, <2>1, <2>4, RoutesByReach
  <2>5. CASE p # here /\ ~lost /\ ~Reach(kids, p)
    <3>1. val[p] = NoEntry
      BY <2>1, <2>5 DEF IInv, FreedNodesEmpty
    <3>2. val'[p] = NoEntry
      BY <1>6, <2>1, <2>5, <3>1
    <3> QED
      BY <2>5, <3>2, RoutesByReach
  <2> QED
    BY <2>2, <2>3, <2>4, <2>5
\* What is lost otherwise was nothing.
<1>8. lost /\ ~InFront(key) => \A p \in Route : Routes[p] = NoEntry
  <2> SUFFICES ASSUME lost, ~InFront(key), NEW p \in Route PROVE ~Reach(kids, p)
    BY RoutesByReach
  <2>1. kids[<<>>] = <<>>
    BY <1>2
  <2>2. p \in Seq(Byte) /\ 0 \in 0..(Len(p) - 1)
    BY RoutesArePrefixes, PathsAndPrefixes, LenProperties
  <2>3. First(p, 0) = <<>>
    BY SubSeqEmpty DEF First
  <2>4. ToSet(kids[<<>>]) = {}
    BY <2>1 DEF ToSet
  <2> QED
    BY <2>2, <2>3, <2>4 DEF Reach
<1>9. InFront(key) => lost
  BY <1>2 DEF InFront
<1>10. ~InFront(key) => OneRoute(here, v)
  BY <1>7, <1>8 DEF OneRoute
<1>11. InFront(key) => OnlyRoute(here, v)
  BY <1>7, <1>9 DEF OnlyRoute
<1> QED
  BY <1>1, <1>5, <1>10, <1>11 DEF depth

\* The table's head is the least of the first bytes.
LEMMA AddHead ==
  ASSUME IInv, NEW key \in CallKey, NEW l \in PrefixLength, NEW v \in Value, LpmAdd(key, l, v)
  PROVE  /\ kids'[<<>>] # <<>>
         /\ kids'[<<>>][1] = IF kids[<<>>] = <<>> \/ InFront(key) THEN key[1] ELSE kids[<<>>][1]
<1> DEFINE c == kids[<<>>]
           u == kids'[<<>>]
<1>1. KeySize \in Nat \ {0} /\ key \in Key /\ key[1] \in Byte /\ Byte \subseteq Int
  BY KeySizeAssumption, ByteAssumption, LpmAssumption, KeyIsSeq
<1>2. <<>> \in Path /\ Len(<<>>) = 0 /\ First(key, 0) = <<>>
  <2>1. <<>> \in Seq(Byte) /\ Len(<<>>) = 0 /\ 0 <= KeySize - 1
    BY <1>1, EmptySeq
  <2>2. First(key, 0) = <<>>
    BY SubSeqEmpty DEF First
  <2> QED
    BY <2>1, <2>2, PathsAndPrefixes
<1>3. c \in Seq(Byte) /\ Ascending(c) /\ u \in Seq(Byte) /\ Ascending(u)
  BY <1>2, AddEffect DEF IInv, TypeOK, SiblingsAscending, Ascending
<1>4. depthOf(l) \in 1..KeySize
  BY AddEffect
<1>5. PICK lost \in BOOLEAN :
        /\ \A p \in Path : \A b :
             b \in ToSet(kids'[p]) <=>
               \/ ~lost /\ b \in ToSet(kids[p])
               \/ p = First(key, Len(p)) /\ Len(p) < depthOf(l) /\ b = key[Len(p) + 1]
        /\ kids[<<>>] # <<>> => (lost <=> InFront(key))
  BY AddEffect
<1>6. \A b : b \in ToSet(u) <=> \/ ~lost /\ b \in ToSet(c)
                              \/ b = key[1]
  <2>1. <<>> = First(key, Len(<<>>)) /\ Len(<<>>) < depthOf(l) /\ Len(<<>>) + 1 = 1
    BY <1>2, <1>4
  <2>2. \A b : b \in ToSet(u) <=>
                 \/ ~lost /\ b \in ToSet(c)
                 \/ /\ <<>> = First(key, Len(<<>>)) /\ Len(<<>>) < depthOf(l)
                    /\ b = key[Len(<<>>) + 1]
    BY <1>2, <1>5
  <2> QED
    BY ONLY <2>1, <2>2
<1>7. /\ Len(c) \in Nat /\ Len(u) \in Nat
      /\ \A i \in 1..Len(c) : c[i] \in Int /\ c[i] \in ToSet(c)
      /\ \A i \in 1..Len(u) : u[i] \in Int /\ u[i] \in ToSet(u)
      /\ \A b \in ToSet(c) : \E i \in 1..Len(c) : b = c[i]
      /\ \A b \in ToSet(u) : \E i \in 1..Len(u) : b = u[i]
  <2>1. Len(c) \in Nat /\ DOMAIN c = 1..Len(c) /\ Len(u) \in Nat /\ DOMAIN u = 1..Len(u)
    BY <1>3, LenProperties
  <2>2. (\A i \in 1..Len(c) : c[i] \in Byte) /\ \A i \in 1..Len(u) : u[i] \in Byte
    BY <1>3, ElementOfSeq
  <2> QED
    BY <1>1, <2>1, <2>2 DEF ToSet
<1>8. c # <<>> <=> Len(c) >= 1
  BY <1>3, <1>7, EmptySeq
<1>9. u # <<>> <=> Len(u) >= 1
  BY <1>3, <1>7, EmptySeq
<1> HIDE DEF c, u
<1>11. Len(u) >= 1 /\ u[1] \in ToSet(u) /\ \A b \in ToSet(u) : u[1] <= b
  <2>1. Len(u) >= 1
    <3>1. key[1] \in ToSet(u)
      BY <1>6
    <3>2. PICK i \in 1..Len(u) : key[1] = u[i]
      BY <1>7, <3>1
    <3> QED
      BY <1>7, <3>2
  <2>2. ASSUME NEW b \in ToSet(u) PROVE u[1] <= b
    <3>1. PICK i \in 1..Len(u) : b = u[i]
      BY <1>7
    <3>2. u[1] \in Int /\ u[i] \in Int /\ (1 < i => u[1] < u[i])
      BY <1>3, <1>7, <2>1, <3>1 DEF Ascending
    <3>3. i = 1 \/ 1 < i
      BY <1>7, <3>1
    <3> QED
      BY <3>1, <3>2, <3>3
  <2> QED
    BY <1>7, <2>1, <2>2
<1>12. c # <<>> => c[1] \in ToSet(c) /\ c[1] \in Int /\ \A b \in ToSet(c) : c[1] <= b
  <2> SUFFICES ASSUME c # <<>>
               PROVE  c[1] \in ToSet(c) /\ c[1] \in Int /\ \A b \in ToSet(c) : c[1] <= b
    OBVIOUS
  <2>1. 1 \in 1..Len(c)
    BY <1>7, <1>8
  <2>2. ASSUME NEW b \in ToSet(c) PROVE c[1] <= b
    <3>1. PICK i \in 1..Len(c) : b = c[i]
      BY <1>7
    <3>2. c[1] \in Int /\ c[i] \in Int /\ (1 < i => c[1] < c[i])
      BY <1>3, <1>7, <2>1, <3>1 DEF Ascending
    <3>3. i = 1 \/ 1 < i
      BY <1>7, <3>1
    <3> QED
      BY <3>1, <3>2, <3>3
  <2> QED
    BY <1>7, <2>1, <2>2
<1>13. c = <<>> => ToSet(c) = {}
  BY DEF ToSet
<1>14. InFront(key) <=> c # <<>> /\ key[1] < c[1]
  BY DEF InFront, c
<1>15. u[1] = IF c = <<>> \/ InFront(key) THEN key[1] ELSE c[1]
  <2>1. CASE c = <<>> \/ InFront(key)
    <3>1. \A b \in ToSet(u) : b = key[1]
      <4>1. lost \/ ToSet(c) = {}
        BY <1>5, <1>13, <1>14, <2>1 DEF c
      <4> QED
        BY <1>6, <4>1
    <3> QED
      BY <1>11, <2>1, <3>1
  <2>2. CASE c # <<>> /\ ~InFront(key)
    <3>1. ~lost
      BY <1>5, <2>2 DEF c
    <3>2. c[1] \in ToSet(u)
      BY <1>6, <1>12, <2>2, <3>1
    <3>3. c[1] \in Int /\ key[1] \in Int /\ u[1] \in Int
      BY <1>1, <1>7, <1>11, <1>12, <2>2
    <3>4. c[1] <= key[1]
      BY <1>14, <2>2, <3>3
    <3>5. \A b \in ToSet(u) : c[1] <= b
      BY <1>6, <1>12, <2>2, <3>4
    <3>6. u[1] <= c[1] /\ u[1] >= c[1]
      BY <1>11, <3>2, <3>5
    <3> QED
      BY <2>2, <3>3, <3>6
  <2> QED
    BY <2>1, <2>2
<1> QED
  BY <1>9, <1>11, <1>15 DEF c, u

\* Removing a route takes that route out of the table and leaves the others alone.
LEMMA RemoveRoutes ==
  ASSUME IInv, NEW key \in CallKey, NEW l \in PrefixLength, LpmRemove(key, l)
  PROVE  /\ depthOf(l) \in 1..KeySize /\ default_val' = default_val
         /\ First(key, depthOf(l)) \in Route
         /\ OneRoute(First(key, depthOf(l)), NoEntry)
<1> DEFINE depth == depthOf(l)
           here == First(key, depth)
<1>1. /\ depth \in 1..KeySize /\ default_val' = default_val
      /\ val' = [val EXCEPT ![here] = NoEntry]
      /\ \A p \in Path : \A b :
           b \in ToSet(kids'[p]) <=>
             /\ b \in ToSet(kids[p])
             /\ ~(Childless(here) /\ p = First(key, depth - 1) /\ b = key[depth])
  BY RemoveEffect
<1>2. key \in Key
  BY LpmAssumption
<1> HIDE DEF depth
<1>3. \A p \in Prefix : Reach(kids', p) <=> Reach(kids, p) /\ ~(Childless(here) /\ p = here)
  BY <1>1, <1>2, RemoveReach
<1>4. here \in Prefix /\ here \in Route
  BY <1>1, <1>2, RoutesArePrefixes
<1>5. \A p \in Prefix : val'[p] = IF p = here THEN NoEntry ELSE val[p]
  BY <1>1, <1>4 DEF IInv, TypeOK
<1> HIDE DEF here
<1>6. \A p \in Route : Routes'[p] = IF p = here THEN NoEntry ELSE Routes[p]
  BY <1>3, <1>5, RoutesArePrefixes, RoutesByReach
<1> QED
  BY <1>1, <1>4, <1>6 DEF here, depth, OneRoute

\* The one route that changes is what EXCEPT says.
LEMMA OneRouteExcept ==
  ASSUME NEW p \in Route, NEW v, OneRoute(p, v)
  PROVE  Routes' = [Routes EXCEPT ![p] = v]
<1>1. DOMAIN Routes = Route /\ DOMAIN Routes' = Route /\ Routes' = [q \in Route |-> Routes'[q]]
  BY RoutesByReach
<1> QED
  BY <1>1 DEF OneRoute

\* The whole bytes of prefix_length bits are what prefix_length / 8 counts.
LEMMA NamedIsCut ==
  ASSUME NEW key \in CallKey, NEW l \in PrefixLength
  PROVE  /\ depthOf(l) \in 1..KeySize => Named(key, l) = {First(key, depthOf(l))}
         /\ depthOf(l) \notin 1..KeySize => Named(key, l) = {}
         /\ ValidDepth(depthOf(l)) <=> depthOf(l) \in 1..KeySize
<1>1. l \in Nat /\ KeySize \in Nat
  BY LpmAssumption, KeySizeAssumption
<1>2. depthOf(l) \in Nat
  BY <1>1 DEF depthOf
<1>3. \A n \in 1..KeySize : 8 * n <= l /\ l < 8 * (n + 1) <=> n = depthOf(l)
  BY <1>1 DEF depthOf
<1>4. {n \in 1..KeySize : 8 * n <= l /\ l < 8 * (n + 1)} = {n \in 1..KeySize : n = depthOf(l)}
  BY <1>3
<1>5. Named(key, l) = {First(key, d) : d \in {n \in 1..KeySize : n = depthOf(l)}}
  BY <1>4 DEF Named
<1>6. ValidDepth(depthOf(l)) <=> depthOf(l) \in 1..KeySize
  BY <1>1, <1>2 DEF ValidDepth
<1> QED
  BY <1>5, <1>6

\* What a call is to the table of routes.
LEMMA AddIsCalled ==
  ASSUME NEW key \in CallKey, NEW l \in PrefixLength, NEW v,
         call' = [op |-> "add", key |-> key, prefix_length |-> l, value |-> v]
  PROVE  RouteCall' = IF depthOf(l) \in 1..KeySize
                      THEN [op |-> "add", key |-> First(key, depthOf(l)), value |-> v]
                      ELSE [op |-> "nothing"]
<1>1. /\ call'.op = "add" /\ call'.key = key /\ call'.prefix_length = l /\ call'.value = v
  OBVIOUS
<1>2. RouteCall' = IF Named(key, l) = {} THEN [op |-> "nothing"]
                   ELSE [op |-> "add", key |-> CHOOSE p \in Named(key, l) : TRUE, value |-> v]
  BY <1>1 DEF RouteCall
<1> QED
  BY <1>2, NamedIsCut

LEMMA RemoveIsCalled ==
  ASSUME NEW key \in CallKey, NEW l \in PrefixLength,
         call' = [op |-> "remove", key |-> key, prefix_length |-> l]
  PROVE  RouteCall' = IF depthOf(l) \in 1..KeySize
                      THEN [op |-> "remove", key |-> First(key, depthOf(l))]
                      ELSE [op |-> "nothing"]
<1>1. /\ call'.op = "remove" /\ call'.key = key /\ call'.prefix_length = l
  OBVIOUS
<1>2. RouteCall' = IF Named(key, l) = {} THEN [op |-> "nothing"]
                   ELSE [op |-> "remove", key |-> CHOOSE p \in Named(key, l) : TRUE]
  BY <1>1 DEF RouteCall
<1> QED
  BY <1>2, NamedIsCut

\* An addition is the addition of the route it names, or goes in front.
LEMMA AddRefines ==
  ASSUME IInv, NEW key \in CallKey, NEW l \in PrefixLength, NEW v \in Value,
         CallAdd(key, l, v)
  PROVE  AddInFront \/ RouteTable!Next
<1> DEFINE here == First(key, depthOf(l))
<1>0. call' = [op |-> "add", key |-> key, prefix_length |-> l, value |-> v]
  BY DEF CallAdd
<1>1. CASE ~ValidDepth(depthOf(l))
  <2>1. RouteCall' = [op |-> "nothing"]
    BY <1>0, <1>1, NamedIsCut, AddIsCalled
  <2>2. UNCHANGED trie
    BY <1>1 DEF CallAdd, LpmAdd
  <2>3. Routes' = Routes /\ default_val' = default_val
    BY <2>2, RoutesByReach DEF trie
  <2> QED
    BY <2>1, <2>3 DEF RouteTable!Refuse, RouteTable!Nothing, RouteTable!Next
<1>2. CASE LpmAdd(key, l, v)
  <2>1. /\ depthOf(l) \in 1..KeySize /\ default_val' = default_val /\ here \in Route
        /\ ~InFront(key) => OneRoute(here, v)
        /\ InFront(key) => OnlyRoute(here, v)
    BY <1>2, AddRoutes
  <2>2. RouteCall' = [op |-> "add", key |-> here, value |-> v]
    BY <1>0, <2>1, AddIsCalled
  <2>3. CASE ~InFront(key)
    <3>1. Routes' = [Routes EXCEPT ![here] = v]
      BY <2>1, <2>3, OneRouteExcept
    <3>2. RouteTable!Put(here, v)
      BY <2>1, <2>2, <3>1 DEF RouteTable!Put, RouteTable!Add
    <3> QED
      BY <2>1, <3>2 DEF RouteTable!Next
  <2>4. CASE InFront(key)
    <3>1. RouteCall'.op = "add" /\ RouteCall'.key = here /\ RouteCall'.value = v
      BY <2>2
    <3>2. here[1] = key[1]
      <4>1. /\ key \in Seq(Byte) /\ Len(key) = KeySize /\ KeySize \in Nat
        BY LpmAssumption, KeySizeAssumption, KeyIsSeq
      <4>2. depthOf(l) \in 0..Len(key) /\ 0 \in 0..depthOf(l) /\ 1 \in 1..depthOf(l)
        BY <2>1, <4>1
      <4> QED
        BY <4>1, <4>2, FirstBytes
    <3>3. Head(kids[<<>>]) = kids[<<>>][1] /\ kids[<<>>] # <<>>
      <4>1. <<>> \in Path
        <5>1. <<>> \in Seq(Byte) /\ Len(<<>>) = 0 /\ 0 <= KeySize - 1
          BY EmptySeq, KeySizeAssumption
        <5> QED
          BY <5>1, PathsAndPrefixes
      <4> QED
        BY <2>4, <4>1 DEF InFront, IInv, TypeOK
    <3>4. Routes' = [p \in Route |-> IF p = here THEN v ELSE NoEntry]
      <4>1. DOMAIN Routes' = Route /\ Routes' = [q \in Route |-> Routes'[q]]
        BY RoutesByReach
      <4> QED
        BY <2>1, <2>4, <4>1 DEF OnlyRoute
    <3>5. Routes' = [p \in Route |-> IF p = RouteCall'.key THEN RouteCall'.value ELSE NoEntry]
      BY <3>1, <3>4
    <3> QED
      BY <2>1, <2>4, <3>1, <3>2, <3>3, <3>5 DEF AddInFront, InFront
  <2> QED
    BY <2>3, <2>4
<1> QED
  BY <1>1, <1>2 DEF CallAdd

\* A removal is the removal of the route it names, also when there is no such route.
LEMMA RemoveRefines ==
  ASSUME IInv, NEW key \in CallKey, NEW l \in PrefixLength, CallRemove(key, l)
  PROVE  RouteTable!Next
<1> DEFINE depth == depthOf(l)
           here == First(key, depth)
<1>0. call' = [op |-> "remove", key |-> key, prefix_length |-> l]
  BY DEF CallRemove
<1>1. CASE ~ValidDepth(depth)
  <2>1. RouteCall' = [op |-> "nothing"]
    BY <1>0, <1>1, NamedIsCut, RemoveIsCalled
  <2>2. UNCHANGED trie
    BY <1>1 DEF CallRemove, LpmRemove
  <2>3. Routes' = Routes /\ default_val' = default_val
    BY <2>2, RoutesByReach DEF trie
  <2> QED
    BY <2>1, <2>3 DEF RouteTable!Refuse, RouteTable!Nothing, RouteTable!Next
<1>2. CASE LpmRemove(key, l)
  <2>1. depth \in 1..KeySize /\ default_val' = default_val /\ here \in Route /\ OneRoute(here, NoEntry)
    BY <1>2, RemoveRoutes
  <2>2. RouteCall' = [op |-> "remove", key |-> here]
    BY <1>0, <2>1, RemoveIsCalled
  <2>3. Routes' = [Routes EXCEPT ![here] = NoEntry]
    BY <2>1, OneRouteExcept
  <2>4. RouteTable!Delete(here)
    BY <2>1, <2>2, <2>3 DEF RouteTable!Delete, RouteTable!Remove
  <2> QED
    BY <2>1, <2>4 DEF RouteTable!Next
<1>3. CASE ValidDepth(depth) /\ MatchDepth(key, depth) < depth /\ UNCHANGED trie
  <2>1. depth \in 1..KeySize /\ depth \in 0..depth /\ depth \in 0..KeySize
    BY <1>3, NamedIsCut, KeySizeAssumption
  <2>2. RouteCall' = [op |-> "remove", key |-> here]
    BY <1>0, <2>1, RemoveIsCalled
  <2>3. key \in Key /\ here \in Route
    BY <2>1, RoutesArePrefixes, LpmAssumption
  <2>4. MatchDepth(key, depth) \in 0..depth /\ (depth <= MatchDepth(key, depth) <=> Reach(kids, here))
    BY <2>1, <2>3, MatchDepthIsReach DEF IInv
  <2>5. ~Reach(kids, here)
    BY <1>3, <2>1, <2>4
  <2>6. Routes[here] = NoEntry
    BY <2>3, <2>5, RoutesByReach
  <2>7. Routes' = Routes /\ default_val' = default_val
    BY <1>3, RoutesByReach DEF trie
  <2>8. OneRoute(here, NoEntry)
    BY <2>6, <2>7 DEF OneRoute
  <2>9. Routes' = [Routes EXCEPT ![here] = NoEntry]
    BY <2>3, <2>8, OneRouteExcept
  <2>10. RouteTable!Delete(here)
    BY <2>2, <2>7, <2>9 DEF RouteTable!Delete, RouteTable!Remove
  <2> QED
    BY <2>3, <2>10 DEF RouteTable!Next
<1> QED
  BY <1>1, <1>2, <1>3 DEF CallRemove

\* Every call, unless it adds in front, is the same call on a table of routes.
LEMMA NextRefines ==
  IInv /\ [Next]_vars => [AddInFront \/ RouteTable!Next]_<<Routes, default_val, RouteCall>>
<1> SUFFICES ASSUME IInv, [Next]_vars
             PROVE  [AddInFront \/ RouteTable!Next]_<<Routes, default_val, RouteCall>>
  OBVIOUS
<1>1. ASSUME NEW key \in CallKey, NEW l \in PrefixLength, NEW v \in Value, CallAdd(key, l, v)
      PROVE  AddInFront \/ RouteTable!Next
  BY <1>1, AddRefines
<1>2. ASSUME NEW key \in CallKey, NEW l \in PrefixLength, CallRemove(key, l)
      PROVE  RouteTable!Next
  BY <1>2, RemoveRefines
<1>3. ASSUME NEW v \in Value, SetDefault(v), call' = [op |-> "setdefault", value |-> v]
      PROVE  RouteTable!Next
  <2>1. Routes' = Routes /\ default_val' = v
    BY <1>3, RoutesByReach DEF SetDefault
  <2>2. RouteCall' = [op |-> "setdefault", value |-> v]
    BY <1>3 DEF RouteCall
  <2> QED
    BY <2>1, <2>2 DEF RouteTable!SetDefault, RouteTable!SetTo, RouteTable!Next
<1>4. ASSUME FreeEntries, call' = [op |-> "free"]
      PROVE  RouteTable!Next
  <2>1. \A p \in Route : ~Reach(kids', p)
    BY <1>4, EmptyTrie, RoutesArePrefixes DEF FreeEntries
  <2>2. Routes' = [p \in Route |-> NoEntry] /\ default_val' = default_val
    BY <1>4, <2>1, RoutesByReach DEF FreeEntries
  <2>3. RouteCall' = [op |-> "free"]
    BY <1>4 DEF RouteCall
  <2> QED
    BY <2>2, <2>3 DEF RouteTable!Clear, RouteTable!Free, RouteTable!Next
<1>5. CASE UNCHANGED vars
  <2>1. Routes' = Routes /\ default_val' = default_val
    BY <1>5, RoutesByReach DEF vars, trie
  <2>2. RouteCall' = RouteCall
    BY <1>5 DEF vars, RouteCall
  <2> QED
    BY <2>1, <2>2
<1> QED
  BY <1>1, <1>2, <1>3, <1>4, <1>5 DEF Next

\* Whatever calls are made in whatever order, each has the effect of the same call on a table
\* of routes, for the route it names and with its value: it adds or removes that route and
\* keeps all others, and one that names no route changes nothing.  The exception is a
\* route added below all those in the table, which becomes the only one.
THEOREM LpmTableIsRouteTable == Spec => ImplementsRouteTable
BY InitRefines, NextRefines, SpecInv, PTL DEF Spec, ImplementsRouteTable

-----------------------------------------------------------------------------
(* The list of a ternary table.                                            *)

\* An entry of the list has a key, a mask and a value.
LEMMA EntryFields ==
  ASSUME TernaryTypeOK, NEW i \in 1..Len(entries)
  PROVE  /\ entries[i] \in TernaryEntry
         /\ entries[i].key \in Key /\ entries[i].mask \in Mask /\ entries[i].value \in TernaryValue
<1>1. entries[i] \in TernaryEntry
  BY ElementOfSeq DEF TernaryTypeOK
<1> QED
  BY <1>1 DEF TernaryEntry

\* Whatever its mask, an entry fits its own key.
LEMMA FitsItself ==
  ASSUME NEW e \in TernaryEntry
  PROVE  Fits(e, e.key)
<1> DEFINE I == {i \in 1..KeySize : e.mask = NoMask \/ e.mask[i] = 0}
<1>1. e.key \in Key
  BY DEF TernaryEntry
<1>2. I \in SUBSET Nat /\ \A i \in I : e.key[i] \in Int
  BY <1>1, KeyBytes
<1>3. CompareOver(e.key, e.key, I) = 0
  BY <1>2, CompareOverResult
<1> QED
  BY <1>3 DEF Fits, compare_ternary_keys

\* The walk finds the first entry that fits, or reaches the end of the list.
LEMMA FirstFitProperties ==
  ASSUME TernaryTypeOK, NEW key \in Key
  PROVE  /\ FirstFit(key) \in 1..(Len(entries) + 1)
         /\ \A i \in 1..Len(entries) : i < FirstFit(key) => ~Fits(entries[i], key)
         /\ FirstFit(key) <= Len(entries) => Fits(entries[FirstFit(key)], key)
<1> DEFINE S == {i \in 1..Len(entries) : Fits(entries[i], key)} \cup {Len(entries) + 1}
<1>1. Len(entries) \in Nat
  BY LenProperties DEF TernaryTypeOK
<1>2. S \in SUBSET Nat /\ S # {}
  BY <1>1
<1>3. \A i : i \in S <=> i = Len(entries) + 1 \/ (i \in 1..Len(entries) /\ Fits(entries[i], key))
  OBVIOUS
<1>4. FirstFit(key) = Min(S)
  BY DEF FirstFit
<1> HIDE DEF S
<1>5. Min(S) \in S /\ \A i \in S : Min(S) <= i
  BY <1>2, MinNat
<1> QED
  BY <1>1, <1>3, <1>4, <1>5

FindsFirst ==
  \A key \in Key : /\ FirstFit(key) \in 1..(Len(entries) + 1)
                   /\ \A i \in 1..Len(entries) : i < FirstFit(key) => ~Fits(entries[i], key)
                   /\ FirstFit(key) <= Len(entries) => Fits(entries[FirstFit(key)], key)

\* The same of every key, as a formula that can be primed.
LEMMA WalkFindsFirst == TernaryTypeOK => FindsFirst
BY FirstFitProperties DEF FindsFirst

\* What ternary_add makes of the list: keys and masks stay where they are, or an entry
\* is put in front that no older entry would have answered for.
LEMMA TernaryAddEffect ==
  ASSUME TernaryTypeOK, NEW key \in Key, NEW mask \in Mask, NEW v \in TernaryValue, TernaryAdd(key, mask, v)
  PROVE  \/ /\ FirstFit(key) \in 1..Len(entries)
            /\ entries' \in Seq(TernaryEntry) /\ Len(entries') = Len(entries)
            /\ \A i \in 1..Len(entries) : entries'[i].key = entries[i].key /\ entries'[i].mask = entries[i].mask
            /\ entries'[FirstFit(key)].value = v
         \/ /\ \A i \in 1..Len(entries) : ~Fits(entries[i], key)
            /\ entries' \in Seq(TernaryEntry) /\ Len(entries') = Len(entries) + 1
            /\ entries'[1] = [key |-> key, mask |-> mask, value |-> v]
            /\ \A i \in 1..Len(entries) : entries'[i + 1] = entries[i]
<1> DEFINE new == [key |-> key, mask |-> mask, value |-> v]
           f == FirstFit(key)
<1>1. entries \in Seq(TernaryEntry) /\ Len(entries) \in Nat
  BY LenProperties DEF TernaryTypeOK
<1>2. /\ f \in 1..(Len(entries) + 1)
      /\ \A i \in 1..Len(entries) : i < f => ~Fits(entries[i], key)
  BY FirstFitProperties
<1> HIDE DEF f
<1>3. CASE f <= Len(entries)
  <2> DEFINE upd == [entries[f] EXCEPT !.value = v]
  <2>1. f \in 1..Len(entries)
    BY <1>1, <1>2, <1>3
  <2>2. entries[f] \in TernaryEntry
    BY <2>1, EntryFields
  <2>3. upd \in TernaryEntry /\ upd.key = entries[f].key /\ upd.mask = entries[f].mask /\ upd.value = v
    BY <2>2 DEF TernaryEntry
  <2>4. entries' = [entries EXCEPT ![f] = upd]
    BY <1>3 DEF TernaryAdd, f
  <2> HIDE DEF upd
  <2>5. /\ entries' \in Seq(TernaryEntry) /\ Len(entries') = Len(entries)
        /\ \A i \in 1..Len(entries) : entries'[i] = IF i = f THEN upd ELSE entries[i]
    BY <1>1, <2>1, <2>3, <2>4, ExceptSeq
  <2>6. entries'[f].value = v
    BY <2>1, <2>3, <2>5
  <2>7. \A i \in 1..Len(entries) : entries'[i].key = entries[i].key /\ entries'[i].mask = entries[i].mask
    BY <2>3, <2>5
  <2> QED
    BY <2>1, <2>5, <2>6, <2>7 DEF f
<1>4. CASE ~(f <= Len(entries))
  <2>1. new \in TernaryEntry
    BY DEF TernaryEntry
  <2>2. entries' = <<new>> \o entries
    BY <1>4 DEF TernaryAdd, f
  <2> HIDE DEF new
  <2>3. <<new>> \in Seq(TernaryEntry) /\ Len(<<new>>) = 1 /\ <<new>>[1] = new
    BY <2>1
  <2>4. /\ entries' \in Seq(TernaryEntry) /\ Len(entries') = 1 + Len(entries)
        /\ \A i \in 1..(1 + Len(entries)) : entries'[i] = IF i <= 1 THEN <<new>>[i] ELSE entries[i - 1]
    BY <1>1, <2>2, <2>3, ConcatProperties
  <2>5. entries'[1] = new
    BY <1>1, <2>3, <2>4
  <2>6. \A i \in 1..Len(entries) : entries'[i + 1] = entries[i]
    BY <1>1, <2>4
  <2>7. \A i \in 1..Len(entries) : ~Fits(entries[i], key)
    BY <1>1, <1>2, <1>4
  <2> QED
    BY <1>1, <2>4, <2>5, <2>6, <2>7 DEF new
<1> QED
  BY <1>3, <1>4

\* What ternary_remove leaves: the entries before the first fit, then those after it.
LEMMA TernaryRemoveEffect ==
  ASSUME TernaryTypeOK, NEW key \in Key, TernaryRemove(key)
  PROVE  /\ entries' \in Seq(TernaryEntry) /\ Len(entries') = Len(entries) - 1
         /\ \A i \in 1..Len(entries') :
              entries'[i] = IF i < FirstFit(key) THEN entries[i] ELSE entries[i + 1]
<1> DEFINE f == FirstFit(key)
           front == SubSeq(entries, 1, f - 1)
           back == SubSeq(entries, f + 1, Len(entries))
<1>1. entries \in Seq(TernaryEntry) /\ Len(entries) \in Nat
  BY LenProperties DEF TernaryTypeOK
<1>2. f \in 1..Len(entries)
  BY <1>1, FirstFitProperties DEF TernaryRemove
<1>3. \A i \in 1..Len(entries) : entries[i] \in TernaryEntry
  BY EntryFields
<1>4. entries' = front \o back
  BY DEF TernaryRemove, RemoveAt
<1> HIDE DEF f
<1>5. /\ front \in Seq(TernaryEntry) /\ Len(front) = f - 1
      /\ \A i \in 1..(f - 1) : front[i] = entries[i]
  BY <1>1, <1>2, <1>3, SubSeqProperties
<1>6. /\ back \in Seq(TernaryEntry) /\ Len(back) = Len(entries) - f
      /\ \A i \in 1..(Len(entries) - f) : back[i] = entries[f + i]
  BY <1>1, <1>2, <1>3, SubSeqProperties
<1> HIDE DEF front, back
<1>7. /\ entries' \in Seq(TernaryEntry) /\ Len(entries') = (f - 1) + (Len(entries) - f)
      /\ \A i \in 1..((f - 1) + (Len(entries) - f)) :
           entries'[i] = IF i <= f - 1 THEN front[i] ELSE back[i - (f - 1)]
  <2>1. /\ front \o back \in Seq(TernaryEntry) /\ Len(front \o back) = Len(front) + Len(back)
        /\ \A i \in 1..(Len(front) + Len(back)) :
             (front \o back)[i] = IF i <= Len(front) THEN front[i] ELSE back[i - Len(front)]
    BY <1>5, <1>6, ConcatProperties
  <2>2. Len(front) = f - 1 /\ Len(back) = Len(entries) - f
    BY <1>5, <1>6
  <2> QED
    BY <1>4, <2>1, <2>2
<1>8. Len(entries') = Len(entries) - 1
  BY <1>1, <1>2, <1>7
<1>9. ASSUME NEW i \in 1..Len(entries')
      PROVE  entries'[i] = IF i < f THEN entries[i] ELSE entries[i + 1]
  <2>1. CASE i < f
    BY <1>1, <1>2, <1>5, <1>7, <1>8, <2>1
  <2>2. CASE ~(i < f)
    <3>1. i - (f - 1) \in 1..(Len(entries) - f) /\ f + (i - (f - 1)) = i + 1
      BY <1>1, <1>2, <1>8, <2>2
    <3>2. entries'[i] = back[i - (f - 1)]
      BY <1>1, <1>2, <1>7, <1>8, <2>2
    <3> QED
      BY <1>6, <2>2, <3>1, <3>2
  <2> QED
    BY <2>1, <2>2
<1> QED
  BY <1>7, <1>8, <1>9 DEF f

\* Whether an entry fits depends on its key and its mask.
LEMMA FitsSame ==
  ASSUME NEW e, NEW f, NEW key, e.key = f.key, e.mask = f.mask
  PROVE  Fits(e, key) <=> Fits(f, key)
BY DEF Fits

TernaryIInv == TernaryTypeOK /\ NoKeyUnderOlderEntry

LEMMA TernaryInitIInv == TernaryInit => TernaryIInv
<1> SUFFICES ASSUME TernaryInit PROVE TernaryIInv
  OBVIOUS
<1>1. entries = <<>> /\ Len(entries) = 0 /\ entries \in Seq(TernaryEntry)
  BY EmptySeq DEF TernaryInit
<1> QED
  BY <1>1 DEF TernaryInit, TernaryIInv, TernaryTypeOK, NoKeyUnderOlderEntry

\* No call puts a key under an older entry that fits it.
LEMMA TernaryNextIInv == TernaryIInv /\ [TernaryNext]_ternaryVars => TernaryIInv'
<1> SUFFICES ASSUME TernaryIInv, [TernaryNext]_ternaryVars PROVE TernaryIInv'
  OBVIOUS
<1> USE DEF TernaryIInv
<1>0. Len(entries) \in Nat
  BY LenProperties DEF TernaryTypeOK
<1>1. ASSUME NEW key \in Key, NEW mask \in Mask, NEW v \in TernaryValue, TernaryAdd(key, mask, v)
      PROVE  TernaryIInv'
  <2>1. TernaryTypeOK'
    BY <1>1, TernaryAddEffect DEF TernaryTypeOK, TernaryAdd
  <2>2. ASSUME /\ Len(entries') = Len(entries)
               /\ \A i \in 1..Len(entries) :
                    entries'[i].key = entries[i].key /\ entries'[i].mask = entries[i].mask,
               NEW i \in 1..Len(entries'), NEW j \in 1..Len(entries'), i < j
        PROVE  ~Fits(entries'[j], entries'[i].key)
    <3>1. ~Fits(entries[j], entries[i].key)
      BY <2>2 DEF NoKeyUnderOlderEntry
    <3>2. Fits(entries'[j], entries[i].key) <=> Fits(entries[j], entries[i].key)
      BY <2>2, FitsSame
    <3> QED
      BY <2>2, <3>1, <3>2
  <2>3. ASSUME /\ \A i \in 1..Len(entries) : ~Fits(entries[i], key)
               /\ Len(entries') = Len(entries) + 1
               /\ entries'[1].key = key
               /\ \A i \in 1..Len(entries) : entries'[i + 1] = entries[i],
               NEW i \in 1..Len(entries'), NEW j \in 1..Len(entries'), i < j
        PROVE  ~Fits(entries'[j], entries'[i].key)
    <3>1. j - 1 \in 1..Len(entries) /\ (j - 1) + 1 = j
      BY <1>0, <2>3
    <3>2. entries'[j] = entries[j - 1]
      BY <2>3, <3>1
    <3>3. CASE i = 1
      BY <2>3, <3>1, <3>2, <3>3
    <3>4. CASE i # 1
      <4>1. i - 1 \in 1..Len(entries) /\ (i - 1) + 1 = i /\ i - 1 < j - 1
        BY <1>0, <2>3, <3>4
      <4>2. entries'[i] = entries[i - 1]
        BY <2>3, <4>1
      <4> QED
        BY <3>1, <3>2, <4>1, <4>2 DEF NoKeyUnderOlderEntry
    <3> QED
      BY <3>3, <3>4
  <2>4. \A i, j \in 1..Len(entries') : i < j => ~Fits(entries'[j], entries'[i].key)
    <3>1. CASE /\ Len(entries') = Len(entries)
               /\ \A i \in 1..Len(entries) :
                    entries'[i].key = entries[i].key /\ entries'[i].mask = entries[i].mask
      BY <2>2, <3>1
    <3>2. CASE /\ \A i \in 1..Len(entries) : ~Fits(entries[i], key)
               /\ Len(entries') = Len(entries) + 1
               /\ entries'[1] = [key |-> key, mask |-> mask, value |-> v]
               /\ \A i \in 1..Len(entries) : entries'[i + 1] = entries[i]
      <4>1. entries'[1].key = key
        BY <3>2
      <4> QED
        BY <2>3, <3>2, <4>1
    <3> QED
      BY <1>1, <3>1, <3>2, TernaryAddEffect
  <2> QED
    BY <2>1, <2>4 DEF NoKeyUnderOlderEntry, Fits
<1>2. ASSUME NEW key \in Key, TernaryRemove(key)
      PROVE  TernaryIInv'
  <2> DEFINE at(i) == IF i < FirstFit(key) THEN i ELSE i + 1
  <2>1. TernaryTypeOK'
    BY <1>2, TernaryRemoveEffect DEF TernaryTypeOK, TernaryRemove
  <2>2. FirstFit(key) \in Nat
    BY <1>0, FirstFitProperties
  <2>3. \A i \in 1..Len(entries') : at(i) \in 1..Len(entries) /\ entries'[i] = entries[at(i)]
    BY <1>0, <1>2, <2>2, TernaryRemoveEffect
  <2>4. \A i, j \in 1..Len(entries') : i < j => at(i) < at(j)
    BY <2>2
  <2> HIDE DEF at
  <2>5. NoKeyUnderOlderEntry'
    BY <2>3, <2>4 DEF NoKeyUnderOlderEntry
  <2> QED
    BY <2>1, <2>5
<1>3. ASSUME NEW v \in TernaryValue, TernarySetDefault(v)
      PROVE  TernaryIInv'
  BY <1>3 DEF TernarySetDefault, TernaryTypeOK, NoKeyUnderOlderEntry, Fits
<1>4. CASE TernaryFreeEntries
  <2>1. entries' = <<>> /\ Len(entries') = 0 /\ entries' \in Seq(TernaryEntry)
    BY <1>4, EmptySeq DEF TernaryFreeEntries
  <2> QED
    BY <1>4, <2>1 DEF TernaryFreeEntries, TernaryTypeOK, NoKeyUnderOlderEntry
<1>5. CASE UNCHANGED ternaryVars
  BY <1>5 DEF ternaryVars, TernaryTypeOK, NoKeyUnderOlderEntry, Fits
<1> QED
  BY <1>1, <1>2, <1>3, <1>4, <1>5 DEF TernaryNext

\* The list always holds well-formed entries.
THEOREM TernaryTypeCorrect == TernarySpec => []TernaryTypeOK
BY TernaryInitIInv, TernaryNextIInv, PTL DEF TernarySpec, TernaryIInv

\* No call sequence leaves an entry whose key an older entry fits: such an add overwrites
\* the older one.
THEOREM NoKeyUnderOlder == TernarySpec => []NoKeyUnderOlderEntry
BY TernaryInitIInv, TernaryNextIInv, PTL DEF TernarySpec, TernaryIInv

\* Whichever branch ternary_add takes, a lookup of the key just added answers the value
\* just added.
THEOREM AddedAnswers == TernarySpec => AddedKeyAnswers
<1> DEFINE Answers == \A key \in Key, mask \in Mask, v \in TernaryValue :
                        TernaryAdd(key, mask, v) => ternary_lookup(key)' = v
<1>0. TernaryTypeOK' => FindsFirst'
  BY WalkFindsFirst, PTL
<1>1. ASSUME TernaryTypeOK, TernaryTypeOK', NEW key \in Key, NEW mask \in Mask, NEW v \in TernaryValue,
             TernaryAdd(key, mask, v)
      PROVE  ternary_lookup(key)' = v
  <2> DEFINE f == FirstFit(key)'
  <2>0. Len(entries) \in Nat /\ Len(entries') \in Nat
    BY <1>1, LenProperties DEF TernaryTypeOK
  <2>1. /\ f \in 1..(Len(entries') + 1)
        /\ \A i \in 1..Len(entries') : i < f => ~Fits(entries'[i], key)
        /\ f <= Len(entries') => Fits(entries'[f], key)
    BY <1>0, <1>1 DEF FindsFirst
  <2>2. ternary_lookup(key)' = IF f <= Len(entries') THEN entries'[f].value ELSE ternary_default'
    BY DEF ternary_lookup
  <2>3. ASSUME FirstFit(key) \in 1..Len(entries), Len(entries') = Len(entries),
               \A i \in 1..Len(entries) :
                 entries'[i].key = entries[i].key /\ entries'[i].mask = entries[i].mask
        PROVE  f = FirstFit(key) /\ f <= Len(entries')
    <3>1. \A i \in 1..Len(entries) : Fits(entries'[i], key) <=> Fits(entries[i], key)
      BY <2>3, FitsSame
    <3>2. /\ \A i \in 1..Len(entries) : i < FirstFit(key) => ~Fits(entries[i], key)
          /\ Fits(entries[FirstFit(key)], key)
      BY <1>1, <2>0, <2>3, FirstFitProperties
    <3> HIDE DEF f
    <3> QED
      BY <2>0, <2>1, <2>3, <3>1, <3>2
  <2>4. ASSUME Len(entries') = Len(entries) + 1, Fits(entries'[1], key)
        PROVE  f = 1 /\ f <= Len(entries')
    <3> HIDE DEF f
    <3> QED
      BY <2>0, <2>1, <2>4
  <2>5. Fits([key |-> key, mask |-> mask, value |-> v], key)
    <3> DEFINE new == [key |-> key, mask |-> mask, value |-> v]
    <3>1. new \in TernaryEntry /\ new.key = key
      BY DEF TernaryEntry
    <3> HIDE DEF new
    <3>2. Fits(new, new.key)
      BY <3>1, FitsItself
    <3> QED
      BY <3>1, <3>2 DEF new
  <2> HIDE DEF f
  <2>6. CASE /\ FirstFit(key) \in 1..Len(entries) /\ Len(entries') = Len(entries)
             /\ \A i \in 1..Len(entries) :
                  entries'[i].key = entries[i].key /\ entries'[i].mask = entries[i].mask
             /\ entries'[FirstFit(key)].value = v
    BY <2>2, <2>3, <2>6
  <2>7. CASE /\ Len(entries') = Len(entries) + 1
             /\ entries'[1] = [key |-> key, mask |-> mask, value |-> v]
    BY <2>2, <2>4, <2>5, <2>7
  <2> QED
    BY <1>1, <2>6, <2>7, TernaryAddEffect
<1>2. TernaryTypeOK /\ TernaryTypeOK' /\ [TernaryNext]_ternaryVars => [Answers]_ternaryVars
  BY <1>1
<1> QED
  BY <1>2, TernaryTypeCorrect, PTL DEF TernarySpec, AddedKeyAnswers

=============================================================================
