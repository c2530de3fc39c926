--------------------------- MODULE ByteKeys_proof ---------------------------
(***************************************************************************)
(* compare_keys is a strict total order on keys, what a comparison under a *)
(* mask says, and what linking an entry into a list or unlinking one does. *)
(* The walks of all the tables rest on these facts.                        *)
(***************************************************************************)
EXTENDS ByteKeys, SequencesExt, SequenceTheorems, WellFoundedInduction, TLAPS

\* A nonempty set of naturals has a least element, and Min names it.
LEMMA MinNat ==
  ASSUME NEW S \in SUBSET Nat, S # {}
  PROVE  Min(S) \in S /\ \A y \in S : Min(S) <= y
<1> DEFINE R == OpToRel(<, Nat)
<1>1. \A x, y \in Nat : <<x, y>> \in R <=> x < y
  <2>1. \A x, y \in Nat : <<x, y>> \in Nat \X Nat
    OBVIOUS
  <2> QED
    BY <2>1 DEF OpToRel
<1>2. IsWellFoundedOn(R, Nat)
  BY NatLessThanWellFounded
<1> HIDE DEF R
<1>3. \E x \in S : \A y \in S : ~ (<<y, x>> \in R)
  BY <1>2, WFMin
<1>4. \A x, y \in S : ~ (<<y, x>> \in R) => x <= y
  BY <1>1
<1>5. PICK x \in S : \A y \in S : x <= y
  BY <1>3, <1>4
<1> QED
  BY <1>5 DEF Min

\* A nonempty bounded set of naturals has a greatest element, and Max names it.
LEMMA MaxNat ==
  ASSUME NEW n \in Nat, NEW S \in SUBSET (0..n), S # {}
  PROVE  Max(S) \in S /\ \A y \in S : y <= Max(S)
<1> DEFINE R == {n - x : x \in S}
<1>1. R \in SUBSET Nat /\ R # {}
  <2>1. \A x \in S : n - x \in Nat
    OBVIOUS
  <2> QED
    BY <2>1
<1>2. PICK r \in R : \A y \in R : r <= y
  <2> HIDE DEF R
  <2> QED
    BY <1>1, MinNat
<1>3. PICK x \in S : r = n - x
  BY <1>2
<1>4. \A y \in S : n - y \in R
  OBVIOUS
<1>5. \A y \in S : y <= x
  BY <1>2, <1>3, <1>4
<1> QED
  BY <1>5 DEF Max

\* Two functions that agree on their domain are equal.
LEMMA FunctionsEqual ==
  ASSUME NEW S, NEW T, NEW f \in [S -> T], NEW g \in [S -> T],
         \A x \in S : f[x] = g[x]
  PROVE  f = g
OBVIOUS

\* Bytes are numbers.
LEMMA BytesAreInts == \A x \in Byte : x \in Int
BY ByteAssumption

\* Keys are arrays of numbers.
LEMMA KeyBytes ==
  ASSUME NEW a \in Key, NEW i \in 1..KeySize
  PROVE  i \in Nat /\ a[i] \in Int
<1>1. i \in Nat
  BY KeySizeAssumption
<1>2. a[i] \in Byte
  BY DEF Key
<1>3. \A x \in Byte : x \in Int
  BY ByteAssumption
<1> QED
  BY <1>1, <1>2, <1>3

\* What the walk over the indices I returns: 0 exactly when the byte strings agree on
\* I, and otherwise the order of the bytes at the first index where they do not.
LEMMA CompareOverResult ==
  ASSUME NEW a, NEW b, NEW I \in SUBSET Nat, \A i \in I : a[i] \in Int /\ b[i] \in Int
  PROVE  /\ CompareOver(a, b, I) \in {-1, 0, 1}
         /\ CompareOver(a, b, I) = 0 <=> \A i \in I : a[i] = b[i]
         /\ CompareOver(a, b, I) = -1 <=>
              \E i \in I : a[i] < b[i] /\ \A j \in I : j < i => a[j] = b[j]
         /\ CompareOver(a, b, I) = 1 <=>
              \E i \in I : b[i] < a[i] /\ \A j \in I : j < i => a[j] = b[j]
<1> DEFINE diff == {i \in I : a[i] # b[i]}
           m == Min(diff)
<1>1. /\ \A i \in I : i \in Nat /\ a[i] \in Int /\ b[i] \in Int
      /\ diff \in SUBSET Nat
  OBVIOUS
<1>2. CASE diff = {}
  BY <1>1, <1>2 DEF CompareOver
<1>3. CASE diff # {}
  <2>1. m \in diff /\ \A j \in diff : m <= j
    BY <1>1, <1>3, MinNat
  <2>2. m \in I /\ \A j \in I : j < m => a[j] = b[j]
    BY <1>1, <2>1
  <2>3. CompareOver(a, b, I) = IF a[m] < b[m] THEN -1 ELSE 1
    BY <1>3 DEF CompareOver
  <2>4. a[m] < b[m] \/ b[m] < a[m]
    BY <1>1, <2>1
  <2>5. \A i \in I : (a[i] # b[i] /\ \A j \in I : j < i => a[j] = b[j]) => i = m
    BY <1>1, <2>1, <2>2
  <2> HIDE DEF m, diff
  <2>6. m \in I /\ a[m] # b[m]
    BY <2>1 DEF diff
  <2> QED
    BY <1>1, <2>2, <2>3, <2>4, <2>5, <2>6
<1> QED
  BY <1>2, <1>3

\* compare_keys over whole keys: equality, antisymmetry, transitivity, totality.
LEMMA CompareKeysOrder ==
  /\ \A a, b \in Key : compare_keys(a, b, KeySize) \in {-1, 0, 1}
  /\ \A a, b \in Key : compare_keys(a, b, KeySize) = 0 <=> a = b
  /\ \A a, b \in Key : compare_keys(a, b, KeySize) = 1 <=> compare_keys(b, a, KeySize) = -1
  /\ \A a, b, c \in Key :
        compare_keys(a, b, KeySize) = 1 /\ compare_keys(b, c, KeySize) = 1
          => compare_keys(a, c, KeySize) = 1
<1> DEFINE I == 1..KeySize
           Less(a, b) == \E i \in I : a[i] < b[i] /\ \A j \in I : j < i => a[j] = b[j]
<1>1. ASSUME NEW a \in Key, NEW b \in Key
      PROVE  /\ compare_keys(a, b, KeySize) \in {-1, 0, 1}
             /\ compare_keys(a, b, KeySize) = 0 <=> a = b
             /\ compare_keys(a, b, KeySize) = -1 <=> Less(a, b)
             /\ compare_keys(a, b, KeySize) = 1 <=> Less(b, a)
  <2>1. a = b <=> \A i \in I : a[i] = b[i]
    <3> HIDE DEF I
    <3>1. a \in [I -> Byte] /\ b \in [I -> Byte]
      BY DEF Key, I
    <3> QED
      BY <3>1, FunctionsEqual
  <2>2. Less(b, a) <=> \E i \in I : b[i] < a[i] /\ \A j \in I : j < i => a[j] = b[j]
    OBVIOUS
  <2>3. I \in SUBSET Nat /\ \A i \in I : a[i] \in Int /\ b[i] \in Int
    BY KeyBytes
  <2>4. compare_keys(a, b, KeySize) = CompareOver(a, b, I)
    BY DEF compare_keys
  <2> HIDE DEF I
  <2> QED
    BY <2>1, <2>2, <2>3, <2>4, CompareOverResult
<1>2. ASSUME NEW a \in Key, NEW b \in Key, NEW c \in Key, Less(b, a), Less(c, b)
      PROVE  Less(c, a)
  <2>1. \A i \in I : i \in Nat /\ a[i] \in Int /\ b[i] \in Int /\ c[i] \in Int
    BY KeyBytes
  <2>2. PICK i \in I : b[i] < a[i] /\ \A j \in I : j < i => b[j] = a[j]
    BY <1>2
  <2>3. PICK k \in I : c[k] < b[k] /\ \A j \in I : j < k => c[j] = b[j]
    BY <1>2
  <2>4. CASE i <= k
    <3>1. c[i] < a[i] /\ \A j \in I : j < i => c[j] = a[j]
      BY <2>1, <2>2, <2>3, <2>4
    <3> QED BY <3>1
  <2>5. CASE k < i
    <3>1. c[k] < a[k] /\ \A j \in I : j < k => c[j] = a[j]
      BY <2>1, <2>2, <2>3, <2>5
    <3> QED BY <3>1
  <2> QED
    BY <2>1, <2>4, <2>5
<1> HIDE DEF Less
<1> QED
  BY <1>1, <1>2

\* Linking an element in at s shifts what stood from s on by one place.
LEMMA InsertAtProperties ==
  ASSUME NEW T, NEW t \in Seq(T), NEW s \in 1..(Len(t) + 1), NEW e \in T
  PROVE  /\ InsertAt(t, s, e) \in Seq(T)
         /\ Len(InsertAt(t, s, e)) = Len(t) + 1
         /\ \A i \in 1..(Len(t) + 1) :
              InsertAt(t, s, e)[i] = IF i < s THEN t[i] ELSE IF i = s THEN e ELSE t[i - 1]
<1> DEFINE n == Len(t)
           A == SubSeq(t, 1, s - 1)
           B == SubSeq(t, s, n)
<1>1. n \in Nat /\ \A i \in 1..n : t[i] \in T
  BY LenProperties, ElementOfSeq
<1>2. A \in Seq(T) /\ Len(A) = s - 1 /\ \A i \in 1..(s - 1) : A[i] = t[i]
  BY <1>1, SubSeqProperties
<1>3. B \in Seq(T) /\ Len(B) = n - s + 1 /\ \A i \in 1..(n - s + 1) : B[i] = t[s + i - 1]
  BY <1>1, SubSeqProperties
<1>4. <<e>> \in Seq(T) /\ Len(<<e>>) = 1 /\ <<e>>[1] = e
  OBVIOUS
<1> HIDE DEF A, B
<1>5. /\ A \o <<e>> \in Seq(T) /\ Len(A \o <<e>>) = s
      /\ \A i \in 1..s : (A \o <<e>>)[i] = IF i < s THEN t[i] ELSE e
  BY <1>1, <1>2, <1>4, ConcatProperties
<1>6. /\ (A \o <<e>>) \o B \in Seq(T) /\ Len((A \o <<e>>) \o B) = n + 1
      /\ \A i \in 1..(n + 1) : ((A \o <<e>>) \o B)[i] =
              IF i <= s THEN (A \o <<e>>)[i] ELSE B[i - s]
  <2> DEFINE C == A \o <<e>>
  <2> HIDE DEF C
  <2>1. C \in Seq(T) /\ Len(C) = s
    BY <1>5 DEF C
  <2>2. /\ C \o B \in Seq(T) /\ Len(C \o B) = Len(C) + Len(B)
        /\ \A i \in 1..(Len(C) + Len(B)) :
              (C \o B)[i] = IF i <= Len(C) THEN C[i] ELSE B[i - Len(C)]
    BY <1>3, <2>1, ConcatProperties
  <2>3. Len(C) + Len(B) = n + 1
    BY <1>1, <1>3, <2>1
  <2>4. /\ C \o B \in Seq(T) /\ Len(C \o B) = n + 1
        /\ \A i \in 1..(n + 1) : (C \o B)[i] = IF i <= s THEN C[i] ELSE B[i - s]
    BY <2>1, <2>2, <2>3
  <2> QED
    BY <2>4 DEF C
<1>7. InsertAt(t, s, e) = (A \o <<e>>) \o B
  BY DEF InsertAt, A, B
<1>8. \A i \in 1..(n + 1) : i > s => B[i - s] = t[i - 1]
  BY <1>1, <1>3
<1>9. ASSUME NEW i \in 1..(n + 1)
      PROVE  InsertAt(t, s, e)[i] = IF i < s THEN t[i] ELSE IF i = s THEN e ELSE t[i - 1]
  <2>1. CASE i <= s
    <3>1. i \in 1..s
      BY <1>1, <2>1
    <3> QED
      BY <1>5, <1>6, <1>7, <2>1, <3>1
  <2>2. CASE i > s
    BY <1>1, <1>6, <1>7, <1>8, <2>2
  <2> QED
    BY <1>1, <2>1, <2>2
<1> QED
  BY <1>6, <1>7, <1>9

\* Unlinking the element at s moves what stood after it up by one place.
LEMMA RemoveAtProperties ==
  ASSUME NEW T, NEW t \in Seq(T), NEW s \in 1..Len(t)
  PROVE  /\ RemoveAt(t, s) \in Seq(T)
         /\ Len(RemoveAt(t, s)) = Len(t) - 1
         /\ \A i \in 1..(Len(t) - 1) : RemoveAt(t, s)[i] = IF i < s THEN t[i] ELSE t[i + 1]
<1> DEFINE n == Len(t)
           A == SubSeq(t, 1, s - 1)
           B == SubSeq(t, s + 1, n)
<1>1. n \in Nat /\ \A i \in 1..n : t[i] \in T
  BY LenProperties, ElementOfSeq
<1>2. A \in Seq(T) /\ Len(A) = s - 1 /\ \A i \in 1..(s - 1) : A[i] = t[i]
  BY <1>1, SubSeqProperties
<1>3. B \in Seq(T) /\ Len(B) = n - s /\ \A i \in 1..(n - s) : B[i] = t[s + i]
  BY <1>1, SubSeqProperties
<1> HIDE DEF A, B
<1>4. /\ A \o B \in Seq(T) /\ Len(A \o B) = n - 1
      /\ \A i \in 1..(n - 1) : (A \o B)[i] = IF i < s THEN A[i] ELSE B[i - (s - 1)]
  <2>1. /\ A \o B \in Seq(T) /\ Len(A \o B) = Len(A) + Len(B)
        /\ \A i \in 1..(Len(A) + Len(B)) :
              (A \o B)[i] = IF i <= Len(A) THEN A[i] ELSE B[i - Len(A)]
    BY <1>2, <1>3, ConcatProperties
  <2>2. Len(A) + Len(B) = n - 1
    BY <1>1, <1>2, <1>3
  <2>3. \A i \in 1..(n - 1) : i <= Len(A) <=> i < s
    BY <1>1, <1>2
  <2> QED
    BY <1>2, <2>1, <2>2, <2>3
<1>5. RemoveAt(t, s) = A \o B
  BY DEF RemoveAt, A, B
<1>6. \A i \in 1..(n - 1) : i >= s => B[i - (s - 1)] = t[i + 1]
  BY <1>1, <1>3
<1> QED
  BY <1>1, <1>2, <1>4, <1>5, <1>6

=============================================================================
