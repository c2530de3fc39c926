---------------------------- MODULE Packet_proof -----------------------------
(***************************************************************************)
(* What the programs do to the bytes of a packet: the checksum of a        *)
(* header, in the first part, and the fields of a descriptor, in the       *)
(* second.                                                                 *)
(*                                                                         *)
(* The checksum, for every base of bytes and every buffer a uint16_t can   *)
(* name the length of: calculate_csum16's loops stay inside the buffer,    *)
(* its 32-bit sum does not wrap, and the two folds at its end give the     *)
(* ones' complement value of that sum in 16 bits.  LoopInvariant says      *)
(* nothing outside the loops and so is not inductive; IInv adds where the  *)
(* counters start and what the sum may be once the odd byte is in it;      *)
(* SumInv adds which words are in the sum.  The sum of a buffer's words is *)
(* a recursion over them: what holds of it is shown by induction on the    *)
(* number of words.                                                        *)
(*                                                                         *)
(* The fields, for headers of any content and any 32-bit values: what a    *)
(* field was given it gives back, and the fields it shares bytes with      *)
(* never notice.  The argument is about single bits.  Every field has, for *)
(* each bit of its value, one position in its header; the macros read and  *)
(* write these positions and no others; and no two fields have a position  *)
(* in common.                                                              *)
(***************************************************************************)
EXTENDS Csum16Loop, PacketDescriptor, SequenceTheorems, WellFoundedInduction, TLAPS

-----------------------------------------------------------------------------
(* The checksum.                                                           *)

\* A natural number is its quotient and its remainder.
LEMMA DivMod ==
  ASSUME NEW d \in Nat, d > 0, NEW s \in Nat
  PROVE  /\ s \div d \in Nat /\ s % d \in 0..(d - 1)
         /\ s = d * (s \div d) + (s % d)
OBVIOUS
\* And only these two are.
LEMMA DivModUnique ==
  ASSUME NEW d \in Nat, d > 0, NEW q \in Nat, NEW r \in 0..(d - 1)
  PROVE  (d * q + r) % d = r /\ (d * q + r) \div d = q
OBVIOUS
\* The number of words, at least 4.
LEMMA WSize == W \in Nat /\ W > 1
BY ByteBaseAssumption DEF W

\* Adding the high half of a number to its low half leaves its residue modulo W-1.
LEMMA FoldKeepsResidue ==
  ASSUME NEW s \in 0..(W * W - 1)
  PROVE  /\ Fold(s) \in 0..(2 * W - 2)
         /\ \E h \in Nat : s = (W - 1) * h + Fold(s)
         /\ s > 0 => Fold(s) > 0
         /\ s < 2 * W - 1 => Fold(s) < W
<1> DEFINE h == s \div W
           l == s % W
<1>1. W \in Nat /\ W > 1 /\ s \in Nat /\ s < W * W
  BY WSize
<1>2. h \in Nat /\ l \in 0..(W - 1) /\ s = W * h + l
  BY <1>1, DivMod
<1>3. Fold(s) = h + l
  BY DEF Fold
<1> HIDE DEF h, l
<1>4. h < W
  <2>1. CASE h >= W
    <3>1. W * h >= W * W
      BY <1>1, <1>2, <2>1
    <3> QED
      BY <1>1, <1>2, <3>1
  <2> QED
    BY <1>1, <1>2, <2>1
<1>5. s = (W - 1) * h + (h + l)
  <2>1. (W - 1) * h = W * h - h
    BY <1>1, <1>2
  <2> QED
    BY <1>1, <1>2, <2>1
<1>6. s > 0 => h + l > 0
  BY <1>1, <1>2
<1>7. s < 2 * W - 1 => h + l < W
  <2>1. CASE h = 0
    BY <1>1, <1>2, <2>1
  <2>2. CASE h = 1
    BY <1>1, <1>2, <2>2
  <2>3. CASE h >= 2
    <3>1. W * h >= W * 2
      BY <1>1, <1>2, <2>3
    <3> QED
      BY <1>1, <1>2, <3>1
  <2> QED
    BY <1>2, <2>1, <2>2, <2>3
<1>8. Fold(s) \in 0..(2 * W - 2)
  BY <1>1, <1>2, <1>3, <1>4
<1>9. s = (W - 1) * h + Fold(s)
  BY <1>3, <1>5
<1> QED
  BY <1>2, <1>3, <1>6, <1>7, <1>8, <1>9

\* Two folds of a 32-bit sum give its ones' complement value in 16 bits.
LEMMA TwoFolds ==
  ASSUME NEW s \in 0..(W * W - 1)
  PROVE  Fold(Fold(s)) \in 0..(W - 1) /\ Fold(Fold(s)) = OnesComplement(s)
<1> DEFINE a == Fold(s)
           b == Fold(a)
<1>1. W \in Nat /\ W > 1 /\ s \in Nat
  BY WSize
<1>2. /\ a \in 0..(2 * W - 2)
      /\ s > 0 => a > 0
      /\ \E h \in Nat : s = (W - 1) * h + a
  BY FoldKeepsResidue
<1>3. a \in 0..(W * W - 1)
  <2>1. W * W >= 2 * W
    BY <1>1
  <2> HIDE DEF a
  <2> QED
    BY <1>1, <1>2, <2>1
<1> HIDE DEF a
<1>4. /\ b \in Nat
      /\ b < W
      /\ a > 0 => b > 0
      /\ \E h \in Nat : a = (W - 1) * h + b
  <2>1. /\ b \in 0..(2 * W - 2)
        /\ \E h \in Nat : a = (W - 1) * h + b
        /\ a > 0 => b > 0
        /\ a < 2 * W - 1 => b < W
    BY <1>3, FoldKeepsResidue
  <2> HIDE DEF b
  <2>2. b \in Nat /\ b < W
    BY <1>1, <1>2, <2>1
  <2> QED
    BY <2>1, <2>2
<1> HIDE DEF b
<1>5. CASE s = 0
  <2>1. a = 0
    BY <1>5, <1>1, DivMod DEF a, Fold
  <2>2. b = 0
    BY <2>1, <1>1, DivMod DEF b, Fold
  <2> QED
    BY <1>1, <1>5, <2>2 DEF OnesComplement, a, b
<1>6. CASE s > 0
  <2>1. PICK g \in Nat : s = (W - 1) * g + a
    BY <1>2
  <2>2. PICK h \in Nat : a = (W - 1) * h + b
    BY <1>4
  <2>3. s - 1 = (W - 1) * (g + h) + (b - 1)
    <3>1. (W - 1) * (g + h) = (W - 1) * g + (W - 1) * h
      BY <1>1
    <3> QED
      BY <1>1, <1>2, <1>4, <2>1, <2>2, <3>1
  <2>4. b - 1 \in 0..((W - 1) - 1) /\ g + h \in Nat /\ W - 1 \in Nat /\ W - 1 > 0
    BY <1>1, <1>2, <1>4, <1>6
  <2>5. (s - 1) % (W - 1) = b - 1
    <3> DEFINE d == W - 1
               q == g + h
               t == b - 1
    <3>1. d \in Nat /\ d > 0 /\ q \in Nat /\ t \in 0..(d - 1) /\ s - 1 = d * q + t
      BY <2>3, <2>4
    <3> HIDE DEF d, q, t
    <3>2. (s - 1) % d = t
      BY <3>1, DivModUnique
    <3> QED
      BY <3>2 DEF d, t
  <2> QED
    BY <1>1, <1>4, <1>6, <2>5 DEF OnesComplement, a, b
<1> QED
  BY <1>1, <1>5, <1>6

-----------------------------------------------------------------------------
(* The loops.                                                              *)

\* Multiplication by a natural number is monotonic, and distributes.
LEMMA Times ==
  ASSUME NEW a \in Nat, NEW b \in Nat, NEW k \in Nat
  PROVE  /\ a * k \in Nat
         /\ a <= b => a * k <= b * k
         /\ (a + 1) * k = a * k + k
         /\ (a + 4) * k = a * k + 4 * k
OBVIOUS

Octet == 0..(ByteBase - 1)

\* The buffer's elements are bytes.
LEMMA BufferOfOctets == ASSUME buf \in Seq(Byte) PROVE buf \in Seq(Octet)
<1>1. \A i \in 1..Len(buf) : buf[i] \in Octet
  BY ElementOfSeq, LoopAssumption DEF Octet
<1>2. Len(buf) \in Nat /\ buf = [i \in 1..Len(buf) |-> buf[i]]
  BY LenProperties
<1> QED
  BY <1>1, <1>2, SeqDef

\* The bytes of the i-th word, the second of which may be beyond an odd buffer's end.
LowByte(s, i) == s[2 * i + 1]
HighByte(s, i) == IF 2 * i + 2 <= Len(s) THEN s[2 * i + 2] ELSE 0

LEMMA WordBytes ==
  ASSUME NEW s \in Seq(Octet), NEW i \in Nat, 2 * i + 1 <= Len(s)
  PROVE  /\ LowByte(s, i) \in Octet /\ HighByte(s, i) \in Octet
         /\ WordAt(s, i) = LowByte(s, i) + ByteBase * HighByte(s, i)
<1>1. Len(s) \in Nat
  BY LenProperties
<1>2. LowByte(s, i) \in Octet
  <2>1. 2 * i + 1 \in 1..Len(s)
    BY <1>1
  <2> QED
    BY <2>1, ElementOfSeq DEF LowByte
<1>3. HighByte(s, i) \in Octet
  <2>1. CASE 2 * i + 2 <= Len(s)
    <3>1. 2 * i + 2 \in 1..Len(s)
      BY <1>1, <2>1
    <3> QED
      BY <2>1, <3>1, ElementOfSeq DEF HighByte
  <2>2. CASE ~(2 * i + 2 <= Len(s))
    BY <2>2, ByteBaseAssumption DEF HighByte, Octet
  <2> QED
    BY <2>1, <2>2
<1>4. WordAt(s, i) = LowByte(s, i) + ByteBase * HighByte(s, i)
  BY ByteBaseAssumption DEF WordAt, LowByte, HighByte
<1> QED
  BY <1>2, <1>3, <1>4

\* A number of two bytes is below W, and 0 only if both are.
LEMMA TwoBytes ==
  ASSUME NEW lo \in Octet, NEW hi \in Octet
  PROVE  /\ lo + ByteBase * hi \in 0..(W - 1)
         /\ lo + ByteBase * hi = 0 <=> lo = 0 /\ hi = 0
<1> DEFINE p == ByteBase * hi
<1>1. p \in Nat /\ p <= ByteBase * (ByteBase - 1) /\ (p = 0 <=> hi = 0)
  BY ByteBaseAssumption DEF Octet
<1>2. ByteBase * (ByteBase - 1) = W - ByteBase /\ W \in Nat
  BY ByteBaseAssumption DEF W
<1> HIDE DEF p
<1>3. lo + p \in 0..(W - 1) /\ (lo + p = 0 <=> lo = 0 /\ p = 0)
  BY <1>1, <1>2, ByteBaseAssumption DEF Octet
<1> QED
  BY <1>1, <1>3 DEF p

\* A word that begins inside the buffer is at most W-1.
LEMMA WordBound ==
  ASSUME NEW s \in Seq(Octet), NEW i \in Nat, 2 * i + 1 <= Len(s)
  PROVE  WordAt(s, i) \in 0..(W - 1)
BY WordBytes, TwoBytes

Counters == /\ buf \in Seq(Byte) /\ Len(buf) <= MaxLen
            /\ len \in Nat /\ u16 \in Nat /\ sum \in Nat
            /\ pc \in {"filling", "four", "one", "fold", "done"}

IInv == /\ Counters
        /\ pc = "filling" => len = 0 /\ u16 = 0 /\ sum = 0
        /\ pc # "filling" => 2 * u16 + len = Len(buf)
        /\ LoopInvariant
        /\ pc = "fold" => sum <= MaxLen * (W - 1)
        /\ pc = "done" => sum <= W - 1

\* A sum of as many words as a buffer can have fits 32 bits.
LEMMA SumFits == MaxLen * (W - 1) \in Nat /\ MaxLen * (W - 1) <= W * W - 1
<1> DEFINE K == W - 1
<1>1. K \in Nat /\ MaxLen \in Nat /\ MaxLen <= K /\ W = K + 1
  BY WSize, LoopAssumption
<1> HIDE DEF K
<1>2. MaxLen * K \in Nat /\ MaxLen * K <= K * K
  BY <1>1, Times
<1>3. W * W = K * K + 2 * K + 1
  BY <1>1
<1>4. MaxLen * K <= W * W - 1
  <2> DEFINE p == MaxLen * K
             q == K * K
             w == W * W
  <2>1. p \in Nat /\ q \in Nat /\ p <= q /\ w = q + 2 * K + 1
    BY <1>1, <1>2, <1>3
  <2> HIDE DEF p, q, w
  <2>2. p <= w - 1
    BY <1>1, <2>1
  <2> QED
    BY <2>2 DEF p, w
<1> QED
  BY <1>2, <1>4 DEF K

LEMMA InitIInv == Init => IInv
<1> SUFFICES ASSUME Init PROVE IInv
  OBVIOUS
<1>1. buf \in Seq(Byte) /\ Len(buf) = 0
  BY EmptySeq DEF Init
<1>2. Counters
  BY <1>1, LoopAssumption DEF Init, Counters
<1> QED
  BY <1>2 DEF Init, IInv, LoopInvariant

\* One step of either loop: n more words are in the sum, and the buffer has them.
LEMMA WordsAdded ==
  ASSUME NEW n \in {1, 4}, IInv, pc \in {"four", "one"}, NEW words \in 0..(n * (W - 1)),
         sum' = sum + words, u16' = u16 + n
  PROVE  sum' \in Nat /\ sum' <= u16' * (W - 1)
<1> DEFINE K == W - 1
           p == u16 * K
<1>1. K \in Nat /\ u16 \in Nat /\ sum \in Nat /\ sum <= p
  BY WSize DEF IInv, Counters, LoopInvariant
<1>2. p \in Nat /\ (u16 + n) * K = p + n * K
  BY <1>1, Times
<1> HIDE DEF K, p
<1>3. words \in 0..(n * K)
  BY DEF K
<1>4. n * K = K \/ n * K = 4 * K
  BY <1>1
<1>5. sum + words \in Nat /\ sum + words <= p + n * K
  BY <1>1, <1>2, <1>3, <1>4
<1> QED
  BY <1>2, <1>5 DEF K

LEMMA NextIInv == IInv /\ [Next]_vars => IInv'
<1> SUFFICES ASSUME IInv, [Next]_vars PROVE IInv'
  OBVIOUS
<1> DEFINE K == W - 1
<1>1. /\ buf \in Seq(Byte) /\ Len(buf) \in Nat /\ Len(buf) <= MaxLen
      /\ buf \in Seq(Octet)
      /\ len \in Nat /\ u16 \in Nat /\ sum \in Nat
      /\ K \in Nat /\ MaxLen \in Nat
  BY WSize, LoopAssumption, LenProperties, BufferOfOctets DEF IInv, Counters
<1>2. CASE Fill
  <2>1. PICK b \in Byte : buf' = Append(buf, b)
    BY <1>2 DEF Fill
  <2>2. buf' \in Seq(Byte) /\ Len(buf') = Len(buf) + 1
    BY <1>1, <2>1, AppendProperties
  <2>3. Len(buf') <= MaxLen
    BY <1>1, <1>2, <2>2 DEF Fill
  <2> QED
    BY <1>2, <2>2, <2>3 DEF Fill, IInv, Counters, LoopInvariant
<1>3. CASE Call
  <2>1. len' = Len(buf) /\ u16' = 0 /\ sum' = 0 /\ buf' = buf /\ pc' = "four"
    BY <1>3 DEF Call, IInv
  <2>2. 2 * u16' + len' = Len(buf') /\ sum' <= u16' * (W - 1)
    <3>1. 0 * K = 0
      BY <1>1
    <3> QED
      BY <1>1, <2>1, <3>1
  <2> QED
    BY <1>1, <2>1, <2>2 DEF IInv, Counters, LoopInvariant
<1>4. CASE Four
  <2>1. 2 * u16 + len = Len(buf) /\ len >= 8 /\ pc = "four"
    BY <1>4 DEF Four, IInv
  <2>2. /\ WordAt(buf, u16) \in 0..K /\ WordAt(buf, u16 + 1) \in 0..K
        /\ WordAt(buf, u16 + 2) \in 0..K /\ WordAt(buf, u16 + 3) \in 0..K
    BY <1>1, <2>1, WordBound
  <2> DEFINE words == WordAt(buf, u16) + WordAt(buf, u16 + 1)
                       + WordAt(buf, u16 + 2) + WordAt(buf, u16 + 3)
  <2>3. words \in 0..(4 * K) /\ sum' = sum + words
    <3>1. sum' = sum + WordAt(buf, u16) + WordAt(buf, u16 + 1)
                     + WordAt(buf, u16 + 2) + WordAt(buf, u16 + 3)
      BY <1>4 DEF Four
    <3> HIDE DEF K
    <3> QED
      BY <1>1, <2>2, <3>1
  <2>4. sum' \in Nat /\ sum' <= u16' * (W - 1)
    <3> HIDE DEF words
    <3> QED
      BY <1>4, <2>1, <2>3, WordsAdded DEF Four
  <2>5. len' \in Nat /\ u16' \in Nat /\ 2 * u16' + len' = Len(buf')
    BY <1>1, <1>4, <2>1 DEF Four
  <2> QED
    BY <1>4, <2>4, <2>5 DEF Four, IInv, Counters, LoopInvariant
<1>5. CASE FourDone
  BY <1>5 DEF FourDone, IInv, Counters, LoopInvariant
<1>6. CASE One
  <2>1. 2 * u16 + len = Len(buf) /\ len >= 2 /\ pc = "one"
    BY <1>6 DEF One, IInv
  <2>2. WordAt(buf, u16) \in 0..(1 * K)
    BY <1>1, <2>1, WordBound
  <2>3. sum' \in Nat /\ sum' <= u16' * (W - 1)
    BY <1>6, <2>1, <2>2, WordsAdded DEF One
  <2>4. len' \in Nat /\ u16' \in Nat /\ 2 * u16' + len' = Len(buf')
    BY <1>1, <1>6, <2>1 DEF One
  <2> QED
    BY <1>6, <2>3, <2>4 DEF One, IInv, Counters, LoopInvariant
<1>7. CASE Odd
  <2>1. 2 * u16 + len = Len(buf) /\ sum <= u16 * K
    BY <1>7 DEF Odd, IInv, LoopInvariant
  <2>2. sum' \in Nat /\ sum' <= MaxLen * K
    <3>1. CASE len = 1
      <4>1. sum' = sum + buf[2 * u16 + 1] /\ buf[2 * u16 + 1] \in 0..(ByteBase - 1)
        <5>1. 2 * u16 + 1 \in 1..Len(buf)
          BY <1>1, <2>1, <3>1
        <5> QED
          BY <1>1, <1>7, <3>1, <5>1, ElementOfSeq DEF Odd, Octet
      <4>2. ByteBase - 1 <= K
        <5>1. ByteBase <= ByteBase * ByteBase
          BY ByteBaseAssumption
        <5> QED
          BY <5>1, ByteBaseAssumption DEF W
      <4>3. (u16 + 1) * K = u16 * K + K /\ u16 * K \in Nat
        BY <1>1, Times
      <4>4. u16 + 1 <= MaxLen
        BY <1>1, <2>1, <3>1
      <4>5. (u16 + 1) * K <= MaxLen * K /\ MaxLen * K \in Nat
        <5> HIDE DEF K
        <5> QED
          BY <1>1, <4>4, Times
      <4> DEFINE p == u16 * K
                 m == MaxLen * K
                 c == buf[2 * u16 + 1]
      <4>6. p \in Nat /\ m \in Nat /\ p + K <= m /\ sum <= p /\ sum' = sum + c /\ c \in 0..(ByteBase - 1)
        BY <2>1, <4>1, <4>3, <4>5
      <4> HIDE DEF p, m, c, K
      <4>7. sum' \in Nat /\ sum' <= m
        BY <1>1, <4>2, <4>6, ByteBaseAssumption
      <4> QED
        BY <4>7 DEF m
    <3>2. CASE len # 1
      <4>1. sum' = sum
        BY <1>7, <3>2 DEF Odd
      <4>2. u16 <= MaxLen
        BY <1>1, <2>1
      <4>3. u16 * K <= MaxLen * K /\ u16 * K \in Nat /\ MaxLen * K \in Nat
        <5> HIDE DEF K
        <5> QED
          BY <1>1, <4>2, Times
      <4> DEFINE p == u16 * K
                 m == MaxLen * K
      <4>4. p \in Nat /\ m \in Nat /\ p <= m /\ sum <= p
        BY <2>1, <4>3
      <4> HIDE DEF p, m
      <4>5. sum' \in Nat /\ sum' <= m
        BY <1>1, <4>1, <4>4
      <4> QED
        BY <4>5 DEF m
    <3> QED
      BY <3>1, <3>2
  <2> QED
    BY <1>7, <2>1, <2>2 DEF Odd, IInv, Counters, LoopInvariant
<1>8. CASE Return
  <2>1. sum <= MaxLen * (W - 1)
    BY <1>8 DEF Return, IInv
  <2>2. sum \in 0..(W * W - 1)
    <3> DEFINE m == MaxLen * (W - 1)
               w == W * W
    <3>1. m \in Nat /\ m <= w - 1 /\ sum <= m /\ w \in Nat
      BY <2>1, SumFits, WSize
    <3> HIDE DEF m, w
    <3>2. sum \in 0..(w - 1)
      BY <1>1, <3>1
    <3> QED
      BY <3>2 DEF w
  <2>3. sum' \in 0..(W - 1)
    BY <1>8, <2>2, TwoFolds DEF Return
  <2>4. sum' \in Nat /\ sum' <= W - 1
    BY <2>3, WSize
  <2> QED
    BY <1>8, <2>4 DEF Return, IInv, Counters, LoopInvariant
<1>9. CASE UNCHANGED vars
  BY <1>9 DEF vars, IInv, Counters, LoopInvariant
<1> QED
  BY <1>2, <1>3, <1>4, <1>5, <1>6, <1>7, <1>8, <1>9 DEF Next

\* The invariant gives the type invariant: what is in the sum fits 32 bits.
LEMMA IInvTyped == IInv => TypeOK
<1> SUFFICES ASSUME IInv PROVE TypeOK
  OBVIOUS
<1>1. /\ buf \in Seq(Byte) /\ Len(buf) \in Nat /\ Len(buf) <= MaxLen /\ MaxLen \in Nat
      /\ len \in Nat /\ u16 \in Nat /\ sum \in Nat
  BY LoopAssumption, LenProperties DEF IInv, Counters
<1>2. buf \in BoundedSeq(Byte, MaxLen)
  <2>1. buf \in [1..Len(buf) -> Byte] /\ Len(buf) \in 0..MaxLen
    BY <1>1, LenProperties
  <2> QED
    BY <2>1 DEF BoundedSeq, SeqOf
<1>3. len \in 0..MaxLen /\ u16 \in 0..MaxLen
  BY <1>1 DEF IInv
<1>4. sum \in 0..(W * W - 1)
  <2> DEFINE K == W - 1
             m == MaxLen * K
             w == W * W
  <2>1. m \in Nat /\ m <= w - 1 /\ K \in Nat /\ w \in Nat
    BY SumFits, WSize
  <2>2. K <= w - 1
    BY WSize
  <2>3. pc \in {"four", "one"} => sum <= m
    <3>1. u16 * K <= m /\ u16 * K \in Nat
      <4> HIDE DEF K
      <4> QED
        BY <1>1, <1>3, <2>1, Times
    <3> DEFINE p == u16 * K
    <3>2. p \in Nat /\ p <= m /\ (pc \in {"four", "one"} => sum <= p)
      BY <3>1 DEF IInv, LoopInvariant
    <3> HIDE DEF p, m
    <3> QED
      BY <1>1, <2>1, <3>2
  <2>4. /\ pc = "filling" => sum = 0
        /\ pc = "fold" => sum <= m
        /\ pc = "done" => sum <= K
    BY DEF IInv
  <2>5. pc \in {"filling", "four", "one", "fold", "done"}
    BY DEF IInv, Counters
  <2> HIDE DEF m, w, K
  <2>6. sum \in 0..(w - 1)
    BY <1>1, <2>1, <2>2, <2>3, <2>4, <2>5
  <2> QED
    BY <2>6 DEF w
<1> QED
  BY <1>2, <1>3, <1>4 DEF TypeOK, IInv, Counters

LEMMA IInvInvariant == Spec => []IInv
BY InitIInv, NextIInv, PTL DEF Spec

\* The counters stay within the buffer, and the sum within a uint32_t.
THEOREM TypeCorrect == Spec => []TypeOK
BY IInvInvariant, IInvTyped, PTL

\* Neither loop reads outside the buffer or skips a byte of it, and what is in the sum is
\* at most W-1 for every word read.
THEOREM LoopsStayInside == Spec => []LoopInvariant
<1>1. IInv => LoopInvariant
  BY DEF IInv
<1> QED
  BY <1>1, IInvInvariant, PTL


-----------------------------------------------------------------------------
(* What is in the sum.                                                     *)

\* A nonempty set of naturals has a least element, and Min names it.
LEMMA LeastNatural ==
  ASSUME NEW S \in SUBSET Nat, S # {}
  PROVE  Min(S) \in S /\ \A x \in S : Min(S) <= x
<1> DEFINE R == OpToRel(<, Nat)
<1>1. \A x, y \in Nat : <<x, y>> \in R <=> x < y
  <2>1. \A x, y \in Nat : <<x, y>> \in Nat \X Nat
    OBVIOUS
  <2> QED
    BY <2>1 DEF OpToRel
<1>2. IsWellFoundedOn(R, Nat)
  BY NatLessThanWellFounded
<1> HIDE DEF R
<1>3. \E x \in S : \A y \in S : ~ (<<y, x>> \in R)
  BY <1>2, WFMin
<1>4. \A x, y \in S : ~ (<<y, x>> \in R) => x <= y
  BY <1>1
<1>5. PICK x \in S : \A y \in S : x <= y
  BY <1>3, <1>4
<1> QED
  BY <1>5 DEF Min

\* What holds of 0, and of each number up to n if it holds of the one before, holds of n.
LEMMA Induction ==
  ASSUME NEW n \in Nat, NEW P \in SUBSET (0..n), 0 \in P,
         \A i \in 1..n : i - 1 \in P => i \in P
  PROVE  n \in P
<1> SUFFICES ASSUME n \notin P PROVE FALSE
  OBVIOUS
<1> DEFINE S == {i \in 0..n : i \notin P}
<1>1. S \in SUBSET Nat /\ S # {}
  OBVIOUS
<1> HIDE DEF S
<1>2. Min(S) \in S /\ \A x \in S : Min(S) <= x
  BY <1>1, LeastNatural
<1>3. Min(S) \in 1..n /\ Min(S) \notin P
  BY <1>2 DEF S
<1>4. Min(S) - 1 \in 0..n /\ Min(S) - 1 \in P
  BY <1>2, <1>3 DEF S
<1> QED
  BY <1>3, <1>4

\* There is a function that is base at 0 and of which each further value is a step from the
\* value before.
Solvable(n, T, base, step) ==
  \E f \in [0..n -> T] : f[0] = base /\ \A i \in 1..n : f[i] = step[i, f[i - 1]]

\* A recursion over 1..n, written as a step on the number and the value before, has a solution.
LEMMA Recursion ==
  ASSUME NEW n \in Nat, NEW T, NEW base \in T, NEW step \in [(1..n) \X T -> T]
  PROVE  Solvable(n, T, base, step)
<1> DEFINE Follows(f, m) == f[0] = base /\ \A i \in 1..m : f[i] = step[i, f[i - 1]]
           P == {m \in 0..n : \E f \in [0..m -> T] : Follows(f, m)}
<1>1. 0 \in P
  <2> DEFINE g == [i \in 0..0 |-> base]
  <2>1. g \in [0..0 -> T]
    OBVIOUS
  <2>2. Follows(g, 0)
    OBVIOUS
  <2> HIDE DEF Follows, g
  <2>3. \E f \in [0..0 -> T] : Follows(f, 0)
    BY <2>1, <2>2
  <2>4. 0 \in 0..n
    OBVIOUS
  <2> QED
    BY <2>3, <2>4
<1>2. ASSUME NEW m \in 1..n, m - 1 \in P
      PROVE  m \in P
  <2>1. PICK f \in [0..(m - 1) -> T] : Follows(f, m - 1)
    BY <1>2
  <2> DEFINE g == [i \in 0..m |-> IF i = m THEN step[m, f[m - 1]] ELSE f[i]]
  <2>2. m - 1 \in 0..(m - 1) /\ m \in Nat /\ m \in 0..n
    OBVIOUS
  <2>3. step[m, f[m - 1]] \in T
    <3>1. <<m, f[m - 1]>> \in (1..n) \X T
      BY <2>1, <2>2
    <3> QED
      BY <3>1
  <2>4. \A i \in 0..m : i # m => i \in 0..(m - 1)
    OBVIOUS
  <2>5. g \in [0..m -> T]
    BY <2>3, <2>4
  <2>6. g[m] = step[m, f[m - 1]] /\ \A i \in 0..(m - 1) : g[i] = f[i]
    <3>1. m \in 0..m /\ \A i \in 0..(m - 1) : i \in 0..m /\ i # m
      BY <2>2
    <3> QED
      BY <3>1
  <2> HIDE DEF g
  <2>7. ASSUME NEW i \in 1..m PROVE g[i] = step[i, g[i - 1]]
    <3>1. i - 1 \in 0..(m - 1)
      OBVIOUS
    <3>2. CASE i = m
      BY <2>6, <3>1, <3>2
    <3>3. CASE i # m
      <4>1. i \in 1..(m - 1) /\ i \in 0..(m - 1)
        BY <3>3
      <4> QED
        BY <2>1, <2>6, <3>1, <4>1
    <3> QED
      BY <3>2, <3>3
  <2>8. g[0] = base
    <3>1. 0 \in 0..(m - 1)
      BY <2>2
    <3> QED
      BY <2>1, <2>6, <3>1
  <2>9. Follows(g, m)
    BY <2>7, <2>8
  <2> HIDE DEF Follows
  <2>10. \E x \in [0..m -> T] : Follows(x, m)
    BY <2>5, <2>9
  <2> QED
    BY <2>2, <2>10
<1> HIDE DEF Follows
<1>3. P \in SUBSET (0..n)
  OBVIOUS
<1> HIDE DEF P
<1>4. n \in P
  BY <1>1, <1>2, <1>3, Induction
<1> QED
  BY <1>4 DEF P, Follows, Solvable

\* How many words a buffer of n bytes has.
LEMMA WordCount ==
  ASSUME NEW s \in Seq(Octet)
  PROVE  /\ Len(s) \in Nat /\ Words(s) \in Nat
         /\ Len(s) <= 2 * Words(s) /\ 2 * Words(s) <= Len(s) + 1
BY LenProperties, DivMod DEF Words

\* The recursion that adds up the words is defined, and its values are natural numbers.
LEMMA SumToDefined ==
  ASSUME NEW s \in Seq(Octet)
  PROVE  /\ SumTo(s)[0] = 0
         /\ \A i \in 1..Words(s) : SumTo(s)[i] = SumTo(s)[i - 1] + WordAt(s, i - 1)
         /\ \A i \in 0..Words(s) : SumTo(s)[i] \in Nat
<1> DEFINE n == Words(s)
           step == [x \in (1..n) \X Nat |-> x[2] + WordAt(s, x[1] - 1)]
           Adds(g) == [i \in 0..n |-> IF i = 0 THEN 0 ELSE g[i - 1] + WordAt(s, i - 1)]
           h == CHOOSE g : g = Adds(g)
<1>1. SumTo(s) = h
  BY DEF SumTo
<1>2. n \in Nat
  BY WordCount
<1>3. \A i \in 1..n : WordAt(s, i - 1) \in Nat
  <2> SUFFICES ASSUME NEW i \in 1..n PROVE WordAt(s, i - 1) \in Nat
    OBVIOUS
  <2>1. i - 1 \in Nat /\ 2 * (i - 1) + 1 <= Len(s)
    BY <1>2, WordCount
  <2> QED
    BY <2>1, WordBound, WSize
<1>4. step \in [(1..n) \X Nat -> Nat]
  BY <1>3
<1>5. \A i \in 1..n, k \in Nat : step[i, k] = k + WordAt(s, i - 1)
  OBVIOUS
<1> HIDE DEF step
<1>6. PICK f \in [0..n -> Nat] : f[0] = 0 /\ \A i \in 1..n : f[i] = step[i, f[i - 1]]
  <2>1. Solvable(n, Nat, 0, step)
    BY <1>2, <1>4, Recursion
  <2> QED
    BY <2>1 DEF Solvable
<1> HIDE DEF n
<1>7. f = Adds(f)
  <2> SUFFICES ASSUME NEW i \in 0..n PROVE f[i] = Adds(f)[i]
    BY <1>6
  <2>1. CASE i = 0
    BY <1>6, <2>1
  <2>2. CASE i # 0
    <3>1. i \in 1..n /\ i - 1 \in 0..n
      BY <1>2, <2>2
    <3>2. f[i - 1] \in Nat
      BY <1>6, <3>1
    <3> QED
      BY <1>5, <1>6, <2>2, <3>1, <3>2
  <2> QED
    BY <2>1, <2>2
<1> HIDE DEF Adds
<1>8. h = Adds(h)
  BY <1>7
<1> HIDE DEF h
<1>9. h[0] = 0 /\ \A i \in 1..n : h[i] = h[i - 1] + WordAt(s, i - 1)
  <2>1. \A i \in 0..n : Adds(h)[i] = IF i = 0 THEN 0 ELSE h[i - 1] + WordAt(s, i - 1)
    BY DEF Adds
  <2>2. 0 \in 0..n /\ \A i \in 1..n : i \in 0..n /\ i # 0
    BY <1>2
  <2> QED
    BY <1>8, <2>1, <2>2
<1>10. ASSUME NEW m \in 0..n PROVE h[m] \in Nat
  <2> DEFINE P == {i \in 0..m : h[i] \in Nat}
  <2>1. \A i \in 1..m : i - 1 \in P => i \in P
    <3> SUFFICES ASSUME NEW i \in 1..m, i - 1 \in P PROVE i \in P
      OBVIOUS
    <3>1. i \in 1..n /\ h[i - 1] \in Nat /\ i \in 0..m
      BY <1>2
    <3>2. h[i] \in Nat
      BY <1>3, <1>9, <3>1 DEF n
    <3> QED
      BY <3>1, <3>2
  <2>2. 0 \in P /\ m \in Nat /\ P \in SUBSET (0..m)
    BY <1>2, <1>9
  <2> HIDE DEF P
  <2>3. m \in P
    BY <2>1, <2>2, Induction
  <2> QED
    BY <2>3 DEF P
<1> QED
  BY <1>1, <1>9, <1>10 DEF n

\* The sum holds the words the pointer has passed; after the odd byte all of them; and at
\* the end what they fold to.
SumInv == /\ pc \in {"four", "one"} => sum = SumTo(buf)[u16]
          /\ pc = "fold" => sum = WordSum(buf)
          /\ ResultIsSum

LEMMA InitSum == Init => SumInv
BY DEF Init, SumInv, ResultIsSum

LEMMA NextSum == IInv /\ TypeOK /\ SumInv /\ [Next]_vars => SumInv'
<1> SUFFICES ASSUME IInv, TypeOK, SumInv, [Next]_vars PROVE SumInv'
  OBVIOUS
<1>1. /\ buf \in Seq(Octet) /\ Len(buf) \in Nat /\ Words(buf) \in Nat
      /\ Len(buf) <= 2 * Words(buf) /\ 2 * Words(buf) <= Len(buf) + 1
      /\ len \in Nat /\ u16 \in Nat /\ sum \in Nat
      /\ pc # "filling" => 2 * u16 + len = Len(buf)
  BY BufferOfOctets, WordCount DEF IInv, Counters
<1>2. /\ SumTo(buf)[0] = 0
      /\ \A i \in 1..Words(buf) : SumTo(buf)[i] = SumTo(buf)[i - 1] + WordAt(buf, i - 1)
      /\ \A i \in 0..Words(buf) : SumTo(buf)[i] \in Nat
  BY <1>1, SumToDefined
<1>3. \A i \in 0..(Words(buf) - 1) : /\ SumTo(buf)[i + 1] = SumTo(buf)[i] + WordAt(buf, i)
                                     /\ WordAt(buf, i) \in Int
  <2> SUFFICES ASSUME NEW i \in 0..(Words(buf) - 1)
               PROVE  SumTo(buf)[i + 1] = SumTo(buf)[i] + WordAt(buf, i) /\ WordAt(buf, i) \in Int
    OBVIOUS
  <2>1. i + 1 \in 1..Words(buf) /\ (i + 1) - 1 = i /\ i \in Nat /\ 2 * i + 1 <= Len(buf)
    BY <1>1
  <2>2. WordAt(buf, i) \in 0..(W - 1)
    BY <1>1, <2>1, WordBound
  <2>3. WordAt(buf, i) \in Int
    BY <2>2, WSize
  <2> QED
    BY <1>2, <2>1, <2>3
<1>4. CASE Fill
  BY <1>4 DEF Fill, SumInv, ResultIsSum
<1>5. CASE Call
  BY <1>2, <1>5 DEF Call, SumInv, ResultIsSum, IInv
<1>6. CASE Four
  <2>1. /\ pc = "four" /\ len >= 8 /\ sum = SumTo(buf)[u16]
        /\ buf' = buf /\ u16' = u16 + 4 /\ pc' = "four"
        /\ sum' = sum + WordAt(buf, u16) + WordAt(buf, u16 + 1)
                      + WordAt(buf, u16 + 2) + WordAt(buf, u16 + 3)
    BY <1>6 DEF Four, SumInv
  <2>2. \A k \in 0..3 : u16 + k \in 0..(Words(buf) - 1)
    BY <1>1, <2>1
  <2>3. /\ SumTo(buf)[u16 + 1] = sum + WordAt(buf, u16) /\ WordAt(buf, u16) \in Int
        /\ SumTo(buf)[u16 + 2] = SumTo(buf)[u16 + 1] + WordAt(buf, u16 + 1)
        /\ WordAt(buf, u16 + 1) \in Int
        /\ SumTo(buf)[u16 + 3] = SumTo(buf)[u16 + 2] + WordAt(buf, u16 + 2)
        /\ WordAt(buf, u16 + 2) \in Int
        /\ SumTo(buf)[u16 + 4] = SumTo(buf)[u16 + 3] + WordAt(buf, u16 + 3)
        /\ WordAt(buf, u16 + 3) \in Int
    <3>1. /\ u16 + 0 = u16 /\ (u16 + 1) + 1 = u16 + 2 /\ (u16 + 2) + 1 = u16 + 3
          /\ (u16 + 3) + 1 = u16 + 4
      BY <1>1
    <3> QED
      BY <1>3, <2>1, <2>2, <3>1
  <2>4. sum' = SumTo(buf)[u16 + 4]
    BY <1>1, <2>1, <2>3
  <2> QED
    BY <2>1, <2>4 DEF SumInv, ResultIsSum
<1>7. CASE FourDone
  BY <1>7 DEF FourDone, SumInv, ResultIsSum
<1>8. CASE One
  <2>1. /\ pc = "one" /\ len >= 2 /\ sum = SumTo(buf)[u16]
        /\ buf' = buf /\ u16' = u16 + 1 /\ pc' = "one" /\ sum' = sum + WordAt(buf, u16)
    BY <1>8 DEF One, SumInv
  <2>2. u16 \in 0..(Words(buf) - 1)
    BY <1>1, <2>1
  <2>3. sum' = SumTo(buf)[u16 + 1]
    BY <1>3, <2>1, <2>2
  <2> QED
    BY <2>1, <2>3 DEF SumInv, ResultIsSum
<1>9. CASE Odd
  <2>1. /\ pc = "one" /\ len < 2 /\ sum = SumTo(buf)[u16]
        /\ buf' = buf /\ pc' = "fold"
        /\ sum' = IF len = 1 THEN sum + buf[2 * u16 + 1] ELSE sum
    BY <1>9 DEF Odd, SumInv
  <2>2. CASE len = 1
    <3>1. u16 \in 0..(Words(buf) - 1) /\ Words(buf) = u16 + 1 /\ ~(2 * u16 + 2 <= Len(buf))
          /\ 2 * u16 + 1 \in 1..Len(buf)
      BY <1>1, <2>1, <2>2
    <3>2. buf[2 * u16 + 1] \in Octet
      BY <1>1, <3>1, ElementOfSeq
    <3>3. WordAt(buf, u16) = buf[2 * u16 + 1]
      BY <3>1, <3>2, ByteBaseAssumption DEF WordAt, Octet
    <3>4. sum' = WordSum(buf)
      BY <1>3, <2>1, <2>2, <3>1, <3>3 DEF WordSum
    <3> QED
      BY <2>1, <3>4 DEF SumInv, ResultIsSum
  <2>3. CASE len = 0
    <3>1. Words(buf) = u16
      BY <1>1, <2>1, <2>3
    <3>2. sum' = WordSum(buf)
      BY <2>1, <2>3, <3>1 DEF WordSum
    <3> QED
      BY <2>1, <3>2 DEF SumInv, ResultIsSum
  <2> QED
    BY <1>1, <2>1, <2>2, <2>3
<1>10. CASE Return
  <2>1. sum' = OnesComplement(sum) /\ sum = WordSum(buf) /\ buf' = buf /\ pc' = "done"
    BY <1>10, TwoFolds DEF Return, TypeOK, SumInv
  <2> QED
    BY <2>1 DEF SumInv, ResultIsSum
<1>11. CASE UNCHANGED vars
  BY <1>11 DEF vars, SumInv, ResultIsSum
<1> QED
  BY <1>4, <1>5, <1>6, <1>7, <1>8, <1>9, <1>10, <1>11 DEF Next

LEMMA SumInvariant == Spec => []SumInv
BY InitSum, NextSum, IInvInvariant, TypeCorrect, PTL DEF Spec

\* What the call returns is the ones' complement value of the sum its loops leave.
THEOREM ReturnsOnesComplement == Spec => [][Return => sum' = OnesComplement(sum)]_vars
<1>1. IInv /\ TypeOK /\ [Next]_vars => [Return => sum' = OnesComplement(sum)]_vars
  BY TwoFolds DEF Return, TypeOK
<1> QED
  BY <1>1, IInvInvariant, TypeCorrect, PTL DEF Spec

\* Whatever the length of the buffer, unrolled loop or not, odd or even, what the call
\* returns is the ones' complement sum of its words.
THEOREM SumsTheBuffer == Spec => []ResultIsSum
<1>1. SumInv => ResultIsSum
  BY DEF SumInv
<1> QED
  BY <1>1, SumInvariant, PTL


-----------------------------------------------------------------------------
(* The other byte order.                                                   *)

\* Numbers that differ by a multiple of W-1, both 0 or both not, have one ones' complement
\* value: the one of them that is below W.
LEMMA OneValue ==
  ASSUME NEW x \in Nat, NEW y \in 0..(W - 1), NEW g \in Nat, NEW h \in Nat,
         x + (W - 1) * g = y + (W - 1) * h, x = 0 <=> y = 0
  PROVE  OnesComplement(x) = y
<1> DEFINE K == W - 1
<1>1. K \in Nat /\ K > 0
  BY WSize
<1>2. CASE x = 0
  BY <1>2 DEF OnesComplement
<1>3. CASE x # 0
  <2>1. y \in 1..K
    BY <1>1, <1>3
  <2> HIDE DEF K
  <2>2. K * g \in Nat /\ K * h \in Nat
    BY <1>1
  <2>3. x + K * g = y + K * h
    BY DEF K
  <2>4. g <= h
    <3> SUFFICES ASSUME g >= h + 1 PROVE FALSE
      OBVIOUS
    <3>1. K * g >= K * (h + 1) /\ K * (h + 1) = K * h + K
      BY <1>1
    <3> QED
      BY <1>1, <1>3, <2>1, <2>2, <2>3, <3>1
  <2>5. h - g \in Nat /\ K * (h - g) = K * h - K * g
    BY <1>1, <2>4
  <2>6. x - 1 = K * (h - g) + (y - 1) /\ y - 1 \in 0..(K - 1)
    BY <1>1, <2>1, <2>2, <2>3, <2>5
  <2>7. (x - 1) % K = y - 1
    <3> DEFINE q == h - g
               t == y - 1
    <3>1. q \in Nat /\ t \in 0..(K - 1) /\ x - 1 = K * q + t
      BY <2>5, <2>6
    <3> HIDE DEF q, t
    <3>2. (x - 1) % K = t
      BY <1>1, <3>1, DivModUnique
    <3> QED
      BY <3>2 DEF t
  <2> QED
    BY <1>3, <2>1, <2>7, <1>1 DEF OnesComplement, K
<1> QED
  BY <1>2, <1>3

\* A number differs from its ones' complement value by a multiple of W-1.
LEMMA ValueOfSum ==
  ASSUME NEW x \in Nat
  PROVE  /\ OnesComplement(x) \in 0..(W - 1)
         /\ x = 0 <=> OnesComplement(x) = 0
         /\ \E g \in Nat : x = OnesComplement(x) + (W - 1) * g
<1> DEFINE K == W - 1
<1>1. K \in Nat /\ K > 0
  BY WSize
<1>2. CASE x = 0
  <2>1. OnesComplement(x) = 0 /\ x = 0 + K * 0
    BY <1>1, <1>2 DEF OnesComplement
  <2> QED
    BY <1>1, <1>2, <2>1
<1>3. CASE x # 0
  <2>1. OnesComplement(x) = 1 + ((x - 1) % K)
    BY <1>3 DEF OnesComplement
  <2> HIDE DEF K
  <2>2. x - 1 \in Nat
    BY <1>3
  <2>3. /\ (x - 1) \div K \in Nat /\ (x - 1) % K \in 0..(K - 1)
        /\ x - 1 = K * ((x - 1) \div K) + ((x - 1) % K)
    BY <1>1, <2>2, DivMod
  <2>4. x = OnesComplement(x) + K * ((x - 1) \div K)
    <3> DEFINE q == (x - 1) \div K
               r == (x - 1) % K
               p == K * q
    <3>1. p \in Nat /\ r \in Nat /\ x - 1 = p + r /\ OnesComplement(x) = 1 + r
      BY <1>1, <2>1, <2>3
    <3> HIDE DEF p, r
    <3>2. x = OnesComplement(x) + p
      BY <3>1
    <3> QED
      BY <3>2 DEF p
  <2>5. OnesComplement(x) \in 1..K
    BY <1>1, <2>1, <2>3
  <2> QED
    BY <1>1, <1>3, <2>3, <2>4, <2>5 DEF K
<1> QED
  BY <1>2, <1>3

\* Times ByteBase, the high byte of a word comes out above the word and is carried round: to
\* swap the bytes is to multiply, modulo W-1.
LEMMA SwapIsTimes ==
  ASSUME NEW lo \in Octet, NEW hi \in Octet
  PROVE  ByteBase * (lo + ByteBase * hi) = (hi + ByteBase * lo) + (W - 1) * hi
<1>1. lo \in Nat /\ hi \in Nat /\ ByteBase \in Nat
  BY ByteBaseAssumption DEF Octet
<1>2. ByteBase * (lo + ByteBase * hi) = ByteBase * lo + ByteBase * (ByteBase * hi)
  BY <1>1
<1>3. ByteBase * (ByteBase * hi) = W * hi
  BY <1>1 DEF W
<1>4. W * hi = hi + (W - 1) * hi
  BY <1>1, WSize
<1> DEFINE a == ByteBase * lo
           b == W * hi
           c == (W - 1) * hi
<1>5. a \in Nat /\ b \in Nat /\ c \in Nat
  BY <1>1, WSize
<1>6. ByteBase * (lo + ByteBase * hi) = a + b /\ b = hi + c
  BY <1>2, <1>3, <1>4
<1> HIDE DEF a, b, c
<1>7. a + b = (hi + a) + c
  BY <1>1, <1>5, <1>6
<1> QED
  BY <1>6, <1>7 DEF a, c

\* SwapWord swaps the two bytes of a word.
LEMMA SwapWordBytes ==
  ASSUME NEW w \in 0..(W - 1)
  PROVE  /\ SwapWord(w) \in 0..(W - 1)
         /\ SwapWord(w) = 0 <=> w = 0
         /\ \E hi \in Nat : ByteBase * w = SwapWord(w) + (W - 1) * hi
<1> DEFINE lo == w % ByteBase
           hi == w \div ByteBase
<1>1. ByteBase \in Nat /\ ByteBase > 1 /\ W = ByteBase * ByteBase /\ w \in Nat /\ w < W
  BY ByteBaseAssumption, WSize DEF W
<1>2. hi \in Nat /\ lo \in 0..(ByteBase - 1) /\ w = ByteBase * hi + lo
  BY <1>1, DivMod
<1>3. SwapWord(w) = hi + ByteBase * lo
  BY DEF SwapWord
<1> HIDE DEF lo, hi
<1>4. hi < ByteBase
  <2> SUFFICES ASSUME hi >= ByteBase PROVE FALSE
    BY <1>1, <1>2
  <2>1. ByteBase * hi >= ByteBase * ByteBase
    BY <1>1, <1>2
  <2> QED
    BY <1>1, <1>2, <2>1
<1>5. lo \in Octet /\ hi \in Octet
  BY <1>1, <1>2, <1>4 DEF Octet
<1>6. w = lo + ByteBase * hi
  BY <1>1, <1>2
<1> QED
  BY <1>2, <1>3, <1>5, <1>6, TwoBytes, SwapIsTimes

\* Swapped(s) has s's words with their bytes swapped.
LEMMA SwappedWords ==
  ASSUME NEW s \in Seq(Octet)
  PROVE  /\ Swapped(s) \in Seq(Octet) /\ Words(Swapped(s)) = Words(s)
         /\ \A i \in 0..(Words(s) - 1) :
              WordAt(Swapped(s), i) = HighByte(s, i) + ByteBase * LowByte(s, i)
<1> DEFINE n == Words(s)
           t == Swapped(s)
<1>1. Len(s) \in Nat /\ n \in Nat /\ Len(s) <= 2 * n /\ 2 * n <= Len(s) + 1
  BY WordCount
<1>2. t = [i \in 1..(2 * n) |->
             LET j == IF i % 2 = 1 THEN i + 1 ELSE i - 1
             IN  IF j <= Len(s) THEN s[j] ELSE 0]
  BY DEF Swapped, Words
<1>3. 0 \in Octet
  BY ByteBaseAssumption DEF Octet
<1> HIDE DEF n, t
<1>4. ASSUME NEW i \in 0..(n - 1)
      PROVE  /\ 2 * i + 1 \in 1..(2 * n) /\ 2 * i + 2 \in 1..(2 * n) /\ 2 * i + 1 <= Len(s)
             /\ t[2 * i + 1] = HighByte(s, i) /\ t[2 * i + 2] = LowByte(s, i)
  <2>1. /\ i \in Nat /\ 2 * i + 1 \in 1..(2 * n) /\ 2 * i + 2 \in 1..(2 * n)
        /\ 2 * i + 1 <= Len(s)
    BY <1>1
  <2>2. (2 * i + 1) % 2 = 1 /\ (2 * i + 2) % 2 = 0
    <3>1. 2 * i + 2 = 2 * (i + 1) + 0
      BY <2>1
    <3> QED
      BY <2>1, <3>1, DivModUnique
  <2>3. t[2 * i + 1] = IF (2 * i + 1) + 1 <= Len(s) THEN s[(2 * i + 1) + 1] ELSE 0
    BY <1>2, <2>1, <2>2
  <2>4. t[2 * i + 2] = IF (2 * i + 2) - 1 <= Len(s) THEN s[(2 * i + 2) - 1] ELSE 0
    BY <1>2, <2>1, <2>2
  <2>5. (2 * i + 1) + 1 = 2 * i + 2 /\ (2 * i + 2) - 1 = 2 * i + 1
    BY <2>1
  <2> QED
    BY <2>1, <2>3, <2>4, <2>5 DEF HighByte, LowByte
<1>5. ASSUME NEW i \in 0..(n - 1)
      PROVE  LowByte(s, i) \in Octet /\ HighByte(s, i) \in Octet
  <2>1. i \in Nat /\ 2 * i + 1 <= Len(s)
    BY <1>1, <1>4
  <2> QED
    BY <2>1, WordBytes
<1>6. ASSUME NEW k \in 1..(2 * n)
      PROVE  t[k] \in Octet
  <2>1. PICK i \in 0..(n - 1) : k = 2 * i + 1 \/ k = 2 * i + 2
    <3> DEFINE q == (k - 1) \div 2
    <3>1. k - 1 \in Nat
      OBVIOUS
    <3>2. q \in Nat /\ (k - 1) % 2 \in 0..1 /\ k - 1 = 2 * q + ((k - 1) % 2)
      BY <3>1, DivMod
    <3> HIDE DEF q
    <3>3. q \in 0..(n - 1) /\ (k = 2 * q + 1 \/ k = 2 * q + 2)
      BY <1>1, <3>2
    <3> QED
      BY <3>3
  <2> QED
    BY <1>4, <1>5, <2>1
<1>7. t \in Seq(Octet) /\ Len(t) = 2 * n
  <2>1. DOMAIN t = 1..(2 * n) /\ t = [k \in 1..(2 * n) |-> t[k]] /\ 2 * n \in Nat
    BY <1>1, <1>2
  <2>2. t \in [1..(2 * n) -> Octet]
    BY <1>6, <2>1
  <2>3. t \in Seq(Octet)
    BY <2>1, <2>2, SeqDef
  <2> QED
    BY <2>1, <2>3, LenProperties
<1>8. Words(t) = n
  <2>1. 2 * n + 1 = 2 * n + 1 /\ (2 * n + 1) \div 2 = n
    BY <1>1, DivModUnique
  <2> QED
    BY <1>7, <2>1 DEF Words
<1>9. ASSUME NEW i \in 0..(n - 1)
      PROVE  WordAt(t, i) = HighByte(s, i) + ByteBase * LowByte(s, i)
  <2>1. 2 * i + 2 <= Len(t)
    BY <1>1, <1>7
  <2> QED
    BY <1>4, <2>1 DEF WordAt
<1> QED
  BY <1>7, <1>8, <1>9 DEF n, t

\* Both byte orders' sums: one is ByteBase times the other, modulo W-1, and they are 0
\* together.
LEMMA SwappedSum ==
  ASSUME NEW s \in Seq(Octet)
  PROVE  /\ WordSum(s) \in Nat /\ WordSum(Swapped(s)) \in Nat
         /\ WordSum(s) = 0 <=> WordSum(Swapped(s)) = 0
         /\ \E h \in Nat : ByteBase * WordSum(s) = WordSum(Swapped(s)) + (W - 1) * h
<1> DEFINE n == Words(s)
           t == Swapped(s)
           f == SumTo(s)
           g == SumTo(t)
           P == {m \in 0..n : /\ f[m] \in Nat /\ g[m] \in Nat
                              /\ f[m] = 0 <=> g[m] = 0
                              /\ \E h \in Nat : ByteBase * f[m] = g[m] + (W - 1) * h}
<1>1. n \in Nat /\ Len(s) \in Nat /\ 2 * n <= Len(s) + 1
  BY WordCount
<1>2. /\ t \in Seq(Octet) /\ Words(t) = n
      /\ \A i \in 0..(n - 1) : WordAt(t, i) = HighByte(s, i) + ByteBase * LowByte(s, i)
  BY SwappedWords
<1>3. /\ f[0] = 0 /\ \A i \in 1..n : f[i] = f[i - 1] + WordAt(s, i - 1)
      /\ \A i \in 0..n : f[i] \in Nat
  BY SumToDefined
<1>4. /\ g[0] = 0 /\ \A i \in 1..n : g[i] = g[i - 1] + WordAt(t, i - 1)
      /\ \A i \in 0..n : g[i] \in Nat
  <2> HIDE DEF t, n
  <2>1. /\ SumTo(t)[0] = 0
        /\ \A i \in 1..Words(t) : SumTo(t)[i] = SumTo(t)[i - 1] + WordAt(t, i - 1)
        /\ \A i \in 0..Words(t) : SumTo(t)[i] \in Nat
    BY <1>2, SumToDefined
  <2> QED
    BY <1>2, <2>1
<1> HIDE DEF n, t, f, g
<1>5. 0 \in P
  <2>1. 0 \in 0..n /\ f[0] = 0 /\ g[0] = 0
    BY <1>1, <1>3, <1>4
  <2>2. ByteBase * 0 = 0 + (W - 1) * 0
    BY WSize, ByteBaseAssumption
  <2> QED
    BY <2>1, <2>2
<1>6. ASSUME NEW m \in 1..n, m - 1 \in P
      PROVE  m \in P
  <2>1. PICK h \in Nat : ByteBase * f[m - 1] = g[m - 1] + (W - 1) * h
    BY <1>6
  <2> DEFINE lo == LowByte(s, m - 1)
             hi == HighByte(s, m - 1)
             a == f[m - 1]
             b == g[m - 1]
             u == WordAt(s, m - 1)
             v == WordAt(t, m - 1)
  <2>2. a \in Nat /\ b \in Nat /\ (a = 0 <=> b = 0) /\ m \in 0..n
    BY <1>6
  <2>3. m - 1 \in Nat /\ m - 1 \in 0..(n - 1) /\ 2 * (m - 1) + 1 <= Len(s)
    BY <1>1
  <2>4. lo \in Octet /\ hi \in Octet /\ u = lo + ByteBase * hi
    BY <2>3, WordBytes
  <2>5. v = hi + ByteBase * lo
    BY <1>2, <2>3
  <2>6. f[m] = a + u /\ g[m] = b + v
    BY <1>3, <1>4
  <2>7. ByteBase * a = b + (W - 1) * h
    BY <2>1
  <2> HIDE DEF lo, hi, a, b, u, v
  <2>8. /\ u \in 0..(W - 1) /\ v \in 0..(W - 1) /\ (u = 0 <=> v = 0)
        /\ ByteBase * u = v + (W - 1) * hi
    <3>1. u \in 0..(W - 1) /\ (u = 0 <=> lo = 0 /\ hi = 0)
      BY <2>4, TwoBytes
    <3>2. v \in 0..(W - 1) /\ (v = 0 <=> hi = 0 /\ lo = 0)
      BY <2>4, <2>5, TwoBytes
    <3>3. ByteBase * u = v + (W - 1) * hi
      BY <2>4, <2>5, SwapIsTimes
    <3> QED
      BY <3>1, <3>2, <3>3
  <2>9. u \in Nat /\ v \in Nat /\ hi \in Nat /\ W - 1 \in Nat /\ ByteBase \in Nat
    BY <2>4, <2>8, WSize, ByteBaseAssumption DEF Octet
  <2>10. ByteBase * (a + u) = (b + v) + (W - 1) * (h + hi) /\ h + hi \in Nat
    <3> DEFINE K == W - 1
    <3>1. ByteBase * (a + u) = ByteBase * a + ByteBase * u
      BY <2>2, <2>9
    <3>2. K * (h + hi) = K * h + K * hi
      BY <2>9
    <3> DEFINE x == ByteBase * a
               y == ByteBase * u
               z == K * h
               w == K * hi
    <3>3. /\ z \in Nat /\ w \in Nat /\ x = b + z /\ y = v + w
          /\ ByteBase * (a + u) = x + y /\ K * (h + hi) = z + w
      BY <2>7, <2>8, <2>9, <3>1, <3>2
    <3> HIDE DEF x, y, z, w
    <3>4. x + y = (b + v) + (z + w)
      BY <2>2, <2>9, <3>3
    <3> QED
      BY <2>9, <3>3, <3>4
  <2>11. a + u \in Nat /\ b + v \in Nat /\ (a + u = 0 <=> b + v = 0)
    BY <2>2, <2>8, <2>9
  <2> QED
    BY <2>2, <2>6, <2>10, <2>11
<1>7. P \in SUBSET (0..n)
  OBVIOUS
<1> HIDE DEF P
<1>8. n \in P
  BY <1>1, <1>5, <1>6, <1>7, Induction
<1>9. WordSum(s) = f[n] /\ WordSum(t) = g[n]
  BY <1>2 DEF WordSum, f, g, n
<1> QED
  BY <1>8, <1>9 DEF P, t

\* The ones' complement sum of a buffer read in the other byte order is that of the buffer
\* with its own bytes swapped.
LEMMA SwappedValue ==
  ASSUME NEW s \in Seq(Octet)
  PROVE  OnesComplement(WordSum(Swapped(s))) = SwapWord(OnesComplement(WordSum(s)))
<1> DEFINE K == W - 1
           x == WordSum(s)
           y == WordSum(Swapped(s))
           w == OnesComplement(x)
           v == SwapWord(w)
<1>1. x \in Nat /\ y \in Nat /\ (x = 0 <=> y = 0)
  BY SwappedSum
<1>2. PICK h \in Nat : ByteBase * x = y + K * h
  BY SwappedSum
<1> HIDE DEF x, y
<1>3. w \in 0..K /\ (x = 0 <=> w = 0)
  BY <1>1, ValueOfSum
<1>4. PICK g \in Nat : x = w + K * g
  BY <1>1, ValueOfSum
<1> HIDE DEF w
<1>5. v \in 0..K /\ (v = 0 <=> w = 0)
  BY <1>3, SwapWordBytes
<1>6. PICK c \in Nat : ByteBase * w = v + K * c
  BY <1>3, SwapWordBytes
<1> HIDE DEF v
<1>7. K \in Nat /\ ByteBase \in Nat /\ w \in Nat /\ v \in Nat
  BY <1>3, <1>5, WSize, ByteBaseAssumption
<1> HIDE DEF K
<1>8. y + K * h = v + K * (c + ByteBase * g)
  <2>1. ByteBase * x = ByteBase * w + ByteBase * (K * g)
    BY <1>4, <1>7
  <2>2. ByteBase * (K * g) = K * (ByteBase * g)
    BY <1>7
  <2>3. K * (c + ByteBase * g) = K * c + K * (ByteBase * g)
    BY <1>7
  <2> DEFINE p == K * c
             q == K * (ByteBase * g)
  <2>4. p \in Nat /\ q \in Nat
    BY <1>7
  <2>5. y + K * h = (v + p) + q /\ K * (c + ByteBase * g) = p + q
    BY <1>2, <1>6, <2>1, <2>2, <2>3
  <2> HIDE DEF p, q
  <2> QED
    BY <1>7, <2>4, <2>5
<1>9. c + ByteBase * g \in Nat
  BY <1>7
<1>10. OnesComplement(y) = v
  <2> DEFINE e == c + ByteBase * g
  <2>1. e \in Nat /\ y + K * h = v + K * e
    BY <1>8, <1>9
  <2> HIDE DEF e
  <2> QED
    BY <1>1, <1>3, <1>5, <2>1, OneValue DEF K
<1> QED
  BY <1>10 DEF v, w, x, y

\* A host of either byte order may sum a buffer as it lies in memory, and store the result
\* as it comes.
THEOREM SumsInEitherOrder == Spec => []ByteOrderFree
<1>1. IInv /\ SumInv => ByteOrderFree
  BY BufferOfOctets, SwappedValue DEF IInv, Counters, SumInv, ResultIsSum, ByteOrderFree
<1> QED
  BY <1>1, IInvInvariant, SumInvariant, PTL

-----------------------------------------------------------------------------
(* The fields of a descriptor, bit by bit.                                 *)

\* Where bit b of a field's value lies in its header: the bits of the mask's first byte
\* come first, the others end at the top of the field's last byte.
BitAt(r, b) == 8 * r.byteoffset + IF b \in r.mask \cap 0..7 THEN b ELSE b + topShift(r)

Bits(r) == 0..(r.bitwidth - 1)

\* What the macros should do: read the bits at these positions, and write them only.
ReadsBits(r) ==
  \A h : /\ GET_INT32_AUTO(h, r) = {b \in Bits(r) : BitAt(r, b) \in h}
         /\ EXTRACT_INT32_BITS(h, r) = {b \in Bits(r) : BitAt(r, b) \in h}

WritesBits(r) ==
  \A h \in HeaderBits : \A v \in SUBSET Word :
    /\ MODIFY_INT32_INT32_BITS(h, r, v) \in HeaderBits
    /\ \A b \in Bits(r) : BitAt(r, b) \in MODIFY_INT32_INT32_BITS(h, r, v) <=> b \in v
    /\ \A p \in 0..159 : (\A b \in Bits(r) : p # BitAt(r, b))
                         => (p \in MODIFY_INT32_INT32_BITS(h, r, v) <=> p \in h)

-----------------------------------------------------------------------------
(* The checksum of a header.                                               *)

\* The words of a header but for its checksum, as calculate_ipv4_checksum reads them.
Rest(h) == SubSeq(h, 1, 10) \o SubSeq(h, 13, 20)

\* The bytes of the rest are those of the header.
LEMMA RestBytes ==
  ASSUME NEW h \in Seq(Octet), Len(h) = 20
  PROVE  /\ Rest(h) \in Seq(Octet) /\ Len(Rest(h)) = 18
         /\ \A i \in 1..18 : Rest(h)[i] = IF i <= 10 THEN h[i] ELSE h[i + 2]
<1> DEFINE a == SubSeq(h, 1, 10)
           b == SubSeq(h, 13, 20)
<1>1. \A i \in 1..20 : h[i] \in Octet
  BY ElementOfSeq
<1>2. a \in Seq(Octet) /\ Len(a) = 10 /\ \A i \in 1..10 : a[i] = h[i]
  <2>1. \A i \in 1..10 : h[i] \in Octet
    BY <1>1
  <2> QED
    BY <2>1, SubSeqProperties
<1>3. b \in Seq(Octet) /\ Len(b) = 8 /\ \A i \in 1..8 : b[i] = h[i + 12]
  <2>1. \A i \in 13..20 : h[i] \in Octet
    BY <1>1
  <2>2. b \in Seq(Octet) /\ Len(b) = 20 - 13 + 1 /\ \A i \in 1..(20 - 13 + 1) : b[i] = h[13 + i - 1]
    BY <2>1, SubSeqProperties
  <2> HIDE DEF b
  <2> QED
    BY <2>2
<1> HIDE DEF a, b
<1> DEFINE e == a \o b
<1>4. /\ e \in Seq(Octet) /\ Len(e) = Len(a) + Len(b)
      /\ \A i \in 1..(Len(a) + Len(b)) : e[i] = IF i <= Len(a) THEN a[i] ELSE b[i - Len(a)]
  BY <1>2, <1>3, ConcatProperties
<1> HIDE DEF e
<1>5. Len(e) = 18 /\ \A i \in 1..18 : e[i] = IF i <= 10 THEN a[i] ELSE b[i - 10]
  <2>1. Len(a) + Len(b) = 18
    BY <1>2, <1>3
  <2> QED
    BY <1>2, <1>4, <2>1
<1>6. ASSUME NEW i \in 1..18
      PROVE  e[i] = IF i <= 10 THEN h[i] ELSE h[i + 2]
  <2>1. CASE i <= 10
    <3>1. i \in 1..10
      BY <2>1
    <3> QED
      BY <1>2, <1>5, <2>1, <3>1
  <2>2. CASE i > 10
    <3>1. i - 10 \in 1..8 /\ (i - 10) + 12 = i + 2 /\ ~(i <= 10)
      BY <2>2
    <3>2. e[i] = b[i - 10] /\ b[i - 10] = h[(i - 10) + 12]
      BY <1>3, <1>5, <3>1
    <3> QED
      BY <3>1, <3>2
  <2>3. i <= 10 \/ i > 10
    OBVIOUS
  <2> QED
    BY <2>1, <2>2, <2>3
<1> QED
  BY <1>4, <1>5, <1>6 DEF Rest, a, b, e

\* The words of a header add up to those of the rest and the checksum.
LEMMA HeaderSum ==
  ASSUME NEW h \in Seq(Octet), Len(h) = 20
  PROVE  /\ hdrChecksumOf(h) \in 0..(W - 1)
         /\ WordSum(Rest(h)) \in 0..(9 * (W - 1))
         /\ WordSum(h) = WordSum(Rest(h)) + hdrChecksumOf(h)
<1> DEFINE r == Rest(h)
           f == SumTo(h)
           g == SumTo(r)
           w(i) == WordAt(h, i)
           v(i) == WordAt(r, i)
<1>1. /\ r \in Seq(Octet) /\ Len(r) = 18
      /\ \A i \in 1..18 : r[i] = IF i <= 10 THEN h[i] ELSE h[i + 2]
  BY RestBytes
<1> HIDE DEF r
<1>2. W \in Nat
  BY WSize
<1>3. Words(h) = 10 /\ Words(r) = 9
  BY <1>1 DEF Words
<1>4. ASSUME NEW i \in 0..9 PROVE w(i) \in 0..(W - 1)
  <2>1. i \in Nat /\ 2 * i + 1 <= Len(h)
    OBVIOUS
  <2> QED
    BY <2>1, WordBound
<1>5. \A i \in 0..4 : v(i) = w(i)
  <2> SUFFICES ASSUME NEW i \in 0..4 PROVE v(i) = w(i)
    OBVIOUS
  <2>1. 2 * i + 1 \in 1..10 /\ 2 * i + 2 \in 1..10
    OBVIOUS
  <2>2. r[2 * i + 1] = h[2 * i + 1] /\ r[2 * i + 2] = h[2 * i + 2]
    BY <1>1, <2>1
  <2> QED
    BY <1>1, <2>1, <2>2 DEF WordAt
<1>6. \A i \in 5..8 : v(i) = w(i + 1)
  <2> SUFFICES ASSUME NEW i \in 5..8 PROVE v(i) = w(i + 1)
    OBVIOUS
  <2>1. /\ 2 * i + 1 \in 11..18 /\ 2 * i + 2 \in 11..18
        /\ 2 * (i + 1) + 1 = (2 * i + 1) + 2 /\ 2 * (i + 1) + 2 = (2 * i + 2) + 2
    OBVIOUS
  <2>2. r[2 * i + 1] = h[2 * (i + 1) + 1] /\ r[2 * i + 2] = h[2 * (i + 1) + 2]
    BY <1>1, <2>1
  <2> QED
    BY <1>1, <2>1, <2>2 DEF WordAt
<1>7. w(5) = hdrChecksumOf(h)
  BY DEF WordAt, hdrChecksumOf
<1>8. /\ f[0] = 0
      /\ \A i \in 1..10 : f[i] = f[i - 1] + w(i - 1)
      /\ \A i \in 0..10 : f[i] \in Nat
  BY <1>3, SumToDefined
<1>9. /\ g[0] = 0
      /\ \A i \in 1..9 : g[i] = g[i - 1] + v(i - 1)
      /\ \A i \in 0..9 : g[i] \in Nat
  BY <1>1, <1>3, SumToDefined
<1> HIDE DEF f, g, w, v
<1>10. \A i \in 0..9 : w(i) \in Int
  BY <1>2, <1>4
<1>11. f[10] = g[9] + w(5)
  <2> DEFINE P == {i \in 0..5 : f[i] = g[i]}
             Q == {i \in 0..4 : f[i + 6] = g[i + 5] + w(5)}
  <2>1. ASSUME NEW i \in 1..5, i - 1 \in P PROVE i \in P
    <3>1. i \in 1..10 /\ i \in 1..9 /\ i - 1 \in 0..4
      OBVIOUS
    <3>2. f[i] = f[i - 1] + w(i - 1) /\ g[i] = g[i - 1] + v(i - 1)
      BY <1>8, <1>9, <3>1
    <3>3. v(i - 1) = w(i - 1)
      BY <1>5, <3>1
    <3> QED
      BY <2>1, <3>2, <3>3
  <2>2. 0 \in P
    BY <1>8, <1>9
  <2>3. 5 \in P
    <3> HIDE DEF P
    <3>1. P \in SUBSET (0..5)
      BY DEF P
    <3> QED
      BY <2>1, <2>2, <3>1, Induction
  <2>4. 0 \in Q
    <3>1. f[6] = f[5] + w(5)
      BY <1>8
    <3> QED
      BY <2>3, <3>1
  <2>5. ASSUME NEW i \in 1..4, i - 1 \in Q PROVE i \in Q
    <3>1. /\ i + 6 \in 1..10 /\ i + 5 \in 1..9 /\ i + 4 \in 5..8 /\ i + 4 \in 0..9
          /\ (i + 6) - 1 = (i - 1) + 6 /\ (i + 5) - 1 = (i - 1) + 5 /\ (i + 4) + 1 = (i - 1) + 6
          /\ (i - 1) + 5 = i + 4
      OBVIOUS
    <3>2. f[i + 6] = f[(i - 1) + 6] + w((i - 1) + 6) /\ g[i + 5] = g[(i - 1) + 5] + v(i + 4)
      BY <1>8, <1>9, <3>1
    <3>3. v(i + 4) = w((i - 1) + 6) /\ f[(i - 1) + 6] = g[(i - 1) + 5] + w(5)
      BY <1>6, <2>5, <3>1
    <3>4. g[(i - 1) + 5] \in Int /\ w(5) \in Int /\ w((i - 1) + 6) \in Int
      <4>1. (i - 1) + 5 \in 0..9 /\ (i - 1) + 6 \in 0..9 /\ 5 \in 0..9
        OBVIOUS
      <4>2. g[(i - 1) + 5] \in Nat
        BY <1>9, <4>1
      <4>3. w(5) \in Int /\ w((i - 1) + 6) \in Int
        BY <1>10, <4>1
      <4> QED
        BY <4>2, <4>3
    <3>5. f[i + 6] = g[i + 5] + w(5)
      BY <3>2, <3>3, <3>4
    <3> QED
      BY <3>5
  <2>6. 4 \in Q
    <3> HIDE DEF Q
    <3>1. Q \in SUBSET (0..4)
      BY DEF Q
    <3> QED
      BY <2>4, <2>5, <3>1, Induction
  <2> QED
    BY <2>6
<1>12. g[9] \in 0..(9 * (W - 1))
  <2> DEFINE m == W - 1
             P == {i \in 0..9 : g[i] <= i * m}
  <2>1. m \in Nat
    BY WSize
  <2>2. \A i \in 0..8 : v(i) \in 0..m
    <3> SUFFICES ASSUME NEW i \in 0..8 PROVE v(i) \in 0..m
      OBVIOUS
    <3>1. i \in 0..4 \/ (i \in 5..8 /\ i + 1 \in 0..9)
      OBVIOUS
    <3> QED
      BY <1>4, <1>5, <1>6, <3>1
  <2> HIDE DEF m
  <2>3. 0 \in P
    BY <1>9, <2>1
  <2>4. ASSUME NEW i \in 1..9, i - 1 \in P PROVE i \in P
    <3>1. i - 1 \in Nat /\ (i - 1) + 1 = i
      OBVIOUS
    <3>2. (i - 1) * m \in Nat /\ i * m = (i - 1) * m + m
      BY <2>1, <3>1, Times
    <3>3. g[i] = g[i - 1] + v(i - 1) /\ v(i - 1) \in 0..m /\ g[i - 1] \in Nat /\ g[i - 1] <= (i - 1) * m
      <4>1. i - 1 \in 0..8 /\ i - 1 \in 0..9
        OBVIOUS
      <4>2. v(i - 1) \in 0..m
        BY <2>2, <4>1
      <4>3. g[i] = g[i - 1] + v(i - 1) /\ g[i - 1] \in Nat
        BY <1>9, <4>1
      <4> QED
        BY <2>4, <4>2, <4>3
    <3>4. g[i] <= i * m
      BY <2>1, <3>2, <3>3
    <3> QED
      BY <3>4
  <2>5. 9 \in P
    <3> HIDE DEF P
    <3>1. P \in SUBSET (0..9)
      BY DEF P
    <3> QED
      BY <2>3, <2>4, <3>1, Induction
  <2>6. g[9] <= 9 * m /\ g[9] \in Nat
    BY <1>9, <2>5
  <2>7. 9 * m \in Nat
    BY <2>1
  <2> QED
    BY <2>6, <2>7 DEF m
<1>13. WordSum(h) = f[10] /\ WordSum(r) = g[9]
  BY <1>3 DEF WordSum, f, g
<1>14. w(5) \in 0..(W - 1)
  BY <1>4
<1> QED
  BY <1>7, <1>11, <1>12, <1>13, <1>14 DEF r

\* What completes a sum to all ones: never 0, and one number only.
LEMMA Completes ==
  ASSUME NEW s \in Nat, NEW r \in 0..(W - 1), NEW g \in Nat, s = r + (W - 1) * g,
         NEW c, c = IF r = W - 1 THEN r ELSE W - 1 - r, s = 0 <=> r = 0
  PROVE  /\ c \in 1..(W - 1)
         /\ OnesComplement(s + c) = W - 1
         /\ \A d \in 1..(W - 1) : OnesComplement(s + d) = W - 1 => d = c
<1>1. W \in Nat /\ W > 1
  BY WSize
<1>2. c \in 1..(W - 1)
  BY <1>1
<1>3. \A k \in Nat : (W - 1) * (k + 1) = (W - 1) * k + (W - 1)
  BY <1>1
<1>4. (W - 1) * g \in Nat
  BY <1>1
<1>5. \E k \in Nat : s + c = (W - 1) + (W - 1) * k
  <2>1. CASE r = W - 1
    <3>1. s + c = (W - 1) + (W - 1) * (g + 1)
      BY <1>1, <1>3, <1>4, <2>1
    <3> QED
      BY <3>1
  <2>2. CASE r # W - 1
    <3>1. s + c = (W - 1) + (W - 1) * g
      BY <1>1, <1>4, <2>2
    <3> QED
      BY <3>1
  <2> QED
    BY <2>1, <2>2
<1>6. OnesComplement(s + c) = W - 1
  <2>1. PICK k \in Nat : s + c = (W - 1) + (W - 1) * k
    BY <1>5
  <2>2. s + c \in Nat /\ s + c # 0 /\ W - 1 \in 0..(W - 1) /\ W - 1 # 0
    BY <1>1, <1>2
  <2>3. (s + c) + (W - 1) * 0 = (W - 1) + (W - 1) * k
    BY <1>1, <2>1, <2>2
  <2> HIDE DEF OnesComplement
  <2> QED
    BY <2>2, <2>3, OneValue
<1>7. ASSUME NEW d \in 1..(W - 1), OnesComplement(s + d) = W - 1
      PROVE  d = c
  <2>1. s + d \in Nat /\ d \in Nat /\ c \in Nat
    BY <1>1, <1>2
  <2>2. PICK k \in Nat : s + d = (W - 1) + (W - 1) * k
    BY <1>7, <2>1, ValueOfSum
  <2>3. PICK l \in Nat : s + c = (W - 1) + (W - 1) * l
    BY <1>5
  <2>4. /\ k < l => (W - 1) * (k + 1) <= (W - 1) * l
        /\ l < k => (W - 1) * (l + 1) <= (W - 1) * k
    BY <1>1
  <2>5. (W - 1) * k \in Nat /\ (W - 1) * l \in Nat
    BY <1>1
  <2>6. /\ (W - 1) * (k + 1) = (W - 1) * k + (W - 1)
        /\ (W - 1) * (l + 1) = (W - 1) * l + (W - 1)
    BY <1>3
  <2>7. ~(k < l) /\ ~(l < k)
    BY <1>1, <1>2, <2>2, <2>3, <2>4, <2>5, <2>6
  <2>8. k = l
    BY <2>7
  <2> QED
    BY <2>1, <2>2, <2>3, <2>5, <2>8
<1> QED
  BY <1>2, <1>6, <1>7

\* The checksum calculate_ipv4_checksum finds is the one that completes the rest.
LEMMA ChecksumCompletes ==
  ASSUME NEW h \in Seq(Octet), Len(h) = 20, ByteBase >= 3
  PROVE  /\ calculate_ipv4_checksum(h) \in 1..(W - 1)
         /\ OnesComplement(WordSum(Rest(h)) + calculate_ipv4_checksum(h)) = W - 1
         /\ \A d \in 1..(W - 1) :
              OnesComplement(WordSum(Rest(h)) + d) = W - 1 => d = calculate_ipv4_checksum(h)
<1> DEFINE s == WordSum(Rest(h))
           r == Fold(Fold(s))
           c == calculate_ipv4_checksum(h)
<1>1. s \in 0..(9 * (W - 1)) /\ W \in Nat /\ W > 1
  BY HeaderSum, WSize
<1>2. 9 * (W - 1) <= W * W - 1
  <2>1. W >= 9
    <3>1. ByteBase * ByteBase >= 3 * ByteBase
      BY ByteBaseAssumption
    <3> QED
      BY <3>1, ByteBaseAssumption DEF W
  <2>2. W * W >= 9 * W
    BY <1>1, <2>1
  <2> QED
    BY <1>1, <2>2
<1> HIDE DEF s
<1>3. s \in 0..(W * W - 1) /\ s \in Nat
  BY <1>1, <1>2
<1>4. r \in 0..(W - 1) /\ r = OnesComplement(s)
  BY <1>3, TwoFolds
<1>5. c = IF r = W - 1 THEN r ELSE W - 1 - r
  BY DEF calculate_ipv4_checksum, csum16_add, calculate_csum16, s, Rest
<1> HIDE DEF r, c
<1>6. s = 0 <=> r = 0
  BY <1>3, <1>4, ValueOfSum
<1>7. PICK g \in Nat : s = r + (W - 1) * g
  BY <1>3, <1>4, ValueOfSum
<1>8. /\ c \in 1..(W - 1)
      /\ OnesComplement(s + c) = W - 1
      /\ \A d \in 1..(W - 1) : OnesComplement(s + d) = W - 1 => d = c
  <2>1. s \in Nat /\ r \in 0..(W - 1)
    BY <1>3, <1>4
  <2> QED
    BY <1>5, <1>6, <1>7, <2>1, Completes
<1> QED
  BY <1>8 DEF s, c

\* A header with the checksum calculated for it adds up to all ones, and has no other byte
\* changed.
LEMMA ChecksumWritten ==
  ASSUME NEW h \in Seq(Octet), Len(h) = 20, ByteBase >= 3,
         NEW u, u = WithChecksum(h, calculate_ipv4_checksum(h))
  PROVE  /\ u \in Seq(Octet) /\ Len(u) = 20
         /\ \A i \in (1..20) \ {11, 12} : u[i] = h[i]
         /\ OnesComplement(WordSum(u)) = W - 1
<1> DEFINE c == calculate_ipv4_checksum(h)
           lo == c % ByteBase
           hi == (c \div ByteBase) % ByteBase
<1>1. c \in 1..(W - 1) /\ OnesComplement(WordSum(Rest(h)) + c) = W - 1
  BY ChecksumCompletes
<1>2. u = [h EXCEPT ![11] = lo, ![12] = hi]
  BY DEF WithChecksum
<1> HIDE DEF c
<1>3. ByteBase \in Nat /\ ByteBase > 1 /\ W = ByteBase * ByteBase /\ c \in Nat /\ c < W
  BY <1>1, WSize, ByteBaseAssumption DEF W
<1>4. lo \in Octet /\ hi \in Octet /\ c = lo + ByteBase * hi
  <2>1. /\ c \div ByteBase \in Nat /\ lo \in 0..(ByteBase - 1)
        /\ c = ByteBase * (c \div ByteBase) + lo
    BY <1>3, DivMod
  <2>2. c \div ByteBase < ByteBase
    <3> DEFINE q == c \div ByteBase
    <3>1. q \in Nat /\ ByteBase * q <= c
      BY <1>3, <2>1
    <3> HIDE DEF q
    <3>2. q >= ByteBase => ByteBase * q >= ByteBase * ByteBase
      BY <1>3, <3>1
    <3>3. q < ByteBase
      BY <1>3, <3>1, <3>2
    <3> QED
      BY <3>3 DEF q
  <2>3. hi = c \div ByteBase
    <3> DEFINE q == c \div ByteBase
    <3>1. q \in 0..(ByteBase - 1)
      BY <1>3, <2>1, <2>2
    <3> HIDE DEF q
    <3>2. (ByteBase * 0 + q) % ByteBase = q
      BY <1>3, <3>1, DivModUnique
    <3>3. ByteBase * 0 + q = q
      BY <1>3, <3>1
    <3> QED
      BY <3>2, <3>3 DEF q
  <2> HIDE DEF lo
  <2> QED
    BY <1>3, <2>1, <2>2, <2>3 DEF Octet
<1> HIDE DEF lo, hi
<1>5. DOMAIN h = 1..20
  BY LenProperties
<1>6. (\A i \in (1..20) \ {11, 12} : u[i] = h[i]) /\ u[11] = lo /\ u[12] = hi
  BY <1>2, <1>5
<1>7. u \in Seq(Octet) /\ Len(u) = 20
  <2>1. \A i \in 1..20 : h[i] \in Octet
    BY ElementOfSeq
  <2>2. \A i \in 1..20 : u[i] \in Octet
    BY <1>4, <1>6, <2>1
  <2>3. u \in [1..20 -> Octet]
    BY <1>2, <1>5, <2>2
  <2>4. u \in Seq(Octet)
    BY <2>3, SeqDef
  <2> QED
    BY <2>3, <2>4, LenProperties
<1>8. hdrChecksumOf(u) = c
  BY <1>4, <1>6 DEF hdrChecksumOf
<1>9. Rest(u) = Rest(h)
  <2>1. /\ Rest(h) \in Seq(Octet) /\ Len(Rest(h)) = 18
        /\ \A i \in 1..18 : Rest(h)[i] = IF i <= 10 THEN h[i] ELSE h[i + 2]
    BY RestBytes
  <2>2. /\ Rest(u) \in Seq(Octet) /\ Len(Rest(u)) = 18
        /\ \A i \in 1..18 : Rest(u)[i] = IF i <= 10 THEN u[i] ELSE u[i + 2]
    BY <1>7, RestBytes
  <2>3. \A i \in 1..18 : Rest(u)[i] = Rest(h)[i]
    <3> SUFFICES ASSUME NEW i \in 1..18 PROVE Rest(u)[i] = Rest(h)[i]
      OBVIOUS
    <3>1. CASE i <= 10
      <4>1. i \in (1..20) \ {11, 12}
        BY <3>1
      <4> QED
        BY <1>6, <2>1, <2>2, <3>1, <4>1
    <3>2. CASE i > 10
      <4>1. i + 2 \in (1..20) \ {11, 12}
        BY <3>2
      <4> QED
        BY <1>6, <2>1, <2>2, <3>2, <4>1
    <3> QED
      BY <3>1, <3>2
  <2> QED
    BY <2>1, <2>2, <2>3, SeqEqual
<1>10. WordSum(u) = WordSum(Rest(h)) + c
  BY <1>7, <1>8, <1>9, HeaderSum
<1> QED
  BY <1>1, <1>6, <1>7, <1>10

\* verify_packet drops exactly the headers that do not add up to all ones, and those with
\* a checksum of 0.
LEMMA ChecksumVerified ==
  ASSUME NEW h \in Seq(Octet), Len(h) = 20, ByteBase >= 3
  PROVE  IsCorrupt(h) <=> ~(OnesComplement(WordSum(h)) = W - 1 /\ hdrChecksumOf(h) # 0)
<1> DEFINE c == calculate_ipv4_checksum(h)
           d == hdrChecksumOf(h)
           s == WordSum(Rest(h))
<1>1. /\ c \in 1..(W - 1) /\ OnesComplement(s + c) = W - 1
      /\ \A e \in 1..(W - 1) : OnesComplement(s + e) = W - 1 => e = c
  BY ChecksumCompletes
<1>2. d \in 0..(W - 1) /\ WordSum(h) = s + d /\ W \in Nat
  BY HeaderSum, WSize
<1>3. IsCorrupt(h) <=> d # c
  BY DEF IsCorrupt
<1> HIDE DEF c, d, s
<1>4. d # 0 => d \in 1..(W - 1)
  BY <1>2
<1>5. c # 0
  BY <1>1, <1>2
<1> QED
  BY <1>1, <1>2, <1>3, <1>4, <1>5 DEF d

-----------------------------------------------------------------------------
(* Reading.                                                                *)

\* The two shapes of a row: a port of 9 bits, of which the last lie in the top of the byte
\* after the first, or one, two or four whole bytes.
PortRow(r, off) == /\ r.bitwidth = 9 /\ r.bitoffset = off /\ r.byteoffset \in 0..18
                   /\ r.mask = (0..(7 - off)) \cup ((15 - off)..15)
WholeRow(r, w)  == /\ r.bitwidth = w /\ r.bitoffset = 0 /\ r.byteoffset \in 0..16
                   /\ r.mask = 0..(w - 1)

LEMMA PortMask ==
  ASSUME NEW off \in 0..2, NEW m, m = (0..(7 - off)) \cup ((15 - off)..15)
  PROVE  /\ m \cap 0..7 = 0..(7 - off) /\ m \cap 8..7 = {}
         /\ m \cap {b \in 0..31 : b - 8 \in 0..7} = (15 - off)..15
         /\ \A b \in 0..8 : b \in m \cap 0..7 <=> b <= 7 - off
OBVIOUS

LEMMA WholeMask ==
  ASSUME NEW w \in {8, 16, 32}, NEW m, m = 0..(w - 1)
  PROVE  /\ m \cap 0..7 = 0..7 /\ m \cap 8..((w - 8) - 1) = 8..(w - 9)
         /\ m \cap {b \in 0..31 : b - (w - 8) \in 0..7} = (w - 8)..(w - 1)
<1>1. CASE w = 8
  BY <1>1
<1>2. CASE w = 16
  BY <1>2
<1>3. CASE w = 32
  BY <1>3
<1> QED
  BY <1>1, <1>2, <1>3

\* What the macros work out of a port's row.
LEMMA PortNumbersOf ==
  ASSUME NEW off \in 0..2, NEW r, PortRow(r, off)
  PROVE  /\ bytecount(r) = 2 /\ topShift(r) = 7
         /\ BITS_MASK1(r) = 0..(7 - off) /\ BITS_MASK2(r) = {} /\ BITS_MASK3(r) = (15 - off)..15
         /\ \A b \in 0..8 : BitAt(r, b) = 8 * r.byteoffset + IF b <= 7 - off THEN b ELSE b + 7
<1>1. off = 0 \/ off = 1 \/ off = 2
  OBVIOUS
<1>2. bytecount(r) = 2 /\ lastByte(r) = 8
  BY <1>1 DEF PortRow, bytecount, lastByte, FIELD_BITCOUNT
<1>3. topShift(r) = 7
  BY <1>2 DEF PortRow, topShift
<1>4. /\ r.mask \cap 0..7 = 0..(7 - off) /\ r.mask \cap 8..7 = {}
      /\ r.mask \cap {b \in 0..31 : b - 8 \in 0..7} = (15 - off)..15
      /\ \A b \in 0..8 : b \in r.mask \cap 0..7 <=> b <= 7 - off
  BY PortMask DEF PortRow
<1>5. BITS_MASK1(r) = 0..(7 - off)
  BY <1>4 DEF BITS_MASK1
<1>6. BITS_MASK2(r) = {}
  <2>1. lastByte(r) - 1 = 7
    BY <1>2
  <2> QED
    BY <1>4, <2>1 DEF BITS_MASK2
<1>7. BITS_MASK3(r) = (15 - off)..15
  BY <1>2, <1>4 DEF BITS_MASK3, shl, Word
<1>8. \A b \in 0..8 : BitAt(r, b) = 8 * r.byteoffset + IF b <= 7 - off THEN b ELSE b + 7
  BY <1>3, <1>4 DEF BitAt
<1> QED
  BY <1>2, <1>3, <1>5, <1>6, <1>7, <1>8

\* And of a row of whole bytes.
LEMMA WholeNumbersOf ==
  ASSUME NEW w \in {8, 16, 32}, NEW r, WholeRow(r, w)
  PROVE  /\ bytecount(r) = w \div 8 /\ topShift(r) = 0 /\ FIELD_BITCOUNT(r) = w
         /\ BITS_MASK1(r) = 0..7 /\ BITS_MASK2(r) = 8..(w - 9) /\ BITS_MASK3(r) = (w - 8)..(w - 1)
         /\ \A b \in 0..(w - 1) : BitAt(r, b) = 8 * r.byteoffset + b
<1>1. w = 8 \/ w = 16 \/ w = 32
  OBVIOUS
<1>2. bytecount(r) = w \div 8 /\ lastByte(r) = w - 8 /\ FIELD_BITCOUNT(r) = w
  BY <1>1 DEF WholeRow, bytecount, lastByte, FIELD_BITCOUNT
<1>3. topShift(r) = 0
  BY <1>1, <1>2 DEF WholeRow, topShift
<1>4. /\ r.mask \cap 0..7 = 0..7 /\ r.mask \cap 8..((w - 8) - 1) = 8..(w - 9)
      /\ r.mask \cap {b \in 0..31 : b - (w - 8) \in 0..7} = (w - 8)..(w - 1)
  BY WholeMask DEF WholeRow
<1>5. BITS_MASK1(r) = 0..7
  BY <1>4 DEF BITS_MASK1
<1>6. BITS_MASK2(r) = 8..(w - 9)
  BY <1>2, <1>4 DEF BITS_MASK2
<1>7. BITS_MASK3(r) = (w - 8)..(w - 1)
  BY <1>2, <1>4 DEF BITS_MASK3, shl, Word
<1>8. \A b \in 0..(w - 1) : BitAt(r, b) = 8 * r.byteoffset + b
  BY <1>3 DEF BitAt, WholeRow
<1> QED
  BY <1>2, <1>3, <1>5, <1>6, <1>7, <1>8

\* Reading a port.
LEMMA PortReads == ASSUME NEW off \in 0..2, NEW r, PortRow(r, off) PROVE ReadsBits(r)
<1> SUFFICES ASSUME NEW h
             PROVE  /\ GET_INT32_AUTO(h, r) = {b \in Bits(r) : BitAt(r, b) \in h}
                    /\ EXTRACT_INT32_BITS(h, r) = {b \in Bits(r) : BitAt(r, b) \in h}
  BY DEF ReadsBits
<1> DEFINE at == r.byteoffset
           bytes == FIELD_BYTES(h, r)
           low == bytes \cap (0..(7 - off))
           high == shr(bytes \cap ((15 - off)..15), 7)
           bits == {b \in 0..8 : BitAt(r, b) \in h}
<1>1. /\ bytecount(r) = 2 /\ topShift(r) = 7
      /\ BITS_MASK1(r) = 0..(7 - off) /\ BITS_MASK2(r) = {} /\ BITS_MASK3(r) = (15 - off)..15
      /\ \A b \in 0..8 : BitAt(r, b) = 8 * at + IF b <= 7 - off THEN b ELSE b + 7
  BY PortNumbersOf
<1>2. bytes = {b \in 0..15 : 8 * at + b \in h}
  BY <1>1 DEF FIELD_BYTES, BitsAt
<1>3. GET_INT32_AUTO(h, r) = low \cup shr({}, r.bitoffset) \cup high
  <2>1. bytes \cap {} = {}
    OBVIOUS
  <2> HIDE DEF bytes
  <2>2. GET_INT32_AUTO(h, r) = (bytes \cap BITS_MASK1(r))
                               \cup shr(bytes \cap BITS_MASK2(r), r.bitoffset)
                               \cup shr(bytes \cap BITS_MASK3(r), topShift(r))
    BY <1>1 DEF GET_INT32_AUTO, bytes
  <2> QED
    BY <1>1, <2>1, <2>2
<1>4. EXTRACT_INT32_BITS(h, r) = low \cup high
  <2> HIDE DEF bytes
  <2>1. EXTRACT_INT32_BITS(h, r) = (bytes \cap BITS_MASK1(r))
                                   \cup shr(bytes \cap BITS_MASK3(r), topShift(r))
    BY <1>1 DEF EXTRACT_INT32_BITS, bytes
  <2> QED
    BY <1>1, <2>1
<1>5. shr({}, r.bitoffset) = {}
  BY DEF shr
<1> HIDE DEF bytes, at
<1>6. \A b \in 0..8 : b \in low \cup high <=> BitAt(r, b) \in h
  <2> SUFFICES ASSUME NEW b \in 0..8 PROVE b \in low \cup high <=> BitAt(r, b) \in h
    OBVIOUS
  <2>1. CASE b <= 7 - off
    <3>1. b \in 0..15 /\ b \in 0..(7 - off) /\ b + 7 \notin (15 - off)..15
      BY <2>1
    <3>2. b \in low \cup high <=> b \in bytes
      BY <3>1 DEF shr
    <3>3. BitAt(r, b) = 8 * at + b
      BY <1>1, <2>1
    <3> QED
      BY <1>2, <3>1, <3>2, <3>3
  <2>2. CASE ~ (b <= 7 - off)
    <3>1. b + 7 \in 0..15 /\ b \notin 0..(7 - off) /\ b + 7 \in (15 - off)..15 /\ b \in Word
      BY <2>2 DEF Word
    <3>2. b \in low \cup high <=> b + 7 \in bytes
      BY <3>1 DEF shr
    <3>3. BitAt(r, b) = 8 * at + (b + 7)
      BY <1>1, <2>2
    <3> QED
      BY <1>2, <3>1, <3>2, <3>3
  <2> QED
    BY <2>1, <2>2
<1>7. low \cup high \subseteq 0..8
  BY DEF shr, Word
<1> HIDE DEF low, high
<1>8. low \cup high = bits
  BY <1>6, <1>7
<1>9. Bits(r) = 0..8
  BY DEF Bits, PortRow
<1> QED
  BY <1>3, <1>4, <1>5, <1>8, <1>9

\* Reading whole bytes.
LEMMA WholeReads == ASSUME NEW w \in {8, 16, 32}, NEW r, WholeRow(r, w) PROVE ReadsBits(r)
<1> SUFFICES ASSUME NEW h
             PROVE  /\ GET_INT32_AUTO(h, r) = {b \in Bits(r) : BitAt(r, b) \in h}
                    /\ EXTRACT_INT32_BITS(h, r) = {b \in Bits(r) : BitAt(r, b) \in h}
  BY DEF ReadsBits
<1> DEFINE at == r.byteoffset
           bytes == FIELD_BYTES(h, r)
           bits == {b \in 0..(w - 1) : 8 * at + b \in h}
<1>1. /\ bytecount(r) = w \div 8 /\ topShift(r) = 0 /\ FIELD_BITCOUNT(r) = w
      /\ BITS_MASK1(r) = 0..7 /\ BITS_MASK2(r) = 8..(w - 9) /\ BITS_MASK3(r) = (w - 8)..(w - 1)
      /\ \A b \in 0..(w - 1) : BitAt(r, b) = 8 * at + b
  BY WholeNumbersOf
<1>2. w = 8 \/ w = 16 \/ w = 32
  OBVIOUS
<1>3. bytes = bits
  <2>1. CASE w = 8
    BY <1>1, <2>1 DEF FIELD_BYTES, BitsAt
  <2>2. CASE w = 16
    BY <1>1, <2>2 DEF FIELD_BYTES, BitsAt
  <2>3. CASE w = 32
    BY <1>1, <2>3 DEF FIELD_BYTES, BitsAt
  <2> QED
    BY <1>2, <2>1, <2>2, <2>3
<1>4. {b \in Bits(r) : BitAt(r, b) \in h} = bits
  BY <1>1 DEF Bits, WholeRow
<1>5. ASSUME NEW x, x \subseteq Word PROVE shr(x, 0) = x
  <2>1. \A b \in Word : b + 0 = b
    BY DEF Word
  <2>2. shr(x, 0) = {b \in Word : b \in x}
    BY <2>1 DEF shr
  <2> QED
    BY <1>5, <2>2
<1>6. r.bitoffset = 0 /\ r.mask = 0..(w - 1)
  BY DEF WholeRow
<1>7. bits \subseteq 0..(w - 1)
  OBVIOUS
<1> HIDE DEF bits
<1>8. CASE w = 8
  <2>1. GET_INT32_AUTO(h, r) = shr(bytes \cap r.mask, 8 - FIELD_BITCOUNT(r))
    BY <1>1, <1>8 DEF GET_INT32_AUTO
  <2>2. EXTRACT_INT32_BITS(h, r) = GET_INT32_AUTO(h, r)
    BY <1>1, <1>8 DEF EXTRACT_INT32_BITS
  <2>3. bytes \cap r.mask = bits /\ bits \subseteq Word /\ 8 - FIELD_BITCOUNT(r) = 0
    <3>1. bytes \cap r.mask = bits
      BY <1>3, <1>6, <1>7
    <3>2. 0..(w - 1) \subseteq Word
      BY <1>8 DEF Word
    <3> QED
      BY <1>1, <1>7, <1>8, <3>1, <3>2
  <2> HIDE DEF bytes
  <2>4. shr(bytes \cap r.mask, 8 - FIELD_BITCOUNT(r)) = bits
    BY <1>5, <2>3
  <2> QED
    BY <1>4, <2>1, <2>2, <2>4
<1>9. CASE w \in {16, 32}
  <2>1. GET_INT32_AUTO(h, r) = (bytes \cap BITS_MASK1(r))
                               \cup shr(bytes \cap BITS_MASK2(r), r.bitoffset)
                               \cup shr(bytes \cap BITS_MASK3(r), topShift(r))
    BY <1>1, <1>9 DEF GET_INT32_AUTO
  <2>2. w = 16 => EXTRACT_INT32_BITS(h, r) = (bytes \cap BITS_MASK1(r))
                                             \cup shr(bytes \cap BITS_MASK3(r), topShift(r))
    BY <1>1 DEF EXTRACT_INT32_BITS
  <2>3. w = 32 => EXTRACT_INT32_BITS(h, r) = GET_INT32_AUTO(h, r)
    BY <1>1 DEF EXTRACT_INT32_BITS
  <2>4. bytes \cap BITS_MASK2(r) \subseteq Word /\ bytes \cap BITS_MASK3(r) \subseteq Word
    BY <1>1, <1>3, <1>7 DEF Word
  <2> HIDE DEF bytes
  <2>5. /\ shr(bytes \cap BITS_MASK2(r), r.bitoffset) = bits \cap 8..(w - 9)
        /\ shr(bytes \cap BITS_MASK3(r), topShift(r)) = bits \cap (w - 8)..(w - 1)
    BY <1>1, <1>3, <1>5, <1>6, <2>4
  <2>6. bits = (bits \cap 0..7) \cup (bits \cap 8..(w - 9)) \cup (bits \cap (w - 8)..(w - 1))
    <3>1. \A b \in 0..(w - 1) : b \in 0..7 \/ b \in 8..(w - 9) \/ b \in (w - 8)..(w - 1)
      BY <1>9
    <3> QED
      BY <1>7, <3>1, Zenon
  <2>7. GET_INT32_AUTO(h, r) = bits
    BY <1>1, <1>3, <2>1, <2>5, <2>6
  <2>8. w = 16 => bits = (bits \cap 0..7) \cup (bits \cap (w - 8)..(w - 1))
    <3>1. w = 16 => \A b \in 0..(w - 1) : b \in 0..7 \/ b \in (w - 8)..(w - 1)
      OBVIOUS
    <3> QED
      BY <1>7, <3>1, Zenon
  <2>9. EXTRACT_INT32_BITS(h, r) = bits
    BY <1>1, <1>3, <1>9, <2>2, <2>3, <2>5, <2>7, <2>8
  <2> QED
    BY <1>4, <2>7, <2>9
<1> QED
  BY <1>2, <1>8, <1>9


-----------------------------------------------------------------------------
(* Writing.                                                                *)

\* What is merged into the bytes of a field: the value's bits where BitAt says, and the bytes
\* themselves elsewhere.
MergesBits(r) ==
  LET from == 8 * r.byteoffset
      size == 8 * bytecount(r)
  IN  /\ from \in Nat /\ size \in Nat /\ from + size <= 160
      /\ \A b \in Bits(r) : BitAt(r, b) \in Int /\ BitAt(r, b) - from \in 0..(size - 1)
      /\ \A q \in r.mask : \E b \in Bits(r) : BitAt(r, b) = from + q
      /\ \A h : \A v \in SUBSET Word :
           /\ \A b \in Bits(r) : (BitAt(r, b) - from \in Merged(h, r, v)) <=> b \in v
           /\ \A q \in 0..(size - 1) : q \notin r.mask
                                       => (q \in Merged(h, r, v) <=> from + q \in h)

LEMMA MergedIsWritten == ASSUME NEW r, MergesBits(r) PROVE WritesBits(r)
<1> SUFFICES ASSUME NEW h \in HeaderBits, NEW v \in SUBSET Word
             PROVE  /\ MODIFY_INT32_INT32_BITS(h, r, v) \in HeaderBits
                    /\ \A b \in Bits(r) :
                         BitAt(r, b) \in MODIFY_INT32_INT32_BITS(h, r, v) <=> b \in v
                    /\ \A p \in 0..159 : (\A b \in Bits(r) : p # BitAt(r, b))
                         => (p \in MODIFY_INT32_INT32_BITS(h, r, v) <=> p \in h)
  BY DEF WritesBits
<1> DEFINE from == 8 * r.byteoffset
           size == 8 * bytecount(r)
           to == from + size - 1
           m == Merged(h, r, v)
           M == MODIFY_INT32_INT32_BITS(h, r, v)
<1>1. M = (h \ (from..to)) \cup {p \in from..to : p - from \in m}
  BY DEF MODIFY_INT32_INT32_BITS
<1>2. /\ from \in Nat /\ size \in Nat /\ from + size <= 160
      /\ \A b \in Bits(r) : BitAt(r, b) - from \in 0..(size - 1)
      /\ \A q \in r.mask : \E b \in Bits(r) : BitAt(r, b) = from + q
      /\ \A b \in Bits(r) : BitAt(r, b) - from \in m <=> b \in v
      /\ \A q \in 0..(size - 1) : q \notin r.mask => (q \in m <=> from + q \in h)
  BY DEF MergesBits
<1>3. \A b \in Bits(r) : BitAt(r, b) \in Int
  BY DEF MergesBits
<1> HIDE DEF from, size, m, M
<1>4. M \in HeaderBits
  <2>1. \A p \in from..to : p \in 0..159
    BY <1>2
  <2>2. h \subseteq 0..159
    BY DEF HeaderBits
  <2>3. \A p \in M : p \in 0..159
    BY <1>1, <2>1, <2>2
  <2> QED
    BY <2>3 DEF HeaderBits
<1>5. ASSUME NEW b \in Bits(r) PROVE BitAt(r, b) \in M <=> b \in v
  <2>1. BitAt(r, b) \in from..to
    BY <1>2, <1>3
  <2> QED
    BY <1>1, <1>2, <2>1
<1>6. ASSUME NEW p \in 0..159, \A b \in Bits(r) : p # BitAt(r, b) PROVE p \in M <=> p \in h
  <2>1. CASE p \notin from..to
    BY <1>1, <2>1
  <2>2. CASE p \in from..to
    <3>1. p - from \in 0..(size - 1) /\ from + (p - from) = p
      BY <1>2, <2>2
    <3>2. p - from \notin r.mask
      BY <1>2, <1>6, <3>1
    <3>3. p - from \in m <=> p \in h
      BY <1>2, <3>1, <3>2
    <3> QED
      BY <1>1, <2>2, <3>3
  <2> QED
    BY <2>1, <2>2
<1> QED
  BY <1>4, <1>5, <1>6 DEF M

\* A port.
LEMMA PortWrites == ASSUME NEW off \in 0..2, NEW r, PortRow(r, off) PROVE WritesBits(r)
<1> DEFINE at == r.byteoffset
<1>1. /\ bytecount(r) = 2 /\ topShift(r) = 7
      /\ BITS_MASK1(r) = 0..(7 - off) /\ BITS_MASK2(r) = {} /\ BITS_MASK3(r) = (15 - off)..15
      /\ \A b \in 0..8 : BitAt(r, b) = 8 * at + IF b <= 7 - off THEN b ELSE b + 7
  BY PortNumbersOf
<1>2. at \in 0..18 /\ r.mask = (0..(7 - off)) \cup ((15 - off)..15) /\ Bits(r) = 0..8
  BY DEF PortRow, Bits
<1> HIDE DEF at
<1>3. /\ 8 * at \in Nat /\ 8 * bytecount(r) = 16 /\ 8 * at + 16 <= 160
      /\ \A b \in 0..8 : BitAt(r, b) \in Int /\ BitAt(r, b) - 8 * at \in 0..15
  <2>1. at \in Int /\ 8 * at \in Nat /\ 8 * at + 16 <= 160 /\ 8 * bytecount(r) = 16
    BY <1>1, <1>2
  <2>2. ASSUME NEW b \in 0..8 PROVE BitAt(r, b) \in Int /\ BitAt(r, b) - 8 * at \in 0..15
    <3>1. CASE b <= 7 - off
      <4>1. BitAt(r, b) = 8 * at + b
        BY <1>1, <3>1
      <4> QED
        BY <2>1, <4>1
    <3>2. CASE ~ (b <= 7 - off)
      <4>1. BitAt(r, b) = 8 * at + (b + 7)
        BY <1>1, <3>2
      <4> QED
        BY <2>1, <4>1
    <3> QED
      BY <3>1, <3>2
  <2> QED
    BY <2>1, <2>2
<1>4. ASSUME NEW q \in r.mask PROVE \E b \in 0..8 : BitAt(r, b) = 8 * at + q
  <2>1. CASE q \in 0..(7 - off)
    <3>1. q \in 0..8 /\ BitAt(r, q) = 8 * at + q
      BY <1>1, <2>1
    <3> QED
      BY <3>1
  <2>2. CASE q \in (15 - off)..15
    <3>1. q - 7 \in 0..8 /\ ~ (q - 7 <= 7 - off) /\ (q - 7) + 7 = q
      BY <2>2
    <3>2. BitAt(r, q - 7) = 8 * at + q
      BY <1>1, <3>1
    <3> QED
      BY <3>1, <3>2
  <2> QED
    BY <1>2, <2>1, <2>2
<1>5. ASSUME NEW h, NEW v \in SUBSET Word
      PROVE  /\ \A b \in 0..8 : (BitAt(r, b) - 8 * at \in Merged(h, r, v)) <=> b \in v
             /\ \A q \in 0..15 : q \notin r.mask
                                 => (q \in Merged(h, r, v) <=> 8 * at + q \in h)
  <2> DEFINE bytes == FIELD_BYTES(h, r)
             low == v \cap (0..(7 - off))
             high == shl(v \cap shr((15 - off)..15, 7), 7)
  <2>1. bytes = {b \in 0..15 : 8 * at + b \in h}
    BY <1>1 DEF FIELD_BYTES, BitsAt, at
  <2>2. Merged(h, r, v) = (bytes \ r.mask) \cup low \cup high
    <3>1. Merged(h, r, v) = (bytes \ r.mask) \cup ((v \cap BITS_MASK1(r)) \cup {}
                              \cup shl(v \cap shr(BITS_MASK3(r), topShift(r)), topShift(r)))
      BY <1>1 DEF Merged
    <3> HIDE DEF bytes
    <3> QED
      BY <1>1, <3>1
  <2> HIDE DEF bytes
  <2>3. ASSUME NEW q \in 0..15
        PROVE  /\ q \in low <=> q <= 7 - off /\ q \in v
               /\ q \in high <=> 15 - off <= q /\ q - 7 \in v
    BY DEF shl, shr, Word
  <2> HIDE DEF low, high
  <2>4. ASSUME NEW b \in 0..8 PROVE BitAt(r, b) - 8 * at \in Merged(h, r, v) <=> b \in v
    <3>1. CASE b <= 7 - off
      <4>1. BitAt(r, b) = 8 * at + b
        BY <1>1, <3>1
      <4>2. BitAt(r, b) - 8 * at = b
        <5>1. at \in Int
          BY <1>2
        <5> QED
          BY <4>1, <5>1
      <4>3. b \in 0..15 /\ b \in r.mask /\ ~ (15 - off <= b)
        BY <1>2, <3>1
      <4> QED
        BY <2>2, <2>3, <3>1, <4>2, <4>3
    <3>2. CASE ~ (b <= 7 - off)
      <4>1. BitAt(r, b) = 8 * at + (b + 7)
        BY <1>1, <3>2
      <4>2. BitAt(r, b) - 8 * at = b + 7
        <5>1. at \in Int
          BY <1>2
        <5> QED
          BY <4>1, <5>1
      <4>3. b + 7 \in 0..15 /\ 15 - off <= b + 7 /\ ~ (b + 7 <= 7 - off) /\ (b + 7) - 7 = b
        BY <3>2
      <4>4. b + 7 \in r.mask
        BY <1>2, <4>3
      <4> QED
        BY <2>2, <2>3, <4>2, <4>3, <4>4
    <3> QED
      BY <3>1, <3>2
  <2>5. ASSUME NEW q \in 0..15, q \notin r.mask PROVE q \in Merged(h, r, v) <=> 8 * at + q \in h
    <3>1. ~ (q <= 7 - off) /\ ~ (15 - off <= q)
      BY <1>2, <2>5
    <3> QED
      BY <2>1, <2>2, <2>3, <2>5, <3>1
  <2> QED
    BY <2>4, <2>5
<1>6. MergesBits(r)
  <2> HIDE DEF at
  <2>1. 8 * bytecount(r) \in Nat /\ 8 * bytecount(r) - 1 = 15
    BY <1>3
  <2>2. /\ 8 * at \in Nat /\ 8 * bytecount(r) \in Nat /\ 8 * at + 8 * bytecount(r) <= 160
        /\ \A b \in Bits(r) : BitAt(r, b) \in Int
                              /\ BitAt(r, b) - 8 * at \in 0..(8 * bytecount(r) - 1)
    BY <1>2, <1>3, <2>1
  <2>3. \A q \in r.mask : \E b \in Bits(r) : BitAt(r, b) = 8 * at + q
    BY <1>2, <1>4
  <2>4. \A h : \A v \in SUBSET Word :
           /\ \A b \in Bits(r) : (BitAt(r, b) - 8 * at \in Merged(h, r, v)) <=> b \in v
           /\ \A q \in 0..(8 * bytecount(r) - 1) :
                q \notin r.mask => (q \in Merged(h, r, v) <=> 8 * at + q \in h)
    BY <1>2, <1>5, <2>1
  <2> QED
    BY <2>2, <2>3, <2>4 DEF MergesBits, at
<1> QED
  BY <1>6, MergedIsWritten

\* Whole bytes; the programs only read the four of dstAddr.
LEMMA WholeWrites == ASSUME NEW w \in {8, 16}, NEW r, WholeRow(r, w) PROVE WritesBits(r)
<1> DEFINE at == r.byteoffset
<1>1. /\ bytecount(r) = w \div 8 /\ topShift(r) = 0 /\ FIELD_BITCOUNT(r) = w
      /\ BITS_MASK1(r) = 0..7 /\ BITS_MASK3(r) = (w - 8)..(w - 1)
      /\ \A b \in 0..(w - 1) : BitAt(r, b) = 8 * at + b
  BY WholeNumbersOf
<1>2. at \in 0..16 /\ r.mask = 0..(w - 1) /\ Bits(r) = 0..(w - 1)
  BY DEF WholeRow, Bits
<1> HIDE DEF at
<1>3. /\ 8 * at \in Nat /\ 8 * bytecount(r) = w /\ 8 * at + w <= 160
      /\ \A b \in 0..(w - 1) : BitAt(r, b) \in Int /\ BitAt(r, b) - 8 * at = b
  BY <1>1, <1>2
<1>4. \A x : \A b \in 0..(w - 1) : (b \in shl(x, 0) <=> b \in x) /\ (b \in shr(x, 0) <=> b \in x)
  BY DEF shl, shr, Word
<1>5. ASSUME NEW h, NEW v \in SUBSET Word, NEW b \in 0..(w - 1)
      PROVE  b \in Merged(h, r, v) <=> b \in v
  <2>1. b \notin FIELD_BYTES(h, r) \ r.mask /\ b \in r.mask
    BY <1>2
  <2>2. CASE w = 8
    <3>1. Merged(h, r, v) = (FIELD_BYTES(h, r) \ r.mask) \cup (shl(v, 0) \cap r.mask)
      BY <1>1, <2>2 DEF Merged
    <3> QED
      BY <1>4, <2>1, <3>1
  <2>3. CASE w = 16
    <3>1. Merged(h, r, v) = (FIELD_BYTES(h, r) \ r.mask)
             \cup ((v \cap 0..7) \cup {} \cup shl(v \cap shr(8..15, 0), 0))
      BY <1>1, <2>3 DEF Merged
    <3>2. b \in shl(v \cap shr(8..15, 0), 0) <=> b \in v /\ b \in 8..15
      BY <1>4
    <3>3. b \in 0..7 \/ b \in 8..15
      BY <2>3
    <3> QED
      BY <2>1, <3>1, <3>2, <3>3
  <2> QED
    BY <2>2, <2>3
<1>6. MergesBits(r)
  <2>1. \A q \in r.mask : \E b \in Bits(r) : BitAt(r, b) = 8 * at + q
    BY <1>1, <1>2
  <2>2. /\ 8 * at \in Nat /\ 8 * bytecount(r) \in Nat /\ 8 * at + 8 * bytecount(r) <= 160
        /\ \A b \in Bits(r) : BitAt(r, b) \in Int
                              /\ BitAt(r, b) - 8 * at \in 0..(8 * bytecount(r) - 1)
    BY <1>2, <1>3
  <2>3. \A h : \A v \in SUBSET Word :
           /\ \A b \in Bits(r) : (BitAt(r, b) - 8 * at \in Merged(h, r, v)) <=> b \in v
           /\ \A q \in 0..(8 * bytecount(r) - 1) :
                q \notin r.mask => (q \in Merged(h, r, v) <=> 8 * at + q \in h)
    BY <1>2, <1>3, <1>5
  <2> QED
    BY <2>1, <2>2, <2>3 DEF MergesBits, at
<1> QED
  BY <1>6, MergedIsWritten

-----------------------------------------------------------------------------
(* The fields.                                                             *)

Written == {"ingress_port", "egress_port", "ttl", "hdrChecksum"}

\* Every field reads its bits, and those the programs write are written bit by bit.
LEMMA FieldsReadBits == \A f \in Field : ReadsBits(field_instance[f])
<1>1. /\ PortRow(ingress_port, 0) /\ PortRow(egress_spec, 1) /\ PortRow(egress_port, 2)
      /\ WholeRow(etherType, 16) /\ WholeRow(ttl, 8) /\ WholeRow(protocol, 8)
      /\ WholeRow(hdrChecksum, 16) /\ WholeRow(dstAddr, 32)
  BY DEF PortRow, WholeRow, Row, Word, ingress_port, egress_spec, egress_port, etherType, ttl,
         protocol, hdrChecksum, dstAddr
<1>2. /\ ReadsBits(ingress_port) /\ ReadsBits(egress_spec) /\ ReadsBits(egress_port)
  BY <1>1, PortReads
<1>3. /\ ReadsBits(etherType) /\ ReadsBits(ttl) /\ ReadsBits(protocol)
      /\ ReadsBits(hdrChecksum) /\ ReadsBits(dstAddr)
  BY <1>1, WholeReads
<1> QED
  BY <1>2, <1>3 DEF Field, field_instance

LEMMA FieldsWriteBits == \A f \in Written : f \in Field /\ WritesBits(field_instance[f])
<1>1. /\ PortRow(ingress_port, 0) /\ PortRow(egress_port, 2)
      /\ WholeRow(ttl, 8) /\ WholeRow(hdrChecksum, 16)
  BY DEF PortRow, WholeRow, Row, Word, ingress_port, egress_port, ttl, hdrChecksum
<1>2. WritesBits(ingress_port) /\ WritesBits(egress_port)
  BY <1>1, PortWrites
<1>3. WritesBits(ttl) /\ WritesBits(hdrChecksum)
  BY <1>1, WholeWrites
<1> QED
  BY <1>2, <1>3 DEF Field, field_instance, Written

\* Where the bits of each field lie.
At(f, b) == BitAt(field_instance[f], b)
Places(f) == CASE f = "ingress_port" -> (0..7) \cup {15}
               [] f = "egress_spec"  -> (40..46) \cup {54, 55}
               [] f = "egress_port"  -> (48..53) \cup (61..63)
               [] f = "etherType"    -> 96..111
               [] f = "ttl"          -> 64..71
               [] f = "protocol"     -> 72..79
               [] f = "hdrChecksum"  -> 80..95
               [] f = "dstAddr"      -> 128..159

\* The bits of a field are its own, as its mask names them, and all in S.
LiesIn(r, S) == \A b \in Bits(r) : /\ BitAt(r, b) \in {8 * r.byteoffset + q : q \in r.mask}
                                   /\ BitAt(r, b) \in S

\* Where the bits of a port lie, and those of whole bytes.
PortBits(at, off) == ((8 * at)..(8 * at + 7 - off)) \cup ((8 * at + 15 - off)..(8 * at + 15))
WholeBits(at, w)  == (8 * at)..(8 * at + w - 1)

LEMMA PortPlaces ==
  ASSUME NEW off \in 0..2, NEW r, PortRow(r, off), NEW at \in 0..18, r.byteoffset = at
  PROVE  LiesIn(r, PortBits(at, off))
<1> SUFFICES ASSUME NEW b \in 0..8
             PROVE  /\ BitAt(r, b) \in {8 * r.byteoffset + q : q \in r.mask}
                    /\ BitAt(r, b) \in ((8 * at)..(8 * at + 7 - off))
                                       \cup ((8 * at + 15 - off)..(8 * at + 15))
  BY DEF LiesIn, Bits, PortRow, PortBits
<1>1. BitAt(r, b) = 8 * at + IF b <= 7 - off THEN b ELSE b + 7
  BY PortNumbersOf
<1>2. r.mask = (0..(7 - off)) \cup ((15 - off)..15)
  BY DEF PortRow
<1>3. CASE b <= 7 - off
  <2>1. BitAt(r, b) = 8 * at + b
    BY <1>1, <1>3
  <2>2. b \in r.mask
    BY <1>2, <1>3
  <2>3. 8 * at + b \in (8 * at)..(8 * at + 7 - off)
    BY <1>3
  <2> QED
    BY <2>1, <2>2, <2>3
<1>4. CASE ~ (b <= 7 - off)
  <2>1. BitAt(r, b) = 8 * at + (b + 7)
    BY <1>1, <1>4
  <2>2. b + 7 \in r.mask
    BY <1>2, <1>4
  <2>3. 8 * at + (b + 7) \in (8 * at + 15 - off)..(8 * at + 15)
    BY <1>4
  <2> QED
    BY <2>1, <2>2, <2>3
<1> QED
  BY <1>3, <1>4

LEMMA WholePlaces ==
  ASSUME NEW w \in {8, 16, 32}, NEW r, WholeRow(r, w), NEW at \in 0..16, r.byteoffset = at
  PROVE  LiesIn(r, WholeBits(at, w))
<1> SUFFICES ASSUME NEW b \in 0..(w - 1)
             PROVE  /\ BitAt(r, b) \in {8 * r.byteoffset + q : q \in r.mask}
                    /\ BitAt(r, b) \in (8 * at)..(8 * at + w - 1)
  BY DEF LiesIn, Bits, WholeRow, WholeBits
<1>1. BitAt(r, b) = 8 * at + b
  BY WholeNumbersOf
<1>2. r.mask = 0..(w - 1)
  BY DEF WholeRow
<1>3. 8 * at + b \in (8 * at)..(8 * at + w - 1)
  OBVIOUS
<1> QED
  BY <1>1, <1>2, <1>3

\* Every bit of a field is one of its own, and lies where Places says.
LEMMA FieldPlaces ==
  \A f \in Field : \A b \in Bits(field_instance[f]) : At(f, b) \in Own(f) \cap Places(f)
<1>1. /\ PortRow(ingress_port, 0) /\ PortRow(egress_spec, 1) /\ PortRow(egress_port, 2)
      /\ WholeRow(etherType, 16) /\ WholeRow(ttl, 8) /\ WholeRow(protocol, 8)
      /\ WholeRow(hdrChecksum, 16) /\ WholeRow(dstAddr, 32)
  BY DEF PortRow, WholeRow, Row, Word, ingress_port, egress_spec, egress_port, etherType, ttl,
         protocol, hdrChecksum, dstAddr
<1>2. /\ ingress_port.byteoffset = 0 /\ egress_spec.byteoffset = 5 /\ egress_port.byteoffset = 6
      /\ etherType.byteoffset = 12 /\ ttl.byteoffset = 8 /\ protocol.byteoffset = 9
      /\ hdrChecksum.byteoffset = 10 /\ dstAddr.byteoffset = 16
  BY DEF Row, ingress_port, egress_spec, egress_port, etherType, ttl, protocol, hdrChecksum, dstAddr
<1>3. LiesIn(ingress_port, Places("ingress_port"))
  <2>1. LiesIn(ingress_port, PortBits(0, 0))
    BY <1>1, <1>2, PortPlaces
  <2>2. PortBits(0, 0) = Places("ingress_port")
    BY DEF Places, PortBits
  <2> QED
    BY <2>1, <2>2
<1>4. LiesIn(egress_spec, Places("egress_spec"))
  <2>1. LiesIn(egress_spec, PortBits(5, 1))
    BY <1>1, <1>2, PortPlaces
  <2>2. PortBits(5, 1) = Places("egress_spec")
    BY DEF Places, PortBits
  <2> QED
    BY <2>1, <2>2
<1>5. LiesIn(egress_port, Places("egress_port"))
  <2>1. LiesIn(egress_port, PortBits(6, 2))
    BY <1>1, <1>2, PortPlaces
  <2>2. PortBits(6, 2) = Places("egress_port")
    BY DEF Places, PortBits
  <2> QED
    BY <2>1, <2>2
<1>6. LiesIn(etherType, Places("etherType"))
  <2>1. LiesIn(etherType, WholeBits(12, 16))
    BY <1>1, <1>2, WholePlaces
  <2>2. WholeBits(12, 16) = Places("etherType")
    BY DEF Places, WholeBits
  <2> QED
    BY <2>1, <2>2
<1>7. LiesIn(ttl, Places("ttl"))
  <2>1. LiesIn(ttl, WholeBits(8, 8))
    BY <1>1, <1>2, WholePlaces
  <2>2. WholeBits(8, 8) = Places("ttl")
    BY DEF Places, WholeBits
  <2> QED
    BY <2>1, <2>2
<1>8. LiesIn(protocol, Places("protocol"))
  <2>1. LiesIn(protocol, WholeBits(9, 8))
    BY <1>1, <1>2, WholePlaces
  <2>2. WholeBits(9, 8) = Places("protocol")
    BY DEF Places, WholeBits
  <2> QED
    BY <2>1, <2>2
<1>9. LiesIn(hdrChecksum, Places("hdrChecksum"))
  <2>1. LiesIn(hdrChecksum, WholeBits(10, 16))
    BY <1>1, <1>2, WholePlaces
  <2>2. WholeBits(10, 16) = Places("hdrChecksum")
    BY DEF Places, WholeBits
  <2> QED
    BY <2>1, <2>2
<1>10. LiesIn(dstAddr, Places("dstAddr"))
  <2>1. LiesIn(dstAddr, WholeBits(16, 32))
    BY <1>1, <1>2, WholePlaces
  <2>2. WholeBits(16, 32) = Places("dstAddr")
    BY DEF Places, WholeBits
  <2> QED
    BY <2>1, <2>2
<1> QED
  BY <1>3, <1>4, <1>5, <1>6, <1>7, <1>8, <1>9, <1>10 DEF LiesIn, Field, field_instance, At, Own

\* No bit of one field of a header is a bit of another.
LEMMA FieldsApart ==
  ASSUME NEW f \in Field, NEW g \in Field, f # g,
         field_instance[f].header = field_instance[g].header
  PROVE  \A b \in Bits(field_instance[f]), c \in Bits(field_instance[g]) : At(f, b) # At(g, c)
<1>1. \/ {f, g} \subseteq {"ingress_port", "egress_spec", "egress_port"}
      \/ {f, g} \subseteq {"ttl", "protocol", "hdrChecksum", "dstAddr"}
  BY DEF Field, field_instance, Row, ingress_port, egress_spec, egress_port, etherType, ttl,
         protocol, hdrChecksum, dstAddr
<1>2. \A x \in Places(f), y \in Places(g) : x # y
  <2>1. CASE {f, g} \subseteq {"ingress_port", "egress_spec", "egress_port"}
    BY <2>1 DEF Places
  <2>2. CASE {f, g} \subseteq {"ttl", "protocol", "hdrChecksum", "dstAddr"}
    BY <2>2 DEF Places
  <2> QED
    BY <1>1, <2>1, <2>2
<1> QED
  BY <1>2, FieldPlaces

-----------------------------------------------------------------------------
(* The headers of a descriptor.                                            *)

HeaderName == {"standard_metadata", "ethernet", "ipv4"}
Headers == [standard_metadata : HeaderBits, ethernet : HeaderBits, ipv4 : HeaderBits]

LEMMA HeaderFields == \A f \in Field : field_instance[f].header \in HeaderName
BY DEF Field, field_instance, HeaderName, Row, ingress_port, egress_spec, egress_port, etherType,
       ttl, protocol, hdrChecksum, dstAddr

LEMMA HeadersTyped ==
  ASSUME NEW hs \in Headers
  PROVE  /\ DOMAIN hs = HeaderName
         /\ \A x \in HeaderName : hs[x] \in HeaderBits
BY DEF Headers, HeaderName

\* The headers ks are hs, but for header x, which is h.
OneWritten(ks, hs, x, h) == ks = [hs EXCEPT ![x] = h]

LEMMA HeaderWritten ==
  ASSUME NEW hs \in Headers, NEW x \in HeaderName, NEW h \in HeaderBits,
         NEW ks, OneWritten(ks, hs, x, h)
  PROVE  ks \in Headers /\ ks[x] = h /\ \A y \in HeaderName : y # x => ks[y] = hs[y]
<1>1. x = "standard_metadata" \/ x = "ethernet" \/ x = "ipv4"
  BY DEF HeaderName
<1>2. ks \in Headers
  BY <1>1 DEF Headers, OneWritten
<1>3. DOMAIN hs = HeaderName
  BY HeadersTyped
<1> QED
  BY <1>2, <1>3 DEF OneWritten

\* What writing a field does to the headers: it is there, the other fields are as they were,
\* and only its own bits have changed.
LEMMA PutField ==
  ASSUME NEW hs \in Headers, NEW f \in Written, NEW v \in SUBSET Word
  PROVE  /\ Put(hs, f, v) \in Headers
         /\ Get(Put(hs, f, v), f) = Fits(f, v)
         /\ \A g \in Field : g # f => Get(Put(hs, f, v), g) = Get(hs, g)
         /\ \A x \in HeaderName : \A p \in 0..159 :
              (p \in hs[x]) # (p \in Put(hs, f, v)[x]) =>
                x = field_instance[f].header /\ \E b \in Bits(field_instance[f]) : p = At(f, b)
<1> DEFINE r == field_instance[f]
           x0 == r.header
           h1 == MODIFY_INT32_INT32_BITS(hs[x0], r, v)
           hs1 == Put(hs, f, v)
<1>1. f \in Field /\ x0 \in HeaderName /\ hs[x0] \in HeaderBits
  BY FieldsWriteBits, HeaderFields, HeadersTyped
<1>2. /\ h1 \in HeaderBits
      /\ \A b \in Bits(r) : At(f, b) \in h1 <=> b \in v
      /\ \A p \in 0..159 : (\A b \in Bits(r) : p # At(f, b)) => (p \in h1 <=> p \in hs[x0])
  BY <1>1, FieldsWriteBits DEF WritesBits, At
<1>3. OneWritten(hs1, hs, x0, h1)
  BY DEF Put, OneWritten
<1> HIDE DEF h1, hs1
<1>4. hs1 \in Headers /\ hs1[x0] = h1 /\ \A y \in HeaderName : y # x0 => hs1[y] = hs[y]
  <2> HIDE DEF x0
  <2> QED
    BY <1>1, <1>2, <1>3, HeaderWritten
<1>5. \A g \in Field : \A ks :
        Get(ks, g) = {b \in Bits(field_instance[g]) : At(g, b) \in ks[field_instance[g].header]}
  BY FieldsReadBits DEF ReadsBits, Get, At
<1>6. Get(hs1, f) = Fits(f, v)
  BY <1>1, <1>2, <1>4, <1>5 DEF Fits, Bits
<1>7. ASSUME NEW g \in Field, g # f PROVE Get(hs1, g) = Get(hs, g)
  <2> DEFINE y == field_instance[g].header
  <2>1. CASE y # x0
    <3>1. hs1[y] = hs[y]
      BY <1>4, <2>1, HeaderFields
    <3> QED
      BY <1>5, <3>1
  <2>2. CASE y = x0
    <3>1. \A b \in Bits(field_instance[g]) : At(g, b) \in 0..159
      BY FieldPlaces DEF Places, Field, field_instance
    <3>2. \A b \in Bits(field_instance[g]) : \A c \in Bits(r) : At(g, b) # At(f, c)
      BY <1>1, <1>7, <2>2, FieldsApart
    <3>3. \A b \in Bits(field_instance[g]) : At(g, b) \in h1 <=> At(g, b) \in hs[x0]
      BY <1>2, <3>1, <3>2
    <3> QED
      BY <1>4, <1>5, <2>2, <3>3
  <2> QED
    BY <2>1, <2>2
<1>8. ASSUME NEW x \in HeaderName, NEW p \in 0..159, (p \in hs[x]) # (p \in hs1[x])
      PROVE  x = x0 /\ \E b \in Bits(r) : p = At(f, b)
  <2>1. x = x0
    BY <1>4, <1>8
  <2>2. ~ (p \in h1 <=> p \in hs[x0])
    BY <1>4, <1>8, <2>1
  <2> QED
    BY <1>2, <2>1, <2>2
<1> QED
  BY <1>4, <1>6, <1>7, <1>8 DEF hs1

-----------------------------------------------------------------------------
(* The invariant.                                                          *)

\* What is remembered of every field is what its bits say.
PInv == /\ headers \in Headers
        /\ value = [f \in Field |-> Get(headers, f)]
        /\ phase \in {"reset", "parse", "update", "done"}

LEMMA FreshHeaders == \A frame \in Frame : Fresh(frame) \in Headers
BY FieldAssumption DEF Fresh, Headers, HeaderBits

\* A frame's own values are those of its fields.
LEMMA FreshValues ==
  ASSUME NEW hs \in Headers
  PROVE  /\ [f \in Field |-> Get(hs, f)] \in [Field -> SUBSET Word]
         /\ \A f \in Field : Get(hs, f) \subseteq 0..(field_instance[f].bitwidth - 1)
<1>1. \A f \in Field : Get(hs, f) \subseteq 0..(field_instance[f].bitwidth - 1)
  BY FieldsReadBits DEF ReadsBits, Get, Bits
<1>2. \A f \in Field : 0..(field_instance[f].bitwidth - 1) \subseteq Word
  BY DEF Word, Field, field_instance, Row, ingress_port, egress_spec, egress_port, etherType, ttl,
         protocol, hdrChecksum, dstAddr
<1> QED
  BY <1>1, <1>2

\* So the values have their width, and a field reads the same by either macro.
LEMMA PInvTells == PInv => PdTypeOK /\ ReadsBack
<1> SUFFICES ASSUME PInv PROVE PdTypeOK /\ ReadsBack
  OBVIOUS
<1>1. /\ value \in [Field -> SUBSET Word]
      /\ \A f \in Field : value[f] \subseteq 0..(field_instance[f].bitwidth - 1)
  BY FreshValues DEF PInv
<1>2. PdTypeOK
  BY <1>1 DEF PInv, PdTypeOK, Headers
<1>3. ReadsBack
  BY FieldsReadBits DEF PInv, ReadsBits, ReadsBack, Get
<1> QED
  BY <1>2, <1>3

LEMMA InitPInv == PdInit => PInv
BY FreshHeaders DEF PdInit, PInv

\* What is remembered after a field was given a value is what its headers say.
Gives(hs, f, v) ==
  /\ Put(hs, f, v) \in Headers
  /\ [g \in Field |-> Get(Put(hs, f, v), g)]
       = [[g \in Field |-> Get(hs, g)] EXCEPT ![f] = Fits(f, v)]

LEMMA GiveField ==
  ASSUME NEW hs \in Headers, NEW f \in Written, NEW v \in SUBSET Word
  PROVE  Gives(hs, f, v)
<1>1. /\ Put(hs, f, v) \in Headers
      /\ Get(Put(hs, f, v), f) = Fits(f, v)
      /\ \A g \in Field : g # f => Get(Put(hs, f, v), g) = Get(hs, g)
  BY PutField
<1>2. f \in Field
  BY FieldsWriteBits
<1> QED
  BY <1>1, <1>2 DEF Gives

LEMMA NextPInv == PInv /\ [PdNext]_pdVars => PInv'
<1> SUFFICES ASSUME PInv, [PdNext]_pdVars PROVE PInv'
  OBVIOUS
<1> USE DEF PInv
<1>1. ASSUME NEW inport \in Inport, initialize(inport) PROVE PInv'
  <2>1. inport \in SUBSET Word /\ "ingress_port" \in Written
    BY FieldAssumption DEF Written
  <2>2. Gives(headers, "ingress_port", inport)
    BY <2>1, GiveField
  <2> QED
    BY <1>1, <2>2 DEF initialize, Gives
<1>2. ASSUME NEW port \in PortParam, SetEgressPort(port) PROVE PInv'
  <2>1. port \in SUBSET Word /\ "egress_port" \in Written
    <3>1. port \in SUBSET (0..15)
      BY FieldAssumption
    <3> QED
      BY <3>1 DEF Written, Word
  <2>2. Gives(headers, "egress_port", port)
    BY <2>1, GiveField
  <2> QED
    BY <1>2, <2>2 DEF SetEgressPort, Gives
<1>3. CASE on_miss
  BY <1>3 DEF on_miss
<1>4. ASSUME NEW t \in Ttl, NEW c \in Csum, update_packet(t, c) PROVE PInv'
  <2> DEFINE hs == Put(headers, "ttl", t)
  <2>1. t \in SUBSET Word /\ c \in SUBSET Word /\ "ttl" \in Written /\ "hdrChecksum" \in Written
    BY FieldAssumption DEF Written
  <2>2. Gives(headers, "ttl", t) /\ hs \in Headers
    <3>1. Gives(headers, "ttl", t)
      BY <2>1, GiveField
    <3> QED
      BY <3>1 DEF Gives
  <2>3. Gives(hs, "hdrChecksum", c)
    <3> HIDE DEF hs
    <3> QED
      BY <2>1, <2>2, GiveField
  <2> QED
    BY <1>4, <2>2, <2>3 DEF update_packet, Gives
<1>5. CASE NextFrame
  BY <1>5, FreshHeaders DEF NextFrame
<1>6. CASE UNCHANGED pdVars
  BY <1>6 DEF pdVars
<1> QED
  BY <1>1, <1>2, <1>3, <1>4, <1>5, <1>6 DEF PdNext

LEMMA PInvInvariant == PdSpec => []PInv
<1> QED
  BY InitPInv, NextPInv, PTL DEF PdSpec

\* Headers and values keep their types, and every value the width of its field.
THEOREM FieldsTyped == PdSpec => []PdTypeOK
<1> QED
  BY PInvInvariant, PInvTells, PTL

\* A field reads back, by GET_INT32_AUTO and by EXTRACT_INT32_BITS, what it was last given,
\* whatever else was written into the bytes it shares.
THEOREM FieldsReadBack == PdSpec => []ReadsBack
<1> QED
  BY PInvInvariant, PInvTells, PTL

\* The byte a digest carries is the ingress port, for every port below 256.
THEOREM DigestsNameThePort == PdSpec => []DigestByte
<1>1. PInv => DigestByte
  <2> SUFFICES ASSUME PInv, value.ingress_port \subseteq 0..7
               PROVE  BitsAt(headers.standard_metadata, ingress_port, 8) = value.ingress_port
    BY DEF DigestByte
  <2>1. PortRow(ingress_port, 0) /\ ingress_port.byteoffset = 0 /\ Bits(ingress_port) = 0..8
    BY DEF PortRow, Row, ingress_port, Bits
  <2>2. \A b \in 0..7 : BitAt(ingress_port, b) = b
    BY <2>1, PortNumbersOf
  <2>3. value.ingress_port
          = {b \in 0..8 : BitAt(ingress_port, b) \in headers.standard_metadata}
    <3>1. /\ "ingress_port" \in Field /\ field_instance["ingress_port"] = ingress_port
          /\ ingress_port.header = "standard_metadata"
      BY DEF Field, field_instance, ingress_port, Row
    <3>2. ReadsBits(ingress_port)
      BY <3>1, FieldsReadBits
    <3> QED
      BY <2>1, <3>1, <3>2 DEF PInv, ReadsBits, Get
  <2>4. BitsAt(headers.standard_metadata, ingress_port, 8)
          = {b \in 0..7 : b \in headers.standard_metadata}
    BY <2>1 DEF BitsAt
  <2> QED
    BY <2>2, <2>3, <2>4
<1> QED
  BY PInvInvariant, <1>1, PTL

\* A bit of a header that some field has.
OfField(x, p) == \E f \in Field : /\ field_instance[f].header = x
                                  /\ \E b \in Bits(field_instance[f]) : p = At(f, b)

\* Giving a field a value changes such bits only.
LEMMA GiveTouches ==
  ASSUME NEW hs \in Headers, NEW f \in Written, NEW v \in SUBSET Word,
         NEW x \in HeaderName, NEW p \in 0..159, (p \in hs[x]) # (p \in Put(hs, f, v)[x])
  PROVE  OfField(x, p)
BY PutField, FieldsWriteBits DEF OfField

\* While a frame is handled a header changes only in bits of fields that were given a value.
THEOREM OthersUntouched == PdSpec => OnlyOwnBits
<1> DEFINE Change(x, p) == (p \in headers[x]) # (p \in headers'[x])
           OnlyOwn == phase # "done" =>
                        \A h \in DOMAIN headers : \A b \in 0..159 :
                          (b \in headers[h]) # (b \in headers'[h]) =>
                            \E f \in Field : /\ field_instance[f].header = h /\ b \in Own(f)
                                             /\ value'[f] # value[f]
<1>1. ASSUME PInv, PInv', PdNext, phase # "done",
             NEW x \in HeaderName, NEW p \in 0..159, Change(x, p)
      PROVE  OfField(x, p)
  <2>1. ASSUME NEW inport \in Inport, initialize(inport) PROVE OfField(x, p)
    <3>1. inport \in SUBSET Word /\ "ingress_port" \in Written
      BY FieldAssumption DEF Written
    <3>2. headers \in Headers /\ headers' = Put(headers, "ingress_port", inport)
      BY <1>1, <2>1 DEF PInv, initialize
    <3> QED
      BY <1>1, <3>1, <3>2, GiveTouches
  <2>2. ASSUME NEW port \in PortParam, SetEgressPort(port) PROVE OfField(x, p)
    <3>1. port \in SUBSET Word /\ "egress_port" \in Written
      <4>1. port \in SUBSET (0..15)
        BY FieldAssumption
      <4> QED
        BY <4>1 DEF Written, Word
    <3>2. headers \in Headers /\ headers' = Put(headers, "egress_port", port)
      BY <1>1, <2>2 DEF PInv, SetEgressPort
    <3> QED
      BY <1>1, <3>1, <3>2, GiveTouches
  <2>3. CASE on_miss
    BY <1>1, <2>3 DEF on_miss
  <2>4. ASSUME NEW t \in Ttl, NEW c \in Csum, update_packet(t, c) PROVE OfField(x, p)
    <3> DEFINE hs == Put(headers, "ttl", t)
    <3>1. t \in SUBSET Word /\ c \in SUBSET Word /\ "ttl" \in Written /\ "hdrChecksum" \in Written
      BY FieldAssumption DEF Written
    <3>2. headers \in Headers /\ headers' = Put(hs, "hdrChecksum", c)
      BY <1>1, <2>4 DEF PInv, update_packet
    <3>3. hs \in Headers
      BY <3>1, <3>2, PutField
    <3>4. (p \in headers[x]) # (p \in hs[x]) => OfField(x, p)
      BY <3>1, <3>2, GiveTouches
    <3> HIDE DEF hs
    <3>5. (p \in hs[x]) # (p \in headers'[x]) => OfField(x, p)
      BY <3>1, <3>2, <3>3, GiveTouches
    <3> QED
      BY <1>1, <3>4, <3>5
  <2>5. ~ NextFrame
    BY <1>1 DEF NextFrame
  <2> QED
    BY <1>1, <2>1, <2>2, <2>3, <2>4, <2>5 DEF PdNext
<1>2. ASSUME PInv, PInv', NEW f \in Field, NEW b \in Bits(field_instance[f]),
             Change(field_instance[f].header, At(f, b))
      PROVE  value'[f] # value[f]
  <2>1. \A hs : Get(hs, f) = {c \in Bits(field_instance[f]) :
                                 At(f, c) \in hs[field_instance[f].header]}
    BY FieldsReadBits DEF ReadsBits, Get, At
  <2>2. value[f] = Get(headers, f) /\ value'[f] = Get(headers', f)
    BY <1>2 DEF PInv
  <2>3. /\ b \in value[f] <=> At(f, b) \in headers[field_instance[f].header]
        /\ b \in value'[f] <=> At(f, b) \in headers'[field_instance[f].header]
    BY <2>1, <2>2
  <2> QED
    BY <1>2, <2>3
<1>3. PInv /\ PInv' /\ [PdNext]_pdVars => [OnlyOwn]_pdVars
  <2> SUFFICES ASSUME PInv, PInv', PdNext, phase # "done", NEW x \in DOMAIN headers,
                      NEW p \in 0..159, Change(x, p)
               PROVE  \E f \in Field : /\ field_instance[f].header = x /\ p \in Own(f)
                                       /\ value'[f] # value[f]
    OBVIOUS
  <2>1. x \in HeaderName
    BY HeadersTyped DEF PInv
  <2>2. PICK f \in Field : /\ field_instance[f].header = x
                           /\ \E b \in Bits(field_instance[f]) : p = At(f, b)
    BY <1>1, <2>1 DEF OfField
  <2>3. p \in Own(f)
    BY <2>2, FieldPlaces
  <2>4. value'[f] # value[f]
    BY <1>2, <2>2
  <2> QED
    BY <2>2, <2>3, <2>4
<1> QED
  BY PInvInvariant, <1>3, PTL DEF PdSpec, OnlyOwnBits

=============================================================================
