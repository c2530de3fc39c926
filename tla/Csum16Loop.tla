------------------------------ MODULE Csum16Loop -----------------------------
(***************************************************************************)
(* calculate_csum16 step by step: a loop over four words at a time, a loop *)
(* over single words, an odd byte, and two folds.  `len` and `u16` count   *)
(* as in the code: bytes left, and the word the pointer is at.             *)
(***************************************************************************)
EXTENDS Csum16, SequencesExt

CONSTANTS Byte,           \* the byte values that occur in buffers
          MaxLen          \* bound: the longest buffer
ASSUME LoopAssumption == Byte \subseteq 0..(ByteBase - 1) /\ MaxLen \in 0..(W - 1)

VARIABLES buf, len, u16, sum, pc

vars == <<buf, len, u16, sum, pc>>

\* The caller's buffer, filled byte by byte before the call.
Init == buf = <<>> /\ len = 0 /\ u16 = 0 /\ sum = 0 /\ pc = "filling"

Fill == /\ pc = "filling" /\ Len(buf) < MaxLen
        /\ \E b \in Byte : buf' = Append(buf, b)
        /\ UNCHANGED <<len, u16, sum, pc>>

Call == /\ pc = "filling" /\ pc' = "four"
        /\ len' = Len(buf)
        /\ UNCHANGED <<buf, u16, sum>>

\* A mutation of Four: the loop runs while more than three words are left, sizeof forgotten.
FourShort == /\ pc = "four" /\ len >= 4
             /\ sum' = sum + WordAt(buf, u16) + WordAt(buf, u16 + 1)
             /\ len' = len - 8 /\ u16' = u16 + 4
             /\ UNCHANGED <<buf, pc>>

Four == /\ pc = "four" /\ len >= 8
        /\ sum' = sum + WordAt(buf, u16) + WordAt(buf, u16 + 1)
                      + WordAt(buf, u16 + 2) + WordAt(buf, u16 + 3)
        /\ len' = len - 8 /\ u16' = u16 + 4
        /\ UNCHANGED <<buf, pc>>

FourDone == /\ pc = "four" /\ len < 8 /\ pc' = "one"
            /\ UNCHANGED <<buf, len, u16, sum>>

\* A mutation of One: the length is counted in words.
OneWord == /\ pc = "one" /\ len >= 2
           /\ sum' = sum + WordAt(buf, u16)
           /\ len' = len - 1 /\ u16' = u16 + 1
           /\ UNCHANGED <<buf, pc>>

One == /\ pc = "one" /\ len >= 2
       /\ sum' = sum + WordAt(buf, u16)
       /\ len' = len - 2 /\ u16' = u16 + 1
       /\ UNCHANGED <<buf, pc>>

\* A mutation of Odd: the odd byte counts as the high one.
OddHigh == /\ pc = "one" /\ len < 2 /\ pc' = "fold"
           /\ sum' = IF len = 1 THEN sum + ByteBase * buf[2 * u16 + 1] ELSE sum
           /\ UNCHANGED <<buf, len, u16>>

\* A mutation of Odd: only a loop that has used up the buffer ends.
OddNever == /\ pc = "one" /\ len = 0 /\ pc' = "fold"
            /\ UNCHANGED <<buf, len, u16, sum>>

\* len is not counted down for the odd byte.
Odd == /\ pc = "one" /\ len < 2 /\ pc' = "fold"
       /\ sum' = IF len = 1 THEN sum + buf[2 * u16 + 1] ELSE sum
       /\ UNCHANGED <<buf, len, u16>>

\* A mutation of Return: one fold.
ReturnOnce == /\ pc = "fold" /\ pc' = "done"
              /\ sum' = Fold(sum)
              /\ UNCHANGED <<buf, len, u16>>

Return == /\ pc = "fold" /\ pc' = "done"
          /\ sum' = Fold(Fold(sum))
          /\ UNCHANGED <<buf, len, u16>>

Next == Fill \/ Call \/ Four \/ FourDone \/ One \/ Odd \/ Return

\* The function, once called, runs on.
Spec == Init /\ [][Next]_vars /\ WF_vars(Four \/ FourDone \/ One \/ Odd \/ Return)

-----------------------------------------------------------------------------

TypeOK == /\ buf \in BoundedSeq(Byte, MaxLen)
          /\ len \in 0..MaxLen /\ u16 \in 0..MaxLen
          /\ sum \in 0..(W * W - 1)
          /\ pc \in {"filling", "four", "one", "fold", "done"}

\* The loops never read outside the buffer and never lose a byte of it, and the sum they
\* keep in 32 bits, which were 16 once, does not wrap for any length a uint16_t can name:
\* it is at most W-1 for every word read.
LoopInvariant ==
  pc \in {"four", "one"} =>
    /\ 2 * u16 + len = Len(buf)
    /\ sum <= u16 * (W - 1)

\* The result is the ones' complement sum of the words, whatever the length.
ResultIsSum == pc = "done" => sum = OnesComplement(WordSum(buf))

\* Read with the bytes of every word the other way round the same buffer has the same sum
\* with its bytes the other way round.  This is why a little-endian host may sum a header
\* that is in network order and store the result as it is.
Swapped(s) == [i \in 1..(2 * ((Len(s) + 1) \div 2)) |->
                 LET j == IF i % 2 = 1 THEN i + 1 ELSE i - 1
                 IN  IF j <= Len(s) THEN s[j] ELSE 0]
SwapWord(w) == (w \div ByteBase) + ByteBase * (w % ByteBase)

ByteOrderFree == pc = "done" => OnesComplement(WordSum(Swapped(buf))) = SwapWord(sum)

\* The call returns.
Returns == pc = "four" ~> pc = "done"

=============================================================================
