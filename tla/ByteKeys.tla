------------------------------ MODULE ByteKeys ------------------------------
(***************************************************************************)
(* Keys of the lookup tables and the two comparisons of p4-interface.c.    *)
(*                                                                         *)
(* A key is an array of key_size bytes.  compare_keys walks two keys byte  *)
(* by byte and stops at the first difference; compare_ternary_keys does    *)
(* the same over the bytes its mask leaves to be inspected.  Both are      *)
(* written here as what that walk finds: the least differing index.        *)
(***************************************************************************)
EXTENDS Integers, FiniteSetsExt

CONSTANTS KeySize,      \* lookup_table_s.key_size, in bytes
          Byte          \* the byte values that occur in keys

ASSUME KeySizeAssumption == KeySize \in Nat \ {0}
ASSUME ByteAssumption == Byte \subseteq 0..255

Key == [1..KeySize -> Byte]

\* The result of walking the indices of I in ascending order until the keys differ.
CompareOver(key1, key2, I) ==
  LET diff  == {i \in I : key1[i] # key2[i]}
      first == Min(diff)
  IN  IF diff = {} THEN 0 ELSE IF key1[first] < key2[first] THEN -1 ELSE 1

\* Only the first `length` bytes are compared, so that a key may be a prefix.
compare_keys(key1, key2, length) == CompareOver(key1, key2, 1..length)

\* A mask says of each byte whether it is inspected (0) or ignored (255).
\* A NULL mask (NoMask here) inspects every byte.
Mask == [1..KeySize -> {0, 255}]
NoMask == <<>>

compare_ternary_keys(key1, key2, length, mask) ==
  CompareOver(key1, key2, {i \in 1..length : mask = NoMask \/ mask[i] = 0})

=============================================================================
