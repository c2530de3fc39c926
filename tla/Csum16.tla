------------------------------- MODULE Csum16 --------------------------------
(***************************************************************************)
(* The Internet checksum of the L3 program: calculate_csum16 of            *)
(* p4-interface.c, and csum16_add, calculate_ipv4_checksum, update_packet  *)
(* and verify_packet of l3_switch_code/dataplane.c, on a buffer of bytes.  *)
(* Words are read as the host stores them, low byte first.                 *)
(***************************************************************************)
EXTENDS Integers, Sequences

CONSTANT ByteBase         \* 256
ASSUME ByteBaseAssumption == ByteBase \in Nat /\ ByteBase > 1

W == ByteBase * ByteBase  \* 0x10000; a uint32_t holds 0..W*W-1

\* (sum & 0xffff0000) >> 16) + (sum & 0xffff)
Fold(sum) == (sum \div W) + (sum % W)

\* The i-th word of buf, from 0; the last byte of an odd buffer counts for itself.
WordAt(buf, i) ==
  buf[2 * i + 1] + IF 2 * i + 2 <= Len(buf) THEN ByteBase * buf[2 * i + 2] ELSE 0

Words(buf) == (Len(buf) + 1) \div 2

\* What the first i words add up to, and what all of them do.
SumTo(buf) == LET sumTo[i \in 0..Words(buf)] ==
                    IF i = 0 THEN 0 ELSE sumTo[i - 1] + WordAt(buf, i - 1)
              IN  sumTo
WordSum(buf) == SumTo(buf)[Words(buf)]

calculate_csum16(buf) == Fold(Fold(WordSum(buf)))

\* Its loop runs at most once: both arguments are below W.
csum16_add(num1, num2) ==
  IF num1 = 0 THEN num2
  ELSE IF num1 + num2 >= W THEN Fold(num1 + num2) ELSE num1 + num2

\* What the sum should be: the integer sum modulo W-1, where only a sum of nothing
\* but zeroes is written 0.
OnesComplement(sum) == IF sum = 0 THEN 0 ELSE 1 + ((sum - 1) % (W - 1))

-----------------------------------------------------------------------------
(* The IPv4 header, 20 bytes; bytes 11 and 12 hold its checksum.           *)

hdrChecksumOf(ipv4) == ipv4[11] + ByteBase * ipv4[12]

\* The ten bytes before the checksum and the eight after it; never 0.
calculate_ipv4_checksum(ipv4) ==
  LET res == csum16_add(0, calculate_csum16(SubSeq(ipv4, 1, 10) \o SubSeq(ipv4, 13, 20)))
  IN  IF res = W - 1 THEN res ELSE W - 1 - res

\* verify_packet returns 1 for a header to be dropped.
IsCorrupt(ipv4) == hdrChecksumOf(ipv4) # calculate_ipv4_checksum(ipv4)

WithChecksum(ipv4, sum) ==
  [ipv4 EXCEPT ![11] = sum % ByteBase, ![12] = (sum \div ByteBase) % ByteBase]

=============================================================================
