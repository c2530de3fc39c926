----------------------------- MODULE FieldBits ------------------------------
(***************************************************************************)
(* The packet fields of a packet descriptor as the macros of               *)
(* p4-interface-dependencies.h read and write them: through a row of the   *)
(* tables in parser.h, by mask and shift on 1, 2 or 4 bytes of a header.   *)
(*                                                                         *)
(* A number is the set of its one-bits and a header the set of the         *)
(* positions of its one-bits, bit b of byte n at 8n + b.  So & is          *)
(* intersection, | is union, and the bytes of a uint16_t or uint32_t lie   *)
(* in memory as on the little-endian hosts the masks are generated for.    *)
(***************************************************************************)
EXTENDS Integers

Word == 0..31

-----------------------------------------------------------------------------
(* The rows of parser.h for the fields the two programs use.               *)

Row(header, width, bitoffset, byteoffset, mask) ==
  [header |-> header, bitwidth |-> width, bitoffset |-> bitoffset,
   byteoffset |-> byteoffset, mask |-> mask]

\* A mutation of ingress_port: the row of a field one bit further on.
ingress_portNext == Row("standard_metadata", 9, 1, 0, (0..6) \cup {14, 15})
ingress_port == Row("standard_metadata", 9, 0, 0, (0..7) \cup {15})           \* 0x80ff
egress_spec  == Row("standard_metadata", 9, 1, 5, (0..6) \cup {14, 15})       \* 0xc07f
\* A mutation of egress_port: the mask of egress_spec.
egress_portMask == Row("standard_metadata", 9, 2, 6, (0..6) \cup {14, 15})
egress_port  == Row("standard_metadata", 9, 2, 6, (0..5) \cup {13, 14, 15})   \* 0xe03f
etherType    == Row("ethernet", 16, 0, 12, 0..15)
ttl          == Row("ipv4", 8, 0, 8, 0..7)
protocol     == Row("ipv4", 8, 0, 9, 0..7)
hdrChecksum  == Row("ipv4", 16, 0, 10, 0..15)
dstAddr      == Row("ipv4", 32, 0, 16, Word)

field_instance == [ingress_port |-> ingress_port, egress_spec |-> egress_spec,
                   egress_port |-> egress_port, etherType |-> etherType, ttl |-> ttl,
                   protocol |-> protocol, hdrChecksum |-> hdrChecksum, dstAddr |-> dstAddr]
Field == DOMAIN field_instance

-----------------------------------------------------------------------------
(* The macros.                                                             *)

shl(x, n) == {b \in Word : b - n \in x}
shr(x, n) == {b \in Word : b + n \in x}

bytecount(r) == (r.bitwidth + 7 + r.bitoffset) \div 8
FIELD_BITCOUNT(r) == r.bitwidth + r.bitoffset
BitsAt(h, r, n) == {b \in 0..(n - 1) : 8 * r.byteoffset + b \in h}
FIELD_BYTES(h, r) == CASE bytecount(r) = 1 -> BitsAt(h, r, 8)
                       [] bytecount(r) = 2 -> BitsAt(h, r, 16)
                       [] OTHER            -> BitsAt(h, r, 32)

lastByte(r) == 8 * ((FIELD_BITCOUNT(r) - 1) \div 8)      \* where the field's last byte starts
BITS_MASK1(r) == r.mask \cap 0..7
BITS_MASK2(r) == r.mask \cap 8..(lastByte(r) - 1)
BITS_MASK3(r) == r.mask \cap shl(0..7, lastByte(r))

\* How far a value's top bits are moved: the field's bits end at the top of its last byte.
topShift(r) == 8 * bytecount(r) - r.bitwidth

\* res32 of MODIFY_INT32_INT32_BITS; for one byte MODIFY_INT32_INT32_HTON has the same.
Merged(h, r, v) ==
  (FIELD_BYTES(h, r) \ r.mask)
    \cup IF bytecount(r) = 1 THEN shl(v, 8 - FIELD_BITCOUNT(r)) \cap r.mask
         ELSE (v \cap BITS_MASK1(r))
              \cup (IF bytecount(r) = 2 THEN {}
                    ELSE shl(v \cap shr(BITS_MASK2(r), r.bitoffset), r.bitoffset))
              \cup shl(v \cap shr(BITS_MASK3(r), topShift(r)), topShift(r))

\* A mutation of MODIFY_INT32_INT32_BITS: all of res32 is copied.
MODIFY_INT32_INT32_BITSWide(h, r, v) ==
  LET from == 8 * r.byteoffset
      to   == from + 31
  IN  (h \ (from..to)) \cup {p \in from..to : p - from \in Merged(h, r, v)}

\* The memcpy at its end: bytecount bytes of res32 over the header's.
MODIFY_INT32_INT32_BITS(h, r, v) ==
  LET from == 8 * r.byteoffset
      to   == from + 8 * bytecount(r) - 1
  IN  (h \ (from..to)) \cup {p \in from..to : p - from \in Merged(h, r, v)}

GET_INT32_AUTO(h, r) ==
  IF bytecount(r) = 1
  THEN shr(FIELD_BYTES(h, r) \cap r.mask, 8 - FIELD_BITCOUNT(r))
  ELSE (FIELD_BYTES(h, r) \cap BITS_MASK1(r))
       \cup shr(FIELD_BYTES(h, r) \cap BITS_MASK2(r), r.bitoffset)
       \cup shr(FIELD_BYTES(h, r) \cap BITS_MASK3(r), topShift(r))

\* The same but for the middle bytes of a field of two.
EXTRACT_INT32_BITS(h, r) ==
  IF bytecount(r) = 2
  THEN (FIELD_BYTES(h, r) \cap BITS_MASK1(r))
       \cup shr(FIELD_BYTES(h, r) \cap BITS_MASK3(r), topShift(r))
  ELSE GET_INT32_AUTO(h, r)

=============================================================================
