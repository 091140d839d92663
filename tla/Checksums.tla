------------------------------ MODULE Checksums ------------------------------
(***************************************************************************)
(* The CRC programs: a table of nibbles against a table of bytes           *)
(* (crc_nibble_vs_byte.c), and a table against the branchless loop         *)
(* (side_channel/crc.c).  A word is the set of its bits that are 1, so     *)
(* that exclusive or is the symmetric difference.  32 and 8 are constants. *)
(***************************************************************************)
EXTENDS Integers, Sequences, FiniteSets, FiniteSetsExt

CONSTANTS
  CrcBits,     \* bits of a checksum
  ByteBits,    \* of a byte; a nibble has half of them
  Polynomial   \* the set of bits 0xEDB88320 is

ASSUME CrcAssumption ==
  /\ ByteBits \in Nat \ {0} /\ ByteBits % 2 = 0 /\ CrcBits \in Nat /\ CrcBits >= ByteBits
  /\ Polynomial \subseteq 0 .. CrcBits - 1

NibbleBits == ByteBits \div 2

CrcWords == SUBSET (0 .. CrcBits - 1)
Bytes    == SUBSET (0 .. ByteBits - 1)

ShiftRight(word, k) == {b - k : b \in {x \in word : x >= k}}
LowBits(word, k)    == {b \in word : b < k}

(* One bit of the division: shifted out, and subtracted if it was 1. *)
DivideBit(crc) ==
  IF 0 \in crc THEN SymDiff(ShiftRight(crc, 1), Polynomial) ELSE ShiftRight(crc, 1)

DivideBits(crc, count) ==
  LET c[k \in 0 .. count] == IF k = 0 THEN crc ELSE DivideBit(c[k - 1]) IN c[count]

make_byte_table   == [i \in Bytes |-> DivideBits(i, ByteBits)]
make_nibble_table == [i \in SUBSET (0 .. NibbleBits - 1) |-> DivideBits(i, NibbleBits)]

update_byte(crc, byte) ==
  SymDiff(make_byte_table[LowBits(SymDiff(crc, byte), ByteBits)], ShiftRight(crc, ByteBits))

update_nibble(crc, nibble) ==
  SymDiff(make_nibble_table[LowBits(SymDiff(crc, nibble), NibbleBits)], ShiftRight(crc, NibbleBits))

update_byte_via_nibble(crc, byte) ==
  update_nibble(update_nibble(crc, LowBits(byte, NibbleBits)), ShiftRight(byte, NibbleBits))

----------------------------------------------------------------------------
(* side_channel/crc.c; its table is the one of bytes.                      *)

Ones == 0 .. CrcBits - 1

crc_step(crc, byte) == DivideBits(SymDiff(crc, byte), ByteBits)

crc32_table(data) ==
  LET crc[i \in 0 .. Len(data)] == IF i = 0 THEN Ones ELSE update_byte(crc[i - 1], data[i])
  IN  Ones \ crc[Len(data)]

crc32_branchless(data) ==
  LET crc[i \in 0 .. Len(data)] == IF i = 0 THEN Ones ELSE crc_step(crc[i - 1], data[i])
  IN  Ones \ crc[Len(data)]
=============================================================================
