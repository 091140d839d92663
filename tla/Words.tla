-------------------------------- MODULE Words --------------------------------
(***************************************************************************)
(* The fixed-width integer labs: high words of products                    *)
(* (c_mul_high_lab.c), rejection sampling (modulo_bias/main.c), bit        *)
(* packing (bitpack_lab.c), the fixed-point average (ewma_lab.c) and the   *)
(* guarded Exp-Golomb decoder (decode_unsigned_safe_test.c).  Numbers are  *)
(* kept modulo a power of two where the C types are; the widths are        *)
(* constants.                                                              *)
(***************************************************************************)
EXTENDS Integers, Sequences, SequencesExt, FiniteSets, FiniteSetsExt, Powers

CONSTANTS
  W,           \* bits of a uint32_t; a uint64_t has twice as many
  MaxPrefix,   \* the longest prefix decode_unsigned_safe accepts: 63
  IntBits      \* bits of an int

ASSUME WidthAssumption == W \in Nat /\ W > 1 /\ IntBits \in Nat /\ IntBits > 1 /\ MaxPrefix \in Nat
                          /\ IntBits <= MaxPrefix + 1

Low(x, bits) == x % Pow(2, bits)

(* The number a word is as a two's complement integer. *)
Signed(x, bits) == IF x >= Pow(2, bits - 1) THEN x - Pow(2, bits) ELSE x

----------------------------------------------------------------------------
(* c_mul_high_lab.c.  The signed high word is the arithmetic shift of the  *)
(* signed product, \div rounds down.                                       *)

signed_high_prod(x, y, bits) == (Signed(x, bits) * Signed(y, bits)) \div Pow(2, bits)

(* The mask of x's sign bit, anded with y. *)
SignMasked(x, y, bits) == IF x >= Pow(2, bits - 1) THEN y ELSE 0

HalfCorrected(x, y, bits) ==    \* Mutant of unsigned_high_prod_formula: x's sign only.
  Low(signed_high_prod(x, y, bits) + SignMasked(x, y, bits), bits)

unsigned_high_prod_formula(x, y, bits) ==
  Low(signed_high_prod(x, y, bits) + SignMasked(x, y, bits) + SignMasked(y, x, bits), bits)

unsigned_high_prod_oracle(x, y, bits) == (x * y) \div Pow(2, bits)

mul_u64_u32_shr_oracle(a, b, shift) == Low((a * b) \div Pow(2, shift), 2 * W)

(* a = a_hi 2^W + a_lo; the low word of the product is needed below W only. *)
mul_u64_u32_shr_fallback(a, b, shift) ==
  LET p0  == Low(a, W) * b
      p1  == (a \div Pow(2, W)) * b
      mid == Low(p1 + p0 \div Pow(2, W), 2 * W)
  IN IF shift < W THEN Low(mid * Pow(2, W - shift) + Low(p0, W) \div Pow(2, shift), 2 * W)
     ELSE mid \div Pow(2, shift - W)

size_mul_like(a, b) ==
  LET SizeMax == Pow(2, 2 * W) - 1
  IN IF a = 0 \/ b = 0 THEN 0 ELSE IF a > SizeMax \div b THEN SizeMax ELSE a * b

----------------------------------------------------------------------------
(* modulo_bias/main.c: the words lemire_rejection accepts, and what it     *)
(* returns for one of them.                                                *)

ThresholdPlain(n) == n                   \* Mutant of Threshold: rejects below n.
Threshold(n) == Low(-n, W) % n

Accepted(x, n) == Low(x * n, W) >= Threshold(n)
lemire(x, n)   == (x * n) \div Pow(2, W)

----------------------------------------------------------------------------
(* bitpack_lab.c: a byte array as the set of its bits that are 1, each the *)
(* pair of the byte and the bit in it; idx is a sequence of bytes.         *)

bytes_for(n, bits) == (n * bits + 7) \div 8

low_mask(bits) == Pow(2, bits) - 1

PlaceOf(bp)    == <<bp \div 8, bp % 8>>
BitOf(v, j)  == (v \div Pow(2, j)) % 2

pack_indices(idx, bits) ==
  UNION {{PlaceOf((i - 1) * bits + j) :
            j \in {k \in 0 .. bits - 1 : BitOf(idx[i] % (low_mask(bits) + 1), k) = 1}} : i \in DOMAIN idx}

(* value of the inner loop of unpack_indices, from the bit bp on. *)
Unpacked(packed, bp, bits) ==
  LET value[j \in 0 .. bits] ==
        IF j = 0 THEN 0
        ELSE value[j - 1] + (IF PlaceOf(bp + j - 1) \in packed THEN Pow(2, j - 1) ELSE 0)
  IN value[bits]

unpack_indices(packed, n, bits) == [i \in 1 .. n |-> Unpacked(packed, (i - 1) * bits, bits)]

----------------------------------------------------------------------------
(* ewma_lab.c.                                                             *)

weight_shift_from_rcp(rcp) ==
  IF \E k \in 0 .. rcp : Pow(2, k) = rcp THEN CHOOSE k \in 0 .. rcp : Pow(2, k) = rcp ELSE -1

(* Mutant of ewma: the sample is weighted before it is scaled. *)
ewma_weighted_first(internal, x, precision, shift) ==
  internal - internal \div Pow(2, shift) + (x \div Pow(2, shift)) * Pow(2, precision)

ewma(internal, x, precision, shift) ==
  internal - internal \div Pow(2, shift) + (x * Pow(2, precision)) \div Pow(2, shift)

----------------------------------------------------------------------------
(* decode_unsigned_safe_test.c: bits is the stream, a sequence of 0 and 1. *)

IntMax == Pow(2, IntBits - 1) - 1
ToInt(x) == Signed(Low(x, IntBits), IntBits)

(* What an operation on ints may give whose exact result is x: an overflow is
   undefined and may leave any int. *)
IntValues == -IntMax - 1 .. IntMax
IntResult(x) == IF x \in IntValues THEN {x} ELSE IntValues

Bit(bits, i, eof) == IF i <= Len(bits) THEN bits[i] ELSE eof

(* The zeros next_bit returns before the first 1; the original reads 1 at the end. *)
Prefix(bits) ==
  LET ones == {i \in DOMAIN bits : bits[i] = 1}
  IN IF ones = {} THEN Len(bits) ELSE Min(ones) - 1

(* b after k suffix bits. *)
Value(bits, eof) ==
  LET a == Prefix(bits)
      b[k \in 0 .. a] == IF k = 0 THEN 1 ELSE 2 * b[k - 1] + Bit(bits, a + 1 + k, eof)
  IN b

(* What it may return: b is an int, and a shift that overflows is undefined. *)
decode_unsigned_original(bits) ==
  LET b == Value(bits, 1)[Prefix(bits)] IN IF b \in IntValues THEN {b - 1} ELSE IntValues

(* Mutant of Overflows: no check of b. *)
NeverOverflows(b) == FALSE
Overflows(b) == b > IntMax + 1

(* What it may return: b stays an unsigned long long up to the check, which lets
   IntMax + 1 pass; the cast turns that into the least int, less 1. *)
decode_unsigned_safe(bits) ==
  LET a      == Prefix(bits)
      b      == Value(bits, 0)
      Eof(k) == a + 1 + k > Len(bits)
      stops  == {k \in 1 .. a : Eof(k) \/ Overflows(b[k])}
  IN IF a > MaxPrefix THEN {-2}
     ELSE IF a = Len(bits) THEN {-1}
     ELSE IF stops = {} THEN IntResult(ToInt(b[a]) - 1)
     ELSE IF Eof(Min(stops)) THEN {-1} ELSE {-3}

(* The code of a value: as many zeros as it has bits after its first, then the
   value; a value without bits is written as a one. *)
CodeOf(value) ==
  LET n == Max({k \in 0 .. IntBits : Pow(2, k) <= value})
  IN IF value <= 0 THEN <<1>>
     ELSE [i \in 1 .. 2 * n + 1 |-> IF i <= n THEN 0 ELSE BitOf(value, 2 * n + 1 - i)]

(* What it may write: v + 1 is an int, and overflows for the greatest v. *)
make_code_for_value(v) == {CodeOf(value) : value \in IntResult(v + 1)}
=============================================================================
