-------------------------------- MODULE Digits --------------------------------
(***************************************************************************)
(* Programs that write numbers as digits: the pending runs of list_sort as *)
(* the binary digits of the element count (ch_sort_trace.c), balanced      *)
(* ternary (balanced_ternary.py) and binary fractions with the repeating   *)
(* part found (binary_fraction.py).  A text is the sequence of its digits; *)
(* a fraction keeps its denominator, so a remainder is a numerator.        *)
(***************************************************************************)
EXTENDS Integers, Sequences, SequencesExt, FiniteSets, FiniteSetsExt, Powers

----------------------------------------------------------------------------
(* ch_sort_trace.c.  A count is below 2^count, which bounds its digits.    *)

count_trailing_ones(value) ==
  Min({k \in 0 .. value + 1 : (value \div Pow(2, k)) % 2 = 0})

(* Mutant of highest_power_of_two_le: a power of two is not its own. *)
power_of_two_lt(value) == Max({0} \cup {x \in {Pow(2, j) : j \in 0 .. value} : x < value})

highest_power_of_two_le(value) == Max({0} \cup {x \in {Pow(2, j) : j \in 0 .. value} : x <= value})

(* The runs, from the bits below 2^count down; none above the highest counts. *)
runs_from_count(count) ==
  LET top == highest_power_of_two_le(count)
      runs[k \in 0 .. count] ==
        IF k = 0 THEN <<>>
        ELSE LET bit == Pow(2, count - k)
             IN  IF bit <= top /\ (count \div bit) % 2 = 1 THEN Append(runs[k - 1], bit) ELSE runs[k - 1]
  IN runs[count]

----------------------------------------------------------------------------
(* balanced_ternary.py.  divmod rounds down, for negative numbers too.     *)

Rounds(v) == 1 + (IF v < 0 THEN -v ELSE v)     \* more than the loop takes

Carried(n) == IF n % 3 = 2 THEN n \div 3 + 1 ELSE n \div 3

DigitUnbalanced(n) == n % 3     \* Mutant of Digit: 2 is not written as -1.
Digit(n) == IF n % 3 = 2 THEN -1 ELSE n % 3

(* n after k rounds of the loop, which ends at 0. *)
Quotients(value) ==
  LET n[k \in 0 .. Rounds(value)] == IF k = 0 THEN value ELSE Carried(n[k - 1]) IN n

(* The rounds of trace_conversion: the value, what is left of it, its digit. *)
trace_conversion(value) ==
  LET n == Quotients(value)
      rounds == IF value = 0 THEN 1 ELSE Min({k \in DOMAIN n : n[k] = 0} \cup {Rounds(value)})
  IN [k \in 1 .. rounds |-> [value |-> n[k - 1], quotient |-> n[k], digit |-> Digit(n[k - 1])]]

to_balanced_ternary(value) ==
  LET steps == trace_conversion(value) IN Reverse([k \in DOMAIN steps |-> steps[k].digit])

(* The number that digits are in a base, the first digit first. *)
NumberOf(base, digits) ==
  LET total[k \in 0 .. Len(digits)] == IF k = 0 THEN 0 ELSE base * total[k - 1] + digits[k]
  IN  total[Len(digits)]

from_balanced_ternary(text) == NumberOf(3, text)

negate_text(text) == [k \in DOMAIN text |-> -text[k]]

----------------------------------------------------------------------------
(* binary_fraction.py.                                                     *)

(* Doubled and reduced by the bit: the remainder after k rounds. *)
Remainders(num, den, count) ==
  LET r[k \in 0 .. count] == IF k = 0 THEN num ELSE (2 * r[k - 1]) % den IN r

serial_bits(num, den, count) ==
  LET r == Remainders(num, den, count)
  IN [k \in 1 .. count |-> IF 2 * r[k - 1] >= den THEN 1 ELSE 0]

(* The loop ends at remainder 0, at the limit, or where a remainder comes back:
   only then there is a repeating part. *)
canonical_repeat(num, den, limit) ==
  LET r       == Remainders(num, den, limit)
      Back(k) == \E j \in 0 .. k - 1 : r[j] = r[k]
      rounds  == Min({k \in 0 .. limit : r[k] = 0 \/ k = limit \/ Back(k)})
      bits    == serial_bits(num, den, rounds)
      again   == rounds < limit /\ r[rounds] # 0
      start   == IF again THEN CHOOSE j \in 0 .. rounds - 1 : r[j] = r[rounds] ELSE rounds
  IN [prefix |-> SubSeq(bits, 1, start), repeat |-> SubSeq(bits, start + 1, rounds)]
=============================================================================
