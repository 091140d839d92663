------------------------------- MODULE Floats -------------------------------
(***************************************************************************)
(* The float conversions of labs/d_fp16, labs/e_float_quarter and          *)
(* fp16_lab.c, on bit patterns (numbers) of any format: a single has SE    *)
(* exponent and SM fraction bits (8 and 23 in C), a half has HE and HM (5  *)
(* and 10).  The C constants are written as what they are made of:         *)
(* 0x7fffff is 2^SM - 1, 13 is SM - HM, 112 the difference of the biases,  *)
(* 0x7c00 the half infinity.  Or of disjoint fields is a sum, a mask and a *)
(* shift are % and \div.                                                   *)
(***************************************************************************)
EXTENDS Integers, Powers

CONSTANTS SE, SM, HE, HM,
          Wide         \* the width of the integer that is shifted: 64

ASSUME FormatAssumption ==
  /\ SE \in Nat /\ SM \in Nat /\ HE \in Nat /\ HM \in Nat /\ Wide \in Nat
  /\ 1 < HE /\ HE < SE /\ 0 < HM /\ HM < SM /\ SM + 1 < Wide
  /\ HM < Pow(2, SE - 1) - Pow(2, HE - 1)   \* subnormal singles are nearest to 0: 10 < 112

Singles == 0 .. Pow(2, 1 + SE + SM) - 1
Halves  == 0 .. Pow(2, 1 + HE + HM) - 1

Sign(uf) == uf \div Pow(2, SE + SM)
Exp(uf)  == (uf \div Pow(2, SM)) % Pow(2, SE)
Frac(uf) == uf % Pow(2, SM)

ExpMax   == Pow(2, SE) - 1                      \* 0xff
HExpMax  == Pow(2, HE) - 1                      \* 0x1f
Inf      == ExpMax * Pow(2, SM)                 \* 0x7f800000
HInf     == HExpMax * Pow(2, HM)                \* 0x7c00
Quiet    == Pow(2, HM - 1)                      \* 0x0200
Rebias   == Pow(2, SE - 1) - Pow(2, HE - 1)     \* 112
Drop     == SM - HM                             \* 13
Hidden   == Pow(2, SM)                          \* 0x800000
HSign(s) == s * Pow(2, HE + HM)
SSign(s) == s * Pow(2, SE + SM)

pack_f16(sign, exp, frac) == HSign(sign) + exp * Pow(2, HM) + (frac % Pow(2, HM))

(* Rounds up above one half, and at one half when the quotient is odd. *)
RoundsUp(lower, half, upper) == lower > half \/ (lower = half /\ upper % 2 = 1)

ShiftAway(value, shift) ==     \* Mutant of round_shift_right_even_u64: ties go up.
  IF shift = 0 THEN value ELSE IF shift >= Wide THEN 0
  ELSE (value + Pow(2, shift - 1)) \div Pow(2, shift)

round_shift_right_even_u64(value, shift) ==
  IF shift = 0 THEN value ELSE IF shift >= Wide THEN 0
  ELSE LET upper == value \div Pow(2, shift)
       IN upper + IF RoundsUp(value % Pow(2, shift), Pow(2, shift - 1), upper) THEN 1 ELSE 0

(* The shift that brings a subnormal's leading bit to the hidden bit's place. *)
Lead(frac, width) == CHOOSE s \in 0 .. width : Pow(2, width) <= frac * Pow(2, s) /\ frac * Pow(2, s) < Pow(2, width + 1)

half_to_float32_bits(h) ==
  LET sign == SSign(h \div Pow(2, HE + HM))
      exp  == (h \div Pow(2, HM)) % Pow(2, HE)
      frac == h % Pow(2, HM)
      s    == Lead(frac, HM)
  IN sign + CASE exp = HExpMax            -> Inf + frac * Pow(2, Drop)
              [] exp = 0 /\ frac = 0      -> 0
              [] exp = 0 /\ frac # 0      -> (1 - s + Rebias) * Hidden
                                             + ((frac * Pow(2, s)) % Pow(2, HM)) * Pow(2, Drop)
              [] exp \in 1 .. HExpMax - 1 -> (exp + Rebias) * Hidden + frac * Pow(2, Drop)

Payload(frac) == IF frac \div Pow(2, Drop) = 0 THEN Quiet ELSE frac \div Pow(2, Drop)

(* A finite non-zero number sig * 2^(e - SM), given half_exp = e + 15. *)
Rounded(sign, sig, half_exp) ==
  IF half_exp >= HExpMax THEN pack_f16(sign, HExpMax, 0)
  ELSE IF half_exp > 0
  THEN LET rounded == round_shift_right_even_u64(sig, Drop)
           carry   == rounded = Pow(2, HM + 1)
           exp     == IF carry THEN half_exp + 1 ELSE half_exp
       IN IF exp >= HExpMax THEN pack_f16(sign, HExpMax, 0)
          ELSE pack_f16(sign, exp, IF carry THEN 0 ELSE rounded)
  ELSE LET rounded == round_shift_right_even_u64(sig, Drop + 1 - half_exp)
       IN IF rounded >= Pow(2, HM) THEN pack_f16(sign, 1, 0) ELSE HSign(sign) + rounded

float32_to_float16_ref(uf) ==
  LET sign == Sign(uf)  exp == Exp(uf)  frac == Frac(uf)  s == Lead(frac, SM)
  IN IF exp = ExpMax THEN HSign(sign) + HInf + IF frac = 0 THEN 0 ELSE Payload(frac)
     ELSE IF exp = 0 /\ frac = 0 THEN HSign(sign)
     ELSE IF exp = 0 THEN Rounded(sign, frac * Pow(2, s), 1 - s - Rebias)
     ELSE Rounded(sign, Hidden + frac, exp - Rebias)

(* float32_to_float16_full is the same statements with a 32-bit sig. *)
float32_to_float16_full(uf) == float32_to_float16_ref(uf)

(* The reference of fp16_lab.c: one NaN, and subnormals are zero. *)
fp16_lab_ref(uf) ==
  IF Exp(uf) = ExpMax /\ Frac(uf) # 0 THEN HSign(Sign(uf)) + HInf + Quiet
  ELSE IF Exp(uf) = 0 THEN HSign(Sign(uf))
  ELSE float32_to_float16_ref(uf)

(* The quiz's converter: the subnormal result may carry into the exponent field. *)
float32_to_float16_quiz(uf) ==
  LET hsign == HSign(Sign(uf))  exp == Exp(uf)  frac == Frac(uf)
      hexp  == exp - Rebias
      shift == Drop + 1 - hexp
      mant  == Hidden + frac
      val   == mant \div Pow(2, shift)
      hfrac == frac \div Pow(2, Drop)
      up    == IF RoundsUp(frac % Pow(2, Drop), Pow(2, Drop - 1), hfrac) THEN 1 ELSE 0
      carry == hfrac + up = Pow(2, HM)
  IN IF exp = ExpMax THEN hsign + HInf + IF frac = 0 THEN 0 ELSE Quiet
     ELSE IF exp = 0 THEN hsign
     ELSE IF hexp >= HExpMax THEN hsign + HInf
     ELSE IF hexp <= 0
     THEN IF shift > SM + 1 THEN hsign
          ELSE hsign + val + IF RoundsUp(mant % Pow(2, shift), Pow(2, shift - 1), val) THEN 1 ELSE 0
     ELSE IF carry
     THEN hsign + IF hexp + 1 >= HExpMax THEN HInf ELSE (hexp + 1) * Pow(2, HM)
     ELSE hsign + hexp * Pow(2, HM) + hfrac + up

float32_to_float16_experiment_a(uf) == float32_to_float16_quiz(uf)

float_quarter(uf) ==
  LET sign == SSign(Sign(uf))  exp == Exp(uf)  frac == Frac(uf)
  IN CASE exp = ExpMax          -> uf
       [] exp \in 3 .. ExpMax-1 -> sign + (exp - 2) * Hidden + frac
       [] exp = 2               -> sign + round_shift_right_even_u64(Hidden + frac, 1)
       [] exp = 1               -> sign + round_shift_right_even_u64(Hidden + frac, 2)
       [] exp = 0               -> sign + round_shift_right_even_u64(frac, 2)

float_quarter_ref(uf) == float_quarter(uf)   \* the same statements, exp >= 3 for exp > 2

----------------------------------------------------------------------------
(* What the conversions compute: magnitudes as integers, in units of the   *)
(* smallest single.  The magnitude of infinity is that of the number after *)
(* the largest finite one, which is where rounding starts to overflow.     *)

Magnitude(m, fraction) ==
  LET exp == m \div Pow(2, fraction)  frac == m % Pow(2, fraction)
  IN IF exp = 0 THEN frac ELSE (Pow(2, fraction) + frac) * Pow(2, exp - 1)

SingleValue(m) == Magnitude(m, SM)
HalfValue(m)   == Magnitude(m, HM) * Pow(2, Rebias + Drop)

Distance(a, b) == IF a < b THEN b - a ELSE a - b

(* m is the pattern nearest to the value, of two the even one; patterns are
   ordered as their values are, so the neighbours decide. *)
Nearest(value, m, V(_), top) ==
  /\ m \in 0 .. top
  /\ \A k \in {m - 1, m + 1} \cap (0 .. top) :
       \/ Distance(value, V(m)) < Distance(value, V(k))
       \/ Distance(value, V(m)) = Distance(value, V(k)) /\ m % 2 = 0
=============================================================================
