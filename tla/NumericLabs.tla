----------------------------- MODULE NumericLabs -----------------------------
(***************************************************************************)
(* The main programs of the numeric labs.  Each one draws inputs, from     *)
(* loops over all patterns, tables and a pseudorandom generator, calls its *)
(* functions on them and exits at the first result its reference does not  *)
(* give.  Here one program runs, and every draw may return any input of    *)
(* its type (Inputs bounds them); ewma_lab keeps its average from sample   *)
(* to sample, and modulo_bias draws again when a word is rejected.  Tables *)
(* on stdout and csv files are left out.                                   *)
(***************************************************************************)
EXTENDS Floats, Words, Lookups, Digits, Checksums

CONSTANTS
  Indices,     \* the bytes bitpack_lab packs
  PackLen,     \* how many at most
  StreamLen,   \* the longest stream of bits decoded
  Weights,     \* ewma_lab: weight_rcp,
  Precisions,  \* precision,
  Samples,     \* and samples
  Steps,       \* how many samples one average takes
  Keys, Sizes, \* tree_cache_lab: keys, and how many are looked among
  Rows,        \* the rows of the list_sort trace
  Numbers,     \* balanced_ternary: how far from 0
  Denominator, \* binary_fraction: the largest denominator
  DataLen      \* side_channel: the longest data

ASSUME AverageAssumption ==
  Weights \subseteq Nat \ {0} /\ Precisions \subseteq Nat /\ Samples \subseteq Nat
ASSUME StreamAssumption == StreamLen \in Nat
ASSUME LookupAssumption == Keys \subseteq Int /\ Sizes \subseteq Nat \ {0}
ASSUME DataAssumption == DataLen \in Nat
ASSUME RowAssumption == Rows \in Nat
ASSUME DigitsAssumption == Numbers \in Nat /\ Denominator \in Nat
ASSUME PackAssumption == Indices \subseteq Nat /\ PackLen \in Nat

VARIABLES
  lab,         \* the program
  phase,       \* draw, call, checked, or how it stopped
  input,       \* what was drawn
  result,      \* got, want, and what else the call returned
  average      \* run_one's state: fixed_internal, f_avg and step

vars == <<lab, phase, input, result, average>>

None == [none |-> 0]

(* f_avg is the rational exact / (2^precision * weight^step). *)
Fresh == [internal |-> 0, exact |-> 0, step |-> 0]

Words1 == 0 .. Pow(2, W) - 1
Words2 == 0 .. Pow(2, 2 * W) - 1

NoHalf == -1

(* What each program draws.  The round trip draws a half and converts it. *)
HalfCases ==
  [half : {NoHalf}, uf : Singles] \cup {[half |-> h, uf |-> half_to_float32_bits(h)] : h \in Halves}

(* fill_data: keys, sorted, in which some may be equal; the order they are
   inserted in; the lab asks for keys only, here also for what lies between. *)
LookupCases(n) ==
  [keys  : {k \in [1 .. n -> Keys] : \A i \in 1 .. n - 1 : k[i] <= k[i + 1]},
   order : {o \in [1 .. n -> 1 .. n] : ToSet(o) = 1 .. n},
   query : UNION {{k - 1, k, k + 1} : k \in Keys}]

Inputs == [
  d_fp16          |-> HalfCases,
  fp16_lab        |-> HalfCases,
  e_float_quarter |-> [uf : Singles],
  c_mul_high      |-> [f : {"high32"}, x : Words1, y : Words1]
                      \cup [f : {"high64", "size_mul"}, x : Words2, y : Words2]
                      \cup [f : {"shr"}, x : Words2, y : Words1, shift : 0 .. 2 * W - 1],
  bitpack_lab     |-> [idx : UNION {[1 .. n -> Indices] : n \in 1 .. PackLen}, bits : 1 .. 7],
  modulo_bias     |-> [n : 1 .. Pow(2, W) - 1, x : Words1],
  ewma_lab        |-> [weight : Weights, precision : Precisions],
  decode_unsigned |-> [bits : UNION {[1 .. n -> {0, 1}] : n \in 0 .. StreamLen}],
  tree_cache      |-> UNION {LookupCases(n) : n \in Sizes},
  sort_trace      |-> [count : 1 .. Rows],
  ternary         |-> [value : -Numbers .. Numbers],
  binary_fraction |-> UNION {[num : 0 .. d - 1, den : {d}, bits : 1 .. Denominator] : d \in 1 .. Denominator},
  crc_nibble      |-> [state : CrcWords, byte : Bytes],
  side_channel    |-> [data : UNION {[1 .. n -> Bytes] : n \in 0 .. DataLen}]]

Init ==
  /\ lab \in DOMAIN Inputs /\ phase = "draw"
  /\ input = None /\ result = None /\ average = Fresh

Draw ==
  /\ phase = "draw" /\ phase' = "call"
  /\ input' \in Inputs[lab]
  /\ UNCHANGED <<lab, result, average>>

Calling(name) == lab = name /\ phase = "call"
Returns(r) ==
  /\ result' = r /\ phase' = "checked"
  /\ UNCHANGED <<lab, input, average>>

(* verify_roundtrip_cases, verify_specials, verify_random_cases. *)
ConvertFull ==
  /\ Calling("d_fp16")
  /\ Returns([got |-> float32_to_float16_full(input.uf), want |-> float32_to_float16_ref(input.uf),
              quiz |-> float32_to_float16_quiz(input.uf)])

ConvertExperiment ==
  /\ Calling("fp16_lab")
  /\ Returns([got |-> float32_to_float16_experiment_a(input.uf), want |-> fp16_lab_ref(input.uf)])

Quarter ==
  /\ Calling("e_float_quarter")
  /\ Returns([got |-> float_quarter(input.uf), want |-> float_quarter_ref(input.uf)])

verify_unsigned_high_prod32 ==
  /\ Calling("c_mul_high") /\ input.f = "high32"
  /\ Returns([got  |-> unsigned_high_prod_formula(input.x, input.y, W),
              want |-> unsigned_high_prod_oracle(input.x, input.y, W)])

verify_unsigned_high_prod ==
  /\ Calling("c_mul_high") /\ input.f = "high64"
  /\ Returns([got  |-> unsigned_high_prod_formula(input.x, input.y, 2 * W),
              want |-> unsigned_high_prod_oracle(input.x, input.y, 2 * W)])

verify_mul_u64_u32_shr ==
  /\ Calling("c_mul_high") /\ input.f = "shr"
  /\ Returns([got  |-> mul_u64_u32_shr_fallback(input.x, input.y, input.shift),
              want |-> mul_u64_u32_shr_oracle(input.x, input.y, input.shift)])

(* The lab's table has the expected result; here it is the saturated product. *)
verify_size_mul_like ==
  /\ Calling("c_mul_high") /\ input.f = "size_mul"
  /\ Returns([got  |-> size_mul_like(input.x, input.y),
              want |-> Min({input.x * input.y, Pow(2, 2 * W) - 1})])

PackAndUnpack ==
  /\ Calling("bitpack_lab")
  /\ LET packed == pack_indices(input.idx, input.bits) n == Len(input.idx) IN
     Returns([got    |-> unpack_indices(packed, n, input.bits),
              want   |-> [i \in 1 .. n |-> input.idx[i] % (low_mask(input.bits) + 1)],
              packed |-> packed])

(* A rejected word: lemire_rejection draws the next one for the same n. *)
Reject ==
  /\ Calling("modulo_bias") /\ ~Accepted(input.x, input.n)
  /\ \E x \in Words1 : input' = [input EXCEPT !.x = x]
  /\ UNCHANGED <<lab, phase, result, average>>

Accept ==
  /\ Calling("modulo_bias") /\ Accepted(input.x, input.n)
  /\ Returns([got |-> lemire(input.x, input.n)])

Decode ==
  /\ Calling("decode_unsigned")
  /\ \E safe \in decode_unsigned_safe(input.bits), original \in decode_unsigned_original(input.bits) :
       Returns([got |-> safe, original |-> original])

(* run_size: the same query to the three structures. *)
LookUp ==
  /\ Calling("tree_cache")
  /\ LET n == Len(input.keys)
         values == [i \in 1 .. n |-> ValueOf(input.keys[i])]
     IN Returns([bst   |-> node_lookup(bst_build(input.keys, values, input.order), input.query),
                 array |-> array_lookup(input.keys, values, n, input.query),
                 block |-> block_lookup(block_build(input.keys, n), input.keys, values, n, input.query)])

(* write_trace_csv: one row. *)
TraceRow ==
  /\ Calling("sort_trace")
  /\ Returns([ones |-> count_trailing_ones(input.count - 1), runs |-> runs_from_count(input.count)])

(* build_demo of balanced_ternary.py. *)
ConvertTernary ==
  /\ Calling("ternary")
  /\ LET text == to_balanced_ternary(input.value) IN
     Returns([text    |-> text, back |-> from_balanced_ternary(text),
              negated |-> from_balanced_ternary(negate_text(text)),
              trace   |-> trace_conversion(input.value)])

(* build_demo of binary_fraction.py. *)
ExpandFraction ==
  /\ Calling("binary_fraction")
  /\ Returns([serial |-> serial_bits(input.num, input.den, input.bits),
              form   |-> canonical_repeat(input.num, input.den, input.bits)])

UpdateCrc ==
  /\ Calling("crc_nibble")
  /\ Returns([got  |-> update_byte_via_nibble(input.state, input.byte),
              want |-> update_byte(input.state, input.byte)])

(* measure calls both on the same data; nothing compares them. *)
ChecksumData ==
  /\ Calling("side_channel")
  /\ Returns([table |-> crc32_table(input.data), branchless |-> crc32_branchless(input.data)])

NotPowerOfTwo ==
  /\ Calling("ewma_lab") /\ weight_shift_from_rcp(input.weight) < 0
  /\ phase' = "failed"
  /\ UNCHANGED <<lab, input, result, average>>

AddSample ==
  LET shift == weight_shift_from_rcp(input.weight) IN
  /\ Calling("ewma_lab") /\ shift >= 0 /\ average.step < Steps
  /\ \E x \in Samples :
       average' = [internal |-> ewma(average.internal, x, input.precision, shift),
                   exact    |-> average.exact * (input.weight - 1)
                                + x * Pow(2, input.precision) * Pow(input.weight, average.step),
                   step     |-> average.step + 1]
  /\ UNCHANGED <<lab, phase, input, result>>

EndOfRun ==
  /\ Calling("ewma_lab") /\ average.step = Steps
  /\ phase' = "draw" /\ input' = None /\ average' = Fresh
  /\ UNCHANGED <<lab, result>>

(* fail_case, or the next case; two of the programs only record what they got. *)
Compare ==
  /\ phase = "checked"
  /\ phase' = (IF "want" \in DOMAIN result /\ result.got # result.want THEN "failed" ELSE "draw")
  /\ input' = None /\ result' = None
  /\ UNCHANGED <<lab, average>>

Next ==
  \/ Draw \/ Compare
  \/ ConvertFull \/ ConvertExperiment \/ Quarter
  \/ verify_unsigned_high_prod32 \/ verify_unsigned_high_prod
  \/ verify_mul_u64_u32_shr \/ verify_size_mul_like
  \/ PackAndUnpack \/ Reject \/ Accept \/ Decode \/ LookUp
  \/ TraceRow \/ ConvertTernary \/ ExpandFraction \/ UpdateCrc \/ ChecksumData
  \/ NotPowerOfTwo \/ AddSample \/ EndOfRun

Spec == Init /\ [][Next]_vars

----------------------------------------------------------------------------
(* Properties.                                                             *)

Checked(name) == lab = name /\ phase = "checked"

SameSign(h, uf) == h \div Pow(2, HE + HM) = Sign(uf)
HalfMagnitude(h) == h % Pow(2, HE + HM)

(* h is uf in half precision: the nearest number, of two the even one, which
   overflows to infinity from half a unit above the largest; a NaN is a NaN. *)
IsHalfOf(h, uf) ==
  LET m == uf % Pow(2, SE + SM) IN
  /\ SameSign(h, uf)
  /\ IF m > Inf THEN HalfMagnitude(h) > HInf
     ELSE Nearest(SingleValue(m), HalfMagnitude(h), HalfValue, HInf)

(* Every converter of the three float labs rounds to nearest even: normal and
   subnormal results, carries into the exponent, overflow; and a half that went
   to single and back is the same half, its NaN payload too where the converter
   keeps one. *)
NearestEven ==
  /\ Checked("d_fp16") =>
       /\ \A h \in {result.got, result.want, result.quiz} : IsHalfOf(h, input.uf)
       /\ input.half # NoHalf => result.got = input.half
  /\ Checked("fp16_lab") =>
       /\ \A h \in {result.got, result.want} : IsHalfOf(h, input.uf)
       /\ input.half # NoHalf /\ HalfMagnitude(input.half) <= HInf => result.got = input.half
  /\ Checked("e_float_quarter") =>
       LET m == input.uf % Pow(2, SE + SM) IN
       IF m >= Inf THEN result.got = input.uf
       ELSE /\ Sign(result.got) = Sign(input.uf)
            /\ Nearest(SingleValue(m), result.got % Pow(2, SE + SM), LAMBDA k : 4 * SingleValue(k), Inf)

(* The split and corrected products lose no carry at any width, operand or
   shift, and the saturating product saturates exactly when it overflows: no
   comparison of the lab ever fails. *)
HighWordsExact == lab = "c_mul_high" => phase # "failed"

(* What is written in digits is what was given.  Unpacking restores the packed
   indices, masked to their bits, and no bit was written past the bytes memset
   cleared, indices that straddle bytes included.  Balanced ternary and its
   digitwise negation convert back for either sign, without a leading zero, and
   the traced rounds end at 0.  A binary fraction with its repeating part is the
   fraction; cut off by the limit it is as close as its bits allow. *)
NumbersRestored ==
  /\ Checked("bitpack_lab") =>
       /\ result.got = result.want
       /\ \A place \in result.packed : place[1] < bytes_for(Len(input.idx), input.bits)
  /\ Checked("ternary") =>
       /\ result.back = input.value /\ result.negated = -input.value
       /\ input.value # 0 => Head(result.text) # 0
       /\ Last(result.trace).quotient = 0
  /\ Checked("binary_fraction") =>
       LET serial == NumberOf(2, result.serial)
           prefix == NumberOf(2, result.form.prefix)
           p      == Pow(2, Len(result.form.prefix))
           q      == Pow(2, Len(result.form.repeat)) - 1
       IN /\ serial * input.den <= input.num * Pow(2, input.bits)
          /\ input.num * Pow(2, input.bits) < (serial + 1) * input.den
          /\ IF q > 0
             THEN input.num * p * q = input.den * (prefix * q + NumberOf(2, result.form.repeat))
             ELSE input.num * p = input.den * prefix \/ (p = Pow(2, input.bits) /\ prefix = serial)

(* Runs, the last two of which are merged one time after another. *)
Merged(runs, times) ==
  LET merged[k \in 0 .. times] ==
        IF k = 0 THEN runs
        ELSE LET r == merged[k - 1] n == Len(r) IN Append(SubSeq(r, 1, n - 2), r[n - 1] + r[n])
  IN merged

(* From one row of the trace to the next, the new element is a run of one, and
   merging the last two runs as often as the row says leaves the runs it prints;
   every merge is of two runs of one length. *)
PendingRuns ==
  Checked("sort_trace") =>
    LET merged == Merged(Append(runs_from_count(input.count - 1), 1), result.ones)
    IN /\ result.runs = merged[result.ones]
       /\ \A k \in 0 .. result.ones - 1 :
            LET n == Len(merged[k]) IN n > 1 /\ merged[k][n - 1] = merged[k][n]

(* Whatever n, each of its residues is the result of as many words as any
   other: rejection leaves no bias.  (The generator never returns the word 0.) *)
LemireUniform ==
  lab = "modulo_bias" /\ phase = "call" =>
    \A v \in 0 .. input.n - 1 :
      Cardinality({x \in Words1 : Accepted(x, input.n) /\ lemire(x, input.n) = v}) = Pow(2, W) \div input.n

(* The guarded decoder inverts the encoder on every int but the greatest, with
   anything after the code; what it returns from any other stream is an error,
   and where it returns a value the original decoder returns the same one.  The
   one exception is the code of v + 1 = IntMax + 1, which its check lets pass
   although the result does not fit: both decoders are undefined on it, and the
   encoder, which would have to add 1 to IntMax, is on that v. *)
SafeDecodeInverts ==
  Checked("decode_unsigned") =>
    /\ \A v \in 0 .. IntMax - 1 :
         \A code \in make_code_for_value(v) : IsPrefix(code, input.bits) => result.got = v
    /\ result.got >= 0 /\ ~IsPrefix(CodeOf(IntMax + 1), input.bits) =>
         /\ result.got < IntMax /\ result.original = result.got
         /\ \A code \in make_code_for_value(result.got) : IsPrefix(code, input.bits)

(* The variants a lab measures do the same work.  The pointer tree, the sorted
   array and the block index answer alike, equal keys, partial last blocks and
   keys that are not there included, which one common sum does not show; a table
   of nibbles, a table of bytes and the branchless loop divide by one polynomial. *)
VariantsAgree ==
  /\ Checked("tree_cache") =>
       LET there == input.query \in ToSet(input.keys)
       IN  {result.bst, result.array, result.block} = {IF there THEN ValueOf(input.query) ELSE 0}
  /\ lab = "crc_nibble" => phase # "failed"
  /\ Checked("side_channel") => result.table = result.branchless

(* However long it runs and whatever the samples, truncation never takes the
   fixed average a whole weight_rcp of its units from the exact one. *)
AverageStaysClose ==
  lab = "ewma_lab" /\ phase = "call" =>
    Distance(average.internal * Pow(input.weight, average.step), average.exact)
      < input.weight * Pow(input.weight, average.step)
=============================================================================
