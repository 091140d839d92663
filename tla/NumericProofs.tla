---------------------------- MODULE NumericProofs ----------------------------
(***************************************************************************)
(* Theorems about the numeric labs, for words of every width and numbers   *)
(* of every size: high words of products, rejection sampling, the          *)
(* fixed-point average, the guarded decoder; checksums, lookups, the       *)
(* pending runs of list_sort, what is written in digits, and how floats of *)
(* any two formats are rounded.                                            *)
(*                                                                         *)
(* The programs only draw inputs and compare, so the invariants are short: *)
(* what was drawn has its type, and a result is what the function returned *)
(* for it.  What there is to prove is about the functions, and the one     *)
(* average that is kept from sample to sample.  Powers and loops are       *)
(* recursive functions; inductions go by the least number that is not as   *)
(* it should be (LeastNumber).  Products of variables are given names      *)
(* before they are compared, so that what is left to the prover is linear. *)
(***************************************************************************)
EXTENDS NumericLabs, Facts, FiniteSetTheorems


----------------------------------------------------------------------------
(* Powers.                                                                 *)

(* A table of the first powers. *)
PowerRule(h, b, n) == h = [k \in 0 .. n |-> IF k = 0 THEN 1 ELSE b * h[k - 1]]

(* Pow reads the table that its definition makes. *)
LEMMA PowIs ==
  ASSUME NEW b, NEW n
  PROVE  Pow(b, n) = (CHOOSE h : PowerRule(h, b, n))[n]
BY Zenon DEF Pow, PowerRule

(* What a table of powers holds. *)
LEMMA TableHolds ==
  ASSUME NEW b \in Int, NEW n \in Nat, NEW h, PowerRule(h, b, n)
  PROVE  h[0] = 1 /\ \A k \in 1 .. n : h[k] = b * h[k - 1]
<1>1. \A k \in 0 .. n : h[k] = IF k = 0 THEN 1 ELSE b * h[k - 1]
  BY Zenon DEF PowerRule
<1> QED BY <1>1

(* There is one, however long. *)
LEMMA TableThere ==
  ASSUME NEW b \in Int, NEW n \in Nat
  PROVE  \E h : PowerRule(h, b, n)
<1> DEFINE T == {m \in Nat : ~ \E h : PowerRule(h, b, m)}
<1>1. ASSUME T # {} PROVE FALSE
  <2>1. PICK m \in T : \A j \in T : m <= j
    <3>1. T \in SUBSET Nat
      OBVIOUS
    <3> HIDE DEF T
    <3> QED BY <1>1, <3>1, LeastNumber
  <2>2. m # 0
    <3>1. PowerRule([k \in 0 .. 0 |-> 1], b, 0)
      BY DEF PowerRule
    <3> QED BY <2>1, <3>1
  <2>3. m - 1 \in Nat /\ ~(m <= m - 1) /\ m \in Nat
    BY <2>1, <2>2
  <2>4. PICK g : PowerRule(g, b, m - 1)
    BY <2>1, <2>3
  <2> DEFINE h == [k \in 0 .. m |-> IF k = 0 THEN 1 ELSE b * g[k - 1]]
  <2>5. g[0] = 1 /\ \A k \in 1 .. m - 1 : g[k] = b * g[k - 1]
    BY <2>3, <2>4, TableHolds
  <2>6. \A k \in 0 .. m - 1 : h[k] = g[k]
    BY <2>3, <2>5
  <2>7. \A k \in 0 .. m : (IF k = 0 THEN 1 ELSE b * g[k - 1]) = (IF k = 0 THEN 1 ELSE b * h[k - 1])
    <3> HIDE DEF h
    <3>1. ASSUME NEW k \in 0 .. m, k # 0 PROVE g[k - 1] = h[k - 1]
      <4>1. k - 1 \in 0 .. m - 1
        BY <2>3, <3>1
      <4> QED BY <2>6, <4>1
    <3> QED BY <3>1
  <2>8. PowerRule(h, b, m)
    BY <2>7, Zenon DEF PowerRule
  <2> QED BY <2>1, <2>8
<1> QED BY <1>1

(* A shorter one is the beginning of a longer one. *)
LEMMA TablesAgree ==
  ASSUME NEW b \in Int, NEW m \in Nat, NEW n \in Nat, m <= n,
         NEW g, PowerRule(g, b, m), NEW h, PowerRule(h, b, n)
  PROVE  g[m] = h[m]
<1>1. /\ g[0] = 1 /\ \A k \in 1 .. m : g[k] = b * g[k - 1]
      /\ h[0] = 1 /\ \A k \in 1 .. n : h[k] = b * h[k - 1]
  BY TableHolds
<1> DEFINE T == {k \in 0 .. m : g[k] # h[k]}
<1>2. ASSUME T # {} PROVE FALSE
  <2>1. PICK k \in T : \A j \in T : k <= j
    <3>1. T \in SUBSET Nat
      OBVIOUS
    <3> HIDE DEF T
    <3> QED BY <1>2, <3>1, LeastNumber
  <2>2. k # 0
    BY <1>1, <2>1
  <2>3. k \in 1 .. m /\ k \in 1 .. n /\ k - 1 \in 0 .. m /\ ~(k <= k - 1)
    BY <2>1, <2>2
  <2>4. g[k - 1] = h[k - 1]
    BY <2>1, <2>3
  <2> QED BY <1>1, <2>1, <2>3, <2>4
<1> QED BY <1>2

(* Powers. *)
LEMMA PowStep ==
  ASSUME NEW b \in Int
  PROVE  Pow(b, 0) = 1 /\ \A n \in Nat : Pow(b, n + 1) = b * Pow(b, n)
<1>1. \A n \in Nat : PowerRule(CHOOSE h : PowerRule(h, b, n), b, n)
  <2> TAKE n \in Nat
  <2>1. \E h : PowerRule(h, b, n)
    BY TableThere
  <2> QED BY <2>1, Zenon
<1>2. Pow(b, 0) = 1
  <2> DEFINE g == CHOOSE h : PowerRule(h, b, 0)
  <2>1. PowerRule(g, b, 0)
    BY <1>1
  <2>2. Pow(b, 0) = g[0]
    BY PowIs
  <2> HIDE DEF g
  <2> QED BY <2>1, <2>2, TableHolds
<1>3. ASSUME NEW n \in Nat PROVE Pow(b, n + 1) = b * Pow(b, n)
  <2> DEFINE g == CHOOSE h : PowerRule(h, b, n)
             f == CHOOSE h : PowerRule(h, b, n + 1)
  <2>1. n + 1 \in Nat /\ n <= n + 1 /\ n + 1 \in 1 .. n + 1 /\ (n + 1) - 1 = n
    OBVIOUS
  <2>2. PowerRule(g, b, n) /\ PowerRule(f, b, n + 1)
    BY <1>1, <2>1
  <2>3. Pow(b, n) = g[n] /\ Pow(b, n + 1) = f[n + 1]
    BY PowIs
  <2> HIDE DEF g, f
  <2>4. f[n + 1] = b * f[n]
    BY <2>1, <2>2, TableHolds
  <2>5. g[n] = f[n]
    BY <2>1, <2>2, TablesAgree
  <2> QED BY <2>3, <2>4, <2>5
<1> QED BY <1>2, <1>3

(* Powers of a positive number are positive. *)
LEMMA PowPositive ==
  ASSUME NEW b \in Nat \ {0}, NEW n \in Nat
  PROVE  Pow(b, n) \in Nat \ {0}
<1>1. Pow(b, 0) = 1 /\ \A k \in Nat : Pow(b, k + 1) = b * Pow(b, k)
  BY PowStep
<1> DEFINE T == {m \in Nat : Pow(b, m) \notin Nat \ {0}}
<1>2. ASSUME T # {} PROVE FALSE
  <2>1. PICK m \in T : \A j \in T : m <= j
    <3>1. T \in SUBSET Nat
      OBVIOUS
    <3> HIDE DEF T
    <3> QED BY <1>2, <3>1, LeastNumber
  <2>2. m # 0
    BY <1>1, <2>1
  <2>3. m - 1 \in Nat /\ ~(m <= m - 1) /\ (m - 1) + 1 = m
    BY <2>1, <2>2
  <2>4. Pow(b, m - 1) \in Nat \ {0}
    BY <2>1, <2>3
  <2>5. Pow(b, m) = b * Pow(b, m - 1)
    BY <1>1, <2>3
  <2>6. \A x \in Nat \ {0} : b * x \in Nat \ {0}
    BY Z3
  <2> QED BY <2>1, <2>4, <2>5, <2>6
<1> QED BY <1>2

(* Exponents add. *)
LEMMA PowSum ==
  ASSUME NEW b \in Nat \ {0}, NEW m \in Nat, NEW n \in Nat
  PROVE  Pow(b, m + n) = Pow(b, m) * Pow(b, n)
<1>1. Pow(b, 0) = 1 /\ \A k \in Nat : Pow(b, k + 1) = b * Pow(b, k)
  BY PowStep
<1> DEFINE T == {k \in Nat : Pow(b, m + k) # Pow(b, m) * Pow(b, k)}
<1>2. ASSUME T # {} PROVE FALSE
  <2>1. PICK k \in T : \A j \in T : k <= j
    <3>1. T \in SUBSET Nat
      OBVIOUS
    <3> HIDE DEF T
    <3> QED BY <1>2, <3>1, LeastNumber
  <2>2. k # 0
    <3>1. Pow(b, m) \in Nat
      BY PowPositive
    <3>2. m + 0 = m /\ Pow(b, m) * 1 = Pow(b, m)
      BY <3>1
    <3> QED BY <1>1, <2>1, <3>2
  <2>3. k - 1 \in Nat /\ ~(k <= k - 1) /\ (k - 1) + 1 = k /\ m + (k - 1) \in Nat /\ (m + (k - 1)) + 1 = m + k
    BY <2>1, <2>2
  <2>4. Pow(b, m + (k - 1)) = Pow(b, m) * Pow(b, k - 1)
    BY <2>1, <2>3
  <2>5. Pow(b, m + k) = b * Pow(b, m + (k - 1)) /\ Pow(b, k) = b * Pow(b, k - 1)
    BY <1>1, <2>3
  <2>6. PICK x \in Nat, y \in Nat : x = Pow(b, m) /\ y = Pow(b, k - 1)
    BY <2>3, PowPositive
  <2>7. b * (x * y) = x * (b * y)
    BY Z3
  <2> QED BY <2>1, <2>4, <2>5, <2>6, <2>7
<1> QED BY <1>2

(* An exponent is below its power of two. *)
LEMMA PowAbove ==
  ASSUME NEW n \in Nat
  PROVE  Pow(2, n) > n
<1>1. Pow(2, 0) = 1 /\ \A k \in Nat : Pow(2, k + 1) = 2 * Pow(2, k)
  BY PowStep
<1>2. \A k \in Nat : Pow(2, k) \in Nat \ {0}
  BY PowPositive
<1> DEFINE T == {k \in Nat : ~(Pow(2, k) > k)}
<1>3. ASSUME T # {} PROVE FALSE
  <2>1. PICK k \in T : \A j \in T : k <= j
    <3>1. T \in SUBSET Nat
      OBVIOUS
    <3> HIDE DEF T
    <3> QED BY <1>3, <3>1, LeastNumber
  <2>2. k # 0
    BY <1>1, <2>1
  <2>3. k - 1 \in Nat /\ ~(k <= k - 1) /\ (k - 1) + 1 = k
    BY <2>1, <2>2
  <2>4. Pow(2, k - 1) > k - 1
    BY <2>1, <2>3
  <2>5. Pow(2, k) = 2 * Pow(2, k - 1)
    BY <1>1, <2>3
  <2> QED BY <1>2, <2>1, <2>3, <2>4, <2>5
<1> QED BY <1>3

(* A quotient and a remainder are the only ones. *)
LEMMA QuotientIs ==
  ASSUME NEW n \in Nat \ {0}, NEW a \in Int, NEW d \in Int, NEW e \in 0 .. n - 1, a = n * d + e
  PROVE  a \div n = d /\ a % n = e
<1>1. a % n = e
  BY Remainder
<1>2. a = n * (a \div n) + e /\ a \div n \in Int
  BY <1>1, Division
<1>3. PICK q \in Int : q = a \div n
  BY <1>2
<1>4. n * d = n * q
  <2>1. n * d \in Int /\ n * q \in Int
    OBVIOUS
  <2> QED BY <1>2, <1>3, <2>1
<1>5. ~(d + 1 <= q) /\ ~(q + 1 <= d)
  <2>1. n * d \in Int /\ n * q \in Int
    OBVIOUS
  <2> QED BY <1>4, <2>1, Multiples
<1> QED BY <1>1, <1>3, <1>5

----------------------------------------------------------------------------
(* modulo_bias/main.c: which words are accepted, and how many there are.   *)

(* The numbers whose multiples of n are among q * n numbers from there on. *)
MultiplesIn(n, from, q) == {x \in Nat : from <= n * x /\ n * x < from + n * q}

(* Between two numbers that are q multiples of n apart there are q of them. *)
LEMMA MultiplesBetween ==
  ASSUME NEW n \in Nat \ {0}, NEW from \in Nat, NEW q \in Nat
  PROVE  IsFiniteSet(MultiplesIn(n, from, q)) /\ Cardinality(MultiplesIn(n, from, q)) = q
<1> DEFINE S == {x \in Nat : from <= n * x /\ n * x < from + n * q}
           b == from + n - 1
           a == b \div n
           r == b % n
<1>1. b \in Nat
  OBVIOUS
<1>2. b = n * a + r /\ r \in 0 .. n - 1 /\ a \in Int
  <2> HIDE DEF b
  <2> QED BY <1>1, Division
<1> HIDE DEF a, r
<1>3. a \in Nat
  <2>1. SUFFICES ASSUME a + 1 <= 0 PROVE FALSE
    BY <1>2
  <2>2. n * a + n <= n * 0
    BY <1>2, <2>1, Multiples
  <2>3. n * a \in Int /\ n * 0 = 0
    BY <1>2
  <2> QED BY <1>1, <1>2, <2>2, <2>3
<1>4. n * a \in Int /\ from <= n * a /\ n * a < from + n
  BY <1>2, Z3
<1>5. ASSUME NEW x \in Nat PROVE x \in S <=> x \in a .. a + q - 1
  <2>1. n * x \in Int /\ n * q \in Int /\ n * (a + q) = n * a + n * q /\ n * (a + q) \in Int
    BY <1>3, Z3
  <2>2. CASE x \in a .. a + q - 1
    <3>1. n * a <= n * x
      <4>1. x = a \/ a + 1 <= x
        BY <1>3, <2>2
      <4> QED BY <1>3, <1>4, <2>1, <4>1, Multiples
    <3>2. n * x + n <= n * (a + q)
      <4>1. x + 1 <= a + q /\ a + q \in Int
        BY <1>3, <2>2
      <4> QED BY <4>1, Multiples
    <3>3. from <= n * x /\ n * x < from + n * q
      BY <1>4, <2>1, <3>1, <3>2
    <3> QED BY <2>2, <3>3
  <2>3. CASE x < a
    <3>1. n * x + n <= n * a
      BY <1>3, <2>3, Multiples
    <3>2. ~(from <= n * x)
      BY <1>4, <2>1, <3>1
    <3> QED BY <1>3, <2>3, <3>2
  <2>4. CASE x >= a + q
    <3>1. n * (a + q) <= n * x
      <4>1. x = a + q \/ (a + q) + 1 <= x
        BY <1>3, <2>4
      <4>2. n * (a + q) + n <= n * x \/ n * x = n * (a + q)
        <5>1. a + q \in Int
          BY <1>3
        <5> QED BY <4>1, <5>1, Multiples
      <4> QED BY <2>1, <4>2
    <3>2. ~(n * x < from + n * q)
      BY <1>4, <2>1, <3>1
    <3> QED BY <1>3, <2>4, <3>2
  <2> QED BY <1>3, <2>2, <2>3, <2>4
<1>6. S = a .. a + q - 1
  <2>1. a .. a + q - 1 \subseteq Nat /\ S \subseteq Nat
    BY <1>3
  <2> HIDE DEF S
  <2> QED BY <1>5, <2>1
<1>7. IsFiniteSet(a .. a + q - 1) /\ Cardinality(a .. a + q - 1) = q
  <2>1. a + q - 1 \in Int /\ a \in Int
    BY <1>3
  <2>2. /\ IsFiniteSet(a .. a + q - 1)
        /\ Cardinality(a .. a + q - 1) = IF a > a + q - 1 THEN 0 ELSE (a + q - 1) - a + 1
    BY <2>1, FS_Interval
  <2> QED BY <1>3, <2>2
<1> QED BY <1>6, <1>7 DEF MultiplesIn

(* The threshold is what 2^W leaves when it is divided by n. *)
LEMMA ThresholdIs ==
  ASSUME NEW n \in 1 .. Pow(2, W) - 1
  PROVE  Threshold(n) = Pow(2, W) % n
<1>1. PICK M \in Nat \ {0} : M = Pow(2, W)
  BY WidthAssumption, PowPositive
<1>2. n \in Nat \ {0} /\ M - n \in 0 .. M - 1 /\ n < M
  BY <1>1
<1>3. (-n) % M = M - n
  <2>1. -n = M * (-1) + (M - n) /\ -n \in Int /\ -1 \in Int
    BY <1>2
  <2> QED BY <1>2, <2>1, QuotientIs
<1>4. (M - n) % n = M % n
  <2>1. PICK q \in Int, r \in 0 .. n - 1 : M = n * q + r /\ r = M % n
    <3>1. M = n * (M \div n) + (M % n) /\ M % n \in 0 .. n - 1 /\ M \div n \in Int
      BY <1>2, Division
    <3> QED BY <3>1
  <2>2. M - n = n * (q - 1) + r /\ M - n \in Int /\ q - 1 \in Int
    BY <1>2, <2>1
  <2> QED BY <1>2, <2>1, <2>2, QuotientIs
<1> QED BY <1>1, <1>3, <1>4 DEF Threshold, Low

(* The words of result v, in numbers only: M is 2^W and t the threshold. *)
WordOf(M, n, v, t, x) == x < M /\ (x * n) % M >= t /\ (x * n) \div M = v
Between(M, n, v, q, t, x) == M * v + t <= n * x /\ n * x < M * v + t + n * q

(* The words accepted with the result v lie between two multiples of n. *)
LEMMA WordsOf ==
  ASSUME NEW M \in Nat \ {0}, NEW n \in Nat \ {0}, NEW v \in Nat, v + 1 <= n, NEW q \in Nat, NEW t \in Nat,
         M = n * q + t, NEW x \in Nat
  PROVE  WordOf(M, n, v, t, x) <=> Between(M, n, v, q, t, x)
<1>1. PICK y \in Nat, low \in Nat, b \in Nat : y = x * n /\ low = M * v /\ b = n * q
  BY Z3
<1>2. y = n * x /\ M = b + t /\ x * n = y /\ M * v = low
  BY <1>1, Z3
<1>3. PICK d \in Int, e \in 0 .. M - 1 : y = M * d + e /\ d = y \div M /\ e = y % M
  <2>1. \A a \in Int : a = M * (a \div M) + (a % M) /\ a % M \in 0 .. M - 1 /\ a \div M \in Int
    BY Division
  <2>2. y \in Int
    OBVIOUS
  <2> QED BY <2>1, <2>2
<1>4. ASSUME e >= t, d = v PROVE low + t <= y /\ y < low + t + b
  <2>1. y = low + e
    BY <1>1, <1>3, <1>4
  <2> QED BY <1>2, <1>3, <1>4, <2>1
<1>5. ASSUME low + t <= y, y < low + t + b PROVE x < M /\ e >= t /\ d = v
  <2>1. PICK u \in 0 .. M - 1 : y = low + u /\ u >= t
    <3>1. y - low \in 0 .. M - 1 /\ y = low + (y - low) /\ y - low >= t
      BY <1>2, <1>5
    <3> QED BY <3>1
  <2>2. y = M * v + u
    BY <1>1, <2>1
  <2>3. y \div M = v /\ y % M = u
    BY <2>2, QuotientIs
  <2>4. e >= t /\ d = v
    BY <1>3, <2>1, <2>3
  <2>5. x < M
    <3>1. SUFFICES ASSUME M <= x PROVE FALSE
      OBVIOUS
    <3>2. PICK s \in Nat, r \in Nat : s = n * M /\ r = M * n /\ s = r
      BY Z3
    <3>3. s <= y
      <4>1. CASE M = x
        BY <1>2, <3>2, <4>1
      <4>2. CASE M + 1 <= x
        BY <1>2, <3>2, <4>2, Multiples
      <4> QED BY <3>1, <4>1, <4>2
    <3>4. low + M <= r
      <4>1. M * v + M <= M * n
        BY Multiples
      <4> QED BY <1>2, <3>2, <4>1
    <3> QED BY <2>1, <3>2, <3>3, <3>4
  <2> QED BY <2>4, <2>5
<1>6. (x < M /\ e >= t /\ d = v) <=> (low + t <= y /\ y < low + t + b)
  BY <1>4, <1>5
<1> QED BY <1>1, <1>2, <1>3, <1>6 DEF WordOf, Between

(* Every residue is the result of as many accepted words as any other. *)
LEMMA EachResidue ==
  ASSUME NEW n \in 1 .. Pow(2, W) - 1, NEW v \in 0 .. n - 1
  PROVE  Cardinality({x \in Words1 : Accepted(x, n) /\ lemire(x, n) = v}) = Pow(2, W) \div n
<1>1. PICK M \in Nat \ {0} : M = Pow(2, W)
  BY WidthAssumption, PowPositive
<1>2. n \in Nat \ {0} /\ n < M /\ v \in Nat /\ v + 1 <= n
  BY <1>1
<1>3. PICK q \in Int, t \in 0 .. n - 1 : M = n * q + t /\ q = M \div n /\ t = M % n
  <2>1. M = n * (M \div n) + (M % n) /\ M % n \in 0 .. n - 1 /\ M \div n \in Int
    BY <1>2, Division
  <2> QED BY <2>1
<1>4. q \in Nat
  <2>1. SUFFICES ASSUME q + 1 <= 0 PROVE FALSE
    BY <1>3
  <2>2. n * q + n <= n * 0
    BY <1>2, <1>3, <2>1, Multiples
  <2>3. n * q \in Int /\ n * 0 = 0
    BY <1>3
  <2> QED BY <1>2, <1>3, <2>2, <2>3
<1>5. Threshold(n) = t /\ t \in Nat
  BY <1>1, <1>3, ThresholdIs
<1> DEFINE S == {x \in Words1 : Accepted(x, n) /\ lemire(x, n) = v}
           from == M * v + t
           R == {x \in Nat : from <= n * x /\ n * x < from + n * q}
<1>6. ASSUME NEW x \in Nat PROVE (x < M /\ Accepted(x, n) /\ lemire(x, n) = v) <=> x \in R
  <2>1. WordOf(M, n, v, t, x) <=> Between(M, n, v, q, t, x)
    <3>1. M \in Nat \ {0} /\ n \in Nat \ {0} /\ v \in Nat /\ v + 1 <= n /\ q \in Nat /\ t \in Nat
      BY <1>2, <1>4, <1>5
    <3>2. M = n * q + t
      BY <1>3
    <3> QED BY <3>1, <3>2, WordsOf
  <2> QED BY <1>1, <1>5, <2>1 DEF Accepted, Low, lemire, WordOf, Between
<1>7. S = R
  <2>1. \A x : x \in Words1 <=> x \in Nat /\ x < M
    BY <1>1 DEF Words1
  <2>2. \A x \in R : x \in Nat
    OBVIOUS
  <2>3. \A x : x \in S <=> x \in Words1 /\ Accepted(x, n) /\ lemire(x, n) = v
    OBVIOUS
  <2> HIDE DEF S, R
  <2>4. \A x : x \in S <=> x \in R
    BY <1>6, <2>1, <2>2, <2>3
  <2> QED BY <2>4
<1>8. from \in Nat
  BY <1>2, <1>5
<1>9. Cardinality(R) = q
  <2> HIDE DEF from
  <2>1. R = MultiplesIn(n, from, q)
    BY DEF MultiplesIn
  <2> HIDE DEF R
  <2> QED BY <1>2, <1>4, <1>8, <2>1, MultiplesBetween
<1> HIDE DEF R
<1> QED BY <1>1, <1>3, <1>7, <1>9

----------------------------------------------------------------------------
(* c_mul_high_lab.c: high words of products.                               *)

(* Division rounds down to a number that is not negative, and below x when n * x is above. *)
LEMMA QuotientBelow ==
  ASSUME NEW n \in Nat \ {0}, NEW a \in Nat, NEW x \in Nat, a < n * x
  PROVE  a \div n \in 0 .. x - 1
<1>1. \A b \in Int : b = n * (b \div n) + (b % n) /\ b % n \in 0 .. n - 1 /\ b \div n \in Int
  BY Division
<1>2. PICK d \in Int, e \in 0 .. n - 1 : a = n * d + e /\ d = a \div n
  BY <1>1
<1>3. PICK p \in Int, s \in Int : p = n * d /\ s = n * x
  OBVIOUS
<1>4. ~(d + 1 <= 0)
  <2>1. SUFFICES ASSUME d + 1 <= 0 PROVE FALSE
    OBVIOUS
  <2>2. n * d + n <= n * 0
    BY <2>1, Multiples
  <2>3. n * 0 = 0
    OBVIOUS
  <2> QED BY <1>2, <1>3, <2>2, <2>3
<1>5. ~(x <= d)
  <2>1. SUFFICES ASSUME x <= d PROVE FALSE
    OBVIOUS
  <2>2. s <= p
    <3>1. CASE x = d
      BY <1>3, <3>1
    <3>2. CASE x + 1 <= d
      <4>1. n * x + n <= n * d
        BY <3>2, Multiples
      <4> QED BY <1>3, <4>1
    <3> QED BY <2>1, <3>1, <3>2
  <2> QED BY <1>2, <1>3, <2>2
<1> QED BY <1>2, <1>4, <1>5

(* The quotient of natural numbers. *)
LEMMA QuotientNat ==
  ASSUME NEW n \in Nat \ {0}, NEW a \in Nat
  PROVE  a \div n \in Nat
<1>1. a + 1 \in Nat /\ a < n * (a + 1)
  BY Z3
<1> QED BY <1>1, QuotientBelow

(* The product of two words, one of them at least its half, as signed words. *)
LEMMA SignedProduct ==
  ASSUME NEW M \in Nat \ {0}, NEW x \in 0 .. M - 1, NEW y \in 0 .. M - 1,
         NEW a \in {0, 1}, NEW b \in {0, 1}
  PROVE  (((x - M * a) * (y - M * b)) \div M + a * y + b * x) % M = (x * y) \div M
<1>1. PICK p \in Nat : p = x * y
  BY Z3
<1>2. \A s \in Int : s = M * (s \div M) + (s % M) /\ s % M \in 0 .. M - 1 /\ s \div M \in Int
  BY Division
<1>3. PICK d \in Int, e \in 0 .. M - 1 : p = M * d + e /\ d = p \div M
  BY <1>2
<1>4. p < M * M
  <2>1. M * x + M <= M * M
    BY Multiples
  <2>2. x * y <= x * M
    BY Z3
  <2>3. M * x = x * M /\ M * x \in Int /\ M * M \in Int
    BY Z3
  <2> QED BY <1>1, <2>1, <2>2, <2>3
<1>5. d \in 0 .. M - 1
  BY <1>3, <1>4, QuotientBelow
<1> DEFINE s == (x - M * a) * (y - M * b)
           c == d + M * (a * b) - a * y - b * x
<1>6. s \in Int /\ c \in Int
  BY <1>3
<1>7. s = M * c + e
  <2>1. PICK u \in Int, v \in Int, w \in Int, z \in Int : u = M * d /\ v = M * x /\ w = M * y /\ z = M * M
    BY <1>3
  <2>2. p = u + e
    BY <1>3, <2>1
  <2>3. CASE a = 0 /\ b = 0
    <3>1. s = p /\ c = d
      BY <1>1, <1>3, <2>3
    <3> QED BY <1>3, <3>1
  <2>4. CASE a = 1 /\ b = 0
    <3>1. s = (x - M) * y /\ c = d - y
      BY <1>3, <2>4
    <3>2. (x - M) * y = p - w /\ M * (d - y) = u - w
      BY <1>1, <1>3, <2>1, Z3
    <3> HIDE DEF s, c
    <3> QED BY <1>6, <2>1, <2>2, <3>1, <3>2
  <2>5. CASE a = 0 /\ b = 1
    <3>1. s = x * (y - M) /\ c = d - x
      BY <1>3, <2>5
    <3>2. x * (y - M) = p - v /\ M * (d - x) = u - v
      BY <1>1, <1>3, <2>1, Z3
    <3> HIDE DEF s, c
    <3> QED BY <1>6, <2>1, <2>2, <3>1, <3>2
  <2>6. CASE a = 1 /\ b = 1
    <3>1. s = (x - M) * (y - M) /\ c = d + M - y - x
      BY <1>3, <2>6
    <3>2. (x - M) * (y - M) = p - v - w + z
      BY <1>1, <2>1, Z3
    <3>3. M * (d + M - y - x) = u + z - w - v
      BY <1>3, <2>1, Z3
    <3> HIDE DEF s, c
    <3> QED BY <1>6, <2>1, <2>2, <3>1, <3>2, <3>3
  <2> QED BY <2>3, <2>4, <2>5, <2>6
<1> HIDE DEF s
<1>8. s \div M = c
  <2> HIDE DEF c
  <2> QED BY <1>6, <1>7, QuotientIs
<1>10. s \div M + a * y + b * x = M * (a * b) + d
  <2>1. a * y \in Int /\ b * x \in Int /\ M * (a * b) \in Int
    BY Z3
  <2> QED BY <1>3, <1>8, <2>1
<1>9. (M * (a * b) + d) % M = d
  <2>1. a * b \in Int
    OBVIOUS
  <2> QED BY <1>5, <2>1, Remainder
<1> QED BY <1>1, <1>3, <1>9, <1>10 DEF s

(* unsigned_high_prod_formula is the high word, at every width. *)
LEMMA FormulaIsHigh ==
  ASSUME NEW bits \in Nat \ {0}, NEW x \in 0 .. Pow(2, bits) - 1, NEW y \in 0 .. Pow(2, bits) - 1
  PROVE  unsigned_high_prod_formula(x, y, bits) = unsigned_high_prod_oracle(x, y, bits)
<1>1. bits - 1 \in Nat /\ (bits - 1) + 1 = bits
  OBVIOUS
<1>2. PICK M \in Nat \ {0}, h \in Nat \ {0} : M = Pow(2, bits) /\ h = Pow(2, bits - 1)
  <2>1. Pow(2, bits) \in Nat \ {0} /\ Pow(2, bits - 1) \in Nat \ {0}
    BY <1>1, PowPositive
  <2> QED BY <2>1
<1>3. x \in 0 .. M - 1 /\ y \in 0 .. M - 1
  BY <1>2
<1>4. PICK a \in {0, 1} : /\ Signed(x, bits) = x - M * a /\ SignMasked(x, y, bits) = a * y
  <2>1. CASE x >= h
    <3>1. Signed(x, bits) = x - M * 1 /\ SignMasked(x, y, bits) = 1 * y
      BY <1>2, <1>3, <2>1 DEF Signed, SignMasked
    <3> QED BY <3>1
  <2>2. CASE ~(x >= h)
    <3>1. Signed(x, bits) = x - M * 0 /\ SignMasked(x, y, bits) = 0 * y
      BY <1>2, <1>3, <2>2 DEF Signed, SignMasked
    <3> QED BY <3>1
  <2> QED BY <2>1, <2>2
<1>5. PICK b \in {0, 1} : /\ Signed(y, bits) = y - M * b /\ SignMasked(y, x, bits) = b * x
  <2>1. CASE y >= h
    <3>1. Signed(y, bits) = y - M * 1 /\ SignMasked(y, x, bits) = 1 * x
      BY <1>2, <1>3, <2>1 DEF Signed, SignMasked
    <3> QED BY <3>1
  <2>2. CASE ~(y >= h)
    <3>1. Signed(y, bits) = y - M * 0 /\ SignMasked(y, x, bits) = 0 * x
      BY <1>2, <1>3, <2>2 DEF Signed, SignMasked
    <3> QED BY <3>1
  <2> QED BY <2>1, <2>2
<1>6. (((x - M * a) * (y - M * b)) \div M + a * y + b * x) % M = (x * y) \div M
  BY <1>3, SignedProduct
<1> QED BY <1>2, <1>4, <1>5, <1>6
     DEF unsigned_high_prod_formula, unsigned_high_prod_oracle, signed_high_prod, Low

(* Dividing twice is dividing by the product. *)
LEMMA QuotientTwice ==
  ASSUME NEW n \in Nat \ {0}, NEW m \in Nat \ {0}, NEW a \in Nat
  PROVE  (a \div n) \div m = a \div (n * m)
<1>1. \A l \in Nat \ {0} : \A s \in Int : s = l * (s \div l) + (s % l) /\ s % l \in 0 .. l - 1 /\ s \div l \in Int
  BY Division
<1>2. PICK d \in Int, e \in 0 .. n - 1 : a = n * d + e /\ d = a \div n
  BY <1>1
<1>3. PICK f \in Int, g \in 0 .. m - 1 : d = m * f + g /\ f = d \div m
  BY <1>1
<1>4. PICK l \in Nat \ {0}, u \in Int, v \in Int : l = n * m /\ u = n * (m * f) /\ v = n * g
  <2>1. n * m \in Nat \ {0} /\ n * (m * f) \in Int /\ n * g \in Int
    BY Z3
  <2> QED BY <2>1
<1>5. n * d = u + v /\ l * f = u
  BY <1>3, <1>4, Z3
<1>6. 0 <= v /\ v + n <= l
  <2>1. n * g + n <= n * m
    BY Multiples
  <2>2. n * g >= 0
    BY Z3
  <2> QED BY <1>4, <2>1, <2>2
<1>7. a = l * f + (v + e) /\ v + e \in 0 .. l - 1
  BY <1>2, <1>4, <1>5, <1>6
<1>8. a \div l = f
  <2>1. PICK r \in 0 .. l - 1 : r = v + e
    BY <1>7
  <2>2. a = l * f + r
    BY <1>7, <2>1
  <2> QED BY <2>2, QuotientIs
<1> QED BY <1>2, <1>3, <1>4, <1>8

(* a times b by the halves of a: the high part, and the low word. *)
LEMMA Halves2 ==
  ASSUME NEW M \in Nat \ {0}, NEW a \in Nat, NEW b \in Nat
  PROVE  /\ (a * b) \div M = (a \div M) * b + ((a % M) * b) \div M
         /\ (a * b) % M = ((a % M) * b) % M
<1>1. \A s \in Int : s = M * (s \div M) + (s % M) /\ s % M \in 0 .. M - 1 /\ s \div M \in Int
  BY Division
<1>2. PICK h \in Int, l \in 0 .. M - 1 : a = M * h + l /\ h = a \div M /\ l = a % M
  BY <1>1
<1>3. PICK p \in Int, p0 \in Int, p1 \in Int : p = a * b /\ p0 = l * b /\ p1 = h * b
  OBVIOUS
<1>4. PICK g \in Int, e \in 0 .. M - 1 : p0 = M * g + e /\ g = p0 \div M /\ e = p0 % M
  BY <1>1
<1>5. p = M * (p1 + g) + e
  <2>1. p = M * p1 + p0
    BY <1>2, <1>3, Z3
  <2>2. PICK u \in Int, v \in Int : u = M * p1 /\ v = M * g
    OBVIOUS
  <2>3. M * (p1 + g) = u + v
    BY <2>2, Z3
  <2> QED BY <1>4, <2>1, <2>2, <2>3
<1>6. p \div M = p1 + g /\ p % M = e
  <2>1. PICK d \in Int : d = p1 + g
    OBVIOUS
  <2>2. p = M * d + e
    BY <1>5, <2>1
  <2>3. p \div M = d /\ p % M = e
    BY <2>2, QuotientIs
  <2> QED BY <2>1, <2>3
<1> QED BY <1>2, <1>3, <1>4, <1>6

(* A shift by less than a word, in numbers: M = K * S is 2^W. *)
LEMMA ShiftBelow ==
  ASSUME NEW K \in Nat \ {0}, NEW S \in Nat \ {0}, NEW p \in Nat
  PROVE  (p \div (K * S)) * K + (p % (K * S)) \div S = p \div S
<1>1. PICK M \in Nat \ {0} : M = K * S
  <2>1. K * S \in Nat \ {0}
    BY Z3
  <2> QED BY <2>1
<1>2. \A l \in Nat \ {0} : \A s \in Int : s = l * (s \div l) + (s % l) /\ s % l \in 0 .. l - 1 /\ s \div l \in Int
  BY Division
<1>3. PICK d \in Int, e \in 0 .. M - 1 : p = M * d + e /\ d = p \div M /\ e = p % M
  BY <1>2
<1>4. PICK g \in Int, r \in 0 .. S - 1 : e = S * g + r /\ g = e \div S
  BY <1>2
<1>5. p = S * (d * K + g) + r
  <2>1. PICK u \in Int, v \in Int : u = M * d /\ v = S * g
    OBVIOUS
  <2>2. S * (d * K + g) = u + v
    BY <1>1, <2>1, Z3
  <2>3. p = u + e /\ e = v + r
    BY <1>3, <1>4, <2>1
  <2>4. p = (u + v) + r
    BY <2>3
  <2> QED BY <2>2, <2>4
<1>6. p \div S = d * K + g
  <2>1. PICK c \in Int : c = d * K + g
    OBVIOUS
  <2>2. p = S * c + r
    BY <1>5, <2>1
  <2> QED BY <2>1, <2>2, QuotientIs
<1> QED BY <1>1, <1>3, <1>4, <1>6

(* mul_u64_u32_shr_fallback is the shifted product, for every shift. *)
LEMMA ShiftIs ==
  ASSUME NEW a \in Words2, NEW b \in Words1, NEW shift \in 0 .. 2 * W - 1
  PROVE  mul_u64_u32_shr_fallback(a, b, shift) = mul_u64_u32_shr_oracle(a, b, shift)
<1>1. W \in Nat \ {0} /\ 2 * W \in Nat /\ shift \in Nat /\ W + W = 2 * W
  BY WidthAssumption
<1>2. PICK M \in Nat \ {0}, MM \in Nat \ {0}, S \in Nat \ {0} :
        M = Pow(2, W) /\ MM = Pow(2, 2 * W) /\ S = Pow(2, shift)
  <2>1. Pow(2, W) \in Nat \ {0} /\ Pow(2, 2 * W) \in Nat \ {0} /\ Pow(2, shift) \in Nat \ {0}
    BY <1>1, PowPositive
  <2> QED BY <2>1
<1>3. MM = M * M
  BY <1>1, <1>2, PowSum
<1>4. a \in Nat /\ a < MM /\ b \in Nat /\ b < M
  BY <1>2 DEF Words1, Words2
<1>5. PICK p \in Nat : p = a * b
  BY <1>4, Z3
<1>6. p < M * MM
  <2>1. M * a + M <= M * MM
    BY <1>4, Multiples
  <2>2. PICK d \in Nat : M = b + d
    <3>1. M - b \in Nat /\ M = b + (M - b)
      BY <1>4
    <3> QED BY <3>1
  <2>3. M * a = a * b + a * d
    BY <1>4, <2>2, Z3
  <2>4. PICK x \in Nat, y \in Nat, z \in Int : x = a * b /\ y = a * d /\ z = M * MM
    <3>1. a * b \in Nat /\ a * d \in Nat /\ M * MM \in Int
      BY <1>4, Z3
    <3> QED BY <3>1
  <2> QED BY <1>5, <2>1, <2>3, <2>4
<1> DEFINE p0  == Low(a, W) * b
           p1  == (a \div M) * b
           mid == Low(p1 + p0 \div M, 2 * W)
<1>7. p1 + p0 \div M = p \div M /\ p0 % M = p % M
  <2>1. p0 = (a % M) * b
    BY <1>2 DEF Low
  <2>2. /\ (a * b) \div M = (a \div M) * b + ((a % M) * b) \div M
        /\ (a * b) % M = ((a % M) * b) % M
    BY <1>4, Halves2
  <2> HIDE DEF p0
  <2> QED BY <1>5, <2>1, <2>2
<1>8. p \div M \in 0 .. MM - 1
  BY <1>6, QuotientBelow
<1>9. mid = p \div M
  <2>1. \A x \in 0 .. MM - 1 : x % MM = x
    <3> TAKE x \in 0 .. MM - 1
    <3>1. x = MM * 0 + x
      OBVIOUS
    <3> QED BY <3>1, QuotientIs
  <2> QED BY <1>2, <1>7, <1>8, <2>1 DEF Low
<1>10. mul_u64_u32_shr_fallback(a, b, shift) =
         IF shift < W THEN Low(mid * Pow(2, W - shift) + Low(p0, W) \div S, 2 * W)
                      ELSE mid \div Pow(2, shift - W)
  BY <1>2 DEF mul_u64_u32_shr_fallback
<1>11. Low(p0, W) = p % M
  BY <1>2, <1>7 DEF Low
<1> HIDE DEF mid, p0, p1
<1>12. mul_u64_u32_shr_oracle(a, b, shift) = Low(p \div S, 2 * W)
  BY <1>2, <1>5 DEF mul_u64_u32_shr_oracle
<1>13. CASE shift < W
  <2>1. W - shift \in Nat /\ (W - shift) + shift = W
    BY <1>1, <1>13
  <2>2. PICK K \in Nat \ {0} : K = Pow(2, W - shift)
    <3>1. Pow(2, W - shift) \in Nat \ {0}
      BY <2>1, PowPositive
    <3> QED BY <3>1
  <2>3. M = K * S
    BY <1>1, <1>2, <2>1, <2>2, PowSum
  <2>4. (p \div (K * S)) * K + (p % (K * S)) \div S = p \div S
    BY ShiftBelow
  <2> QED BY <1>9, <1>10, <1>11, <1>12, <1>13, <2>2, <2>3, <2>4
<1>14. CASE ~(shift < W)
  <2>1. shift - W \in Nat /\ W + (shift - W) = shift
    BY <1>1, <1>14
  <2>2. PICK P \in Nat \ {0} : P = Pow(2, shift - W)
    <3>1. Pow(2, shift - W) \in Nat \ {0}
      BY <2>1, PowPositive
    <3> QED BY <3>1
  <2>3. S = M * P
    BY <1>1, <1>2, <2>1, <2>2, PowSum
  <2>4. (p \div M) \div P = p \div (M * P)
    BY QuotientTwice
  <2>5. p < S * MM
    <3>1. M * MM <= S * MM
      <4>1. M * P >= M
        BY Z3
      <4> QED BY <2>3, <4>1, Z3
    <3>2. M * MM \in Int /\ S * MM \in Int
      OBVIOUS
    <3> QED BY <1>6, <3>1, <3>2
  <2>6. p \div S \in 0 .. MM - 1
    BY <2>5, QuotientBelow
  <2>7. (p \div S) % MM = p \div S
    <3>1. PICK x \in 0 .. MM - 1 : x = p \div S
      BY <2>6
    <3>2. x = MM * 0 + x
      OBVIOUS
    <3>3. x % MM = x
      BY <3>2, QuotientIs
    <3> QED BY <3>1, <3>3
  <2> QED BY <1>2, <1>9, <1>10, <1>12, <1>14, <2>2, <2>3, <2>4, <2>7 DEF Low
<1> QED BY <1>13, <1>14

(* The smaller of two. *)
LEMMA LesserOfTwo ==
  ASSUME NEW x \in Int, NEW y \in Int
  PROVE  Min({x, y}) = IF x <= y THEN x ELSE y
BY DEF Min

(* size_mul_like saturates exactly when the product does not fit. *)
LEMMA SaturatesAt ==
  ASSUME NEW a \in Words2, NEW b \in Words2
  PROVE  size_mul_like(a, b) = Min({a * b, Pow(2, 2 * W) - 1})
<1>1. PICK S \in Nat : S = Pow(2, 2 * W) - 1
  <2>1. 2 * W \in Nat
    BY WidthAssumption
  <2>2. Pow(2, 2 * W) \in Nat \ {0}
    BY <2>1, PowPositive
  <2> QED BY <2>2
<1>2. a \in Nat /\ b \in Nat
  BY DEF Words2
<1>3. PICK p \in Nat : p = a * b
  BY <1>2, Z3
<1>4. Min({p, S}) = IF p <= S THEN p ELSE S
  BY LesserOfTwo
<1>5. CASE a = 0 \/ b = 0
  <2>1. p = 0
    BY <1>2, <1>3, <1>5, Z3
  <2> QED BY <1>1, <1>3, <1>4, <1>5, <2>1 DEF size_mul_like
<1>6. CASE a # 0 /\ b # 0
  <2>1. PICK q \in Int, r \in 0 .. b - 1 : S = b * q + r /\ q = S \div b
    <3>1. \A s \in Int : s = b * (s \div b) + (s % b) /\ s % b \in 0 .. b - 1 /\ s \div b \in Int
      BY <1>2, <1>6, Division
    <3> QED BY <3>1
  <2>2. PICK u \in Int, v \in Int : u = b * q /\ v = b * a /\ v = p
    BY <1>2, <1>3, Z3
  <2>3. a > q => p > S
    <3>1. SUFFICES ASSUME q + 1 <= a PROVE p > S
      BY <1>2
    <3>2. b * q + b <= b * a
      BY <1>2, <3>1, Multiples
    <3> QED BY <1>2, <2>1, <2>2, <3>2
  <2>4. ~(a > q) => p <= S
    <3>1. SUFFICES ASSUME a <= q PROVE p <= S
      BY <1>2
    <3>2. v <= u
      <4>1. CASE a = q
        BY <2>2, <4>1
      <4>2. CASE a + 1 <= q
        BY <1>2, <2>2, <4>2, Multiples
      <4> QED BY <1>2, <3>1, <4>1, <4>2
    <3> QED BY <1>2, <2>1, <2>2, <3>2
  <2>5. size_mul_like(a, b) = IF a > q THEN S ELSE p
    BY <1>1, <1>3, <1>6, <2>1 DEF size_mul_like
  <2> QED BY <1>1, <1>3, <1>4, <2>3, <2>4, <2>5
<1> QED BY <1>5, <1>6

----------------------------------------------------------------------------
(* What the programs keep, and their theorems.                             *)

(* The program that runs does not change. *)
LEMMA SameLab == [Next]_vars => lab' = lab
BY DEF Next, vars, Draw, Compare, Returns, ConvertFull, ConvertExperiment, Quarter,
       verify_unsigned_high_prod32, verify_unsigned_high_prod, verify_mul_u64_u32_shr, verify_size_mul_like,
       PackAndUnpack, Reject, Accept, Decode, LookUp, TraceRow, ConvertTernary, ExpandFraction, UpdateCrc,
       ChecksumData, NotPowerOfTwo, AddSample, EndOfRun

(* modulo_bias: what is drawn, and drawn again. *)
BiasInv ==
  lab = "modulo_bias" /\ phase = "call" => input.n \in 1 .. Pow(2, W) - 1 /\ input = [n |-> input.n, x |-> input.x]

(* A rejected word is replaced, its n is not. *)
LEMMA BiasStep == BiasInv /\ [Next]_vars => BiasInv'
<1> SUFFICES ASSUME BiasInv, [Next]_vars, lab' = "modulo_bias", phase' = "call"
             PROVE  input'.n \in 1 .. Pow(2, W) - 1 /\ input' = [n |-> input'.n, x |-> input'.x]
  BY DEF BiasInv
<1>1. lab = "modulo_bias"
  BY SameLab
<1>2. CASE Draw
  <2>1. input' \in [n : 1 .. Pow(2, W) - 1, x : Words1]
    <3>1. Inputs["modulo_bias"] = [n : 1 .. Pow(2, W) - 1, x : Words1]
      BY DEF Inputs
    <3> QED BY <1>1, <1>2, <3>1 DEF Draw
  <2> QED BY <2>1
<1>3. CASE Reject
  <2>1. phase = "call"
    BY <1>3 DEF Reject, Calling
  <2>2. PICK x \in Words1 : input' = [input EXCEPT !.x = x]
    BY <1>3 DEF Reject
  <2>3. input.n \in 1 .. Pow(2, W) - 1 /\ input = [n |-> input.n, x |-> input.x]
    BY <1>1, <2>1 DEF BiasInv
  <2> QED BY <2>2, <2>3
<1>4. CASE UNCHANGED vars
  BY <1>1, <1>4 DEF vars, BiasInv
<1>5. CASE Next /\ ~Draw /\ ~Reject
  <2>1. phase' # "call" \/ lab # "modulo_bias"
    BY <1>5 DEF Next, Compare, Returns, Calling, ConvertFull, ConvertExperiment, Quarter,
       verify_unsigned_high_prod32, verify_unsigned_high_prod, verify_mul_u64_u32_shr, verify_size_mul_like,
       PackAndUnpack, Accept, Decode, LookUp, TraceRow, ConvertTernary, ExpandFraction, UpdateCrc,
       ChecksumData, NotPowerOfTwo, AddSample, EndOfRun
  <2> QED BY <1>1, <2>1
<1> QED BY <1>2, <1>3, <1>4, <1>5

(* modulo_bias: for every width of words and every n, lemire_rejection gives each
   result below n for as many words as any other. *)
THEOREM RejectionIsUniform == Spec => []LemireUniform
<1>1. Init => BiasInv
  BY DEF Init, BiasInv
<1>2. BiasInv => LemireUniform
  BY EachResidue DEF BiasInv, LemireUniform
<1> QED BY <1>1, <1>2, BiasStep, PTL DEF Spec

(* c_mul_high_lab: no check has failed, and none will. *)
HighInv ==
  lab = "c_mul_high" =>
    /\ phase \in {"draw", "call", "checked"}
    /\ phase = "call" => input \in Inputs["c_mul_high"]
    /\ phase = "checked" => result.got = result.want

(* Each of the four functions returns what its oracle returns, so Compare goes on. *)
LEMMA HighStep == HighInv /\ [Next]_vars => HighInv'
<1> SUFFICES ASSUME HighInv, [Next]_vars, lab' = "c_mul_high"
             PROVE  /\ phase' \in {"draw", "call", "checked"}
                    /\ phase' = "call" => input' \in Inputs["c_mul_high"]
                    /\ phase' = "checked" => result'.got = result'.want
  BY DEF HighInv
<1>1. lab = "c_mul_high"
  BY SameLab
<1>2. /\ phase \in {"draw", "call", "checked"}
      /\ phase = "call" => input \in Inputs["c_mul_high"]
      /\ phase = "checked" => result.got = result.want
  BY <1>1 DEF HighInv
<1>3. CASE Draw
  BY <1>1, <1>3 DEF Draw
<1>4. CASE Compare
  BY <1>1, <1>2, <1>4 DEF Compare
<1>5. Inputs["c_mul_high"] = [f : {"high32"}, x : Words1, y : Words1]
                      \cup [f : {"high64", "size_mul"}, x : Words2, y : Words2]
                      \cup [f : {"shr"}, x : Words2, y : Words1, shift : 0 .. 2 * W - 1]
  BY DEF Inputs
<1>6. ASSUME phase = "call"
      PROVE  /\ input.f = "high32" => input.x \in Words1 /\ input.y \in Words1
             /\ input.f \in {"high64", "size_mul"} => input.x \in Words2 /\ input.y \in Words2
             /\ input.f = "shr" => input.x \in Words2 /\ input.y \in Words1 /\ input.shift \in 0 .. 2 * W - 1
  BY <1>2, <1>5, <1>6
<1>7. CASE verify_unsigned_high_prod32
  <2>1. phase' = "checked" /\ phase = "call" /\ input.f = "high32"
        /\ result' = [got  |-> unsigned_high_prod_formula(input.x, input.y, W),
                      want |-> unsigned_high_prod_oracle(input.x, input.y, W)]
    BY <1>7 DEF verify_unsigned_high_prod32, Calling, Returns
  <2>2. unsigned_high_prod_formula(input.x, input.y, W) = unsigned_high_prod_oracle(input.x, input.y, W)
    BY <1>6, <2>1, FormulaIsHigh, WidthAssumption DEF Words1
  <2> QED BY <2>1, <2>2
<1>8. CASE verify_unsigned_high_prod
  <2>1. phase' = "checked" /\ phase = "call" /\ input.f = "high64"
        /\ result' = [got  |-> unsigned_high_prod_formula(input.x, input.y, 2 * W),
                      want |-> unsigned_high_prod_oracle(input.x, input.y, 2 * W)]
    BY <1>8 DEF verify_unsigned_high_prod, Calling, Returns
  <2>2. 2 * W \in Nat \ {0}
    BY WidthAssumption
  <2>3. unsigned_high_prod_formula(input.x, input.y, 2 * W) = unsigned_high_prod_oracle(input.x, input.y, 2 * W)
    BY <1>6, <2>1, <2>2, FormulaIsHigh DEF Words2
  <2> QED BY <2>1, <2>3
<1>9. CASE verify_mul_u64_u32_shr
  <2>1. phase' = "checked" /\ phase = "call" /\ input.f = "shr"
        /\ result' = [got  |-> mul_u64_u32_shr_fallback(input.x, input.y, input.shift),
                      want |-> mul_u64_u32_shr_oracle(input.x, input.y, input.shift)]
    BY <1>9 DEF verify_mul_u64_u32_shr, Calling, Returns
  <2>2. mul_u64_u32_shr_fallback(input.x, input.y, input.shift) = mul_u64_u32_shr_oracle(input.x, input.y, input.shift)
    BY <1>6, <2>1, ShiftIs
  <2> QED BY <2>1, <2>2
<1>10. CASE verify_size_mul_like
  <2>1. phase' = "checked" /\ phase = "call" /\ input.f = "size_mul"
        /\ result' = [got  |-> size_mul_like(input.x, input.y),
                      want |-> Min({input.x * input.y, Pow(2, 2 * W) - 1})]
    BY <1>10 DEF verify_size_mul_like, Calling, Returns
  <2>2. size_mul_like(input.x, input.y) = Min({input.x * input.y, Pow(2, 2 * W) - 1})
    BY <1>6, <2>1, SaturatesAt
  <2> QED BY <2>1, <2>2
<1>11. CASE UNCHANGED vars
  BY <1>2, <1>11 DEF vars
<1>12. ASSUME Next PROVE Draw \/ Compare \/ verify_unsigned_high_prod32 \/ verify_unsigned_high_prod
                         \/ verify_mul_u64_u32_shr \/ verify_size_mul_like
  BY <1>1, <1>12 DEF Next, Calling, ConvertFull, ConvertExperiment, Quarter,
       PackAndUnpack, Reject, Accept, Decode, LookUp, TraceRow, ConvertTernary, ExpandFraction, UpdateCrc,
       ChecksumData, NotPowerOfTwo, AddSample, EndOfRun
<1> QED BY <1>3, <1>4, <1>7, <1>8, <1>9, <1>10, <1>11, <1>12

(* c_mul_high: at every width, for all operands and shifts, the products are exact,
   and size_mul_like saturates exactly on overflow; the lab never fails a case. *)
THEOREM HighWordsAreExact == Spec => []HighWordsExact
<1>1. Init => HighInv
  BY DEF Init, HighInv
<1>2. HighInv => HighWordsExact
  BY DEF HighInv, HighWordsExact
<1> QED BY <1>1, <1>2, HighStep, PTL DEF Spec

----------------------------------------------------------------------------
(* ewma_lab.c.                                                             *)

(* ewma_lab: the distance of the fixed average from the exact one, in units *)
(* of 2^-precision weight^-step, and that an average starts afresh.         *)
Close(a, w, k) == Distance(a.internal * Pow(w, k), a.exact) < w * Pow(w, k)

AverageInv ==
  lab = "ewma_lab" =>
    /\ average.step \in Nat /\ average.internal \in Int /\ average.exact \in Int
    /\ average = [internal |-> average.internal, exact |-> average.exact, step |-> average.step]
    /\ phase \in {"draw", "call", "failed"}
    /\ phase = "draw" => average = Fresh
    /\ phase = "call" => /\ input.weight \in Weights /\ input.precision \in Precisions
                         /\ Close(average, input.weight, average.step)

(* One sample, in numbers: I and X are the two words that are shifted, E    *)
(* the exact average and K = weight^step.                                   *)
LEMMA SampleKeepsClose ==
  ASSUME NEW w \in Nat \ {0}, NEW K \in Nat \ {0}, NEW I \in Int, NEW E \in Int, NEW X \in Int,
         Distance(I * K, E) < w * K
  PROVE  Distance((I - I \div w + X \div w) * (w * K), E * (w - 1) + X * K) < w * (w * K)
<1>1. \A s \in Int : s = w * (s \div w) + (s % w) /\ s % w \in 0 .. w - 1 /\ s \div w \in Int
  BY Division
<1>2. PICK i \in Int, r \in 0 .. w - 1 : I = w * i + r /\ i = I \div w
  BY <1>1
<1>3. PICK x \in Int, s \in 0 .. w - 1 : X = w * x + s /\ x = X \div w
  BY <1>1
<1>4. PICK D \in Int : D = I * K - E
  <2>1. I * K - E \in Int
    OBVIOUS
  <2> QED BY <2>1
<1>5. PICK b \in Nat \ {0} : b = w * K
  <2>1. w * K \in Nat \ {0}
    BY Z3
  <2> QED BY <2>1
<1>6. D < b /\ -b < D
  <2>1. PICK u \in Int : u = I * K
    OBVIOUS
  <2> QED BY <1>4, <1>5, <2>1 DEF Distance
<1> DEFINE c == (I - i + x) * (w * K)
           e == E * (w - 1) + X * K
<1>7. c \in Int /\ e \in Int
  BY Z3
<1>8. c - e = (w - 1) * D + (r - s) * K
  <2>1. w * (I - i + x) = (w - 1) * I + r + X - s
    <3>1. PICK u \in Int, v \in Int, y \in Int : u = w * i /\ v = w * x /\ y = w * I
      OBVIOUS
    <3>2. w * (I - i + x) = y - u + v /\ (w - 1) * I = y - I
      BY <3>1, Z3
    <3> QED BY <1>2, <1>3, <3>1, <3>2
  <2>2. PICK m \in Int : m = (w - 1) * I + r + X - s /\ m = w * (I - i + x)
    <3>1. (w - 1) * I + r + X - s \in Int
      BY Z3
    <3> QED BY <2>1, <3>1
  <2>3. c = m * K
    BY <2>2, Z3
  <2>4. m * K = (w - 1) * (I * K) + r * K + X * K - s * K
    BY <2>2, Z3
  <2>5. (w - 1) * D = (w - 1) * (I * K) - E * (w - 1)
    BY <1>4, Z3
  <2>6. (r - s) * K = r * K - s * K
    BY Z3
  <2>7. PICK p1 \in Int, p2 \in Int, p3 \in Int, p4 \in Int, p5 \in Int :
          p1 = (w - 1) * (I * K) /\ p2 = r * K /\ p3 = X * K /\ p4 = s * K /\ p5 = E * (w - 1)
    <3>1. (w - 1) * (I * K) \in Int /\ r * K \in Int /\ X * K \in Int /\ s * K \in Int /\ E * (w - 1) \in Int
      BY Z3
    <3> QED BY <3>1
  <2>8. c = p1 + p2 + p3 - p4 /\ e = p5 + p3 /\ (w - 1) * D = p1 - p5 /\ (r - s) * K = p2 - p4
    BY <2>3, <2>4, <2>5, <2>6, <2>7
  <2> HIDE DEF c, e
  <2> QED BY <2>8
<1>9. PICK f \in Int, g \in Int, bb \in Int : f = (w - 1) * D /\ g = (r - s) * K /\ bb = w * b
  <2>1. (w - 1) * D \in Int /\ (r - s) * K \in Int /\ w * b \in Int
    BY Z3
  <2> QED BY <2>1
<1>10. f <= (w - 1) * b /\ -((w - 1) * b) <= f
  <2>1. w - 1 \in Nat
    OBVIOUS
  <2>2. \A k \in Nat, z \in Nat : k * z >= 0
    BY Z3
  <2>3. b - D \in Nat /\ b + D \in Nat
    BY <1>6
  <2>4. (w - 1) * (b - D) >= 0 /\ (w - 1) * (b + D) >= 0
    BY <2>1, <2>2, <2>3
  <2>5. (w - 1) * (b - D) = (w - 1) * b - (w - 1) * D /\ (w - 1) * (b + D) = (w - 1) * b + (w - 1) * D
    BY Z3
  <2> QED BY <1>9, <2>4, <2>5
<1>11. g < b /\ -b < g
  <2>1. \A k \in Nat : k * K >= 0
    BY Z3
  <2>2. w - 1 - (r - s) \in Nat /\ w - 1 + (r - s) \in Nat
    OBVIOUS
  <2>3. (w - 1 - (r - s)) * K >= 0 /\ (w - 1 + (r - s)) * K >= 0
    BY <2>1, <2>2
  <2>4. (w - 1 - (r - s)) * K = w * K - K - (r - s) * K /\ (w - 1 + (r - s)) * K = w * K - K + (r - s) * K
    BY Z3
  <2> QED BY <1>5, <1>9, <2>3, <2>4
<1>12. (w - 1) * b = bb - b
  BY <1>9, Z3
<1>13. c - e < bb /\ -bb < c - e
  BY <1>8, <1>9, <1>10, <1>11, <1>12
<1>14. Distance(c, e) < bb
  <2> HIDE DEF c, e
  <2> QED BY <1>7, <1>13 DEF Distance
<1> QED BY <1>2, <1>3, <1>5, <1>9, <1>14

(* The next average is close again. *)
LEMMA SampleIsClose ==
  ASSUME NEW w \in Weights, NEW precision \in Precisions, NEW x \in Samples,
         NEW shift, shift = weight_shift_from_rcp(w), shift >= 0,
         NEW a, a.step \in Nat, a.internal \in Int, a.exact \in Int, Close(a, w, a.step),
         NEW n, n = [internal |-> ewma(a.internal, x, precision, shift),
                     exact    |-> a.exact * (w - 1) + x * Pow(2, precision) * Pow(w, a.step),
                     step     |-> a.step + 1]
  PROVE  n.step \in Nat /\ n.internal \in Int /\ n.exact \in Int /\ Close(n, w, n.step)
<1>1. w \in Nat \ {0} /\ precision \in Nat /\ x \in Nat
  BY AverageAssumption
<1>2. shift \in 0 .. w /\ Pow(2, shift) = w
  <2>1. \E k \in 0 .. w : Pow(2, k) = w
    BY DEF weight_shift_from_rcp
  <2>2. shift = CHOOSE k \in 0 .. w : Pow(2, k) = w
    BY <2>1 DEF weight_shift_from_rcp
  <2> QED BY <2>1, <2>2
<1>3. PICK K \in Nat \ {0}, P \in Nat \ {0} : K = Pow(w, a.step) /\ P = Pow(2, precision)
  <2>1. Pow(2, precision) \in Nat \ {0}
    BY <1>1, PowPositive
  <2>2. Pow(w, a.step) \in Nat \ {0}
    <3>1. PICK k \in Nat : k = a.step
      OBVIOUS
    <3> QED BY <1>1, <3>1, PowPositive
  <2> QED BY <2>1, <2>2
<1>4. PICK X \in Nat : X = x * P
  <2>1. x * P \in Nat
    BY <1>1, Z3
  <2> QED BY <2>1
<1>5. PICK I \in Int, E \in Int : I = a.internal /\ E = a.exact
  OBVIOUS
<1>6. n.internal = I - I \div w + X \div w
  BY <1>2, <1>3, <1>4, <1>5 DEF ewma
<1>7. n.exact = E * (w - 1) + X * K /\ n.step = a.step + 1
  BY <1>3, <1>4, <1>5
<1>8. Pow(w, n.step) = w * K
  <2>1. w \in Int /\ \A k \in Nat : Pow(w, k + 1) = w * Pow(w, k)
    BY <1>1, PowStep
  <2>2. PICK k \in Nat : k = a.step
    OBVIOUS
  <2> QED BY <1>3, <1>7, <2>1, <2>2
<1>9. I \div w \in Int /\ X \div w \in Int
  BY <1>1, Division
<1>10. E * (w - 1) + X * K \in Int
  BY <1>1, Z3
<1>11. Distance(I * K, E) < w * K
  BY <1>3, <1>5 DEF Close
<1>12. Distance((I - I \div w + X \div w) * (w * K), E * (w - 1) + X * K) < w * (w * K)
  <2>1. X \in Int
    OBVIOUS
  <2> QED BY ONLY <1>1, <1>11, <2>1, K \in Nat \ {0}, I \in Int, E \in Int, SampleKeepsClose
<1> QED BY <1>6, <1>7, <1>8, <1>9, <1>10, <1>12 DEF Close

(* An average starts close. *)
LEMMA FreshIsClose ==
  ASSUME NEW w \in Weights
  PROVE  Fresh.step \in Nat /\ Fresh.internal \in Int /\ Fresh.exact \in Int /\ Close(Fresh, w, Fresh.step)
<1>1. w \in Nat \ {0}
  BY AverageAssumption
<1>2. Pow(w, 0) = 1
  BY <1>1, PowStep
<1>3. Fresh.step = 0 /\ Fresh.internal = 0 /\ Fresh.exact = 0
  BY DEF Fresh
<1>4. 0 * 1 = 0 /\ w * 1 = w /\ Distance(0, 0) = 0
  BY <1>1 DEF Distance
<1> QED BY <1>1, <1>2, <1>3, <1>4 DEF Close

(* And every sample leaves it so. *)
LEMMA AverageStep == AverageInv /\ [Next]_vars => AverageInv'
<1> SUFFICES ASSUME AverageInv, [Next]_vars, lab' = "ewma_lab"
             PROVE  AverageInv'
  BY DEF AverageInv
<1>1. lab = "ewma_lab"
  BY SameLab
<1>2. /\ average.step \in Nat /\ average.internal \in Int /\ average.exact \in Int
      /\ average = [internal |-> average.internal, exact |-> average.exact, step |-> average.step]
      /\ phase \in {"draw", "call", "failed"}
      /\ phase = "draw" => average = Fresh
      /\ phase = "call" => /\ input.weight \in Weights /\ input.precision \in Precisions
                           /\ Close(average, input.weight, average.step)
  BY <1>1 DEF AverageInv
<1>3. CASE Draw
  <2>1. phase = "draw" /\ phase' = "call" /\ average' = average /\ average = Fresh
    BY <1>2, <1>3 DEF Draw
  <2>2. input' \in [weight : Weights, precision : Precisions]
    <3>1. Inputs["ewma_lab"] = [weight : Weights, precision : Precisions]
      BY DEF Inputs
    <3> QED BY <1>1, <1>3, <3>1 DEF Draw
  <2>3. input'.weight \in Weights /\ input'.precision \in Precisions
    BY <2>2
  <2>4. Close(Fresh, input'.weight, Fresh.step)
    BY <2>3, FreshIsClose
  <2> QED BY <1>2, <2>1, <2>3, <2>4 DEF AverageInv, Close
<1>4. CASE NotPowerOfTwo
  BY <1>2, <1>4 DEF NotPowerOfTwo, AverageInv
<1>5. CASE AddSample
  <2> DEFINE shift == weight_shift_from_rcp(input.weight)
  <2>1. phase = "call" /\ phase' = "call" /\ input' = input /\ shift >= 0
    BY <1>5 DEF AddSample, Calling
  <2>2. PICK x \in Samples :
          average' = [internal |-> ewma(average.internal, x, input.precision, shift),
                      exact    |-> average.exact * (input.weight - 1)
                                   + x * Pow(2, input.precision) * Pow(input.weight, average.step),
                      step     |-> average.step + 1]
    BY <1>5 DEF AddSample
  <2> HIDE DEF shift
  <2>3. average' = [internal |-> average'.internal, exact |-> average'.exact, step |-> average'.step]
    BY <2>2
  <2>4. /\ average'.step \in Nat /\ average'.internal \in Int /\ average'.exact \in Int
        /\ Close(average', input.weight, average'.step)
    BY <1>2, <2>1, <2>2, SampleIsClose DEF shift
  <2> QED BY <1>2, <2>1, <2>3, <2>4 DEF AverageInv, Close
<1>6. CASE EndOfRun
  <2>1. phase' = "draw" /\ average' = Fresh
    BY <1>6 DEF EndOfRun
  <2> QED BY <2>1 DEF AverageInv, Fresh
<1>7. CASE UNCHANGED vars
  BY <1>2, <1>7 DEF vars, AverageInv, Close
<1>8. ASSUME Next PROVE Draw \/ NotPowerOfTwo \/ AddSample \/ EndOfRun
  BY <1>1, <1>2, <1>8 DEF Next, Calling, Compare, ConvertFull, ConvertExperiment, Quarter,
       verify_unsigned_high_prod32, verify_unsigned_high_prod, verify_mul_u64_u32_shr, verify_size_mul_like,
       PackAndUnpack, Reject, Accept, Decode, LookUp, TraceRow, ConvertTernary, ExpandFraction, UpdateCrc,
       ChecksumData
<1> QED BY <1>3, <1>4, <1>5, <1>6, <1>7, <1>8

(* ewma_lab: for every weight, precision, run length and sequence of samples, the
   fixed average stays within weight_rcp of its units of the exact one. *)
THEOREM AverageIsClose == Spec => []AverageStaysClose
<1>1. Init => AverageInv
  BY DEF Init, AverageInv, Fresh
<1>2. AverageInv => AverageStaysClose
  BY DEF AverageInv, AverageStaysClose, Close
<1> QED BY <1>1, <1>2, AverageStep, PTL DEF Spec

----------------------------------------------------------------------------
(* decode_unsigned_safe_test.c: streams, prefixes and values.              *)

(* Powers of two. *)
LEMMA TwoPow ==
  ASSUME NEW n \in Nat
  PROVE  Pow(2, n) \in Nat \ {0} /\ Pow(2, 0) = 1 /\ Pow(2, n + 1) = 2 * Pow(2, n)
<1>1. 2 \in Int /\ 2 \in Nat \ {0}
  OBVIOUS
<1>2. Pow(2, n) \in Nat \ {0}
  BY <1>1, PowPositive
<1> QED BY <1>1, <1>2, PowStep

(* A longer power is twice as large, at least. *)
LEMMA PowGrows ==
  ASSUME NEW m \in Nat, NEW n \in Nat, m < n
  PROVE  2 * Pow(2, m) <= Pow(2, n)
<1>1. PICK k \in Nat : k = n - (m + 1)
  <2>1. n - (m + 1) \in Nat
    OBVIOUS
  <2> QED BY <2>1
<1>2. Pow(2, n) = Pow(2, m + 1) * Pow(2, k)
  <2>1. m + 1 \in Nat /\ n = (m + 1) + k
    BY <1>1
  <2> QED BY <2>1, PowSum
<1>3. Pow(2, m + 1) = 2 * Pow(2, m)
  BY TwoPow
<1>4. PICK x \in Nat \ {0}, y \in Nat \ {0}, z \in Nat \ {0} : x = Pow(2, m) /\ y = Pow(2, k) /\ z = 2 * x
  <2>1. Pow(2, m) \in Nat \ {0} /\ Pow(2, k) \in Nat \ {0}
    BY TwoPow
  <2>2. \A x \in Nat \ {0} : 2 * x \in Nat \ {0}
    OBVIOUS
  <2> QED BY <2>1, <2>2
<1>5. z <= z * y
  <2>1. PICK d \in Nat : y = 1 + d
    <3>1. y - 1 \in Nat /\ y = 1 + (y - 1)
      OBVIOUS
    <3> QED BY <3>1
  <2>2. z * d \in Nat /\ z * (1 + d) = z + z * d
    BY Z3
  <2> QED BY <2>1, <2>2
<1> QED BY <1>2, <1>3, <1>4, <1>5

(* The zeros in front of the first one. *)
LEMMA PrefixIs ==
  ASSUME NEW L \in Nat, NEW bits \in [1 .. L -> {0, 1}]
  PROVE  /\ Prefix(bits) \in 0 .. L
         /\ \A i \in 1 .. Prefix(bits) : bits[i] = 0
         /\ Prefix(bits) # L => bits[Prefix(bits) + 1] = 1
<1> DEFINE ones == {i \in DOMAIN bits : bits[i] = 1}
<1>1. Len(bits) = L /\ DOMAIN bits = 1 .. L
  OBVIOUS
<1>2. Prefix(bits) = IF ones = {} THEN L ELSE Min(ones) - 1
  BY <1>1 DEF Prefix
<1>3. \A i \in 1 .. L : bits[i] = 0 \/ i \in ones
  BY <1>1
<1>4. ones \in SUBSET Nat /\ ones \subseteq 1 .. L /\ \A i \in ones : bits[i] = 1
  BY <1>1
<1> HIDE DEF ones
<1>5. CASE ones = {}
  BY <1>2, <1>3, <1>5
<1>6. CASE ones # {}
  <2>1. \E x \in ones : \A y \in ones : x <= y
    BY <1>4, <1>6, LeastNumber
  <2>2. Min(ones) \in ones /\ \A y \in ones : Min(ones) <= y
    BY <2>1 DEF Min
  <2>3. PICK m \in 1 .. L : m = Min(ones) /\ m \in ones
    BY <1>4, <2>2
  <2>4. Prefix(bits) = m - 1
    BY <1>2, <1>6, <2>3
  <2>5. \A i \in 1 .. m - 1 : bits[i] = 0
    <3> TAKE i \in 1 .. m - 1
    <3>1. i \in 1 .. L /\ ~(m <= i)
      OBVIOUS
    <3> QED BY <1>3, <2>2, <2>3, <3>1
  <2>6. m - 1 \in 0 .. L /\ (m - 1) + 1 = m
    OBVIOUS
  <2> QED BY <1>4, <2>3, <2>4, <2>5, <2>6
<1> QED BY <1>5, <1>6

(* Nothing else is a prefix of zeros before a one. *)
LEMMA PrefixOnly ==
  ASSUME NEW L \in Nat, NEW bits \in [1 .. L -> {0, 1}], NEW n \in 0 .. L - 1,
         \A i \in 1 .. n : bits[i] = 0, bits[n + 1] = 1
  PROVE  Prefix(bits) = n
<1>1. PICK p \in 0 .. L : /\ p = Prefix(bits)
                          /\ \A i \in 1 .. p : bits[i] = 0
                          /\ p # L => bits[p + 1] = 1
  BY PrefixIs
<1>2. ~(p < n)
  <2>1. ASSUME p < n PROVE p + 1 \in 1 .. n /\ p # L
    BY <2>1
  <2> QED BY <1>1, <2>1
<1>3. ~(n < p)
  <2>1. ASSUME n < p PROVE n + 1 \in 1 .. p
    BY <2>1
  <2> QED BY <1>1, <2>1
<1> QED BY <1>1, <1>2, <1>3

(* The table of b, up to its m-th suffix bit. *)
ValueRule(h, bits, a, eof, m) ==
  h = [k \in 0 .. m |-> IF k = 0 THEN 1 ELSE 2 * h[k - 1] + Bit(bits, a + 1 + k, eof)]

(* Value reads that table. *)
LEMMA ValueIs ==
  ASSUME NEW bits, NEW eof
  PROVE  Value(bits, eof) = CHOOSE h : ValueRule(h, bits, Prefix(bits), eof, Prefix(bits))
BY Zenon DEF Value, ValueRule

(* What the table holds. *)
ValueSteps(h, bits, a, eof, m) ==
  h[0] = 1 /\ \A k \in 1 .. m : h[k] = 2 * h[k - 1] + Bit(bits, a + 1 + k, eof)

(* It holds that. *)
LEMMA ValueTable ==
  ASSUME NEW bits, NEW a, NEW eof, NEW m \in Nat, NEW h, ValueRule(h, bits, a, eof, m)
  PROVE  ValueSteps(h, bits, a, eof, m)
<1>1. \A k \in 0 .. m : h[k] = IF k = 0 THEN 1 ELSE 2 * h[k - 1] + Bit(bits, a + 1 + k, eof)
  BY Zenon DEF ValueRule
<1> QED BY <1>1 DEF ValueSteps

(* There is one, however long the suffix. *)
LEMMA ValueThere ==
  ASSUME NEW bits, NEW a \in Nat, NEW eof, NEW n \in Nat
  PROVE  \E h : ValueRule(h, bits, a, eof, n)
<1> DEFINE T == {m \in Nat : ~ \E h : ValueRule(h, bits, a, eof, m)}
<1>1. ASSUME T # {} PROVE FALSE
  <2>1. PICK m \in T : \A j \in T : m <= j
    <3>1. T \in SUBSET Nat
      OBVIOUS
    <3> HIDE DEF T
    <3> QED BY <1>1, <3>1, LeastNumber
  <2>2. m # 0
    <3>1. ValueRule([k \in 0 .. 0 |-> 1], bits, a, eof, 0)
      BY DEF ValueRule
    <3> QED BY <2>1, <3>1
  <2>3. m - 1 \in Nat /\ ~(m <= m - 1) /\ m \in Nat
    BY <2>1, <2>2
  <2>4. PICK g : ValueRule(g, bits, a, eof, m - 1)
    BY <2>1, <2>3
  <2> DEFINE D(k) == Bit(bits, a + 1 + k, eof)
             h == [k \in 0 .. m |-> IF k = 0 THEN 1 ELSE 2 * g[k - 1] + D(k)]
  <2>5. g[0] = 1 /\ \A k \in 1 .. m - 1 : g[k] = 2 * g[k - 1] + D(k)
    <3>1. ValueSteps(g, bits, a, eof, m - 1)
      BY <2>3, <2>4, ValueTable
    <3> QED BY <3>1 DEF ValueSteps
  <2> HIDE DEF D
  <2>6. \A k \in 0 .. m - 1 : h[k] = g[k]
    BY <2>3, <2>5
  <2>7. \A k \in 0 .. m : (IF k = 0 THEN 1 ELSE 2 * g[k - 1] + D(k)) = (IF k = 0 THEN 1 ELSE 2 * h[k - 1] + D(k))
    <3> HIDE DEF h
    <3>1. ASSUME NEW k \in 0 .. m, k # 0 PROVE g[k - 1] = h[k - 1]
      <4>1. k - 1 \in 0 .. m - 1
        BY <2>3, <3>1
      <4> QED BY <2>6, <4>1
    <3> QED BY <3>1
  <2>8. ValueRule(h, bits, a, eof, m)
    BY <2>7, Zenon DEF ValueRule, D
  <2> QED BY <2>1, <2>8
<1> QED BY <1>1

(* b, bit by bit: it begins with the one, and its lower bits are the suffix. *)
LEMMA ValueHolds ==
  ASSUME NEW L \in Nat, NEW bits \in [1 .. L -> {0, 1}], NEW eof \in {0, 1},
         NEW a, a = Prefix(bits), NEW b, b = Value(bits, eof)
  PROVE  /\ a \in 0 .. L /\ b[0] = 1
         /\ \A k \in 1 .. a : b[k] = 2 * b[k - 1] + Bit(bits, a + 1 + k, eof)
         /\ \A k \in 0 .. a : b[k] \in Nat /\ Pow(2, k) <= b[k] /\ b[k] < 2 * Pow(2, k)
<1>1. a \in 0 .. L /\ a \in Nat
  BY PrefixIs
<1>2. ValueRule(b, bits, a, eof, a)
  <2>1. \E h : ValueRule(h, bits, a, eof, a)
    BY <1>1, ValueThere
  <2>2. b = CHOOSE h : ValueRule(h, bits, a, eof, a)
    BY ValueIs
  <2> QED BY <2>1, <2>2, Zenon
<1>3. b[0] = 1 /\ \A k \in 1 .. a : b[k] = 2 * b[k - 1] + Bit(bits, a + 1 + k, eof)
  <2>1. ValueSteps(b, bits, a, eof, a)
    BY <1>1, <1>2, ValueTable
  <2> QED BY <2>1 DEF ValueSteps
<1>4. \A i \in Nat \ {0} : Bit(bits, i, eof) \in {0, 1}
  <2> TAKE i \in Nat \ {0}
  <2>1. Len(bits) = L
    OBVIOUS
  <2>2. i <= L => bits[i] \in {0, 1}
    OBVIOUS
  <2> QED BY <2>1, <2>2 DEF Bit
<1>5. Pow(2, 0) = 1 /\ \A k \in Nat : Pow(2, k + 1) = 2 * Pow(2, k) /\ Pow(2, k) \in Nat
  BY TwoPow
<1> DEFINE Good(k) == b[k] \in Nat /\ Pow(2, k) <= b[k] /\ b[k] < 2 * Pow(2, k)
           T == {k \in 0 .. a : ~Good(k)}
<1>6. ASSUME T # {} PROVE FALSE
  <2>1. PICK k \in T : \A j \in T : k <= j
    <3>1. T \in SUBSET Nat
      BY <1>1
    <3> HIDE DEF T
    <3> QED BY <1>6, <3>1, LeastNumber
  <2>2. k # 0
    <3>1. Pow(2, 0) = 1 /\ b[0] = 1
      BY <1>3, <1>5
    <3>2. Good(0)
      BY <3>1
    <3> HIDE DEF Good
    <3> QED BY <2>1, <3>2
  <2>3. k \in 1 .. a /\ k - 1 \in 0 .. a /\ k - 1 \in Nat /\ ~(k <= k - 1) /\ (k - 1) + 1 = k /\ a + 1 + k \in Nat \ {0}
    BY <1>1, <2>1, <2>2
  <2>4. Good(k - 1)
    BY <2>1, <2>3
  <2>5. PICK x \in Nat, y \in Nat, e \in {0, 1} : x = b[k - 1] /\ y = Pow(2, k - 1) /\ b[k] = 2 * x + e
    BY <1>3, <1>4, <1>5, <2>3, <2>4
  <2>6. Pow(2, k) = 2 * y
    BY <1>5, <2>3, <2>5
  <2>7. y <= x /\ x < 2 * y
    BY <2>4, <2>5
  <2>8. b[k] \in Nat /\ 2 * y <= b[k] /\ b[k] < 2 * (2 * y)
    <3>1. PICK z \in Nat : z = 2 * x + e /\ z = b[k]
      <4>1. 2 * x + e \in Nat
        OBVIOUS
      <4> QED BY <2>5, <4>1
    <3>2. 2 * y <= z /\ z < 2 * (2 * y)
      BY <2>7, <3>1
    <3> QED BY <3>1, <3>2
  <2>9. Good(k)
    BY <2>6, <2>8
  <2> QED BY <2>1, <2>9
<1>7. \A k \in 0 .. a : Good(k)
  BY <1>6
<1> QED BY <1>1, <1>3, <1>7

(* Halving b takes its last bit. *)
LEMMA HalfOf ==
  ASSUME NEW x \in Nat, NEW e \in {0, 1}
  PROVE  (2 * x + e) \div 2 = x /\ (2 * x + e) % 2 = e
<1>1. e \in 0 .. 2 - 1 /\ 2 \in Nat \ {0}
  OBVIOUS
<1> QED BY <1>1, QuotientIs

(* A number without its last j + 1 bits is half of it without its last j. *)
LEMMA HalfAgain ==
  ASSUME NEW u \in Nat, NEW j \in Nat
  PROVE  /\ (u \div Pow(2, j)) \div 2 = u \div Pow(2, j + 1)
         /\ u \div Pow(2, j) \in Nat /\ u \div Pow(2, 0) = u
<1>1. PICK P \in Nat \ {0} : P = Pow(2, j)
  BY TwoPow
<1>2. Pow(2, j + 1) = 2 * P /\ Pow(2, 0) = 1 /\ 2 * P = P * 2
  BY <1>1, TwoPow
<1>3. (u \div P) \div 2 = u \div (P * 2)
  BY QuotientTwice
<1>4. u \div P \in Nat /\ u \div 1 = u
  <2>1. u = P * (u \div P) + (u % P) /\ u % P \in 0 .. P - 1 /\ u \div P \in Int
    BY Division
  <2>2. ASSUME NEW q \in Int, u = P * q + (u % P) PROVE q >= 0
    <3>1. ASSUME q < 0 PROVE FALSE
      <4>1. PICK k \in Nat : q = -1 - k
        <5>1. -1 - q \in Nat /\ q = -1 - (-1 - q)
          BY <3>1
        <5> QED BY <5>1
      <4>2. P * q = -P - P * k /\ P * k >= 0
        BY <4>1, Z3
      <4>3. P * q \in Int
        BY Z3
      <4> QED BY <2>1, <2>2, <4>2, <4>3
    <3> QED BY <3>1
  <2>3. u = 1 * u + 0 /\ 0 \in 0 .. 1 - 1
    OBVIOUS
  <2>4. u \div 1 = u
    BY <2>3, QuotientIs
  <2> QED BY <2>1, <2>2, <2>4
<1> QED BY <1>1, <1>2, <1>3, <1>4

(* What b was k suffix bits before is b without its last k bits. *)
LEMMA ValueBack ==
  ASSUME NEW L \in Nat, NEW bits \in [1 .. L -> {0, 1}], NEW eof \in {0, 1},
         NEW a, a = Prefix(bits), NEW b, b = Value(bits, eof)
  PROVE  /\ \A j \in 0 .. a : b[a - j] = b[a] \div Pow(2, j)
         /\ \A k \in 1 .. a : b[k] % 2 = Bit(bits, a + 1 + k, eof)
<1>1. /\ a \in 0 .. L /\ a \in Nat
      /\ \A k \in 1 .. a : b[k] = 2 * b[k - 1] + Bit(bits, a + 1 + k, eof)
      /\ \A k \in 0 .. a : b[k] \in Nat
  BY ValueHolds
<1>2. \A k \in 1 .. a : Bit(bits, a + 1 + k, eof) \in {0, 1}
  <2> TAKE k \in 1 .. a
  <2>1. PICK i \in Nat \ {0} : i = a + 1 + k
    BY <1>1
  <2>2. Len(bits) = L
    OBVIOUS
  <2>3. i <= L => bits[i] \in {0, 1}
    OBVIOUS
  <2> QED BY <2>1, <2>2, <2>3 DEF Bit
<1>3. \A k \in 1 .. a : b[k] % 2 = Bit(bits, a + 1 + k, eof) /\ b[k] \div 2 = b[k - 1]
  <2> TAKE k \in 1 .. a
  <2>1. k - 1 \in 0 .. a
    BY <1>1
  <2>2. PICK x \in Nat, e \in {0, 1} : x = b[k - 1] /\ e = Bit(bits, a + 1 + k, eof)
    BY <1>1, <1>2, <2>1
  <2>3. b[k] = 2 * x + e
    BY <1>1, <2>2
  <2>4. (2 * x + e) \div 2 = x /\ (2 * x + e) % 2 = e
    BY HalfOf
  <2> QED BY <2>2, <2>3, <2>4
<1>4. PICK u \in Nat : u = b[a]
  BY <1>1
<1> DEFINE T == {j \in 0 .. a : b[a - j] # u \div Pow(2, j)}
<1>5. ASSUME T # {} PROVE FALSE
  <2>1. PICK j \in T : \A i \in T : j <= i
    <3>1. T \in SUBSET Nat
      BY <1>1
    <3> HIDE DEF T
    <3> QED BY <1>5, <3>1, LeastNumber
  <2>2. j # 0
    <3>1. u \div Pow(2, 0) = u
      BY HalfAgain
    <3>2. a - 0 = a
      BY <1>1
    <3> QED BY <1>4, <2>1, <3>1, <3>2
  <2>3. /\ j - 1 \in 0 .. a /\ j - 1 \in Nat /\ ~(j <= j - 1) /\ (j - 1) + 1 = j
        /\ a - (j - 1) \in 1 .. a /\ (a - (j - 1)) - 1 = a - j
    BY <1>1, <2>1, <2>2
  <2>4. b[a - (j - 1)] = u \div Pow(2, j - 1)
    BY <2>1, <2>3
  <2>5. b[a - j] = b[a - (j - 1)] \div 2
    BY <1>3, <2>3
  <2>6. (u \div Pow(2, j - 1)) \div 2 = u \div Pow(2, j)
    BY <2>3, HalfAgain
  <2> QED BY <2>1, <2>4, <2>5, <2>6
<1> QED BY <1>3, <1>4, <1>5

(* How many bits v + 1 has after its first. *)
Shape(v, n) == n \in 0 .. IntBits - 1 /\ Pow(2, n) <= v + 1 /\ v + 1 < 2 * Pow(2, n)

(* The largest int, in powers of two. *)
LEMMA WidthOfInt ==
  /\ IntBits - 1 \in Nat /\ IntMax \in Nat
  /\ Pow(2, IntBits - 1) = IntMax + 1 /\ Pow(2, IntBits) = 2 * (IntMax + 1)
<1>1. IntBits - 1 \in Nat /\ (IntBits - 1) + 1 = IntBits
  BY WidthAssumption
<1>2. Pow(2, IntBits - 1) \in Nat \ {0}
  BY <1>1, TwoPow
<1>3. Pow(2, IntBits) = 2 * Pow(2, IntBits - 1)
  BY <1>1, TwoPow
<1> QED BY <1>1, <1>2, <1>3 DEF IntMax

(* Every value has a shape, which fits an int. *)
LEMMA ShapeThere ==
  ASSUME NEW v \in 0 .. IntMax
  PROVE  \E n \in 0 .. IntBits - 1 : Shape(v, n)
<1>1. IntBits - 1 \in Nat /\ IntMax \in Nat /\ Pow(2, IntBits - 1) = IntMax + 1
  BY WidthOfInt
<1>2. v \in Nat /\ v <= IntMax
  BY <1>1
<1>3. Pow(2, 0) = 1 /\ \A k \in Nat : Pow(2, k + 1) = 2 * Pow(2, k) /\ Pow(2, k) \in Nat
  BY TwoPow
<1> DEFINE T == {k \in Nat : v + 1 < 2 * Pow(2, k)}
<1>4. IntBits - 1 \in T
  BY <1>1, <1>2
<1>5. PICK n \in T : \A k \in T : n <= k
  <2>1. T \in SUBSET Nat /\ T # {}
    BY <1>4
  <2> HIDE DEF T
  <2> QED BY <2>1, LeastNumber
<1>6. n \in 0 .. IntBits - 1 /\ v + 1 < 2 * Pow(2, n)
  BY <1>1, <1>4, <1>5
<1>7. Pow(2, n) <= v + 1
  <2>1. CASE n = 0
    BY <1>2, <1>3, <2>1
  <2>2. CASE n # 0
    <3>1. n - 1 \in Nat /\ ~(n <= n - 1) /\ (n - 1) + 1 = n
      BY <1>5, <2>2
    <3>2. ~(v + 1 < 2 * Pow(2, n - 1))
      BY <1>5, <3>1
    <3>3. PICK x \in Nat : x = Pow(2, n - 1) /\ Pow(2, n) = 2 * x
      BY <1>3, <3>1
    <3> QED BY <1>2, <3>2, <3>3
  <2> QED BY <2>1, <2>2
<1> QED BY <1>6, <1>7 DEF Shape

(* It is what CodeOf counts. *)
LEMMA CodeIs ==
  ASSUME NEW v \in 0 .. IntMax, NEW n \in 0 .. IntBits - 1, Shape(v, n)
  PROVE  CodeOf(v + 1)
           = [i \in 1 .. 2 * n + 1 |-> IF i <= n THEN 0 ELSE BitOf(v + 1, 2 * n + 1 - i)]
<1>1. n \in Nat /\ v \in Nat /\ n \in 0 .. IntBits
  BY WidthOfInt, WidthAssumption
<1> DEFINE S == {k \in 0 .. IntBits : Pow(2, k) <= v + 1}
<1>2. n \in S
  BY <1>1 DEF Shape
<1>3. ASSUME NEW k \in S PROVE n >= k
  <2>1. k \in Nat /\ Pow(2, k) <= v + 1
    OBVIOUS
  <2>2. ASSUME n < k PROVE FALSE
    <3>1. 2 * Pow(2, n) <= Pow(2, k)
      BY <1>1, <2>1, <2>2, PowGrows
    <3>2. PICK x \in Nat, y \in Nat : x = Pow(2, n) /\ y = Pow(2, k)
      BY <1>1, <2>1, TwoPow
    <3> QED BY <1>1, <2>1, <3>1, <3>2 DEF Shape
  <2> QED BY <1>1, <2>1, <2>2
<1>4. \A k \in S : k \in Int
  OBVIOUS
<1>5. Max(S) = n
  <2> HIDE DEF S
  <2>1. Max(S) \in S /\ \A k \in S : Max(S) >= k
    BY <1>2, <1>3 DEF Max
  <2>2. Max(S) >= n /\ n >= Max(S) /\ Max(S) \in Int
    BY <1>2, <1>3, <1>4, <2>1
  <2> QED BY <1>1, <2>2
<1>6. ~(v + 1 <= 0)
  BY <1>1
<1>7. CodeOf(v + 1)
        = IF v + 1 <= 0 THEN <<1>>
          ELSE [i \in 1 .. 2 * Max(S) + 1 |-> IF i <= Max(S) THEN 0 ELSE BitOf(v + 1, 2 * Max(S) + 1 - i)]
  BY Zenon DEF CodeOf
<1> HIDE DEF S
<1> QED BY <1>5, <1>6, <1>7

(* The encoder writes it unless v + 1 overflows. *)
LEMMA CodeWritten ==
  ASSUME NEW v \in 0 .. IntMax - 1
  PROVE  make_code_for_value(v) = {CodeOf(v + 1)}
<1>1. v + 1 \in IntValues
  BY WidthOfInt DEF IntValues
<1>2. IntResult(v + 1) = {v + 1}
  BY <1>1 DEF IntResult
<1> QED BY <1>2 DEF make_code_for_value

(* A code: n zeros, a one, and v + 1 without its first bit. *)
LEMMA CodeBits ==
  ASSUME NEW v \in 0 .. IntMax, NEW n \in 0 .. IntBits - 1, Shape(v, n),
         NEW code, code = CodeOf(v + 1)
  PROVE  /\ code \in [1 .. 2 * n + 1 -> {0, 1}]
         /\ \A i \in 1 .. n : code[i] = 0
         /\ code[n + 1] = 1
         /\ \A k \in 1 .. n : code[n + 1 + k] = ((v + 1) \div Pow(2, n - k)) % 2
<1>1. n \in Nat /\ v + 1 \in Nat
  BY WidthOfInt
<1>2. code = [i \in 1 .. 2 * n + 1 |-> IF i <= n THEN 0 ELSE BitOf(v + 1, 2 * n + 1 - i)]
  BY CodeIs
<1>3. \A j \in Nat : BitOf(v + 1, j) \in {0, 1}
  <2> TAKE j \in Nat
  <2>1. PICK q \in Nat : q = (v + 1) \div Pow(2, j)
    BY <1>1, HalfAgain
  <2>2. q % 2 \in {0, 1}
    OBVIOUS
  <2> QED BY <2>1, <2>2 DEF BitOf
<1>4. code \in [1 .. 2 * n + 1 -> {0, 1}]
  <2>1. ASSUME NEW i \in 1 .. 2 * n + 1 PROVE (IF i <= n THEN 0 ELSE BitOf(v + 1, 2 * n + 1 - i)) \in {0, 1}
    <3>1. PICK j \in Nat : j = 2 * n + 1 - i
      <4>1. 2 * n + 1 - i \in Nat
        BY <1>1
      <4> QED BY <4>1
    <3>2. BitOf(v + 1, j) \in {0, 1}
      BY <1>3
    <3> QED BY <3>1, <3>2
  <2> QED BY <1>2, <2>1
<1>5. \A i \in 1 .. n : code[i] = 0
  <2> TAKE i \in 1 .. n
  <2>1. i \in 1 .. 2 * n + 1 /\ i <= n
    BY <1>1
  <2> QED BY <1>2, <2>1
<1>6. \A i \in n + 1 .. 2 * n + 1 : code[i] = ((v + 1) \div Pow(2, 2 * n + 1 - i)) % 2
  <2> TAKE i \in n + 1 .. 2 * n + 1
  <2>1. i \in 1 .. 2 * n + 1 /\ ~(i <= n)
    BY <1>1
  <2>2. code[i] = BitOf(v + 1, 2 * n + 1 - i)
    BY <1>2, <2>1
  <2> QED BY <2>2 DEF BitOf
<1>7. code[n + 1] = 1
  <2>1. n + 1 \in n + 1 .. 2 * n + 1 /\ 2 * n + 1 - (n + 1) = n
    BY <1>1
  <2>2. code[n + 1] = ((v + 1) \div Pow(2, n)) % 2
    BY <1>6, <2>1
  <2>3. PICK P \in Nat \ {0} : P = Pow(2, n)
    BY <1>1, TwoPow
  <2>4. P <= v + 1 /\ v + 1 < 2 * P
    BY <2>3 DEF Shape
  <2>5. v + 1 = P * 1 + (v + 1 - P) /\ v + 1 - P \in 0 .. P - 1
    BY <1>1, <2>4
  <2>6. (v + 1) \div P = 1
    BY <1>1, <2>5, QuotientIs
  <2> QED BY <2>2, <2>3, <2>6
<1>8. \A k \in 1 .. n : code[n + 1 + k] = ((v + 1) \div Pow(2, n - k)) % 2
  <2> TAKE k \in 1 .. n
  <2>1. n + 1 + k \in n + 1 .. 2 * n + 1 /\ 2 * n + 1 - (n + 1 + k) = n - k
    BY <1>1
  <2> QED BY <1>6, <2>1
<1> QED BY <1>4, <1>5, <1>7, <1>8

(* A sequence s of m elements begins one of n. *)
Begins(s, m, t, n) == m <= n /\ \A i \in 1 .. m : s[i] = t[i]

(* That is what IsPrefix says. *)
LEMMA PrefixOf ==
  ASSUME NEW S, NEW m \in Nat, NEW n \in Nat, NEW s \in [1 .. m -> S], NEW t \in [1 .. n -> S]
  PROVE  IsPrefix(s, t) <=> Begins(s, m, t, n)
<1>1. s \in Seq(S) /\ t \in Seq(S) /\ Len(s) = m /\ Len(t) = n
  OBVIOUS
<1>2. /\ SubSeq(s, 1, m) \in Seq(S) /\ Len(SubSeq(s, 1, m)) = m
      /\ \A i \in 1 .. m : SubSeq(s, 1, m)[i] = s[i]
  BY <1>1, SubSeqProperties
<1>3. ASSUME m <= n
      PROVE  /\ SubSeq(t, 1, m) \in Seq(S) /\ Len(SubSeq(t, 1, m)) = m
             /\ \A i \in 1 .. m : SubSeq(t, 1, m)[i] = t[i]
  BY <1>1, <1>3, SubSeqProperties
<1>4. IsPrefix(s, t) <=> m <= n /\ SubSeq(s, 1, m) = SubSeq(t, 1, m)
  BY <1>1 DEF IsPrefix
<1>5. ASSUME m <= n, \A i \in 1 .. m : s[i] = t[i]
      PROVE  SubSeq(s, 1, m) = SubSeq(t, 1, m)
  <2>1. PICK p \in Seq(S) : p = SubSeq(s, 1, m) /\ Len(p) = m /\ \A i \in 1 .. m : p[i] = s[i]
    BY <1>2
  <2>2. PICK q \in Seq(S) : q = SubSeq(t, 1, m) /\ Len(q) = m /\ \A i \in 1 .. m : q[i] = t[i]
    BY <1>3, <1>5
  <2>3. \A i \in 1 .. Len(p) : p[i] = q[i]
    BY <1>5, <2>1, <2>2
  <2> QED BY <2>1, <2>2, <2>3, SeqEqual
<1>6. ASSUME m <= n, SubSeq(s, 1, m) = SubSeq(t, 1, m)
      PROVE  \A i \in 1 .. m : s[i] = t[i]
  <2> TAKE i \in 1 .. m
  <2>1. SubSeq(s, 1, m)[i] = s[i] /\ SubSeq(t, 1, m)[i] = t[i]
    BY <1>2, <1>3, <1>6
  <2> QED BY <1>6, <2>1
<1> QED BY <1>4, <1>5, <1>6 DEF Begins

(* The cast to int keeps every b that may get there but IntMax + 1. *)
LEMMA CastIs ==
  ASSUME NEW u \in 1 .. IntMax + 1
  PROVE  IntResult(ToInt(u) - 1) = IF u = IntMax + 1 THEN IntValues ELSE {u - 1}
<1>1. PICK I \in Nat \ {0} : I = IntMax + 1
  <2>1. IntMax + 1 \in Nat \ {0}
    BY WidthOfInt
  <2> QED BY <2>1
<1>2. PICK F \in Nat \ {0} : F = 2 * I
  <2>1. 2 * I \in Nat \ {0}
    OBVIOUS
  <2> QED BY <2>1
<1>3. Pow(2, IntBits - 1) = I /\ Pow(2, IntBits) = F
  BY <1>1, <1>2, WidthOfInt
<1>4. u \in 0 .. F - 1 /\ u \in Nat /\ 1 <= u /\ u <= I
  BY <1>1, <1>2
<1>5. u % F = u
  <2>1. u = F * 0 + u /\ u \in Int
    BY <1>4
  <2> QED BY <1>4, <2>1, QuotientIs
<1>6. ToInt(u) = IF u >= I THEN u - F ELSE u
  BY <1>3, <1>5 DEF ToInt, Low, Signed
<1>7. IntValues = -I .. I - 1
  <2>1. IntMax = I - 1 /\ -IntMax - 1 = -I
    BY <1>1, WidthOfInt
  <2> QED BY <2>1 DEF IntValues
<1>8. CASE u < I
  <2>1. ToInt(u) = u /\ u - 1 \in -I .. I - 1 /\ u # I
    BY <1>4, <1>6, <1>8
  <2> QED BY <1>1, <1>7, <2>1 DEF IntResult
<1>9. CASE u = I
  <2>1. ToInt(u) - 1 = -I - 1 /\ ~(-I - 1 \in -I .. I - 1)
    BY <1>2, <1>4, <1>6, <1>9
  <2> QED BY <1>1, <1>7, <1>9, <2>1 DEF IntResult
<1> QED BY <1>4, <1>8, <1>9

(* When the guarded decoder returns a value. *)
Complete(bits, L, a, b) ==
  a <= MaxPrefix /\ a # L /\ \A k \in 1 .. a : a + 1 + k <= L /\ b[k] <= IntMax + 1

(* Then, and only then: otherwise it returns an error. *)
LEMMA SafeReturns ==
  ASSUME NEW L \in Nat, NEW bits \in [1 .. L -> {0, 1}],
         NEW a, a = Prefix(bits), NEW b, b = Value(bits, 0)
  PROVE  /\ Complete(bits, L, a, b) => decode_unsigned_safe(bits) = IntResult(ToInt(b[a]) - 1)
         /\ ~Complete(bits, L, a, b) => decode_unsigned_safe(bits) \subseteq {-1, -2, -3}
<1>1. Len(bits) = L
  OBVIOUS
<1>2. a \in 0 .. L /\ \A k \in 0 .. a : b[k] \in Nat
  BY ValueHolds
<1> DEFINE E(k)  == a + 1 + k > Len(bits)
           stops == {k \in 1 .. a : E(k) \/ Overflows(b[k])}
<1>3. decode_unsigned_safe(bits)
        = IF a > MaxPrefix THEN {-2}
          ELSE IF a = Len(bits) THEN {-1}
          ELSE IF stops = {} THEN IntResult(ToInt(b[a]) - 1)
          ELSE IF E(Min(stops)) THEN {-1} ELSE {-3}
  BY Zenon DEF decode_unsigned_safe
<1>4. stops = {} <=> \A k \in 1 .. a : a + 1 + k <= L /\ b[k] <= IntMax + 1
  <2>1. ASSUME NEW k \in 1 .. a
        PROVE  (E(k) \/ Overflows(b[k])) <=> ~(a + 1 + k <= L /\ b[k] <= IntMax + 1)
    <3>1. b[k] \in Nat /\ IntMax \in Nat /\ a + 1 + k \in Nat
      BY <1>2, WidthOfInt
    <3> QED BY <1>1, <3>1 DEF Overflows
  <2> HIDE DEF E
  <2> QED BY <2>1
<1> HIDE DEF E, stops
<1>5. MaxPrefix \in Nat /\ a \in Nat
  BY <1>2, WidthAssumption
<1> QED BY <1>1, <1>3, <1>4, <1>5 DEF Complete

(* With or without the padding after the end, b is the same up to there. *)
LEMMA SameValue ==
  ASSUME NEW L \in Nat, NEW bits \in [1 .. L -> {0, 1}], NEW a, a = Prefix(bits),
         \A k \in 1 .. a : a + 1 + k <= L
  PROVE  Value(bits, 1)[a] = Value(bits, 0)[a]
<1>1. PICK g : g = Value(bits, 0)
  OBVIOUS
<1>2. PICK h : h = Value(bits, 1)
  OBVIOUS
<1>3. a \in 0 .. L /\ g[0] = 1 /\ \A k \in 1 .. a : g[k] = 2 * g[k - 1] + Bit(bits, a + 1 + k, 0)
  BY <1>1, ValueHolds
<1>4. h[0] = 1 /\ \A k \in 1 .. a : h[k] = 2 * h[k - 1] + Bit(bits, a + 1 + k, 1)
  BY <1>2, ValueHolds
<1>5. \A k \in 1 .. a : Bit(bits, a + 1 + k, 0) = Bit(bits, a + 1 + k, 1)
  <2>1. Len(bits) = L
    OBVIOUS
  <2> QED BY <2>1 DEF Bit
<1> DEFINE T == {k \in 0 .. a : g[k] # h[k]}
<1>6. ASSUME T # {} PROVE FALSE
  <2>1. PICK k \in T : \A j \in T : k <= j
    <3>1. T \in SUBSET Nat
      BY <1>3
    <3> HIDE DEF T
    <3> QED BY <1>6, <3>1, LeastNumber
  <2>2. k \in 1 .. a /\ k - 1 \in 0 .. a /\ ~(k <= k - 1)
    BY <1>3, <1>4, <2>1
  <2>3. g[k - 1] = h[k - 1]
    BY <2>1, <2>2
  <2> QED BY <1>3, <1>4, <1>5, <2>1, <2>2, <2>3
<1> QED BY <1>1, <1>2, <1>3, <1>6

(* A stream that begins with the code of v. *)
LEMMA CodeDecodes ==
  ASSUME NEW L \in Nat, NEW bits \in [1 .. L -> {0, 1}], NEW v \in 0 .. IntMax,
         v < IntMax, IsPrefix(CodeOf(v + 1), bits)
  PROVE  decode_unsigned_safe(bits) = {v}
<1>1. PICK n \in 0 .. IntBits - 1 : Shape(v, n)
  BY ShapeThere
<1>2. n \in Nat /\ v + 1 \in 1 .. IntMax + 1 /\ v + 1 \in Nat /\ IntMax \in Nat
  BY WidthOfInt
<1>3. PICK code \in [1 .. 2 * n + 1 -> {0, 1}] :
        /\ code = CodeOf(v + 1)
        /\ \A i \in 1 .. n : code[i] = 0
        /\ code[n + 1] = 1
        /\ \A k \in 1 .. n : code[n + 1 + k] = ((v + 1) \div Pow(2, n - k)) % 2
  BY <1>1, CodeBits
<1>4. 2 * n + 1 <= L /\ \A i \in 1 .. 2 * n + 1 : code[i] = bits[i]
  <2>1. PICK m \in Nat : m = 2 * n + 1
    <3>1. 2 * n + 1 \in Nat
      BY <1>2
    <3> QED BY <3>1
  <2>2. code \in [1 .. m -> {0, 1}] /\ IsPrefix(code, bits)
    BY <1>3, <2>1
  <2>3. m <= L /\ \A i \in 1 .. m : code[i] = bits[i]
    <3>1. Begins(code, m, bits, L)
      BY <2>2, PrefixOf
    <3> QED BY <3>1 DEF Begins
  <2> QED BY <2>1, <2>3
<1>5. Prefix(bits) = n
  <2>1. n \in 0 .. L - 1 /\ n + 1 \in 1 .. 2 * n + 1 /\ \A i \in 1 .. n : i \in 1 .. 2 * n + 1
    BY <1>2, <1>4
  <2>2. bits[n + 1] = 1 /\ \A i \in 1 .. n : bits[i] = 0
    BY <1>3, <1>4, <2>1
  <2> QED BY <2>1, <2>2, PrefixOnly
<1>6. PICK b : b = Value(bits, 0)
  OBVIOUS
<1>7. /\ b[0] = 1
      /\ \A k \in 1 .. n : b[k] = 2 * b[k - 1] + Bit(bits, n + 1 + k, 0)
      /\ \A k \in 0 .. n : b[k] \in Nat
  <2>1. PICK e \in {0, 1} : e = 0
    OBVIOUS
  <2>2. PICK a : a = Prefix(bits)
    OBVIOUS
  <2>3. /\ b[0] = 1
        /\ \A k \in 1 .. a : b[k] = 2 * b[k - 1] + Bit(bits, a + 1 + k, e)
        /\ \A k \in 0 .. a : b[k] \in Nat
    BY <1>6, <2>1, <2>2, ValueHolds
  <2> QED BY <1>5, <2>1, <2>2, <2>3
<1>8. \A k \in 1 .. n : Bit(bits, n + 1 + k, 0) = ((v + 1) \div Pow(2, n - k)) % 2
  <2> TAKE k \in 1 .. n
  <2>1. n + 1 + k \in 1 .. 2 * n + 1 /\ n + 1 + k <= L /\ Len(bits) = L
    BY <1>2, <1>4
  <2> QED BY <1>3, <1>4, <2>1 DEF Bit
(* b after k suffix bits is v + 1 without its last n - k bits. *)
<1> DEFINE T == {k \in 0 .. n : b[k] # (v + 1) \div Pow(2, n - k)}
<1>9. ASSUME T # {} PROVE FALSE
  <2>1. PICK k \in T : \A j \in T : k <= j
    <3>1. T \in SUBSET Nat
      BY <1>2
    <3> HIDE DEF T
    <3> QED BY <1>9, <3>1, LeastNumber
  <2>2. k # 0
    <3>1. (v + 1) \div Pow(2, n) = 1
      <4>1. PICK P \in Nat \ {0} : P = Pow(2, n)
        BY <1>2, TwoPow
      <4>2. P <= v + 1 /\ v + 1 < 2 * P
        BY <1>1, <4>1 DEF Shape
      <4>3. v + 1 = P * 1 + (v + 1 - P) /\ v + 1 - P \in 0 .. P - 1
        BY <1>2, <4>2
      <4>4. (v + 1) \div P = 1
        <5>1. PICK w \in Int, e \in 0 .. P - 1, d \in Int : w = v + 1 /\ e = v + 1 - P /\ d = 1
          BY <1>2, <4>3
        <5>2. w = P * d + e
          BY <4>3, <5>1
        <5>3. w \div P = d
          BY <5>2, QuotientIs
        <5> QED BY <5>1, <5>3
      <4> QED BY <4>1, <4>4
    <3>2. n - 0 = n
      BY <1>2
    <3> QED BY <1>7, <2>1, <3>1, <3>2
  <2>3. /\ k \in 1 .. n /\ k - 1 \in 0 .. n /\ ~(k <= k - 1)
        /\ n - k \in Nat /\ n - (k - 1) = (n - k) + 1
    BY <1>2, <2>1, <2>2
  <2>4. b[k - 1] = (v + 1) \div Pow(2, (n - k) + 1)
    BY <2>1, <2>3
  <2>5. PICK q \in Nat : q = (v + 1) \div Pow(2, n - k) /\ q \div 2 = b[k - 1]
    <3>1. PICK j \in Nat : j = n - k
      BY <2>3
    <3>2. b[k - 1] = (v + 1) \div Pow(2, j + 1)
      BY <2>4, <3>1
    <3>3. ((v + 1) \div Pow(2, j)) \div 2 = (v + 1) \div Pow(2, j + 1) /\ (v + 1) \div Pow(2, j) \in Nat
      BY <1>2, HalfAgain
    <3> QED BY <3>1, <3>2, <3>3
  <2>6. b[k] = 2 * (q \div 2) + (q % 2)
    BY <1>7, <1>8, <2>3, <2>5
  <2>7. q = 2 * (q \div 2) + (q % 2)
    OBVIOUS
  <2> QED BY <2>1, <2>5, <2>6, <2>7
<1>10. \A k \in 0 .. n : b[k] = (v + 1) \div Pow(2, n - k)
  BY <1>9
<1>11. b[n] = v + 1
  <2>1. n \in 0 .. n /\ n - n = 0 /\ (v + 1) \div Pow(2, 0) = v + 1
    BY <1>2, HalfAgain
  <2> QED BY <1>10, <2>1
<1>12. \A k \in 1 .. n : b[k] <= IntMax + 1
  <2> TAKE k \in 1 .. n
  <2>1. n - k \in Nat /\ k \in 0 .. n
    BY <1>2
  <2>2. PICK P \in Nat \ {0} : P = Pow(2, n - k)
    BY <2>1, TwoPow
  <2>3. PICK q \in Nat, r \in 0 .. P - 1 : q = b[k] /\ v + 1 = P * q + r
    <3>1. b[k] \in Nat /\ b[k] = (v + 1) \div P
      BY <1>7, <1>10, <2>1, <2>2
    <3>2. v + 1 = P * ((v + 1) \div P) + ((v + 1) % P) /\ (v + 1) % P \in 0 .. P - 1
      BY <1>2, Division
    <3> QED BY <3>1, <3>2
  <2>4. q <= P * q
    <3>1. PICK d \in Nat : P = 1 + d
      <4>1. P - 1 \in Nat /\ P = 1 + (P - 1)
        OBVIOUS
      <4> QED BY <4>1
    <3>2. PICK y \in Nat : y = d * q
      <4>1. d * q \in Nat
        BY Z3
      <4> QED BY <4>1
    <3>3. (1 + d) * q = q + d * q
      BY Z3
    <3> QED BY <3>1, <3>2, <3>3
  <2>5. PICK p \in Nat : p = P * q
    BY Z3
  <2>6. v + 1 = p + r /\ q <= p
    BY <2>3, <2>4, <2>5
  <2> QED BY <1>2, <2>3, <2>6
<1>13. Complete(bits, L, n, b)
  <2>1. n <= MaxPrefix /\ n # L
    BY <1>2, <1>4, WidthAssumption
  <2>2. \A k \in 1 .. n : n + 1 + k <= L
    BY <1>2, <1>4
  <2> QED BY <1>12, <2>1, <2>2 DEF Complete
<1>14. decode_unsigned_safe(bits) = IntResult(ToInt(v + 1) - 1)
  BY <1>5, <1>6, <1>11, <1>13, SafeReturns
<1>15. IntResult(ToInt(v + 1) - 1) = {(v + 1) - 1}
  <2>1. v + 1 # IntMax + 1
    BY <1>2
  <2> QED BY <1>2, <2>1, CastIs
<1> QED BY <1>2, <1>14, <1>15

(* A value comes from its code or, off the range, from that of IntMax + 1; in
   the first case the original decoder returns it too. *)
LEMMA DecodedWasCode ==
  ASSUME NEW L \in Nat, NEW bits \in [1 .. L -> {0, 1}], NEW r \in decode_unsigned_safe(bits), r >= 0,
         ~IsPrefix(CodeOf(IntMax + 1), bits)
  PROVE  /\ r \in 0 .. IntMax - 1 /\ IsPrefix(CodeOf(r + 1), bits)
         /\ decode_unsigned_original(bits) = {r}
<1>1. PICK a : a = Prefix(bits)
  OBVIOUS
<1>2. PICK b : b = Value(bits, 0)
  OBVIOUS
<1>3. Complete(bits, L, a, b) /\ r \in IntResult(ToInt(b[a]) - 1)
  <2>1. ~(-1 >= 0) /\ ~(-2 >= 0) /\ ~(-3 >= 0)
    OBVIOUS
  <2> QED BY <1>1, <1>2, <2>1, SafeReturns
<1>4. /\ a \in 0 .. L /\ a \in Nat /\ b[0] = 1
      /\ \A k \in 0 .. a : b[k] \in Nat /\ Pow(2, k) <= b[k] /\ b[k] < 2 * Pow(2, k)
      /\ \A k \in 1 .. a : b[k] = 2 * b[k - 1] + Bit(bits, a + 1 + k, 0)
  BY <1>1, <1>2, ValueHolds
<1>5. IntMax \in Nat /\ IntBits - 1 \in Nat /\ Pow(2, IntBits - 1) = IntMax + 1
  BY WidthOfInt
<1>6. PICK u \in 1 .. IntMax + 1 : u = b[a] /\ Pow(2, a) <= u /\ u < 2 * Pow(2, a)
  <2>1. a \in 0 .. a
    BY <1>4
  <2>2. b[a] \in Nat /\ Pow(2, a) <= b[a] /\ b[a] < 2 * Pow(2, a) /\ Pow(2, a) \in Nat \ {0}
    <3>1. Pow(2, a) \in Nat \ {0}
      BY <1>4, TwoPow
    <3> QED BY <1>4, <2>1, <3>1
  <2>3. b[a] <= IntMax + 1
    <3>1. CASE a = 0
      BY <1>4, <1>5, <3>1
    <3>2. CASE a # 0
      <4>1. a \in 1 .. a
        BY <1>4, <3>2
      <4> QED BY <1>3, <4>1 DEF Complete
    <3> QED BY <3>1, <3>2
  <2>4. b[a] \in 1 .. IntMax + 1
    BY <1>5, <2>2, <2>3
  <2> QED BY <2>2, <2>4
<1>7. PICK v \in 0 .. IntMax : v = u - 1 /\ v + 1 = u
  <2>1. u - 1 \in 0 .. IntMax /\ (u - 1) + 1 = u
    BY <1>5
  <2> QED BY <2>1
<1>8. a \in 0 .. IntBits - 1 /\ Shape(v, a)
  <2>1. ASSUME IntBits - 1 < a PROVE FALSE
    <3>1. 2 * Pow(2, IntBits - 1) <= Pow(2, a)
      BY <1>4, <1>5, <2>1, PowGrows
    <3>2. PICK x \in Nat : x = Pow(2, a)
      BY <1>4, TwoPow
    <3> QED BY <1>5, <1>6, <3>1, <3>2
  <2>2. a \in 0 .. IntBits - 1
    BY <1>4, <1>5, <2>1
  <2> QED BY <1>6, <1>7, <2>2 DEF Shape
<1>9. PICK code \in [1 .. 2 * a + 1 -> {0, 1}] :
        /\ code = CodeOf(v + 1)
        /\ \A i \in 1 .. a : code[i] = 0
        /\ code[a + 1] = 1
        /\ \A k \in 1 .. a : code[a + 1 + k] = ((v + 1) \div Pow(2, a - k)) % 2
  BY <1>7, <1>8, CodeBits
<1>10. /\ \A j \in 0 .. a : b[a - j] = u \div Pow(2, j)
       /\ \A k \in 1 .. a : b[k] % 2 = Bit(bits, a + 1 + k, 0)
  BY <1>1, <1>2, <1>6, ValueBack
<1>11. a # L /\ \A k \in 1 .. a : a + 1 + k <= L
  BY <1>3 DEF Complete
<1>12. \A k \in 1 .. a : code[a + 1 + k] = bits[a + 1 + k]
  <2> TAKE k \in 1 .. a
  <2>1. a - k \in 0 .. a /\ a - (a - k) = k
    BY <1>4
  <2>2. b[k] = u \div Pow(2, a - k)
    BY <1>10, <2>1
  <2>3. Bit(bits, a + 1 + k, 0) = bits[a + 1 + k]
    <3>1. Len(bits) = L
      OBVIOUS
    <3> QED BY <1>11, <3>1 DEF Bit
  <2> QED BY <1>7, <1>9, <1>10, <2>2, <2>3
<1>13. (\A i \in 1 .. a : bits[i] = 0) /\ bits[a + 1] = 1
  BY <1>1, <1>11, PrefixIs
<1>14. IsPrefix(code, bits)
  <2>1. 2 * a + 1 \in Nat /\ 2 * a + 1 <= L
    <3>1. CASE a = 0
      BY <1>4, <1>11, <3>1
    <3>2. CASE a # 0
      <4>1. a \in 1 .. a
        BY <1>4, <3>2
      <4>2. a + 1 + a <= L
        BY <1>11, <4>1
      <4> QED BY <1>4, <4>2
    <3> QED BY <3>1, <3>2
  <2>2. ASSUME NEW i \in 1 .. 2 * a + 1 PROVE code[i] = bits[i]
    <3>1. CASE i \in 1 .. a
      BY <1>9, <1>13, <3>1
    <3>2. CASE i = a + 1
      BY <1>9, <1>13, <3>2
    <3>3. CASE ~(i <= a + 1)
      <4>1. PICK k \in 1 .. a : i = a + 1 + k
        <5>1. i - (a + 1) \in 1 .. a /\ i = a + 1 + (i - (a + 1))
          BY <1>4, <3>3
        <5> QED BY <5>1
      <4> QED BY <1>12, <4>1
    <3> QED BY <1>4, <3>1, <3>2, <3>3
  <2>3. PICK m \in Nat : m = 2 * a + 1
    BY <2>1
  <2>4. Begins(code, m, bits, L) /\ code \in [1 .. m -> {0, 1}]
    BY <2>1, <2>2, <2>3 DEF Begins
  <2> QED BY <2>4, PrefixOf
<1>15. IsPrefix(CodeOf(u), bits)
  BY <1>7, <1>9, <1>14
<1>16. u # IntMax + 1
  BY <1>15
<1>17. r = v
  <2>1. r \in {u - 1}
    BY <1>3, <1>6, <1>16, CastIs
  <2> QED BY <1>7, <2>1
<1>18. v \in 0 .. IntMax - 1
  BY <1>5, <1>7, <1>16
<1>19. decode_unsigned_original(bits) = {v}
  <2>1. Value(bits, 1)[a] = u
    BY <1>1, <1>2, <1>6, <1>11, SameValue
  <2>2. u \in IntValues
    BY <1>5, <1>7, <1>18 DEF IntValues
  <2>3. decode_unsigned_original(bits) = {u - 1}
    BY <1>1, <2>1, <2>2 DEF decode_unsigned_original
  <2> QED BY <1>7, <2>3
<1> QED BY <1>7, <1>15, <1>17, <1>18, <1>19

(* decode_unsigned: a stream is drawn, and what both decoders return for it is kept. *)
Streams == UNION {[1 .. n -> {0, 1}] : n \in 0 .. StreamLen}

DecodeInv ==
  lab = "decode_unsigned" =>
    /\ phase \in {"call", "checked"} => input.bits \in Streams
    /\ phase = "checked" => /\ result.got \in decode_unsigned_safe(input.bits)
                            /\ result.original \in decode_unsigned_original(input.bits)

(* Each stream is decoded as it was drawn. *)
LEMMA DecodeStep == DecodeInv /\ [Next]_vars => DecodeInv'
<1> SUFFICES ASSUME DecodeInv, [Next]_vars, lab' = "decode_unsigned"
             PROVE  /\ phase' \in {"call", "checked"} => input'.bits \in Streams
                    /\ phase' = "checked" => /\ result'.got \in decode_unsigned_safe(input'.bits)
                                             /\ result'.original \in decode_unsigned_original(input'.bits)
  BY DEF DecodeInv
<1>1. lab = "decode_unsigned"
  BY SameLab
<1>2. /\ phase \in {"call", "checked"} => input.bits \in Streams
      /\ phase = "checked" => /\ result.got \in decode_unsigned_safe(input.bits)
                              /\ result.original \in decode_unsigned_original(input.bits)
  BY <1>1 DEF DecodeInv
<1>3. CASE Draw
  <2>1. Inputs["decode_unsigned"] = [bits : Streams]
    BY DEF Inputs, Streams
  <2>2. input' \in [bits : Streams] /\ phase' = "call"
    BY <1>1, <1>3, <2>1 DEF Draw
  <2> QED BY <2>2
<1>4. CASE Compare
  <2>1. phase' \in {"failed", "draw"}
    BY <1>4 DEF Compare
  <2> QED BY <2>1
<1>5. CASE Decode
  BY <1>2, <1>5 DEF Decode, Calling, Returns
<1>6. CASE UNCHANGED vars
  BY <1>2, <1>6 DEF vars
<1>7. ASSUME Next PROVE Draw \/ Compare \/ Decode
  BY <1>1, <1>7 DEF Next, Calling, ConvertFull, ConvertExperiment, Quarter,
       verify_unsigned_high_prod32, verify_unsigned_high_prod, verify_mul_u64_u32_shr, verify_size_mul_like,
       PackAndUnpack, Reject, Accept, LookUp, TraceRow, ConvertTernary, ExpandFraction, UpdateCrc,
       ChecksumData, NotPowerOfTwo, AddSample, EndOfRun
<1> QED BY <1>3, <1>4, <1>5, <1>6, <1>7

(* decode_unsigned: for every width of int and every stream, decode_unsigned_safe
   returns v exactly where the code of v is in front, for every v but the greatest
   int, and there the original decoder returns it too.  On the stream of
   IntMax + 1, which the check lets pass, nothing is said of the result. *)
THEOREM SafeDecoderInverts == Spec => []SafeDecodeInverts
<1>1. Init => DecodeInv
  BY DEF Init, DecodeInv
<1>2. DecodeInv => SafeDecodeInverts
  <2> SUFFICES ASSUME DecodeInv, lab = "decode_unsigned", phase = "checked"
               PROVE  /\ \A v \in 0 .. IntMax - 1 :
                           \A code \in make_code_for_value(v) : IsPrefix(code, input.bits) => result.got = v
                      /\ result.got >= 0 /\ ~IsPrefix(CodeOf(IntMax + 1), input.bits) =>
                           /\ result.got < IntMax /\ result.original = result.got
                           /\ \A code \in make_code_for_value(result.got) : IsPrefix(code, input.bits)
    BY DEF SafeDecodeInverts, Checked
  <2>1. PICK bits : bits = input.bits
    OBVIOUS
  <2>2. PICK L \in Nat : bits \in [1 .. L -> {0, 1}]
    <3>1. bits \in UNION {[1 .. n -> {0, 1}] : n \in 0 .. StreamLen}
      BY <2>1 DEF DecodeInv, Streams
    <3>2. \A n \in 0 .. StreamLen : n \in Nat
      BY StreamAssumption
    <3> QED BY <3>1, <3>2
  <2>3. PICK got \in decode_unsigned_safe(bits), original \in decode_unsigned_original(bits) :
          got = result.got /\ original = result.original
    BY <2>1 DEF DecodeInv
  <2>4. ASSUME NEW v \in 0 .. IntMax - 1, NEW code \in make_code_for_value(v), IsPrefix(code, bits)
        PROVE  got = v
    <3>1. v \in 0 .. IntMax /\ v < IntMax
      BY WidthOfInt
    <3>2. IsPrefix(CodeOf(v + 1), bits)
      BY <2>4, CodeWritten
    <3>3. decode_unsigned_safe(bits) = {v}
      BY <2>2, <3>1, <3>2, CodeDecodes
    <3> QED BY <2>3, <3>3
  <2>5. ASSUME got >= 0, ~IsPrefix(CodeOf(IntMax + 1), bits)
        PROVE  /\ got < IntMax /\ original = got
               /\ \A code \in make_code_for_value(got) : IsPrefix(code, bits)
    <3>1. /\ got \in 0 .. IntMax - 1 /\ IsPrefix(CodeOf(got + 1), bits)
          /\ decode_unsigned_original(bits) = {got}
      BY <2>2, <2>3, <2>5, DecodedWasCode
    <3>2. make_code_for_value(got) = {CodeOf(got + 1)}
      BY <3>1, CodeWritten
    <3>3. got < IntMax
      BY <3>1, WidthOfInt
    <3> QED BY <2>3, <3>1, <3>2, <3>3
  <2> QED BY <2>1, <2>3, <2>4, <2>5
<1> QED BY <1>1, <1>2, DecodeStep, PTL DEF Spec

----------------------------------------------------------------------------
(* Loops.                                                                  *)

(* A loop: h[k] is the state after k rounds, each of which F makes. *)
LoopRule(h, F, base, n) == h[0] = base /\ \A k \in 1 .. n : h[k] = F[<<k, h[k - 1]>>]

(* Every loop that never leaves S has its table of states. *)
LEMMA LoopThere ==
  ASSUME NEW S, NEW F \in [Nat \X S -> S], NEW base \in S, NEW n \in Nat
  PROVE  \E h \in [0 .. n -> S] : LoopRule(h, F, base, n)
<1> DEFINE T == {m \in Nat : ~ \E h \in [0 .. m -> S] : LoopRule(h, F, base, m)}
<1>1. ASSUME T # {} PROVE FALSE
  <2>1. PICK m \in T : \A j \in T : m <= j
    <3>1. T \in SUBSET Nat
      OBVIOUS
    <3> HIDE DEF T
    <3> QED BY <1>1, <3>1, LeastNumber
  <2>2. m # 0
    <3> DEFINE z == [k \in 0 .. 0 |-> base]
    <3>1. z \in [0 .. 0 -> S] /\ LoopRule(z, F, base, 0)
      BY DEF LoopRule
    <3> QED BY <2>1, <3>1
  <2>3. m - 1 \in Nat /\ ~(m <= m - 1) /\ m \in Nat
    BY <2>1, <2>2
  <2>4. PICK g \in [0 .. m - 1 -> S] : LoopRule(g, F, base, m - 1)
    BY <2>1, <2>3
  <2>5. g[0] = base /\ \A k \in 1 .. m - 1 : g[k] = F[<<k, g[k - 1]>>]
    BY <2>4 DEF LoopRule
  <2> DEFINE h == [k \in 0 .. m |-> IF k = m THEN F[<<m, g[m - 1]>>] ELSE g[k]]
  <2>6. g[m - 1] \in S /\ <<m, g[m - 1]>> \in Nat \X S
    BY <2>3, <2>4
  <2>7. h \in [0 .. m -> S]
    BY <2>3, <2>4, <2>6
  <2>8. /\ h[m] = F[<<m, g[m - 1]>>]
        /\ \A k \in 0 .. m - 1 : h[k] = g[k]
    BY <2>3
  <2> HIDE DEF h
  <2>9. h[0] = base
    BY <2>3, <2>5, <2>8
  <2>10. ASSUME NEW k \in 1 .. m PROVE h[k] = F[<<k, h[k - 1]>>]
    <3>1. h[k - 1] = g[k - 1]
      BY <2>3, <2>8
    <3>2. CASE k = m
      BY <2>8, <3>1, <3>2
    <3>3. CASE k # m
      <4>1. k \in 1 .. m - 1 /\ k \in 0 .. m - 1
        BY <2>3, <3>3
      <4> QED BY <2>5, <2>8, <3>1, <4>1
    <3> QED BY <3>2, <3>3
  <2>11. LoopRule(h, F, base, m)
    BY <2>9, <2>10 DEF LoopRule
  <2> QED BY <2>1, <2>7, <2>11
<1> QED BY <1>1

(* And only one. *)
LEMMA LoopsAgree ==
  ASSUME NEW F, NEW base, NEW m \in Nat, NEW n \in Nat, m <= n,
         NEW g, LoopRule(g, F, base, m), NEW h, LoopRule(h, F, base, n)
  PROVE  g[m] = h[m]
<1>1. /\ g[0] = base /\ \A k \in 1 .. m : g[k] = F[<<k, g[k - 1]>>]
      /\ h[0] = base /\ \A k \in 1 .. n : h[k] = F[<<k, h[k - 1]>>]
  BY DEF LoopRule
<1> DEFINE T == {k \in 0 .. m : g[k] # h[k]}
<1>2. ASSUME T # {} PROVE FALSE
  <2>1. PICK k \in T : \A j \in T : k <= j
    <3>1. T \in SUBSET Nat
      OBVIOUS
    <3> HIDE DEF T
    <3> QED BY <1>2, <3>1, LeastNumber
  <2>2. k # 0
    BY <1>1, <2>1
  <2>3. k \in 1 .. m /\ k \in 1 .. n /\ k - 1 \in 0 .. m /\ ~(k <= k - 1)
    BY <2>1, <2>2
  <2>4. g[k - 1] = h[k - 1]
    BY <2>1, <2>3
  <2> QED BY <1>1, <2>1, <2>3, <2>4
<1> QED BY <1>2

----------------------------------------------------------------------------
(* Which bits a word has after one bit of the division. *)
LEMMA BitsDivided ==
  ASSUME NEW x \in CrcWords
  PROVE  /\ DivideBit(x) \in CrcWords
         /\ \A b \in Int : b \in DivideBit(x) <=> ((b + 1 \in x /\ b >= 0) <=> ~(0 \in x /\ b \in Polynomial))
<1>1. CrcBits \in Nat /\ Polynomial \subseteq 0 .. CrcBits - 1 /\ x \subseteq 0 .. CrcBits - 1
  BY CrcAssumption DEF CrcWords
<1>2. \A b \in Int : b \in ShiftRight(x, 1) <=> (b + 1 \in x /\ b >= 0)
  BY <1>1 DEF ShiftRight
<1>3. ShiftRight(x, 1) \subseteq 0 .. CrcBits - 1
  BY <1>1 DEF ShiftRight
<1>4. CASE 0 \in x
  <2>1. DivideBit(x) = (ShiftRight(x, 1) \ Polynomial) \cup (Polynomial \ ShiftRight(x, 1))
    BY <1>4 DEF DivideBit, SymDiff
  <2> QED BY <1>1, <1>2, <1>3, <1>4, <2>1 DEF CrcWords
<1>5. CASE 0 \notin x
  BY <1>2, <1>3, <1>5 DEF DivideBit, CrcWords
<1> QED BY <1>4, <1>5

(* The exclusive or of words. *)
LEMMA WordsDiffer ==
  ASSUME NEW x \in CrcWords, NEW y \in CrcWords
  PROVE  /\ SymDiff(x, y) \in CrcWords
         /\ \A b \in Int : b \in SymDiff(x, y) <=> (b \in x <=> b \notin y)
BY DEF CrcWords, SymDiff

(* Words with the same bits. *)
LEMMA SameBits ==
  ASSUME NEW x \in CrcWords, NEW y \in CrcWords, \A b \in Int : b \in x <=> b \in y
  PROVE  x = y
<1>1. x \subseteq Int /\ y \subseteq Int
  BY CrcAssumption DEF CrcWords
<1> QED BY <1>1

(* Division distributes over exclusive or. *)
LEMMA DivideLinear ==
  ASSUME NEW x \in CrcWords, NEW y \in CrcWords
  PROVE  DivideBit(SymDiff(x, y)) = SymDiff(DivideBit(x), DivideBit(y))
<1>1. SymDiff(x, y) \in CrcWords /\ DivideBit(x) \in CrcWords /\ DivideBit(y) \in CrcWords
  BY WordsDiffer, BitsDivided
<1>2. DivideBit(SymDiff(x, y)) \in CrcWords /\ SymDiff(DivideBit(x), DivideBit(y)) \in CrcWords
  BY <1>1, WordsDiffer, BitsDivided
<1>3. ASSUME NEW b \in Int PROVE b \in DivideBit(SymDiff(x, y)) <=> b \in SymDiff(DivideBit(x), DivideBit(y))
  <2>1. b + 1 \in Int /\ 0 \in Int
    OBVIOUS
  <2>2. b \in DivideBit(SymDiff(x, y)) <=> ((b + 1 \in SymDiff(x, y) /\ b >= 0) <=> ~(0 \in SymDiff(x, y) /\ b \in Polynomial))
    BY <1>1, BitsDivided
  <2>3. /\ b + 1 \in SymDiff(x, y) <=> (b + 1 \in x <=> b + 1 \notin y)
        /\ 0 \in SymDiff(x, y) <=> (0 \in x <=> 0 \notin y)
    BY <2>1, WordsDiffer
  <2>4. /\ b \in DivideBit(x) <=> ((b + 1 \in x /\ b >= 0) <=> ~(0 \in x /\ b \in Polynomial))
        /\ b \in DivideBit(y) <=> ((b + 1 \in y /\ b >= 0) <=> ~(0 \in y /\ b \in Polynomial))
    BY BitsDivided
  <2>5. b \in SymDiff(DivideBit(x), DivideBit(y)) <=> (b \in DivideBit(x) <=> b \notin DivideBit(y))
    BY <1>1, WordsDiffer
  <2> QED BY <2>2, <2>3, <2>4, <2>5
<1> QED BY <1>2, <1>3, SameBits

(* The words the loop of count divisions goes through. *)
CrcRule(c, crc, count) == c = [k \in 0 .. count |-> IF k = 0 THEN crc ELSE DivideBit(c[k - 1])]

(* What DivideBits reads from them. *)
LEMMA DividedIs ==
  ASSUME NEW crc, NEW count
  PROVE  DivideBits(crc, count) = (CHOOSE c : CrcRule(c, crc, count))[count]
BY Zenon DEF DivideBits, CrcRule

(* One division, as a function. *)
Divided == [p \in Nat \X CrcWords |-> DivideBit(p[2])]

(* The loop is one of those. *)
LEMMA CrcLoop ==
  ASSUME NEW crc \in CrcWords, NEW count \in Nat
  PROVE  /\ \A c : CrcRule(c, crc, count) => LoopRule(c, Divided, crc, count)
         /\ \E c : CrcRule(c, crc, count)
<1>1. Divided \in [Nat \X CrcWords -> CrcWords]
  BY BitsDivided DEF Divided
<1>2. PICK c \in [0 .. count -> CrcWords] : LoopRule(c, Divided, crc, count)
  BY <1>1, LoopThere
<1>3. c[0] = crc /\ \A k \in 1 .. count : c[k] = DivideBit(c[k - 1])
  <2>1. c[0] = crc /\ \A k \in 1 .. count : c[k] = Divided[<<k, c[k - 1]>>]
    BY <1>2 DEF LoopRule
  <2>2. \A k \in 1 .. count : k \in Nat /\ c[k - 1] \in CrcWords
    OBVIOUS
  <2> QED BY <2>1, <2>2 DEF Divided
<1>4. \A k \in 0 .. count : c[k] = IF k = 0 THEN crc ELSE DivideBit(c[k - 1])
  BY <1>3
<1>5. CrcRule(c, crc, count)
  BY <1>4, Zenon DEF CrcRule
<1>6. ASSUME NEW d, CrcRule(d, crc, count) PROVE LoopRule(d, Divided, crc, count)
  <2>1. \A k \in 0 .. count : d[k] = IF k = 0 THEN crc ELSE DivideBit(d[k - 1])
    BY <1>6, Zenon DEF CrcRule
  <2>2. \A k \in 0 .. count : d[k] \in CrcWords
    <3> DEFINE T == {k \in 0 .. count : d[k] \notin CrcWords}
    <3>1. ASSUME T # {} PROVE FALSE
      <4>1. PICK k \in T : \A j \in T : k <= j
        <5>1. T \in SUBSET Nat
          OBVIOUS
        <5> HIDE DEF T
        <5> QED BY <3>1, <5>1, LeastNumber
      <4>2. k # 0
        BY <2>1, <4>1
      <4>3. k - 1 \in 0 .. count /\ ~(k <= k - 1)
        BY <4>1, <4>2
      <4>4. d[k - 1] \in CrcWords
        BY <4>1, <4>3
      <4>5. d[k] = DivideBit(d[k - 1])
        BY <2>1, <4>1, <4>2
      <4> QED BY <4>1, <4>4, <4>5, BitsDivided
    <3> QED BY <3>1
  <2>3. d[0] = crc
    BY <2>1
  <2>4. ASSUME NEW k \in 1 .. count PROVE d[k] = Divided[<<k, d[k - 1]>>]
    <3>1. d[k] = DivideBit(d[k - 1]) /\ d[k - 1] \in CrcWords /\ k \in Nat
      BY <2>1, <2>2
    <3> QED BY <3>1 DEF Divided
  <2> QED BY <2>3, <2>4 DEF LoopRule
<1> QED BY <1>5, <1>6

(* One division after another. *)
LEMMA DividedStep ==
  ASSUME NEW crc \in CrcWords
  PROVE  /\ DivideBits(crc, 0) = crc
         /\ \A n \in Nat : DivideBits(crc, n) \in CrcWords /\ DivideBits(crc, n + 1) = DivideBit(DivideBits(crc, n))
<1> DEFINE Table(n) == CHOOSE c : CrcRule(c, crc, n)
<1>1. \A n \in Nat : LoopRule(Table(n), Divided, crc, n) /\ DivideBits(crc, n) = Table(n)[n]
  <2> TAKE n \in Nat
  <2>1. \E c : CrcRule(c, crc, n)
    BY CrcLoop
  <2>2. CrcRule(Table(n), crc, n)
    BY <2>1, Zenon
  <2>3. LoopRule(Table(n), Divided, crc, n)
    BY <2>2, CrcLoop
  <2>4. DivideBits(crc, n) = Table(n)[n]
    BY DividedIs
  <2> QED BY <2>3, <2>4
<1> HIDE DEF Table
<1>2. DivideBits(crc, 0) = crc
  BY <1>1 DEF LoopRule
<1>3. \A n \in Nat : DivideBits(crc, n + 1) = Divided[<<n + 1, DivideBits(crc, n)>>]
  <2> TAKE n \in Nat
  <2>1. n + 1 \in Nat /\ n <= n + 1 /\ n + 1 \in 1 .. n + 1 /\ (n + 1) - 1 = n
    OBVIOUS
  <2>2. Table(n + 1)[n + 1] = Divided[<<n + 1, Table(n + 1)[n]>>]
    BY <1>1, <2>1 DEF LoopRule
  <2>3. Table(n)[n] = Table(n + 1)[n]
    <3>1. LoopRule(Table(n), Divided, crc, n) /\ LoopRule(Table(n + 1), Divided, crc, n + 1)
      BY <1>1, <2>1
    <3>2. n \in Nat
      OBVIOUS
    <3> QED BY <2>1, <3>1, <3>2, LoopsAgree
  <2> QED BY <1>1, <2>1, <2>2, <2>3
<1>4. \A n \in Nat : DivideBits(crc, n) \in CrcWords
  <2> DEFINE T == {n \in Nat : DivideBits(crc, n) \notin CrcWords}
  <2>1. ASSUME T # {} PROVE FALSE
    <3>1. PICK n \in T : \A j \in T : n <= j
      <4>1. T \in SUBSET Nat
        OBVIOUS
      <4> HIDE DEF T
      <4> QED BY <2>1, <4>1, LeastNumber
    <3>2. n # 0
      BY <1>2, <3>1
    <3>3. n - 1 \in Nat /\ ~(n <= n - 1) /\ (n - 1) + 1 = n
      BY <3>1, <3>2
    <3>4. DivideBits(crc, n - 1) \in CrcWords
      BY <3>1, <3>3
    <3>5. DivideBits(crc, n) = Divided[<<n, DivideBits(crc, n - 1)>>] /\ n \in Nat
      BY <1>3, <3>3
    <3>6. DivideBits(crc, n) = DivideBit(DivideBits(crc, n - 1))
      BY <3>4, <3>5 DEF Divided
    <3> QED BY <3>1, <3>4, <3>6, BitsDivided
  <2> QED BY <2>1
<1>5. \A n \in Nat : DivideBits(crc, n + 1) = DivideBit(DivideBits(crc, n))
  <2> TAKE n \in Nat
  <2>1. n + 1 \in Nat /\ DivideBits(crc, n) \in CrcWords
    BY <1>4
  <2> QED BY <1>3, <2>1 DEF Divided
<1> QED BY <1>2, <1>4, <1>5

(* A word the divisions of which are all of its shifts: nothing was subtracted. *)
LEMMA DividedShift ==
  ASSUME NEW x \in CrcWords, NEW n \in Nat, \A b \in x : b >= n
  PROVE  DivideBits(x, n) = ShiftRight(x, n)
<1>0. x \subseteq Int
  BY CrcAssumption DEF CrcWords
<1> DEFINE T == {k \in 0 .. n : DivideBits(x, k) # ShiftRight(x, k)}
<1>1. ASSUME T # {} PROVE FALSE
  <2>1. PICK k \in T : \A j \in T : k <= j
    <3>1. T \in SUBSET Nat
      OBVIOUS
    <3> HIDE DEF T
    <3> QED BY <1>1, <3>1, LeastNumber
  <2>2. k # 0
    <3>1. ShiftRight(x, 0) = x
      <4>1. \A b \in x : b >= 0 /\ b - 0 = b
        BY CrcAssumption DEF CrcWords
      <4>2. ShiftRight(x, 0) = {b - 0 : b \in x}
        BY <4>1 DEF ShiftRight
      <4>3. {b - 0 : b \in x} = x
        BY <4>1
      <4> QED BY <4>2, <4>3
    <3>2. DivideBits(x, 0) = x
      BY DividedStep
    <3> QED BY <2>1, <3>1, <3>2
  <2>3. k - 1 \in Nat /\ k - 1 \in 0 .. n /\ ~(k <= k - 1) /\ (k - 1) + 1 = k
    BY <2>1, <2>2
  <2>4. DivideBits(x, k - 1) = ShiftRight(x, k - 1)
    BY <2>1, <2>3
  <2>5. DivideBits(x, k) = DivideBit(ShiftRight(x, k - 1))
    <3>1. DivideBits(x, (k - 1) + 1) = DivideBit(DivideBits(x, k - 1))
      BY <2>3, DividedStep
    <3> QED BY <2>3, <2>4, <3>1
  <2>6. ShiftRight(x, k - 1) = {b - (k - 1) : b \in x}
    BY <1>0, <2>3 DEF ShiftRight
  <2>7. 0 \notin ShiftRight(x, k - 1)
    BY <1>0, <2>3, <2>6
  <2>8. DivideBit(ShiftRight(x, k - 1)) = ShiftRight(ShiftRight(x, k - 1), 1)
    BY <2>7 DEF DivideBit
  <2>9. ShiftRight(ShiftRight(x, k - 1), 1) = ShiftRight(x, k)
    <3>1. \A b \in x : b >= k /\ (b - (k - 1)) - 1 = b - k /\ b - (k - 1) >= 1
      BY <1>0, <2>1, <2>3
    <3>2. ShiftRight(x, k) = {b - k : b \in x}
      BY <3>1 DEF ShiftRight
    <3>3. ShiftRight(ShiftRight(x, k - 1), 1) = {b - k : b \in x}
      BY <2>6, <3>1 DEF ShiftRight
    <3> QED BY <3>2, <3>3
  <2> QED BY <2>1, <2>5, <2>8, <2>9
<1> QED
  <2>1. n \in 0 .. n
    OBVIOUS
  <2> QED BY <1>1, <2>1

(* Any number of divisions distributes over exclusive or. *)
LEMMA DividedLinear ==
  ASSUME NEW x \in CrcWords, NEW y \in CrcWords, NEW n \in Nat
  PROVE  DivideBits(SymDiff(x, y), n) = SymDiff(DivideBits(x, n), DivideBits(y, n))
<1>0. SymDiff(x, y) \in CrcWords
  BY WordsDiffer
<1> DEFINE T == {k \in Nat : DivideBits(SymDiff(x, y), k) # SymDiff(DivideBits(x, k), DivideBits(y, k))}
<1>1. ASSUME T # {} PROVE FALSE
  <2>1. PICK k \in T : \A j \in T : k <= j
    <3>1. T \in SUBSET Nat
      OBVIOUS
    <3> HIDE DEF T
    <3> QED BY <1>1, <3>1, LeastNumber
  <2>2. k # 0
    <3>1. DivideBits(x, 0) = x /\ DivideBits(y, 0) = y /\ DivideBits(SymDiff(x, y), 0) = SymDiff(x, y)
      BY <1>0, DividedStep
    <3> QED BY <2>1, <3>1
  <2>3. k - 1 \in Nat /\ ~(k <= k - 1) /\ (k - 1) + 1 = k
    BY <2>1, <2>2
  <2>4. DivideBits(SymDiff(x, y), k - 1) = SymDiff(DivideBits(x, k - 1), DivideBits(y, k - 1))
    BY <2>1, <2>3
  <2>5. /\ DivideBits(x, k) = DivideBit(DivideBits(x, k - 1)) /\ DivideBits(x, k - 1) \in CrcWords
        /\ DivideBits(y, k) = DivideBit(DivideBits(y, k - 1)) /\ DivideBits(y, k - 1) \in CrcWords
        /\ DivideBits(SymDiff(x, y), k) = DivideBit(DivideBits(SymDiff(x, y), k - 1))
    <3>1. \A z \in CrcWords : DivideBits(z, k) = DivideBit(DivideBits(z, k - 1)) /\ DivideBits(z, k - 1) \in CrcWords
      <4> TAKE z \in CrcWords
      <4>1. DivideBits(z, (k - 1) + 1) = DivideBit(DivideBits(z, k - 1)) /\ DivideBits(z, k - 1) \in CrcWords
        BY <2>3, DividedStep
      <4> QED BY <2>3, <4>1
    <3> QED BY <1>0, <3>1
  <2>6. DivideBit(SymDiff(DivideBits(x, k - 1), DivideBits(y, k - 1))) = SymDiff(DivideBits(x, k), DivideBits(y, k))
    BY <2>5, DivideLinear
  <2> QED BY <2>1, <2>4, <2>5, <2>6
<1> QED BY <1>1

(* m + n divisions are m divisions and then n. *)
LEMMA DividedSum ==
  ASSUME NEW x \in CrcWords, NEW m \in Nat, NEW n \in Nat
  PROVE  DivideBits(x, m + n) = DivideBits(DivideBits(x, m), n)
<1>0. DivideBits(x, m) \in CrcWords
  BY DividedStep
<1> DEFINE T == {k \in Nat : DivideBits(x, m + k) # DivideBits(DivideBits(x, m), k)}
<1>1. ASSUME T # {} PROVE FALSE
  <2>1. PICK k \in T : \A j \in T : k <= j
    <3>1. T \in SUBSET Nat
      OBVIOUS
    <3> HIDE DEF T
    <3> QED BY <1>1, <3>1, LeastNumber
  <2>2. k # 0
    <3>1. DivideBits(DivideBits(x, m), 0) = DivideBits(x, m) /\ m + 0 = m
      BY <1>0, DividedStep
    <3> QED BY <2>1, <3>1
  <2>3. k - 1 \in Nat /\ ~(k <= k - 1) /\ (k - 1) + 1 = k /\ m + (k - 1) \in Nat /\ (m + (k - 1)) + 1 = m + k
    BY <2>1, <2>2
  <2>4. DivideBits(x, m + (k - 1)) = DivideBits(DivideBits(x, m), k - 1)
    BY <2>1, <2>3
  <2>5. DivideBits(x, m + k) = DivideBit(DivideBits(x, m + (k - 1)))
    <3>1. DivideBits(x, (m + (k - 1)) + 1) = DivideBit(DivideBits(x, m + (k - 1)))
      BY <2>3, DividedStep
    <3> QED BY <2>3, <3>1
  <2>6. DivideBits(DivideBits(x, m), k) = DivideBit(DivideBits(DivideBits(x, m), k - 1))
    <3>1. DivideBits(DivideBits(x, m), (k - 1) + 1) = DivideBit(DivideBits(DivideBits(x, m), k - 1))
      BY <1>0, <2>3, DividedStep
    <3> QED BY <2>3, <3>1
  <2> QED BY <2>1, <2>4, <2>5, <2>6
<1> QED BY <1>1

(* Exclusive or, as the provers need it. *)
LEMMA DifferAgain ==
  ASSUME NEW x \in CrcWords, NEW y \in CrcWords, NEW z \in CrcWords
  PROVE  SymDiff(SymDiff(x, y), z) = SymDiff(x, SymDiff(y, z))
<1>1. SymDiff(x, y) \in CrcWords /\ SymDiff(y, z) \in CrcWords
  BY WordsDiffer
<1>2. SymDiff(SymDiff(x, y), z) \in CrcWords /\ SymDiff(x, SymDiff(y, z)) \in CrcWords
  BY <1>1, WordsDiffer
<1>3. ASSUME NEW b \in Int PROVE b \in SymDiff(SymDiff(x, y), z) <=> b \in SymDiff(x, SymDiff(y, z))
  BY <1>1, WordsDiffer
<1> QED BY <1>2, <1>3, SameBits

(* The bits below n of a word, and the others. *)
LEMMA LowAndHigh ==
  ASSUME NEW x \in CrcWords, NEW n \in Nat
  PROVE  \E high \in CrcWords : /\ LowBits(x, n) \in CrcWords /\ x = SymDiff(LowBits(x, n), high)
                                /\ (\A b \in high : b >= n) /\ ShiftRight(high, n) = ShiftRight(x, n)
<1> DEFINE high == {b \in x : b >= n}
<1>0. x \subseteq Int /\ x \subseteq 0 .. CrcBits - 1
  BY CrcAssumption DEF CrcWords
<1>1. high \in CrcWords /\ LowBits(x, n) \in CrcWords
  BY <1>0 DEF CrcWords, LowBits
<1>2. x = SymDiff(LowBits(x, n), high)
  <2>1. SymDiff(LowBits(x, n), high) \in CrcWords
    BY <1>1, WordsDiffer
  <2>2. \A b \in Int : /\ b \in SymDiff(LowBits(x, n), high) <=> (b \in LowBits(x, n) <=> b \notin high)
                       /\ b \in LowBits(x, n) <=> b \in x /\ b < n
                       /\ b \in high <=> b \in x /\ b >= n
    <3>1. \A b \in Int : b \in SymDiff(LowBits(x, n), high) <=> (b \in LowBits(x, n) <=> b \notin high)
      BY <1>1, WordsDiffer
    <3> QED BY <3>1 DEF LowBits
  <2>3. \A b \in Int : b \in x <=> b \in SymDiff(LowBits(x, n), high)
    <3> HIDE DEF high
    <3> QED BY <2>2
  <2> QED BY <2>1, <2>3, SameBits
<1>3. ShiftRight(high, n) = ShiftRight(x, n)
  BY <1>0 DEF ShiftRight
<1> QED BY <1>1, <1>2, <1>3

(* n divisions at once: those of the n lowest bits, from the table, with the rest shifted. *)
LEMMA DividedByTable ==
  ASSUME NEW x \in CrcWords, NEW n \in Nat
  PROVE  DivideBits(x, n) = SymDiff(DivideBits(LowBits(x, n), n), ShiftRight(x, n))
<1>1. PICK high \in CrcWords : /\ LowBits(x, n) \in CrcWords /\ x = SymDiff(LowBits(x, n), high)
                               /\ (\A b \in high : b >= n) /\ ShiftRight(high, n) = ShiftRight(x, n)
  BY LowAndHigh
<1>2. DivideBits(SymDiff(LowBits(x, n), high), n) = SymDiff(DivideBits(LowBits(x, n), n), DivideBits(high, n))
  BY <1>1, DividedLinear
<1>3. DivideBits(high, n) = ShiftRight(high, n)
  BY <1>1, DividedShift
<1> QED BY <1>1, <1>2, <1>3

(* A byte is a word, whose lower bits are below 8 and whose upper nibble is below 4. *)
LEMMA BytesAre ==
  /\ ByteBits \in Nat /\ NibbleBits \in Nat /\ NibbleBits + NibbleBits = ByteBits
  /\ \A byte \in Bytes : byte \in CrcWords /\ (\A b \in byte : b \in 0 .. ByteBits - 1)
  /\ \A byte \in Bytes : /\ LowBits(byte, NibbleBits) \in SUBSET (0 .. NibbleBits - 1)
                         /\ ShiftRight(byte, NibbleBits) \in SUBSET (0 .. NibbleBits - 1)
<1>1. ByteBits \in Nat \ {0} /\ ByteBits % 2 = 0 /\ CrcBits \in Nat /\ CrcBits >= ByteBits
  BY CrcAssumption
<1>2. NibbleBits \in Nat /\ NibbleBits + NibbleBits = ByteBits
  BY <1>1 DEF NibbleBits
<1>3. \A byte \in Bytes : byte \in CrcWords /\ (\A b \in byte : b \in 0 .. ByteBits - 1)
  BY <1>1 DEF Bytes, CrcWords
<1>4. \A byte \in Bytes : LowBits(byte, NibbleBits) \in SUBSET (0 .. NibbleBits - 1)
  BY <1>2, <1>3 DEF LowBits
<1>5. \A byte \in Bytes : ShiftRight(byte, NibbleBits) \in SUBSET (0 .. NibbleBits - 1)
  <2> TAKE byte \in Bytes
  <2>1. \A b \in byte : b >= NibbleBits => b - NibbleBits \in 0 .. NibbleBits - 1
    BY <1>1, <1>2, <1>3
  <2> QED BY <2>1 DEF ShiftRight
<1> QED BY <1>1, <1>2, <1>3, <1>4, <1>5

(* Bits that are not there are not shifted. *)
LEMMA ShiftOf ==
  ASSUME NEW x \in CrcWords, NEW y \in CrcWords, NEW n \in Nat, \A b \in y : b < n
  PROVE  ShiftRight(SymDiff(x, y), n) = ShiftRight(x, n)
<1>1. x \subseteq Int /\ y \subseteq Int
  BY CrcAssumption DEF CrcWords
<1>2. {b \in SymDiff(x, y) : b >= n} = {b \in x : b >= n}
  <2>1. \A b : b \in SymDiff(x, y) /\ b >= n => b \in x
    BY <1>1 DEF SymDiff
  <2>2. \A b : b \in x /\ b >= n => b \in SymDiff(x, y)
    <3>1. \A b \in y : ~(b >= n)
      BY <1>1
    <3> QED BY <1>1, <3>1 DEF SymDiff
  <2> QED BY <2>1, <2>2
<1> QED BY <1>2, Zenon DEF ShiftRight

(* update_byte divides as often as a byte has bits: what crc_step does. *)
LEMMA ByteUpdated ==
  ASSUME NEW crc \in CrcWords, NEW byte \in Bytes
  PROVE  /\ update_byte(crc, byte) = DivideBits(SymDiff(crc, byte), ByteBits)
         /\ DivideBits(SymDiff(crc, byte), ByteBits) \in CrcWords
<1>1. ByteBits \in Nat /\ byte \in CrcWords /\ \A b \in byte : b < ByteBits
  BY BytesAre
<1> DEFINE x == SymDiff(crc, byte)
<1>2. x \in CrcWords
  BY <1>1, WordsDiffer
<1>3. LowBits(x, ByteBits) \in Bytes
  <2>1. x \subseteq Int /\ \A b \in x : b >= 0
    BY <1>2, CrcAssumption DEF CrcWords
  <2> QED BY <1>1, <2>1 DEF Bytes, LowBits
<1>4. ShiftRight(x, ByteBits) = ShiftRight(crc, ByteBits)
  BY <1>1, ShiftOf
<1>5. make_byte_table[LowBits(x, ByteBits)] = DivideBits(LowBits(x, ByteBits), ByteBits)
  BY <1>3 DEF make_byte_table
<1>6. DivideBits(x, ByteBits) = SymDiff(DivideBits(LowBits(x, ByteBits), ByteBits), ShiftRight(x, ByteBits))
  BY <1>1, <1>2, DividedByTable
<1>7. update_byte(crc, byte) = SymDiff(make_byte_table[LowBits(x, ByteBits)], ShiftRight(crc, ByteBits))
  BY DEF update_byte
<1>8. DivideBits(x, ByteBits) \in CrcWords
  BY <1>1, <1>2, DividedStep
<1> QED BY <1>4, <1>5, <1>6, <1>7, <1>8

(* And update_nibble half as often. *)
LEMMA NibbleUpdated ==
  ASSUME NEW crc \in CrcWords, NEW nibble \in SUBSET (0 .. NibbleBits - 1)
  PROVE  /\ update_nibble(crc, nibble) = DivideBits(SymDiff(crc, nibble), NibbleBits)
         /\ DivideBits(SymDiff(crc, nibble), NibbleBits) \in CrcWords
         /\ nibble \in CrcWords
<1>1. NibbleBits \in Nat /\ nibble \in CrcWords /\ \A b \in nibble : b < NibbleBits
  <2>1. NibbleBits \in Nat /\ NibbleBits + NibbleBits = ByteBits /\ CrcBits >= ByteBits
    BY BytesAre, CrcAssumption
  <2>2. CrcBits \in Nat
    BY CrcAssumption
  <2> QED BY <2>1, <2>2 DEF CrcWords
<1> DEFINE x == SymDiff(crc, nibble)
<1>2. x \in CrcWords
  BY <1>1, WordsDiffer
<1>3. LowBits(x, NibbleBits) \in SUBSET (0 .. NibbleBits - 1)
  <2>1. x \subseteq Int /\ \A b \in x : b >= 0
    BY <1>2, CrcAssumption DEF CrcWords
  <2> QED BY <1>1, <2>1 DEF LowBits
<1>4. ShiftRight(x, NibbleBits) = ShiftRight(crc, NibbleBits)
  BY <1>1, ShiftOf
<1>5. make_nibble_table[LowBits(x, NibbleBits)] = DivideBits(LowBits(x, NibbleBits), NibbleBits)
  BY <1>3 DEF make_nibble_table
<1>6. DivideBits(x, NibbleBits) = SymDiff(DivideBits(LowBits(x, NibbleBits), NibbleBits), ShiftRight(x, NibbleBits))
  BY <1>1, <1>2, DividedByTable
<1>7. update_nibble(crc, nibble) = SymDiff(make_nibble_table[LowBits(x, NibbleBits)], ShiftRight(crc, NibbleBits))
  BY DEF update_nibble
<1>8. DivideBits(x, NibbleBits) \in CrcWords
  BY <1>1, <1>2, DividedStep
<1> QED BY <1>1, <1>4, <1>5, <1>6, <1>7, <1>8

(* Two nibbles are a byte. *)
LEMMA NibblesAreByte ==
  ASSUME NEW crc \in CrcWords, NEW byte \in Bytes
  PROVE  update_byte_via_nibble(crc, byte) = update_byte(crc, byte)
<1> DEFINE n    == NibbleBits
           low  == LowBits(byte, n)
           top  == ShiftRight(byte, n)
           half == SymDiff(crc, low)
<1>1. n \in Nat /\ n + n = ByteBits /\ byte \in CrcWords
  BY BytesAre
<1>2. low \in SUBSET (0 .. n - 1) /\ top \in SUBSET (0 .. n - 1)
  BY BytesAre
<1>3. PICK high \in CrcWords : /\ low \in CrcWords /\ byte = SymDiff(low, high)
                               /\ (\A b \in high : b >= n) /\ ShiftRight(high, n) = top
  BY <1>1, LowAndHigh
<1>4. DivideBits(high, n) = top
  BY <1>1, <1>3, DividedShift
<1>5. update_nibble(crc, low) = DivideBits(half, n) /\ DivideBits(half, n) \in CrcWords
  BY <1>2, NibbleUpdated
<1>6. half \in CrcWords
  BY <1>3, WordsDiffer
<1>7. update_byte_via_nibble(crc, byte) = update_nibble(update_nibble(crc, low), top)
  BY DEF update_byte_via_nibble
<1>8. update_nibble(DivideBits(half, n), top) = DivideBits(SymDiff(DivideBits(half, n), top), n)
  BY <1>2, <1>5, NibbleUpdated
<1>9. SymDiff(DivideBits(half, n), top) = DivideBits(SymDiff(half, high), n)
  BY <1>1, <1>3, <1>4, <1>6, DividedLinear
<1>10. SymDiff(half, high) = SymDiff(crc, byte) /\ SymDiff(crc, byte) \in CrcWords
  BY <1>1, <1>3, DifferAgain, WordsDiffer
<1>11. DivideBits(DivideBits(SymDiff(crc, byte), n), n) = DivideBits(SymDiff(crc, byte), n + n)
  BY <1>1, <1>10, DividedSum
<1>12. update_byte(crc, byte) = DivideBits(SymDiff(crc, byte), ByteBits)
  BY ByteUpdated
<1> HIDE DEF n, low, top, half
<1> QED BY <1>1, <1>5, <1>7, <1>8, <1>9, <1>10, <1>11, <1>12

(* The words crc32_table and crc32_branchless go through. *)
TableRule(h, data) == h = [i \in 0 .. Len(data) |-> IF i = 0 THEN Ones ELSE update_byte(h[i - 1], data[i])]
StepRule(h, data)  == h = [i \in 0 .. Len(data) |-> IF i = 0 THEN Ones ELSE crc_step(h[i - 1], data[i])]

(* What they make of the last one. *)
LEMMA ChecksumIs ==
  ASSUME NEW data
  PROVE  /\ crc32_table(data) = Ones \ (CHOOSE h : TableRule(h, data))[Len(data)]
         /\ crc32_branchless(data) = Ones \ (CHOOSE h : StepRule(h, data))[Len(data)]
<1>1. crc32_table(data) = Ones \ (CHOOSE h : TableRule(h, data))[Len(data)]
  BY Zenon DEF crc32_table, TableRule
<1>2. crc32_branchless(data) = Ones \ (CHOOSE h : StepRule(h, data))[Len(data)]
  BY Zenon DEF crc32_branchless, StepRule
<1> QED BY <1>1, <1>2

(* A byte of the data, as a function of the word before. *)
OfData(data) == [p \in Nat \X CrcWords |-> IF p[1] \in 1 .. Len(data) THEN crc_step(p[2], data[p[1]]) ELSE p[2]]

(* Both loops are the loop of that. *)
LEMMA DataLoop ==
  ASSUME NEW n \in Nat, NEW data \in [1 .. n -> Bytes]
  PROVE  /\ \A h : TableRule(h, data) => LoopRule(h, OfData(data), Ones, n)
         /\ \A h : StepRule(h, data) => LoopRule(h, OfData(data), Ones, n)
         /\ (\E h : TableRule(h, data)) /\ (\E h : StepRule(h, data))
<1>1. Len(data) = n /\ \A i \in 1 .. n : data[i] \in Bytes
  OBVIOUS
<1>2. Ones \in CrcWords
  BY DEF Ones, CrcWords
<1>3. \A crc \in CrcWords, byte \in Bytes : update_byte(crc, byte) = crc_step(crc, byte) /\ crc_step(crc, byte) \in CrcWords
  BY ByteUpdated DEF crc_step
<1> DEFINE F == OfData(data)
<1>4. F \in [Nat \X CrcWords -> CrcWords]
  BY <1>1, <1>3 DEF OfData
<1>5. \A k \in 1 .. n, crc \in CrcWords : F[<<k, crc>>] = crc_step(crc, data[k])
  BY <1>1 DEF OfData
<1> HIDE DEF F
<1> DEFINE Steps1(h) == h[0] = Ones /\ \A i \in 1 .. n : h[i] = crc_step(h[i - 1], data[i])
           Steps2(h) == h[0] = Ones /\ \A i \in 1 .. n : h[i] = update_byte(h[i - 1], data[i])
<1>6. ASSUME NEW h, Steps1(h) \/ Steps2(h)
      PROVE  LoopRule(h, F, Ones, n)
  <2>1. \A i \in 0 .. n : h[i] \in CrcWords
    <3> DEFINE T == {k \in 0 .. n : h[k] \notin CrcWords}
    <3>1. ASSUME T # {} PROVE FALSE
      <4>1. PICK k \in T : \A j \in T : k <= j
        <5>1. T \in SUBSET Nat
          OBVIOUS
        <5> HIDE DEF T
        <5> QED BY <3>1, <5>1, LeastNumber
      <4>2. k # 0
        BY <1>2, <1>6, <4>1
      <4>3. k - 1 \in 0 .. n /\ ~(k <= k - 1) /\ k \in 1 .. n
        BY <4>1, <4>2
      <4>4. h[k - 1] \in CrcWords
        BY <4>1, <4>3
      <4>5. h[k] = crc_step(h[k - 1], data[k]) \/ h[k] = update_byte(h[k - 1], data[k])
        BY <1>6, <4>3
      <4> QED BY <1>1, <1>3, <4>1, <4>3, <4>4, <4>5
    <3> QED BY <3>1
  <2>2. h[0] = Ones
    BY <1>6
  <2>3. ASSUME NEW i \in 1 .. n PROVE h[i] = F[<<i, h[i - 1]>>]
    <3>1. i - 1 \in 0 .. n
      OBVIOUS
    <3>2. h[i - 1] \in CrcWords /\ data[i] \in Bytes
      BY <1>1, <2>1, <3>1
    <3>3. h[i] = crc_step(h[i - 1], data[i]) \/ h[i] = update_byte(h[i - 1], data[i])
      BY <1>6
    <3>4. h[i] = crc_step(h[i - 1], data[i])
      BY <1>3, <3>2, <3>3
    <3> QED BY <1>5, <3>2, <3>4
  <2> QED BY <2>2, <2>3 DEF LoopRule
<1>7. ASSUME NEW h, TableRule(h, data) PROVE LoopRule(h, F, Ones, n)
  <2>1. \A i \in 0 .. Len(data) : h[i] = IF i = 0 THEN Ones ELSE update_byte(h[i - 1], data[i])
    BY <1>7, Zenon DEF TableRule
  <2>2. Steps2(h)
    BY <1>1, <2>1
  <2> QED BY <1>6, <2>2
<1>8. ASSUME NEW h, StepRule(h, data) PROVE LoopRule(h, F, Ones, n)
  <2>1. \A i \in 0 .. Len(data) : h[i] = IF i = 0 THEN Ones ELSE crc_step(h[i - 1], data[i])
    BY <1>8, Zenon DEF StepRule
  <2>2. Steps1(h)
    BY <1>1, <2>1
  <2> QED BY <1>6, <2>2
<1>9. PICK h \in [0 .. n -> CrcWords] : LoopRule(h, F, Ones, n)
  BY <1>2, <1>4, LoopThere
<1>10. /\ \A i \in 0 .. n : h[i] = IF i = 0 THEN Ones ELSE update_byte(h[i - 1], data[i])
       /\ \A i \in 0 .. n : h[i] = IF i = 0 THEN Ones ELSE crc_step(h[i - 1], data[i])
  <2>1. h[0] = Ones /\ \A i \in 1 .. n : h[i] = F[<<i, h[i - 1]>>]
    BY <1>9 DEF LoopRule
  <2>2. ASSUME NEW i \in 1 .. n
        PROVE  h[i] = update_byte(h[i - 1], data[i]) /\ h[i] = crc_step(h[i - 1], data[i])
    <3>1. h[i - 1] \in CrcWords /\ data[i] \in Bytes
      BY <1>1
    <3> QED BY <1>3, <1>5, <2>1, <3>1
  <2> QED BY <2>1, <2>2
<1>11. TableRule(h, data) /\ StepRule(h, data)
  <2>1. /\ h = [i \in 0 .. n |-> IF i = 0 THEN Ones ELSE update_byte(h[i - 1], data[i])]
        /\ h = [i \in 0 .. n |-> IF i = 0 THEN Ones ELSE crc_step(h[i - 1], data[i])]
    BY <1>10, Zenon
  <2> QED BY <1>1, <2>1, Zenon DEF TableRule, StepRule
<1> QED BY <1>7, <1>8, <1>11 DEF F

(* The table and the loop of bits have one checksum for any data. *)
LEMMA ChecksumsSame ==
  ASSUME NEW n \in Nat, NEW data \in [1 .. n -> Bytes]
  PROVE  crc32_table(data) = crc32_branchless(data)
<1> DEFINE f == CHOOSE h : TableRule(h, data)
           g == CHOOSE h : StepRule(h, data)
<1>1. TableRule(f, data) /\ StepRule(g, data)
  <2>1. (\E h : TableRule(h, data)) /\ (\E h : StepRule(h, data))
    BY DataLoop
  <2> QED BY <2>1, Zenon
<1>2. LoopRule(f, OfData(data), Ones, n) /\ LoopRule(g, OfData(data), Ones, n)
  BY <1>1, DataLoop
<1>3. crc32_table(data) = Ones \ f[Len(data)] /\ crc32_branchless(data) = Ones \ g[Len(data)]
  BY ChecksumIs
<1>4. Len(data) = n /\ n <= n
  OBVIOUS
<1> HIDE DEF f, g
<1>5. f[n] = g[n]
  BY <1>2, <1>4, LoopsAgree
<1> QED BY <1>3, <1>4, <1>5

----------------------------------------------------------------------------
(* tree_cache_lab.c.                                                       *)

(* The bounds that array_lookup keeps, round after round. *)
BoundsRule(at, keys, n, key) ==
  at = [rounds \in 0 .. n |->
        IF rounds = 0 THEN [lo |-> 0, hi |-> n]
        ELSE LET b == at[rounds - 1] mid == b.lo + (b.hi - b.lo) \div 2
             IN  IF b.lo >= b.hi THEN b
                 ELSE IF keys[mid + 1] < key THEN [b EXCEPT !.lo = mid + 1] ELSE [b EXCEPT !.hi = mid]]

(* What LowerBound reads from the table of its loop. *)
LEMMA LowerBoundIs ==
  ASSUME NEW keys, NEW n, NEW key
  PROVE  LowerBound(keys, n, key) = (CHOOSE at : BoundsRule(at, keys, n, key))[n].lo
BY Zenon DEF LowerBound, BoundsRule

(* Halved(b): the bounds after one more round. *)
Halved(b, keys, key) ==
  LET mid == b.lo + (b.hi - b.lo) \div 2
  IN  IF b.lo >= b.hi THEN b
      ELSE IF keys[mid + 1] < key THEN [b EXCEPT !.lo = mid + 1] ELSE [b EXCEPT !.hi = mid]

(* Sorted keys. *)
Ascending(keys, n) == \A i, j \in 1 .. n : i <= j => keys[i] <= keys[j]

(* What holds of the bounds after k rounds. *)
Bounded(b, keys, n, key, k) ==
  /\ b \in [lo : 0 .. n, hi : 0 .. n] /\ b.lo <= b.hi
  /\ b.lo = b.hi \/ b.hi - b.lo <= n - k
  /\ \A i \in 1 .. n : (i <= b.lo => keys[i] < key) /\ (i > b.hi => keys[i] >= key)

(* A round keeps what holds of the bounds. *)
LEMMA HalvedBounds ==
  ASSUME NEW n \in Nat, NEW keys \in [1 .. n -> Int], Ascending(keys, n), NEW key \in Int,
         NEW k \in Nat, NEW b, Bounded(b, keys, n, key, k)
  PROVE  Bounded(Halved(b, keys, key), keys, n, key, k + 1)
<1>1. PICK l \in 0 .. n, h \in 0 .. n : b = [lo |-> l, hi |-> h] /\ b.lo = l /\ b.hi = h
  BY DEF Bounded
<1>2. /\ l <= h /\ (l = h \/ h - l <= n - k)
      /\ \A i \in 1 .. n : (i <= l => keys[i] < key) /\ (i > h => keys[i] >= key)
  BY <1>1 DEF Bounded
<1>3. CASE l >= h
  <2>1. Halved(b, keys, key) = b
    BY <1>1, <1>3 DEF Halved
  <2> QED BY <1>1, <1>2, <1>3, <2>1 DEF Bounded
<1>4. CASE l < h
  <2> DEFINE mid == l + (h - l) \div 2
  <2>1. mid \in Int /\ l <= mid /\ mid < h
    BY <1>4
  <2> HIDE DEF mid
  <2>2. mid + 1 \in 1 .. n /\ mid + 1 \in 0 .. n /\ mid \in 0 .. n
    BY <2>1
  <2>3. Halved(b, keys, key) = IF keys[mid + 1] < key THEN [lo |-> mid + 1, hi |-> h] ELSE [lo |-> l, hi |-> mid]
    BY <1>1, <1>4 DEF Halved, mid
  <2>4. CASE keys[mid + 1] < key
    <3>1. ASSUME NEW i \in 1 .. n, i <= mid + 1 PROVE keys[i] < key
      <4>1. keys[i] <= keys[mid + 1] /\ keys[i] \in Int /\ keys[mid + 1] \in Int
        BY <2>2, <3>1 DEF Ascending
      <4> QED BY <2>4, <4>1
    <3>2. Halved(b, keys, key) = [lo |-> mid + 1, hi |-> h]
      BY <2>3, <2>4
    <3>3. h - (mid + 1) <= n - (k + 1) \/ mid + 1 = h
      BY <1>2, <2>1
    <3> QED BY <1>2, <2>1, <2>2, <3>1, <3>2, <3>3 DEF Bounded
  <2>5. CASE ~(keys[mid + 1] < key)
    <3>1. ASSUME NEW i \in 1 .. n, i > mid PROVE keys[i] >= key
      <4>1. keys[mid + 1] <= keys[i] /\ keys[i] \in Int /\ keys[mid + 1] \in Int
        BY <2>1, <2>2, <3>1 DEF Ascending
      <4> QED BY <2>5, <4>1
    <3>2. Halved(b, keys, key) = [lo |-> l, hi |-> mid]
      BY <2>3, <2>5
    <3>3. mid - l <= n - (k + 1) \/ l = mid
      BY <1>2, <2>1
    <3> QED BY <1>2, <2>1, <2>2, <3>1, <3>2, <3>3 DEF Bounded
  <2> QED BY <2>4, <2>5
<1> QED BY <1>3, <1>4

(* Bounds, and a round as a function of them. *)
BoundsOf(n) == {b \in [lo : 0 .. n, hi : 0 .. n] : b.lo <= b.hi}
OfBounds(keys, n, key) == [p \in Nat \X BoundsOf(n) |-> Halved(p[2], keys, key)]

(* A round goes from bounds to bounds. *)
LEMMA HalvedThere ==
  ASSUME NEW n \in Nat, NEW keys, NEW key, NEW b \in BoundsOf(n)
  PROVE  Halved(b, keys, key) \in BoundsOf(n)
<1>1. PICK l \in 0 .. n, h \in 0 .. n : b = [lo |-> l, hi |-> h] /\ b.lo = l /\ b.hi = h /\ l <= h
  BY DEF BoundsOf
<1>2. CASE l >= h
  BY <1>1, <1>2 DEF Halved
<1>3. CASE l < h
  <2> DEFINE mid == l + (h - l) \div 2
  <2>1. mid \in Int /\ l <= mid /\ mid < h
    BY <1>3
  <2> HIDE DEF mid
  <2>2. Halved(b, keys, key) = IF keys[mid + 1] < key THEN [lo |-> mid + 1, hi |-> h] ELSE [lo |-> l, hi |-> mid]
    BY <1>1, <1>3 DEF Halved, mid
  <2>3. [lo |-> mid + 1, hi |-> h] \in BoundsOf(n) /\ [lo |-> l, hi |-> mid] \in BoundsOf(n)
    BY <1>1, <2>1 DEF BoundsOf
  <2> QED BY <2>2, <2>3
<1> QED BY <1>2, <1>3

(* The loop has its table. *)
LEMMA BoundsThere ==
  ASSUME NEW n \in Nat, NEW keys, NEW key
  PROVE  \E at : BoundsRule(at, keys, n, key)
<1>1. OfBounds(keys, n, key) \in [Nat \X BoundsOf(n) -> BoundsOf(n)]
  BY HalvedThere DEF OfBounds
<1>2. [lo |-> 0, hi |-> n] \in BoundsOf(n)
  BY DEF BoundsOf
<1>3. PICK at \in [0 .. n -> BoundsOf(n)] : LoopRule(at, OfBounds(keys, n, key), [lo |-> 0, hi |-> n], n)
  BY <1>1, <1>2, LoopThere
<1>4. at[0] = [lo |-> 0, hi |-> n] /\ \A k \in 1 .. n : at[k] = OfBounds(keys, n, key)[<<k, at[k - 1]>>]
  BY <1>3 DEF LoopRule
<1>5. \A k \in 1 .. n : at[k] = Halved(at[k - 1], keys, key)
  <2> TAKE k \in 1 .. n
  <2>1. <<k, at[k - 1]>> \in Nat \X BoundsOf(n)
    BY <1>3
  <2> QED BY <1>4, <2>1 DEF OfBounds
<1>6. \A k \in 0 .. n : at[k] = IF k = 0 THEN [lo |-> 0, hi |-> n] ELSE Halved(at[k - 1], keys, key)
  BY <1>4, <1>5
<1>7. at = [k \in 0 .. n |-> IF k = 0 THEN [lo |-> 0, hi |-> n] ELSE Halved(at[k - 1], keys, key)]
  BY <1>6, Zenon
<1>8. BoundsRule(at, keys, n, key)
  BY <1>7, Zenon DEF BoundsRule, Halved
<1> QED BY <1>8

(* LowerBound is where the keys stop being smaller. *)
FirstNotBelow(keys, n, key, l) ==
  l \in 0 .. n /\ \A i \in 1 .. n : (i <= l => keys[i] < key) /\ (i > l => keys[i] >= key)

(* It is: the first key that is not smaller, if any is. *)
LEMMA LowerBoundFinds ==
  ASSUME NEW n \in Nat, NEW keys \in [1 .. n -> Int], Ascending(keys, n), NEW key \in Int
  PROVE  FirstNotBelow(keys, n, key, LowerBound(keys, n, key))
<1> DEFINE at == CHOOSE h : BoundsRule(h, keys, n, key)
<1>1. BoundsRule(at, keys, n, key)
  BY BoundsThere, Zenon
<1>2. LowerBound(keys, n, key) = at[n].lo
  BY LowerBoundIs
<1> HIDE DEF at
<1>3. \A k \in 0 .. n : at[k] = IF k = 0 THEN [lo |-> 0, hi |-> n] ELSE Halved(at[k - 1], keys, key)
  <2>1. at = [k \in 0 .. n |-> IF k = 0 THEN [lo |-> 0, hi |-> n] ELSE Halved(at[k - 1], keys, key)]
    BY <1>1, Zenon DEF BoundsRule, Halved
  <2> QED BY <2>1, Zenon
<1> DEFINE T == {k \in 0 .. n : ~Bounded(at[k], keys, n, key, k)}
<1>4. ASSUME T # {} PROVE FALSE
  <2>1. PICK k \in T : \A j \in T : k <= j
    <3>1. T \in SUBSET Nat
      OBVIOUS
    <3> HIDE DEF T
    <3> QED BY <1>4, <3>1, LeastNumber
  <2>2. k # 0
    <3>1. at[0] = [lo |-> 0, hi |-> n]
      BY <1>3
    <3>2. Bounded([lo |-> 0, hi |-> n], keys, n, key, 0)
      BY DEF Bounded
    <3> QED BY <2>1, <3>1, <3>2
  <2>3. k - 1 \in Nat /\ k - 1 \in 0 .. n /\ ~(k <= k - 1) /\ (k - 1) + 1 = k
    BY <2>1, <2>2
  <2>4. Bounded(at[k - 1], keys, n, key, k - 1)
    BY <2>1, <2>3
  <2>5. at[k] = Halved(at[k - 1], keys, key)
    BY <1>3, <2>1, <2>2
  <2>6. Bounded(Halved(at[k - 1], keys, key), keys, n, key, (k - 1) + 1)
    BY <2>3, <2>4, HalvedBounds
  <2> QED BY <2>1, <2>3, <2>5, <2>6
<1>5. Bounded(at[n], keys, n, key, n)
  BY <1>4
<1>6. at[n].lo \in 0 .. n /\ at[n].hi \in 0 .. n /\ at[n].lo = at[n].hi
  BY <1>5 DEF Bounded
<1> QED BY <1>2, <1>5, <1>6 DEF Bounded, FirstNotBelow

(* What a lookup among n keys should answer. *)
Answer(keys, n, key) == IF \E i \in 1 .. n : keys[i] = key THEN ValueOf(key) ELSE 0

(* The sorted array: the value of a key that is there, 0 for one that is not. *)
LEMMA ArrayFinds ==
  ASSUME NEW n \in Nat, NEW keys \in [1 .. n -> Int], Ascending(keys, n), NEW key \in Int,
         NEW values, \A i \in 1 .. n : values[i] = ValueOf(keys[i])
  PROVE  array_lookup(keys, values, n, key) = Answer(keys, n, key)
<1> DEFINE l == LowerBound(keys, n, key)
<1>1. FirstNotBelow(keys, n, key, l)
  BY LowerBoundFinds
<1>2. array_lookup(keys, values, n, key) = IF l < n /\ keys[l + 1] = key THEN values[l + 1] ELSE 0
  BY DEF array_lookup
<1> HIDE DEF l
<1>3. l \in 0 .. n /\ \A i \in 1 .. n : keys[i] \in Int /\ (i <= l => keys[i] < key) /\ (i > l => keys[i] >= key)
  BY <1>1 DEF FirstNotBelow
<1>4. CASE l < n /\ keys[l + 1] = key
  <2>1. l + 1 \in 1 .. n
    BY <1>3, <1>4
  <2> QED BY <1>2, <1>4, <2>1 DEF Answer
<1>5. CASE ~(l < n /\ keys[l + 1] = key)
  <2>1. ASSUME NEW i \in 1 .. n, keys[i] = key PROVE FALSE
    <3>1. i > l
      BY <1>3, <2>1
    <3>2. l + 1 \in 1 .. n /\ l + 1 <= i /\ l + 1 > l
      BY <1>3, <3>1
    <3>3. keys[l + 1] <= keys[i] /\ keys[l + 1] >= key /\ keys[l + 1] \in Int
      BY <1>3, <3>2 DEF Ascending
    <3>4. keys[l + 1] = key
      BY <2>1, <3>3
    <3>5. l < n
      BY <1>3, <3>2
    <3> QED BY <1>5, <3>4, <3>5
  <2> QED BY <1>2, <1>5, <2>1 DEF Answer
<1> QED BY <1>4, <1>5

(* How many blocks n keys fill, and where each ends. *)
LEMMA BlocksOf ==
  ASSUME NEW n \in Nat \ {0}, NEW m, m = (n + BLOCK_SIZE - 1) \div BLOCK_SIZE
  PROVE  /\ m \in Nat \ {0} /\ BlockEnd(m - 1, n) = n
         /\ \A b \in 0 .. m - 1 : /\ BlockEnd(b, n) \in 1 .. n
                                  /\ b * BLOCK_SIZE < BlockEnd(b, n) /\ b * BLOCK_SIZE \in Nat
         /\ \A b \in 0 .. m - 2 : BlockEnd(b, n) = (b + 1) * BLOCK_SIZE
<1> DEFINE B == BLOCK_SIZE
<1>1. B \in Nat \ {0}
  BY BlockAssumption
<1>2. n + B - 1 = B * m + ((n + B - 1) % B) /\ (n + B - 1) % B \in 0 .. B - 1 /\ m \in Int
  <2>1. PICK a \in Nat : a = n + B - 1 /\ m = a \div B
    <3>1. n + B - 1 \in Nat
      BY <1>1
    <3> QED BY <3>1
  <2>2. a = B * (a \div B) + (a % B) /\ a % B \in 0 .. B - 1 /\ a \div B \in Int
    BY <1>1, <2>1, Division
  <2> HIDE DEF B
  <2> QED BY <2>1, <2>2
<1> HIDE DEF B
<1>3. PICK p \in Int : p = B * m
  BY <1>1, <1>2
<1>4. p <= n + B - 1 /\ n <= p
  BY <1>1, <1>2, <1>3
<1>5. m >= 1
  <2>1. ASSUME m <= 0 PROVE FALSE
    <3>1. B * m + B <= B * 1
      BY <1>1, <1>2, <2>1, Multiples
    <3> QED BY <1>1, <1>3, <1>4, <3>1
  <2> QED BY <1>2, <2>1
<1>6. \A b \in 0 .. m - 1 : b * B = B * b /\ B * b \in Nat /\ (b + 1) * B = B * b + B
  BY <1>1, <1>2
<1>7. \A b \in 0 .. m - 1 : B * b + B <= p
  BY <1>1, <1>2, <1>3, Multiples
<1>8. \A b \in 0 .. m - 2 : B * b + B <= p - B
  <2> TAKE b \in 0 .. m - 2
  <2>1. b \in Int /\ b + 1 \in Int /\ (b + 1) + 1 <= m /\ b \in 0 .. m - 1
    BY <1>2
  <2>2. B * (b + 1) + B <= B * m
    BY <1>1, <1>2, <2>1, Multiples
  <2>3. B * (b + 1) = B * b + B
    BY <1>1, <2>1
  <2>4. B * b \in Nat
    BY <1>6, <2>1
  <2> QED BY <1>1, <1>3, <2>2, <2>3, <2>4
<1>9. \A b \in 0 .. m - 1 : BlockEnd(b, n) = IF B * b + B > n THEN n ELSE B * b + B
  BY <1>6, Zenon DEF BlockEnd, B
<1>10. ASSUME NEW b \in 0 .. m - 1
       PROVE  BlockEnd(b, n) \in 1 .. n /\ b * B < BlockEnd(b, n) /\ b * B \in Nat
  <2>1. PICK x \in Nat : x = B * b /\ b * B = x
    BY <1>6
  <2>2. x + B <= p
    BY <1>7, <2>1
  <2>3. BlockEnd(b, n) = IF x + B > n THEN n ELSE x + B
    BY <1>9, <2>1
  <2> QED BY <1>1, <1>3, <1>4, <2>1, <2>2, <2>3
<1>11. ASSUME NEW b \in 0 .. m - 2 PROVE BlockEnd(b, n) = (b + 1) * B
  <2>1. b \in 0 .. m - 1
    BY <1>2
  <2>2. PICK x \in Nat : x = B * b /\ (b + 1) * B = x + B
    BY <1>6, <2>1
  <2>3. x + B <= p - B
    BY <1>8, <2>2
  <2>4. BlockEnd(b, n) = IF x + B > n THEN n ELSE x + B
    BY <1>9, <2>1, <2>2
  <2> QED BY <1>1, <1>3, <1>4, <2>2, <2>3, <2>4
<1>12. BlockEnd(m - 1, n) = n
  <2>1. m - 1 \in 0 .. m - 1
    BY <1>2, <1>5
  <2>2. PICK x \in Nat : x = B * (m - 1)
    BY <1>6, <2>1
  <2>3. x = p - B
    <3>1. B * (m - 1) = B * m - B
      BY <1>1, <1>2
    <3> QED BY <1>3, <2>2, <3>1
  <2>4. BlockEnd(m - 1, n) = IF x + B > n THEN n ELSE x + B
    BY <1>9, <2>1, <2>2
  <2> QED BY <1>1, <1>3, <1>4, <2>3, <2>4
<1> QED BY <1>2, <1>5, <1>10, <1>11, <1>12 DEF B

(* The largest keys of the blocks are sorted, as the keys are. *)
LEMMA MaxKeysAre ==
  ASSUME NEW n \in Nat \ {0}, NEW keys \in [1 .. n -> Int], Ascending(keys, n),
         NEW m, m = (n + BLOCK_SIZE - 1) \div BLOCK_SIZE, NEW max, max = block_build(keys, n)
  PROVE  /\ max \in [1 .. m -> Int] /\ Len(max) = m /\ Ascending(max, m)
         /\ \A b \in 1 .. m : max[b] = keys[BlockEnd(b - 1, n)]
<1>1. /\ m \in Nat \ {0}
      /\ \A b \in 0 .. m - 1 : BlockEnd(b, n) \in 1 .. n
  BY BlocksOf
<1>2. max = [b \in 1 .. m |-> keys[BlockEnd(b - 1, n)]]
  BY DEF block_build
<1>3. \A b \in 1 .. m : b - 1 \in 0 .. m - 1 /\ BlockEnd(b - 1, n) \in 1 .. n
  BY <1>1
<1>4. max \in [1 .. m -> Int]
  BY <1>2, <1>3
<1>5. Len(max) = m
  BY <1>1, <1>4
<1>6. \A b \in 1 .. m : max[b] = keys[BlockEnd(b - 1, n)]
  BY <1>2
<1>7. ASSUME NEW i \in 1 .. m, NEW j \in 1 .. m, i <= j
      PROVE  BlockEnd(i - 1, n) <= BlockEnd(j - 1, n)
  <2> DEFINE B == BLOCK_SIZE
  <2>1. CASE i = j
    <3>1. BlockEnd(j - 1, n) \in Int
      BY <1>3
    <3> QED BY <2>1, <3>1
  <2>2. CASE i # j
    <3>1. i - 1 \in 0 .. m - 2 /\ j - 1 \in 0 .. m - 1 /\ (i - 1) + 1 = i /\ i \in Int /\ j - 1 \in Int /\ i <= j - 1
      BY <1>1, <1>7, <2>2
    <3>2. BlockEnd(i - 1, n) = ((i - 1) + 1) * B
      BY <3>1, BlocksOf
    <3>3. (j - 1) * B < BlockEnd(j - 1, n) /\ (j - 1) * B \in Nat /\ BlockEnd(j - 1, n) \in Int
      BY <3>1, BlocksOf
    <3>4. B \in Nat /\ B \in Int
      BY BlockAssumption
    <3> HIDE DEF B
    <3>5. i * B <= (j - 1) * B
      <4>1. PICK d \in Nat : j - 1 = i + d
        <5>1. (j - 1) - i \in Nat /\ j - 1 = i + ((j - 1) - i)
          BY <3>1
        <5> QED BY <5>1
      <4>2. (i + d) * B = i * B + d * B /\ d * B \in Nat /\ i * B \in Int
        BY <3>1, <3>4
      <4> QED BY <4>1, <4>2
    <3>6. i * B \in Int
      BY <3>1, <3>4
    <3> QED BY <3>1, <3>2, <3>3, <3>5, <3>6
  <2> QED BY <2>1, <2>2
<1>8. ASSUME NEW i \in 1 .. m, NEW j \in 1 .. m, i <= j PROVE max[i] <= max[j]
  <2>1. BlockEnd(i - 1, n) <= BlockEnd(j - 1, n) /\ BlockEnd(i - 1, n) \in 1 .. n /\ BlockEnd(j - 1, n) \in 1 .. n
    BY <1>3, <1>7, <1>8
  <2> QED BY <1>6, <2>1 DEF Ascending
<1> QED BY <1>4, <1>5, <1>6, <1>8 DEF Ascending

(* The block index answers as the array does. *)
LEMMA BlockFinds ==
  ASSUME NEW n \in Nat \ {0}, NEW keys \in [1 .. n -> Int], Ascending(keys, n), NEW key \in Int,
         NEW values, \A i \in 1 .. n : values[i] = ValueOf(keys[i])
  PROVE  block_lookup(block_build(keys, n), keys, values, n, key)
           = Answer(keys, n, key)
<1> DEFINE B    == BLOCK_SIZE
           m    == (n + B - 1) \div B
           max  == block_build(keys, n)
           l    == LowerBound(max, m, key)
           hits == {i \in l * B + 1 .. BlockEnd(l, n) : keys[i] = key}
<1>1. /\ m \in Nat \ {0} /\ BlockEnd(m - 1, n) = n
      /\ \A b \in 0 .. m - 1 : /\ BlockEnd(b, n) \in 1 .. n
                               /\ b * B < BlockEnd(b, n) /\ b * B \in Nat
      /\ \A b \in 0 .. m - 2 : BlockEnd(b, n) = (b + 1) * B
  BY BlocksOf
<1>2. /\ max \in [1 .. m -> Int] /\ Len(max) = m /\ Ascending(max, m)
      /\ \A b \in 1 .. m : max[b] = keys[BlockEnd(b - 1, n)]
  BY MaxKeysAre
<1>3. block_lookup(max, keys, values, n, key)
        = IF l = m \/ hits = {} THEN 0 ELSE values[CHOOSE i \in hits : \A j \in hits : i <= j]
  <2> DEFINE Hits(lo)       == {i \in lo * B + 1 .. BlockEnd(lo, n) : keys[i] = key}
             Found(lo, len) == IF lo = len \/ Hits(lo) = {} THEN 0
                               ELSE values[CHOOSE i \in Hits(lo) : \A j \in Hits(lo) : i <= j]
  <2>1. block_lookup(max, keys, values, n, key) = Found(LowerBound(max, Len(max), key), Len(max))
    BY Zenon DEF block_lookup
  <2> HIDE DEF max, m
  <2> QED BY <1>2, <2>1, Zenon
<1> HIDE DEF max, m
<1>4. FirstNotBelow(max, m, key, l)
  BY <1>1, <1>2, LowerBoundFinds
<1> HIDE DEF l
<1>5. /\ l \in 0 .. m
      /\ \A b \in 1 .. m : max[b] \in Int /\ (b <= l => max[b] < key) /\ (b > l => max[b] >= key)
  BY <1>2, <1>4 DEF FirstNotBelow
<1>6. \A i \in 1 .. n : keys[i] \in Int /\ \A j \in 1 .. n : i <= j => keys[i] <= keys[j]
  BY DEF Ascending
<1>7. CASE l = m
  <2>1. ASSUME NEW i \in 1 .. n, keys[i] = key PROVE FALSE
    <3>1. max[m] < key /\ max[m] = keys[n]
      BY <1>1, <1>2, <1>5, <1>7
    <3>2. n \in 1 .. n /\ i <= n
      OBVIOUS
    <3> QED BY <1>6, <2>1, <3>1, <3>2
  <2> QED BY <1>3, <1>7, <2>1 DEF max, Answer
<1>8. CASE l # m
  <2>1. l \in 0 .. m - 1 /\ l + 1 \in 1 .. m /\ (l + 1) - 1 = l
    BY <1>1, <1>5, <1>8
  <2> DEFINE e == BlockEnd(l, n)
             s == l * B
  <2>2. e \in 1 .. n /\ s < e /\ s \in Nat
    BY <1>1, <2>1
  <2>3. keys[e] >= key
    BY <1>2, <1>5, <2>1
  <2>4. \A i \in s + 1 .. e : i \in 1 .. n /\ i \in Nat
    BY <2>2
  <2>5. hits \in SUBSET Nat
    BY <2>4
  <2>6. CASE hits = {}
    <3>1. ASSUME NEW i \in 1 .. n, keys[i] = key PROVE FALSE
      <4>1. i \notin s + 1 .. e
        BY <2>6, <3>1
      <4>2. CASE i > e
        <5>1. keys[e] <= keys[i] /\ keys[e] \in Int
          BY <1>6, <2>2, <4>2
        <5>2. keys[e] = key /\ e \in s + 1 .. e
          BY <2>2, <2>3, <3>1, <5>1
        <5> QED BY <2>6, <5>2
      <4>3. CASE i <= s
        <5>1. l # 0
          <6>1. 0 * B = 0
            BY BlockAssumption
          <6> QED BY <4>3, <6>1
        <5>2. l \in 1 .. m /\ l - 1 \in 0 .. m - 2 /\ (l - 1) + 1 = l
          BY <1>1, <2>1, <5>1
        <5>3. max[l] = keys[BlockEnd(l - 1, n)] /\ BlockEnd(l - 1, n) = ((l - 1) + 1) * B
          BY <1>1, <1>2, <5>2
        <5>4. max[l] = keys[s] /\ max[l] < key
          BY <1>5, <2>1, <5>2, <5>3
        <5>5. s \in 1 .. n
          BY <2>2, <4>3
        <5>6. keys[i] <= keys[s] /\ keys[s] \in Int
          BY <1>6, <4>3, <5>5
        <5> QED BY <3>1, <5>4, <5>6
      <4> QED BY <2>2, <4>1, <4>2, <4>3
    <3> QED BY <1>3, <1>8, <2>6, <3>1 DEF max, Answer
  <2>7. CASE hits # {}
    <3> DEFINE i == CHOOSE x \in hits : \A j \in hits : x <= j
    <3>1. \E x \in hits : \A j \in hits : x <= j
      <4> HIDE DEF hits
      <4> QED BY <2>5, <2>7, LeastNumber
    <3>2. i \in hits
      <4> HIDE DEF hits
      <4> QED BY <3>1
    <3>3. block_lookup(max, keys, values, n, key) = values[i]
      BY <1>3, <1>8, <2>7
    <3> HIDE DEF i
    <3>4. i \in 1 .. n /\ keys[i] = key
      BY <2>4, <3>2
    <3> QED BY <3>3, <3>4 DEF max, Answer
  <2> QED BY <2>6, <2>7
<1> QED BY <1>7, <1>8

(* The paths of trees, and trees. *)
Turns == Seq({"left", "right"})
Trees == {root \in UNION {[D -> [key : Int, value : Int]] : D \in SUBSET Turns} : IsFiniteSet(DOMAIN root)}

(* What that says of one tree. *)
LEMMA TreeIs ==
  ASSUME NEW root \in Trees
  PROVE  /\ root \in [DOMAIN root -> [key : Int, value : Int]] /\ DOMAIN root \subseteq Turns
         /\ Cardinality(DOMAIN root) \in Nat
<1>1. PICK D \in SUBSET Turns : root \in [D -> [key : Int, value : Int]]
  BY DEF Trees
<1>2. IsFiniteSet(DOMAIN root)
  BY DEF Trees
<1> QED BY <1>1, <1>2, FS_CardinalityType

(* One comparison of the search: whether it ends at p, and where it goes on. *)
Ends(root, key, p) == p \notin DOMAIN root \/ root[p].key = key
NextPlace(root, key, p) ==
  IF Ends(root, key, p) THEN p ELSE Append(p, IF key < root[p].key THEN "left" ELSE "right")

(* The places it comes to in n comparisons. *)
SearchRule(at, root, key, n) ==
  at = [steps \in 0 .. n |->
        IF steps = 0 THEN <<>>
        ELSE LET p == at[steps - 1]
             IN  IF p \notin DOMAIN root \/ root[p].key = key THEN p
                 ELSE Append(p, IF key < root[p].key THEN "left" ELSE "right")]

(* The same, as a rule. *)
Searched(at, root, key, n) == at[0] = <<>> /\ \A k \in 1 .. n : at[k] = NextPlace(root, key, at[k - 1])

(* What Place reads from the table of its search. *)
LEMMA PlaceIs ==
  ASSUME NEW root, NEW key
  PROVE  Place(root, key) = (CHOOSE at : SearchRule(at, root, key, Cardinality(DOMAIN root)))[Cardinality(DOMAIN root)]
BY Zenon DEF Place, SearchRule

(* The table says that. *)
LEMMA SearchTable ==
  ASSUME NEW at, NEW root, NEW key, NEW n \in Nat, SearchRule(at, root, key, n)
  PROVE  Searched(at, root, key, n)
<1>1. \A steps \in 0 .. n : at[steps] = IF steps = 0 THEN <<>> ELSE NextPlace(root, key, at[steps - 1])
  <2>1. at = [steps \in 0 .. n |-> IF steps = 0 THEN <<>> ELSE NextPlace(root, key, at[steps - 1])]
    BY Zenon DEF SearchRule, NextPlace, Ends
  <2> QED BY <2>1, Zenon
<1> QED BY <1>1 DEF Searched

(* There is a search of any length. *)
LEMMA SearchThere ==
  ASSUME NEW root \in Trees, NEW key, NEW n \in Nat
  PROVE  \E at \in [0 .. n -> Turns] : SearchRule(at, root, key, n) /\ Searched(at, root, key, n)
<1> DEFINE F == [p \in Nat \X Turns |-> NextPlace(root, key, p[2])]
<1>1. \A p \in Turns : NextPlace(root, key, p) \in Turns
  BY DEF NextPlace, Turns
<1>2. F \in [Nat \X Turns -> Turns]
  BY <1>1
<1>3. \A k \in Nat, p \in Turns : F[<<k, p>>] = NextPlace(root, key, p)
  OBVIOUS
<1> HIDE DEF F
<1>4. <<>> \in Turns
  BY DEF Turns
<1>5. PICK at \in [0 .. n -> Turns] : LoopRule(at, F, <<>>, n)
  BY <1>2, <1>4, LoopThere
<1>6. at[0] = <<>> /\ \A k \in 1 .. n : at[k] = NextPlace(root, key, at[k - 1])
  <2>1. at[0] = <<>> /\ \A k \in 1 .. n : at[k] = F[<<k, at[k - 1]>>]
    BY <1>5 DEF LoopRule
  <2>2. \A k \in 1 .. n : k \in Nat /\ at[k - 1] \in Turns
    OBVIOUS
  <2> QED BY <1>3, <2>1, <2>2
<1>7. \A steps \in 0 .. n : at[steps] = IF steps = 0 THEN <<>> ELSE NextPlace(root, key, at[steps - 1])
  BY <1>6
<1>8. at = [steps \in 0 .. n |-> IF steps = 0 THEN <<>> ELSE NextPlace(root, key, at[steps - 1])]
  BY <1>7, Zenon
<1>9. SearchRule(at, root, key, n)
  BY <1>8, Zenon DEF SearchRule, NextPlace, Ends
<1> QED BY <1>6, <1>9 DEF Searched

(* Searches of one key agree as far as both go. *)
LEMMA SearchesAgree ==
  ASSUME NEW root, NEW key, NEW m \in Nat, NEW n \in Nat, m <= n,
         NEW g, Searched(g, root, key, m), NEW h, Searched(h, root, key, n)
  PROVE  g[m] = h[m]
<1>1. /\ g[0] = <<>> /\ \A k \in 1 .. m : g[k] = NextPlace(root, key, g[k - 1])
      /\ h[0] = <<>> /\ \A k \in 1 .. n : h[k] = NextPlace(root, key, h[k - 1])
  BY DEF Searched
<1> DEFINE T == {k \in 0 .. m : g[k] # h[k]}
<1>2. ASSUME T # {} PROVE FALSE
  <2>1. PICK k \in T : \A j \in T : k <= j
    <3>1. T \in SUBSET Nat
      OBVIOUS
    <3> HIDE DEF T
    <3> QED BY <1>2, <3>1, LeastNumber
  <2>2. k # 0
    BY <1>1, <2>1
  <2>3. k \in 1 .. m /\ k \in 1 .. n /\ k - 1 \in 0 .. m /\ ~(k <= k - 1)
    BY <2>1, <2>2
  <2>4. g[k - 1] = h[k - 1]
    BY <2>1, <2>3
  <2> QED BY <1>1, <2>1, <2>3, <2>4
<1> QED BY <1>2

(* Place is where any of them is after as many comparisons as there are nodes. *)
LEMMA PlaceReached ==
  ASSUME NEW root \in Trees, NEW key, NEW n \in Nat, Cardinality(DOMAIN root) <= n,
         NEW at, Searched(at, root, key, n)
  PROVE  Place(root, key) = at[Cardinality(DOMAIN root)]
<1> DEFINE m == Cardinality(DOMAIN root)
           h == CHOOSE g : SearchRule(g, root, key, m)
<1>1. m \in Nat
  BY TreeIs
<1>2. SearchRule(h, root, key, m)
  <2>1. \E g : SearchRule(g, root, key, m)
    BY <1>1, SearchThere
  <2> QED BY <2>1, Zenon
<1>3. Place(root, key) = h[m]
  BY PlaceIs
<1> HIDE DEF h, m
<1>4. Searched(h, root, key, m)
  BY <1>1, <1>2, SearchTable
<1>5. m <= n
  BY DEF m
<1>6. h[m] = at[m]
  BY <1>1, <1>4, <1>5, SearchesAgree
<1> QED BY <1>3, <1>6 DEF m

(* Where a search has ended it stays. *)
LEMMA SearchStays ==
  ASSUME NEW root, NEW key, NEW n \in Nat, NEW at, Searched(at, root, key, n),
         NEW k \in 0 .. n, Ends(root, key, at[k]), NEW j \in k .. n
  PROVE  at[j] = at[k]
<1> DEFINE T == {i \in k .. n : at[i] # at[k]}
<1>1. ASSUME T # {} PROVE FALSE
  <2>1. PICK i \in T : \A y \in T : i <= y
    <3>1. T \in SUBSET Nat
      OBVIOUS
    <3> HIDE DEF T
    <3> QED BY <1>1, <3>1, LeastNumber
  <2>2. i - 1 \in k .. n /\ ~(i <= i - 1) /\ i \in 1 .. n
    BY <2>1
  <2>3. at[i - 1] = at[k]
    BY <2>1, <2>2
  <2>4. at[i] = NextPlace(root, key, at[i - 1])
    BY <2>2 DEF Searched
  <2> QED BY <2>1, <2>3, <2>4 DEF NextPlace
<1> QED BY <1>1

----------------------------------------------------------------------------
(* A tree as insertions leave it: no path is as long as there are nodes, each *)
(* node has the value of its key, and the search for its key ends at it.      *)
WellGrown(root) ==
  /\ root \in Trees
  /\ \A p \in DOMAIN root : /\ Len(p) < Cardinality(DOMAIN root)
                            /\ root[p].value = ValueOf(root[p].key)
                            /\ Place(root, root[p].key) = p

(* Its keys. *)
KeysOf(root) == {root[p].key : p \in DOMAIN root}

(* A search has ended after as many comparisons as there are nodes. *)
LEMMA SearchEnds ==
  ASSUME NEW root, WellGrown(root), NEW key \in Int
  PROVE  /\ Ends(root, key, Place(root, key)) /\ Place(root, key) \in Turns
         /\ Len(Place(root, key)) <= Cardinality(DOMAIN root)
<1> DEFINE n == Cardinality(DOMAIN root)
<1>1. root \in Trees /\ n \in Nat /\ DOMAIN root \subseteq Turns
  BY TreeIs DEF WellGrown
<1>2. PICK at \in [0 .. n -> Turns] : Searched(at, root, key, n)
  BY <1>1, SearchThere
<1>3. Place(root, key) = at[n]
  BY <1>1, <1>2, PlaceReached
<1>4. \A p \in DOMAIN root : Len(p) < n
  BY DEF WellGrown
<1> HIDE DEF n
<1>5. \A p \in Turns : Len(p) \in Nat /\ \A t \in {"left", "right"} : Len(Append(p, t)) = Len(p) + 1
  BY DEF Turns
<1> DEFINE Good(k) == Len(at[k]) <= k /\ (Ends(root, key, at[k]) \/ Len(at[k]) = k)
           T == {k \in 0 .. n : ~Good(k)}
<1>6. ASSUME T # {} PROVE FALSE
  <2>1. PICK k \in T : \A y \in T : k <= y
    <3>1. T \in SUBSET Nat
      BY <1>1
    <3> HIDE DEF T
    <3> QED BY <1>6, <3>1, LeastNumber
  <2>2. k # 0
    <3>1. at[0] = <<>> /\ Len(<<>>) = 0
      BY <1>2 DEF Searched
    <3> QED BY <2>1, <3>1
  <2>3. k - 1 \in 0 .. n /\ ~(k <= k - 1) /\ k \in 1 .. n
    BY <1>1, <2>1, <2>2
  <2>4. Good(k - 1)
    BY <2>1, <2>3
  <2>5. at[k] = NextPlace(root, key, at[k - 1]) /\ at[k - 1] \in Turns
    BY <1>2, <2>3 DEF Searched
  <2>6. CASE Ends(root, key, at[k - 1])
    <3>1. at[k] = at[k - 1]
      BY <2>5, <2>6 DEF NextPlace
    <3>2. Len(at[k - 1]) \in Nat /\ Len(at[k - 1]) <= k
      BY <1>5, <2>3, <2>4, <2>5
    <3> QED BY <2>1, <2>6, <3>1, <3>2
  <2>7. CASE ~Ends(root, key, at[k - 1])
    <3>1. PICK t \in {"left", "right"} : at[k] = Append(at[k - 1], t)
      BY <2>5, <2>7 DEF NextPlace
    <3>2. Len(at[k]) = Len(at[k - 1]) + 1 /\ Len(at[k - 1]) = k - 1
      BY <1>5, <2>4, <2>5, <2>7, <3>1
    <3>3. Len(at[k]) = k
      BY <2>3, <3>2
    <3>4. Good(k)
      BY <2>3, <3>3
    <3> QED BY <2>1, <3>4
  <2> QED BY <2>6, <2>7
<1>7. Good(n)
  BY <1>1, <1>6
<1>8. at[n] \in Turns /\ n \in 0 .. n
  BY <1>1, <1>2
<1>9. Ends(root, key, at[n])
  <2>1. CASE at[n] \in DOMAIN root
    BY <1>1, <1>4, <1>5, <1>7, <1>8, <2>1
  <2> QED BY <2>1 DEF Ends
<1> QED BY <1>3, <1>7, <1>8, <1>9 DEF n

(* What a lookup returns. *)
LEMMA NodeFound ==
  ASSUME NEW root, WellGrown(root), NEW key \in Int
  PROVE  node_lookup(root, key) = IF key \in KeysOf(root) THEN ValueOf(key) ELSE 0
<1> DEFINE q == Place(root, key)
<1>1. Ends(root, key, q)
  BY SearchEnds
<1>2. node_lookup(root, key) = IF q \in DOMAIN root THEN root[q].value ELSE 0
  BY DEF node_lookup
<1> HIDE DEF q
<1>3. CASE q \in DOMAIN root
  <2>1. root[q].key = key /\ root[q].value = ValueOf(key)
    BY <1>1, <1>3 DEF Ends, WellGrown
  <2>2. key \in KeysOf(root)
    BY <1>3, <2>1 DEF KeysOf
  <2> QED BY <1>2, <1>3, <2>1, <2>2
<1>4. CASE q \notin DOMAIN root
  <2>1. ASSUME key \in KeysOf(root) PROVE FALSE
    <3>1. PICK p \in DOMAIN root : root[p].key = key
      BY <2>1 DEF KeysOf
    <3>2. q = p
      BY <3>1 DEF q, WellGrown
    <3> QED BY <1>4, <3>2
  <2> QED BY <1>2, <1>4, <2>1
<1> QED BY <1>3, <1>4

(* A key that is there already: its node is written again as it was. *)
LEMMA InsertSame ==
  ASSUME NEW root, WellGrown(root), NEW key \in Int, Place(root, key) \in DOMAIN root
  PROVE  node_insert(root, key, ValueOf(key)) = root /\ key \in KeysOf(root)
<1> DEFINE q == Place(root, key)
<1>1. root \in [DOMAIN root -> [key : Int, value : Int]]
  BY TreeIs DEF WellGrown
<1>2. node_insert(root, key, ValueOf(key))
        = [p \in DOMAIN root \cup {q} |-> IF p = q THEN [key |-> key, value |-> ValueOf(key)] ELSE root[p]]
  BY Zenon DEF node_insert
<1>3. q \in DOMAIN root /\ Ends(root, key, q)
  BY SearchEnds
<1> HIDE DEF q
<1>4. root[q].key = key /\ root[q].value = ValueOf(key)
  BY <1>3 DEF Ends, WellGrown
<1>5. root[q] = [key |-> key, value |-> ValueOf(key)]
  BY <1>1, <1>3, <1>4
<1>6. DOMAIN root \cup {q} = DOMAIN root
  BY <1>3
<1>7. node_insert(root, key, ValueOf(key)) = [p \in DOMAIN root |-> root[p]]
  BY <1>2, <1>5, <1>6
<1>8. root = [p \in DOMAIN root |-> root[p]]
  BY <1>1
<1> QED BY <1>3, <1>4, <1>7, <1>8 DEF KeysOf

(* A tree with one node more, in the place of the NULL where the search ended. *)
Grown(root, q, key) ==
  [p \in DOMAIN root \cup {q} |-> IF p = q THEN [key |-> key, value |-> ValueOf(key)] ELSE root[p]]

(* It is a tree. *)
LEMMA GrownIs ==
  ASSUME NEW root \in Trees, NEW q \in Turns, q \notin DOMAIN root, NEW key \in Int
  PROVE  /\ Grown(root, q, key) \in Trees /\ DOMAIN Grown(root, q, key) = DOMAIN root \cup {q}
         /\ Cardinality(DOMAIN root \cup {q}) = Cardinality(DOMAIN root) + 1
         /\ Grown(root, q, key)[q] = [key |-> key, value |-> ValueOf(key)]
         /\ \A p \in DOMAIN root : Grown(root, q, key)[p] = root[p]
<1> DEFINE new == Grown(root, q, key)
           D   == DOMAIN root \cup {q}
<1>1. root \in [DOMAIN root -> [key : Int, value : Int]] /\ DOMAIN root \subseteq Turns
  BY TreeIs
<1>2. IsFiniteSet(DOMAIN root)
  BY DEF Trees
<1>3. IsFiniteSet(D) /\ Cardinality(D) = Cardinality(DOMAIN root) + 1
  BY <1>2, FS_AddElement
<1>4. [key |-> key, value |-> ValueOf(key)] \in [key : Int, value : Int]
  BY DEF ValueOf
<1>5. new \in [D -> [key : Int, value : Int]] /\ DOMAIN new = D
  BY <1>1, <1>4 DEF Grown
<1>6. D \in SUBSET Turns
  BY <1>1
<1>7. new \in Trees
  BY <1>3, <1>5, <1>6 DEF Trees
<1>8. new[q] = [key |-> key, value |-> ValueOf(key)] /\ \A p \in DOMAIN root : new[p] = root[p]
  BY DEF Grown
<1> QED BY <1>3, <1>5, <1>7, <1>8

(* A search that does not come to the new node, or is for its key, ends where it did. *)
LEMMA SearchGrown ==
  ASSUME NEW root, WellGrown(root), NEW q \in Turns, q \notin DOMAIN root, NEW key \in Int,
         NEW x \in Int, x = key \/ Place(root, x) # q
  PROVE  Place(Grown(root, q, key), x) = Place(root, x)
<1> DEFINE n   == Cardinality(DOMAIN root)
           new == Grown(root, q, key)
<1>1. root \in Trees /\ n \in Nat
  BY TreeIs DEF WellGrown
<1>2. /\ new \in Trees /\ DOMAIN new = DOMAIN root \cup {q} /\ Cardinality(DOMAIN new) = n + 1
      /\ new[q] = [key |-> key, value |-> ValueOf(key)] /\ \A p \in DOMAIN root : new[p] = root[p]
  BY <1>1, GrownIs
<1> HIDE DEF new
<1>3. n + 1 \in Nat /\ n <= n + 1
  BY <1>1
<1>4. PICK at \in [0 .. n + 1 -> Turns] : Searched(at, root, x, n + 1)
  BY <1>1, <1>3, SearchThere
<1>5. Place(root, x) = at[n]
  BY <1>1, <1>3, <1>4, PlaceReached
<1>6. Ends(root, x, at[n])
  BY <1>5, SearchEnds
<1> HIDE DEF n
<1>7. at[n + 1] = at[n]
  <2>1. n \in 0 .. n + 1 /\ n + 1 \in n .. n + 1
    BY <1>1
  <2> QED BY <1>3, <1>4, <1>6, <2>1, SearchStays
<1>8. ASSUME NEW k \in 1 .. n + 1 PROVE at[k] = NextPlace(new, x, at[k - 1])
  <2>1. at[k] = NextPlace(root, x, at[k - 1])
    BY <1>4 DEF Searched
  <2>2. CASE at[k - 1] \in DOMAIN root
    BY <1>2, <2>1, <2>2 DEF NextPlace, Ends
  <2>3. CASE at[k - 1] \notin DOMAIN root /\ at[k - 1] # q
    BY <1>2, <2>1, <2>3 DEF NextPlace, Ends
  <2>4. CASE at[k - 1] = q
    <3>1. k - 1 \in 0 .. n + 1 /\ n \in k - 1 .. n + 1
      BY <1>1
    <3>2. Ends(root, x, at[k - 1])
      BY <2>4 DEF Ends
    <3>3. at[n] = at[k - 1]
      BY <1>3, <1>4, <3>1, <3>2, SearchStays
    <3>4. x = key
      BY <1>5, <2>4, <3>3
    <3>5. Ends(new, x, at[k - 1])
      BY <1>2, <2>4, <3>4 DEF Ends
    <3> QED BY <2>1, <3>2, <3>5 DEF NextPlace
  <2> QED BY <2>2, <2>3, <2>4
<1>9. Searched(at, new, x, n + 1)
  BY <1>4, <1>8 DEF Searched
<1>10. Place(new, x) = at[n + 1]
  <2>1. Cardinality(DOMAIN new) <= n + 1
    BY <1>2, <1>3
  <2> QED BY <1>2, <1>3, <1>9, <2>1, PlaceReached
<1> QED BY <1>5, <1>7, <1>10 DEF new

(* An insertion leaves a tree that has grown well, with the key in it. *)
LEMMA InsertGrows ==
  ASSUME NEW root, WellGrown(root), NEW key \in Int
  PROVE  /\ WellGrown(node_insert(root, key, ValueOf(key)))
         /\ KeysOf(node_insert(root, key, ValueOf(key))) = KeysOf(root) \cup {key}
<1> DEFINE q == Place(root, key)
<1>1. CASE q \in DOMAIN root
  BY <1>1, InsertSame
<1>2. CASE q \notin DOMAIN root
  <2> DEFINE new == Grown(root, q, key)
             n   == Cardinality(DOMAIN root)
  <2>1. root \in Trees /\ n \in Nat /\ root \in [DOMAIN root -> [key : Int, value : Int]]
    BY TreeIs DEF WellGrown
  <2>2. q \in Turns /\ Len(q) <= n /\ Len(q) \in Nat
    <3>1. q \in Turns /\ Len(q) <= n
      BY SearchEnds
    <3> QED BY <3>1 DEF Turns
  <2>3. node_insert(root, key, ValueOf(key)) = new
    BY Zenon DEF node_insert, Grown
  <2>4. /\ new \in Trees /\ DOMAIN new = DOMAIN root \cup {q} /\ Cardinality(DOMAIN new) = n + 1
        /\ new[q] = [key |-> key, value |-> ValueOf(key)] /\ \A p \in DOMAIN root : new[p] = root[p]
    BY <1>2, <2>1, <2>2, GrownIs
  <2>5. \A x \in Int : x = key \/ Place(root, x) # q => Place(new, x) = Place(root, x)
    BY <1>2, <2>2, SearchGrown
  <2> HIDE DEF new
  <2>6. ASSUME NEW p \in DOMAIN root
        PROVE  Len(p) < n + 1 /\ new[p].value = ValueOf(new[p].key) /\ Place(new, new[p].key) = p
    <3>1. Len(p) < n /\ root[p].value = ValueOf(root[p].key) /\ Place(root, root[p].key) = p /\ root[p].key \in Int
      BY <2>1 DEF WellGrown
    <3>2. Len(p) \in Nat
      BY <2>1, TreeIs DEF Turns
    <3>3. Place(new, root[p].key) = p
      <4>1. p # q
        BY <1>2
      <4> QED BY <2>5, <3>1, <4>1
    <3> QED BY <2>1, <2>4, <3>1, <3>2, <3>3
  <2>7. Len(q) < n + 1 /\ new[q].value = ValueOf(new[q].key) /\ Place(new, new[q].key) = q
    <3>1. new[q].key = key /\ new[q].value = ValueOf(key)
      BY <2>4
    <3>2. Place(new, key) = q
      BY <2>5
    <3> QED BY <2>1, <2>2, <3>1, <3>2
  <2>8. WellGrown(new)
    BY <2>4, <2>6, <2>7 DEF WellGrown
  <2>9. KeysOf(new) = KeysOf(root) \cup {key}
    <3>1. new[q].key = key
      BY <2>4
    <3>2. KeysOf(new) = {new[p].key : p \in DOMAIN root} \cup {key}
      BY <2>4, <3>1 DEF KeysOf
    <3>3. {new[p].key : p \in DOMAIN root} = KeysOf(root)
      BY <2>4 DEF KeysOf
    <3> QED BY <3>2, <3>3
  <2> QED BY <2>3, <2>8, <2>9
<1> QED BY <1>1, <1>2

(* The trees of run_size. *)
BuildRule(root, keys, values, order) ==
  root = [k \in 0 .. Len(order) |-> IF k = 0 THEN <<>> ELSE node_insert(root[k - 1], keys[order[k]], values[order[k]])]

(* What bst_build reads from the trees it goes through. *)
LEMMA BuildIs ==
  ASSUME NEW keys, NEW values, NEW order
  PROVE  bst_build(keys, values, order) = (CHOOSE root : BuildRule(root, keys, values, order))[Len(order)]
BY Zenon DEF bst_build, BuildRule

(* The empty tree. *)
LEMMA NoTree == WellGrown(<<>>) /\ KeysOf(<<>>) = {}
<1>1. DOMAIN <<>> = {} /\ <<>> \in [{} -> [key : Int, value : Int]]
  OBVIOUS
<1>2. IsFiniteSet({})
  BY FS_EmptySet
<1>3. <<>> \in Trees
  BY <1>1, <1>2 DEF Trees
<1> QED BY <1>1, <1>3 DEF WellGrown, KeysOf

(* The insertions go through well-grown trees. *)
LEMMA BuildThere ==
  ASSUME NEW n \in Nat, NEW keys \in [1 .. n -> Int], NEW order \in [1 .. n -> 1 .. n],
         NEW values, \A i \in 1 .. n : values[i] = ValueOf(keys[i])
  PROVE  \E root : BuildRule(root, keys, values, order)
<1> DEFINE S == {r \in Trees : WellGrown(r)}
           F == [p \in Nat \X S |-> IF p[1] \in 1 .. n THEN node_insert(p[2], keys[order[p[1]]], values[order[p[1]]]) ELSE p[2]]
<1>1. \A k \in 1 .. n : keys[order[k]] \in Int /\ values[order[k]] = ValueOf(keys[order[k]])
  OBVIOUS
<1>2. \A k \in 1 .. n, r \in S : node_insert(r, keys[order[k]], values[order[k]]) \in S
  <2> TAKE k \in 1 .. n, r \in S
  <2>1. WellGrown(node_insert(r, keys[order[k]], ValueOf(keys[order[k]])))
    BY <1>1, InsertGrows
  <2> QED BY <1>1, <2>1 DEF WellGrown
<1>3. F \in [Nat \X S -> S]
  BY <1>2
<1>4. \A k \in 1 .. n, r \in S : F[<<k, r>>] = node_insert(r, keys[order[k]], values[order[k]])
  <2> TAKE k \in 1 .. n, r \in S
  <2> HIDE DEF S
  <2>1. <<k, r>> \in Nat \X S /\ <<k, r>>[1] = k /\ <<k, r>>[2] = r
    OBVIOUS
  <2> QED BY <2>1
<1>5. <<>> \in S
  BY NoTree DEF WellGrown
<1> HIDE DEF F, S
<1>6. PICK root \in [0 .. n -> S] : LoopRule(root, F, <<>>, n)
  BY <1>3, <1>5, LoopThere
<1>7. \A k \in 0 .. n : root[k] = IF k = 0 THEN <<>> ELSE node_insert(root[k - 1], keys[order[k]], values[order[k]])
  <2>1. root[0] = <<>> /\ \A k \in 1 .. n : root[k] = F[<<k, root[k - 1]>>]
    BY <1>6 DEF LoopRule
  <2>2. \A k \in 1 .. n : root[k - 1] \in S
    OBVIOUS
  <2>3. \A k \in 1 .. n : root[k] = node_insert(root[k - 1], keys[order[k]], values[order[k]])
    BY <1>4, <2>1, <2>2, Zenon
  <2>4. \A k \in 0 .. n : k # 0 => k \in 1 .. n
    OBVIOUS
  <2> QED BY <2>1, <2>3, <2>4, Zenon
<1>8. Len(order) = n
  OBVIOUS
<1>9. root = [k \in 0 .. n |-> IF k = 0 THEN <<>> ELSE node_insert(root[k - 1], keys[order[k]], values[order[k]])]
  BY <1>7, Zenon
<1>10. BuildRule(root, keys, values, order)
  BY <1>8, <1>9, Zenon DEF BuildRule
<1> QED BY <1>10

(* The tree: the value of a key that is there, 0 for one that is not. *)
LEMMA TreeFinds ==
  ASSUME NEW n \in Nat, NEW keys \in [1 .. n -> Int], NEW order \in [1 .. n -> 1 .. n], ToSet(order) = 1 .. n,
         NEW values, \A i \in 1 .. n : values[i] = ValueOf(keys[i]), NEW key \in Int
  PROVE  node_lookup(bst_build(keys, values, order), key)
           = Answer(keys, n, key)
<1> DEFINE root == CHOOSE h : BuildRule(h, keys, values, order)
<1>1. BuildRule(root, keys, values, order)
  BY BuildThere, Zenon
<1>2. bst_build(keys, values, order) = root[Len(order)] /\ Len(order) = n
  BY BuildIs
<1> HIDE DEF root
<1>3. \A k \in 0 .. n : root[k] = IF k = 0 THEN <<>> ELSE node_insert(root[k - 1], keys[order[k]], values[order[k]])
  <2>1. \A k \in 0 .. Len(order) : root[k] = IF k = 0 THEN <<>> ELSE node_insert(root[k - 1], keys[order[k]], values[order[k]])
    BY <1>1, Zenon DEF BuildRule
  <2> QED BY <1>2, <2>1
<1>4. \A k \in 1 .. n : keys[order[k]] \in Int /\ values[order[k]] = ValueOf(keys[order[k]])
  OBVIOUS
<1> DEFINE Good(k) == WellGrown(root[k]) /\ KeysOf(root[k]) = {keys[order[j]] : j \in 1 .. k}
           T == {k \in 0 .. n : ~Good(k)}
<1>5. ASSUME T # {} PROVE FALSE
  <2>1. PICK k \in T : \A j \in T : k <= j
    <3>1. T \in SUBSET Nat
      OBVIOUS
    <3> HIDE DEF T
    <3> QED BY <1>5, <3>1, LeastNumber
  <2>2. k # 0
    <3>1. root[0] = <<>>
      <4>1. 0 \in 0 .. n
        OBVIOUS
      <4>2. root[0] = IF 0 = 0 THEN <<>> ELSE node_insert(root[0 - 1], keys[order[0]], values[order[0]])
        BY <1>3, <4>1, Zenon
      <4> QED BY <4>2, Zenon
    <3>2. {keys[order[j]] : j \in 1 .. 0} = {}
      OBVIOUS
    <3>3. Good(0)
      BY <3>1, <3>2, NoTree
    <3> QED BY <2>1, <3>3
  <2>3. k - 1 \in 0 .. n /\ ~(k <= k - 1) /\ k \in 1 .. n
    BY <2>1, <2>2
  <2>4. Good(k - 1)
    BY <2>1, <2>3
  <2>5. root[k] = node_insert(root[k - 1], keys[order[k]], ValueOf(keys[order[k]]))
    <3>1. root[k] = node_insert(root[k - 1], keys[order[k]], values[order[k]])
      BY <1>3, <2>1, <2>2, Zenon
    <3> QED BY <1>4, <2>3, <3>1, Zenon
  <2>6. WellGrown(root[k]) /\ KeysOf(root[k]) = KeysOf(root[k - 1]) \cup {keys[order[k]]}
    <3>1. keys[order[k]] \in Int
      BY <1>4, <2>3
    <3>2. WellGrown(root[k - 1])
      BY <2>4
    <3>3. /\ WellGrown(node_insert(root[k - 1], keys[order[k]], ValueOf(keys[order[k]])))
          /\ KeysOf(node_insert(root[k - 1], keys[order[k]], ValueOf(keys[order[k]])))
               = KeysOf(root[k - 1]) \cup {keys[order[k]]}
      BY <3>1, <3>2, InsertGrows, Zenon
    <3> QED BY <2>5, <3>3, Zenon
  <2>7. {keys[order[j]] : j \in 1 .. k} = {keys[order[j]] : j \in 1 .. k - 1} \cup {keys[order[k]]}
    <3>1. 1 .. k = 1 .. k - 1 \cup {k}
      BY <2>3
    <3> QED BY <3>1
  <2>8. Good(k)
    BY <2>4, <2>6, <2>7
  <2> QED BY <2>1, <2>8
<1>6. Good(n)
  <2>1. n \in 0 .. n
    OBVIOUS
  <2> HIDE DEF Good
  <2> QED BY <1>5, <2>1
<1>7. KeysOf(root[n]) = {keys[i] : i \in 1 .. n}
  <2>1. {order[j] : j \in 1 .. n} = 1 .. n
    BY <1>2 DEF ToSet
  <2>2. {keys[order[j]] : j \in 1 .. n} = {keys[i] : i \in {order[j] : j \in 1 .. n}}
    OBVIOUS
  <2> QED BY <1>6, <2>1, <2>2
<1>8. key \in KeysOf(root[n]) <=> \E i \in 1 .. n : keys[i] = key
  BY <1>7
<1> QED BY <1>2, <1>6, <1>8, NodeFound DEF Answer

----------------------------------------------------------------------------
(* tree_cache_lab, crc_nibble and side_channel: the specification.         *)

(* Three answers, each what the keys say. *)
SameAnswers(r, in) ==
  {r.bst, r.array, r.block} = {IF in.query \in ToSet(in.keys) THEN ValueOf(in.query) ELSE 0}

(* What was drawn has its type, and the variants agree on it. *)
VariantsInv ==
  /\ lab = "tree_cache" => /\ phase = "call" => input \in Inputs["tree_cache"]
                           /\ phase = "checked" => SameAnswers(result, input)
  /\ lab = "crc_nibble" => /\ phase \in {"draw", "call", "checked"}
                           /\ phase = "call" => input \in Inputs["crc_nibble"]
                           /\ phase = "checked" => result.got = result.want
  /\ lab = "side_channel" => /\ phase = "call" => input \in Inputs["side_channel"]
                             /\ phase = "checked" => result.table = result.branchless

(* The three structures answer one query alike. *)
LEMMA LookUpsSame ==
  ASSUME NEW in \in Inputs["tree_cache"], NEW r,
         NEW n, n = Len(in.keys), NEW values, values = [i \in 1 .. n |-> ValueOf(in.keys[i])],
         r = [bst   |-> node_lookup(bst_build(in.keys, values, in.order), in.query),
              array |-> array_lookup(in.keys, values, n, in.query),
              block |-> block_lookup(block_build(in.keys, n), in.keys, values, n, in.query)]
  PROVE  SameAnswers(r, in)
<1>1. Inputs["tree_cache"] = UNION {LookupCases(m) : m \in Sizes}
  BY DEF Inputs
<1>2. PICK m \in Sizes : in \in LookupCases(m)
  BY <1>1
<1>3. m \in Nat \ {0} /\ Keys \subseteq Int
  BY LookupAssumption
<1>4. /\ in.keys \in [1 .. m -> Keys] /\ \A i \in 1 .. m - 1 : in.keys[i] <= in.keys[i + 1]
      /\ in.order \in [1 .. m -> 1 .. m] /\ ToSet(in.order) = 1 .. m
      /\ in.query \in UNION {{k - 1, k, k + 1} : k \in Keys}
  BY <1>2 DEF LookupCases
<1>5. PICK keys \in [1 .. m -> Int], query \in Int, order \in [1 .. m -> 1 .. m] :
        keys = in.keys /\ query = in.query /\ order = in.order
  <2>1. in.query \in Int
    BY <1>3, <1>4
  <2>2. in.keys \in [1 .. m -> Int]
    BY <1>3, <1>4
  <2> QED BY <1>4, <2>1, <2>2
<1>6. n = m
  <2>1. Len(keys) = m
    BY <1>3
  <2> QED BY <1>5, <2>1
<1>7. Ascending(keys, m)
  <2> SUFFICES ASSUME NEW i \in 1 .. m PROVE \A j \in 1 .. m : i <= j => keys[i] <= keys[j]
    BY DEF Ascending
  <2> DEFINE T == {j \in i .. m : ~(keys[i] <= keys[j])}
  <2>1. ASSUME T # {} PROVE FALSE
    <3>1. PICK j \in T : \A y \in T : j <= y
      <4>1. T \in SUBSET Nat
        OBVIOUS
      <4> HIDE DEF T
      <4> QED BY <2>1, <4>1, LeastNumber
    <3>2. j # i
      BY <3>1
    <3>3. j - 1 \in i .. m /\ j - 1 \in 1 .. m - 1 /\ ~(j <= j - 1) /\ (j - 1) + 1 = j /\ j \in 1 .. m
      BY <1>3, <3>1, <3>2
    <3>4. keys[i] <= keys[j - 1]
      BY <3>1, <3>3
    <3>5. keys[j - 1] <= keys[j]
      BY <1>4, <1>5, <3>3
    <3>6. keys[i] \in Int /\ keys[j - 1] \in Int /\ keys[j] \in Int
      BY <3>3
    <3> QED BY <3>1, <3>4, <3>5, <3>6
  <2>2. ASSUME NEW j \in 1 .. m, i <= j PROVE keys[i] <= keys[j]
    <3>1. j \in i .. m
      BY <2>2
    <3>2. j \notin T
      BY <2>1, Zenon
    <3> QED BY <3>1, <3>2
  <2> QED BY <2>2
<1>8. \A i \in 1 .. m : values[i] = ValueOf(keys[i])
  BY <1>5, <1>6
<1> DEFINE found == Answer(keys, m, query)
<1>9. node_lookup(bst_build(keys, values, order), query) = found
  <2>1. ToSet(order) = 1 .. m
    BY <1>4, <1>5
  <2>2. m \in Nat
    BY <1>3
  <2> HIDE DEF found
  <2>3. node_lookup(bst_build(keys, values, order), query) = Answer(keys, m, query)
    BY <1>8, <2>1, <2>2, TreeFinds
  <2> QED BY <2>3 DEF found
<1>10. array_lookup(keys, values, m, query) = found
  BY <1>3, <1>7, <1>8, ArrayFinds
<1>11. block_lookup(block_build(keys, m), keys, values, m, query) = found
  BY <1>3, <1>7, <1>8, BlockFinds
<1>12. found = IF query \in ToSet(keys) THEN ValueOf(query) ELSE 0
  BY DEF ToSet, Answer
<1> HIDE DEF found
<1>13. r.bst = found /\ r.array = found /\ r.block = found
  BY <1>5, <1>6, <1>9, <1>10, <1>11
<1> QED BY <1>5, <1>12, <1>13 DEF SameAnswers

(* Each of the three programs calls its variants on what was drawn. *)
LEMMA VariantsStep == VariantsInv /\ [Next]_vars => VariantsInv'
<1> SUFFICES ASSUME VariantsInv, [Next]_vars PROVE VariantsInv'
  OBVIOUS
<1>1. lab' = lab
  BY SameLab
<1>2. CASE lab = "tree_cache"
  <2> SUFFICES /\ phase' = "call" => input' \in Inputs["tree_cache"]
               /\ phase' = "checked" => SameAnswers(result', input')
    BY <1>1, <1>2 DEF VariantsInv
  <2>1. /\ phase = "call" => input \in Inputs["tree_cache"]
        /\ phase = "checked" => SameAnswers(result, input)
    BY <1>2 DEF VariantsInv
  <2>2. CASE Draw
    BY <1>2, <2>2 DEF Draw
  <2>3. CASE LookUp
    <3> DEFINE n      == Len(input.keys)
               values == [i \in 1 .. n |-> ValueOf(input.keys[i])]
    <3>1. /\ phase = "call" /\ phase' = "checked" /\ input' = input
          /\ result' = [bst   |-> node_lookup(bst_build(input.keys, values, input.order), input.query),
                        array |-> array_lookup(input.keys, values, n, input.query),
                        block |-> block_lookup(block_build(input.keys, n), input.keys, values, n, input.query)]
      BY <2>3 DEF LookUp, Calling, Returns
    <3>2. input \in Inputs["tree_cache"]
      BY <2>1, <3>1
    <3>3. SameAnswers(result', input)
      BY <3>1, <3>2, LookUpsSame
    <3> QED BY <3>1, <3>3
  <2>4. CASE UNCHANGED vars
    BY <2>1, <2>4 DEF vars
  <2>5. CASE Compare
    BY <2>5 DEF Compare
  <2>6. ASSUME Next PROVE Draw \/ LookUp \/ Compare
    BY <1>2, <2>6 DEF Next, Calling, ConvertFull, ConvertExperiment, Quarter,
       verify_unsigned_high_prod32, verify_unsigned_high_prod, verify_mul_u64_u32_shr, verify_size_mul_like,
       PackAndUnpack, Reject, Accept, Decode, TraceRow, ConvertTernary, ExpandFraction, UpdateCrc,
       ChecksumData, NotPowerOfTwo, AddSample, EndOfRun
  <2> QED BY <2>2, <2>3, <2>4, <2>5, <2>6
<1>3. CASE lab = "crc_nibble"
  <2> SUFFICES /\ phase' \in {"draw", "call", "checked"}
               /\ phase' = "call" => input' \in Inputs["crc_nibble"]
               /\ phase' = "checked" => result'.got = result'.want
    BY <1>1, <1>3 DEF VariantsInv
  <2>1. /\ phase \in {"draw", "call", "checked"}
        /\ phase = "call" => input \in Inputs["crc_nibble"]
        /\ phase = "checked" => result.got = result.want
    BY <1>3 DEF VariantsInv
  <2>2. CASE Draw
    BY <1>3, <2>2 DEF Draw
  <2>3. CASE UpdateCrc
    <3>1. /\ phase = "call" /\ phase' = "checked"
          /\ result' = [got  |-> update_byte_via_nibble(input.state, input.byte),
                        want |-> update_byte(input.state, input.byte)]
      BY <2>3 DEF UpdateCrc, Calling, Returns
    <3>2. Inputs["crc_nibble"] = [state : CrcWords, byte : Bytes]
      BY DEF Inputs
    <3>3. input.state \in CrcWords /\ input.byte \in Bytes
      BY <2>1, <3>1, <3>2
    <3>4. update_byte_via_nibble(input.state, input.byte) = update_byte(input.state, input.byte)
      BY <3>3, NibblesAreByte
    <3> QED BY <3>1, <3>4
  <2>4. CASE UNCHANGED vars
    BY <2>1, <2>4 DEF vars
  <2>5. CASE Compare
    BY <2>1, <2>5 DEF Compare
  <2>6. ASSUME Next PROVE Draw \/ UpdateCrc \/ Compare
    BY <1>3, <2>6 DEF Next, Calling, ConvertFull, ConvertExperiment, Quarter,
       verify_unsigned_high_prod32, verify_unsigned_high_prod, verify_mul_u64_u32_shr, verify_size_mul_like,
       PackAndUnpack, Reject, Accept, Decode, LookUp, TraceRow, ConvertTernary, ExpandFraction,
       ChecksumData, NotPowerOfTwo, AddSample, EndOfRun
  <2> QED BY <2>2, <2>3, <2>4, <2>5, <2>6
<1>4. CASE lab = "side_channel"
  <2> SUFFICES /\ phase' = "call" => input' \in Inputs["side_channel"]
               /\ phase' = "checked" => result'.table = result'.branchless
    BY <1>1, <1>4 DEF VariantsInv
  <2>1. /\ phase = "call" => input \in Inputs["side_channel"]
        /\ phase = "checked" => result.table = result.branchless
    BY <1>4 DEF VariantsInv
  <2>2. CASE Draw
    BY <1>4, <2>2 DEF Draw
  <2>3. CASE ChecksumData
    <3>1. /\ phase = "call" /\ phase' = "checked"
          /\ result' = [table |-> crc32_table(input.data), branchless |-> crc32_branchless(input.data)]
      BY <2>3 DEF ChecksumData, Calling, Returns
    <3>2. Inputs["side_channel"] = [data : UNION {[1 .. n -> Bytes] : n \in 0 .. DataLen}]
      BY DEF Inputs
    <3>3. PICK n \in 0 .. DataLen : input.data \in [1 .. n -> Bytes]
      BY <2>1, <3>1, <3>2
    <3>4. n \in Nat
      BY DataAssumption
    <3>5. crc32_table(input.data) = crc32_branchless(input.data)
      BY <3>3, <3>4, ChecksumsSame
    <3> QED BY <3>1, <3>5
  <2>4. CASE UNCHANGED vars
    BY <2>1, <2>4 DEF vars
  <2>5. CASE Compare
    BY <2>5 DEF Compare
  <2>6. ASSUME Next PROVE Draw \/ ChecksumData \/ Compare
    BY <1>4, <2>6 DEF Next, Calling, ConvertFull, ConvertExperiment, Quarter,
       verify_unsigned_high_prod32, verify_unsigned_high_prod, verify_mul_u64_u32_shr, verify_size_mul_like,
       PackAndUnpack, Reject, Accept, Decode, LookUp, TraceRow, ConvertTernary, ExpandFraction, UpdateCrc,
       NotPowerOfTwo, AddSample, EndOfRun
  <2> QED BY <2>2, <2>3, <2>4, <2>5, <2>6
<1>5. CASE lab \notin {"tree_cache", "crc_nibble", "side_channel"}
  BY <1>1, <1>5 DEF VariantsInv
<1> QED BY <1>2, <1>3, <1>4, <1>5

(* tree_cache, crc_nibble and side_channel: for keys, orders, queries, block sizes,
   polynomials, widths and data of any size, the variants a lab measures agree. *)
THEOREM AllVariantsAgree == Spec => []VariantsAgree
<1>1. Init => VariantsInv
  BY DEF Init, VariantsInv
<1>2. VariantsInv => VariantsAgree
  BY DEF VariantsInv, VariantsAgree, Checked, SameAnswers
<1> QED BY <1>1, <1>2, VariantsStep, PTL DEF Spec

----------------------------------------------------------------------------
(* ch_sort_trace.c.                                                        *)

(* The greatest of numbers that have a bound, and the least of some numbers. *)
LEMMA GreatestIs ==
  ASSUME NEW S \in SUBSET Nat, S # {}, NEW n \in Nat, \A x \in S : x <= n
  PROVE  Max(S) \in S /\ \A x \in S : x <= Max(S)
<1> DEFINE D == {n - x : x \in S}
<1>1. PICK d \in D : \A e \in D : d <= e
  <2>1. D \in SUBSET Nat
    <3>1. \A x \in S : x \in Nat /\ n - x \in Nat
      BY SMT
    <3> QED BY <3>1
  <2>2. D # {}
    OBVIOUS
  <2> HIDE DEF D
  <2> QED BY <2>1, <2>2, LeastNumber
<1>2. PICK y \in S : d = n - y
  BY <1>1
<1>3. ASSUME NEW x \in S PROVE y >= x
  <2>1. n - y <= n - x /\ x \in Nat /\ y \in Nat
    BY <1>1, <1>2
  <2> QED BY <2>1
<1>4. Max(S) \in S /\ \A x \in S : Max(S) >= x
  BY <1>3, Zenon DEF Max
<1> QED BY <1>4

(* The least is there. *)
LEMMA LeastIs ==
  ASSUME NEW S \in SUBSET Nat, S # {}
  PROVE  Min(S) \in S /\ \A x \in S : Min(S) <= x
<1>1. \E x \in S : \A y \in S : x <= y
  BY LeastNumber
<1> QED BY <1>1, Zenon DEF Min

(* Digit k of a number. *)
Odd(n, k) == (n \div Pow(2, k)) % 2 = 1

(* Numbers of 2^k: quotients, and the next digit. *)
LEMMA DigitsGoOn ==
  ASSUME NEW n \in Nat, NEW k \in Nat
  PROVE  /\ n \div Pow(2, k) \in Nat /\ Pow(2, k) \in Nat \ {0}
         /\ n \div Pow(2, k + 1) = (n \div Pow(2, k)) \div 2
         /\ (n \div Pow(2, k)) % 2 \in {0, 1}
         /\ n \div Pow(2, k) = 2 * (n \div Pow(2, k + 1)) + ((n \div Pow(2, k)) % 2)
<1>1. Pow(2, k) \in Nat \ {0} /\ Pow(2, k + 1) = 2 * Pow(2, k) /\ 2 \in Nat \ {0}
  BY TwoPow
<1>2. PICK p \in Nat \ {0} : p = Pow(2, k) /\ Pow(2, k + 1) = p * 2
  BY <1>1
<1>3. n \div p \in Nat
  BY QuotientNat
<1>4. (n \div p) \div 2 = n \div (p * 2)
  BY <1>1, QuotientTwice
<1>5. PICK d \in Nat : d = n \div p
  BY <1>3
<1>6. d = 2 * (d \div 2) + (d % 2) /\ d % 2 \in 0 .. 1
  OBVIOUS
<1> QED
  <2>1. d % 2 \in {0, 1}
    BY <1>6
  <2>2. n \div Pow(2, k) = d /\ n \div Pow(2, k + 1) = d \div 2
    BY <1>2, <1>4, <1>5
  <2> QED BY <1>2, <1>6, <2>1, <2>2

(* A number is below its own power, so has no digit there. *)
LEMMA NoDigitAbove ==
  ASSUME NEW n \in Nat, NEW k \in Nat, n <= k
  PROVE  n \div Pow(2, k) = 0
<1>1. PICK p \in Nat \ {0} : p = Pow(2, k) /\ p > k
  BY TwoPow, PowAbove
<1>2. n = p * 0 + n /\ n \in 0 .. p - 1
  BY <1>1
<1>3. n \div p = 0
  BY <1>2, QuotientIs
<1> QED BY <1>1, <1>3

(* The trailing ones of m: that many ones, then a zero. *)
LEMMA TrailingOnes ==
  ASSUME NEW m \in Nat
  PROVE  LET t == count_trailing_ones(m) IN
         t \in Nat /\ t <= m /\ ~Odd(m, t) /\ \A k \in 0 .. t - 1 : Odd(m, k)
<1> DEFINE S == {k \in 0 .. m + 1 : (m \div Pow(2, k)) % 2 = 0}
           t == count_trailing_ones(m)
<1>1. m \in S
  <2>1. m \div Pow(2, m) = 0
    BY NoDigitAbove
  <2> QED BY <2>1
<1>2. t \in S /\ \A k \in S : t <= k
  <2>1. S \in SUBSET Nat
    OBVIOUS
  <2>2. t = Min(S)
    BY DEF count_trailing_ones
  <2> HIDE DEF S, t
  <2> QED BY <1>1, <2>1, <2>2, LeastIs
<1>3. ~Odd(m, t)
  BY <1>2 DEF Odd
<1>4. ASSUME NEW k \in 0 .. t - 1 PROVE Odd(m, k)
  <2>1. k \in 0 .. m + 1 /\ k \notin S /\ k \in Nat
    BY <1>2
  <2>2. (m \div Pow(2, k)) % 2 \in {0, 1}
    BY <2>1, DigitsGoOn
  <2> QED BY <2>1, <2>2 DEF Odd
<1> QED BY <1>1, <1>2, <1>3, <1>4

(* Adding one to m carries through the trailing ones. *)
LEMMA OneMore ==
  ASSUME NEW m \in Nat, NEW t \in Nat, ~Odd(m, t), \A k \in 0 .. t - 1 : Odd(m, k)
  PROVE  /\ Odd(m + 1, t)
         /\ \A k \in 0 .. t - 1 : ~Odd(m + 1, k)
         /\ \A k \in Nat : k > t => (Odd(m + 1, k) <=> Odd(m, k))
<1> DEFINE a(k) == m \div Pow(2, k)
           Carried1(k) == m + 1 = Pow(2, k) * (a(k) + 1)
           T == {k \in 0 .. t : ~Carried1(k)}
<1>1. ASSUME T # {} PROVE FALSE
  <2>1. PICK k \in T : \A j \in T : k <= j
    <3>1. T \in SUBSET Nat
      OBVIOUS
    <3> HIDE DEF T
    <3> QED BY <1>1, <3>1, LeastNumber
  <2>2. k # 0
    <3>1. Pow(2, 0) = 1 /\ m \div 1 = m /\ 1 * (m + 1) = m + 1
      BY TwoPow
    <3>2. Carried1(0)
      BY <3>1
    <3> QED BY <2>1, <3>2
  <2>3. k - 1 \in 0 .. t - 1 /\ k - 1 \in 0 .. t /\ k - 1 \in Nat /\ ~(k <= k - 1) /\ (k - 1) + 1 = k
    BY <2>1, <2>2
  <2>4. m + 1 = Pow(2, k - 1) * (a(k - 1) + 1) /\ a(k - 1) % 2 = 1
    BY <2>1, <2>3 DEF Odd
  <2>5. PICK p \in Nat, b \in Nat : /\ p = Pow(2, k - 1) /\ Pow(2, k) = 2 * p
                                    /\ b = a(k) /\ a(k - 1) = 2 * b + 1
    <3>1. /\ a(k - 1) \in Nat /\ Pow(2, k - 1) \in Nat \ {0}
          /\ a(k - 1) = 2 * a((k - 1) + 1) + (a(k - 1) % 2)
      BY <2>3, DigitsGoOn
    <3>2. Pow(2, (k - 1) + 1) = 2 * Pow(2, k - 1)
      BY <2>3, TwoPow
    <3>3. a(k) \in Nat
      BY <2>1, DigitsGoOn
    <3> QED BY <2>3, <2>4, <3>1, <3>2, <3>3
  <2>6. p * ((2 * b + 1) + 1) = (2 * p) * (b + 1)
    BY Z3
  <2>7. Carried1(k)
    BY <2>4, <2>5, <2>6
  <2> QED BY <2>1, <2>7
<1>2. \A k \in 0 .. t : m + 1 = Pow(2, k) * (a(k) + 1)
  BY <1>1
<1>3. \A k \in 0 .. t : (m + 1) \div Pow(2, k) = a(k) + 1
  <2> TAKE k \in 0 .. t
  <2>1. PICK p \in Nat \ {0}, b \in Nat : p = Pow(2, k) /\ b = a(k)
    <3>1. k \in Nat
      OBVIOUS
    <3>2. a(k) \in Nat /\ Pow(2, k) \in Nat \ {0}
      BY <3>1, DigitsGoOn
    <3> QED BY <3>2
  <2>2. m + 1 = p * (b + 1) + 0 /\ 0 \in 0 .. p - 1 /\ b + 1 \in Int /\ m + 1 \in Int
    <3>1. m + 1 = p * (b + 1) /\ p * (b + 1) \in Int
      BY <1>2, <2>1
    <3> QED BY <3>1
  <2>3. (m + 1) \div p = b + 1
    BY <2>1, <2>2, QuotientIs
  <2> QED BY <2>1, <2>3
<1>4. \A k \in Nat : a(k) \in Nat /\ a(k) % 2 \in {0, 1}
  BY DigitsGoOn
<1>5. a(t) % 2 = 0
  BY <1>4 DEF Odd
<1>6. Odd(m + 1, t)
  <2>1. PICK b \in Nat : b = a(t) /\ b % 2 = 0
    BY <1>4, <1>5
  <2>2. (b + 1) % 2 = 1
    BY <2>1
  <2> QED BY <1>3, <2>1, <2>2 DEF Odd
<1>7. ASSUME NEW k \in 0 .. t - 1 PROVE ~Odd(m + 1, k)
  <2>1. PICK b \in Nat : b = a(k) /\ b % 2 = 1
    BY <1>4 DEF Odd
  <2>2. (b + 1) % 2 # 1
    BY <2>1
  <2>3. k \in 0 .. t
    OBVIOUS
  <2> QED BY <1>3, <2>1, <2>2, <2>3 DEF Odd
<1> DEFINE U == {k \in Nat : k > t /\ (m + 1) \div Pow(2, k) # a(k)}
<1>8. ASSUME U # {} PROVE FALSE
  <2>1. PICK k \in U : \A j \in U : k <= j
    <3>1. U \in SUBSET Nat
      OBVIOUS
    <3> HIDE DEF U
    <3> QED BY <1>8, <3>1, LeastNumber
  <2>2. k - 1 \in Nat /\ ~(k <= k - 1) /\ (k - 1) + 1 = k /\ k - 1 >= t /\ m + 1 \in Nat
    BY <2>1
  <2>3. (m + 1) \div Pow(2, k) = ((m + 1) \div Pow(2, k - 1)) \div 2 /\ a(k) = a(k - 1) \div 2
    <3>1. \A n \in Nat : n \div Pow(2, (k - 1) + 1) = (n \div Pow(2, k - 1)) \div 2
      BY <2>2, DigitsGoOn
    <3> QED BY <2>2, <3>1
  <2>4. CASE k - 1 = t
    <3>1. PICK b \in Nat : b = a(t) /\ b % 2 = 0
      BY <1>4, <1>5
    <3>2. (b + 1) \div 2 = b \div 2
      BY <3>1
    <3>3. (m + 1) \div Pow(2, t) = b + 1
      BY <1>3, <3>1
    <3> QED BY <2>1, <2>3, <2>4, <3>1, <3>2, <3>3
  <2>5. CASE k - 1 # t
    <3>1. (m + 1) \div Pow(2, k - 1) = a(k - 1)
      BY <2>1, <2>2, <2>5
    <3> QED BY <2>1, <2>3, <3>1
  <2> QED BY <2>4, <2>5
<1>9. \A k \in Nat : k > t => (Odd(m + 1, k) <=> Odd(m, k))
  BY <1>8 DEF Odd
<1> QED BY <1>6, <1>7, <1>9

(* No digit is above the highest power of two. *)
LEMMA HighestCounts ==
  ASSUME NEW n \in Nat, NEW j \in Nat, Odd(n, j)
  PROVE  Pow(2, j) <= highest_power_of_two_le(n)
<1>1. PICK p \in Nat \ {0} : p = Pow(2, j) /\ p > j
  BY TwoPow, PowAbove
<1>2. p <= n
  <2>1. ASSUME n < p PROVE FALSE
    <3>1. n = p * 0 + n /\ n \in 0 .. p - 1
      BY <1>1, <2>1
    <3>2. n \div p = 0
      BY <3>1, QuotientIs
    <3> QED BY <1>1, <3>2 DEF Odd
  <2> QED BY <1>1, <2>1
<1> DEFINE S == {0} \cup {x \in {Pow(2, i) : i \in 0 .. n} : x <= n}
<1>3. S \in SUBSET Nat
  <2>1. \A i \in 0 .. n : Pow(2, i) \in Nat
    BY TwoPow
  <2> QED BY <2>1
<1>4. \A x \in S : x <= n
  OBVIOUS
<1>5. p \in S
  <2>1. j \in 0 .. n
    BY <1>1, <1>2
  <2> QED BY <1>1, <1>2, <2>1
<1>6. highest_power_of_two_le(n) = Max(S)
  BY DEF highest_power_of_two_le
<1> HIDE DEF S
<1>7. S # {}
  BY <1>5
<1>8. \A x \in S : x <= Max(S)
  BY <1>3, <1>4, <1>7, GreatestIs
<1> QED BY <1>1, <1>5, <1>6, <1>8

(* The runs found so far, after each bit. *)
RunsRule(runs, count) ==
  runs = [k \in 0 .. count |->
    IF k = 0 THEN <<>>
    ELSE LET bit == Pow(2, count - k)
         IN  IF bit <= highest_power_of_two_le(count) /\ (count \div bit) % 2 = 1
             THEN Append(runs[k - 1], bit) ELSE runs[k - 1]]

(* What runs_from_count reads from its table. *)
LEMMA RunsIs ==
  ASSUME NEW count
  PROVE  runs_from_count(count) = (CHOOSE runs : RunsRule(runs, count))[count]
BY Zenon DEF runs_from_count, RunsRule

(* One bit. *)
RunsWith(s, n, k) == IF Odd(n, n - k) THEN Append(s, Pow(2, n - k)) ELSE s
RunsSteps(h, n) == h[0] = <<>> /\ \A k \in 1 .. n : h[k] = RunsWith(h[k - 1], n, k)

(* A bit is taken if it is a digit: none is above the highest. *)
LEMMA BitTaken ==
  ASSUME NEW n \in Nat, NEW k \in 1 .. n, NEW s
  PROVE  (IF Pow(2, n - k) <= highest_power_of_two_le(n) /\ (n \div Pow(2, n - k)) % 2 = 1
          THEN Append(s, Pow(2, n - k)) ELSE s) = RunsWith(s, n, k)
<1>1. n - k \in Nat
  OBVIOUS
<1>2. CASE Odd(n, n - k)
  <2>1. Pow(2, n - k) <= highest_power_of_two_le(n)
    BY <1>1, <1>2, HighestCounts
  <2> QED BY <1>2, <2>1 DEF Odd, RunsWith
<1>3. CASE ~Odd(n, n - k)
  BY <1>3 DEF Odd, RunsWith
<1> QED BY <1>2, <1>3

(* The table says that, and there is one. *)
LEMMA RunsTable ==
  ASSUME NEW n \in Nat, NEW h, RunsRule(h, n)
  PROVE  RunsSteps(h, n)
<1>1. \A k \in 0 .. n : h[k] =
        IF k = 0 THEN <<>>
        ELSE IF Pow(2, n - k) <= highest_power_of_two_le(n) /\ (n \div Pow(2, n - k)) % 2 = 1
             THEN Append(h[k - 1], Pow(2, n - k)) ELSE h[k - 1]
  BY Zenon DEF RunsRule
<1>2. \A k \in 1 .. n : k \in 0 .. n /\ k # 0
  OBVIOUS
<1>3. \A k \in 1 .. n : h[k] = RunsWith(h[k - 1], n, k)
  BY <1>1, <1>2, BitTaken, Zenon
<1>4. 0 \in 0 .. n
  OBVIOUS
<1> QED BY <1>1, <1>3, <1>4, Zenon DEF RunsSteps

(* The loop has its table. *)
LEMMA RunsThere ==
  ASSUME NEW n \in Nat
  PROVE  \E h \in [0 .. n -> Seq(Nat)] : RunsRule(h, n) /\ RunsSteps(h, n)
<1> DEFINE S == Seq(Nat)
           F == [p \in Nat \X S |-> IF p[1] \in 1 .. n THEN RunsWith(p[2], n, p[1]) ELSE p[2]]
<1>1. \A k \in 1 .. n, s \in S : RunsWith(s, n, k) \in S
  <2> TAKE k \in 1 .. n, s \in S
  <2>1. n - k \in Nat
    OBVIOUS
  <2>2. Pow(2, n - k) \in Nat
    BY <2>1, TwoPow
  <2> QED BY <2>2 DEF RunsWith
<1>2. <<>> \in S
  OBVIOUS
<1> HIDE DEF S
<1>3. F \in [Nat \X S -> S]
  BY <1>1
<1>4. \A k \in 1 .. n, s \in S : F[<<k, s>>] = RunsWith(s, n, k)
  <2> TAKE k \in 1 .. n, s \in S
  <2>1. <<k, s>> \in Nat \X S /\ <<k, s>>[1] = k /\ <<k, s>>[2] = s
    OBVIOUS
  <2> QED BY <2>1
<1> HIDE DEF F
<1>5. PICK h \in [0 .. n -> S] : LoopRule(h, F, <<>>, n)
  BY <1>2, <1>3, LoopThere
<1>6. RunsSteps(h, n)
  <2>1. h[0] = <<>> /\ \A k \in 1 .. n : h[k] = F[<<k, h[k - 1]>>]
    BY <1>5 DEF LoopRule
  <2>2. \A k \in 1 .. n : h[k - 1] \in S
    OBVIOUS
  <2>3. \A k \in 1 .. n : h[k] = RunsWith(h[k - 1], n, k)
    BY <1>4, <2>1, <2>2, Zenon
  <2> QED BY <2>1, <2>3 DEF RunsSteps
<1>7. \A k \in 0 .. n : h[k] =
        IF k = 0 THEN <<>>
        ELSE IF Pow(2, n - k) <= highest_power_of_two_le(n) /\ (n \div Pow(2, n - k)) % 2 = 1
             THEN Append(h[k - 1], Pow(2, n - k)) ELSE h[k - 1]
  <2>1. \A k \in 0 .. n : k # 0 => k \in 1 .. n
    OBVIOUS
  <2>2. \A k \in 1 .. n : h[k] =
          IF Pow(2, n - k) <= highest_power_of_two_le(n) /\ (n \div Pow(2, n - k)) % 2 = 1
          THEN Append(h[k - 1], Pow(2, n - k)) ELSE h[k - 1]
    BY <1>6, BitTaken, Zenon DEF RunsSteps
  <2>3. h[0] = <<>>
    BY <1>6 DEF RunsSteps
  <2> QED BY <2>1, <2>2, <2>3, Zenon
<1>8. h = [k \in 0 .. n |->
        IF k = 0 THEN <<>>
        ELSE IF Pow(2, n - k) <= highest_power_of_two_le(n) /\ (n \div Pow(2, n - k)) % 2 = 1
             THEN Append(h[k - 1], Pow(2, n - k)) ELSE h[k - 1]]
  BY <1>7, Zenon
<1>9. RunsRule(h, n)
  BY <1>8, Zenon DEF RunsRule
<1> QED BY <1>6, <1>9 DEF S

(* The runs, and how they came about. *)
RunsBy(h, n) == h \in [0 .. n -> Seq(Nat)] /\ RunsSteps(h, n) /\ runs_from_count(n) = h[n]

(* There is such a table. *)
LEMMA RunsAre ==
  ASSUME NEW n \in Nat
  PROVE  \E h : RunsBy(h, n)
<1> DEFINE g == CHOOSE runs : RunsRule(runs, n)
<1>1. PICK h \in [0 .. n -> Seq(Nat)] : RunsRule(h, n) /\ RunsSteps(h, n)
  BY RunsThere
<1>2. RunsRule(g, n)
  BY <1>1, Zenon
<1>3. runs_from_count(n) = g[n]
  BY RunsIs
<1> HIDE DEF g
<1>4. RunsSteps(g, n)
  BY <1>2, RunsTable
<1> DEFINE T == {k \in 0 .. n : g[k] # h[k]}
<1>5. ASSUME T # {} PROVE FALSE
  <2>1. PICK k \in T : \A j \in T : k <= j
    <3>1. T \in SUBSET Nat
      OBVIOUS
    <3> HIDE DEF T
    <3> QED BY <1>5, <3>1, LeastNumber
  <2>2. k # 0
    BY <1>1, <1>4, <2>1 DEF RunsSteps
  <2>3. k \in 1 .. n /\ k - 1 \in 0 .. n /\ ~(k <= k - 1)
    BY <2>1, <2>2
  <2>4. g[k - 1] = h[k - 1]
    BY <2>1, <2>3
  <2>5. g[k] = RunsWith(g[k - 1], n, k) /\ h[k] = RunsWith(h[k - 1], n, k)
    BY <1>1, <1>4, <2>3 DEF RunsSteps
  <2> QED BY <2>1, <2>4, <2>5
<1>6. g[n] = h[n]
  <2>1. n \in 0 .. n
    OBVIOUS
  <2> QED BY <1>5, <2>1
<1> QED BY <1>1, <1>3, <1>6 DEF RunsBy

(* Merging the last two of some runs. *)
MergedOnce(r) == Append(SubSeq(r, 1, Len(r) - 2), r[Len(r) - 1] + r[Len(r)])

(* What Merged goes through. *)
MergeRule(h, runs, times) == h = [k \in 0 .. times |-> IF k = 0 THEN runs ELSE MergedOnce(h[k - 1])]

(* What Merged is. *)
LEMMA MergedIs ==
  ASSUME NEW runs, NEW times
  PROVE  Merged(runs, times) = CHOOSE h : MergeRule(h, runs, times)
BY Zenon DEF Merged, MergeRule, MergedOnce

(* A sequence of sequences, each of which the one before merged once, is Merged. *)
MergeSteps(h, runs, n) ==
  h = [k \in 0 .. n |-> h[k]] /\ h[0] = runs /\ \A k \in 1 .. n : h[k] = MergedOnce(h[k - 1])

(* There is no other. *)
LEMMA MergedAre ==
  ASSUME NEW n \in Nat, NEW runs, NEW h, MergeSteps(h, runs, n)
  PROVE  \A k \in 0 .. n : Merged(runs, n)[k] = h[k]
<1>0. h = [k \in 0 .. n |-> h[k]] /\ h[0] = runs /\ \A k \in 1 .. n : h[k] = MergedOnce(h[k - 1])
  BY Zenon DEF MergeSteps
<1>1. \A k \in 0 .. n : h[k] = IF k = 0 THEN runs ELSE MergedOnce(h[k - 1])
  <2>1. \A k \in 0 .. n : k # 0 => k \in 1 .. n
    OBVIOUS
  <2> QED BY <1>0, <2>1, Zenon
<1>2. h = [k \in 0 .. n |-> IF k = 0 THEN runs ELSE MergedOnce(h[k - 1])]
  BY <1>0, <1>1, Zenon
<1>3. MergeRule(h, runs, n)
  BY <1>2, Zenon DEF MergeRule
<1> DEFINE g == CHOOSE x : MergeRule(x, runs, n)
<1>4. MergeRule(g, runs, n)
  BY <1>3, Zenon
<1>5. Merged(runs, n) = g
  BY MergedIs
<1> HIDE DEF g
<1>6. \A k \in 0 .. n : g[k] = IF k = 0 THEN runs ELSE MergedOnce(g[k - 1])
  BY <1>4, Zenon DEF MergeRule
<1> DEFINE T == {k \in 0 .. n : g[k] # h[k]}
<1>7. ASSUME T # {} PROVE FALSE
  <2>1. PICK k \in T : \A j \in T : k <= j
    <3>1. T \in SUBSET Nat
      OBVIOUS
    <3> HIDE DEF T
    <3> QED BY <1>7, <3>1, LeastNumber
  <2>2. k # 0
    BY <1>1, <1>6, <2>1
  <2>3. k - 1 \in 0 .. n /\ ~(k <= k - 1)
    BY <2>1, <2>2
  <2>4. g[k - 1] = h[k - 1]
    BY <2>1, <2>3
  <2>5. g[k] = MergedOnce(g[k - 1]) /\ h[k] = MergedOnce(h[k - 1])
    BY <1>1, <1>6, <2>1, <2>2
  <2> QED BY <2>1, <2>4, <2>5
<1> QED BY <1>5, <1>7

(* Merging two runs of one length. *)
LEMMA TwoMerged ==
  ASSUME NEW s \in Seq(Nat), NEW x \in Nat, NEW r, r = Append(Append(s, x), x)
  PROVE  Len(r) > 1 /\ r[Len(r) - 1] = r[Len(r)] /\ MergedOnce(r) = Append(s, x + x)
<1>1. Len(s) \in Nat /\ Append(s, x) \in Seq(Nat) /\ Len(Append(s, x)) = Len(s) + 1
  OBVIOUS
<1>2. r \in Seq(Nat) /\ Len(r) = Len(s) + 2
  BY <1>1
<1>3. /\ r[Len(s) + 1] = x /\ r[Len(s) + 2] = x
      /\ \A i \in 1 .. Len(s) : r[i] = s[i]
  BY <1>1
<1>4. SubSeq(r, 1, Len(s)) = s
  <2> DEFINE q == SubSeq(r, 1, Len(s))
  <2>1. q \in Seq(Nat) /\ Len(q) = Len(s) /\ \A i \in 1 .. Len(s) : q[i] = r[i]
    BY <1>1, <1>2
  <2> HIDE DEF q
  <2> QED BY <1>1, <1>3, <2>1, SeqEqual
<1>5. Len(r) - 2 = Len(s) /\ Len(r) - 1 = Len(s) + 1
  BY <1>1, <1>2
<1> QED BY <1>1, <1>2, <1>3, <1>4, <1>5 DEF MergedOnce

(* The merges of one row of the trace. *)
Merges(first, last, t) ==
  /\ last = Merged(first, t)[t]
  /\ \A k \in 0 .. t - 1 : /\ Len(Merged(first, t)[k]) > 1
                           /\ Merged(first, t)[k][Len(Merged(first, t)[k]) - 1] = Merged(first, t)[k][Len(Merged(first, t)[k])]

(* A row's runs come from the runs of the row before. *)
LEMMA RowFollows ==
  ASSUME NEW m \in Nat, NEW t, t = count_trailing_ones(m)
  PROVE  Merges(Append(runs_from_count(m), 1), runs_from_count(m + 1), t)
<1>1. t \in Nat /\ t <= m /\ ~Odd(m, t) /\ \A k \in 0 .. t - 1 : Odd(m, k)
  BY TrailingOnes
<1>2. /\ Odd(m + 1, t)
      /\ \A k \in 0 .. t - 1 : ~Odd(m + 1, k)
      /\ \A k \in Nat : k > t => (Odd(m + 1, k) <=> Odd(m, k))
  BY <1>1, OneMore
<1>3. PICK f : RunsBy(f, m)
  BY RunsAre
<1>4. PICK g : RunsBy(g, m + 1)
  <2>1. m + 1 \in Nat
    OBVIOUS
  <2> QED BY <2>1, RunsAre
<1>5. f \in [0 .. m -> Seq(Nat)] /\ runs_from_count(m) = f[m] /\ f[0] = <<>>
      /\ \A k \in 1 .. m : f[k] = RunsWith(f[k - 1], m, k)
  BY <1>3 DEF RunsBy, RunsSteps
<1>6. runs_from_count(m + 1) = g[m + 1] /\ g[0] = <<>>
      /\ \A k \in 1 .. m + 1 : g[k] = RunsWith(g[k - 1], m + 1, k)
  BY <1>4 DEF RunsBy, RunsSteps
<1> DEFINE T == {j \in 0 .. m : m - j > t /\ f[j] # g[j + 1]}
<1>7. ASSUME T # {} PROVE FALSE
  <2>1. PICK j \in T : \A y \in T : j <= y
    <3>1. T \in SUBSET Nat
      OBVIOUS
    <3> HIDE DEF T
    <3> QED BY <1>7, <3>1, LeastNumber
  <2>2. j + 1 \in 1 .. m + 1 /\ (j + 1) - 1 = j /\ (m + 1) - (j + 1) = m - j /\ m - j \in Nat /\ j \in 0 .. m /\ m - j > t
    BY <2>1
  <2>3. g[j + 1] = RunsWith(g[j], m + 1, j + 1)
    BY <1>6, <2>2
  <2>4. Odd(m + 1, m - j) <=> Odd(m, m - j)
    BY <1>2, <2>2
  <2>5. CASE j = 0
    <3>1. m \div Pow(2, m) = 0
      BY NoDigitAbove
    <3>2. ~Odd(m, m)
      BY <3>1 DEF Odd
    <3>3. m - 0 = m
      OBVIOUS
    <3>4. g[0 + 1] = g[0]
      BY <2>2, <2>3, <2>4, <2>5, <3>2, <3>3 DEF RunsWith
    <3> QED BY <1>5, <1>6, <2>1, <2>5, <3>4
  <2>6. CASE j # 0
    <3>1. j \in 1 .. m /\ j - 1 \in 0 .. m /\ m - (j - 1) > t /\ ~(j <= j - 1) /\ (j - 1) + 1 = j
      BY <1>1, <2>2, <2>6
    <3>2. f[j - 1] = g[j]
      BY <2>1, <3>1
    <3>3. f[j] = RunsWith(f[j - 1], m, j)
      BY <1>5, <3>1
    <3>4. RunsWith(f[j - 1], m, j) = RunsWith(g[j], m + 1, j + 1)
      BY <2>2, <2>4, <3>2 DEF RunsWith
    <3> QED BY <2>1, <2>3, <3>3, <3>4
  <2> QED BY <2>5, <2>6
<1> DEFINE P == f[m - t]
<1>8. g[m - t] = P
  <2>1. CASE m = t
    BY <1>5, <1>6, <2>1
  <2>2. CASE m # t
    <3>1. m - t \in 1 .. m /\ (m - t) - 1 \in 0 .. m /\ m - ((m - t) - 1) > t /\ ((m - t) - 1) + 1 = m - t /\ m - (m - t) = t
      BY <1>1, <2>2
    <3>2. f[(m - t) - 1] = g[m - t]
      BY <1>7, <3>1
    <3>3. f[m - t] = f[(m - t) - 1]
      BY <1>1, <1>5, <3>1 DEF RunsWith
    <3> QED BY <3>2, <3>3
  <2> QED BY <2>1, <2>2
<1>9. g[(m - t) + 1] = Append(P, Pow(2, t))
  <2>1. (m - t) + 1 \in 1 .. m + 1 /\ ((m - t) + 1) - 1 = m - t /\ (m + 1) - ((m - t) + 1) = t
    BY <1>1
  <2> QED BY <1>2, <1>6, <1>8, <2>1 DEF RunsWith
<1> DEFINE U == {j \in (m - t) + 1 .. m + 1 : g[j] # g[(m - t) + 1]}
<1>10. ASSUME U # {} PROVE FALSE
  <2>1. PICK j \in U : \A y \in U : j <= y
    <3>1. U \in SUBSET Nat
      BY <1>1
    <3> HIDE DEF U
    <3> QED BY <1>10, <3>1, LeastNumber
  <2>2. /\ j \in 1 .. m + 1 /\ j - 1 \in (m - t) + 1 .. m + 1 /\ ~(j <= j - 1)
        /\ (m + 1) - j \in 0 .. t - 1
    BY <1>1, <2>1
  <2>3. g[j - 1] = g[(m - t) + 1]
    BY <2>1, <2>2
  <2>4. g[j] = g[j - 1]
    BY <1>2, <1>6, <2>2 DEF RunsWith
  <2> QED BY <2>1, <2>3, <2>4
<1>11. runs_from_count(m + 1) = Append(P, Pow(2, t))
  <2>1. m + 1 \in (m - t) + 1 .. m + 1
    BY <1>1
  <2> QED BY <1>6, <1>9, <1>10, <2>1
<1>12. ASSUME NEW k \in 0 .. t - 1
       PROVE  f[m - k] = Append(f[m - (k + 1)], Pow(2, k))
  <2>1. m - k \in 1 .. m /\ (m - k) - 1 = m - (k + 1) /\ m - (m - k) = k
    BY <1>1
  <2> QED BY <1>1, <1>5, <2>1 DEF RunsWith
<1> DEFINE M == [k \in 0 .. t |-> Append(f[m - k], Pow(2, k))]
<1>13. M = [k \in 0 .. t |-> M[k]] /\ \A k \in 0 .. t : M[k] = Append(f[m - k], Pow(2, k))
  OBVIOUS
<1> HIDE DEF M
<1>14. M[0] = Append(runs_from_count(m), 1)
  <2>1. 0 \in 0 .. t /\ m - 0 = m /\ Pow(2, 0) = 1
    BY <1>1, TwoPow
  <2> QED BY <1>5, <1>13, <2>1
<1>15. ASSUME NEW k \in 0 .. t - 1
       PROVE  Len(M[k]) > 1 /\ M[k][Len(M[k]) - 1] = M[k][Len(M[k])] /\ M[k + 1] = MergedOnce(M[k])
  <2>1. k \in 0 .. t /\ k + 1 \in 0 .. t /\ k \in Nat /\ m - (k + 1) \in 0 .. m
    BY <1>1
  <2>2. PICK s \in Seq(Nat) : s = f[m - (k + 1)]
    BY <1>5, <2>1
  <2>3. PICK x \in Nat : x = Pow(2, k) /\ Pow(2, k + 1) = x + x
    <3>1. Pow(2, k) \in Nat /\ Pow(2, k + 1) = 2 * Pow(2, k)
      BY <2>1, TwoPow
    <3> QED BY <3>1
  <2>4. M[k] = Append(Append(s, x), x) /\ M[k + 1] = Append(s, x + x)
    BY <1>12, <1>13, <2>1, <2>2, <2>3
  <2> QED BY <2>4, TwoMerged
<1>16. \A k \in 1 .. t : M[k] = MergedOnce(M[k - 1])
  <2> TAKE k \in 1 .. t
  <2>1. k - 1 \in 0 .. t - 1 /\ (k - 1) + 1 = k
    BY <1>1
  <2> QED BY <1>15, <2>1
<1>17. \A k \in 0 .. t : Merged(Append(runs_from_count(m), 1), t)[k] = M[k]
  <2>1. MergeSteps(M, Append(runs_from_count(m), 1), t)
    BY <1>13, <1>14, <1>16, Zenon DEF MergeSteps
  <2> QED BY <1>1, <2>1, MergedAre
<1>18. t \in 0 .. t /\ \A k \in 0 .. t - 1 : k \in 0 .. t
  BY <1>1
<1>19. runs_from_count(m + 1) = M[t]
  BY <1>11, <1>13, <1>18
<1>20. \A k \in 0 .. t - 1 : Merged(Append(runs_from_count(m), 1), t)[k] = M[k]
  BY <1>17, <1>18
<1> QED BY <1>15, <1>17, <1>18, <1>19, <1>20 DEF Merges

(* ch_sort_trace: the row of a count, and what it was computed from. *)
TraceInv ==
  lab = "sort_trace" =>
    /\ phase = "call" => input \in Inputs["sort_trace"]
    /\ phase = "checked" => /\ input.count \in Nat \ {0}
                            /\ result.ones = count_trailing_ones(input.count - 1)
                            /\ result.runs = runs_from_count(input.count)

(* A row is written for the count drawn. *)
LEMMA TraceStep == TraceInv /\ [Next]_vars => TraceInv'
<1> SUFFICES ASSUME TraceInv, [Next]_vars, lab' = "sort_trace"
             PROVE  /\ phase' = "call" => input' \in Inputs["sort_trace"]
                    /\ phase' = "checked" => /\ input'.count \in Nat \ {0}
                                             /\ result'.ones = count_trailing_ones(input'.count - 1)
                                             /\ result'.runs = runs_from_count(input'.count)
  BY DEF TraceInv
<1>1. lab = "sort_trace"
  BY SameLab
<1>2. /\ phase = "call" => input \in Inputs["sort_trace"]
      /\ phase = "checked" => /\ input.count \in Nat \ {0}
                              /\ result.ones = count_trailing_ones(input.count - 1)
                              /\ result.runs = runs_from_count(input.count)
  BY <1>1 DEF TraceInv
<1>3. CASE Draw
  BY <1>1, <1>3 DEF Draw
<1>4. CASE Compare
  BY <1>4 DEF Compare
<1>5. CASE TraceRow
  <2>1. /\ phase = "call" /\ phase' = "checked" /\ input' = input
        /\ result' = [ones |-> count_trailing_ones(input.count - 1), runs |-> runs_from_count(input.count)]
    BY <1>5 DEF TraceRow, Calling, Returns
  <2>2. input \in [count : 1 .. Rows]
    BY <1>2, <2>1 DEF Inputs
  <2>3. input.count \in Nat \ {0}
    BY <2>2, RowAssumption
  <2> QED BY <2>1, <2>3
<1>6. CASE UNCHANGED vars
  BY <1>2, <1>6 DEF vars
<1>7. ASSUME Next PROVE Draw \/ TraceRow \/ Compare
  BY <1>1, <1>7 DEF Next, Calling, ConvertFull, ConvertExperiment, Quarter,
       verify_unsigned_high_prod32, verify_unsigned_high_prod, verify_mul_u64_u32_shr, verify_size_mul_like,
       PackAndUnpack, Reject, Accept, Decode, LookUp, ConvertTernary, ExpandFraction, UpdateCrc,
       ChecksumData, NotPowerOfTwo, AddSample, EndOfRun
<1> QED BY <1>3, <1>4, <1>5, <1>6, <1>7

(* ch_sort_trace: for every count, the runs of a row are those of the row before,
   a run of one more, and as many merges of two equal runs as the row says. *)
THEOREM RowsFollow == Spec => []PendingRuns
<1>1. Init => TraceInv
  BY DEF Init, TraceInv
<1>2. TraceInv => PendingRuns
  <2> SUFFICES ASSUME TraceInv, Checked("sort_trace")
               PROVE  Merges(Append(runs_from_count(input.count - 1), 1), result.runs, result.ones)
    BY Zenon DEF PendingRuns, Merges
  <2>1. /\ input.count \in Nat \ {0} /\ result.ones = count_trailing_ones(input.count - 1)
        /\ result.runs = runs_from_count(input.count)
    BY DEF TraceInv, Checked
  <2>2. PICK m \in Nat : input.count - 1 = m /\ input.count = m + 1
    <3>1. input.count - 1 \in Nat /\ input.count = (input.count - 1) + 1
      BY <2>1
    <3> QED BY <3>1
  <2>3. Merges(Append(runs_from_count(m), 1), runs_from_count(m + 1), result.ones)
    BY <2>1, <2>2, RowFollows
  <2> QED BY <2>1, <2>2, <2>3
<1> QED BY <1>1, <1>2, TraceStep, PTL DEF Spec

----------------------------------------------------------------------------
(* Digits, as what they are the digits of.                                 *)

(* The totals NumberOf goes through. *)
NumberRule(h, base, digits) ==
  h = [k \in 0 .. Len(digits) |-> IF k = 0 THEN 0 ELSE base * h[k - 1] + digits[k]]

(* What NumberOf reads from them. *)
LEMMA NumberIs ==
  ASSUME NEW base, NEW digits
  PROVE  NumberOf(base, digits) = (CHOOSE h : NumberRule(h, base, digits))[Len(digits)]
BY Zenon DEF NumberOf, NumberRule

(* Totals that go up as NumberOf's do. *)
NumberSteps(z, base, digits, L) == z[0] = 0 /\ \A k \in 1 .. L : z[k] = base * z[k - 1] + digits[k]

(* They are NumberOf's. *)
LEMMA NumberFound ==
  ASSUME NEW base, NEW L \in Nat, NEW digits, Len(digits) = L, NEW z, NumberSteps(z, base, digits, L)
  PROVE  NumberOf(base, digits) = z[L]
<1> DEFINE h == [k \in 0 .. L |-> z[k]]
<1>0. z[0] = 0 /\ \A k \in 1 .. L : z[k] = base * z[k - 1] + digits[k]
  BY Zenon DEF NumberSteps
<1>1. \A k \in 0 .. L : h[k] = IF k = 0 THEN 0 ELSE base * h[k - 1] + digits[k]
  <2>1. ASSUME NEW k \in 0 .. L, k # 0 PROVE h[k] = base * h[k - 1] + digits[k]
    <3>1. k \in 1 .. L /\ k - 1 \in 0 .. L
      BY <2>1
    <3>2. h[k] = z[k] /\ h[k - 1] = z[k - 1] /\ z[k] = base * z[k - 1] + digits[k]
      BY <1>0, <3>1
    <3> QED BY <3>2, Zenon
  <2>2. h[0] = 0
    BY <1>0
  <2> HIDE DEF h
  <2> QED BY <2>1, <2>2, Zenon
<1>2. h = [k \in 0 .. L |-> h[k]]
  OBVIOUS
<1>z. h[L] = z[L]
  OBVIOUS
<1> HIDE DEF h
<1>3. h = [k \in 0 .. L |-> IF k = 0 THEN 0 ELSE base * h[k - 1] + digits[k]]
  BY <1>1, <1>2, Zenon
<1>4. NumberRule(h, base, digits)
  BY <1>3, Zenon DEF NumberRule
<1> DEFINE g == CHOOSE x : NumberRule(x, base, digits)
<1>5. NumberRule(g, base, digits)
  BY <1>4, Zenon
<1>6. NumberOf(base, digits) = g[L]
  BY NumberIs
<1> HIDE DEF g
<1>7. \A k \in 0 .. L : g[k] = IF k = 0 THEN 0 ELSE base * g[k - 1] + digits[k]
  BY <1>5, Zenon DEF NumberRule
<1> DEFINE T == {k \in 0 .. L : g[k] # h[k]}
<1>8. ASSUME T # {} PROVE FALSE
  <2>1. PICK k \in T : \A j \in T : k <= j
    <3>1. T \in SUBSET Nat
      OBVIOUS
    <3> HIDE DEF T
    <3> QED BY <1>8, <3>1, LeastNumber
  <2>2. k # 0
    BY <1>1, <1>7, <2>1
  <2>3. k - 1 \in 0 .. L /\ ~(k <= k - 1)
    BY <2>1, <2>2
  <2>4. g[k - 1] = h[k - 1]
    BY <2>1, <2>3
  <2>5. g[k] = base * g[k - 1] + digits[k] /\ h[k] = base * h[k - 1] + digits[k]
    BY <1>1, <1>7, <2>1, <2>2, Zenon
  <2>6. g[k] = h[k]
    BY <2>4, <2>5, Zenon
  <2> QED BY <2>1, <2>6
<1>9. g[L] = h[L]
  BY <1>8
<1> QED BY <1>6, <1>9, <1>z

----------------------------------------------------------------------------
(* bitpack_lab.                                                            *)

(* No two bits have one place. *)
LEMMA PlacesDiffer ==
  ASSUME NEW a \in Nat, NEW b \in Nat, PlaceOf(a) = PlaceOf(b)
  PROVE  a = b
<1>1. a \div 8 = b \div 8 /\ a % 8 = b % 8
  BY DEF PlaceOf
<1> QED BY <1>1

(* Bit j of the i-th field of a width, and no other field, is bit (i - 1) * bits + j. *)
LEMMA FieldsDiffer ==
  ASSUME NEW bits \in Nat \ {0}, NEW i \in Nat \ {0}, NEW j \in 0 .. bits - 1,
         NEW m \in Nat \ {0}, NEW k \in 0 .. bits - 1, (i - 1) * bits + j = (m - 1) * bits + k
  PROVE  i = m /\ j = k
<1> DEFINE a == bits * (i - 1) + j
<1>1. a \in Int /\ a = bits * (i - 1) + j /\ a = bits * (m - 1) + k /\ i - 1 \in Int /\ m - 1 \in Int
  <2>1. bits * (i - 1) = (i - 1) * bits /\ bits * (m - 1) = (m - 1) * bits
    BY Z3
  <2>2. bits * (i - 1) \in Int /\ bits * (m - 1) \in Int
    BY Z3
  <2> QED BY <2>1, <2>2
<1> HIDE DEF a
<1>2. a \div bits = i - 1 /\ a % bits = j
  BY <1>1, QuotientIs
<1>3. a \div bits = m - 1 /\ a % bits = k
  BY <1>1, QuotientIs
<1> QED BY <1>2, <1>3

(* Where a field's bit is, as the packing and the unpacking have it. *)
LEMMA FieldPlace ==
  ASSUME NEW bits \in Nat \ {0}, NEW n \in Nat, NEW i \in 1 .. n, NEW j \in 0 .. bits - 1
  PROVE  /\ (i - 1) * bits + j \in Nat
         /\ ((i - 1) * bits + j) \div 8 \in Nat
         /\ ((i - 1) * bits + j) \div 8 < (n * bits + 7) \div 8
<1>1. (i - 1) * bits \in Nat /\ n * bits \in Nat
  <2>1. i - 1 \in Nat
    OBVIOUS
  <2> QED BY <2>1, Z3
<1>2. (i - 1) * bits + bits <= n * bits
  <2>1. bits * (i - 1) + bits <= bits * n
    BY Multiples
  <2>2. bits * (i - 1) = (i - 1) * bits /\ bits * n = n * bits
    BY Z3
  <2> QED BY <2>1, <2>2
<1>3. PICK p \in Nat : p = (i - 1) * bits
  BY <1>1
<1>4. PICK q \in Nat : q = n * bits
  BY <1>1
<1>5. p + bits <= q
  BY <1>2, <1>3, <1>4
<1>6. p + j \in Nat /\ (p + j) \div 8 \in Nat /\ (p + j) \div 8 < (q + 7) \div 8
  BY <1>5
<1> QED BY <1>3, <1>4, <1>6

(* The number packed in field i. *)
Field(idx, bits, i) == idx[i] % Pow(2, bits)

(* pack_indices sets the bits of the fields, and no other. *)
PackedBits(packed, idx, bits, n) ==
  /\ \A i \in 1 .. n, k \in 0 .. bits - 1 :
       PlaceOf((i - 1) * bits + k) \in packed <=> Odd(Field(idx, bits, i), k)
  /\ \A place \in packed : place[1] < (n * bits + 7) \div 8

(* It does. *)
LEMMA PackedIs ==
  ASSUME NEW n \in Nat, NEW idx \in [1 .. n -> Nat], NEW bits \in Nat \ {0}
  PROVE  PackedBits(pack_indices(idx, bits), idx, bits, n)
<1> DEFINE packed == pack_indices(idx, bits)
<1>1. DOMAIN idx = 1 .. n
  OBVIOUS
<1>2. low_mask(bits) + 1 = Pow(2, bits)
  BY TwoPow DEF low_mask
<1>3. \A p : p \in packed <=>
        \E i \in 1 .. n : \E j \in 0 .. bits - 1 : p = PlaceOf((i - 1) * bits + j) /\ Odd(Field(idx, bits, i), j)
  <2>1. packed = UNION {{PlaceOf((i - 1) * bits + j) : j \in {k \in 0 .. bits - 1 : BitOf(idx[i] % Pow(2, bits), k) = 1}} :
                          i \in 1 .. n}
    BY <1>1, <1>2 DEF pack_indices
  <2>2. \A i \in 1 .. n, k \in 0 .. bits - 1 :
          BitOf(idx[i] % Pow(2, bits), k) = 1 <=> Odd(Field(idx, bits, i), k)
    BY DEF BitOf, Odd, Field
  <2> HIDE DEF packed
  <2>3. ASSUME NEW p \in packed
        PROVE  \E i \in 1 .. n : \E j \in 0 .. bits - 1 : p = PlaceOf((i - 1) * bits + j) /\ Odd(Field(idx, bits, i), j)
    <3>1. PICK i \in 1 .. n : p \in {PlaceOf((i - 1) * bits + j) :
                                    j \in {k \in 0 .. bits - 1 : BitOf(idx[i] % Pow(2, bits), k) = 1}}
      BY <2>1
    <3>2. PICK j \in {k \in 0 .. bits - 1 : BitOf(idx[i] % Pow(2, bits), k) = 1} : p = PlaceOf((i - 1) * bits + j)
      BY <3>1
    <3>3. j \in 0 .. bits - 1 /\ Odd(Field(idx, bits, i), j)
      BY <2>2, <3>2
    <3> QED BY <3>2, <3>3
  <2>4. ASSUME NEW i \in 1 .. n, NEW j \in 0 .. bits - 1, Odd(Field(idx, bits, i), j)
        PROVE  PlaceOf((i - 1) * bits + j) \in packed
    <3>1. j \in {k \in 0 .. bits - 1 : BitOf(idx[i] % Pow(2, bits), k) = 1}
      BY <2>2, <2>4
    <3>2. PlaceOf((i - 1) * bits + j) \in {PlaceOf((i - 1) * bits + l) :
                                    l \in {k \in 0 .. bits - 1 : BitOf(idx[i] % Pow(2, bits), k) = 1}}
      BY <3>1
    <3> QED BY <2>1, <3>2
  <2> QED BY <2>3, <2>4, Zenon
<1> HIDE DEF packed
<1>4. ASSUME NEW i \in 1 .. n, NEW k \in 0 .. bits - 1, PlaceOf((i - 1) * bits + k) \in packed
      PROVE  Odd(Field(idx, bits, i), k)
  <2>1. PICK m \in 1 .. n, j \in 0 .. bits - 1 :
          PlaceOf((i - 1) * bits + k) = PlaceOf((m - 1) * bits + j) /\ Odd(Field(idx, bits, m), j)
    BY <1>3, <1>4, Zenon
  <2>2. (i - 1) * bits + k \in Nat /\ (m - 1) * bits + j \in Nat
    BY FieldPlace
  <2>3. (i - 1) * bits + k = (m - 1) * bits + j
    BY <2>1, <2>2, PlacesDiffer
  <2>4. i \in Nat \ {0} /\ m \in Nat \ {0}
    OBVIOUS
  <2>5. i = m /\ k = j
    BY <2>3, <2>4, FieldsDiffer
  <2> QED BY <2>1, <2>5
<1>5. ASSUME NEW i \in 1 .. n, NEW k \in 0 .. bits - 1, Odd(Field(idx, bits, i), k)
      PROVE  PlaceOf((i - 1) * bits + k) \in packed
  BY <1>3, <1>5, Zenon
<1>6. ASSUME NEW place \in packed PROVE place[1] < (n * bits + 7) \div 8
  <2>1. PICK i \in 1 .. n, j \in 0 .. bits - 1 : place = PlaceOf((i - 1) * bits + j)
    BY <1>3, <1>6, Zenon
  <2>2. place[1] = ((i - 1) * bits + j) \div 8
    BY <2>1 DEF PlaceOf
  <2> QED BY <2>2, FieldPlace
<1>7. PackedBits(packed, idx, bits, n)
  BY <1>4, <1>5, <1>6, Zenon DEF PackedBits
<1> QED BY <1>7 DEF packed

(* The values the inner loop of unpack_indices goes through. *)
UnpackRule(h, packed, bp, bits) ==
  h = [j \in 0 .. bits |->
        IF j = 0 THEN 0
        ELSE h[j - 1] + (IF PlaceOf(bp + j - 1) \in packed THEN Pow(2, j - 1) ELSE 0)]

(* What it returns. *)
LEMMA UnpackedIs ==
  ASSUME NEW packed, NEW bp, NEW bits
  PROVE  Unpacked(packed, bp, bits) = (CHOOSE h : UnpackRule(h, packed, bp, bits))[bits]
BY Zenon DEF Unpacked, UnpackRule

(* The low digits of a number, one more at a time. *)
LEMMA LowDigits ==
  ASSUME NEW v \in Nat, NEW k \in Nat
  PROVE  v % Pow(2, k + 1) = (v % Pow(2, k)) + (IF Odd(v, k) THEN Pow(2, k) ELSE 0)
<1>1. PICK p \in Nat \ {0} : p = Pow(2, k)
  BY TwoPow
<1>2. Pow(2, k + 1) = 2 * p
  BY <1>1, TwoPow
<1>3. PICK d \in Nat : d = v \div p
  BY <1>1, QuotientNat
<1>4. v = p * d + (v % p) /\ v % p \in 0 .. p - 1
  <2>1. v \in Int
    OBVIOUS
  <2>2. v = p * (v \div p) + (v % p) /\ v % p \in 0 .. p - 1
    BY <2>1, Division
  <2> QED BY <1>3, <2>2
<1>5. PICK e \in 0 .. p - 1 : e = v % p
  BY <1>4
<1>6. PICK h \in Nat : d = 2 * h + (d % 2) /\ (d % 2 = 0 \/ d % 2 = 1)
  <2>1. d \div 2 \in Nat /\ d = 2 * (d \div 2) + (d % 2) /\ (d % 2 = 0 \/ d % 2 = 1)
    OBVIOUS
  <2> QED BY <2>1
<1>7. Odd(v, k) <=> d % 2 = 1
  BY <1>1, <1>3 DEF Odd
<1>8. CASE d % 2 = 0
  <2>1. v = (2 * p) * h + e
    <3>1. d = 2 * h
      BY <1>6, <1>8
    <3>2. p * d = (2 * p) * h
      BY <3>1, Z3
    <3> QED BY <1>4, <1>5, <3>2
  <2>2. 2 * p \in Nat \ {0} /\ e \in 0 .. 2 * p - 1 /\ h \in Int
    OBVIOUS
  <2>3. v % (2 * p) = e
    BY <2>1, <2>2, QuotientIs
  <2>4. ~Odd(v, k)
    BY <1>7, <1>8
  <2> QED BY <1>1, <1>2, <1>5, <2>3, <2>4
<1>9. CASE d % 2 = 1
  <2>1. v = (2 * p) * h + (e + p)
    <3>1. d = 2 * h + 1
      BY <1>6, <1>9
    <3>2. p * d = (2 * p) * h + p
      BY <3>1, Z3
    <3>3. (2 * p) * h \in Nat
      BY Z3
    <3> QED BY <1>4, <1>5, <3>2, <3>3
  <2>2. 2 * p \in Nat \ {0} /\ e + p \in 0 .. 2 * p - 1 /\ h \in Int
    OBVIOUS
  <2>3. v % (2 * p) = e + p
    BY <2>1, <2>2, QuotientIs
  <2>4. Odd(v, k)
    BY <1>7, <1>9
  <2> QED BY <1>1, <1>2, <1>5, <2>3, <2>4
<1> QED BY <1>6, <1>8, <1>9

(* Where the bits of a number are in the array, from bp on, they are read back. *)
LEMMA UnpackedFinds ==
  ASSUME NEW packed, NEW bp \in Nat, NEW bits \in Nat, NEW v \in Nat, v < Pow(2, bits),
         \A k \in 0 .. bits - 1 : PlaceOf(bp + k) \in packed <=> Odd(v, k)
  PROVE  Unpacked(packed, bp, bits) = v
<1> DEFINE Step(x, j) == x + (IF PlaceOf(bp + j - 1) \in packed THEN Pow(2, j - 1) ELSE 0)
           h == [k \in 0 .. bits |-> v % Pow(2, k)]
<1>1. h[0] = 0
  <2>1. Pow(2, 0) = 1
    BY TwoPow
  <2> QED BY <2>1
<1>2. ASSUME NEW k \in 1 .. bits PROVE h[k] = Step(h[k - 1], k)
  <2>1. PICK j \in Nat : k = j + 1 /\ j = k - 1 /\ j \in 0 .. bits - 1
    <3>1. k - 1 \in Nat /\ k = (k - 1) + 1 /\ k - 1 \in 0 .. bits - 1
      OBVIOUS
    <3> QED BY <3>1
  <2>2. h[k] = v % Pow(2, j + 1) /\ h[k - 1] = v % Pow(2, j)
    BY <2>1
  <2>3. bp + k - 1 = bp + j
    BY <2>1
  <2>4. v % Pow(2, j + 1) = (v % Pow(2, j)) + (IF Odd(v, j) THEN Pow(2, j) ELSE 0)
    BY LowDigits
  <2>5. PlaceOf(bp + k - 1) \in packed <=> Odd(v, j)
    BY <2>1, <2>3
  <2> HIDE DEF h
  <2> QED BY <2>1, <2>2, <2>4, <2>5
<1>3. h[bits] = v
  <2>1. PICK p \in Nat \ {0} : p = Pow(2, bits)
    BY TwoPow
  <2>2. v = p * 0 + v /\ v \in 0 .. p - 1 /\ 0 \in Int
    BY <2>1
  <2>3. v % p = v
    BY <2>2, QuotientIs
  <2> QED BY <2>1, <2>3
<1>4. h = [k \in 0 .. bits |-> h[k]]
  OBVIOUS
<1> HIDE DEF h
<1>5. \A k \in 0 .. bits : h[k] = IF k = 0 THEN 0 ELSE Step(h[k - 1], k)
  <2>1. \A k \in 0 .. bits : k # 0 => k \in 1 .. bits
    OBVIOUS
  <2> HIDE DEF Step
  <2> QED BY <1>1, <1>2, <2>1, Zenon
<1>6. h = [k \in 0 .. bits |-> IF k = 0 THEN 0 ELSE Step(h[k - 1], k)]
  BY <1>4, <1>5, Zenon
<1>7. UnpackRule(h, packed, bp, bits)
  BY <1>6, Zenon DEF UnpackRule
<1> DEFINE g == CHOOSE x : UnpackRule(x, packed, bp, bits)
<1>8. UnpackRule(g, packed, bp, bits)
  BY <1>7, Zenon
<1>9. Unpacked(packed, bp, bits) = g[bits]
  BY UnpackedIs
<1> HIDE DEF g
<1>10. \A k \in 0 .. bits : g[k] = IF k = 0 THEN 0 ELSE Step(g[k - 1], k)
  BY <1>8, Zenon DEF UnpackRule
<1> HIDE DEF Step
<1> DEFINE T == {k \in 0 .. bits : g[k] # h[k]}
<1>11. ASSUME T # {} PROVE FALSE
  <2>1. PICK k \in T : \A j \in T : k <= j
    <3>1. T \in SUBSET Nat
      OBVIOUS
    <3> HIDE DEF T
    <3> QED BY <1>11, <3>1, LeastNumber
  <2>2. k # 0
    BY <1>5, <1>10, <2>1
  <2>3. k - 1 \in 0 .. bits /\ ~(k <= k - 1)
    BY <2>1, <2>2
  <2>4. g[k - 1] = h[k - 1]
    BY <2>1, <2>3
  <2>5. g[k] = Step(g[k - 1], k) /\ h[k] = Step(h[k - 1], k)
    BY <1>5, <1>10, <2>1, <2>2
  <2> QED BY <2>1, <2>4, <2>5
<1>12. g[bits] = h[bits]
  BY <1>11
<1> QED BY <1>3, <1>9, <1>12

(* What NumbersRestored says of bitpack_lab: every field comes back, and the
   bytes are enough. *)
LEMMA PackedComesBack ==
  ASSUME NEW n \in Nat, NEW idx \in [1 .. n -> Nat], NEW bits \in Nat \ {0},
         NEW packed, packed = pack_indices(idx, bits)
  PROVE  /\ unpack_indices(packed, n, bits) = [i \in 1 .. n |-> idx[i] % (low_mask(bits) + 1)]
         /\ \A place \in packed : place[1] < bytes_for(n, bits)
<1>1. PackedBits(packed, idx, bits, n)
  BY PackedIs
<1>2. low_mask(bits) + 1 = Pow(2, bits)
  BY TwoPow DEF low_mask
<1>3. ASSUME NEW i \in 1 .. n PROVE Unpacked(packed, (i - 1) * bits, bits) = idx[i] % Pow(2, bits)
  <2>1. PICK v \in Nat : v = Field(idx, bits, i) /\ v < Pow(2, bits)
    <3>1. PICK p \in Nat \ {0} : p = Pow(2, bits)
      BY TwoPow
    <3>2. PICK x \in Int : x = idx[i]
      OBVIOUS
    <3>3. x % p \in 0 .. p - 1
      BY Division
    <3>4. idx[i] % p \in Nat /\ idx[i] % p < p
      BY <3>2, <3>3
    <3> QED BY <3>1, <3>4 DEF Field
  <2>2. PICK bp \in Nat : bp = (i - 1) * bits
    <3>1. i - 1 \in Nat
      OBVIOUS
    <3>2. (i - 1) * bits \in Nat
      BY <3>1, Z3
    <3> QED BY <3>2
  <2>3. \A k \in 0 .. bits - 1 : PlaceOf(bp + k) \in packed <=> Odd(v, k)
    BY <1>1, <2>1, <2>2, Zenon DEF PackedBits
  <2>4. Unpacked(packed, bp, bits) = v
    BY <2>1, <2>3, UnpackedFinds
  <2> QED BY <2>1, <2>2, <2>4 DEF Field
<1>4. unpack_indices(packed, n, bits) = [i \in 1 .. n |-> idx[i] % Pow(2, bits)]
  BY <1>3 DEF unpack_indices
<1>5. \A place \in packed : place[1] < bytes_for(n, bits)
  BY <1>1 DEF PackedBits, bytes_for
<1> QED BY <1>2, <1>4, <1>5

----------------------------------------------------------------------------
(* balanced_ternary.py.                                                    *)

(* One round of balanced ternary: the digit is what the round leaves out, and
   the number that is left is nearer to 0. *)
LEMMA CarriedIs ==
  ASSUME NEW n \in Int
  PROVE  /\ Carried(n) \in Int /\ Digit(n) \in {-1, 0, 1} /\ n = 3 * Carried(n) + Digit(n)
         /\ n = 0 => Carried(n) = 0
         /\ \A m \in Nat : -m - 1 <= n /\ n <= m + 1 => -m <= Carried(n) /\ Carried(n) <= m
<1>1. PICK q \in Int, r \in 0 .. 2 : n = 3 * q + r /\ q = n \div 3 /\ r = n % 3
  OBVIOUS
<1>2. CASE r = 2
  <2>1. Carried(n) = q + 1 /\ Digit(n) = -1
    BY <1>1, <1>2 DEF Carried, Digit
  <2> QED BY <1>1, <1>2, <2>1
<1>3. CASE r # 2
  <2>1. Carried(n) = q /\ Digit(n) = r
    BY <1>1, <1>3 DEF Carried, Digit
  <2> QED BY <1>1, <1>3, <2>1
<1> QED BY <1>2, <1>3

(* What the loop goes through. *)
QuotientRule(n, value) ==
  n = [k \in 0 .. Rounds(value) |-> IF k = 0 THEN value ELSE Carried(n[k - 1])]

(* What Quotients is. *)
LEMMA QuotientsAre ==
  ASSUME NEW value
  PROVE  Quotients(value) = (CHOOSE n : QuotientRule(n, value))
BY Zenon DEF Quotients, QuotientRule

(* How far from 0 a number is. *)
Farness(v) == IF v < 0 THEN -v ELSE v

(* Rounds: every one carries, and one for each unit is enough to reach 0. *)
RoundsOf(n, value) ==
  /\ DOMAIN n = 0 .. Rounds(value) /\ n[0] = value
  /\ \A k \in 0 .. Rounds(value) : n[k] \in Int
  /\ \A k \in 1 .. Rounds(value) : n[k - 1] = 3 * n[k] + Digit(n[k - 1])
  /\ \A k \in 1 .. Rounds(value) : n[k - 1] = 0 => n[k] = 0
  /\ n[Farness(value)] = 0

(* They are as that says. *)
LEMMA QuotientsGo ==
  ASSUME NEW value \in Int
  PROVE  RoundsOf(Quotients(value), value)
<1> DEFINE F == [p \in Nat \X Int |-> Carried(p[2])]
<1>1. PICK R \in Nat : R = Rounds(value) /\ Farness(value) = R - 1 /\ R >= 1
  <2>1. Rounds(value) \in Nat /\ Farness(value) = Rounds(value) - 1 /\ Rounds(value) >= 1
    BY DEF Rounds, Farness
  <2> QED BY <2>1
<1>2. F \in [Nat \X Int -> Int]
  BY CarriedIs
<1>3. \A k \in Nat, x \in Int : F[<<k, x>>] = Carried(x)
  OBVIOUS
<1> HIDE DEF F
<1>4. PICK h \in [0 .. R -> Int] : LoopRule(h, F, value, R)
  BY <1>2, LoopThere
<1>5. h[0] = value /\ \A k \in 1 .. R : h[k] = Carried(h[k - 1])
  <2>1. h[0] = value /\ \A k \in 1 .. R : h[k] = F[<<k, h[k - 1]>>]
    BY <1>4 DEF LoopRule
  <2>2. \A k \in 1 .. R : k \in Nat /\ h[k - 1] \in Int
    OBVIOUS
  <2> QED BY <1>3, <2>1, <2>2
<1>6. \A k \in 0 .. R : h[k] = IF k = 0 THEN value ELSE Carried(h[k - 1])
  BY <1>5
<1>7. h = [k \in 0 .. R |-> IF k = 0 THEN value ELSE Carried(h[k - 1])]
  <2>1. h = [k \in 0 .. R |-> h[k]]
    OBVIOUS
  <2> QED BY <1>6, <2>1, Zenon
<1>8. QuotientRule(h, value)
  BY <1>1, <1>7, Zenon DEF QuotientRule
<1> DEFINE n == CHOOSE x : QuotientRule(x, value)
<1>9. QuotientRule(n, value)
  BY <1>8, Zenon
<1>10. Quotients(value) = n
  BY QuotientsAre
<1> HIDE DEF n
<1>11. DOMAIN n = 0 .. R /\ \A k \in 0 .. R : n[k] = IF k = 0 THEN value ELSE Carried(n[k - 1])
  BY <1>1, <1>9, Zenon DEF QuotientRule
<1>12. \A k \in 0 .. R : n[k] \in Int
  <2> DEFINE T == {k \in 0 .. R : n[k] \notin Int}
  <2>1. ASSUME T # {} PROVE FALSE
    <3>1. PICK k \in T : \A j \in T : k <= j
      <4>1. T \in SUBSET Nat
        OBVIOUS
      <4> HIDE DEF T
      <4> QED BY <2>1, <4>1, LeastNumber
    <3>2. k # 0
      BY <1>11, <3>1
    <3>3. k - 1 \in 0 .. R /\ ~(k <= k - 1)
      BY <3>1, <3>2
    <3>4. n[k - 1] \in Int /\ n[k] = Carried(n[k - 1])
      BY <1>11, <3>1, <3>2, <3>3
    <3> QED BY <3>1, <3>4, CarriedIs
  <2> QED BY <2>1
<1>13. ASSUME NEW k \in 1 .. R
       PROVE  /\ n[k - 1] = 3 * n[k] + Digit(n[k - 1])
              /\ n[k - 1] = 0 => n[k] = 0
              /\ \A m \in Nat : -m - 1 <= n[k - 1] /\ n[k - 1] <= m + 1 => -m <= n[k] /\ n[k] <= m
  <2>1. k - 1 \in 0 .. R /\ k \in 0 .. R /\ k # 0
    OBVIOUS
  <2>2. n[k - 1] \in Int /\ n[k] = Carried(n[k - 1])
    BY <1>11, <1>12, <2>1
  <2> QED BY <2>2, CarriedIs
<1>14. n[R - 1] = 0
  <2> DEFINE T == {k \in 0 .. R - 1 : ~(-(R - 1 - k) <= n[k] /\ n[k] <= R - 1 - k)}
  <2>1. ASSUME T # {} PROVE FALSE
    <3>1. PICK k \in T : \A j \in T : k <= j
      <4>1. T \in SUBSET Nat
        OBVIOUS
      <4> HIDE DEF T
      <4> QED BY <2>1, <4>1, LeastNumber
    <3>2. n[0] = value
      BY <1>1, <1>11
    <3>3. k # 0
      BY <1>1, <3>1, <3>2 DEF Farness
    <3>4. k - 1 \in 0 .. R - 1 /\ ~(k <= k - 1) /\ k \in 1 .. R /\ R - 1 - k \in Nat
      BY <1>1, <3>1, <3>3
    <3>5. -(R - 1 - (k - 1)) <= n[k - 1] /\ n[k - 1] <= R - 1 - (k - 1)
      BY <3>1, <3>4
    <3>6. PICK m \in Nat : m = R - 1 - k
      BY <3>4
    <3>7. n[k - 1] \in Int /\ n[k] \in Int
      BY <1>12, <3>4
    <3>8. -m - 1 <= n[k - 1] /\ n[k - 1] <= m + 1
      BY <3>4, <3>5, <3>6, <3>7
    <3>9. -m <= n[k] /\ n[k] <= m
      BY <1>13, <3>4, <3>8
    <3> QED BY <3>1, <3>6, <3>9
  <2>2. R - 1 \in 0 .. R - 1 /\ R - 1 \in 0 .. R
    BY <1>1
  <2>3. -(R - 1 - (R - 1)) <= n[R - 1] /\ n[R - 1] <= R - 1 - (R - 1)
    BY <2>1, <2>2
  <2>4. n[R - 1] \in Int
    BY <1>12, <2>2
  <2> QED BY <2>3, <2>4
<1>15. RoundsOf(n, value)
  <2>1. n[0] = value
    BY <1>1, <1>11
  <2>2. \A k \in 1 .. R : n[k - 1] = 3 * n[k] + Digit(n[k - 1])
    BY <1>13
  <2>3. \A k \in 1 .. R : n[k - 1] = 0 => n[k] = 0
    BY <1>13
  <2>4. Farness(value) = R - 1
    BY <1>1
  <2> QED BY <1>1, <1>11, <1>12, <1>14, <2>1, <2>2, <2>3, <2>4, Zenon DEF RoundsOf
<1> QED BY <1>10, <1>15

(* The trace's last round is the first that reaches 0. *)
TraceOf(trace, n, r, value) ==
  /\ r \in Nat \ {0} /\ r <= Rounds(value)
  /\ trace = [k \in 1 .. r |-> [value |-> n[k - 1], quotient |-> n[k], digit |-> Digit(n[k - 1])]]
  /\ n[r] = 0 /\ (value # 0 => n[r - 1] # 0)

(* It is. *)
LEMMA TraceIs ==
  ASSUME NEW value \in Int, NEW n, n = Quotients(value)
  PROVE  \E r \in Nat \ {0} : TraceOf(trace_conversion(value), n, r, value)
<1>1. RoundsOf(n, value)
  BY QuotientsGo
<1>2. PICK R \in Nat : R = Rounds(value) /\ Farness(value) = R - 1 /\ R >= 1
  <2>1. Rounds(value) \in Nat /\ Farness(value) = Rounds(value) - 1 /\ Rounds(value) >= 1
    BY DEF Rounds, Farness
  <2> QED BY <2>1
<1>3. /\ DOMAIN n = 0 .. R /\ n[0] = value /\ n[R - 1] = 0
      /\ \A k \in 1 .. R : n[k - 1] = 0 => n[k] = 0
  BY <1>1, <1>2, Zenon DEF RoundsOf
<1> DEFINE S == {k \in DOMAIN n : n[k] = 0} \cup {Rounds(value)}
           r == IF value = 0 THEN 1 ELSE Min(S)
<1>4. S \in SUBSET Nat /\ R - 1 \in S /\ \A k \in S : k = R \/ (k \in 0 .. R /\ n[k] = 0)
  BY <1>2, <1>3
<1>5. trace_conversion(value) = [k \in 1 .. r |-> [value |-> n[k - 1], quotient |-> n[k], digit |-> Digit(n[k - 1])]]
  BY Zenon DEF trace_conversion
<1>6. Min(S) \in S /\ \A k \in S : Min(S) <= k
  <2> HIDE DEF S
  <2> QED BY <1>4, LeastIs
<1>7. Min(S) \in 0 .. R - 1 /\ n[Min(S)] = 0 /\ \A k \in 0 .. R : n[k] = 0 => Min(S) <= k
  <2>1. Min(S) <= R - 1
    BY <1>4, <1>6
  <2>2. \A k \in 0 .. R : n[k] = 0 => k \in S
    BY <1>3
  <2>3. Min(S) \in Nat
    BY <1>4, <1>6
  <2> QED BY <1>4, <1>6, <2>1, <2>2, <2>3
<1> HIDE DEF S
<1>8. CASE value = 0
  <2>1. r = 1 /\ n[1] = 0
    <3>1. 1 \in 1 .. R
      BY <1>2
    <3> QED BY <1>3, <1>8, <3>1
  <2>2. r \in Nat \ {0} /\ r <= R /\ n[r] = 0
    BY <1>2, <2>1
  <2> QED BY <1>2, <1>5, <1>8, <2>2, Zenon DEF TraceOf
<1>9. CASE value # 0
  <2>1. r = Min(S)
    BY <1>9
  <2>2. Min(S) # 0
    BY <1>3, <1>7, <1>9
  <2>3. PICK m \in Nat \ {0} : m = Min(S) /\ m - 1 \in 0 .. R /\ ~(m <= m - 1) /\ m <= R
    BY <1>7, <2>2
  <2>4. n[m - 1] # 0 /\ n[m] = 0
    BY <1>7, <2>3
  <2>5. r = m
    BY <2>1, <2>3
  <2> QED BY <1>2, <1>5, <2>3, <2>4, <2>5, Zenon DEF TraceOf
<1> QED BY <1>8, <1>9

(* What NumbersRestored says of balanced ternary: it converts back, as its
   negation does, it begins with no zero and its trace ends at 0. *)
LEMMA TernaryComesBack ==
  ASSUME NEW value \in Int, NEW text, text = to_balanced_ternary(value),
         NEW trace, trace = trace_conversion(value)
  PROVE  /\ from_balanced_ternary(text) = value
         /\ from_balanced_ternary(negate_text(text)) = -value
         /\ value # 0 => Head(text) # 0
         /\ Last(trace).quotient = 0
<1> DEFINE n == Quotients(value)
<1>1. RoundsOf(n, value)
  BY QuotientsGo
<1>2. PICK r \in Nat \ {0} : TraceOf(trace, n, r, value)
  BY TraceIs
<1> HIDE DEF n
<1>3. PICK R \in Nat : R = Rounds(value) /\ r <= R
  <2>1. Rounds(value) \in Nat
    BY DEF Rounds
  <2> QED BY <1>2, <2>1 DEF TraceOf
<1>4. /\ trace = [k \in 1 .. r |-> [value |-> n[k - 1], quotient |-> n[k], digit |-> Digit(n[k - 1])]]
      /\ n[r] = 0 /\ (value # 0 => n[r - 1] # 0)
  BY <1>2 DEF TraceOf
<1>5. /\ n[0] = value /\ \A k \in 0 .. R : n[k] \in Int
      /\ \A k \in 1 .. R : n[k - 1] = 3 * n[k] + Digit(n[k - 1])
  BY <1>1, <1>3, Zenon DEF RoundsOf
<1>6. text = [i \in 1 .. r |-> Digit(n[r - i])]
  <2>1. text = Reverse([k \in DOMAIN trace |-> trace[k].digit])
    BY DEF to_balanced_ternary
  <2>2. [k \in DOMAIN trace |-> trace[k].digit] = [k \in 1 .. r |-> Digit(n[k - 1])]
    BY <1>4
  <2> DEFINE s == [k \in 1 .. r |-> Digit(n[k - 1])]
  <2>3. Len(s) = r
    OBVIOUS
  <2>4. Reverse(s) = [i \in 1 .. r |-> s[(r - i) + 1]]
    <3> HIDE DEF s
    <3> QED BY <2>3 DEF Reverse
  <2>5. \A i \in 1 .. r : s[(r - i) + 1] = Digit(n[r - i])
    <3>1. \A i \in 1 .. r : (r - i) + 1 \in 1 .. r /\ ((r - i) + 1) - 1 = r - i
      OBVIOUS
    <3> QED BY <3>1
  <2> HIDE DEF s
  <2>6. [i \in 1 .. r |-> s[(r - i) + 1]] = [i \in 1 .. r |-> Digit(n[r - i])]
    BY <2>5
  <2> QED BY <2>1, <2>2, <2>4, <2>6 DEF s
<1>7. Len(text) = r /\ \A i \in 1 .. r : text[i] = Digit(n[r - i])
  BY <1>6
<1>8. \A k \in 1 .. r : n[r - k] = 3 * n[r - (k - 1)] + text[k] /\ n[r - k] \in Int /\ n[r - (k - 1)] \in Int
                        /\ text[k] \in Int
  <2> TAKE k \in 1 .. r
  <2>1. PICK m \in 1 .. R : m = r - (k - 1) /\ m - 1 = r - k /\ m - 1 \in 0 .. R /\ m \in 0 .. R
    <3>1. r - (k - 1) \in 1 .. R /\ (r - (k - 1)) - 1 = r - k
      BY <1>3
    <3> QED BY <3>1
  <2>2. n[m - 1] = 3 * n[m] + Digit(n[m - 1]) /\ n[m - 1] \in Int /\ n[m] \in Int
    BY <1>5, <2>1
  <2>3. text[k] = Digit(n[m - 1]) /\ Digit(n[m - 1]) \in Int
    <3>1. Digit(n[m - 1]) \in {-1, 0, 1}
      BY <2>2, CarriedIs
    <3>2. text[k] = Digit(n[m - 1])
      BY <1>7, <2>1
    <3> QED BY <3>1, <3>2
  <2> QED BY <2>1, <2>2, <2>3
<1>9. from_balanced_ternary(text) = value
  <2> DEFINE z == [k \in 0 .. r |-> n[r - k]]
  <2>1. z[0] = 0 /\ z[r] = value
    BY <1>4, <1>5
  <2>2. \A k \in 1 .. r : z[k] = 3 * z[k - 1] + text[k]
    <3>1. \A k \in 1 .. r : z[k] = n[r - k] /\ z[k - 1] = n[r - (k - 1)]
      OBVIOUS
    <3> HIDE DEF z
    <3> QED BY <1>8, <3>1
  <2> HIDE DEF z
  <2>3. NumberSteps(z, 3, text, r)
    BY <2>1, <2>2, Zenon DEF NumberSteps
  <2>4. NumberOf(3, text) = z[r]
    BY <1>7, <2>3, NumberFound
  <2> QED BY <2>1, <2>4 DEF from_balanced_ternary
<1>10. from_balanced_ternary(negate_text(text)) = -value
  <2> DEFINE z == [k \in 0 .. r |-> -n[r - k]]
             t == negate_text(text)
  <2>1. z[0] = 0 /\ z[r] = -value
    BY <1>4, <1>5
  <2>2. Len(t) = r /\ \A i \in 1 .. r : t[i] = -text[i]
    BY <1>6 DEF negate_text
  <2>3. \A k \in 1 .. r : z[k] = 3 * z[k - 1] + t[k]
    <3>1. \A k \in 1 .. r : z[k] = -n[r - k] /\ z[k - 1] = -n[r - (k - 1)]
      OBVIOUS
    <3> HIDE DEF z, t
    <3>2. ASSUME NEW k \in 1 .. r PROVE z[k] = 3 * z[k - 1] + t[k]
      <4>1. PICK a \in Int, b \in Int, d \in Int : a = n[r - k] /\ b = n[r - (k - 1)] /\ d = text[k] /\ a = 3 * b + d
        BY <1>8
      <4>2. -a = 3 * (-b) + (-d)
        BY <4>1
      <4> QED BY <2>2, <3>1, <4>1, <4>2
    <3> QED BY <3>2
  <2> HIDE DEF z, t
  <2>4. NumberSteps(z, 3, t, r)
    BY <2>1, <2>3, Zenon DEF NumberSteps
  <2>5. NumberOf(3, t) = z[r]
    BY <2>2, <2>4, NumberFound
  <2> QED BY <2>1, <2>5 DEF from_balanced_ternary, t
<1>11. value # 0 => Head(text) # 0
  <2>1. Head(text) = text[1]
    BY <1>6
  <2>2. 1 \in 1 .. r /\ r - (1 - 1) = r
    OBVIOUS
  <2>3. n[r - 1] = 3 * n[r] + text[1] /\ text[1] \in Int
    BY <1>8, <2>2, Zenon
  <2>4. n[r - 1] = text[1]
    BY <1>4, <2>3
  <2> QED BY <1>4, <2>1, <2>4
<1>12. Last(trace).quotient = 0
  <2>1. Len(trace) = r /\ r \in 1 .. r
    BY <1>4
  <2>2. Last(trace) = trace[r]
    BY <2>1 DEF Last
  <2>3. trace[r].quotient = n[r]
    BY <1>4, <2>1
  <2> QED BY <1>4, <2>2, <2>3
<1> QED BY <1>9, <1>10, <1>11, <1>12

----------------------------------------------------------------------------
(* binary_fraction.py.                                                     *)

(* Doubling: quotient and remainder of num * 2^k by den, and the next bit. *)
QuotientAt(num, den, k)  == (num * Pow(2, k)) \div den
RemainderAt(num, den, k) == (num * Pow(2, k)) % den
BitAt(num, den, k)       == IF 2 * RemainderAt(num, den, k - 1) >= den THEN 1 ELSE 0

(* A number divided: quotient and remainder. *)
Splits(n, a, d, e) == a = n * d + e /\ e \in 0 .. n - 1

(* They are its only ones. *)
LEMMA SplitIs ==
  ASSUME NEW n \in Nat \ {0}, NEW a \in Int, NEW d \in Int, NEW e \in Int, Splits(n, a, d, e)
  PROVE  a \div n = d /\ a % n = e
<1>1. a = n * d + e /\ e \in 0 .. n - 1
  BY DEF Splits
<1> QED BY <1>1, QuotientIs

(* A number divided, and the bit its remainder gives. *)
DividedWith(m, den, q, r, b) == m = den * q + r /\ b = IF 2 * r >= den THEN 1 ELSE 0

(* Twice a remainder, reduced by the bit. *)
LEMMA Doubling ==
  ASSUME NEW den \in Nat \ {0}, NEW m \in Nat, NEW q \in Int, NEW r \in 0 .. den - 1,
         NEW b, DividedWith(m, den, q, r, b)
  PROVE  (2 * m) \div den = 2 * q + b /\ (2 * m) % den = (2 * r) % den
<1>0. m = den * q + r /\ b = IF 2 * r >= den THEN 1 ELSE 0
  BY DEF DividedWith
<1>1. PICK p \in Int : p = den * q
  <2>1. den * q \in Int
    BY Z3
  <2> QED BY <2>1
<1>2. CASE 2 * r >= den
  <2>1. den * (2 * q + 1) = 2 * p + den
    BY <1>1, Z3
  <2>2. PICK x \in Int, y \in Int, e \in 0 .. den - 1, z \in Int :
          x = 2 * m /\ y = 2 * q + 1 /\ e = 2 * r - den /\ z = 2 * r /\ Splits(den, x, y, e) /\ Splits(den, z, 1, e)
    <3>1. 2 * m \in Int /\ 2 * q + 1 \in Int /\ 2 * r - den \in 0 .. den - 1 /\ 2 * r \in Int
      BY <1>2
    <3>2. 2 * m = den * (2 * q + 1) + (2 * r - den)
      BY <1>0, <1>1, <2>1
    <3>3. 2 * r = den * 1 + (2 * r - den)
      OBVIOUS
    <3> QED BY <3>1, <3>2, <3>3 DEF Splits
  <2>3. x \div den = y /\ x % den = e /\ z % den = e
    <3>1. Splits(den, x, y, e) /\ e \in Int
      BY <2>2
    <3>2. x \div den = y /\ x % den = e
      BY <3>1, SplitIs
    <3>3. Splits(den, z, 1, e) /\ 1 \in Int
      BY <2>2
    <3>4. z % den = e
      BY <3>1, <3>3, SplitIs
    <3> QED BY <3>2, <3>4
  <2>4. b = 1
    BY <1>0, <1>2
  <2> QED BY <2>2, <2>3, <2>4
<1>3. CASE ~(2 * r >= den)
  <2>1. den * (2 * q) = 2 * p
    BY <1>1, Z3
  <2>2. PICK x \in Int, y \in Int, e \in 0 .. den - 1, z \in Int :
          x = 2 * m /\ y = 2 * q /\ e = 2 * r /\ z = 2 * r /\ Splits(den, x, y, e) /\ Splits(den, z, 0, e)
    <3>1. 2 * m \in Int /\ 2 * q \in Int /\ 2 * r \in 0 .. den - 1 /\ 2 * r \in Int
      BY <1>3
    <3>2. 2 * m = den * (2 * q) + (2 * r)
      BY <1>0, <1>1, <2>1
    <3>3. 2 * r = den * 0 + (2 * r)
      OBVIOUS
    <3> QED BY <3>1, <3>2, <3>3 DEF Splits
  <2>3. x \div den = y /\ x % den = e /\ z % den = e
    <3>1. Splits(den, x, y, e) /\ e \in Int
      BY <2>2
    <3>2. x \div den = y /\ x % den = e
      BY <3>1, SplitIs
    <3>3. Splits(den, z, 0, e) /\ 0 \in Int
      BY <2>2
    <3>4. z % den = e
      BY <3>1, <3>3, SplitIs
    <3> QED BY <3>2, <3>4
  <2>4. b = 0
    BY <1>0, <1>3
  <2> QED BY <2>2, <2>3, <2>4
<1> QED BY <1>2, <1>3

(* From one bit to the next. *)
LEMMA BitsGo ==
  ASSUME NEW den \in Nat \ {0}, NEW num \in 0 .. den - 1, NEW k \in Nat
  PROVE  /\ QuotientAt(num, den, k) \in Nat /\ RemainderAt(num, den, k) \in 0 .. den - 1
         /\ num * Pow(2, k) = den * QuotientAt(num, den, k) + RemainderAt(num, den, k)
         /\ QuotientAt(num, den, 0) = 0 /\ RemainderAt(num, den, 0) = num
         /\ BitAt(num, den, k + 1) \in {0, 1}
         /\ QuotientAt(num, den, k + 1) = 2 * QuotientAt(num, den, k) + BitAt(num, den, k + 1)
         /\ RemainderAt(num, den, k + 1) = (2 * RemainderAt(num, den, k)) % den
<1>1. PICK p \in Nat \ {0} : p = Pow(2, k) /\ Pow(2, k + 1) = 2 * p
  BY TwoPow
<1>2. PICK m \in Nat : m = num * p
  <2>1. num * p \in Nat
    BY Z3
  <2> QED BY <2>1
<1>3. PICK q \in Nat : q = m \div den
  BY QuotientNat
<1>4. PICK r \in 0 .. den - 1 : r = m % den /\ m = den * q + r
  <2>1. m \in Int
    OBVIOUS
  <2>2. m = den * (m \div den) + (m % den) /\ m % den \in 0 .. den - 1
    BY <2>1, Division
  <2> QED BY <1>3, <2>2
<1>5. QuotientAt(num, den, k) = q /\ RemainderAt(num, den, k) = r /\ num * Pow(2, k) = m
  BY <1>1, <1>2, <1>3, <1>4 DEF QuotientAt, RemainderAt
<1>6. num * Pow(2, k + 1) = 2 * m
  <2>1. num * (2 * p) = 2 * (num * p)
    BY Z3
  <2> QED BY <1>1, <1>2, <2>1
<1>7. PICK b \in {0, 1} : b = BitAt(num, den, k + 1) /\ b = IF 2 * r >= den THEN 1 ELSE 0
  <2>1. (k + 1) - 1 = k
    OBVIOUS
  <2> QED BY <1>5, <2>1 DEF BitAt
<1>8. (2 * m) \div den = 2 * q + b /\ (2 * m) % den = (2 * r) % den
  <2>1. DividedWith(m, den, q, r, b) /\ q \in Int
    BY <1>4, <1>7 DEF DividedWith
  <2> QED BY <2>1, Doubling
<1>9. QuotientAt(num, den, k + 1) = 2 * q + b /\ RemainderAt(num, den, k + 1) = (2 * r) % den
  BY <1>6, <1>8 DEF QuotientAt, RemainderAt
<1>10. QuotientAt(num, den, 0) = 0 /\ RemainderAt(num, den, 0) = num
  <2>1. num * Pow(2, 0) = num
    <3>1. Pow(2, 0) = 1
      BY TwoPow
    <3> QED BY <3>1
  <2>2. num = den * 0 + num /\ num \in Int /\ 0 \in Int
    OBVIOUS
  <2>3. num \div den = 0 /\ num % den = num
    BY <2>2, QuotientIs
  <2> QED BY <2>1, <2>3 DEF QuotientAt, RemainderAt
<1> QED BY <1>4, <1>5, <1>7, <1>9, <1>10

(* Before the first bit. *)
LEMMA NoBitsYet ==
  ASSUME NEW den \in Nat \ {0}, NEW num \in 0 .. den - 1
  PROVE  QuotientAt(num, den, 0) = 0 /\ RemainderAt(num, den, 0) = num
<1>1. 0 \in Nat
  OBVIOUS
<1> QED BY <1>1, BitsGo

(* The same, one name for it. *)
GoesOn(num, den, k) ==
  /\ QuotientAt(num, den, k) \in Nat /\ RemainderAt(num, den, k) \in 0 .. den - 1
  /\ num * Pow(2, k) = den * QuotientAt(num, den, k) + RemainderAt(num, den, k)
  /\ BitAt(num, den, k + 1) \in {0, 1}
  /\ QuotientAt(num, den, k + 1) = 2 * QuotientAt(num, den, k) + BitAt(num, den, k + 1)

(* At every bit. *)
LEMMA BitsGoOn ==
  ASSUME NEW den \in Nat \ {0}, NEW num \in 0 .. den - 1
  PROVE  \A k \in Nat : GoesOn(num, den, k)
<1> TAKE k \in Nat
<1> QED BY BitsGo DEF GoesOn

(* What Remainders goes through. *)
RemainderRule(r, num, den, count) == r = [k \in 0 .. count |-> IF k = 0 THEN num ELSE (2 * r[k - 1]) % den]

(* What it returns. *)
LEMMA RemaindersAre ==
  ASSUME NEW num, NEW den, NEW count
  PROVE  Remainders(num, den, count) = (CHOOSE r : RemainderRule(r, num, den, count))
BY Zenon DEF Remainders, RemainderRule

(* Those are the remainders of num * 2^k. *)
LEMMA RemaindersGo ==
  ASSUME NEW den \in Nat \ {0}, NEW num \in 0 .. den - 1, NEW count \in Nat,
         NEW r, r = Remainders(num, den, count)
  PROVE  \A k \in 0 .. count : r[k] = RemainderAt(num, den, k)
<1> DEFINE h == [k \in 0 .. count |-> RemainderAt(num, den, k)]
<1>1. \A k \in 0 .. count : h[k] = IF k = 0 THEN num ELSE (2 * h[k - 1]) % den
  <2>1. ASSUME NEW k \in 0 .. count, k # 0 PROVE h[k] = (2 * h[k - 1]) % den
    <3>1. PICK j \in Nat : k = j + 1 /\ j = k - 1 /\ j \in 0 .. count
      <4>1. k - 1 \in Nat /\ k = (k - 1) + 1 /\ k - 1 \in 0 .. count
        BY <2>1
      <4> QED BY <4>1
    <3>2. h[k] = RemainderAt(num, den, j + 1) /\ h[k - 1] = RemainderAt(num, den, j)
      BY <3>1
    <3>3. RemainderAt(num, den, j + 1) = (2 * RemainderAt(num, den, j)) % den
      BY BitsGo
    <3> QED BY <3>2, <3>3, Zenon
  <2>2. h[0] = num
    <3>1. RemainderAt(num, den, 0) = num
      BY NoBitsYet
    <3> QED BY <3>1
  <2> HIDE DEF h
  <2> QED BY <2>1, <2>2, Zenon
<1>2. h = [k \in 0 .. count |-> h[k]] /\ \A k \in 0 .. count : h[k] = RemainderAt(num, den, k)
  OBVIOUS
<1> HIDE DEF h
<1>3. h = [k \in 0 .. count |-> IF k = 0 THEN num ELSE (2 * h[k - 1]) % den]
  BY <1>1, <1>2, Zenon
<1>4. RemainderRule(h, num, den, count)
  BY <1>3, Zenon DEF RemainderRule
<1>5. RemainderRule(r, num, den, count)
  BY <1>4, RemaindersAre, Zenon
<1>6. \A k \in 0 .. count : r[k] = IF k = 0 THEN num ELSE (2 * r[k - 1]) % den
  BY <1>5, Zenon DEF RemainderRule
<1> DEFINE T == {k \in 0 .. count : r[k] # h[k]}
<1>7. ASSUME T # {} PROVE FALSE
  <2>1. PICK k \in T : \A j \in T : k <= j
    <3>1. T \in SUBSET Nat
      OBVIOUS
    <3> HIDE DEF T
    <3> QED BY <1>7, <3>1, LeastNumber
  <2>2. k # 0
    BY <1>1, <1>6, <2>1
  <2>3. k - 1 \in 0 .. count /\ ~(k <= k - 1)
    BY <2>1, <2>2
  <2>4. r[k - 1] = h[k - 1]
    BY <2>1, <2>3
  <2>5. r[k] = (2 * r[k - 1]) % den /\ h[k] = (2 * h[k - 1]) % den
    BY <1>1, <1>6, <2>1, <2>2, Zenon
  <2>6. r[k] = h[k]
    BY <2>4, <2>5, Zenon
  <2> QED BY <2>1, <2>6
<1> QED BY <1>2, <1>7

(* The bits. *)
LEMMA SerialBitsAre ==
  ASSUME NEW den \in Nat \ {0}, NEW num \in 0 .. den - 1, NEW count \in Nat
  PROVE  serial_bits(num, den, count) = [k \in 1 .. count |-> BitAt(num, den, k)]
<1> DEFINE r == Remainders(num, den, count)
<1>1. \A k \in 0 .. count : r[k] = RemainderAt(num, den, k)
  BY RemaindersGo
<1>2. serial_bits(num, den, count) = [k \in 1 .. count |-> IF 2 * r[k - 1] >= den THEN 1 ELSE 0]
  BY Zenon DEF serial_bits
<1> HIDE DEF r
<1>3. \A k \in 1 .. count : r[k - 1] = RemainderAt(num, den, k - 1)
  <2>1. \A k \in 1 .. count : k - 1 \in 0 .. count
    OBVIOUS
  <2> QED BY <1>1, <2>1
<1> QED BY <1>2, <1>3 DEF BitAt

(* L of the bits, those after bit a. *)
Stretch(s, num, den, a, L) == Len(s) = L /\ \A j \in 1 .. L : s[j] = BitAt(num, den, a + j)

(* As a number. *)
LEMMA StretchIs ==
  ASSUME NEW den \in Nat \ {0}, NEW num \in 0 .. den - 1, NEW a \in Nat, NEW L \in Nat,
         NEW s, Stretch(s, num, den, a, L)
  PROVE  NumberOf(2, s) = QuotientAt(num, den, a + L) - QuotientAt(num, den, a) * Pow(2, L)
<1> DEFINE z == [j \in 0 .. L |-> QuotientAt(num, den, a + j) - QuotientAt(num, den, a) * Pow(2, j)]
<1>0. Len(s) = L /\ \A j \in 1 .. L : s[j] = BitAt(num, den, a + j)
  BY DEF Stretch
<1>1. PICK q \in Nat : q = QuotientAt(num, den, a)
  BY BitsGo
<1>2. z[0] = 0
  <2>1. Pow(2, 0) = 1 /\ a + 0 = a
    BY TwoPow
  <2>2. z[0] = QuotientAt(num, den, a + 0) - QuotientAt(num, den, a) * Pow(2, 0)
    OBVIOUS
  <2> QED BY <1>1, <2>1, <2>2
<1>3. ASSUME NEW k \in 1 .. L PROVE z[k] = 2 * z[k - 1] + s[k]
  <2>1. PICK j \in Nat : k = j + 1 /\ j = k - 1 /\ j \in 0 .. L
    <3>1. k - 1 \in Nat /\ k = (k - 1) + 1 /\ k - 1 \in 0 .. L
      OBVIOUS
    <3> QED BY <3>1
  <2>2. a + k = (a + j) + 1 /\ a + j \in Nat
    BY <2>1
  <2>3. PICK p \in Nat \ {0} : p = Pow(2, j) /\ Pow(2, k) = 2 * p
    BY <2>1, TwoPow
  <2>4. PICK u \in Nat, b \in {0, 1} : /\ u = QuotientAt(num, den, a + j) /\ b = BitAt(num, den, a + k)
                                      /\ QuotientAt(num, den, a + k) = 2 * u + b
    <3>1. PICK i \in Nat : i = a + j /\ a + k = i + 1
      BY <2>2
    <3>2. /\ QuotientAt(num, den, i) \in Nat /\ BitAt(num, den, i + 1) \in {0, 1}
          /\ QuotientAt(num, den, i + 1) = 2 * QuotientAt(num, den, i) + BitAt(num, den, i + 1)
      <4>1. GoesOn(num, den, i)
        BY BitsGoOn
      <4> QED BY <4>1 DEF GoesOn
    <3> QED BY <3>1, <3>2
  <2>5. z[k] = (2 * u + b) - q * (2 * p) /\ z[k - 1] = u - q * p
    <3>1. k \in 0 .. L /\ k - 1 \in 0 .. L
      OBVIOUS
    <3>2. z[k] = QuotientAt(num, den, a + k) - QuotientAt(num, den, a) * Pow(2, k)
      BY <3>1
    <3>3. z[k - 1] = QuotientAt(num, den, a + j) - QuotientAt(num, den, a) * Pow(2, j)
      BY <2>1, <3>1
    <3> QED BY <1>1, <2>3, <2>4, <3>2, <3>3
  <2>6. PICK v \in Nat : v = q * p /\ q * (2 * p) = 2 * v
    <3>1. q * p \in Nat /\ q * (2 * p) = 2 * (q * p)
      BY Z3
    <3> QED BY <3>1
  <2>7. s[k] = b
    BY <1>0, <2>4
  <2> HIDE DEF z
  <2> QED BY <2>5, <2>6, <2>7
<1>4. z[L] = QuotientAt(num, den, a + L) - QuotientAt(num, den, a) * Pow(2, L)
  OBVIOUS
<1> HIDE DEF z
<1>5. NumberSteps(z, 2, s, L)
  BY <1>2, <1>3, Zenon DEF NumberSteps
<1>6. NumberOf(2, s) = z[L]
  BY <1>0, <1>5, NumberFound
<1> QED BY <1>4, <1>6

(* As many bits of the fraction as were asked for. *)
CutOff(s, num, den, bits) ==
  /\ s * den <= num * Pow(2, bits)
  /\ num * Pow(2, bits) < (s + 1) * den

(* serial_bits are as near as they can be. *)
LEMMA SerialIsCutOff ==
  ASSUME NEW den \in Nat \ {0}, NEW num \in 0 .. den - 1, NEW count \in Nat
  PROVE  /\ NumberOf(2, serial_bits(num, den, count)) = QuotientAt(num, den, count)
         /\ CutOff(QuotientAt(num, den, count), num, den, count)
<1>1. PICK q \in Nat, r \in 0 .. den - 1, m \in Int :
        q = QuotientAt(num, den, count) /\ m = num * Pow(2, count) /\ m = den * q + r
  <2>1. /\ QuotientAt(num, den, count) \in Nat /\ RemainderAt(num, den, count) \in 0 .. den - 1
        /\ num * Pow(2, count) = den * QuotientAt(num, den, count) + RemainderAt(num, den, count)
    <3>1. GoesOn(num, den, count)
      BY BitsGoOn
    <3> QED BY <3>1 DEF GoesOn
  <2>2. num * Pow(2, count) \in Int
    <3>1. Pow(2, count) \in Nat
      BY TwoPow
    <3> QED BY <3>1, Z3
  <2> QED BY <2>1, <2>2
<1>2. CutOff(q, num, den, count)
  <2>1. den * q = q * den /\ (q + 1) * den = q * den + den /\ q * den \in Int
    BY Z3
  <2> QED BY <1>1, <2>1 DEF CutOff
<1> DEFINE s == serial_bits(num, den, count)
<1>3. s = [k \in 1 .. count |-> BitAt(num, den, k)]
  BY SerialBitsAre
<1> HIDE DEF s
<1>4. Stretch(s, num, den, 0, count) /\ 0 \in Nat
  BY <1>3 DEF Stretch
<1>5. NumberOf(2, s) = QuotientAt(num, den, 0 + count) - QuotientAt(num, den, 0) * Pow(2, count)
  BY <1>4, StretchIs
<1>6. QuotientAt(num, den, 0) = 0 /\ 0 + count = count /\ 0 * Pow(2, count) = 0
  <2>1. Pow(2, count) \in Nat
    BY TwoPow
  <2>2. QuotientAt(num, den, 0) = 0
    BY NoBitsYet
  <2> QED BY <2>1, <2>2
<1>7. NumberOf(2, s) = q
  BY <1>1, <1>5, <1>6
<1> QED BY <1>1, <1>2, <1>7 DEF s

(* Where canonical_repeat ends and where its repeating part starts. *)
FormEnds(start, rounds, num, den, limit) ==
  /\ start \in 0 .. limit /\ rounds \in 0 .. limit /\ start <= rounds
  /\ \/ start < rounds /\ RemainderAt(num, den, start) = RemainderAt(num, den, rounds)
     \/ start = rounds /\ RemainderAt(num, den, rounds) = 0
     \/ start = rounds /\ rounds = limit

(* The two parts are bits of the fraction. *)
FormOf(form, start, rounds, num, den) ==
  Stretch(form.prefix, num, den, 0, start) /\ Stretch(form.repeat, num, den, start, rounds - start)

(* A part of a sequence that is given by its elements. *)
LEMMA StretchOf ==
  ASSUME NEW n \in Nat, NEW S, NEW s \in [1 .. n -> S], NEW a \in 0 .. n, NEW b \in 0 .. n, a <= b
  PROVE  Len(SubSeq(s, a + 1, b)) = b - a /\ \A j \in 1 .. b - a : SubSeq(s, a + 1, b)[j] = s[a + j]
<1>1. s \in Seq(S) /\ Len(s) = n
  OBVIOUS
<1>2. a + 1 \in 1 .. Len(s) + 1 /\ b \in a .. Len(s)
  BY <1>1
<1>3. SubSeq(s, a + 1, b) = [i \in 1 .. b - a |-> s[a + i]]
  <2>1. SubSeq(s, a + 1, b) = [i \in 1 .. (1 + b - (a + 1)) |-> s[i + (a + 1) - 1]]
    OBVIOUS
  <2>2. 1 + b - (a + 1) = b - a /\ \A i \in 1 .. b - a : i + (a + 1) - 1 = a + i
    OBVIOUS
  <2> QED BY <2>1, <2>2
<1> QED BY <1>3

(* The two parts of a form. *)
LEMMA PartsOf ==
  ASSUME NEW f, NEW x, NEW y, f = [prefix |-> x, repeat |-> y]
  PROVE  f.prefix = x /\ f.repeat = y
OBVIOUS

(* It is as those say. *)
LEMMA FormIs ==
  ASSUME NEW den \in Nat \ {0}, NEW num \in 0 .. den - 1, NEW limit \in Nat,
         NEW form, form = canonical_repeat(num, den, limit)
  PROVE  \E start \in Nat, rounds \in Nat :
           FormEnds(start, rounds, num, den, limit) /\ FormOf(form, start, rounds, num, den)
<1> DEFINE r       == Remainders(num, den, limit)
           Back(k) == \E j \in 0 .. k - 1 : r[j] = r[k]
           S       == {k \in 0 .. limit : r[k] = 0 \/ k = limit \/ Back(k)}
           rounds  == Min(S)
           bits    == serial_bits(num, den, rounds)
           again   == rounds < limit /\ r[rounds] # 0
           start   == IF again THEN CHOOSE j \in 0 .. rounds - 1 : r[j] = r[rounds] ELSE rounds
<1>1. form = [prefix |-> SubSeq(bits, 1, start), repeat |-> SubSeq(bits, start + 1, rounds)]
  BY Zenon DEF canonical_repeat
<1>2. \A k \in 0 .. limit : r[k] = RemainderAt(num, den, k)
  BY RemaindersGo
<1> HIDE DEF r
<1>3. rounds \in S
  <2>1. S \in SUBSET Nat /\ limit \in S
    OBVIOUS
  <2> HIDE DEF S
  <2> QED BY <2>1, LeastIs
<1>4. rounds \in 0 .. limit /\ (r[rounds] = 0 \/ rounds = limit \/ Back(rounds))
  BY <1>3, Zenon
<1> HIDE DEF rounds
<1>5. /\ start \in 0 .. limit /\ start <= rounds
      /\ \/ start < rounds /\ r[start] = r[rounds]
         \/ start = rounds /\ r[rounds] = 0
         \/ start = rounds /\ rounds = limit
  <2>1. CASE again
    <3>1. \E j \in 0 .. rounds - 1 : r[j] = r[rounds]
      BY <1>4, <2>1
    <3>2. start = CHOOSE j \in 0 .. rounds - 1 : r[j] = r[rounds]
      BY <2>1, Zenon
    <3>3. start \in 0 .. rounds - 1 /\ r[start] = r[rounds]
      BY <3>1, <3>2, Zenon
    <3> HIDE DEF start
    <3> QED BY <1>4, <3>3
  <2>2. CASE ~again
    <3>1. start = rounds
      BY <2>2, Zenon
    <3>2. r[rounds] = 0 \/ rounds = limit
      BY <1>4, <2>2
    <3> HIDE DEF start
    <3> QED BY <1>4, <3>1, <3>2
  <2> QED BY <2>1, <2>2
<1> HIDE DEF start
<1>6. FormEnds(start, rounds, num, den, limit)
  BY <1>2, <1>4, <1>5 DEF FormEnds
<1>7. bits = [k \in 1 .. rounds |-> BitAt(num, den, k)]
  BY <1>4, SerialBitsAre
<1>8. bits \in [1 .. rounds -> {0, 1}] /\ \A k \in 1 .. rounds : bits[k] = BitAt(num, den, k)
  BY <1>7 DEF BitAt
<1>9. rounds \in Nat /\ start \in 0 .. rounds /\ 0 \in 0 .. rounds /\ rounds \in 0 .. rounds
  BY <1>4, <1>5
<1> HIDE DEF bits
<1>10. Len(form.prefix) = start /\ \A j \in 1 .. start : form.prefix[j] = BitAt(num, den, 0 + j)
  <2>1. form.prefix = SubSeq(bits, 0 + 1, start)
    <3>1. form.prefix = SubSeq(bits, 1, start)
      <4>1. PICK x : x = SubSeq(bits, 1, start)
        OBVIOUS
      <4>2. PICK y : y = SubSeq(bits, start + 1, rounds)
        OBVIOUS
      <4>3. form = [prefix |-> x, repeat |-> y]
        BY <1>1, <4>1, <4>2
      <4>4. form.prefix = x
        BY <4>3, PartsOf
      <4> QED BY <4>1, <4>4
    <3>2. 0 + 1 = 1
      OBVIOUS
    <3> QED BY <3>1, <3>2, Zenon
  <2>2. Len(SubSeq(bits, 0 + 1, start)) = start - 0
        /\ \A j \in 1 .. start - 0 : SubSeq(bits, 0 + 1, start)[j] = bits[0 + j]
    BY <1>8, <1>9, StretchOf
  <2>3. \A j \in 1 .. start : 0 + j \in 1 .. rounds /\ j \in 1 .. start - 0
    BY <1>9
  <2>4. start - 0 = start
    BY <1>9
  <2> QED BY <1>8, <2>1, <2>2, <2>3, <2>4
<1>11. /\ Len(form.repeat) = rounds - start
       /\ \A j \in 1 .. rounds - start : form.repeat[j] = BitAt(num, den, start + j)
  <2>1. form.repeat = SubSeq(bits, start + 1, rounds)
    <3>1. PICK x : x = SubSeq(bits, 1, start)
      OBVIOUS
    <3>2. PICK y : y = SubSeq(bits, start + 1, rounds)
      OBVIOUS
    <3>3. form = [prefix |-> x, repeat |-> y]
      BY <1>1, <3>1, <3>2
    <3>4. form.repeat = y
      BY <3>3, PartsOf
    <3> QED BY <3>2, <3>4
  <2>2. Len(SubSeq(bits, start + 1, rounds)) = rounds - start
        /\ \A j \in 1 .. rounds - start : SubSeq(bits, start + 1, rounds)[j] = bits[start + j]
    BY <1>8, <1>9, <1>5, StretchOf
  <2>3. \A j \in 1 .. rounds - start : start + j \in 1 .. rounds
    BY <1>9
  <2> QED BY <1>8, <2>1, <2>2, <2>3
<1>12. FormOf(form, start, rounds, num, den)
  BY <1>10, <1>11, Zenon DEF FormOf, Stretch
<1> QED BY <1>6, <1>9, <1>12

(* The fraction is its prefix and its repeat, p and q as NumbersRestored has them. *)
Restores(prefix, repeat, p, q, num, den, bits) ==
  IF q > 0 THEN num * p * q = den * (prefix * q + repeat)
  ELSE num * p = den * prefix \/ (p = Pow(2, bits) /\ prefix = QuotientAt(num, den, bits))

(* A repeating part: the same remainder at both ends. *)
LEMMA RepeatSum ==
  ASSUME NEW num \in Nat, NEW den \in Nat, NEW p \in Nat, NEW m \in Nat, NEW s \in Nat, NEW e \in Nat, NEW r \in Nat,
         num * p = den * s + r, num * (p * m) = den * e + r
  PROVE  num * p * (m - 1) = den * (s * (m - 1) + (e - s * m))
<1>1. num * p * (m - 1) = num * (p * m) - num * p
  BY Z3
<1>2. s * (m - 1) + (e - s * m) = e - s
  <2>1. s * (m - 1) = s * m - s /\ s * m \in Nat
    BY Z3
  <2> QED BY <2>1
<1>3. den * (e - s) = den * e - den * s
  BY Z3
<1>4. den * e \in Nat /\ den * s \in Nat
  BY Z3
<1> QED BY <1>1, <1>2, <1>3, <1>4

(* What NumbersRestored says of binary_fraction. *)
LEMMA FractionRestored ==
  ASSUME NEW den \in Nat \ {0}, NEW num \in 0 .. den - 1, NEW limit \in Nat,
         NEW form, form = canonical_repeat(num, den, limit)
  PROVE  Restores(NumberOf(2, form.prefix), NumberOf(2, form.repeat),
                  Pow(2, Len(form.prefix)), Pow(2, Len(form.repeat)) - 1, num, den, limit)
<1>1. PICK start \in Nat, rounds \in Nat :
        FormEnds(start, rounds, num, den, limit) /\ FormOf(form, start, rounds, num, den)
  BY FormIs
<1>2. /\ start <= rounds
      /\ \/ start < rounds /\ RemainderAt(num, den, start) = RemainderAt(num, den, rounds)
         \/ start = rounds /\ RemainderAt(num, den, rounds) = 0
         \/ start = rounds /\ rounds = limit
  BY <1>1, Zenon DEF FormEnds
<1>3. PICK L \in Nat : L = rounds - start /\ rounds = start + L
  <2>1. rounds - start \in Nat /\ rounds = start + (rounds - start)
    BY <1>2
  <2> QED BY <2>1
<1>4. /\ Stretch(form.prefix, num, den, 0, start) /\ Len(form.prefix) = start
      /\ Stretch(form.repeat, num, den, start, L) /\ Len(form.repeat) = L
  BY <1>1, <1>3, Zenon DEF FormOf, Stretch
<1>5. PICK s \in Nat, r \in Nat, p \in Nat \ {0} :
        /\ s = QuotientAt(num, den, start) /\ r = RemainderAt(num, den, start) /\ p = Pow(2, start)
        /\ num * p = den * s + r
  <2>1. /\ QuotientAt(num, den, start) \in Nat /\ RemainderAt(num, den, start) \in 0 .. den - 1
        /\ num * Pow(2, start) = den * QuotientAt(num, den, start) + RemainderAt(num, den, start)
    <3>1. GoesOn(num, den, start)
      BY BitsGoOn
    <3> QED BY <3>1 DEF GoesOn
  <2>2. RemainderAt(num, den, start) \in Nat /\ Pow(2, start) \in Nat \ {0}
    BY <2>1, TwoPow
  <2> QED BY <2>1, <2>2
<1>6. PICK e \in Nat, f \in Nat, m \in Nat \ {0} :
        /\ e = QuotientAt(num, den, rounds) /\ f = RemainderAt(num, den, rounds) /\ m = Pow(2, L)
        /\ num * (p * m) = den * e + f
  <2>1. /\ QuotientAt(num, den, rounds) \in Nat /\ RemainderAt(num, den, rounds) \in 0 .. den - 1
        /\ num * Pow(2, rounds) = den * QuotientAt(num, den, rounds) + RemainderAt(num, den, rounds)
    <3>1. GoesOn(num, den, rounds)
      BY BitsGoOn
    <3> QED BY <3>1 DEF GoesOn
  <2>2. RemainderAt(num, den, rounds) \in Nat /\ Pow(2, L) \in Nat \ {0}
    BY <2>1, TwoPow
  <2>3. Pow(2, rounds) = p * Pow(2, L)
    BY <1>3, <1>5, PowSum
  <2> QED BY <2>1, <2>2, <2>3
<1>7. NumberOf(2, form.prefix) = s
  <2>1. NumberOf(2, form.prefix) = QuotientAt(num, den, 0 + start) - QuotientAt(num, den, 0) * Pow(2, start)
    BY <1>4, StretchIs
  <2>2. QuotientAt(num, den, 0) = 0 /\ 0 + start = start
    BY NoBitsYet
  <2> QED BY <1>5, <2>1, <2>2
<1>8. NumberOf(2, form.repeat) = e - s * m
  <2>1. NumberOf(2, form.repeat) = QuotientAt(num, den, start + L) - QuotientAt(num, den, start) * Pow(2, L)
    BY <1>4, StretchIs
  <2> QED BY <1>3, <1>5, <1>6, <2>1
<1>9. CASE L = 0
  <2>1. m = 1 /\ start = rounds
    <3>1. Pow(2, 0) = 1
      BY TwoPow
    <3> QED BY <1>3, <1>6, <1>9, <3>1
  <2>2. CASE RemainderAt(num, den, rounds) = 0
    <3>1. num * p = den * s
      <4>1. den * s \in Nat
        BY Z3
      <4> QED BY <1>5, <2>1, <2>2, <4>1
    <3>2. Restores(s, e - s * m, p, m - 1, num, den, limit)
      BY <2>1, <3>1 DEF Restores
    <3> QED BY <1>4, <1>5, <1>6, <1>7, <1>8, <3>2
  <2>3. CASE rounds = limit
    <3>1. p = Pow(2, limit) /\ s = QuotientAt(num, den, limit)
      BY <1>5, <2>1, <2>3
    <3>2. Restores(s, e - s * m, p, m - 1, num, den, limit)
      BY <2>1, <3>1 DEF Restores
    <3> QED BY <1>4, <1>5, <1>6, <1>7, <1>8, <3>2
  <2> QED BY <1>2, <2>1, <2>2, <2>3
<1>10. CASE L # 0
  <2>1. r = f
    BY <1>2, <1>3, <1>5, <1>6, <1>10
  <2>2. m > L
    BY <1>6, PowAbove
  <2>3. m - 1 > 0
    BY <1>10, <2>2
  <2>4. num \in Nat /\ den \in Nat
    OBVIOUS
  <2>5. num * p * (m - 1) = den * (s * (m - 1) + (e - s * m))
    BY <1>5, <1>6, <2>1, <2>4, RepeatSum
  <2>6. Restores(s, e - s * m, p, m - 1, num, den, limit)
    BY <2>3, <2>5 DEF Restores
  <2> QED BY <1>4, <1>5, <1>6, <1>7, <1>8, <2>6
<1> QED BY <1>9, <1>10

----------------------------------------------------------------------------
(* The specification.                                                      *)

(* bitpack_lab, balanced_ternary and binary_fraction: what was drawn, and what
   was called on it. *)
RestoredInv ==
  /\ lab \in {"bitpack_lab", "ternary", "binary_fraction"} /\ phase \in {"call", "checked"} => input \in Inputs[lab]
  /\ Checked("bitpack_lab") =>
       LET packed == pack_indices(input.idx, input.bits) n == Len(input.idx) IN
       result = [got    |-> unpack_indices(packed, n, input.bits),
                 want   |-> [i \in 1 .. n |-> input.idx[i] % (low_mask(input.bits) + 1)],
                 packed |-> packed]
  /\ Checked("ternary") =>
       LET text == to_balanced_ternary(input.value) IN
       result = [text    |-> text, back |-> from_balanced_ternary(text),
                 negated |-> from_balanced_ternary(negate_text(text)),
                 trace   |-> trace_conversion(input.value)]
  /\ Checked("binary_fraction") =>
       result = [serial |-> serial_bits(input.num, input.den, input.bits),
                 form   |-> canonical_repeat(input.num, input.den, input.bits)]

(* They are called on what they drew. *)
LEMMA RestoredStep == RestoredInv /\ [Next]_vars => RestoredInv'
<1> SUFFICES ASSUME RestoredInv, [Next]_vars PROVE RestoredInv'
  OBVIOUS
<1>1. lab' = lab
  BY SameLab
<1>2. CASE Draw
  BY <1>1, <1>2 DEF Draw, RestoredInv, Checked
<1>3. CASE PackAndUnpack
  BY <1>1, <1>3, Zenon DEF PackAndUnpack, Calling, Returns, RestoredInv, Checked
<1>4. CASE ConvertTernary
  BY <1>1, <1>4, Zenon DEF ConvertTernary, Calling, Returns, RestoredInv, Checked
<1>5. CASE ExpandFraction
  BY <1>1, <1>5, Zenon DEF ExpandFraction, Calling, Returns, RestoredInv, Checked
<1>6. CASE Compare
  BY <1>1, <1>6 DEF Compare, RestoredInv, Checked
<1>7. CASE lab \notin {"bitpack_lab", "ternary", "binary_fraction"}
  BY <1>1, <1>7 DEF RestoredInv, Checked
<1>8. CASE UNCHANGED vars
  BY <1>8, Zenon DEF vars, RestoredInv, Checked
<1>9. ASSUME Next, lab \in {"bitpack_lab", "ternary", "binary_fraction"}
      PROVE  Draw \/ PackAndUnpack \/ ConvertTernary \/ ExpandFraction \/ Compare
  BY <1>9 DEF Next, Calling, ConvertFull, ConvertExperiment, Quarter,
       verify_unsigned_high_prod32, verify_unsigned_high_prod, verify_mul_u64_u32_shr, verify_size_mul_like,
       Reject, Accept, Decode, LookUp, TraceRow, UpdateCrc,
       ChecksumData, NotPowerOfTwo, AddSample, EndOfRun
<1> QED BY <1>2, <1>3, <1>4, <1>5, <1>6, <1>7, <1>8, <1>9

(* What is written in digits is what was given: packed fields, balanced ternary
   of either sign, and binary fractions with their repeating part or cut off. *)
THEOREM DigitsRestoreNumbers == Spec => []NumbersRestored
<1>1. Init => RestoredInv
  BY DEF Init, RestoredInv, Checked
<1>2. RestoredInv => NumbersRestored
  <2> SUFFICES ASSUME RestoredInv PROVE NumbersRestored
    OBVIOUS
  <2>1. CASE Checked("bitpack_lab")
    <3>1. input \in [idx : UNION {[1 .. n -> Indices] : n \in 1 .. PackLen}, bits : 1 .. 7]
      BY <2>1 DEF RestoredInv, Checked, Inputs
    <3>2. PICK n \in Nat : input.idx \in [1 .. n -> Indices]
      BY <3>1, PackAssumption
    <3>3. Len(input.idx) = n /\ input.idx \in [1 .. n -> Nat] /\ input.bits \in Nat \ {0}
      <4>1. PICK f \in [1 .. n -> Indices] : f = input.idx
        BY <3>2
      <4>2. Len(f) = n
        OBVIOUS
      <4>3. f = [i \in 1 .. n |-> f[i]] /\ \A i \in 1 .. n : f[i] \in Nat
        BY PackAssumption
      <4>4. f \in [1 .. n -> Nat]
        BY <4>3
      <4>5. input.bits \in 1 .. 7
        BY <3>1
      <4> QED BY <4>1, <4>2, <4>4, <4>5
    <3> DEFINE packed == pack_indices(input.idx, input.bits)
    <3>4. result = [got    |-> unpack_indices(packed, n, input.bits),
                    want   |-> [i \in 1 .. n |-> input.idx[i] % (low_mask(input.bits) + 1)],
                    packed |-> packed]
      BY <2>1, <3>3, Zenon DEF RestoredInv
    <3>5. /\ unpack_indices(packed, n, input.bits) = [i \in 1 .. n |-> input.idx[i] % (low_mask(input.bits) + 1)]
          /\ \A place \in packed : place[1] < bytes_for(n, input.bits)
      BY <3>3, PackedComesBack
    <3> HIDE DEF packed
    <3>6. result.got = result.want /\ \A place \in result.packed : place[1] < bytes_for(Len(input.idx), input.bits)
      BY <3>3, <3>4, <3>5
    <3> QED BY <2>1, <3>6 DEF NumbersRestored, Checked
  <2>2. CASE Checked("ternary")
    <3>1. input \in [value : -Numbers .. Numbers]
      BY <2>2 DEF RestoredInv, Checked, Inputs
    <3>2. input.value \in Int
      BY <3>1, DigitsAssumption
    <3> DEFINE text  == to_balanced_ternary(input.value)
               trace == trace_conversion(input.value)
    <3>3. result = [text    |-> text, back |-> from_balanced_ternary(text),
                    negated |-> from_balanced_ternary(negate_text(text)), trace |-> trace]
      BY <2>2, Zenon DEF RestoredInv
    <3>4. /\ from_balanced_ternary(text) = input.value
          /\ from_balanced_ternary(negate_text(text)) = -input.value
          /\ input.value # 0 => Head(text) # 0
          /\ Last(trace).quotient = 0
      BY <3>2, TernaryComesBack
    <3> HIDE DEF text, trace
    <3>5. /\ result.back = input.value /\ result.negated = -input.value
          /\ input.value # 0 => Head(result.text) # 0
          /\ Last(result.trace).quotient = 0
      BY <3>3, <3>4
    <3> QED BY <2>2, <3>5 DEF NumbersRestored, Checked
  <2>3. CASE Checked("binary_fraction")
    <3>1. input \in UNION {[num : 0 .. d - 1, den : {d}, bits : 1 .. Denominator] : d \in 1 .. Denominator}
      BY <2>3 DEF RestoredInv, Checked, Inputs
    <3>2. input.den \in Nat \ {0} /\ input.num \in 0 .. input.den - 1 /\ input.bits \in Nat
      <4>1. PICK d \in 1 .. Denominator : input \in [num : 0 .. d - 1, den : {d}, bits : 1 .. Denominator]
        BY <3>1
      <4> QED BY <4>1, DigitsAssumption
    <3>3. PICK num, den, bits : num = input.num /\ den = input.den /\ bits = input.bits
      OBVIOUS
    <3>4. den \in Nat \ {0} /\ num \in 0 .. den - 1 /\ bits \in Nat
      BY <3>2, <3>3
    <3> DEFINE serial == serial_bits(num, den, bits)
               form   == canonical_repeat(num, den, bits)
    <3>5. result = [serial |-> serial, form |-> form]
      BY <2>3, <3>3, Zenon DEF RestoredInv
    <3>6. NumberOf(2, serial) = QuotientAt(num, den, bits) /\ CutOff(QuotientAt(num, den, bits), num, den, bits)
      BY <3>4, SerialIsCutOff
    <3>7. Restores(NumberOf(2, form.prefix), NumberOf(2, form.repeat),
                   Pow(2, Len(form.prefix)), Pow(2, Len(form.repeat)) - 1, num, den, bits)
      BY <3>4, FractionRestored
    <3> HIDE DEF serial, form
    <3>8. result.serial = serial /\ result.form = form
      BY <3>5
    <3> DEFINE p == Pow(2, Len(form.prefix))
               q == Pow(2, Len(form.repeat)) - 1
               s == NumberOf(2, serial)
    <3>9. /\ s * den <= num * Pow(2, bits)
          /\ num * Pow(2, bits) < (s + 1) * den
      BY <3>6 DEF CutOff
    <3>10. IF q > 0
           THEN num * p * q = den * (NumberOf(2, form.prefix) * q + NumberOf(2, form.repeat))
           ELSE num * p = den * NumberOf(2, form.prefix) \/ (p = Pow(2, bits) /\ NumberOf(2, form.prefix) = s)
      BY <3>6, <3>7 DEF Restores
    <3>11. ~Checked("bitpack_lab") /\ ~Checked("ternary")
      BY <2>3 DEF Checked
    <3> QED BY <3>3, <3>8, <3>9, <3>10, <3>11, Zenon DEF NumbersRestored
  <2>4. CASE ~Checked("bitpack_lab") /\ ~Checked("ternary") /\ ~Checked("binary_fraction")
    BY <2>4, Zenon DEF NumbersRestored
  <2> QED BY <2>1, <2>2, <2>3, <2>4
<1> QED BY <1>1, <1>2, RestoredStep, PTL DEF Spec

----------------------------------------------------------------------------
(* The float labs.  Patterns are ordered as their values are, so a pattern *)
(* is nearest when it is nearer than its two neighbours; the values of the *)
(* patterns lie on lines, one for each exponent, and rounding a significand*)
(* to the unit of its line finds the nearest, carries included.            *)

(* Nearest, of a table V of the values. *)
NearestIn(value, m, V, top) ==
  /\ m \in 0 .. top
  /\ \A k \in {m - 1, m + 1} \cap (0 .. top) :
       \/ Distance(value, V[m]) < Distance(value, V[k])
       \/ Distance(value, V[m]) = Distance(value, V[k]) /\ m % 2 = 0

(* The values ascend. *)
Increasing(V, top) == V \in [0 .. top -> Nat] /\ \A k \in 0 .. top - 1 : V[k] < V[k + 1]

(* The number a rounding takes: k or the next, by which is nearer, of two the even. *)
TakenOf(value, k, a, b) == IF value - a > b - value \/ (value - a = b - value /\ k % 2 = 1) THEN k + 1 ELSE k

(* Parity of the next number. *)
LEMMA NextParity ==
  ASSUME NEW k \in Nat
  PROVE  k % 2 = 1 => (k + 1) % 2 = 0
<1>1. (k + 1) % 2 = ((k % 2) + 1) % 2
  BY NextRemainder
<1> QED BY <1>1

(* What is rounded between two neighbours is nearest of all. *)
LEMMA RoundsToNearest ==
  ASSUME NEW top \in Nat, NEW V, Increasing(V, top), NEW k \in 0 .. top - 1,
         NEW value \in Nat, V[k] <= value, value < V[k + 1]
  PROVE  NearestIn(value, TakenOf(value, k, V[k], V[k + 1]), V, top)
<1>1. V \in [0 .. top -> Nat] /\ \A j \in 0 .. top - 1 : V[j] < V[j + 1]
  BY DEF Increasing
<1>2. PICK a \in Nat, b \in Nat : a = V[k] /\ b = V[k + 1] /\ a <= value /\ value < b
  <2>1. k \in 0 .. top /\ k + 1 \in 0 .. top
    OBVIOUS
  <2> QED BY <1>1, <2>1
<1>3. k % 2 \in {0, 1} /\ (k % 2 = 1 => (k + 1) % 2 = 0)
  <2>1. k \in Nat
    OBVIOUS
  <2> QED BY <2>1, NextParity
<1>4. CASE TakenOf(value, k, V[k], V[k + 1]) = k
  <2>1. value - a < b - value \/ (value - a = b - value /\ k % 2 = 0)
    BY <1>2, <1>3, <1>4 DEF TakenOf
  <2>2. Distance(value, V[k]) = value - a /\ Distance(value, V[k + 1]) = b - value
    BY <1>2 DEF Distance
  <2>3. ASSUME k - 1 \in 0 .. top PROVE Distance(value, V[k]) < Distance(value, V[k - 1])
    <3>1. k - 1 \in 0 .. top - 1 /\ (k - 1) + 1 = k
      BY <2>3
    <3>2. V[k - 1] < a /\ V[k - 1] \in Nat
      BY <1>1, <1>2, <3>1
    <3> QED BY <1>2, <2>2, <3>2 DEF Distance
  <2>4. k \in 0 .. top
    OBVIOUS
  <2>5. \A j \in {k - 1, k + 1} \cap (0 .. top) :
       \/ Distance(value, V[k]) < Distance(value, V[j])
       \/ Distance(value, V[k]) = Distance(value, V[j]) /\ k % 2 = 0
    BY <2>1, <2>2, <2>3
  <2> QED BY <1>4, <2>4, <2>5 DEF NearestIn
<1>5. CASE TakenOf(value, k, V[k], V[k + 1]) = k + 1
  <2>1. b - value < value - a \/ (value - a = b - value /\ (k + 1) % 2 = 0)
    <3>1. k + 1 # k
      OBVIOUS
    <3> QED BY <1>2, <1>3, <1>5, <3>1 DEF TakenOf
  <2>2. Distance(value, V[k]) = value - a /\ Distance(value, V[k + 1]) = b - value
    BY <1>2 DEF Distance
  <2> DEFINE m == k + 1
  <2>3. ASSUME m + 1 \in 0 .. top PROVE Distance(value, V[m]) < Distance(value, V[m + 1])
    <3>1. m \in 0 .. top - 1 /\ m + 1 \in 0 .. top
      BY <2>3
    <3>2. b < V[m + 1] /\ V[m + 1] \in Nat
      BY <1>1, <1>2, <3>1
    <3> QED BY <1>2, <2>2, <3>2 DEF Distance
  <2>4. m \in 0 .. top /\ m - 1 = k
    OBVIOUS
  <2>5. \/ Distance(value, V[m]) < Distance(value, V[k])
        \/ Distance(value, V[m]) = Distance(value, V[k]) /\ m % 2 = 0
    BY <2>1, <2>2, <1>2
  <2> HIDE DEF m
  <2>6. \A j \in {m - 1, m + 1} \cap (0 .. top) :
       \/ Distance(value, V[m]) < Distance(value, V[j])
       \/ Distance(value, V[m]) = Distance(value, V[j]) /\ m % 2 = 0
    BY <2>3, <2>4, <2>5
  <2>7. TakenOf(value, k, V[k], V[k + 1]) = m
    BY <1>5 DEF m
  <2> QED BY <2>4, <2>6, <2>7 DEF NearestIn
<1> QED BY <1>4, <1>5 DEF TakenOf

(* From the last value on, the last is nearest. *)
LEMMA LastIsNearest ==
  ASSUME NEW top \in Nat, NEW V, Increasing(V, top), NEW value \in Nat, V[top] <= value
  PROVE  NearestIn(value, top, V, top)
<1>1. V \in [0 .. top -> Nat] /\ \A j \in 0 .. top - 1 : V[j] < V[j + 1]
  BY DEF Increasing
<1>2. V[top] \in Nat /\ top \in 0 .. top
  BY <1>1
<1>3. ASSUME top - 1 \in 0 .. top PROVE Distance(value, V[top]) < Distance(value, V[top - 1])
  <2>1. top - 1 \in 0 .. top - 1 /\ (top - 1) + 1 = top
    BY <1>3
  <2>2. V[top - 1] < V[top] /\ V[top - 1] \in Nat
    BY <1>1, <2>1
  <2> QED BY <1>2, <2>2 DEF Distance
<1>4. ~(top + 1 \in 0 .. top)
  OBVIOUS
<1> QED BY <1>2, <1>3, <1>4 DEF NearestIn

(* A value of the table is its own nearest. *)
LEMMA ExactIsNearest ==
  ASSUME NEW top \in Nat, NEW V, Increasing(V, top), NEW k \in 0 .. top - 1
  PROVE  NearestIn(V[k], k, V, top)
<1>1. V[k] < V[k + 1] /\ V[k] \in Nat /\ V[k + 1] \in Nat /\ V[k] <= V[k]
  <2>1. k \in 0 .. top /\ k + 1 \in 0 .. top
    OBVIOUS
  <2> QED BY <2>1 DEF Increasing
<1>2. NearestIn(V[k], TakenOf(V[k], k, V[k], V[k + 1]), V, top)
  BY <1>1, RoundsToNearest
<1>3. TakenOf(V[k], k, V[k], V[k + 1]) = k
  BY <1>1 DEF TakenOf
<1> QED BY <1>2, <1>3

(* The quotient of v by 2 * h, rounded to nearest, of two the even. *)
RoundOf(v, h) == (v \div (2 * h)) + IF RoundsUp(v % (2 * h), h, v \div (2 * h)) THEN 1 ELSE 0

(* Equal factors do not change an order. *)
LEMMA SameOrder ==
  ASSUME NEW g \in Nat \ {0}, NEW x \in Nat, NEW y \in Nat
  PROVE  (g * x > g * y <=> x > y) /\ (g * x = g * y <=> x = y)
<1>1. g \in Nat /\ g * x \in Nat /\ g * y \in Nat /\ g >= 1
  <2>1. \A a \in Nat, b \in Nat : a * b \in Nat
    BY Z3
  <2> QED BY <2>1
<1>2. x + 1 <= y => g * x + g <= g * y
  BY <1>1, Multiples
<1>3. y + 1 <= x => g * y + g <= g * x
  BY <1>1, Multiples
<1> QED BY <1>1, <1>2, <1>3

(* An even number changes no parity. *)
LEMMA SameParity ==
  ASSUME NEW p \in Nat, NEW u \in Nat, p % 2 = 0
  PROVE  (p + u) % 2 = u % 2
<1>1. p = 2 * (p \div 2) + (p % 2) /\ p \div 2 \in Int
  BY Division
<1>2. PICK q \in Int : p = 2 * q
  BY <1>1
<1>3. u = 2 * (u \div 2) + (u % 2) /\ u % 2 \in 0 .. 1 /\ u \div 2 \in Int
  BY Division
<1>4. PICK w \in Int, e \in 0 .. 1 : u = 2 * w + e /\ e = u % 2
  BY <1>3
<1>5. p + u = 2 * (q + w) + e /\ q + w \in Int /\ e \in 0 .. 2 - 1
  BY <1>2, <1>4
<1>6. (2 * (q + w) + e) % 2 = e
  BY <1>5, Remainder
<1> QED BY <1>4, <1>5, <1>6

(* The values of the quotient and the next one, on a grid of V that begins at p. *)
OnGrid(V, p, u, g, h) == V[p + u] = g * (2 * h * u) /\ V[p + (u + 1)] = g * (2 * h * (u + 1))

(* The rounded quotient is the nearest on the grid. *)
LEMMA RoundOfIsNearest ==
  ASSUME NEW top \in Nat, NEW V, Increasing(V, top), NEW p \in Nat, p % 2 = 0,
         NEW v \in Nat, NEW h \in Nat \ {0}, NEW g \in Nat \ {0},
         p + (v \div (2 * h)) < top, OnGrid(V, p, v \div (2 * h), g, h)
  PROVE  NearestIn(g * v, p + RoundOf(v, h), V, top)
<1>1. PICK n \in Nat \ {0} : n = 2 * h
  <2>1. 2 * h \in Nat \ {0}
    OBVIOUS
  <2> QED BY <2>1
<1>2. v = n * (v \div n) + (v % n) /\ v % n \in 0 .. n - 1
  <2>1. v \in Int
    OBVIOUS
  <2> QED BY <2>1, Division
<1>3. PICK u \in Nat, r \in Nat : u = v \div n /\ r = v % n /\ v = n * u + r /\ r < n
  BY <1>1, <1>2, QuotientNat
<1>4. PICK s \in Nat : s = n - r
  <2>1. n - r \in Nat
    BY <1>3
  <2> QED BY <2>1
<1>5. p + u \in 0 .. top - 1 /\ p + u + 1 = p + (u + 1)
  BY <1>1, <1>3
<1>6. PICK a \in Nat, b \in Nat : a = V[p + u] /\ b = V[p + u + 1]
  <2>1. V \in [0 .. top -> Nat]
    BY DEF Increasing
  <2>2. p + u \in 0 .. top /\ p + u + 1 \in 0 .. top
    BY <1>5
  <2> QED BY <2>1, <2>2
<1>7. a = g * (n * u) /\ b = g * (n * (u + 1))
  BY <1>1, <1>3, <1>5, <1>6 DEF OnGrid
<1>8. PICK x \in Nat : x = n * u
  <2>1. \A c \in Nat, d \in Nat : c * d \in Nat
    BY Z3
  <2> QED BY <2>1
<1>9. g * v = a + g * r /\ b = g * v + g * s
  <2>1. n * (u + 1) = x + n /\ n = r + s
    BY <1>4, <1>8, Z3
  <2>2. g * (x + r) = g * x + g * r /\ g * (x + (r + s)) = g * (x + r) + g * s
    BY Z3
  <2> QED BY <1>3, <1>7, <1>8, <2>1, <2>2
<1>10. PICK y \in Nat, z \in Nat, value \in Nat :
         y = g * r /\ z = g * s /\ value = g * v /\ value = a + y /\ b = value + z
  <2>1. \A c \in Nat, d \in Nat : c * d \in Nat
    BY Z3
  <2> QED BY <1>9, <2>1
<1>11. (y > z <=> r > s) /\ (y = z <=> r = s) /\ z > 0
  <2>1. (y > z <=> r > s) /\ (y = z <=> r = s)
    BY <1>10, SameOrder
  <2>2. s > 0
    BY <1>3, <1>4
  <2>3. g * s > g * 0 <=> s > 0
    BY SameOrder, <2>2
  <2>4. g * 0 = 0
    OBVIOUS
  <2> QED BY <2>1, <2>2, <2>3, <2>4, <1>10
<1>12. (r > s <=> r > h) /\ (r = s <=> r = h)
  BY <1>1, <1>4
<1>13. NearestIn(value, TakenOf(value, p + u, a, b), V, top)
  <2>1. V[p + u] <= value /\ value < V[p + u + 1]
    BY <1>6, <1>10, <1>11
  <2> QED BY <1>5, <1>6, <2>1, RoundsToNearest
<1>14. value - a = y /\ b - value = z
  BY <1>10
<1>15. TakenOf(value, p + u, a, b) = p + RoundOf(v, h)
  <2>1. (p + u) % 2 = u % 2
    BY SameParity
  <2>2. RoundOf(v, h) = u + IF RoundsUp(r, h, u) THEN 1 ELSE 0
    BY <1>1, <1>3 DEF RoundOf
  <2>3. (y > z \/ (y = z /\ (p + u) % 2 = 1)) <=> RoundsUp(r, h, u)
    BY <1>11, <1>12, <2>1 DEF RoundsUp
  <2>4. TakenOf(value, p + u, a, b) = IF RoundsUp(r, h, u) THEN p + u + 1 ELSE p + u
    BY <1>14, <2>3 DEF TakenOf
  <2> QED BY <2>2, <2>4
<1> QED BY <1>10, <1>13, <1>15

(* The magnitude of the pattern with exponent e and fraction f: also when f has
   carried into the exponent. *)
Grid(F, e, f) == IF e = 0 THEN f ELSE (Pow(2, F) + f) * Pow(2, e - 1)

(* A magnitude is a natural number. *)
LEMMA GridIs ==
  ASSUME NEW F \in Nat, NEW e \in Nat, NEW f \in 0 .. Pow(2, F)
  PROVE  Grid(F, e, f) \in Nat
<1>1. Pow(2, F) \in Nat
  BY TwoPow
<1>2. CASE e = 0
  BY <1>1, <1>2 DEF Grid
<1>3. CASE e # 0
  <2>1. e - 1 \in Nat
    BY <1>3
  <2>2. PICK x \in Nat, y \in Nat : x = Pow(2, F) + f /\ y = Pow(2, e - 1)
    <3>1. Pow(2, e - 1) \in Nat
      BY <2>1, TwoPow
    <3>2. Pow(2, F) + f \in Nat
      BY <1>1
    <3> QED BY <3>1, <3>2
  <2>3. x * y \in Nat
    BY Z3
  <2> QED BY <1>3, <2>2, <2>3 DEF Grid
<1> QED BY <1>2, <1>3

(* The magnitude is the one of exponent and fraction, carried or not. *)
LEMMA MagnitudeAt ==
  ASSUME NEW F \in Nat, NEW e \in Nat, NEW f \in 0 .. Pow(2, F)
  PROVE  Magnitude(e * Pow(2, F) + f, F) = Grid(F, e, f)
<1>1. PICK n \in Nat \ {0} : n = Pow(2, F)
  BY TwoPow
<1>2. CASE f # n
  <2>1. f \in 0 .. n - 1
    BY <1>1, <1>2
  <2>2. PICK m \in Int : m = e * n + f
    <3>1. e * n + f \in Int
      BY <2>1
    <3> QED BY <3>1
  <2>3. m \div n = e /\ m % n = f
    <3>1. m = n * e + f
      BY <2>2
    <3> QED BY <2>1, <3>1, QuotientIs
  <2>4. Magnitude(m, F) = IF e = 0 THEN f ELSE (n + f) * Pow(2, e - 1)
    BY <1>1, <2>3 DEF Magnitude
  <2> QED BY <1>1, <2>2, <2>4 DEF Grid
<1>3. CASE f = n
  <2>1. PICK m \in Int : m = e * n + f /\ m = n * (e + 1) + 0
    <3>1. e * n + n \in Int /\ e * n + n = n * (e + 1) + 0
      BY Z3
    <3> QED BY <1>3, <3>1
  <2>2. m \div n = e + 1 /\ m % n = 0
    <3>1. 0 \in 0 .. n - 1 /\ e + 1 \in Int
      OBVIOUS
    <3> QED BY <2>1, <3>1, QuotientIs
  <2>3. Magnitude(m, F) = (n + 0) * Pow(2, (e + 1) - 1)
    <3>1. e + 1 # 0
      OBVIOUS
    <3> QED BY <1>1, <2>2, <3>1 DEF Magnitude
  <2>4. (e + 1) - 1 = e /\ n + 0 = n
    OBVIOUS
  <2>5. Magnitude(m, F) = n * Pow(2, e)
    BY <2>3, <2>4
  <2>6. Grid(F, e, f) = n * Pow(2, e)
    <3>1. CASE e = 0
      <4>1. Pow(2, 0) = 1 /\ n * 1 = n
        BY TwoPow
      <4> QED BY <1>3, <3>1, <4>1 DEF Grid
    <3>2. CASE e # 0
      <4>1. e - 1 \in Nat /\ (e - 1) + 1 = e
        BY <3>2
      <4>2. PICK y \in Nat : y = Pow(2, e - 1) /\ Pow(2, e) = 2 * y
        BY <4>1, TwoPow
      <4>3. (n + n) * y = n * (2 * y)
        BY Z3
      <4> QED BY <1>1, <1>3, <3>2, <4>2, <4>3 DEF Grid
    <3> QED BY <3>1, <3>2
  <2> QED BY <1>1, <2>1, <2>5, <2>6
<1> QED BY <1>2, <1>3

(* Patterns are ordered as their values are. *)
LEMMA MagnitudeGrows ==
  ASSUME NEW F \in Nat, NEW m \in Nat
  PROVE  /\ Magnitude(m, F) \in Nat /\ Magnitude(m + 1, F) \in Nat
         /\ Magnitude(m, F) < Magnitude(m + 1, F)
<1>1. PICK n \in Nat \ {0} : n = Pow(2, F)
  BY TwoPow
<1>2. PICK e \in Nat, f \in 0 .. n - 1 : m = e * n + f
  <2>1. m \in Int
    OBVIOUS
  <2>2. m = n * (m \div n) + (m % n) /\ m % n \in 0 .. n - 1
    BY <2>1, Division
  <2>3. m \div n \in Nat
    BY QuotientNat
  <2>4. n * (m \div n) = (m \div n) * n
    BY <2>3
  <2> QED BY <2>2, <2>3, <2>4
<1>3. f \in 0 .. n /\ f + 1 \in 0 .. n /\ m + 1 = e * n + (f + 1)
  <2>1. e * n \in Nat
    BY Z3
  <2> QED BY <1>2, <2>1
<1>4. Magnitude(m, F) = Grid(F, e, f) /\ Magnitude(m + 1, F) = Grid(F, e, f + 1)
  BY <1>1, <1>2, <1>3, MagnitudeAt
<1>5. Grid(F, e, f) \in Nat /\ Grid(F, e, f + 1) \in Nat
  BY <1>1, <1>3, GridIs
<1>6. Grid(F, e, f) < Grid(F, e, f + 1)
  <2>1. CASE e = 0
    BY <2>1 DEF Grid
  <2>2. CASE e # 0
    <3>1. e - 1 \in Nat
      BY <2>2
    <3>2. PICK y \in Nat \ {0} : y = Pow(2, e - 1)
      BY <3>1, TwoPow
    <3>3. (n + (f + 1)) * y = (n + f) * y + y /\ (n + f) * y \in Nat
      BY Z3
    <3> QED BY <1>1, <2>2, <3>2, <3>3 DEF Grid
  <2> QED BY <2>1, <2>2
<1> QED BY <1>4, <1>5, <1>6

(* The sizes of the two formats. *)
LEMMA FormatFacts ==
  /\ SE \in Nat /\ SM \in Nat /\ HE \in Nat /\ HM \in Nat \ {0} /\ Wide \in Nat
  /\ Drop \in Nat \ {0} /\ SM = HM + Drop /\ SM + 1 < Wide
  /\ Rebias \in Nat /\ HM < Rebias
  /\ HExpMax \in Nat /\ ExpMax \in Nat /\ 3 <= HExpMax /\ HExpMax + Rebias < ExpMax
  /\ HInf \in Nat /\ Inf \in Nat
<1>1. /\ SE \in Nat /\ SM \in Nat /\ HE \in Nat /\ HM \in Nat /\ Wide \in Nat
      /\ 1 < HE /\ HE < SE /\ 0 < HM /\ HM < SM /\ SM + 1 < Wide
      /\ HM < Pow(2, SE - 1) - Pow(2, HE - 1)
  BY FormatAssumption
<1>2. SE - 1 \in Nat /\ HE - 1 \in Nat /\ (SE - 1) + 1 = SE /\ (HE - 1) + 1 = HE /\ 0 < HE - 1 /\ 0 \in Nat
  BY <1>1
<1>3. PICK x \in Nat \ {0}, y \in Nat \ {0} : x = Pow(2, SE - 1) /\ y = Pow(2, HE - 1)
  BY <1>2, TwoPow
<1>4. Pow(2, SE) = 2 * x /\ Pow(2, HE) = 2 * y /\ 2 <= y
  <2>1. Pow(2, 0) = 1 /\ 2 * Pow(2, 0) <= y
    BY <1>2, <1>3, TwoPow, PowGrows
  <2> QED BY <1>2, <1>3, <2>1, TwoPow
<1>5. Rebias = x - y /\ HExpMax = 2 * y - 1 /\ ExpMax = 2 * x - 1 /\ Drop = SM - HM
  BY <1>3, <1>4 DEF Rebias, HExpMax, ExpMax, Drop
<1>6. HM < x - y
  BY <1>1, <1>3
<1>7. /\ HExpMax \in Nat /\ ExpMax \in Nat /\ 3 <= HExpMax /\ HExpMax + Rebias < ExpMax
      /\ Rebias \in Nat /\ HM < Rebias
  BY <1>1, <1>3, <1>4, <1>5, <1>6
<1>8. HInf \in Nat /\ Inf \in Nat
  <2>1. \A a \in Nat, b \in Nat : a * b \in Nat
    BY Z3
  <2>2. Pow(2, HM) \in Nat /\ Pow(2, SM) \in Nat
    BY <1>1, TwoPow
  <2> QED BY <1>7, <2>1, <2>2 DEF HInf, Inf
<1> QED BY <1>1, <1>5, <1>7, <1>8

(* The values of the half patterns, up to infinity. *)
HalfTable == [k \in 0 .. HInf |-> HalfValue(k)]

(* They ascend with the pattern. *)
LEMMA HalfTableGrows ==
  Increasing(HalfTable, HInf)
<1>1. HM \in Nat /\ HInf \in Nat /\ Rebias + Drop \in Nat
  BY FormatFacts
<1>2. PICK g \in Nat \ {0} : g = Pow(2, Rebias + Drop)
  BY <1>1, TwoPow
<1>3. ASSUME NEW k \in Nat PROVE HalfValue(k) \in Nat /\ HalfValue(k) < HalfValue(k + 1)
  <2>1. PICK x \in Nat, y \in Nat : x = Magnitude(k, HM) /\ y = Magnitude(k + 1, HM) /\ x < y
    BY <1>1, MagnitudeGrows
  <2>2. g * x \in Nat /\ g * y \in Nat /\ g * x = x * g /\ g * y = y * g
    BY Z3
  <2>3. g * y > g * x
    BY <2>1, SameOrder
  <2> QED BY <1>2, <2>1, <2>2, <2>3 DEF HalfValue
<1>4. HalfTable \in [0 .. HInf -> Nat]
  <2>1. \A k \in 0 .. HInf : HalfValue(k) \in Nat
    BY <1>1, <1>3
  <2> QED BY <2>1 DEF HalfTable
<1>5. ASSUME NEW k \in 0 .. HInf - 1 PROVE HalfTable[k] < HalfTable[k + 1]
  <2>1. k \in 0 .. HInf /\ k + 1 \in 0 .. HInf /\ k \in Nat
    BY <1>1
  <2> QED BY <1>3, <2>1 DEF HalfTable
<1> QED BY <1>4, <1>5 DEF Increasing

(* Four times the values of the single patterns, up to infinity. *)
FourTable == [k \in 0 .. Inf |-> 4 * SingleValue(k)]

(* They ascend too. *)
LEMMA FourTableGrows ==
  Increasing(FourTable, Inf)
<1>1. SM \in Nat /\ Inf \in Nat
  BY FormatFacts
<1>2. ASSUME NEW k \in Nat PROVE 4 * SingleValue(k) \in Nat /\ 4 * SingleValue(k) < 4 * SingleValue(k + 1)
  <2>1. PICK x \in Nat, y \in Nat : x = Magnitude(k, SM) /\ y = Magnitude(k + 1, SM) /\ x < y
    BY <1>1, MagnitudeGrows
  <2> QED BY <2>1 DEF SingleValue
<1>3. FourTable \in [0 .. Inf -> Nat]
  <2>1. \A k \in 0 .. Inf : 4 * SingleValue(k) \in Nat
    BY <1>1, <1>2
  <2> QED BY <2>1 DEF FourTable
<1>4. ASSUME NEW k \in 0 .. Inf - 1 PROVE FourTable[k] < FourTable[k + 1]
  <2>1. k \in 0 .. Inf /\ k + 1 \in 0 .. Inf /\ k \in Nat
    BY <1>1
  <2> QED BY <1>2, <2>1 DEF FourTable
<1> QED BY <1>3, <1>4 DEF Increasing

(* A pattern: sign, exponent and fraction, disjoint. *)
PatternIs(x, E, F, s, e, f) ==
  /\ s \in {0, 1} /\ e \in 0 .. Pow(2, E) - 1 /\ f \in 0 .. Pow(2, F) - 1
  /\ x = s * Pow(2, E + F) + (e * Pow(2, F) + f)

(* Below the sign there is room for exponent and fraction. *)
LEMMA BelowSign ==
  ASSUME NEW E \in Nat, NEW F \in Nat, NEW e \in 0 .. Pow(2, E) - 1, NEW f \in 0 .. Pow(2, F) - 1
  PROVE  e * Pow(2, F) + f \in 0 .. Pow(2, E + F) - 1
<1>1. PICK m \in Nat \ {0}, n \in Nat \ {0} : m = Pow(2, E) /\ n = Pow(2, F) /\ Pow(2, E + F) = m * n
  <2>1. 2 \in Nat \ {0}
    OBVIOUS
  <2> QED BY <2>1, TwoPow, PowSum
<1>2. n * e + n <= n * m
  <2>1. e + 1 <= m /\ n \in Nat /\ e \in Int /\ m \in Int
    BY <1>1
  <2> QED BY <2>1, Multiples
<1>3. n * e = e * n /\ n * m = m * n /\ e * n \in Nat /\ m * n \in Nat
  <2>1. e \in Nat
    BY <1>1
  <2> QED BY <2>1, Z3
<1> QED BY <1>1, <1>2, <1>3

(* Sign and magnitude, exponent and fraction are read back. *)
LEMMA PatternParts ==
  ASSUME NEW E \in Nat, NEW F \in Nat, NEW x, NEW s, NEW e, NEW f, PatternIs(x, E, F, s, e, f)
  PROVE  /\ x \div Pow(2, E + F) = s /\ x % Pow(2, E + F) = e * Pow(2, F) + f
         /\ (x \div Pow(2, F)) % Pow(2, E) = e /\ x % Pow(2, F) = f
         /\ x \in 0 .. Pow(2, 1 + E + F) - 1
<1>1. /\ s \in {0, 1} /\ e \in 0 .. Pow(2, E) - 1 /\ f \in 0 .. Pow(2, F) - 1
      /\ x = s * Pow(2, E + F) + (e * Pow(2, F) + f)
  BY DEF PatternIs
<1>2. PICK m \in Nat \ {0}, n \in Nat \ {0}, q \in Nat \ {0} :
        m = Pow(2, E) /\ n = Pow(2, F) /\ q = Pow(2, E + F) /\ q = m * n /\ Pow(2, 1 + E + F) = 2 * q
  <2>1. 2 \in Nat \ {0} /\ E + F \in Nat /\ 1 + E + F = (E + F) + 1
    OBVIOUS
  <2>2. Pow(2, E + F) \in Nat \ {0} /\ Pow(2, E) \in Nat \ {0} /\ Pow(2, F) \in Nat \ {0}
    BY <2>1, TwoPow
  <2>3. Pow(2, E + F) = Pow(2, E) * Pow(2, F)
    BY <2>1, PowSum
  <2>4. Pow(2, (E + F) + 1) = 2 * Pow(2, E + F)
    BY <2>1, TwoPow
  <2> QED BY <2>1, <2>2, <2>3, <2>4
<1>3. PICK y \in Nat : y = e * n + f /\ y \in 0 .. q - 1
  <2>1. e * Pow(2, F) + f \in 0 .. Pow(2, E + F) - 1
    BY <1>1, BelowSign
  <2> QED BY <1>2, <2>1
<1>4. x = q * s + y /\ s \in Int /\ x \in Int /\ x \in 0 .. 2 * q - 1
  <2>1. x = s * q + y
    BY <1>1, <1>2, <1>3
  <2>2. CASE s = 0
    <3>1. x = y
      BY <1>3, <2>1, <2>2
    <3> QED BY <1>2, <1>3, <2>2, <3>1
  <2>3. CASE s = 1
    <3>1. x = q + y
      BY <1>3, <2>1, <2>3
    <3> QED BY <1>2, <1>3, <2>3, <3>1
  <2> QED BY <1>1, <2>2, <2>3
<1>5. x \div q = s /\ x % q = y
  BY <1>3, <1>4, QuotientIs
<1>6. PICK d \in Int : d = m * s + e
  <2>1. m * s + e \in Int
    BY <1>1
  <2> QED BY <2>1
<1>7. x = n * d + f
  <2>1. e \in Int /\ f \in Int /\ s \in Int
    BY <1>1, <1>2
  <2>2. x = (m * n) * s + (e * n + f)
    BY <1>2, <1>3, <1>4
  <2>3. (m * n) * s + (e * n + f) = n * (m * s + e) + f
    BY <2>1, Z3
  <2> QED BY <1>6, <2>2, <2>3
<1>8. x \div n = d /\ x % n = f
  <2>1. f \in 0 .. n - 1
    BY <1>1, <1>2
  <2> QED BY <1>4, <1>7, <2>1, QuotientIs
<1>9. d % m = e
  <2>1. e \in 0 .. m - 1 /\ s \in Int
    BY <1>1, <1>2
  <2> QED BY <1>6, <2>1, Remainder
<1> QED BY <1>2, <1>3, <1>4, <1>5, <1>8, <1>9

(* Every pattern has its parts. *)
LEMMA PatternThere ==
  ASSUME NEW E \in Nat, NEW F \in Nat, NEW x \in 0 .. Pow(2, 1 + E + F) - 1
  PROVE  \E s, e, f : PatternIs(x, E, F, s, e, f)
<1>1. PICK m \in Nat \ {0}, n \in Nat \ {0}, q \in Nat \ {0} :
        m = Pow(2, E) /\ n = Pow(2, F) /\ q = Pow(2, E + F) /\ q = m * n /\ Pow(2, 1 + E + F) = 2 * q
  <2>1. 2 \in Nat \ {0} /\ E + F \in Nat /\ 1 + E + F = (E + F) + 1
    OBVIOUS
  <2>2. Pow(2, E + F) \in Nat \ {0} /\ Pow(2, E) \in Nat \ {0} /\ Pow(2, F) \in Nat \ {0}
    BY <2>1, TwoPow
  <2>3. Pow(2, E + F) = Pow(2, E) * Pow(2, F)
    BY <2>1, PowSum
  <2>4. Pow(2, (E + F) + 1) = 2 * Pow(2, E + F)
    BY <2>1, TwoPow
  <2> QED BY <2>1, <2>2, <2>3, <2>4
<1>2. PICK s \in {0, 1}, y \in 0 .. q - 1 : x = s * q + y
  <2>1. CASE x < q
    <3>1. x \in 0 .. q - 1 /\ x = 0 * q + x /\ 0 \in {0, 1}
      BY <1>1, <2>1
    <3> QED BY <3>1
  <2>2. CASE x >= q
    <3>1. x - q \in 0 .. q - 1 /\ x = 1 * q + (x - q) /\ 1 \in {0, 1}
      BY <1>1, <2>2
    <3> QED BY <3>1
  <2> QED BY <1>1, <2>1, <2>2
<1>3. PICK e \in Nat, f \in 0 .. n - 1 : y = e * n + f
  <2>1. y \in Int /\ y \in Nat
    BY <1>2
  <2>2. y = n * (y \div n) + (y % n) /\ y % n \in 0 .. n - 1
    BY <2>1, Division
  <2>3. y \div n \in Nat
    BY <2>1, QuotientNat
  <2>4. n * (y \div n) = (y \div n) * n
    BY <2>3
  <2> QED BY <2>2, <2>3, <2>4
<1>4. e \in 0 .. m - 1
  <2>1. ASSUME m + 1 <= e + 1 PROVE FALSE
    <3>1. PICK d \in Nat : e = m + d
      <4>1. e - m \in Nat /\ e = m + (e - m)
        BY <2>1
      <4> QED BY <4>1
    <3>2. (m + d) * n = m * n + d * n /\ d * n \in Nat /\ m * n \in Nat
      BY Z3
    <3> QED BY <1>1, <1>2, <1>3, <3>1, <3>2
  <2> QED BY <2>1
<1>5. PatternIs(x, E, F, s, e, f)
  BY <1>1, <1>2, <1>3, <1>4 DEF PatternIs
<1> QED BY <1>5

(* Powers of two are ordered as their exponents are. *)
LEMMA PowUpTo ==
  ASSUME NEW m \in Nat, NEW n \in Nat, m <= n
  PROVE  Pow(2, m) <= Pow(2, n)
<1>1. Pow(2, m) \in Nat \ {0} /\ Pow(2, n) \in Nat \ {0}
  BY TwoPow
<1>2. CASE m = n
  BY <1>1, <1>2
<1>3. CASE m < n
  <2>1. 2 * Pow(2, m) <= Pow(2, n)
    BY <1>3, PowGrows
  <2> QED BY <1>1, <2>1
<1> QED BY <1>2, <1>3

(* Powers of two, multiplied. *)
LEMMA TwoPowSum ==
  ASSUME NEW m \in Nat, NEW n \in Nat
  PROVE  Pow(2, m + n) = Pow(2, m) * Pow(2, n)
<1>1. 2 \in Nat \ {0}
  OBVIOUS
<1> QED BY <1>1, PowSum

(* With significand w, from 2^F on with the hidden bit, patterns lie on lines. *)
LEMMA MagnitudeLine ==
  ASSUME NEW F \in Nat, NEW i \in Nat, NEW w \in 0 .. 2 * Pow(2, F), i > 0 => Pow(2, F) <= w
  PROVE  Magnitude(i * Pow(2, F) + w, F) = w * Pow(2, i)
<1>1. PICK n \in Nat \ {0} : n = Pow(2, F)
  BY TwoPow
<1>2. CASE w < n
  <2>1. i = 0 /\ w \in 0 .. n
    BY <1>1, <1>2
  <2>2. Magnitude(0 * n + w, F) = Grid(F, 0, w)
    <3>1. 0 \in Nat
      OBVIOUS
    <3> QED BY <1>1, <2>1, <3>1, MagnitudeAt
  <2>3. Pow(2, 0) = 1 /\ w * 1 = w
    BY <2>1, TwoPow
  <2> QED BY <1>1, <2>1, <2>2, <2>3 DEF Grid
<1>3. CASE n <= w
  <2>1. PICK f \in 0 .. n : f = w - n /\ w = n + f
    <3>1. w - n \in 0 .. n /\ w = n + (w - n)
      BY <1>1, <1>3
    <3> QED BY <3>1
  <2>2. Magnitude((i + 1) * n + f, F) = Grid(F, i + 1, f)
    <3>1. i + 1 \in Nat
      OBVIOUS
    <3> QED BY <1>1, <2>1, <3>1, MagnitudeAt
  <2>3. (i + 1) * n + f = i * n + w
    <3>1. i * n \in Nat /\ (i + 1) * n = i * n + n
      BY Z3
    <3> QED BY <2>1, <3>1
  <2>4. Grid(F, i + 1, f) = (n + f) * Pow(2, i)
    <3>1. i + 1 # 0 /\ (i + 1) - 1 = i
      OBVIOUS
    <3> QED BY <1>1, <3>1 DEF Grid
  <2> QED BY <1>1, <2>1, <2>2, <2>3, <2>4
<1> QED BY <1>1, <1>2, <1>3

(* A table of values with F fraction bits, in units of 2^-K. *)
OnLines(V, F, K, top) ==
  \A i \in Nat, w \in 0 .. 2 * Pow(2, F) :
    (i > 0 => Pow(2, F) <= w) /\ i * Pow(2, F) + w <= top => V[i * Pow(2, F) + w] = w * Pow(2, i + K)

(* The halves lie on lines, in units of the smallest single. *)
LEMMA HalfLines ==
  OnLines(HalfTable, HM, Rebias + Drop, HInf)
<1>1. HM \in Nat /\ Rebias + Drop \in Nat /\ HInf \in Nat
  BY FormatFacts
<1>2. ASSUME NEW i \in Nat, NEW w \in 0 .. 2 * Pow(2, HM), i > 0 => Pow(2, HM) <= w, i * Pow(2, HM) + w <= HInf
      PROVE  HalfTable[i * Pow(2, HM) + w] = w * Pow(2, i + (Rebias + Drop))
  <2>1. PICK n \in Nat \ {0}, a \in Nat, b \in Nat : n = Pow(2, HM) /\ a = Pow(2, i) /\ b = Pow(2, Rebias + Drop)
    BY <1>1, TwoPow
  <2>2. i * n + w \in 0 .. HInf
    <3>1. i * n \in Nat /\ w \in Nat
      BY <2>1, Z3
    <3> QED BY <1>1, <1>2, <2>1, <3>1
  <2>3. Magnitude(i * n + w, HM) = w * a
    BY <1>1, <1>2, <2>1, MagnitudeLine
  <2>4. HalfTable[i * n + w] = (w * a) * b
    BY <2>1, <2>2, <2>3 DEF HalfTable, HalfValue
  <2>5. Pow(2, i + (Rebias + Drop)) = a * b
    BY <1>1, <2>1, TwoPowSum
  <2>6. (w * a) * b = w * (a * b)
    <3>1. w \in Nat
      BY <2>1
    <3> QED BY <3>1, Z3
  <2> QED BY <2>1, <2>4, <2>5, <2>6
<1> QED BY <1>2 DEF OnLines

(* So do four times the singles. *)
LEMMA FourLines ==
  OnLines(FourTable, SM, 2, Inf)
<1>1. SM \in Nat /\ Inf \in Nat
  BY FormatFacts
<1>2. ASSUME NEW i \in Nat, NEW w \in 0 .. 2 * Pow(2, SM), i > 0 => Pow(2, SM) <= w, i * Pow(2, SM) + w <= Inf
      PROVE  FourTable[i * Pow(2, SM) + w] = w * Pow(2, i + 2)
  <2>1. PICK n \in Nat \ {0}, a \in Nat : n = Pow(2, SM) /\ a = Pow(2, i)
    BY <1>1, TwoPow
  <2>2. i * n + w \in 0 .. Inf
    <3>1. i * n \in Nat /\ w \in Nat
      BY <2>1, Z3
    <3> QED BY <1>1, <1>2, <2>1, <3>1
  <2>3. Magnitude(i * n + w, SM) = w * a
    BY <1>1, <1>2, <2>1, MagnitudeLine
  <2>4. FourTable[i * n + w] = 4 * (w * a)
    BY <2>1, <2>2, <2>3 DEF FourTable, SingleValue
  <2>5. Pow(2, i + 2) = 4 * a
    <3>1. i + 1 \in Nat /\ (i + 1) + 1 = i + 2
      OBVIOUS
    <3>2. Pow(2, i + 1) = 2 * a /\ Pow(2, (i + 1) + 1) = 2 * Pow(2, i + 1)
      BY <2>1, <3>1, TwoPow
    <3> QED BY <2>1, <3>1, <3>2
  <2>6. 4 * (w * a) = w * (4 * a)
    <3>1. w \in Nat
      BY <2>1
    <3> QED BY <3>1, Z3
  <2> QED BY <2>1, <2>4, <2>5, <2>6
<1> QED BY <1>2 DEF OnLines

(* A quotient by h has the powers of v less those of h. *)
LEMMA QuotientRange ==
  ASSUME NEW h \in Nat \ {0}, NEW v \in Nat, NEW a \in Nat
  PROVE  (v < h * a => v \div h < a) /\ (h * a <= v => a <= v \div h)
<1>1. PICK u \in Nat, r \in 0 .. h - 1 : u = v \div h /\ v = h * u + r
  <2>1. v \in Int
    OBVIOUS
  <2> QED BY <2>1, Division, QuotientNat
<1>2. a + 0 <= u => h * a <= h * u
  <2>1. CASE a = u
    BY <2>1
  <2>2. CASE a + 1 <= u
    <3>1. h * a + h <= h * u
      BY <2>2, Multiples
    <3>2. h * a \in Nat /\ h * u \in Nat
      BY Z3
    <3> QED BY <3>1, <3>2
  <2> QED BY <2>1, <2>2
<1>3. u + 1 <= a => h * u + h <= h * a
  BY Multiples
<1>4. h * a \in Nat /\ h * u \in Nat
  BY Z3
<1> QED BY <1>1, <1>2, <1>3, <1>4

(* Where the significand v, S bits longer than the fraction allows, is rounded,
   its pattern is the nearest one, also when rounding carries. *)
LEMMA RoundsOnLine ==
  ASSUME NEW V, NEW F \in Nat \ {0}, NEW K \in Nat, NEW top \in Nat, Increasing(V, top), OnLines(V, F, K, top),
         NEW i \in Nat, NEW j \in Nat, NEW S \in Nat \ {0}, S + j = i + K,
         NEW v \in Nat, v < Pow(2, F + 1 + S), i > 0 => Pow(2, F + S) <= v,
         (i + 2) * Pow(2, F) <= top
  PROVE  NearestIn(v * Pow(2, j), i * Pow(2, F) + RoundOf(v, Pow(2, S - 1)), V, top)
<1>1. PICK n \in Nat \ {0}, h \in Nat \ {0}, q \in Nat \ {0}, g \in Nat \ {0} :
        n = Pow(2, F) /\ h = Pow(2, S - 1) /\ q = Pow(2, S) /\ q = 2 * h /\ g = Pow(2, j)
  <2>1. S - 1 \in Nat /\ (S - 1) + 1 = S
    OBVIOUS
  <2> QED BY <2>1, TwoPow
<1>2. PICK u \in Nat : u = v \div q
  BY QuotientNat
<1>3. u < 2 * n
  <2>1. Pow(2, F + 1) = 2 * n /\ Pow(2, F + 1 + S) = Pow(2, F + 1) * q
    <3>1. F + 1 \in Nat
      OBVIOUS
    <3> QED BY <1>1, <3>1, TwoPow, TwoPowSum
  <2>2. (2 * n) * q = q * (2 * n) /\ 2 * n \in Nat
    BY Z3
  <2> QED BY <1>2, <2>1, <2>2, QuotientRange
<1>4. i > 0 => n <= u
  <2>1. Pow(2, F + S) = n * q
    BY <1>1, TwoPowSum
  <2>2. n * q = q * n
    BY Z3
  <2> QED BY <1>2, <2>1, <2>2, QuotientRange
<1>5. PICK p \in Nat : p = i * n /\ p + 2 * n <= top
  <2>1. (i + 2) * n = i * n + 2 * n /\ i * n \in Nat
    BY Z3
  <2> QED BY <1>1, <2>1
<1>6. p % 2 = 0
  <2>1. F - 1 \in Nat /\ (F - 1) + 1 = F
    OBVIOUS
  <2>2. PICK x \in Nat : n = 2 * x
    BY <1>1, <2>1, TwoPow
  <2>3. PICK y \in Nat : y = i * x
    <3>1. i * x \in Nat
      BY Z3
    <3> QED BY <3>1
  <2>4. p = 2 * y
    <3>1. i * (2 * x) = 2 * (i * x)
      BY Z3
    <3> QED BY <1>5, <2>2, <2>3, <3>1
  <2> QED BY <2>4
<1>7. p + u < top /\ p + (u + 1) <= top
  BY <1>3, <1>5
<1>8. g * q = Pow(2, i + K)
  <2>1. Pow(2, S + j) = q * g
    BY <1>1, TwoPowSum
  <2>2. q * g = g * q
    BY Z3
  <2> QED BY <2>1, <2>2
<1>9. ASSUME NEW w \in {u, u + 1} PROVE V[p + w] = g * (2 * h * w)
  <2>1. w \in 0 .. 2 * n /\ (i > 0 => n <= w) /\ p + w <= top
    BY <1>3, <1>4, <1>7, <1>9
  <2>2. V[i * n + w] = w * Pow(2, i + K)
    BY <1>1, <1>5, <2>1 DEF OnLines
  <2>3. w * (g * q) = g * (q * w)
    <3>1. w \in Nat
      OBVIOUS
    <3> QED BY <3>1, Z3
  <2> QED BY <1>1, <1>5, <1>8, <2>2, <2>3
<1>10. OnGrid(V, p, u, g, h)
  BY <1>9 DEF OnGrid
<1>11. NearestIn(g * v, p + RoundOf(v, h), V, top)
  BY <1>1, <1>2, <1>6, <1>7, <1>10, RoundOfIsNearest
<1>12. g * v = v * g
  BY Z3
<1> QED BY <1>1, <1>5, <1>11, <1>12

(* What is below a half of the unit rounds to 0. *)
LEMMA RoundsToZero ==
  ASSUME NEW h \in Nat \ {0}, NEW v \in Nat, v < h
  PROVE  RoundOf(v, h) = 0
<1>1. v = (2 * h) * 0 + v /\ v \in 0 .. (2 * h) - 1 /\ 2 * h \in Nat \ {0} /\ v \in Int /\ 0 \in Int
  OBVIOUS
<1>2. v \div (2 * h) = 0 /\ v % (2 * h) = v
  BY <1>1, QuotientIs
<1>3. ~RoundsUp(v, h, 0)
  BY DEF RoundsUp
<1> QED BY <1>2, <1>3 DEF RoundOf

(* The shift of the code, also by all its bits and more, rounds. *)
LEMMA ShiftIsRoundOf ==
  ASSUME NEW v \in Nat, v < Pow(2, SM + 1), NEW shift \in Nat \ {0}
  PROVE  round_shift_right_even_u64(v, shift) = RoundOf(v, Pow(2, shift - 1))
<1>1. shift - 1 \in Nat /\ (shift - 1) + 1 = shift /\ SM + 1 \in Nat /\ SM + 1 < Wide /\ Wide \in Nat
  BY FormatFacts
<1>2. PICK h \in Nat \ {0} : h = Pow(2, shift - 1) /\ Pow(2, shift) = 2 * h
  BY <1>1, TwoPow
<1>3. CASE shift >= Wide
  <2>1. v < h
    <3>1. SM + 1 <= shift - 1
      BY <1>1, <1>3
    <3>2. Pow(2, SM + 1) <= h /\ Pow(2, SM + 1) \in Nat
      BY <1>1, <1>2, <3>1, PowUpTo, TwoPow
    <3> QED BY <1>2, <3>2
  <2> QED BY <1>2, <1>3, <2>1, RoundsToZero DEF round_shift_right_even_u64
<1>4. CASE ~(shift >= Wide)
  <2>1. shift # 0
    OBVIOUS
  <2> QED BY <1>2, <1>4, <2>1 DEF round_shift_right_even_u64, RoundOf
<1> QED BY <1>3, <1>4

(* The value of a single. *)
LEMMA SingleAt ==
  ASSUME NEW e \in Nat, NEW f \in 0 .. Pow(2, SM) - 1
  PROVE  /\ e = 0 => SingleValue(e * Pow(2, SM) + f) = f * Pow(2, 0)
         /\ e > 0 => SingleValue(e * Pow(2, SM) + f) = (Hidden + f) * Pow(2, e - 1)
<1>1. SM \in Nat
  BY FormatFacts
<1>2. PICK n \in Nat \ {0} : n = Pow(2, SM) /\ n = Hidden
  BY <1>1, TwoPow DEF Hidden
<1>3. CASE e = 0
  <2>1. f \in 0 .. 2 * n /\ 0 \in Nat
    BY <1>2
  <2>2. Magnitude(0 * n + f, SM) = f * Pow(2, 0)
    BY <1>1, <1>2, <2>1, MagnitudeLine
  <2> QED BY <1>2, <1>3, <2>2 DEF SingleValue
<1>4. CASE e > 0
  <2>1. n + f \in 0 .. 2 * n /\ n <= n + f /\ e - 1 \in Nat
    BY <1>2, <1>4
  <2>2. Magnitude((e - 1) * n + (n + f), SM) = (n + f) * Pow(2, e - 1)
    BY <1>1, <1>2, <2>1, MagnitudeLine
  <2>3. (e - 1) * n + (n + f) = e * n + f
    <3>1. (e - 1) * n = e * n - n /\ e * n \in Int
      BY Z3
    <3> QED BY <1>2, <3>1
  <2> QED BY <1>2, <1>4, <2>2, <2>3 DEF SingleValue
<1> QED BY <1>3, <1>4

(* The half of a number with exponent e and fraction f. *)
HalfOfNumber(e, f) ==
  IF HExpMax + Rebias <= e THEN HInf
  ELSE IF Rebias < e THEN (e - Rebias - 1) * Pow(2, HM) + RoundOf(Hidden + f, Pow(2, Drop - 1))
  ELSE IF 0 < e THEN RoundOf(Hidden + f, Pow(2, Drop + Rebias - e))
  ELSE 0

(* It is the nearest. *)
LEMMA NumberRounds ==
  ASSUME NEW e \in Nat, NEW f \in 0 .. Pow(2, SM) - 1
  PROVE  NearestIn(SingleValue(e * Pow(2, SM) + f), HalfOfNumber(e, f), HalfTable, HInf)
<1> DEFINE value == SingleValue(e * Pow(2, SM) + f)
<1>1. /\ SM \in Nat /\ HM \in Nat \ {0} /\ Drop \in Nat \ {0} /\ SM = HM + Drop
      /\ Rebias \in Nat /\ HM < Rebias /\ HExpMax \in Nat /\ 3 <= HExpMax /\ HInf \in Nat
  BY FormatFacts
<1>2. Increasing(HalfTable, HInf) /\ OnLines(HalfTable, HM, Rebias + Drop, HInf) /\ Rebias + Drop \in Nat
  BY <1>1, HalfTableGrows, HalfLines
<1>3. PICK n \in Nat \ {0}, N \in Nat \ {0} : n = Pow(2, HM) /\ N = Pow(2, SM) /\ N = Hidden /\ Pow(2, SM + 1) = 2 * N
  BY <1>1, TwoPow DEF Hidden
<1>4. PICK v \in Nat : v = N + f /\ v < Pow(2, SM + 1) /\ N <= v
  <2>1. N + f \in Nat /\ N + f < 2 * N
    BY <1>3
  <2> QED BY <1>3, <2>1
<1>5. CASE HExpMax + Rebias <= e
  <2>1. e > 0 /\ e - 1 \in Nat /\ HExpMax - 2 \in Nat /\ HExpMax - 2 + (Rebias + Drop) \in Nat
    BY <1>1, <1>5
  <2>2. PICK y \in Nat \ {0}, z \in Nat \ {0} : y = Pow(2, e - 1) /\ z = Pow(2, HExpMax - 2 + (Rebias + Drop))
    BY <2>1, TwoPow
  <2>3. value = v * y
    BY <1>3, <1>4, <2>1, <2>2, SingleAt
  <2>4. HalfTable[HInf] = (2 * n) * z
    <3>1. 2 * n \in 0 .. 2 * n /\ n <= 2 * n
      OBVIOUS
    <3>2. (HExpMax - 2) * n + 2 * n = HInf
      <4>1. HExpMax * n \in Int /\ (HExpMax - 2) * n = HExpMax * n - 2 * n
        BY <1>1, Z3
      <4> QED BY <1>3, <4>1 DEF HInf
    <3>3. HInf <= HInf
      BY <1>1
    <3> QED BY <1>2, <1>3, <2>1, <2>2, <3>1, <3>2, <3>3 DEF OnLines
  <2>5. (2 * n) * z <= N * y
    <3>1. Pow(2, HM + 1) = 2 * n /\ HM + 1 \in Nat
      BY <1>1, <1>3, TwoPow
    <3>2. Pow(2, (HM + 1) + (HExpMax - 2 + (Rebias + Drop))) = (2 * n) * z
      BY <2>1, <2>2, <3>1, TwoPowSum
    <3>3. Pow(2, SM + (e - 1)) = N * y
      BY <1>1, <1>3, <2>1, <2>2, TwoPowSum
    <3>4. (HM + 1) + (HExpMax - 2 + (Rebias + Drop)) <= SM + (e - 1)
      BY <1>1, <1>5
    <3>5. (HM + 1) + (HExpMax - 2 + (Rebias + Drop)) \in Nat /\ SM + (e - 1) \in Nat
      BY <1>1, <2>1
    <3> QED BY <3>2, <3>3, <3>4, <3>5, PowUpTo
  <2>6. N * y <= v * y /\ v * y \in Nat /\ N * y \in Nat /\ (2 * n) * z \in Nat
    <3>1. f \in Nat /\ v = N + f
      BY <1>3, <1>4
    <3>2. (N + f) * y = N * y + f * y /\ f * y \in Nat /\ N * y \in Nat /\ (2 * n) * z \in Nat
      BY <3>1, Z3
    <3> QED BY <3>1, <3>2
  <2>7. HalfTable[HInf] <= value /\ value \in Nat
    BY <2>3, <2>4, <2>5, <2>6
  <2> HIDE DEF value
  <2>8. NearestIn(value, HInf, HalfTable, HInf)
    BY <1>1, <1>2, <2>7, LastIsNearest
  <2> QED BY <1>5, <2>8 DEF HalfOfNumber, value
<1>6. ASSUME NEW i \in Nat, i + 2 <= HExpMax PROVE (i + 2) * n <= HInf
  <2>1. CASE i + 2 = HExpMax
    <3>1. HExpMax * n <= HExpMax * n
      <4>1. HExpMax * n \in Int
        BY <1>1
      <4> QED BY <4>1
    <3> QED BY <1>3, <2>1, <3>1 DEF HInf
  <2>2. CASE (i + 2) + 1 <= HExpMax
    <3>1. n * (i + 2) + n <= n * HExpMax
      BY <1>1, <2>2, Multiples
    <3>2. n * (i + 2) = (i + 2) * n /\ n * HExpMax = HExpMax * n /\ (i + 2) * n \in Int /\ HExpMax * n \in Int
      BY <1>1, Z3
    <3> QED BY <1>3, <3>1, <3>2 DEF HInf
  <2> QED BY <1>1, <1>6, <2>1, <2>2
<1>7. CASE ~(HExpMax + Rebias <= e) /\ Rebias < e
  <2>1. PICK i \in Nat : i = e - Rebias - 1 /\ i + 2 <= HExpMax /\ Drop + (e - 1) = i + (Rebias + Drop)
    <3>1. e - Rebias - 1 \in Nat /\ (e - Rebias - 1) + 2 <= HExpMax
          /\ Drop + (e - 1) = (e - Rebias - 1) + (Rebias + Drop)
      BY <1>1, <1>7
    <3> QED BY <3>1
  <2>2. e > 0 /\ e - 1 \in Nat
    BY <1>1, <1>7
  <2>3. v < Pow(2, HM + 1 + Drop) /\ Pow(2, HM + Drop) <= v
    <3>1. HM + 1 + Drop = SM + 1 /\ HM + Drop = SM
      BY <1>1
    <3> QED BY <1>3, <1>4, <3>1
  <2>4. (i + 2) * Pow(2, HM) <= HInf
    BY <1>3, <1>6, <2>1
  <2>5. NearestIn(v * Pow(2, e - 1), i * Pow(2, HM) + RoundOf(v, Pow(2, Drop - 1)), HalfTable, HInf)
    BY <1>1, <1>2, <2>1, <2>2, <2>3, <2>4, RoundsOnLine
  <2>6. value = v * Pow(2, e - 1)
    BY <1>3, <1>4, <2>2, SingleAt
  <2>7. HalfOfNumber(e, f) = i * Pow(2, HM) + RoundOf(v, Pow(2, Drop - 1))
    BY <1>3, <1>4, <1>7, <2>1 DEF HalfOfNumber
  <2> QED BY <2>5, <2>6, <2>7
<1>8. 0 \in Nat /\ 0 + 2 <= HExpMax
  BY <1>1
<1>9. (0 + 2) * Pow(2, HM) <= HInf
  BY <1>3, <1>6, <1>8
<1>10. ASSUME NEW x \in Nat PROVE 0 * Pow(2, HM) + x = x
  BY <1>3
<1>11. CASE ~(Rebias < e) /\ 0 < e
  <2>1. PICK S \in Nat \ {0} : S = Drop + Rebias - e + 1 /\ S - 1 = Drop + Rebias - e /\ S + (e - 1) = 0 + (Rebias + Drop)
                             /\ SM + 1 <= HM + 1 + S
    <3>1. Drop + Rebias - e + 1 \in Nat \ {0} /\ (Drop + Rebias - e + 1) - 1 = Drop + Rebias - e
          /\ (Drop + Rebias - e + 1) + (e - 1) = 0 + (Rebias + Drop)
          /\ SM + 1 <= HM + 1 + (Drop + Rebias - e + 1)
      BY <1>1, <1>11
    <3> QED BY <3>1
  <2>2. e - 1 \in Nat /\ ~(0 > 0)
    BY <1>11
  <2>3. v < Pow(2, HM + 1 + S)
    <3>1. SM + 1 \in Nat /\ HM + 1 + S \in Nat
      BY <1>1
    <3>2. Pow(2, SM + 1) <= Pow(2, HM + 1 + S) /\ Pow(2, SM + 1) \in Nat /\ Pow(2, HM + 1 + S) \in Nat
      BY <2>1, <3>1, PowUpTo, TwoPow
    <3> QED BY <1>4, <3>2
  <2>4. NearestIn(v * Pow(2, e - 1), 0 * Pow(2, HM) + RoundOf(v, Pow(2, S - 1)), HalfTable, HInf)
    BY <1>1, <1>2, <1>8, <1>9, <2>1, <2>2, <2>3, RoundsOnLine
  <2>5. value = v * Pow(2, e - 1)
    BY <1>3, <1>4, <1>11, SingleAt
  <2>6. RoundOf(v, Pow(2, S - 1)) \in Nat
    <3>1. PICK h \in Nat \ {0}, q \in Nat \ {0} : h = Pow(2, S - 1) /\ q = 2 * h
      <4>1. S - 1 \in Nat
        OBVIOUS
      <4>2. \A h \in Nat \ {0} : 2 * h \in Nat \ {0}
        OBVIOUS
      <4> QED BY <4>1, <4>2, TwoPow
    <3>2. v \div q \in Nat
      BY QuotientNat
    <3> QED BY <3>1, <3>2 DEF RoundOf
  <2>7. HalfOfNumber(e, f) = RoundOf(v, Pow(2, S - 1))
    <3>1. ~(HExpMax + Rebias <= e)
      BY <1>1, <1>11
    <3> QED BY <1>3, <1>4, <1>11, <2>1, <3>1 DEF HalfOfNumber
  <2> QED BY <1>10, <2>4, <2>5, <2>6, <2>7
<1>12. CASE e = 0
  <2>1. PICK S \in Nat \ {0} : S = Rebias + Drop /\ S + 0 = 0 + (Rebias + Drop) /\ SM <= S - 1 /\ S - 1 \in Nat
                               /\ SM <= HM + 1 + S
    <3>1. /\ Rebias + Drop \in Nat \ {0} /\ (Rebias + Drop) + 0 = 0 + (Rebias + Drop) /\ SM <= (Rebias + Drop) - 1
          /\ (Rebias + Drop) - 1 \in Nat /\ SM <= HM + 1 + (Rebias + Drop)
      BY <1>1
    <3> QED BY <3>1
  <2>2. f \in Nat /\ ~(0 > 0)
    OBVIOUS
  <2>3. f < Pow(2, HM + 1 + S) /\ f < Pow(2, S - 1)
    <3>1. HM + 1 + S \in Nat
      BY <1>1
    <3>2. N <= Pow(2, HM + 1 + S) /\ N <= Pow(2, S - 1) /\ Pow(2, HM + 1 + S) \in Nat /\ Pow(2, S - 1) \in Nat \ {0}
      <4>1. N <= Pow(2, HM + 1 + S)
        BY <1>1, <1>3, <2>1, <3>1, PowUpTo
      <4>2. N <= Pow(2, S - 1)
        BY <1>1, <1>3, <2>1, PowUpTo
      <4> QED BY <2>1, <3>1, <4>1, <4>2, TwoPow
    <3> QED BY <1>3, <3>2
  <2>4. NearestIn(f * Pow(2, 0), 0 * Pow(2, HM) + RoundOf(f, Pow(2, S - 1)), HalfTable, HInf)
    BY <1>1, <1>2, <1>8, <1>9, <2>1, <2>2, <2>3, RoundsOnLine
  <2>5. RoundOf(f, Pow(2, S - 1)) = 0
    <3>1. Pow(2, S - 1) \in Nat \ {0}
      BY <2>1, TwoPow
    <3> QED BY <2>2, <2>3, <3>1, RoundsToZero
  <2>6. value = f * Pow(2, 0)
    BY <1>12, SingleAt
  <2>7. HalfOfNumber(e, f) = 0
    BY <1>1, <1>12 DEF HalfOfNumber
  <2> QED BY <1>10, <2>4, <2>5, <2>6, <2>7
<1> QED BY <1>5, <1>7, <1>11, <1>12

(* A rounded quotient is in the range of the exact one, its upper end included. *)
LEMMA RoundOfRange ==
  ASSUME NEW h \in Nat \ {0}, NEW v \in Nat, NEW a \in Nat
  PROVE  /\ RoundOf(v, h) \in Nat
         /\ v < (2 * h) * a => RoundOf(v, h) <= a
         /\ (2 * h) * a <= v => a <= RoundOf(v, h)
<1>1. PICK q \in Nat \ {0} : q = 2 * h
  <2>1. 2 * h \in Nat \ {0}
    OBVIOUS
  <2> QED BY <2>1
<1>2. PICK u \in Nat : u = v \div q
  BY QuotientNat
<1>3. (v < q * a => u < a) /\ (q * a <= v => a <= u)
  BY <1>2, QuotientRange
<1>4. RoundOf(v, h) \in {u, u + 1}
  BY <1>1, <1>2 DEF RoundOf
<1> QED BY <1>1, <1>3, <1>4

(* Sign bits are numbers. *)
LEMMA SignsAre ==
  ASSUME NEW s \in {0, 1}
  PROVE  HSign(s) \in Nat /\ SSign(s) \in Nat
<1>1. SE \in Nat /\ SM \in Nat /\ HE \in Nat /\ HM \in Nat
  BY FormatFacts
<1>2. HE + HM \in Nat /\ SE + SM \in Nat
  BY <1>1
<1>3. PICK x \in Nat, y \in Nat : x = Pow(2, HE + HM) /\ y = Pow(2, SE + SM)
  BY <1>2, TwoPow
<1>4. s * x \in Nat /\ s * y \in Nat
  BY Z3
<1> QED BY <1>3, <1>4 DEF HSign, SSign

(* Packing: a fraction with its hidden bit loses it. *)
LEMMA PackIs ==
  ASSUME NEW s \in {0, 1}, NEW e \in Nat
  PROVE  /\ pack_f16(s, e, 0) = HSign(s) + e * Pow(2, HM)
         /\ \A r \in Pow(2, HM) .. 2 * Pow(2, HM) - 1 :
              pack_f16(s, e + 1, r) = HSign(s) + (e * Pow(2, HM) + r)
<1>1. HM \in Nat
  BY FormatFacts
<1>2. PICK n \in Nat \ {0}, x \in Nat : n = Pow(2, HM) /\ x = HSign(s)
  BY <1>1, TwoPow, SignsAre
<1>3. PICK y \in Nat : y = e * n /\ (e + 1) * n = y + n
  <2>1. e * n \in Nat /\ (e + 1) * n = e * n + n
    BY Z3
  <2> QED BY <2>1
<1>4. 0 % n = 0
  <2>1. 0 = n * 0 + 0 /\ 0 \in 0 .. n - 1 /\ 0 \in Int
    OBVIOUS
  <2> QED BY <2>1, QuotientIs
<1>5. pack_f16(s, e, 0) = HSign(s) + e * Pow(2, HM)
  BY <1>2, <1>3, <1>4 DEF pack_f16
<1>6. ASSUME NEW r \in n .. 2 * n - 1 PROVE pack_f16(s, e + 1, r) = x + (y + r)
  <2>1. r = n * 1 + (r - n) /\ r - n \in 0 .. n - 1 /\ 1 \in Int /\ r \in Int
    OBVIOUS
  <2>2. r % n = r - n
    BY <2>1, QuotientIs
  <2> QED BY <1>2, <1>3, <2>2 DEF pack_f16
<1> QED BY <1>2, <1>3, <1>5, <1>6

(* A number that is not subnormal in single precision: Rounded gives its half,
   whether it overflows, carries or becomes subnormal. *)
LEMMA RoundedIs ==
  ASSUME NEW s \in {0, 1}, NEW e \in Nat \ {0}, NEW f \in 0 .. Pow(2, SM) - 1
  PROVE  Rounded(s, Hidden + f, e - Rebias) = HSign(s) + HalfOfNumber(e, f)
<1>1. /\ SM \in Nat /\ HM \in Nat \ {0} /\ Drop \in Nat \ {0} /\ SM = HM + Drop
      /\ Rebias \in Nat /\ HM < Rebias /\ HExpMax \in Nat /\ 3 <= HExpMax /\ HInf \in Nat
  BY FormatFacts
<1>2. PICK n \in Nat \ {0}, N \in Nat \ {0} :
        n = Pow(2, HM) /\ N = Pow(2, SM) /\ N = Hidden /\ Pow(2, SM + 1) = 2 * N /\ Pow(2, HM + 1) = 2 * n
  BY <1>1, TwoPow DEF Hidden
<1>3. PICK v \in Nat : v = Hidden + f /\ v < Pow(2, SM + 1) /\ N <= v
  <2>1. N + f \in Nat /\ N + f < 2 * N
    BY <1>2
  <2> QED BY <1>2, <2>1
<1>4. PICK he \in Int : he = e - Rebias
  <2>1. e - Rebias \in Int
    BY <1>1
  <2> QED BY <2>1
<1>5. HInf = HExpMax * n /\ HSign(s) \in Nat
  BY <1>2, SignsAre DEF HInf
<1>6. CASE he >= HExpMax
  <2>1. HExpMax + Rebias <= e
    BY <1>1, <1>4, <1>6
  <2>2. pack_f16(s, HExpMax, 0) = HSign(s) + HExpMax * n
    BY <1>1, <1>2, PackIs
  <2> QED BY <1>3, <1>4, <1>5, <1>6, <2>1, <2>2 DEF Rounded, HalfOfNumber
<1>7. CASE ~(he >= HExpMax) /\ he > 0
  <2>1. PICK r \in Nat : r = round_shift_right_even_u64(v, Drop) /\ r = RoundOf(v, Pow(2, Drop - 1)) /\ n <= r /\ r <= 2 * n
    <3>1. Drop - 1 \in Nat /\ (Drop - 1) + 1 = Drop
      BY <1>1
    <3>2. PICK h \in Nat \ {0} : h = Pow(2, Drop - 1) /\ Pow(2, Drop) = 2 * h
      BY <3>1, TwoPow
    <3>3. PICK q \in Nat \ {0} : q = 2 * h
      <4>1. 2 * h \in Nat \ {0}
        OBVIOUS
      <4> QED BY <4>1
    <3>4. N = q * n /\ 2 * N = q * (2 * n)
      <4>1. Pow(2, HM + Drop) = n * q
        BY <1>1, <1>2, <3>2, <3>3, TwoPowSum
      <4>2. n * q = q * n /\ 2 * (n * q) = q * (2 * n)
        BY Z3
      <4> QED BY <1>1, <1>2, <4>1, <4>2
    <3>5. RoundOf(v, h) \in Nat /\ (v < q * (2 * n) => RoundOf(v, h) <= 2 * n) /\ (q * n <= v => n <= RoundOf(v, h))
      <4>1. 2 * n \in Nat /\ n \in Nat
        OBVIOUS
      <4> QED BY <3>3, <4>1, RoundOfRange
    <3>6. round_shift_right_even_u64(v, Drop) = RoundOf(v, h)
      BY <1>1, <1>3, <3>2, ShiftIsRoundOf
    <3> QED BY <1>2, <1>3, <3>2, <3>4, <3>5, <3>6
  <2>2. PICK i \in Nat : he = i + 1 /\ i = e - Rebias - 1 /\ i + 2 <= HExpMax
    <3>1. e - Rebias - 1 \in Nat /\ he = (e - Rebias - 1) + 1 /\ (e - Rebias - 1) + 2 <= HExpMax
      BY <1>1, <1>4, <1>7
    <3> QED BY <3>1
  <2>3. HalfOfNumber(e, f) = i * n + r
    <3>1. ~(HExpMax + Rebias <= e) /\ Rebias < e
      BY <1>1, <1>4, <1>7
    <3> QED BY <1>2, <1>3, <2>1, <2>2, <3>1 DEF HalfOfNumber
  <2>4. CASE r # 2 * n
    <3>1. r \in n .. 2 * n - 1
      BY <2>1, <2>4
    <3>2. pack_f16(s, i + 1, r) = HSign(s) + (i * n + r)
      BY <1>2, <3>1, PackIs
    <3>3. Rounded(s, v, he) = pack_f16(s, he, r)
      BY <1>2, <1>7, <2>1, <2>4 DEF Rounded
    <3> QED BY <1>3, <1>4, <2>2, <2>3, <3>2, <3>3
  <2>5. CASE r = 2 * n
    <3>1. i * n + r = (i + 2) * n
      BY <2>5, Z3
    <3>2. CASE i + 2 = HExpMax
      <4>1. Rounded(s, v, he) = pack_f16(s, HExpMax, 0)
        BY <1>2, <1>7, <2>1, <2>2, <2>5, <3>2 DEF Rounded
      <4>2. pack_f16(s, HExpMax, 0) = HSign(s) + HExpMax * n
        BY <1>1, <1>2, PackIs
      <4> QED BY <1>3, <1>4, <2>3, <3>1, <3>2, <4>1, <4>2
    <3>3. CASE i + 2 # HExpMax
      <4>1. ~(he + 1 >= HExpMax) /\ he + 1 = i + 2
        BY <1>1, <2>2, <3>3
      <4>2. Rounded(s, v, he) = pack_f16(s, i + 2, 0)
        BY <1>2, <1>7, <2>1, <2>5, <4>1 DEF Rounded
      <4>3. pack_f16(s, i + 2, 0) = HSign(s) + (i + 2) * n
        <5>1. i + 2 \in Nat
          OBVIOUS
        <5> QED BY <1>2, <5>1, PackIs
      <4> QED BY <1>3, <1>4, <2>3, <3>1, <4>2, <4>3
    <3> QED BY <3>2, <3>3
  <2> QED BY <2>4, <2>5
<1>8. CASE ~(he > 0)
  <2>1. PICK shift \in Nat \ {0} : shift = Drop + 1 - he /\ shift - 1 = Drop + Rebias - e /\ shift - 1 \in Nat
                                 /\ SM + 1 <= HM + shift
    <3>1. Drop + 1 - he \in Nat \ {0} /\ (Drop + 1 - he) - 1 = Drop + Rebias - e /\ (Drop + 1 - he) - 1 \in Nat
          /\ SM + 1 <= HM + (Drop + 1 - he)
      BY <1>1, <1>4, <1>8
    <3> QED BY <3>1
  <2>2. PICK r \in Nat : r = round_shift_right_even_u64(v, shift) /\ r = RoundOf(v, Pow(2, shift - 1)) /\ r <= n
    <3>1. PICK h \in Nat \ {0} : h = Pow(2, shift - 1) /\ Pow(2, shift) = 2 * h
      <4>1. (shift - 1) + 1 = shift
        OBVIOUS
      <4> QED BY <2>1, <4>1, TwoPow
    <3>2. PICK q \in Nat \ {0} : q = 2 * h
      <4>1. 2 * h \in Nat \ {0}
        OBVIOUS
      <4> QED BY <4>1
    <3>3. v < q * n
      <4>1. Pow(2, HM + shift) = n * q /\ HM + shift \in Nat /\ SM + 1 \in Nat
        BY <1>1, <1>2, <3>1, <3>2, TwoPowSum
      <4>2. Pow(2, SM + 1) <= Pow(2, HM + shift)
        BY <2>1, <4>1, PowUpTo
      <4>3. n * q = q * n /\ q * n \in Nat /\ 2 * N \in Nat
        BY Z3
      <4> QED BY <1>2, <1>3, <4>1, <4>2, <4>3
    <3>4. RoundOf(v, h) \in Nat /\ (v < q * n => RoundOf(v, h) <= n)
      <4>1. n \in Nat
        OBVIOUS
      <4> QED BY <3>2, <4>1, RoundOfRange
    <3>5. round_shift_right_even_u64(v, shift) = RoundOf(v, h)
      BY <1>3, <3>1, ShiftIsRoundOf
    <3> QED BY <3>1, <3>3, <3>4, <3>5
  <2>3. HalfOfNumber(e, f) = r
    <3>1. ~(HExpMax + Rebias <= e) /\ ~(Rebias < e) /\ 0 < e
      BY <1>1, <1>4, <1>8
    <3> QED BY <1>3, <2>1, <2>2, <3>1 DEF HalfOfNumber
  <2>4. Rounded(s, v, he) = IF r >= n THEN pack_f16(s, 1, 0) ELSE HSign(s) + r
    <3>1. ~(he >= HExpMax)
      BY <1>1, <1>8
    <3> QED BY <1>2, <1>8, <2>1, <2>2, <3>1 DEF Rounded
  <2>5. r >= n => pack_f16(s, 1, 0) = HSign(s) + r
    <3>1. pack_f16(s, 1, 0) = HSign(s) + 1 * n
      BY <1>2, PackIs
    <3> QED BY <2>2, <3>1
  <2> QED BY <1>3, <1>4, <2>3, <2>4, <2>5
<1> QED BY <1>6, <1>7, <1>8

(* The leading bit of a fraction comes to the hidden bit's place by some shift. *)
LEMMA LeadIs ==
  ASSUME NEW F \in Nat, NEW f \in 1 .. Pow(2, F) - 1
  PROVE  /\ Lead(f, F) \in 1 .. F
         /\ Pow(2, F) <= f * Pow(2, Lead(f, F)) /\ f * Pow(2, Lead(f, F)) < Pow(2, F + 1)
<1>1. PICK n \in Nat \ {0} : n = Pow(2, F) /\ Pow(2, F + 1) = 2 * n
  BY TwoPow
<1>2. f \in Nat \ {0} /\ f < n
  BY <1>1
<1> DEFINE T == {s \in Nat : n <= f * Pow(2, s)}
<1>3. F \in T
  <2>1. PICK d \in Nat : f = 1 + d
    <3>1. f - 1 \in Nat /\ f = 1 + (f - 1)
      BY <1>2
    <3> QED BY <3>1
  <2>2. (1 + d) * n = n + d * n /\ d * n \in Nat
    BY Z3
  <2> QED BY <1>1, <2>1, <2>2
<1>4. PICK s \in T : \A t \in T : s <= t
  <2>1. T \in SUBSET Nat
    OBVIOUS
  <2> HIDE DEF T
  <2> QED BY <1>3, <2>1, LeastNumber
<1>5. s \in Nat /\ s <= F /\ n <= f * Pow(2, s)
  BY <1>3, <1>4
<1>6. s # 0
  <2>1. Pow(2, 0) = 1 /\ f * 1 = f
    BY <1>2, TwoPow
  <2> QED BY <1>1, <1>2, <1>5, <2>1
<1>7. s - 1 \in Nat /\ ~(s <= s - 1) /\ (s - 1) + 1 = s
  BY <1>5, <1>6
<1>8. PICK x \in Nat \ {0} : x = Pow(2, s - 1) /\ Pow(2, s) = 2 * x
  BY <1>7, TwoPow
<1>9. f * (2 * x) < 2 * n
  <2>1. ~(n <= f * x)
    BY <1>4, <1>7, <1>8
  <2>2. f * x \in Nat /\ f * (2 * x) = 2 * (f * x)
    BY <1>2, Z3
  <2> QED BY <2>1, <2>2
<1> DEFINE Fits(t) == Pow(2, F) <= f * Pow(2, t) /\ f * Pow(2, t) < Pow(2, F + 1)
<1>10. s \in 0 .. F /\ Fits(s)
  BY <1>1, <1>5, <1>8, <1>9
<1>11. Lead(f, F) = CHOOSE t \in 0 .. F : Fits(t)
  BY Zenon DEF Lead
<1>12. ASSUME NEW t \in 0 .. F, Fits(t) PROVE t # 0
  <2>1. Pow(2, 0) = 1 /\ f * 1 = f
    BY <1>2, TwoPow
  <2> QED BY <1>1, <1>2, <1>12, <2>1
<1> HIDE DEF Fits
<1>13. Lead(f, F) \in 0 .. F /\ Fits(Lead(f, F))
  BY <1>10, <1>11, Zenon
<1>14. Lead(f, F) # 0
  BY <1>12, <1>13
<1>15. Lead(f, F) \in 1 .. F
  BY <1>13, <1>14
<1> QED BY <1>13, <1>15 DEF Fits

(* A subnormal single becomes 0: it is shifted by more bits than it has. *)
LEMMA TinyIs ==
  ASSUME NEW s \in {0, 1}, NEW v \in Nat, v < Pow(2, SM + 1), NEW he \in Int, he < 1 - Rebias
  PROVE  Rounded(s, v, he) = HSign(s)
<1>1. /\ SM \in Nat /\ HM \in Nat \ {0} /\ Drop \in Nat \ {0} /\ SM = HM + Drop
      /\ Rebias \in Nat /\ HM < Rebias /\ HExpMax \in Nat /\ 3 <= HExpMax
  BY FormatFacts
<1>2. PICK shift \in Nat \ {0} : shift = Drop + 1 - he /\ shift - 1 \in Nat /\ SM + 1 <= shift - 1
  <2>1. Drop + 1 - he \in Nat \ {0} /\ (Drop + 1 - he) - 1 \in Nat /\ SM + 1 <= (Drop + 1 - he) - 1
    BY <1>1
  <2> QED BY <2>1
<1>3. PICK h \in Nat \ {0} : h = Pow(2, shift - 1) /\ v < h
  <2>1. SM + 1 \in Nat
    BY <1>1
  <2>2. Pow(2, SM + 1) <= Pow(2, shift - 1) /\ Pow(2, SM + 1) \in Nat /\ Pow(2, shift - 1) \in Nat \ {0}
    BY <1>2, <2>1, PowUpTo, TwoPow
  <2> QED BY <2>2
<1>4. round_shift_right_even_u64(v, shift) = 0
  <2>1. RoundOf(v, h) = 0
    BY <1>3, RoundsToZero
  <2> QED BY <1>3, <2>1, ShiftIsRoundOf
<1>5. Pow(2, HM) \in Nat \ {0} /\ HSign(s) \in Nat
  BY <1>1, TwoPow, SignsAre
<1>6. ~(he >= HExpMax) /\ ~(he > 0)
  BY <1>1
<1>7. Rounded(s, v, he) = HSign(s) + 0
  BY <1>2, <1>4, <1>5, <1>6 DEF Rounded
<1> QED BY <1>5, <1>7

(* What a single has. *)
LEMMA SingleParts ==
  ASSUME NEW uf, NEW s, NEW e, NEW f, PatternIs(uf, SE, SM, s, e, f)
  PROVE  /\ Sign(uf) = s /\ Exp(uf) = e /\ Frac(uf) = f /\ uf % Pow(2, SE + SM) = e * Pow(2, SM) + f
         /\ uf \in Singles /\ s \in {0, 1} /\ e \in 0 .. ExpMax /\ f \in 0 .. Pow(2, SM) - 1 /\ e \in Nat
<1>1. SE \in Nat /\ SM \in Nat
  BY FormatFacts
<1>2. /\ uf \div Pow(2, SE + SM) = s /\ uf % Pow(2, SE + SM) = e * Pow(2, SM) + f
      /\ (uf \div Pow(2, SM)) % Pow(2, SE) = e /\ uf % Pow(2, SM) = f
      /\ uf \in 0 .. Pow(2, 1 + SE + SM) - 1
  BY <1>1, PatternParts
<1>3. s \in {0, 1} /\ e \in 0 .. Pow(2, SE) - 1 /\ f \in 0 .. Pow(2, SM) - 1
  BY DEF PatternIs
<1>4. Pow(2, SE) \in Nat
  BY <1>1, TwoPow
<1> QED BY <1>2, <1>3, <1>4 DEF Sign, Exp, Frac, Singles, ExpMax

(* What the reference converts to. *)
LEMMA RefIs ==
  ASSUME NEW uf, NEW s, NEW e, NEW f, PatternIs(uf, SE, SM, s, e, f)
  PROVE  float32_to_float16_ref(uf)
           = HSign(s) + IF e = ExpMax /\ f # 0 THEN HInf + Payload(f) ELSE HalfOfNumber(e, f)
<1>1. /\ SM \in Nat /\ Rebias \in Nat /\ HM < Rebias /\ HM \in Nat
      /\ HExpMax \in Nat /\ HInf \in Nat /\ ExpMax \in Nat /\ HExpMax + Rebias < ExpMax
  BY FormatFacts
<1>2. /\ Sign(uf) = s /\ Exp(uf) = e /\ Frac(uf) = f
      /\ s \in {0, 1} /\ e \in 0 .. ExpMax /\ f \in 0 .. Pow(2, SM) - 1 /\ e \in Nat
  BY SingleParts
<1>3. HSign(s) \in Nat
  BY <1>2, SignsAre
<1>4. CASE e = ExpMax
  <2>1. HalfOfNumber(e, f) = HInf
    BY <1>1, <1>4 DEF HalfOfNumber
  <2>2. float32_to_float16_ref(uf) = HSign(s) + (HInf + IF f = 0 THEN 0 ELSE Payload(f))
    <3>1. float32_to_float16_ref(uf) = HSign(s) + HInf + IF f = 0 THEN 0 ELSE Payload(f)
      BY <1>2, <1>4 DEF float32_to_float16_ref
    <3>2. HSign(s) + HInf + (IF f = 0 THEN 0 ELSE Payload(f)) = HSign(s) + (HInf + IF f = 0 THEN 0 ELSE Payload(f))
      <4>1. (IF f = 0 THEN 0 ELSE Payload(f)) \in Nat
        <5>1. Drop \in Nat /\ HM - 1 \in Nat
          BY FormatFacts
        <5>2. Pow(2, Drop) \in Nat \ {0} /\ Quiet \in Nat /\ f \in Nat
          BY <1>2, <5>1, TwoPow DEF Quiet
        <5>3. f \div Pow(2, Drop) \in Nat
          BY <5>2, QuotientNat
        <5> QED BY <5>2, <5>3 DEF Payload
      <4> QED BY <1>1, <1>3, <4>1
    <3> QED BY <3>1, <3>2
  <2>3. HInf + 0 = HInf
    BY <1>1
  <2> QED BY <1>4, <2>1, <2>2, <2>3
<1>5. CASE e # ExpMax /\ e = 0
  <2>1. HalfOfNumber(e, f) = 0 /\ HSign(s) + 0 = HSign(s)
    <3>1. ~(HExpMax + Rebias <= 0) /\ ~(Rebias < 0) /\ ~(0 < 0)
      BY <1>1, FormatFacts
    <3> QED BY <1>3, <1>5, <3>1 DEF HalfOfNumber
  <2>2. CASE f = 0
    BY <1>2, <1>5, <2>1, <2>2 DEF float32_to_float16_ref
  <2>3. CASE f # 0
    <3>1. PICK t \in Nat : t = Lead(f, SM) /\ t \in 1 .. SM /\ f * Pow(2, t) < Pow(2, SM + 1)
      <4>1. f \in 1 .. Pow(2, SM) - 1
        BY <1>2, <2>3
      <4> QED BY <1>1, <4>1, LeadIs
    <3>2. f * Pow(2, t) \in Nat
      <4>1. PICK x \in Nat, y \in Nat : x = f /\ y = Pow(2, t)
        <5>1. f \in Nat
          BY <1>2
        <5>2. Pow(2, t) \in Nat
          BY TwoPow
        <5> QED BY <5>1, <5>2
      <4>2. x * y \in Nat
        BY Z3
      <4> QED BY <4>1, <4>2
    <3>3. 1 - t - Rebias \in Int /\ 1 - t - Rebias < 1 - Rebias
      BY <1>1, <3>1
    <3>4. Rounded(s, f * Pow(2, t), 1 - t - Rebias) = HSign(s)
      BY <1>2, <3>1, <3>2, <3>3, TinyIs
    <3> QED BY <1>2, <1>5, <2>1, <2>3, <3>1, <3>4 DEF float32_to_float16_ref
  <2> QED BY <2>2, <2>3
<1>6. CASE e # ExpMax /\ e # 0
  <2>1. Rounded(s, Hidden + f, e - Rebias) = HSign(s) + HalfOfNumber(e, f)
    BY <1>2, <1>6, RoundedIs
  <2> QED BY <1>2, <1>6, <2>1 DEF float32_to_float16_ref
<1> QED BY <1>4, <1>5, <1>6

(* And the reference of fp16_lab. *)
LEMMA LabRefIs ==
  ASSUME NEW uf, NEW s, NEW e, NEW f, PatternIs(uf, SE, SM, s, e, f)
  PROVE  fp16_lab_ref(uf)
           = HSign(s) + IF e = ExpMax /\ f # 0 THEN HInf + Quiet ELSE HalfOfNumber(e, f)
<1>1. Rebias \in Nat /\ HExpMax \in Nat /\ 3 <= HExpMax /\ HInf \in Nat /\ ExpMax \in Nat /\ HM \in Nat \ {0}
  BY FormatFacts
<1>2. /\ Sign(uf) = s /\ Exp(uf) = e /\ Frac(uf) = f
      /\ s \in {0, 1} /\ e \in 0 .. ExpMax /\ f \in 0 .. Pow(2, SM) - 1 /\ e \in Nat
  BY SingleParts
<1>3. HSign(s) \in Nat /\ Quiet \in Nat
  <2>1. HM - 1 \in Nat
    BY <1>1
  <2> QED BY <1>2, <2>1, SignsAre, TwoPow DEF Quiet
<1>4. CASE e = ExpMax /\ f # 0
  <2>1. fp16_lab_ref(uf) = HSign(s) + HInf + Quiet
    BY <1>2, <1>4 DEF fp16_lab_ref
  <2> QED BY <1>1, <1>3, <1>4, <2>1
<1>5. CASE ~(e = ExpMax /\ f # 0) /\ e = 0
  <2>1. HalfOfNumber(e, f) = 0
    BY <1>1, <1>5 DEF HalfOfNumber
  <2>2. fp16_lab_ref(uf) = HSign(s)
    BY <1>2, <1>5 DEF fp16_lab_ref
  <2> QED BY <1>3, <1>5, <2>1, <2>2
<1>6. CASE ~(e = ExpMax /\ f # 0) /\ e # 0
  <2>1. fp16_lab_ref(uf) = float32_to_float16_ref(uf)
    BY <1>2, <1>6 DEF fp16_lab_ref
  <2> QED BY <1>6, <2>1, RefIs
<1> QED BY <1>4, <1>5, <1>6

(* The quiz rounds the fraction without its hidden bit, which carries the same. *)
LEMMA HiddenRounds ==
  ASSUME NEW f \in 0 .. Pow(2, SM) - 1
  PROVE  LET hfrac == f \div Pow(2, Drop) IN
         /\ hfrac \in Nat
         /\ RoundOf(Hidden + f, Pow(2, Drop - 1))
              = Pow(2, HM) + (hfrac + IF RoundsUp(f % Pow(2, Drop), Pow(2, Drop - 1), hfrac) THEN 1 ELSE 0)
         /\ RoundOf(Hidden + f, Pow(2, Drop - 1)) <= 2 * Pow(2, HM)
<1>1. SM \in Nat /\ HM \in Nat \ {0} /\ Drop \in Nat \ {0} /\ SM = HM + Drop
  BY FormatFacts
<1>2. PICK h \in Nat \ {0}, q \in Nat \ {0} : h = Pow(2, Drop - 1) /\ q = Pow(2, Drop) /\ q = 2 * h
  <2>1. Drop - 1 \in Nat /\ (Drop - 1) + 1 = Drop
    BY <1>1
  <2> QED BY <1>1, <2>1, TwoPow
<1>3. PICK n \in Nat \ {0}, x \in Nat : n = Pow(2, HM) /\ n = 2 * x
  <2>1. HM - 1 \in Nat /\ (HM - 1) + 1 = HM
    BY <1>1
  <2> QED BY <1>1, <2>1, TwoPow
<1>4. PICK N \in Nat \ {0} : N = Pow(2, SM) /\ N = Hidden /\ N = n * q
  <2>1. Pow(2, HM + Drop) = n * q
    BY <1>1, <1>2, <1>3, TwoPowSum
  <2> QED BY <1>1, <2>1, TwoPow DEF Hidden
<1>5. PICK u \in Nat, r \in 0 .. q - 1 : u = f \div q /\ r = f % q /\ f = q * u + r
  <2>1. f \in Int /\ f \in Nat
    BY <1>4
  <2> QED BY <2>1, Division, QuotientNat
<1>6. PICK v \in Nat : v = N + f /\ v = q * (n + u) + r
  <2>1. q * (n + u) = n * q + q * u /\ q * u \in Nat
    BY Z3
  <2>2. N + f \in Nat /\ N + f = q * (n + u) + r
    BY <1>4, <1>5, <2>1
  <2> QED BY <2>2
<1>7. v \div q = n + u /\ v % q = r
  <2>1. n + u \in Int /\ v \in Int
    OBVIOUS
  <2> QED BY <1>6, <2>1, QuotientIs
<1>8. (n + u) % 2 = u % 2
  <2>1. n % 2 = 0
    BY <1>3
  <2>2. n \in Nat
    OBVIOUS
  <2> QED BY <2>1, <2>2, SameParity
<1>9. RoundsUp(r, h, n + u) = RoundsUp(r, h, u)
  BY <1>8 DEF RoundsUp
<1>10. RoundOf(v, h) = (n + u) + IF RoundsUp(r, h, u) THEN 1 ELSE 0
  BY <1>2, <1>7, <1>9 DEF RoundOf
<1>11. (n + u) + (IF RoundsUp(r, h, u) THEN 1 ELSE 0) = n + (u + IF RoundsUp(r, h, u) THEN 1 ELSE 0)
  OBVIOUS
<1>12. RoundOf(v, h) <= 2 * n
  <2>1. v < q * (2 * n)
    <3>1. q * (2 * n) = 2 * (n * q)
      BY Z3
    <3> QED BY <1>4, <1>6, <3>1
  <2>2. 2 * n \in Nat
    OBVIOUS
  <2> QED BY <1>2, <2>1, <2>2, RoundOfRange
<1> QED BY <1>2, <1>3, <1>4, <1>5, <1>6, <1>10, <1>11, <1>12

(* What the quiz converts to. *)
LEMMA QuizIs ==
  ASSUME NEW uf, NEW s, NEW e, NEW f, PatternIs(uf, SE, SM, s, e, f)
  PROVE  float32_to_float16_quiz(uf)
           = HSign(s) + IF e = ExpMax /\ f # 0 THEN HInf + Quiet ELSE HalfOfNumber(e, f)
<1>1. /\ SM \in Nat /\ HM \in Nat \ {0} /\ Drop \in Nat \ {0} /\ SM = HM + Drop
      /\ Rebias \in Nat /\ HM < Rebias /\ HExpMax \in Nat /\ 3 <= HExpMax /\ HInf \in Nat
      /\ ExpMax \in Nat /\ HExpMax + Rebias < ExpMax
  BY FormatFacts
<1>2. /\ Sign(uf) = s /\ Exp(uf) = e /\ Frac(uf) = f
      /\ s \in {0, 1} /\ e \in 0 .. ExpMax /\ f \in 0 .. Pow(2, SM) - 1 /\ e \in Nat
  BY SingleParts
<1>3. HSign(s) \in Nat /\ Quiet \in Nat
  <2>1. HM - 1 \in Nat
    BY <1>1
  <2> QED BY <1>2, <2>1, SignsAre, TwoPow DEF Quiet
<1>4. PICK n \in Nat \ {0}, N \in Nat \ {0} :
        n = Pow(2, HM) /\ N = Pow(2, SM) /\ N = Hidden /\ Pow(2, SM + 1) = 2 * N
  BY <1>1, TwoPow DEF Hidden
<1>5. PICK v \in Nat : v = Hidden + f /\ v < Pow(2, SM + 1)
  <2>1. N + f \in Nat /\ N + f < 2 * N
    BY <1>2, <1>4
  <2> QED BY <1>4, <2>1
<1>6. CASE e = ExpMax
  <2>1. HalfOfNumber(e, f) = HInf
    BY <1>1, <1>6 DEF HalfOfNumber
  <2>2. float32_to_float16_quiz(uf) = HSign(s) + HInf + IF f = 0 THEN 0 ELSE Quiet
    BY <1>2, <1>6 DEF float32_to_float16_quiz
  <2> QED BY <1>1, <1>3, <1>6, <2>1, <2>2
<1>7. CASE e # ExpMax /\ e = 0
  <2>1. HalfOfNumber(e, f) = 0
    BY <1>1, <1>7 DEF HalfOfNumber
  <2>2. float32_to_float16_quiz(uf) = HSign(s)
    BY <1>2, <1>7 DEF float32_to_float16_quiz
  <2> QED BY <1>3, <1>7, <2>1, <2>2
<1>8. PICK he \in Int : he = e - Rebias
  <2>1. e - Rebias \in Int
    BY <1>1, <1>2
  <2> QED BY <2>1
<1>9. CASE e # ExpMax /\ e # 0 /\ he >= HExpMax
  <2>1. HalfOfNumber(e, f) = HInf
    BY <1>1, <1>2, <1>8, <1>9 DEF HalfOfNumber
  <2>2. float32_to_float16_quiz(uf) = HSign(s) + HInf
    BY <1>2, <1>8, <1>9 DEF float32_to_float16_quiz
  <2> QED BY <1>9, <2>1, <2>2
<1>10. CASE e # ExpMax /\ e # 0 /\ he <= 0
  <2>1. PICK shift \in Nat \ {0} : shift = Drop + 1 - he /\ shift - 1 = Drop + Rebias - e /\ shift - 1 \in Nat
                                   /\ (shift - 1) + 1 = shift
    <3>1. Drop + 1 - he \in Nat \ {0} /\ (Drop + 1 - he) - 1 = Drop + Rebias - e /\ (Drop + 1 - he) - 1 \in Nat
          /\ ((Drop + 1 - he) - 1) + 1 = Drop + 1 - he
      BY <1>1, <1>2, <1>8, <1>10
    <3> QED BY <3>1
  <2>2. PICK h \in Nat \ {0} : h = Pow(2, shift - 1) /\ Pow(2, shift) = 2 * h
    BY <2>1, TwoPow
  <2>3. ~(HExpMax + Rebias <= e) /\ ~(Rebias < e) /\ 0 < e /\ ~(he >= HExpMax)
    BY <1>1, <1>2, <1>8, <1>10
  <2>4. HalfOfNumber(e, f) = RoundOf(v, h)
    BY <1>5, <2>1, <2>2, <2>3 DEF HalfOfNumber
  <2>5. CASE shift > SM + 1
    <3>1. v < h
      <4>1. SM + 1 \in Nat /\ SM + 1 <= shift - 1
        BY <1>1, <2>5
      <4>2. Pow(2, SM + 1) <= h /\ Pow(2, SM + 1) \in Nat
        BY <2>1, <2>2, <4>1, PowUpTo, TwoPow
      <4> QED BY <1>5, <4>2
    <3>2. RoundOf(v, h) = 0
      BY <3>1, RoundsToZero
    <3>3. float32_to_float16_quiz(uf) = HSign(s)
      BY <1>2, <1>8, <1>10, <2>1, <2>3, <2>5 DEF float32_to_float16_quiz
    <3> QED BY <1>3, <1>10, <2>4, <3>2, <3>3
  <2>6. CASE ~(shift > SM + 1)
    <3>1. float32_to_float16_quiz(uf)
            = HSign(s) + (v \div (2 * h)) + IF RoundsUp(v % (2 * h), h, v \div (2 * h)) THEN 1 ELSE 0
      BY <1>2, <1>5, <1>8, <1>10, <2>1, <2>2, <2>3, <2>6 DEF float32_to_float16_quiz
    <3>2. v \div (2 * h) \in Nat
      <4>1. 2 * h \in Nat \ {0}
        OBVIOUS
      <4> QED BY <4>1, QuotientNat
    <3>3. PICK u \in Nat, b \in {0, 1} :
            u = v \div (2 * h) /\ b = IF RoundsUp(v % (2 * h), h, v \div (2 * h)) THEN 1 ELSE 0
      BY <3>2
    <3>4. RoundOf(v, h) = u + b
      BY <3>3 DEF RoundOf
    <3> QED BY <1>3, <1>10, <2>4, <3>1, <3>3, <3>4
  <2> QED BY <2>5, <2>6
<1>11. CASE e # ExpMax /\ e # 0 /\ ~(he >= HExpMax) /\ ~(he <= 0)
  <2> DEFINE hf == f \div Pow(2, Drop)
             up == IF RoundsUp(f % Pow(2, Drop), Pow(2, Drop - 1), hf) THEN 1 ELSE 0
  <2>1. /\ hf \in Nat /\ RoundOf(v, Pow(2, Drop - 1)) = n + (hf + up) /\ RoundOf(v, Pow(2, Drop - 1)) <= 2 * n
    BY <1>2, <1>4, <1>5, HiddenRounds
  <2>2. float32_to_float16_quiz(uf)
          = IF hf + up = n THEN HSign(s) + IF he + 1 >= HExpMax THEN HInf ELSE (he + 1) * n
            ELSE HSign(s) + he * n + hf + up
    <3>1. Pow(2, HM) = n
      BY <1>4
    <3> QED BY <1>2, <1>8, <1>11, <3>1, Zenon DEF float32_to_float16_quiz
  <2>3. up \in {0, 1}
    OBVIOUS
  <2> HIDE DEF hf, up
  <2>4. PICK c \in Nat : c = hf + up
    BY <2>1, <2>3
  <2>5. PICK i \in Nat : i = e - Rebias - 1 /\ he = i + 1 /\ i + 2 <= HExpMax
    <3>1. e - Rebias - 1 \in Nat /\ he = (e - Rebias - 1) + 1 /\ (e - Rebias - 1) + 2 <= HExpMax
      BY <1>1, <1>2, <1>8, <1>11
    <3> QED BY <3>1
  <2>6. HalfOfNumber(e, f) = i * n + (n + c)
    <3>1. ~(HExpMax + Rebias <= e) /\ Rebias < e
      BY <1>1, <1>2, <1>8, <1>11
    <3> QED BY <1>4, <1>5, <2>1, <2>4, <2>5, <3>1 DEF HalfOfNumber
  <2>7. PICK y \in Nat : y = i * n /\ (i + 1) * n = y + n /\ (i + 2) * n = y + n + n
    <3>1. i * n \in Nat /\ (i + 1) * n = i * n + n /\ (i + 2) * n = i * n + n + n
      BY Z3
    <3> QED BY <3>1
  <2>8. CASE c = n
    <3>1. he + 1 = i + 2
      BY <2>5
    <3>2. he + 1 >= HExpMax => HInf = (i + 2) * n
      <4>1. he + 1 >= HExpMax => i + 2 = HExpMax
        BY <1>1, <2>5
      <4> QED BY <1>4, <4>1 DEF HInf
    <3>3. float32_to_float16_quiz(uf) = HSign(s) + (i + 2) * n
      BY <2>2, <2>4, <2>8, <3>1, <3>2
    <3> QED BY <1>3, <1>11, <2>6, <2>7, <2>8, <3>3
  <2>9. CASE c # n
    <3>1. float32_to_float16_quiz(uf) = HSign(s) + he * n + hf + up
      BY <2>2, <2>4, <2>9
    <3>2. he * n = y + n
      BY <2>5, <2>7
    <3> QED BY <1>3, <1>11, <2>1, <2>3, <2>4, <2>6, <2>7, <3>1, <3>2
  <2> QED BY <2>8, <2>9
<1> QED BY <1>6, <1>7, <1>9, <1>10, <1>11

(* What divides without remainder is not rounded. *)
LEMMA RoundsExact ==
  ASSUME NEW h \in Nat \ {0}, NEW w \in Nat, NEW v, v = (2 * h) * w
  PROVE  RoundOf(v, h) = w
<1>1. PICK q \in Nat \ {0} : q = 2 * h
  <2>1. 2 * h \in Nat \ {0}
    OBVIOUS
  <2> QED BY <2>1
<1>2. v \in Int /\ v = q * w + 0 /\ 0 \in 0 .. q - 1
  <2>1. q * w \in Nat
    BY Z3
  <2> QED BY <1>1, <2>1
<1>3. v \div q = w /\ v % q = 0
  BY <1>2, QuotientIs
<1>4. ~RoundsUp(0, h, w)
  BY DEF RoundsUp
<1> QED BY <1>1, <1>3, <1>4 DEF RoundOf

(* The single a half is converted to, and that it is converted back. *)
LEMMA HalfToSingle ==
  ASSUME NEW h, NEW s, NEW c, NEW g, PatternIs(h, HE, HM, s, c, g)
  PROVE  \E e, f :
           /\ PatternIs(half_to_float32_bits(h), SE, SM, s, e, f)
           /\ IF c = HExpMax THEN e = ExpMax /\ f = g * Pow(2, Drop)
              ELSE e # ExpMax /\ HalfOfNumber(e, f) = c * Pow(2, HM) + g
<1>1. /\ SE \in Nat /\ SM \in Nat /\ HE \in Nat /\ HM \in Nat \ {0} /\ Drop \in Nat \ {0} /\ SM = HM + Drop
      /\ Rebias \in Nat /\ HM < Rebias /\ HExpMax \in Nat /\ 3 <= HExpMax /\ HInf \in Nat
      /\ ExpMax \in Nat /\ HExpMax + Rebias < ExpMax
  BY FormatFacts
<1>2. PICK n \in Nat \ {0}, D \in Nat \ {0}, N \in Nat \ {0} :
        n = Pow(2, HM) /\ D = Pow(2, Drop) /\ N = Pow(2, SM) /\ N = Hidden /\ N = n * D
        /\ Pow(2, HM + 1) = 2 * n
  <2>1. Pow(2, HM + Drop) = Pow(2, HM) * Pow(2, Drop)
    BY <1>1, TwoPowSum
  <2> QED BY <1>1, <2>1, TwoPow DEF Hidden
<1>3. /\ s \in {0, 1} /\ c \in 0 .. HExpMax /\ g \in 0 .. n - 1 /\ g \in Nat /\ c \in Nat
      /\ h \div Pow(2, HE + HM) = s /\ (h \div Pow(2, HM)) % Pow(2, HE) = c /\ h % Pow(2, HM) = g
  <2>1. s \in {0, 1} /\ c \in 0 .. Pow(2, HE) - 1 /\ g \in 0 .. Pow(2, HM) - 1
    BY DEF PatternIs
  <2>2. /\ h \div Pow(2, HE + HM) = s /\ (h \div Pow(2, HM)) % Pow(2, HE) = c /\ h % Pow(2, HM) = g
    BY <1>1, PatternParts
  <2> QED BY <1>2, <2>1, <2>2 DEF HExpMax
<1>4. Pow(2, SE) \in Nat /\ ExpMax = Pow(2, SE) - 1
  BY <1>1, TwoPow DEF ExpMax
<1> DEFINE uf == half_to_float32_bits(h)
<1>5. ASSUME NEW x \in Nat, x < n PROVE x * D \in 0 .. N - 1 /\ x * D \in Nat
  <2>1. D * x + D <= D * n
    <3>1. x + 1 <= n
      BY <1>5
    <3> QED BY <3>1, Multiples
  <2>2. D * x = x * D /\ D * n = n * D /\ x * D \in Nat
    BY Z3
  <2> QED BY <1>2, <2>1, <2>2
<1>6. ASSUME NEW e \in 0 .. ExpMax, NEW f \in 0 .. N - 1, uf = SSign(s) + (e * Hidden + f)
      PROVE  PatternIs(uf, SE, SM, s, e, f)
  BY <1>2, <1>3, <1>4, <1>6 DEF PatternIs, SSign
<1>7. CASE c = HExpMax
  <2>1. uf = SSign(s) + (Inf + g * D)
    BY <1>1, <1>2, <1>3, <1>7 DEF half_to_float32_bits
  <2>2. Inf = ExpMax * Hidden
    BY <1>2 DEF Inf
  <2>3. PatternIs(uf, SE, SM, s, ExpMax, g * D)
    <3>1. ExpMax \in 0 .. ExpMax /\ g * D \in 0 .. N - 1
      BY <1>1, <1>3, <1>5
    <3> QED BY <1>6, <2>1, <2>2, <3>1
  <2> QED BY <1>2, <1>7, <2>3
<1>8. CASE c = 0 /\ g = 0
  <2>1. uf = SSign(s) + 0
    BY <1>1, <1>3, <1>8 DEF half_to_float32_bits
  <2>2. PatternIs(uf, SE, SM, s, 0, 0)
    <3>1. 0 \in 0 .. ExpMax /\ 0 \in 0 .. N - 1 /\ 0 * Hidden + 0 = 0
      BY <1>1, <1>2
    <3>2. uf = SSign(s) + (0 * Hidden + 0)
      BY <2>1, <3>1
    <3> QED BY <1>6, <3>1, <3>2
  <2>3. HalfOfNumber(0, 0) = 0
    BY <1>1 DEF HalfOfNumber
  <2>4. c * Pow(2, HM) + g = 0 /\ c # HExpMax /\ ExpMax # 0
    BY <1>1, <1>2, <1>8
  <2> QED BY <2>2, <2>3, <2>4
<1>9. CASE c = 0 /\ g # 0
  <2>1. PICK t \in Nat, p \in Nat \ {0} : t = Lead(g, HM) /\ t \in 1 .. HM /\ p = Pow(2, t) /\ n <= g * p /\ g * p < 2 * n
    <3>1. g \in 1 .. Pow(2, HM) - 1
      BY <1>2, <1>3, <1>9
    <3>2. /\ Lead(g, HM) \in 1 .. HM /\ Pow(2, HM) <= g * Pow(2, Lead(g, HM))
          /\ g * Pow(2, Lead(g, HM)) < Pow(2, HM + 1)
      BY <1>1, <3>1, LeadIs
    <3>3. Lead(g, HM) \in Nat
      BY <3>2
    <3> QED BY <1>2, <3>2, <3>3, TwoPow
  <2>2. PICK w \in Nat : w = g * p
    <3>1. g * p \in Nat
      BY <1>3, Z3
    <3> QED BY <3>1
  <2>3. PICK x \in Nat : x = w - n /\ x < n /\ w % n = x /\ w = n + x
    <3>1. w - n \in Nat /\ w - n < n /\ w = n * 1 + (w - n) /\ w - n \in 0 .. n - 1 /\ 1 \in Int /\ w \in Int
      BY <2>1, <2>2
    <3>2. w % n = w - n
      BY <3>1, QuotientIs
    <3> QED BY <3>1, <3>2
  <2>4. PICK e \in Nat \ {0} : e = 1 - t + Rebias /\ e <= Rebias /\ e < ExpMax /\ Drop + Rebias - e = Drop + t - 1
    <3>1. /\ 1 - t + Rebias \in Nat \ {0} /\ 1 - t + Rebias <= Rebias /\ 1 - t + Rebias < ExpMax
          /\ Drop + Rebias - (1 - t + Rebias) = Drop + t - 1
      BY <1>1, <2>1
    <3> QED BY <3>1
  <2>5. x * D \in 0 .. N - 1 /\ x * D \in Nat
    BY <1>5, <2>3
  <2>6. uf = SSign(s) + (e * Hidden + x * D)
    <3>1. c # HExpMax
      BY <1>1, <1>9
    <3> QED BY <1>2, <1>3, <1>9, <2>1, <2>2, <2>3, <2>4, <3>1 DEF half_to_float32_bits
  <2>7. PatternIs(uf, SE, SM, s, e, x * D)
    <3>1. e \in 0 .. ExpMax
      BY <1>1, <2>4
    <3> QED BY <1>6, <2>5, <2>6, <3>1
  <2>8. PICK k \in Nat \ {0} : k = Pow(2, Drop + t - 1) /\ 2 * k = D * p
    <3>1. Drop + t - 1 \in Nat /\ (Drop + t - 1) + 1 = Drop + t
      BY <1>1, <2>1
    <3>2. Pow(2, Drop + t) = D * p
      BY <1>1, <1>2, <2>1, TwoPowSum
    <3> QED BY <3>1, <3>2, TwoPow
  <2>9. Hidden + x * D = (2 * k) * g
    <3>1. (n + x) * D = n * D + x * D /\ (g * p) * D = (D * p) * g
      BY <1>3, Z3
    <3> QED BY <1>2, <2>2, <2>3, <2>8, <3>1
  <2>10. HalfOfNumber(e, x * D) = g
    <3>1. RoundOf(Hidden + x * D, k) = g
      BY <1>3, <2>9, RoundsExact
    <3>2. ~(HExpMax + Rebias <= e) /\ ~(Rebias < e) /\ 0 < e
      BY <1>1, <2>4
    <3> QED BY <2>4, <2>8, <3>1, <3>2 DEF HalfOfNumber
  <2>11. c * Pow(2, HM) + g = g /\ c # HExpMax /\ e # ExpMax
    BY <1>1, <1>2, <1>3, <1>9, <2>4
  <2> QED BY <2>7, <2>10, <2>11
<1>10. CASE c # HExpMax /\ c # 0
  <2>1. PICK e \in Nat \ {0} : e = c + Rebias /\ Rebias < e /\ e < HExpMax + Rebias /\ e < ExpMax /\ e - Rebias - 1 = c - 1
    <3>1. /\ c + Rebias \in Nat \ {0} /\ Rebias < c + Rebias /\ c + Rebias < HExpMax + Rebias /\ c + Rebias < ExpMax
          /\ (c + Rebias) - Rebias - 1 = c - 1
      BY <1>1, <1>3, <1>10
    <3> QED BY <3>1
  <2>2. g * D \in 0 .. N - 1 /\ g * D \in Nat
    BY <1>3, <1>5
  <2>3. uf = SSign(s) + (e * Hidden + g * D)
    <3>1. c \in 1 .. HExpMax - 1
      BY <1>1, <1>3, <1>10
    <3> QED BY <1>2, <1>3, <1>10, <2>1, <3>1 DEF half_to_float32_bits
  <2>4. PatternIs(uf, SE, SM, s, e, g * D)
    <3>1. e \in 0 .. ExpMax
      BY <1>1, <2>1
    <3> QED BY <1>6, <2>2, <2>3, <3>1
  <2>5. PICK k \in Nat \ {0} : k = Pow(2, Drop - 1) /\ 2 * k = D
    <3>1. Drop - 1 \in Nat /\ (Drop - 1) + 1 = Drop
      BY <1>1
    <3> QED BY <1>2, <3>1, TwoPow
  <2>6. Hidden + g * D = (2 * k) * (n + g)
    <3>1. n * D + g * D = D * (n + g)
      BY <1>3, Z3
    <3> QED BY <1>2, <2>5, <3>1
  <2>7. HalfOfNumber(e, g * D) = (c - 1) * n + (n + g)
    <3>1. RoundOf(Hidden + g * D, k) = n + g
      <4>1. n + g \in Nat
        BY <1>3
      <4> QED BY <2>6, <4>1, RoundsExact
    <3>2. ~(HExpMax + Rebias <= e)
      BY <1>1, <2>1
    <3> QED BY <1>2, <2>1, <2>5, <3>1, <3>2 DEF HalfOfNumber
  <2>8. (c - 1) * n + (n + g) = c * n + g
    <3>1. (c - 1) * n = c * n - n /\ c * n \in Int
      BY <1>3, Z3
    <3> QED BY <1>3, <3>1
  <2> QED BY <1>1, <1>2, <1>10, <2>1, <2>4, <2>7, <2>8
<1> QED BY <1>7, <1>8, <1>9, <1>10

(* There and back: a half is itself again, with its NaN payload where that is kept. *)
LEMMA ThereAndBack ==
  ASSUME NEW h \in Halves
  PROVE  /\ half_to_float32_bits(h) \in Singles
         /\ float32_to_float16_ref(half_to_float32_bits(h)) = h
         /\ h % Pow(2, HE + HM) <= HInf => float32_to_float16_quiz(half_to_float32_bits(h)) = h
<1>1. /\ SE \in Nat /\ SM \in Nat /\ HE \in Nat /\ HM \in Nat \ {0} /\ Drop \in Nat \ {0}
      /\ HExpMax \in Nat /\ HInf \in Nat /\ Rebias \in Nat /\ ExpMax \in Nat /\ HExpMax + Rebias < ExpMax
  BY FormatFacts
<1>2. PICK s, c, g : PatternIs(h, HE, HM, s, c, g)
  BY <1>1, PatternThere DEF Halves
<1>3. PICK n \in Nat \ {0}, D \in Nat \ {0} : n = Pow(2, HM) /\ D = Pow(2, Drop)
  BY <1>1, TwoPow
<1>4. /\ s \in {0, 1} /\ c \in Nat /\ g \in 0 .. n - 1 /\ g \in Nat
      /\ h = HSign(s) + (c * n + g) /\ h % Pow(2, HE + HM) = c * n + g
  <2>1. /\ s \in {0, 1} /\ c \in 0 .. Pow(2, HE) - 1 /\ g \in 0 .. Pow(2, HM) - 1
        /\ h = s * Pow(2, HE + HM) + (c * Pow(2, HM) + g)
    BY <1>2 DEF PatternIs
  <2>2. h % Pow(2, HE + HM) = c * Pow(2, HM) + g
    BY <1>1, <1>2, PatternParts
  <2> QED BY <1>3, <2>1, <2>2 DEF HSign
<1> DEFINE uf == half_to_float32_bits(h)
<1>5. PICK e, f : /\ PatternIs(uf, SE, SM, s, e, f)
                  /\ IF c = HExpMax THEN e = ExpMax /\ f = g * Pow(2, Drop)
                     ELSE e # ExpMax /\ HalfOfNumber(e, f) = c * Pow(2, HM) + g
  BY <1>2, HalfToSingle
<1> HIDE DEF uf
<1>6. uf \in Singles
  BY <1>5, SingleParts
<1>7. /\ float32_to_float16_ref(uf) = HSign(s) + IF e = ExpMax /\ f # 0 THEN HInf + Payload(f) ELSE HalfOfNumber(e, f)
      /\ float32_to_float16_quiz(uf) = HSign(s) + IF e = ExpMax /\ f # 0 THEN HInf + Quiet ELSE HalfOfNumber(e, f)
  BY <1>5, RefIs, QuizIs
<1>8. CASE c # HExpMax
  BY <1>3, <1>4, <1>5, <1>6, <1>7, <1>8 DEF uf
<1>9. CASE c = HExpMax /\ g = 0
  <2>1. e = ExpMax /\ f = 0
    BY <1>3, <1>5, <1>9
  <2>2. HalfOfNumber(e, f) = HInf /\ HInf = c * n + g
    <3>1. HExpMax * n \in Nat
      BY <1>1, Z3
    <3> QED BY <1>1, <1>3, <1>9, <2>1, <3>1 DEF HalfOfNumber, HInf
  <2> QED BY <1>4, <1>6, <1>7, <2>1, <2>2 DEF uf
<1>10. CASE c = HExpMax /\ g # 0
  <2>1. e = ExpMax /\ f = D * g + 0
    <3>1. g * D = D * g + 0
      BY <1>4, Z3
    <3> QED BY <1>3, <1>5, <1>10, <3>1
  <2>2. f \in Nat \ {0}
    <3>1. D * g > 0
      <4>1. \A a \in Nat \ {0}, b \in Nat \ {0} : a * b > 0 /\ a * b \in Nat
        BY Z3
      <4> QED BY <1>4, <1>10, <4>1
    <3> QED BY <1>4, <2>1, <3>1
  <2>3. f \div D = g
    <3>1. 0 \in 0 .. D - 1 /\ f \in Int
      BY <2>2
    <3> QED BY <1>4, <2>1, <3>1, QuotientIs
  <2>4. Payload(f) = g
    BY <1>3, <1>10, <2>3 DEF Payload
  <2>5. float32_to_float16_ref(uf) = h
    BY <1>3, <1>4, <1>7, <1>10, <2>1, <2>2, <2>4 DEF HInf
  <2>6. ~(c * n + g <= HInf)
    <3>1. HInf = c * n
      BY <1>3, <1>10 DEF HInf
    <3> QED BY <1>1, <1>4, <1>10, <3>1
  <2> QED BY <1>4, <1>6, <2>5, <2>6 DEF uf
<1> QED BY <1>8, <1>9, <1>10

(* Nearest of the table is nearest. *)
LEMMA NearestHalf ==
  ASSUME NEW value, NEW m, NearestIn(value, m, HalfTable, HInf)
  PROVE  Nearest(value, m, HalfValue, HInf)
<1>1. \A k \in 0 .. HInf : HalfTable[k] = HalfValue(k)
  BY DEF HalfTable
<1> QED BY <1>1 DEF NearestIn, Nearest

(* The same, for quarters. *)
LEMMA NearestFour ==
  ASSUME NEW value, NEW m, NearestIn(value, m, FourTable, Inf)
  PROVE  Nearest(value, m, LAMBDA k : 4 * SingleValue(k), Inf)
<1>1. \A k \in 0 .. Inf : FourTable[k] = 4 * SingleValue(k)
  BY DEF FourTable
<1> QED BY <1>1 DEF NearestIn, Nearest

(* Infinity leaves room for a NaN below the sign. *)
LEMMA InfIs ==
  /\ HInf + Pow(2, HM) = Pow(2, HE + HM) /\ Inf + Pow(2, SM) = Pow(2, SE + SM)
  /\ Pow(2, HM) \in Nat \ {0} /\ Pow(2, SM) \in Nat \ {0} /\ Pow(2, HE + HM) \in Nat \ {0} /\ Pow(2, SE + SM) \in Nat \ {0}
<1>1. SE \in Nat /\ SM \in Nat /\ HE \in Nat /\ HM \in Nat /\ HExpMax \in Nat /\ ExpMax \in Nat
  BY FormatFacts
<1>2. PICK n \in Nat \ {0}, N \in Nat \ {0}, x \in Nat \ {0}, y \in Nat \ {0} :
        n = Pow(2, HM) /\ N = Pow(2, SM) /\ x = Pow(2, HE) /\ y = Pow(2, SE)
  BY <1>1, TwoPow
<1>3. Pow(2, HE + HM) = x * n /\ Pow(2, SE + SM) = y * N
  BY <1>1, <1>2, TwoPowSum
<1>4. (x - 1) * n = x * n - n /\ (y - 1) * N = y * N - N /\ x * n \in Nat \ {0} /\ y * N \in Nat \ {0}
  BY Z3
<1> QED BY <1>2, <1>3, <1>4 DEF HInf, Inf, HExpMax, ExpMax

(* A half with the right sign, and the nearest magnitude or a NaN for a NaN. *)
LEMMA HalfIs ==
  ASSUME NEW uf, NEW s, NEW e, NEW f, PatternIs(uf, SE, SM, s, e, f),
         NEW payload \in 1 .. Pow(2, HM) - 1, NEW h,
         h = HSign(s) + IF e = ExpMax /\ f # 0 THEN HInf + payload ELSE HalfOfNumber(e, f)
  PROVE  IsHalfOf(h, uf)
<1>1. /\ Sign(uf) = s /\ uf % Pow(2, SE + SM) = e * Pow(2, SM) + f
      /\ s \in {0, 1} /\ e \in 0 .. ExpMax /\ f \in 0 .. Pow(2, SM) - 1 /\ e \in Nat
  BY SingleParts
<1>2. PICK n \in Nat \ {0}, N \in Nat \ {0}, q \in Nat \ {0} :
        n = Pow(2, HM) /\ N = Pow(2, SM) /\ q = Pow(2, HE + HM) /\ q = HInf + n /\ HInf \in Nat /\ Inf \in Nat /\ ExpMax \in Nat
  BY InfIs, FormatFacts
<1> DEFINE a == IF e = ExpMax /\ f # 0 THEN HInf + payload ELSE HalfOfNumber(e, f)
<1>3. NearestIn(SingleValue(e * Pow(2, SM) + f), HalfOfNumber(e, f), HalfTable, HInf)
  BY <1>1, NumberRounds
<1>4. a \in 0 .. q - 1
  <2>1. HalfOfNumber(e, f) \in 0 .. HInf
    BY <1>3 DEF NearestIn
  <2> QED BY <1>2, <2>1
<1>5. h \div q = s /\ h % q = a
  <2>1. h = HSign(s) + a
    OBVIOUS
  <2> HIDE DEF a
  <2>2. h = s * q + a
    BY <1>2, <2>1 DEF HSign
  <2>3. h \in Int /\ h = q * s + a /\ s \in Int
    <3>1. CASE s = 0
      BY <1>2, <1>4, <2>2, <3>1
    <3>2. CASE s = 1
      BY <1>2, <1>4, <2>2, <3>2
    <3> QED BY <1>1, <3>1, <3>2
  <2> QED BY <1>4, <2>3, QuotientIs
<1>6. SameSign(h, uf) /\ HalfMagnitude(h) = a
  BY <1>1, <1>2, <1>5 DEF SameSign, HalfMagnitude
<1>7. PICK m \in Nat : m = e * N + f /\ m = uf % Pow(2, SE + SM)
  <2>1. e * N + f \in Nat
    <3>1. \A b \in Nat, c \in Nat : b * c \in Nat
      BY Z3
    <3> QED BY <1>1, <1>2, <3>1
  <2> QED BY <1>1, <1>2, <2>1
<1>8. m > Inf <=> (e = ExpMax /\ f # 0)
  <2>1. CASE e = ExpMax
    BY <1>1, <1>2, <1>7, <2>1 DEF Inf
  <2>2. CASE e # ExpMax
    <3>1. N * e + N <= N * ExpMax
      <4>1. e + 1 <= ExpMax
        BY <1>1, <1>2, <2>2
      <4> QED BY <1>1, <1>2, <4>1, Multiples
    <3>2. N * e = e * N /\ N * ExpMax = ExpMax * N /\ e * N \in Nat
      BY <1>1, <1>2, Z3
    <3>3. m < Inf
      BY <1>1, <1>2, <1>7, <3>1, <3>2 DEF Inf
    <3> QED BY <1>2, <1>7, <2>2, <3>3
  <2> QED BY <2>1, <2>2
<1>9. CASE m > Inf
  <2>1. HalfMagnitude(h) > HInf
    BY <1>2, <1>6, <1>8, <1>9
  <2> QED BY <1>6, <1>7, <1>9, <2>1 DEF IsHalfOf
<1>10. CASE ~(m > Inf)
  <2>1. HalfMagnitude(h) = HalfOfNumber(e, f)
    BY <1>6, <1>8, <1>10
  <2>2. Nearest(SingleValue(m), HalfMagnitude(h), HalfValue, HInf)
    BY <1>2, <1>3, <1>7, <2>1, NearestHalf
  <2> QED BY <1>6, <1>7, <1>10, <2>2 DEF IsHalfOf
<1> QED BY <1>9, <1>10

(* All three converters, and the reference of each. *)
LEMMA ConvertersRound ==
  ASSUME NEW uf \in Singles
  PROVE  /\ IsHalfOf(float32_to_float16_ref(uf), uf)
         /\ IsHalfOf(float32_to_float16_quiz(uf), uf)
         /\ IsHalfOf(fp16_lab_ref(uf), uf)
<1>1. SE \in Nat /\ SM \in Nat /\ HM \in Nat \ {0} /\ Drop \in Nat \ {0} /\ SM = HM + Drop
  BY FormatFacts
<1>2. PICK s, e, f : PatternIs(uf, SE, SM, s, e, f)
  BY <1>1, PatternThere DEF Singles
<1>3. PICK n \in Nat \ {0}, D \in Nat \ {0}, N \in Nat \ {0} :
        n = Pow(2, HM) /\ D = Pow(2, Drop) /\ N = Pow(2, SM) /\ N = D * n
  <2>1. Pow(2, Drop + HM) = Pow(2, Drop) * Pow(2, HM) /\ SM = Drop + HM
    BY <1>1, TwoPowSum
  <2> QED BY <1>1, <2>1, TwoPow
<1>4. Quiet \in 1 .. n - 1
  <2>1. HM - 1 \in Nat /\ (HM - 1) + 1 = HM
    BY <1>1
  <2>2. PICK x \in Nat \ {0} : x = Pow(2, HM - 1) /\ n = 2 * x
    BY <1>3, <2>1, TwoPow
  <2> QED BY <2>2 DEF Quiet
<1>5. Payload(f) \in 1 .. n - 1
  <2>1. f \in 0 .. N - 1 /\ f \in Nat
    BY <1>2, <1>3, SingleParts
  <2>2. f \div D \in Nat /\ f \div D < n
    <3>1. f < D * n
      BY <1>3, <2>1
    <3> QED BY <2>1, <3>1, QuotientNat, QuotientRange
  <2> QED BY <1>3, <1>4, <2>2 DEF Payload
<1>6. IsHalfOf(float32_to_float16_ref(uf), uf)
  <2>1. float32_to_float16_ref(uf) = HSign(s) + IF e = ExpMax /\ f # 0 THEN HInf + Payload(f) ELSE HalfOfNumber(e, f)
    BY <1>2, RefIs
  <2> QED BY <1>2, <1>3, <1>5, <2>1, HalfIs
<1>7. IsHalfOf(float32_to_float16_quiz(uf), uf)
  <2>1. float32_to_float16_quiz(uf) = HSign(s) + IF e = ExpMax /\ f # 0 THEN HInf + Quiet ELSE HalfOfNumber(e, f)
    BY <1>2, QuizIs
  <2> QED BY <1>2, <1>3, <1>4, <2>1, HalfIs
<1>8. IsHalfOf(fp16_lab_ref(uf), uf)
  <2>1. fp16_lab_ref(uf) = HSign(s) + IF e = ExpMax /\ f # 0 THEN HInf + Quiet ELSE HalfOfNumber(e, f)
    BY <1>2, LabRefIs
  <2> QED BY <1>2, <1>3, <1>4, <2>1, HalfIs
<1> QED BY <1>6, <1>7, <1>8

(* The quarter that has to be rounded, of significand v: by one bit or by two. *)
LEMMA QuarterRounds ==
  ASSUME NEW v \in Nat, v < Pow(2, SM + 1), NEW j \in {0, 1}
  PROVE  NearestIn(v * Pow(2, j), round_shift_right_even_u64(v, 2 - j), FourTable, Inf)
<1>1. SM \in Nat \ {0} /\ Inf \in Nat /\ ExpMax \in Nat /\ 3 <= ExpMax
  BY FormatFacts
<1>2. PICK N \in Nat \ {0} : N = Pow(2, SM)
  BY <1>1, TwoPow
<1>3. PICK S \in Nat \ {0} : S = 2 - j /\ S + j = 0 + 2 /\ S - 1 \in Nat
  OBVIOUS
<1>4. (0 + 2) * Pow(2, SM) <= Inf
  <2>1. N * 2 + N <= N * ExpMax
    BY <1>1, Multiples
  <2>2. N * ExpMax = ExpMax * N /\ ExpMax * N \in Nat
    BY <1>1, Z3
  <2> QED BY <1>2, <2>1, <2>2 DEF Inf
<1>5. v < Pow(2, SM + 1 + S)
  <2>1. SM + 1 \in Nat /\ SM + 1 + S \in Nat /\ SM + 1 <= SM + 1 + S
    BY <1>1
  <2>2. Pow(2, SM + 1) <= Pow(2, SM + 1 + S) /\ Pow(2, SM + 1) \in Nat /\ Pow(2, SM + 1 + S) \in Nat
    BY <2>1, PowUpTo, TwoPow
  <2> QED BY <2>2
<1>6. NearestIn(v * Pow(2, j), 0 * Pow(2, SM) + RoundOf(v, Pow(2, S - 1)), FourTable, Inf)
  <2>1. 0 \in Nat /\ ~(0 > 0) /\ j \in Nat /\ 2 \in Nat
    OBVIOUS
  <2> QED BY <1>1, <1>3, <1>4, <1>5, <2>1, FourTableGrows, FourLines, RoundsOnLine
<1>7. round_shift_right_even_u64(v, S) = RoundOf(v, Pow(2, S - 1))
  BY ShiftIsRoundOf
<1>8. 0 * Pow(2, SM) + RoundOf(v, Pow(2, S - 1)) = RoundOf(v, Pow(2, S - 1))
  <2>1. Pow(2, S - 1) \in Nat \ {0}
    BY <1>3, TwoPow
  <2>2. RoundOf(v, Pow(2, S - 1)) \in Nat
    <3>1. 0 \in Nat
      OBVIOUS
    <3> QED BY <2>1, <3>1, RoundOfRange
  <2> QED BY <1>2, <2>2
<1> QED BY <1>3, <1>6, <1>7, <1>8

(* The quarter of a single. *)
LEMMA QuarterIs ==
  ASSUME NEW uf, NEW s, NEW e, NEW f, PatternIs(uf, SE, SM, s, e, f), e # ExpMax
  PROVE  \E m : /\ float_quarter(uf) = SSign(s) + m
                /\ NearestIn(SingleValue(e * Pow(2, SM) + f), m, FourTable, Inf)
<1>1. SM \in Nat \ {0} /\ Inf \in Nat /\ ExpMax \in Nat /\ 3 <= ExpMax /\ SM + 1 \in Nat
  BY FormatFacts
<1>2. /\ Sign(uf) = s /\ Exp(uf) = e /\ Frac(uf) = f
      /\ s \in {0, 1} /\ e \in 0 .. ExpMax /\ f \in 0 .. Pow(2, SM) - 1 /\ e \in Nat
  BY SingleParts
<1>3. PICK N \in Nat \ {0} : N = Pow(2, SM) /\ N = Hidden /\ Pow(2, SM + 1) = 2 * N
  BY <1>1, TwoPow DEF Hidden
<1>4. PICK v \in Nat : v = Hidden + f /\ v < Pow(2, SM + 1) /\ N <= v /\ v <= 2 * N
  <2>1. N + f \in Nat /\ N + f < 2 * N /\ N <= N + f /\ N + f <= 2 * N
    BY <1>2, <1>3
  <2> QED BY <1>3, <2>1
<1>5. f \in Nat /\ f < Pow(2, SM + 1)
  BY <1>2, <1>3
<1>6. SSign(s) \in Nat
  BY <1>2, SignsAre
<1>7. CASE e \in 3 .. ExpMax - 1
  <2>1. PICK i \in Nat : i = e - 3 /\ i + 2 = e - 1 /\ e - 2 = i + 1 /\ i + 2 + 1 <= ExpMax
    <3>1. e - 3 \in Nat /\ (e - 3) + 2 = e - 1 /\ e - 2 = (e - 3) + 1 /\ (e - 3) + 2 + 1 <= ExpMax
      BY <1>1, <1>7
    <3> QED BY <3>1
  <2>2. PICK m \in Nat : m = i * N + v /\ m = (e - 2) * N + f
    <3>1. i * N \in Nat /\ (i + 1) * N = i * N + N
      BY Z3
    <3> QED BY <1>3, <1>4, <1>5, <2>1, <3>1
  <2>3. m < Inf
    <3>1. N * (i + 2) + N <= N * ExpMax
      BY <1>1, <2>1, Multiples
    <3>2. N * (i + 2) = i * N + 2 * N /\ N * ExpMax = ExpMax * N /\ ExpMax * N \in Nat /\ i * N \in Nat
      BY <1>1, Z3
    <3> QED BY <1>3, <1>4, <2>2, <3>1, <3>2 DEF Inf
  <2>4. FourTable[m] = v * Pow(2, i + 2)
    <3>1. v \in 0 .. 2 * Pow(2, SM) /\ (i > 0 => Pow(2, SM) <= v) /\ i * Pow(2, SM) + v <= Inf
      BY <1>1, <1>3, <1>4, <2>2, <2>3
    <3>2. FourTable[i * Pow(2, SM) + v] = v * Pow(2, i + 2)
      BY <3>1, FourLines DEF OnLines
    <3> QED BY <1>3, <2>2, <3>2
  <2>5. NearestIn(FourTable[m], m, FourTable, Inf)
    <3>1. m \in 0 .. Inf - 1
      BY <1>1, <2>3
    <3> QED BY <1>1, <3>1, FourTableGrows, ExactIsNearest
  <2>6. SingleValue(e * Pow(2, SM) + f) = v * Pow(2, e - 1)
    <3>1. e > 0
      BY <1>7
    <3> QED BY <1>2, <1>4, <3>1, SingleAt
  <2>7. float_quarter(uf) = SSign(s) + m
    <3>1. float_quarter(uf) = SSign(s) + (e - 2) * Hidden + f
      BY <1>2, <1>7 DEF float_quarter
    <3>2. (e - 2) * N \in Nat
      BY <2>1, Z3
    <3> QED BY <1>3, <1>5, <1>6, <2>2, <3>1, <3>2
  <2> QED BY <2>1, <2>4, <2>5, <2>6, <2>7
<1>8. CASE e = 2
  <2>1. NearestIn(v * Pow(2, 1), round_shift_right_even_u64(v, 1), FourTable, Inf)
    <3>1. 1 \in {0, 1} /\ 2 - 1 = 1
      OBVIOUS
    <3>2. NearestIn(v * Pow(2, 1), round_shift_right_even_u64(v, 2 - 1), FourTable, Inf)
      BY <1>4, <3>1, QuarterRounds
    <3> QED BY <3>1, <3>2
  <2>2. SingleValue(e * Pow(2, SM) + f) = v * Pow(2, 1)
    <3>1. e > 0 /\ e - 1 = 1
      BY <1>8
    <3> QED BY <1>2, <1>4, <3>1, SingleAt
  <2>3. float_quarter(uf) = SSign(s) + round_shift_right_even_u64(v, 1)
    <3>1. e # ExpMax
      BY <1>1, <1>8
    <3> QED BY <1>2, <1>4, <1>8, <3>1 DEF float_quarter
  <2> QED BY <2>1, <2>2, <2>3
<1>9. ASSUME NEW w \in Nat, w < Pow(2, SM + 1)
      PROVE  NearestIn(w * Pow(2, 0), round_shift_right_even_u64(w, 2), FourTable, Inf)
  <2>1. 0 \in {0, 1} /\ 2 - 0 = 2
    OBVIOUS
  <2>2. NearestIn(w * Pow(2, 0), round_shift_right_even_u64(w, 2 - 0), FourTable, Inf)
    BY <1>9, <2>1, QuarterRounds
  <2> QED BY <2>1, <2>2
<1>10. CASE e = 1
  <2>1. SingleValue(e * Pow(2, SM) + f) = v * Pow(2, 0)
    <3>1. e > 0 /\ e - 1 = 0
      BY <1>10
    <3> QED BY <1>2, <1>4, <3>1, SingleAt
  <2>2. float_quarter(uf) = SSign(s) + round_shift_right_even_u64(v, 2)
    <3>1. e # ExpMax
      BY <1>1, <1>10
    <3> QED BY <1>2, <1>4, <1>10, <3>1 DEF float_quarter
  <2> QED BY <1>4, <1>9, <2>1, <2>2
<1>11. CASE e = 0
  <2>1. SingleValue(e * Pow(2, SM) + f) = f * Pow(2, 0)
    BY <1>2, <1>11, SingleAt
  <2>2. float_quarter(uf) = SSign(s) + round_shift_right_even_u64(f, 2)
    <3>1. e # ExpMax
      BY <1>1, <1>11
    <3> QED BY <1>2, <1>11, <3>1 DEF float_quarter
  <2> QED BY <1>5, <1>9, <2>1, <2>2
<1>12. e \in 3 .. ExpMax - 1 \/ e = 2 \/ e = 1 \/ e = 0
  BY <1>1, <1>2
<1> QED BY <1>7, <1>8, <1>10, <1>11, <1>12

(* float_quarter: infinities and NaNs are kept, everything else is rounded. *)
QuarterRight(got, uf) ==
  LET m == uf % Pow(2, SE + SM) IN
  IF m >= Inf THEN got = uf
  ELSE /\ Sign(got) = Sign(uf)
       /\ Nearest(SingleValue(m), got % Pow(2, SE + SM), LAMBDA k : 4 * SingleValue(k), Inf)

(* And float_quarter does so. *)
LEMMA QuarterIsRight ==
  ASSUME NEW uf \in Singles
  PROVE  QuarterRight(float_quarter(uf), uf)
<1>1. SE \in Nat /\ SM \in Nat /\ ExpMax \in Nat /\ Inf \in Nat
  BY FormatFacts
<1>2. PICK s, e, f : PatternIs(uf, SE, SM, s, e, f)
  BY <1>1, PatternThere DEF Singles
<1>3. /\ Sign(uf) = s /\ Exp(uf) = e /\ uf % Pow(2, SE + SM) = e * Pow(2, SM) + f
      /\ s \in {0, 1} /\ e \in 0 .. ExpMax /\ f \in 0 .. Pow(2, SM) - 1 /\ e \in Nat
  BY <1>2, SingleParts
<1>4. PICK N \in Nat \ {0}, q \in Nat \ {0} : N = Pow(2, SM) /\ q = Pow(2, SE + SM) /\ q = Inf + N
  BY InfIs
<1>5. PICK m \in Nat : m = e * N + f /\ m = uf % q
  <2>1. e * N + f \in Nat
    <3>1. \A b \in Nat, c \in Nat : b * c \in Nat
      BY Z3
    <3> QED BY <1>3, <1>4, <3>1
  <2> QED BY <1>3, <1>4, <2>1
<1>6. m >= Inf <=> e = ExpMax
  <2>1. CASE e = ExpMax
    BY <1>1, <1>3, <1>4, <1>5, <2>1 DEF Inf
  <2>2. CASE e # ExpMax
    <3>1. N * e + N <= N * ExpMax
      <4>1. e + 1 <= ExpMax
        BY <1>1, <1>3, <2>2
      <4> QED BY <1>1, <1>3, <4>1, Multiples
    <3>2. N * e = e * N /\ N * ExpMax = ExpMax * N /\ e * N \in Nat
      BY <1>1, <1>3, Z3
    <3>3. m < Inf
      BY <1>1, <1>3, <1>4, <1>5, <3>1, <3>2 DEF Inf
    <3> QED BY <1>1, <2>2, <3>3
  <2> QED BY <2>1, <2>2
<1>7. CASE e = ExpMax
  <2>1. float_quarter(uf) = uf
    <3>1. ~(ExpMax \in 3 .. ExpMax - 1) /\ ExpMax # 2 /\ ExpMax # 1 /\ ExpMax # 0
      BY FormatFacts
    <3> QED BY <1>3, <1>7, <3>1 DEF float_quarter
  <2> QED BY <1>4, <1>5, <1>6, <1>7, <2>1 DEF QuarterRight
<1>8. CASE e # ExpMax
  <2>1. PICK a : float_quarter(uf) = SSign(s) + a /\ NearestIn(SingleValue(m), a, FourTable, Inf)
    BY <1>2, <1>4, <1>5, <1>8, QuarterIs
  <2>2. a \in 0 .. q - 1
    <3>1. a \in 0 .. Inf
      BY <2>1 DEF NearestIn
    <3> QED BY <1>1, <1>4, <3>1
  <2>3. PICK g \in Int : g = float_quarter(uf) /\ g = q * s + a /\ s \in Int
    <3>1. float_quarter(uf) = s * q + a
      BY <1>4, <2>1 DEF SSign
    <3>2. CASE s = 0
      BY <1>4, <2>2, <3>1, <3>2
    <3>3. CASE s = 1
      BY <1>4, <2>2, <3>1, <3>3
    <3> QED BY <1>3, <3>2, <3>3
  <2>4. g \div q = s /\ g % q = a
    BY <2>2, <2>3, QuotientIs
  <2>5. Nearest(SingleValue(m), a, LAMBDA k : 4 * SingleValue(k), Inf)
    BY <2>1, NearestFour
  <2>6. Sign(g) = Sign(uf)
    BY <1>3, <1>4, <2>4 DEF Sign
  <2> QED BY <1>4, <1>5, <1>6, <1>8, <2>3, <2>4, <2>5, <2>6 DEF QuarterRight
<1> QED BY <1>7, <1>8

(* The float labs: what is drawn is a single, of a half where it is one, and what
   is returned is what the converters give. *)
FloatInv ==
  /\ lab \in {"d_fp16", "fp16_lab"} /\ phase \in {"call", "checked"} =>
       /\ input.uf \in Singles
       /\ input.half # NoHalf => input.half \in Halves /\ input.uf = half_to_float32_bits(input.half)
  /\ lab = "e_float_quarter" /\ phase \in {"call", "checked"} => input.uf \in Singles
  /\ lab = "d_fp16" /\ phase = "checked" =>
       result = [got |-> float32_to_float16_full(input.uf), want |-> float32_to_float16_ref(input.uf),
                 quiz |-> float32_to_float16_quiz(input.uf)]
  /\ lab = "fp16_lab" /\ phase = "checked" =>
       result = [got |-> float32_to_float16_experiment_a(input.uf), want |-> fp16_lab_ref(input.uf)]
  /\ lab = "e_float_quarter" /\ phase = "checked" => result.got = float_quarter(input.uf)

(* What the converters give is rounded to nearest even, there and back. *)
LEMMA FloatRounds == FloatInv => NearestEven
<1> SUFFICES ASSUME FloatInv PROVE NearestEven
  OBVIOUS
<1>1. ASSUME Checked("d_fp16")
      PROVE  /\ \A h \in {result.got, result.want, result.quiz} : IsHalfOf(h, input.uf)
             /\ input.half # NoHalf => result.got = input.half
  <2>1. /\ input.uf \in Singles
        /\ input.half # NoHalf => input.half \in Halves /\ input.uf = half_to_float32_bits(input.half)
        /\ result.got = float32_to_float16_ref(input.uf) /\ result.want = float32_to_float16_ref(input.uf)
        /\ result.quiz = float32_to_float16_quiz(input.uf)
    BY <1>1 DEF Checked, FloatInv, float32_to_float16_full
  <2> QED BY <2>1, ConvertersRound, ThereAndBack
<1>2. ASSUME Checked("fp16_lab")
      PROVE  /\ \A h \in {result.got, result.want} : IsHalfOf(h, input.uf)
             /\ input.half # NoHalf /\ HalfMagnitude(input.half) <= HInf => result.got = input.half
  <2>1. /\ input.uf \in Singles
        /\ input.half # NoHalf => input.half \in Halves /\ input.uf = half_to_float32_bits(input.half)
        /\ result.got = float32_to_float16_quiz(input.uf) /\ result.want = fp16_lab_ref(input.uf)
    BY <1>2 DEF Checked, FloatInv, float32_to_float16_experiment_a
  <2> QED BY <2>1, ConvertersRound, ThereAndBack DEF HalfMagnitude
<1>3. ASSUME Checked("e_float_quarter") PROVE QuarterRight(result.got, input.uf)
  <2>1. input.uf \in Singles /\ result.got = float_quarter(input.uf)
    BY <1>3 DEF Checked, FloatInv
  <2> QED BY <2>1, QuarterIsRight
<1> QED BY <1>1, <1>2, <1>3 DEF NearestEven, QuarterRight

(* Every drawn input is a single; a half is drawn with the single it is converted to. *)
LEMMA FloatsDrawn ==
  ASSUME NEW in
  PROVE  /\ in \in HalfCases =>
              /\ in.uf \in Singles
              /\ in.half # NoHalf => in.half \in Halves /\ in.uf = half_to_float32_bits(in.half)
         /\ in \in [uf : Singles] => in.uf \in Singles
<1>1. CASE in \in [half : {NoHalf}, uf : Singles]
  <2>1. in.uf \in Singles /\ in.half = NoHalf
    BY <1>1
  <2> QED BY <2>1
<1>2. CASE in \in {[half |-> h, uf |-> half_to_float32_bits(h)] : h \in Halves}
  <2>1. PICK h \in Halves : in = [half |-> h, uf |-> half_to_float32_bits(h)]
    BY <1>2
  <2>2. in.half = h /\ in.uf = half_to_float32_bits(h)
    BY <2>1
  <2> QED BY <2>1, <2>2, ThereAndBack
<1>3. in \in [uf : Singles] => in.uf \in Singles
  OBVIOUS
<1> QED BY <1>1, <1>2, <1>3 DEF HalfCases

(* A float lab draws, converts what it drew and compares. *)
LEMMA FloatStep == FloatInv /\ [Next]_vars => FloatInv'
<1> SUFFICES ASSUME FloatInv, [Next]_vars, lab \in {"d_fp16", "fp16_lab", "e_float_quarter"} PROVE FloatInv'
  <2>1. ASSUME [Next]_vars, lab \notin {"d_fp16", "fp16_lab", "e_float_quarter"} PROVE FloatInv'
    <3>1. lab' \notin {"d_fp16", "fp16_lab", "e_float_quarter"}
      BY <2>1, SameLab
    <3> QED BY <3>1 DEF FloatInv
  <2> QED BY <2>1
<1>1. lab' = lab
  BY SameLab
<1>2. CASE Draw
  <2>1. phase' = "call" /\ input' \in Inputs[lab]
    BY <1>2 DEF Draw
  <2>2. /\ lab \in {"d_fp16", "fp16_lab"} => input' \in HalfCases
        /\ lab = "e_float_quarter" => input' \in [uf : Singles]
    <3>1. Inputs["d_fp16"] = HalfCases /\ Inputs["fp16_lab"] = HalfCases /\ Inputs["e_float_quarter"] = [uf : Singles]
      BY DEF Inputs
    <3> QED BY <2>1, <3>1
  <2>3. /\ lab \in {"d_fp16", "fp16_lab"} =>
             /\ input'.uf \in Singles
             /\ input'.half # NoHalf => input'.half \in Halves /\ input'.uf = half_to_float32_bits(input'.half)
        /\ lab = "e_float_quarter" => input'.uf \in Singles
    BY <2>2, FloatsDrawn
  <2> QED BY <1>1, <2>1, <2>3 DEF FloatInv
<1>3. CASE Compare
  <2>1. phase' \in {"draw", "failed"}
    BY <1>3 DEF Compare
  <2> QED BY <2>1 DEF FloatInv
<1>4. CASE ConvertFull
  <2>1. /\ phase = "call" /\ lab = "d_fp16" /\ input' = input /\ phase' = "checked"
        /\ result' = [got |-> float32_to_float16_full(input.uf), want |-> float32_to_float16_ref(input.uf),
                      quiz |-> float32_to_float16_quiz(input.uf)]
    BY <1>4 DEF ConvertFull, Calling, Returns
  <2> QED BY <1>1, <2>1 DEF FloatInv
<1>5. CASE ConvertExperiment
  <2>1. /\ phase = "call" /\ lab = "fp16_lab" /\ input' = input /\ phase' = "checked"
        /\ result' = [got |-> float32_to_float16_experiment_a(input.uf), want |-> fp16_lab_ref(input.uf)]
    BY <1>5 DEF ConvertExperiment, Calling, Returns
  <2> QED BY <1>1, <2>1 DEF FloatInv
<1>6. CASE Quarter
  <2>1. /\ phase = "call" /\ lab = "e_float_quarter" /\ input' = input /\ phase' = "checked"
        /\ result' = [got |-> float_quarter(input.uf), want |-> float_quarter_ref(input.uf)]
    BY <1>6 DEF Quarter, Calling, Returns
  <2>2. result'.got = float_quarter(input.uf)
    BY <2>1
  <2> QED BY <1>1, <2>1, <2>2 DEF FloatInv
<1>7. CASE UNCHANGED vars
  BY <1>7 DEF vars, FloatInv
<1>8. ASSUME Next PROVE Draw \/ Compare \/ ConvertFull \/ ConvertExperiment \/ Quarter
  BY <1>8 DEF Next, Calling, verify_unsigned_high_prod32, verify_unsigned_high_prod, verify_mul_u64_u32_shr,
       verify_size_mul_like, PackAndUnpack, Reject, Accept, Decode, LookUp, TraceRow, ConvertTernary,
       ExpandFraction, UpdateCrc, ChecksumData, NotPowerOfTwo, AddSample, EndOfRun
<1> QED BY <1>2, <1>3, <1>4, <1>5, <1>6, <1>7, <1>8

(* The float labs, for any two formats: every converter rounds to nearest, of two to
   even, with carries, subnormal results and overflow; a half converted to single
   comes back. *)
THEOREM RoundsToNearestEven == Spec => []NearestEven
<1>1. Init => FloatInv
  BY DEF Init, FloatInv
<1> QED BY <1>1, FloatRounds, FloatStep, PTL DEF Spec
=============================================================================
