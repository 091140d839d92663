-------------------------------- MODULE Facts --------------------------------
(***************************************************************************)
(* What several proofs need of natural numbers, division and sequences.    *)
(***************************************************************************)
EXTENDS Integers, Sequences, SequencesExt, SequenceTheorems, WellFoundedInduction, TLAPS

----------------------------------------------------------------------------
(* Numbers.                                                                *)

(* A set of natural numbers has a least one: how inductions are made here. *)
LEMMA LeastNumber ==
  ASSUME NEW T \in SUBSET Nat, T # {}
  PROVE  \E x \in T : \A y \in T : x <= y
<1>1. PICK x \in T : \A y \in T : ~(<<y, x>> \in OpToRel(<, Nat))
  BY WFMin, NatLessThanWellFounded
<1>2. ASSUME NEW y \in T PROVE x <= y
  <2>1. <<y, x>> \in Nat \X Nat /\ ~(<<y, x>> \in {p \in Nat \X Nat : p[1] < p[2]})
    BY <1>1 DEF OpToRel
  <2>2. ~(y < x)
    BY <2>1
  <2> QED BY <2>2
<1> QED BY <1>2

(* Division: quotient and remainder, which no other pair replaces. *)
LEMMA Division ==
  ASSUME NEW n \in Nat \ {0}, NEW a \in Int
  PROVE  a = n * (a \div n) + (a % n) /\ a % n \in 0 .. n - 1 /\ a \div n \in Int
OBVIOUS

(* A smaller multiple is smaller by n at least. *)
LEMMA Multiples ==
  ASSUME NEW n \in Nat, NEW x \in Int, NEW y \in Int, x + 1 <= y
  PROVE  n * x + n <= n * y
<1>1. PICK k \in Nat : y = x + 1 + k
  <2>1. y - x - 1 \in Nat /\ y = x + 1 + (y - x - 1)
    OBVIOUS
  <2> QED BY <2>1
<1>2. n * y = n * x + n + n * k
  BY <1>1
<1>3. n * k >= 0
  OBVIOUS
<1> QED BY <1>2, <1>3

(* A number of the form n * d + e with e below n has the remainder e. *)
LEMMA Remainder ==
  ASSUME NEW n \in Nat \ {0}, NEW d \in Int, NEW e \in 0 .. n - 1
  PROVE  (n * d + e) % n = e
<1> DEFINE a == n * d + e
           q == a \div n
           r == a % n
<1>1. a \in Int
  OBVIOUS
<1> HIDE DEF a
<1>2. a = n * q + r /\ r \in 0 .. n - 1 /\ q \in Int
  BY <1>1, Division
<1> HIDE DEF q, r
<1>3. n * d + e = n * q + r
  BY <1>2 DEF a
<1>4. ~(d + 1 <= q)
  <2>1. n * d \in Int /\ n * q \in Int
    BY <1>2
  <2> QED BY <1>2, <1>3, <2>1, Multiples
<1>5. ~(q + 1 <= d)
  <2>1. n * d \in Int /\ n * q \in Int
    BY <1>2
  <2> QED BY <1>2, <1>3, <2>1, Multiples
<1>6. q = d
  BY <1>2, <1>4, <1>5
<1>7. r = e
  <2>1. n * d \in Int
    OBVIOUS
  <2> QED BY <1>2, <1>3, <1>6, <2>1
<1> QED BY <1>7 DEF r, a

(* Counting on after a wrap. *)
LEMMA NextRemainder ==
  ASSUME NEW n \in Nat \ {0}, NEW a \in Nat
  PROVE  (a + 1) % n = ((a % n) + 1) % n
<1> DEFINE d == a \div n
           e == a % n
<1>1. a = n * d + e /\ e \in 0 .. n - 1 /\ d \in Int
  BY Division
<1> HIDE DEF d, e
<1>2. CASE e + 1 < n
  <2>1. a + 1 = n * d + (e + 1) /\ e + 1 \in 0 .. n - 1
    BY <1>1, <1>2
  <2>2. (a + 1) % n = e + 1
    BY <1>1, <2>1, Remainder
  <2> QED BY <1>1, <2>1, <2>2 DEF e
<1>3. CASE e + 1 = n
  <2>1. a + 1 = n * (d + 1) + 0 /\ 0 \in 0 .. n - 1 /\ d + 1 \in Int
    BY <1>1, <1>3
  <2>2. (a + 1) % n = 0
    BY <2>1, Remainder
  <2>3. n = n * 1 + 0
    OBVIOUS
  <2>4. n % n = 0
    BY <2>1, <2>3, Remainder
  <2> QED BY <1>3, <2>2, <2>4 DEF e
<1> QED BY <1>1, <1>2, <1>3

----------------------------------------------------------------------------
(* Sequences: one of L elements is a function on 1 .. L, and so is what    *)
(* each operation returns.                                                 *)

WithoutAt(s, L, p)   == [i \in 1 .. L - 1 |-> IF i < p THEN s[i] ELSE s[i + 1]]
WithInFront(n, s, L) == [i \in 1 .. L + 1 |-> IF i = 1 THEN n ELSE s[i - 1]]
WithBehind(s, L, n)  == [i \in 1 .. L + 1 |-> IF i = L + 1 THEN n ELSE s[i]]

(* A sequence without its p-th element. *)
LEMMA RemoveAtIs ==
  ASSUME NEW S, NEW L \in Nat, NEW s \in [1 .. L -> S], NEW p \in 1 .. L
  PROVE  RemoveAt(s, p) = WithoutAt(s, L, p)
<1> DEFINE a == SubSeq(s, 1, p - 1)
           b == SubSeq(s, p + 1, L)
           t == [i \in 1 .. L - 1 |-> IF i < p THEN s[i] ELSE s[i + 1]]
<1>1. Len(s) = L /\ s \in Seq(S)
  OBVIOUS
<1>2. /\ a \in Seq(S) /\ Len(a) = p - 1 /\ \A i \in 1 .. p - 1 : a[i] = s[i]
  BY <1>1, SubSeqProperties
<1>3. /\ b \in Seq(S) /\ Len(b) = L - p /\ \A i \in 1 .. L - p : b[i] = s[p + i]
  BY <1>1, SubSeqProperties
<1>4. RemoveAt(s, p) = a \o b
  BY <1>1 DEF RemoveAt
<1> HIDE DEF a, b
<1>5. /\ a \o b \in Seq(S) /\ Len(a \o b) = L - 1
      /\ \A i \in 1 .. L - 1 : (a \o b)[i] = t[i]
  <2>1. /\ a \o b \in Seq(S) /\ Len(a \o b) = Len(a) + Len(b)
        /\ \A i \in 1 .. Len(a) + Len(b) :
             (a \o b)[i] = IF i <= Len(a) THEN a[i] ELSE b[i - Len(a)]
    BY <1>2, <1>3, ConcatProperties
  <2>2. Len(a) + Len(b) = L - 1
    BY <1>2, <1>3
  <2>3. ASSUME NEW i \in 1 .. L - 1 PROVE (a \o b)[i] = t[i]
    <3>1. (a \o b)[i] = IF i <= Len(a) THEN a[i] ELSE b[i - Len(a)]
      BY <2>1, <2>2
    <3>2. CASE i < p
      BY <1>2, <3>1, <3>2
    <3>3. CASE i >= p
      <4>1. i - Len(a) \in 1 .. L - p /\ p + (i - Len(a)) = i + 1 /\ ~(i <= Len(a))
        BY <1>2, <3>3
      <4>2. (a \o b)[i] = s[i + 1]
        BY <1>3, <3>1, <4>1
      <4> QED BY <3>3, <4>2
    <3> HIDE DEF t
    <3>4. i < p \/ i >= p
      OBVIOUS
    <3> QED BY <3>2, <3>3, <3>4
  <2> QED BY <2>1, <2>2, <2>3
<1>6. t \in Seq(S) /\ Len(t) = L - 1
  OBVIOUS
<1> HIDE DEF t
<1>7. a \o b = t
  BY <1>5, <1>6, SeqEqual
<1> QED BY <1>4, <1>7 DEF t, WithoutAt

(* A sequence without its first element. *)
LEMMA HeadTailIs ==
  ASSUME NEW S, NEW L \in Nat \ {0}, NEW s \in [1 .. L -> S]
  PROVE  Head(s) = s[1] /\ Tail(s) = WithoutAt(s, L, 1)
<1> DEFINE t == [i \in 1 .. L - 1 |-> s[i + 1]]
<1>1. Len(s) = L /\ s \in Seq(S) /\ s # << >>
  OBVIOUS
<1>2. /\ Tail(s) \in Seq(S) /\ Len(Tail(s)) = L - 1
      /\ \A i \in 1 .. L - 1 : Tail(s)[i] = s[i + 1]
  BY <1>1, HeadTailProperties
<1>3. t \in Seq(S) /\ Len(t) = L - 1 /\ \A i \in 1 .. L - 1 : t[i] = s[i + 1]
  OBVIOUS
<1> HIDE DEF t
<1>4. Tail(s) = t
  BY <1>2, <1>3, SeqEqual
<1>5. t = WithoutAt(s, L, 1)
  BY DEF t, WithoutAt
<1> QED BY <1>1, <1>4, <1>5

(* A sequence with one more element in front, or behind. *)
LEMMA PushIs ==
  ASSUME NEW S, NEW L \in Nat, NEW s \in [1 .. L -> S], NEW n \in S
  PROVE  <<n>> \o s = WithInFront(n, s, L) /\ Append(s, n) = WithBehind(s, L, n)
<1>1. Len(s) = L /\ s \in Seq(S) /\ <<n>> \in Seq(S) /\ Len(<<n>>) = 1 /\ <<n>>[1] = n
  OBVIOUS
<1> DEFINE t == [i \in 1 .. L + 1 |-> IF i = 1 THEN n ELSE s[i - 1]]
<1>2. /\ <<n>> \o s \in Seq(S) /\ Len(<<n>> \o s) = 1 + L
      /\ \A i \in 1 .. 1 + L : (<<n>> \o s)[i] = IF i <= 1 THEN <<n>>[i] ELSE s[i - 1]
  BY <1>1, ConcatProperties
<1>3. t \in Seq(S) /\ Len(t) = L + 1 /\ \A i \in 1 .. L + 1 : t[i] = (<<n>> \o s)[i]
  BY <1>1, <1>2
<1> HIDE DEF t
<1>4. <<n>> \o s = t
  BY <1>2, <1>3, SeqEqual
<1> DEFINE u == [i \in 1 .. L + 1 |-> IF i = L + 1 THEN n ELSE s[i]]
<1>5. /\ Append(s, n) \in Seq(S) /\ Len(Append(s, n)) = L + 1
      /\ \A i \in 1 .. L : Append(s, n)[i] = s[i]
      /\ Append(s, n)[L + 1] = n
  BY <1>1, AppendProperties
<1>6. u \in Seq(S) /\ Len(u) = L + 1 /\ \A i \in 1 .. L + 1 : u[i] = Append(s, n)[i]
  BY <1>1, <1>5
<1> HIDE DEF u
<1>7. Append(s, n) = u
  BY <1>5, <1>6, SeqEqual
<1> QED BY <1>4, <1>7 DEF t, u, WithInFront, WithBehind
=============================================================================
