---------------------------- MODULE RangeDecoder ----------------------------
(***************************************************************************)
(* The adaptive binary range decoder of amei.original.c: t(c) reads one    *)
(* bit with the probability the two counters of context c give.  The range *)
(* r and the code p within it grow by one byte whenever r falls below one  *)
(* byte, and the counters are halved before their sum can outgrow r.       *)
(*                                                                         *)
(* Any byte may come next: past the end of the stream the code reads 0,    *)
(* which is one of them, so the position x is left out.                    *)
(***************************************************************************)
EXTENDS Integers

CONSTANTS
  Base,        \* values of a byte: 256 in the program
  Limit,       \* the sum above which counters are halved: 63 in the program
  Contexts     \* what c ranges over: 0..82 in the program

ASSUME SizesAssumption ==
  /\ Base \in Nat /\ Limit \in Nat
  /\ Limit >= 2 /\ Base > Limit + 1

VARIABLES
  p, r,        \* the code and the range it lies in
  X            \* the counters of each context: how often it gave 0 and 1

rangeVars == <<p, r, X>>

Bits == {0, 1}

(* The globals, and main's first byte: r *= 256, p = *x++. *)
RangeInit ==
  /\ r = Base
  /\ p \in 0..(Base - 1)
  /\ X = [c \in Contexts |-> [b \in Bits |-> 0]]

Refills == r < Base
Refilled == IF Refills THEN r * Base ELSE r

F(m) == m[0] + m[1] + 2
(* u: the part of the range that stands for a 0. *)
ZeroShareBefore(m) == (Refilled * (m[0] + 2)) \div F(m)
ZeroShare(m) == (Refilled * (m[0] + 1)) \div F(m)

(* ++m[k], F > 63: the halving looks at the sum before the increment. *)
Halved(m) == [b \in Bits |-> m[b] \div 2]
Count(m, k) ==
  LET more == [m EXCEPT ![k] = @ + 1]
  IN  IF F(m) > Limit THEN Halved(more) ELSE more

(* Everything after the refill, for the code P: k = P >= u. *)
Narrow(c, P) ==
  LET u == ZeroShare(X[c])
      k == IF P >= u THEN 1 ELSE 0
  IN  /\ p' = IF k = 1 THEN P - u ELSE P
      /\ r' = IF k = 1 THEN Refilled - u ELSE u
      /\ X' = [X EXCEPT ![c] = Count(@, k)]

t(c) ==
  \/ ~Refills /\ Narrow(c, p)
  \/ Refills /\ \E byte \in 0..(Base - 1) : Narrow(c, p * Base + byte)

RangeNext == \E c \in Contexts : t(c)
RangeSpec == RangeInit /\ [][RangeNext]_rangeVars
-----------------------------------------------------------------------------
(* The code stays inside the range, and whatever context is read next, its *)
(* split is strictly inside the range too: both bits can come, every bit   *)
(* read narrows the range, so the decoder goes on consuming the stream and *)
(* never divides by a range that has vanished.                             *)
CodeInRange ==
  /\ p \in 0..(r - 1)
  /\ \A c \in Contexts : ZeroShare(X[c]) \in 1..(Refilled - 1)

(* A bit leaves a smaller range than it found, the refill aside.           *)
RangeShrinks == [][~Refills => r' < r]_rangeVars
=============================================================================
