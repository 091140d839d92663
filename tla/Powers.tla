-------------------------------- MODULE Powers --------------------------------
(***************************************************************************)
(* Powers, as what 1 << n and the like compute.  A recursive function in   *)
(* place of the operator of Integers, which the provers know nothing of.   *)
(***************************************************************************)
EXTENDS Integers

Pow(b, n) ==
  LET power[k \in 0 .. n] == IF k = 0 THEN 1 ELSE b * power[k - 1]
  IN  power[n]

(* The same numbers. *)
ASSUME PowerAssumption == \A b \in 1 .. 4, n \in 0 .. 12 : Pow(b, n) = b^n
=============================================================================
