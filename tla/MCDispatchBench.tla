--------------------------- MODULE MCDispatchBench ---------------------------
(* Argument lists that reach every path of both drivers: "all" (two appends  *)
(* to a list), an option twice, none, help and a wrong value before, between *)
(* and after appends.                                                        *)
EXTENDS DispatchBench

Predictable == <<"patterns", "predictable">>
Random == <<"patterns", "random">>
Switch == <<"dispatches", "switch">>
Computed == <<"dispatches", "computed">>
Help == <<"help", "">>
WrongPattern == <<"patterns", "wrong">>
WrongNumber == <<"steps", "wrong">>

MCArguments ==
  {<<>>, <<Random>>, <<Help>>, <<WrongPattern>>, <<WrongNumber>>,
   <<Predictable, Random>>, <<Switch, Computed>>,
   <<Predictable, Random, Switch, Computed>>, <<Computed, Predictable, Random, Random>>,
   <<Predictable, Random, Help>>, <<Switch, Computed, WrongPattern>>,
   <<Random, Switch, WrongNumber>>}
=============================================================================
