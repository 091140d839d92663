----------------------------- MODULE MCTreeBench -----------------------------
(* A small instance of TreeBench: lists of arguments that reach every path   *)
(* of main, with both trees, a tree twice, and the default.                  *)
EXTENDS TreeBench

MCArguments ==
  {<<>>, <<"all">>, <<"btree16", "bst">>, <<"btree16", "btree16">>, <<"all", "--help">>,
   <<"--help">>, <<"wrong">>, <<"bst", "wrong">>}
=============================================================================
