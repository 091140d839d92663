------------------------------- MODULE MCAmei -------------------------------
(* Every quadtree of a picture 16 samples wide, and any two splits of one   *)
(* 64 wide, where the root has to be split.                                 *)
EXTENDS Amei

MCImages == {[order |-> 2, height |-> 1, splits |-> 0],
             [order |-> 3, height |-> 8, splits |-> 1],
             [order |-> 4, height |-> 9, splits |-> 5],
             [order |-> 6, height |-> 3, splits |-> 2]}
MCModes == 0..33
=============================================================================
