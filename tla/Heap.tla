-------------------------------- MODULE Heap --------------------------------
(***************************************************************************)
(* The allocator as the programs here use it (malloc, calloc, realloc,     *)
(* posix_memalign, free): the set of blocks allocated and not yet freed.   *)
(* A block is named by the pair of what it holds and a number or path; an  *)
(* allocation may always fail, which the caller models by not calling      *)
(* Allocate.  A free() of a dead pointer ends the program in "bad_free".   *)
(***************************************************************************)
EXTENDS Integers, Sequences

VARIABLES
  pc,          \* what the program does next
  live         \* the blocks allocated and not freed

Null == <<"null", 0>>

(* The allocator returns a block. *)
Allocate(b, then) == live' = live \cup {b} /\ pc' = then

(* free() of pointers, one after the other: each one live when its turn    *)
(* comes, or NULL.                                                         *)
Pointed(ptrs) == {ptrs[k] : k \in DOMAIN ptrs} \ {Null}
Freeable(ptrs) ==
  /\ Pointed(ptrs) \subseteq live
  /\ \A j, k \in DOMAIN ptrs : ptrs[j] = ptrs[k] /\ ptrs[j] # Null => j = k

Free(ptrs, then) ==
  IF Freeable(ptrs) THEN live' = live \ Pointed(ptrs) /\ pc' = then
                    ELSE pc' = "bad_free" /\ UNCHANGED live
=============================================================================
