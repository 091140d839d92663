------------------------------- MODULE Lookups -------------------------------
(***************************************************************************)
(* The three structures tree_cache_lab.c looks the same keys up in: an     *)
(* unbalanced binary search tree, a sorted array, and the array cut into   *)
(* blocks that are found by their largest key.  Arrays are sequences, so   *)
(* element i of C is i + 1 here.  A tree maps each path from the root, a   *)
(* sequence of turns, to the node there; its pointers are the paths.       *)
(***************************************************************************)
EXTENDS Integers, Sequences, FiniteSets

CONSTANT BLOCK_SIZE     \* 32

ASSUME BlockAssumption == BLOCK_SIZE \in Nat \ {0}

(* keys[i] ^ 0x9e37...: one value for each key, and none is 0. *)
ValueOf(key) == key + 100

(* Where the search for a key ends: at its node, or at the NULL in whose    *)
(* place node_insert puts it.                                              *)
Place(root, key) ==
  LET at[steps \in 0 .. Cardinality(DOMAIN root)] ==
        IF steps = 0 THEN <<>>
        ELSE LET p == at[steps - 1]
             IN  IF p \notin DOMAIN root \/ root[p].key = key THEN p
                 ELSE Append(p, IF key < root[p].key THEN "left" ELSE "right")
  IN at[Cardinality(DOMAIN root)]

node_insert(root, key, value) ==
  [p \in DOMAIN root \cup {Place(root, key)} |->
     IF p = Place(root, key) THEN [key |-> key, value |-> value] ELSE root[p]]

node_lookup(root, key) ==
  IF Place(root, key) \in DOMAIN root THEN root[Place(root, key)].value ELSE 0

(* The tree after the n insertions, in the shuffled order. *)
bst_build(keys, values, order) ==
  LET root[k \in 0 .. Len(order)] ==
        IF k = 0 THEN <<>> ELSE node_insert(root[k - 1], keys[order[k]], values[order[k]])
  IN root[Len(order)]

(* The first of n places whose key is not below the one sought, or n: the loop
   ends after n rounds at most. *)
LowerBound(keys, n, key) ==
  LET at[rounds \in 0 .. n] ==
        IF rounds = 0 THEN [lo |-> 0, hi |-> n]
        ELSE LET b == at[rounds - 1] mid == b.lo + (b.hi - b.lo) \div 2
             IN  IF b.lo >= b.hi THEN b
                 ELSE IF keys[mid + 1] < key THEN [b EXCEPT !.lo = mid + 1] ELSE [b EXCEPT !.hi = mid]
  IN at[n].lo

array_lookup(keys, values, n, key) ==
  LET lo == LowerBound(keys, n, key)
  IN IF lo < n /\ keys[lo + 1] = key THEN values[lo + 1] ELSE 0

BlockEnd(b, n) == IF (b + 1) * BLOCK_SIZE > n THEN n ELSE (b + 1) * BLOCK_SIZE

block_build_first(keys, n) ==      \* Mutant of block_build: a block's first key.
  [b \in 1 .. (n + BLOCK_SIZE - 1) \div BLOCK_SIZE |-> keys[(b - 1) * BLOCK_SIZE + 1]]

(* max_keys; keys and values are copied as they are. *)
block_build(keys, n) ==
  [b \in 1 .. (n + BLOCK_SIZE - 1) \div BLOCK_SIZE |-> keys[BlockEnd(b - 1, n)]]

block_lookup(max_keys, keys, values, n, key) ==
  LET lo   == LowerBound(max_keys, Len(max_keys), key)
      hits == {i \in lo * BLOCK_SIZE + 1 .. BlockEnd(lo, n) : keys[i] = key}
  IN IF lo = Len(max_keys) \/ hits = {} THEN 0
     ELSE values[CHOOSE i \in hits : \A j \in hits : i <= j]
=============================================================================
