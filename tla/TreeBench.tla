------------------------------ MODULE TreeBench ------------------------------
(***************************************************************************)
(* The driver of the cache-locality lab (tree_cache_locality/src/bench.c): *)
(* it collects the modes the arguments ask for, makes keys and queries,    *)
(* and builds, queries and destroys one tree per mode.  Parsing of numbers *)
(* and timing are left out; a query is any key.                            *)
(***************************************************************************)
EXTENDS Trees

CONSTANTS
  Arguments,     \* sequences of mode arguments, "--help", and "wrong" for any other
  LookupCounts,  \* values of --lookups
  RepCounts,     \* values of --reps, which 0 is not
  Word           \* 2^64, the modulus of a checksum

ASSUME BenchAssumption ==
  LookupCounts \subseteq Nat /\ RepCounts \subseteq Nat \ {0} /\ Word \in Nat \ {0}

Items   == <<"modes", 0>>     \* modes.items
Keys    == <<"keys", 0>>
Queries == <<"queries", 0>>

VARIABLES
  todo,        \* the modes still to be appended, "--help" or "wrong"
  modes,       \* mode_list_t
  lookup_count, reps,
  queries,     \* the keys looked up
  mi, rep,     \* the loops of main
  out,         \* what was printed: mode, repetition, checksum
  status       \* the exit status, or -1

vars == <<treeVars, pc, live, todo, modes, lookup_count, reps, queries, mi, rep, out, status>>

(* What parse_mode_list appends for an argument. *)
Requested(arg) == IF arg = "all" THEN <<"bst", "btree16">> ELSE <<arg>>

Init ==
  /\ TreesInit
  /\ pc = "arguments" /\ live = {}
  /\ \E args \in Arguments : todo = FlattenSeq([a \in DOMAIN args |-> Requested(args[a])])
  /\ modes = <<>>
  /\ lookup_count \in LookupCounts /\ reps \in RepCounts
  /\ queries = <<>> /\ mi = 0 /\ rep = 0 /\ out = <<>> /\ status = -1

(* append_mode grows modes.items; when it cannot, the old items stay. *)
append_mode(mode) ==
  \/ Allocate(Items, "arguments") /\ modes' = Append(modes, mode)
  \/ pc' = "fail" /\ UNCHANGED <<live, modes>>

ModeItems == IF modes = <<>> THEN Null ELSE Items

Argument ==
  /\ pc = "arguments" /\ todo # <<>> /\ todo' = Tail(todo)
  /\ \/ Head(todo) \in {"bst", "btree16"} /\ append_mode(Head(todo)) /\ UNCHANGED status
     \/ Head(todo) = "wrong" /\ pc' = "fail" /\ UNCHANGED <<live, modes, status>>
     \/ Head(todo) = "--help" /\ Free(<<ModeItems>>, "exit") /\ status' = 0 /\ UNCHANGED modes
  /\ UNCHANGED <<treeVars, lookup_count, reps, queries, mi, rep, out>>

DefaultMode ==
  /\ pc = "arguments" /\ todo = <<>> /\ modes = <<>>
  /\ append_mode("bst")
  /\ UNCHANGED <<treeVars, todo, lookup_count, reps, queries, mi, rep, out, status>>

MakeKeys ==
  /\ pc = "arguments" /\ todo = <<>> /\ modes # <<>>
  /\ \/ key_count > 0 /\ lookup_count > 0 /\ Allocate(Keys, "make_queries")
     \/ pc' = "fail" /\ UNCHANGED live
  /\ UNCHANGED <<treeVars, todo, modes, lookup_count, reps, queries, mi, rep, out, status>>

MakeQueries ==
  /\ pc = "make_queries"
  /\ \/ /\ Allocate(Queries, "modes")
        /\ queries' \in [0 .. lookup_count - 1 -> {Key(k) : k \in Index}]
     \/ Free(<<Keys>>, "fail") /\ UNCHANGED queries
  /\ UNCHANGED <<treeVars, todo, modes, lookup_count, reps, mi, rep, out, status>>

(* The next mode's tree, or the end of main. *)
Mode ==
  /\ pc = "modes"
  /\ IF mi < Len(modes)
     THEN /\ pc' = IF modes[mi + 1] = "bst" THEN "bst_init" ELSE "btree_init"
          /\ UNCHANGED <<live, status>>
     ELSE Free(<<Keys, Queries, Items>>, "exit") /\ status' = 0
  /\ UNCHANGED <<treeVars, todo, modes, lookup_count, reps, queries, mi, rep, out>>

Lookup(key) == IF modes[mi + 1] = "bst" THEN bst_tree_lookup(key) ELSE btree_tree_lookup(key)

Checksum(results) == FoldFunction(LAMBDA a, b : (a + b) % Word, 0, results)

Repetition ==
  /\ pc = "lookups" /\ rep < reps
  /\ out' = Append(out, <<mi, rep, Checksum([q \in DOMAIN queries |-> Lookup(queries[q])])>>)
  /\ rep' = rep + 1
  /\ UNCHANGED <<treeVars, pc, live, todo, modes, lookup_count, reps, queries, mi, status>>

(* Mutant of Destroy: the next mode starts at the last repetition of this one. *)
DestroyKeepRep ==
  /\ pc = "lookups" /\ rep = reps
  /\ IF modes[mi + 1] = "bst"
     THEN Free(BstOwned, "modes") /\ bst' = NoBst /\ UNCHANGED btree
     ELSE Free(BtreeOwned, "modes") /\ btree' = NoBtree /\ UNCHANGED bst
  /\ mi' = mi + 1 /\ UNCHANGED rep
  /\ UNCHANGED <<key_count, perm, i, stack, ret, todo, modes, lookup_count, reps, queries, out,
                 status>>

(* The tree of this mode is destroyed and its variable leaves its scope. *)
Destroy ==
  /\ pc = "lookups" /\ rep = reps
  /\ IF modes[mi + 1] = "bst"
     THEN Free(BstOwned, "modes") /\ bst' = NoBst /\ UNCHANGED btree
     ELSE Free(BtreeOwned, "modes") /\ btree' = NoBtree /\ UNCHANGED bst
  /\ mi' = mi + 1 /\ rep' = 0
  /\ UNCHANGED <<key_count, perm, i, stack, ret, todo, modes, lookup_count, reps, queries, out,
                 status>>

FailModes ==
  /\ pc = "fail_modes" /\ Free(<<Keys, Queries>>, "fail")
  /\ UNCHANGED <<treeVars, todo, modes, lookup_count, reps, queries, mi, rep, out, status>>

Fail ==
  /\ pc = "fail" /\ Free(<<ModeItems>>, "exit") /\ status' = 1
  /\ UNCHANGED <<treeVars, todo, modes, lookup_count, reps, queries, mi, rep, out>>

TreeNext ==
  TreeStep /\ UNCHANGED <<todo, modes, lookup_count, reps, queries, mi, rep, out, status>>

Next ==
  \/ Argument \/ DefaultMode \/ MakeKeys \/ MakeQueries \/ Mode \/ TreeNext
  \/ Repetition \/ Destroy \/ FailModes \/ Fail

Spec == Init /\ [][Next]_vars

----------------------------------------------------------------------------
(* Whichever allocation fails, of any node at any depth of any tree, the   *)
(* program frees each block once and exits with none left.                 *)
NothingLeaks ==
  /\ pc # "bad_free"
  /\ pc = "exit" => live = {}

(* A finished tree finds every key and nothing else: the separators, the   *)
(* split into children and the order of the BST's nodes agree with the     *)
(* lookups, equality included, for any order of allocation.                *)
FindsExactly ==
  pc = "lookups" =>
    \A k \in 0 .. 2 * key_count + 1 :
      Lookup(k) = IF k \in {Key(j) : j \in Index} THEN k ELSE -1

(* The leaves of a finished B-tree share the keys out: each key is in one  *)
(* leaf, and no leaf is empty or over its capacity.                        *)
LeavesTile ==
  pc = "lookups" /\ modes[mi + 1] = "btree16" =>
    LET leaves == {p \in DOMAIN btree.node : btree.node[p].leaf}
        Of(p)  == btree.node[p].start .. btree.node[p].start + btree.node[p].count - 1
    IN  /\ UNION {Of(p) : p \in leaves} = Index
        /\ \A p, q \in leaves : p # q => Of(p) \cap Of(q) = {}
        /\ \A p \in leaves : btree.node[p].count \in 1 .. LeafCap

(* A successful run prints one line for each mode asked for and repetition, *)
(* in order, and all print the same checksum: the sum of the queries.       *)
SameChecksum ==
  /\ \A l \in DOMAIN out : out[l][3] = Checksum(queries)
  /\ status = 0 /\ queries # <<>> =>
       [l \in DOMAIN out |-> <<out[l][1], out[l][2]>>]
         = [l \in 1 .. Len(modes) * reps |-> <<(l - 1) \div reps, (l - 1) % reps>>]
=============================================================================
