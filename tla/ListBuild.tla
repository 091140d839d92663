----------------------------- MODULE ListBuild -----------------------------
(***************************************************************************)
(* The linked-list cache lab (linked-list-cache-lab/src): a benchmark      *)
(* trial builds a list of n nodes in one of four ways (alloc.c), finds its *)
(* middle with one of two algorithms (middle_*.c) and destroys the list.   *)
(* Every allocation may fail, and each way of building unwinds in its own  *)
(* way.  A step is one allocator call, one swap of the shuffle, or one     *)
(* run of straight code between two of these.                              *)
(*                                                                         *)
(* A node is its index in the node table; a heap block is a pair: its name *)
(* and, for a node of its own block, the node.  Payloads and times are     *)
(* left out; the pseudorandom index of the shuffle is any index in range.  *)
(***************************************************************************)
EXTENDS Heap

CONSTANTS
  Lengths,     \* the values --n takes
  Spreads,     \* the values --spread-bytes takes
  SizeMax,     \* SIZE_MAX: size_t counts modulo SizeMax + 1
  PageSize,    \* sysconf(_SC_PAGESIZE)
  NodeSize     \* sizeof(struct node)

ASSUME SizeAssumption ==
  /\ SizeMax \in Nat /\ PageSize \in 1 .. SizeMax /\ NodeSize \in 1 .. PageSize
  /\ Lengths \subseteq 0 .. SizeMax /\ Spreads \subseteq 0 .. SizeMax

Modes == {"contiguous", "malloc", "shuffle", "page_spread"}

Storage  == <<"storage", 0>>      \* the node array, or the page-spread region
Table    == <<"table", 0>>        \* the array of pointers to the nodes
Indices  == <<"indices", 0>>      \* the array list_build shuffles
Block(i) == <<"node", i>>         \* a node allocated by itself

End == -1                         \* a NULL next pointer

VARIABLES
  n, spread,   \* the options of the run
  local,       \* locals of the build function: i, indices, len, and its two pointers
  list,        \* struct list_handle
  next,        \* the next pointer of every node
  middle       \* what the algorithm returned, or End

vars == <<n, spread, pc, live, local, list, next, middle>>

Index == 0 .. n - 1

Zeroed  == [mode |-> "contiguous", n |-> 0, spread |-> 0, head |-> End,
            storage |-> Null, indirect |-> Null, len |-> 0]
NoLocal == [i |-> 0, indices |-> <<>>, len |-> 0, nodes |-> Null, views |-> Null]

(* The handle once a build function has filled it. *)
Filled(head, storage, indirect, len, stride) ==
  [mode |-> list.mode, n |-> list.n, spread |-> stride, head |-> head,
   storage |-> storage, indirect |-> indirect, len |-> len]
Unlinked == [k \in Index |-> End]

Init ==
  /\ n \in Lengths /\ spread \in Spreads
  /\ pc = "idle" /\ live = {} /\ local = NoLocal
  /\ list = Zeroed /\ next = Unlinked /\ middle = End

(* The separately allocated nodes before the m-th, in the order they are freed. *)
NodeBlocks(m) == [k \in 1 .. m |-> Block(k - 1)]

----------------------------------------------------------------------------
(* list_build.                                                             *)

Build(mode) ==
  /\ pc = "idle" /\ n > 0
  /\ list' = [mode |-> mode, n |-> n, spread |-> spread, head |-> End,
              storage |-> Null, indirect |-> Null, len |-> 0]
  /\ pc' = mode /\ local' = NoLocal
  /\ UNCHANGED <<n, spread, live, next, middle>>

BuildEmpty ==                     \* list length must be > 0
  /\ pc = "idle" /\ n = 0
  /\ list' = Zeroed /\ pc' = "failed"
  /\ UNCHANGED <<n, spread, live, local, next, middle>>

Sequential == [k \in Index |-> IF k + 1 < n THEN k + 1 ELSE End]

(* build_contiguous: both allocations are tried before either is checked. *)
ContiguousNodes ==
  /\ pc = "contiguous"
  /\ \/ Allocate(Storage, "contiguous_views") /\ local' = [local EXCEPT !.nodes = Storage]
     \/ pc' = "contiguous_views" /\ UNCHANGED <<live, local>>
  /\ UNCHANGED <<n, spread, list, next, middle>>

ContiguousViews ==
  /\ pc = "contiguous_views"
  /\ \/ Allocate(Table, "contiguous_check") /\ local' = [local EXCEPT !.views = Table]
     \/ pc' = "contiguous_check" /\ UNCHANGED <<live, local>>
  /\ UNCHANGED <<n, spread, list, next, middle>>

(* Mutant of ContiguousCheck: the failure path frees the node array only. *)
ContiguousCheckHalf ==
  /\ pc = "contiguous_check"
  /\ IF local.nodes = Null \/ local.views = Null
     THEN Free(<<local.nodes>>, "failed") /\ UNCHANGED <<list, next>>
     ELSE /\ next' = Sequential
          /\ list' = Filled(0, local.nodes, local.views, n * NodeSize, spread)
          /\ pc' = "built" /\ UNCHANGED live
  /\ UNCHANGED <<n, spread, local, middle>>

ContiguousCheck ==
  /\ pc = "contiguous_check"
  /\ IF local.nodes = Null \/ local.views = Null
     THEN Free(<<local.nodes, local.views>>, "failed") /\ UNCHANGED <<list, next>>
     ELSE /\ next' = Sequential
          /\ list' = Filled(0, local.nodes, local.views, n * NodeSize, spread)
          /\ pc' = "built" /\ UNCHANGED live
  /\ UNCHANGED <<n, spread, local, middle>>

(* build_malloc_nodes: the table, then node i for each i. *)
MallocTable ==
  /\ pc \in {"malloc", "shuffle"}
  /\ \/ Allocate(Table, "malloc_node") /\ local' = [local EXCEPT !.nodes = Table]
     \/ pc' = "failed" /\ UNCHANGED <<live, local>>
  /\ UNCHANGED <<n, spread, list, next, middle>>

MallocNode ==
  /\ pc = "malloc_node" /\ local.i < n
  /\ \/ Allocate(Block(local.i), "malloc_node") /\ local' = [local EXCEPT !.i = @ + 1]
     \/ Free(Append(NodeBlocks(local.i), local.nodes), "failed") /\ UNCHANGED local
  /\ UNCHANGED <<n, spread, list, next, middle>>

(* Every node is there: link them in order, or fetch indices to shuffle.  *)
(* storage_len is that of the table, here in pointers.                    *)
MallocLink ==
  /\ pc = "malloc_node" /\ local.i = n
  /\ \/ /\ list.mode = "malloc"
        /\ next' = Sequential
        /\ list' = Filled(0, local.nodes, local.nodes, n, spread)
        /\ pc' = "built" /\ UNCHANGED <<live, local>>
     \/ /\ list.mode = "shuffle"
        /\ Allocate(Indices, "shuffle_indices")
        /\ local' = [local EXCEPT !.indices = [k \in Index |-> k], !.i = n]
        /\ UNCHANGED <<list, next>>
     \/ /\ list.mode = "shuffle"
        /\ Free(Append(NodeBlocks(n), local.nodes), "failed")
        /\ UNCHANGED <<local, list, next>>
  /\ UNCHANGED <<n, spread, middle>>

(* One round of the Fisher-Yates loop, for the i from n down to 2. *)
ShuffleSwap ==
  /\ pc = "shuffle_indices" /\ local.i > 1
  /\ \E j \in 0 .. local.i - 1 :
       local' = [local EXCEPT !.i = @ - 1,
                              !.indices[local.i - 1] = local.indices[j],
                              !.indices[j] = local.indices[local.i - 1]]
  /\ UNCHANGED <<n, spread, pc, live, list, next, middle>>

(* Mutant of ShuffleLinks: node k, not the k-th index, is linked to the next index. *)
ShuffleLinksByNode ==
  LET ix == local.indices
  IN  [k \in Index |-> IF k + 1 < n THEN ix[k + 1] ELSE End]

(* The links the shuffle leaves: the last index ends the list. *)
ShuffleLinks ==
  LET ix == local.indices
  IN  [m \in Index |-> LET k == CHOOSE k \in Index : ix[k] = m
                       IN  IF k + 1 < n THEN ix[k + 1] ELSE End]

ShuffleLink ==
  /\ pc = "shuffle_indices" /\ local.i <= 1
  /\ next' = ShuffleLinks
  /\ list' = Filled(local.indices[0], local.nodes, local.nodes, n, spread)
  /\ Free(<<Indices>>, "built")
  /\ UNCHANGED <<n, spread, local, middle>>

(* build_page_spread: the stride, the region's length, region and views.   *)
(* No page size, an overflow and no memory all fail with nothing allocated. *)
Stride == LET s == IF spread = 0 THEN PageSize ELSE spread
          IN  IF s < NodeSize THEN NodeSize ELSE s

(* Mutant of Overflows: off by a factor of two. *)
OverflowsLate(a, b) == a # 0 /\ b # 0 /\ a > (2 * SizeMax) \div b

Overflows(a, b) == a # 0 /\ b # 0 /\ a > SizeMax \div b      \* checked_mul_size

SpreadRegion ==
  /\ pc = "page_spread"
  /\ \/ /\ ~Overflows(n, Stride)
        /\ Allocate(Storage, "spread_views")
        /\ local' = [local EXCEPT !.len = (n * Stride) % (SizeMax + 1), !.nodes = Storage]
     \/ pc' = "failed" /\ UNCHANGED <<live, local>>
  /\ UNCHANGED <<n, spread, list, next, middle>>

SpreadViews ==
  /\ pc = "spread_views"
  /\ \/ /\ Allocate(Table, "built")
        /\ next' = Sequential
        /\ list' = Filled(0, local.nodes, Table, local.len, Stride)
     \/ Free(<<local.nodes>>, "failed") /\ UNCHANGED <<list, next>>
  /\ UNCHANGED <<n, spread, local, middle>>

----------------------------------------------------------------------------
(* The two algorithms, as walks over next.                                 *)

(* The k-th node from m, or End past the last one. *)
Nth(m, k) ==
  LET at[j \in 0 .. k] == IF j = 0 THEN m
                          ELSE IF at[j - 1] = End THEN End ELSE next[at[j - 1]]
  IN  at[k]

middle_two_pass(head) ==
  LET count == CHOOSE c \in 0 .. n : Nth(head, c) = End /\ \A k \in 0 .. c - 1 : Nth(head, k) # End
  IN  Nth(head, count \div 2)

(* slow and fast after j rounds: a round is made while fast and its successor *)
(* are there, so n rounds are more than the loop makes.                       *)
Rounds(first) ==
  LET at[j \in 0 .. n] ==
        IF j = 0 THEN first
        ELSE LET was == at[j - 1]
             IN  IF was.fast = End \/ Nth(was.fast, 1) = End THEN was
                 ELSE [slow |-> next[was.slow], fast |-> Nth(was.fast, 2)]
  IN  at[n]

(* Mutant of middle_fast_slow: fast starts one node ahead. *)
middle_fast_slow_ahead(head) == Rounds([slow |-> head, fast |-> Nth(head, 1)]).slow

middle_fast_slow(head) == Rounds([slow |-> head, fast |-> head]).slow

FindFastSlow ==
  /\ pc = "built"
  /\ middle' = middle_fast_slow(list.head) /\ pc' = "found"
  /\ UNCHANGED <<n, spread, live, local, list, next>>

FindTwoPass ==
  /\ pc = "built"
  /\ middle' = middle_two_pass(list.head) /\ pc' = "found"
  /\ UNCHANGED <<n, spread, live, local, list, next>>

----------------------------------------------------------------------------
(* list_destroy: what the mode allocated, each block once.                 *)

(* Mutant of Owned: storage is freed besides indirect in every mode. *)
OwnedTwice ==
  IF list.mode \in {"malloc", "shuffle"} /\ list.indirect # Null
  THEN NodeBlocks(list.n) \o <<list.storage, list.indirect>>
  ELSE <<list.storage, list.indirect>>

Owned ==
  IF list.mode \in {"malloc", "shuffle"}
  THEN IF list.indirect = Null THEN <<>> ELSE Append(NodeBlocks(list.n), list.indirect)
  ELSE <<list.storage, list.indirect>>

Destroy ==
  /\ pc = "found"
  /\ Free(Owned, "idle")
  /\ list' = Zeroed /\ next' = Unlinked /\ middle' = End /\ local' = NoLocal
  /\ UNCHANGED <<n, spread>>

Next ==
  \/ \E mode \in Modes : Build(mode)
  \/ BuildEmpty
  \/ ContiguousNodes \/ ContiguousViews \/ ContiguousCheck
  \/ MallocTable \/ MallocNode \/ MallocLink \/ ShuffleSwap \/ ShuffleLink
  \/ SpreadRegion \/ SpreadViews
  \/ FindFastSlow \/ FindTwoPass \/ Destroy

Spec == Init /\ [][Next]_vars

----------------------------------------------------------------------------
Pcs == Modes \cup {"idle", "failed", "bad_free", "contiguous_views", "contiguous_check",
                   "malloc_node", "shuffle_indices", "spread_views", "built", "found"}

(* No block outlives its trial or is freed twice: whichever allocation of  *)
(* whichever build fails, list_build returns -1 with nothing allocated and *)
(* a handle that owns nothing (benchmark_once does not destroy it); after  *)
(* list_destroy nothing is left; no free() is given a dead pointer.        *)
NothingLost ==
  /\ pc # "bad_free"
  /\ pc \in {"idle", "failed"} => live = {} /\ list.storage = Null /\ list.indirect = Null
  /\ pc \in {"built", "found"} => live = Pointed(Owned)

(* A built list is one path: from head it meets every node once and ends,  *)
(* after any sequence of swaps of the shuffle.                             *)
OnePath ==
  pc = "built" => /\ {Nth(list.head, k) : k \in Index} = Index
                  /\ Nth(list.head, n) = End

(* Both algorithms return the node at position n / 2 of the list, for even *)
(* and odd n, however it is linked.                                        *)
MiddleFound == pc = "found" => middle = Nth(list.head, n \div 2)

(* The nodes of a page-spread list lie inside the region, one stride       *)
(* apart and without overlap, though n * stride is a size_t product.       *)
NodesApart ==
  pc = "built" /\ list.mode = "page_spread" =>
    /\ list.spread >= NodeSize
    /\ \A k \in Index : k * list.spread + NodeSize <= list.len

----------------------------------------------------------------------------
(* The inductive invariant behind NothingLost: at every step the live      *)
(* blocks are exactly those the locals of the build function, or the       *)
(* handle, still point to.                                                 *)

Nodes(m) == {Block(j) : j \in 0 .. m - 1}

OwnedByLocals ==
  /\ pc \in Modes \cup {"idle", "failed"} => live = {}
  /\ pc \in Modes => pc = list.mode /\ local = NoLocal
  /\ pc = "contiguous_views" =>
       local.nodes \in {Storage, Null} /\ local.views = Null /\ live = {local.nodes} \ {Null}
  /\ pc = "contiguous_check" =>
       /\ local.nodes \in {Storage, Null} /\ local.views \in {Table, Null}
       /\ live = {local.nodes, local.views} \ {Null}
  /\ pc \in {"contiguous_views", "contiguous_check"} => list.mode = "contiguous"
  /\ pc = "malloc_node" => live = {Table} \cup Nodes(local.i)
  /\ pc = "shuffle_indices" => live = {Table, Indices} \cup Nodes(n) /\ list.mode = "shuffle"
  /\ pc \in {"malloc_node", "shuffle_indices"} =>
       local.nodes = Table /\ list.mode \in {"malloc", "shuffle"}
  /\ pc = "spread_views" =>
       local.nodes = Storage /\ live = {Storage} /\ list.mode = "page_spread"

OwnedByList ==
  /\ pc \notin {"idle", "failed"} => list.n = n
  /\ pc \notin {"built", "found"} => list.storage = Null /\ list.indirect = Null
  /\ pc \in {"built", "found"} =>
       \/ /\ list.mode \in {"malloc", "shuffle"} /\ live = {Table} \cup Nodes(n)
          /\ list.storage = Table /\ list.indirect = Table
       \/ /\ list.mode \in {"contiguous", "page_spread"} /\ live = {Storage, Table}
          /\ list.storage = Storage /\ list.indirect = Table

Frame ==
  /\ n \in Nat /\ pc \in Pcs \ {"bad_free"} /\ list.mode \in Modes
  /\ local.i \in 0 .. n
  /\ local = [i |-> local.i, indices |-> local.indices, len |-> local.len,
              nodes |-> local.nodes, views |-> local.views]

IInv == Frame /\ OwnedByLocals /\ OwnedByList
=============================================================================
