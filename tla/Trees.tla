-------------------------------- MODULE Trees --------------------------------
(***************************************************************************)
(* The two search trees of the cache-locality lab (tree_cache_locality/    *)
(* src/tree.c), built over the same sorted keys: a BST whose nodes are     *)
(* allocated in shuffled order, and a B-tree built by a recursion that can *)
(* fail at any node.  A step is one allocator call or one swap of the      *)
(* shuffle, with the straight code after it; the recursion of              *)
(* build_btree_rec is an explicit stack.                                   *)
(*                                                                         *)
(* A B-tree node is named by its path from the root, a BST node by its     *)
(* place in the order of allocation.  The pseudorandom index of the        *)
(* shuffle is any index in range; padding is left out.                     *)
(***************************************************************************)
EXTENDS Heap, SequencesExt

CONSTANTS
  KeyCounts,   \* the values --key-count takes: 2n + 1 fits an int
  Fanout,      \* BTREE_FANOUT
  LeafCap      \* BTREE_LEAF_CAP

ASSUME TreeAssumption ==
  KeyCounts \subseteq Nat /\ Fanout \in Nat \ {0, 1} /\ LeafCap \in Nat /\ Fanout <= LeafCap + 1

Table      == <<"table", 0>>       \* tree->nodes
Perm       == <<"perm", 0>>        \* the array bst_tree_init shuffles
TreeKeys   == <<"tree_keys", 0>>   \* the B-tree's copy of the keys
Bst(i)     == <<"bst", i>>
Node(path) == <<"btree", path>>

VARIABLES
  key_count,   \* how many keys
  bst,         \* bst_tree_t: root, nodes, and key, left, right of every node
  btree,       \* btree_tree_t: root and the fields of every node
  perm, i,     \* locals of bst_tree_init
  stack,       \* the frames of build_btree_rec, innermost first
  ret          \* what the last frame returned

treeVars == <<key_count, bst, btree, perm, i, stack, ret>>

(* A map with one entry more, or changed; two maps of different things. *)
With(map, x, v) == [y \in DOMAIN map \cup {x} |-> IF y = x THEN v ELSE map[y]]
Joint(f, g) == [y \in DOMAIN f \cup DOMAIN g |-> IF y \in DOMAIN f THEN f[y] ELSE g[y]]

Index  == 0 .. key_count - 1
Key(k) == 2 * k + 1                \* make_keys

NoBst   == [root |-> Null, nodes |-> <<>>, node |-> <<>>]
NoBtree == [root |-> Null, node |-> <<>>]

TreesInit ==
  /\ key_count \in KeyCounts
  /\ bst = NoBst /\ btree = NoBtree
  /\ perm = <<>> /\ i = 0 /\ stack = <<>> /\ ret = Null

----------------------------------------------------------------------------
(* The binary search tree.                                                 *)

(* bst_tree_destroy: every entry of the table and then the table. *)
BstOwned == [k \in 1 .. key_count |-> bst.nodes[k - 1]] \o <<Table>>

BstNodes ==
  /\ pc = "bst_init"
  /\ \/ /\ Allocate(Table, "bst_perm")
        /\ bst' = [NoBst EXCEPT !.nodes = [k \in Index |-> Null]]
     \/ pc' = "fail_modes" /\ UNCHANGED <<live, bst>>
  /\ UNCHANGED <<key_count, btree, perm, i, stack, ret>>

BstPerm ==
  /\ pc = "bst_perm"
  /\ \/ /\ Allocate(Perm, "shuffle")
        /\ perm' = [k \in Index |-> k] /\ i' = key_count /\ UNCHANGED bst
     \/ Free(BstOwned, "fail_modes") /\ bst' = NoBst /\ UNCHANGED <<perm, i>>
  /\ UNCHANGED <<key_count, btree, stack, ret>>

Shuffle ==
  /\ pc = "shuffle"
  /\ IF i > 1 THEN \E j \in 0 .. i - 1 :
                     perm' = [perm EXCEPT ![i - 1] = perm[j], ![j] = perm[i - 1]]
                     /\ i' = i - 1 /\ pc' = pc
              ELSE i' = 0 /\ pc' = "bst_node" /\ UNCHANGED perm
  /\ UNCHANGED <<live, key_count, bst, btree, stack, ret>>

(* The i-th allocation becomes the node of key perm[i]. *)
BstNode ==
  /\ pc = "bst_node" /\ i < key_count
  /\ \/ /\ Allocate(Bst(i), "bst_node")
        /\ bst' = [bst EXCEPT !.nodes[perm[i]] = Bst(i),
                              !.node = With(@, Bst(i), [key |-> Key(perm[i]), left |-> Null,
                                                        right |-> Null])]
        /\ i' = i + 1 /\ UNCHANGED perm
     \/ /\ Free(<<Perm>> \o BstOwned, "fail_modes")
        /\ bst' = NoBst /\ perm' = <<>> /\ i' = 0
  /\ UNCHANGED <<key_count, btree, stack, ret>>

(* The node build_bst_from_sorted_nodes returns for a range. *)
BstTop(lo, hi) == IF lo >= hi THEN Null ELSE bst.nodes[lo + (hi - lo) \div 2]

(* Every node with the subtrees build_bst_from_sorted_nodes gives it. *)
build_bst_from_sorted_nodes ==
  LET build[r \in (0 .. key_count) \X (0 .. key_count)] ==
        LET lo  == r[1]
            hi  == r[2]
            mid == lo + (hi - lo) \div 2
            top == bst.nodes[mid]
        IN  IF lo >= hi THEN <<>>
            ELSE With(Joint(build[<<lo, mid>>], build[<<mid + 1, hi>>]), top,
                      [bst.node[top] EXCEPT !.left = BstTop(lo, mid),
                                            !.right = BstTop(mid + 1, hi)])
  IN  build[<<0, key_count>>]

BstLink ==
  /\ pc = "bst_node" /\ i = key_count
  /\ Free(<<Perm>>, "lookups")
  /\ bst' = [bst EXCEPT !.node = build_bst_from_sorted_nodes, !.root = BstTop(0, key_count)]
  /\ perm' = <<>> /\ i' = 0
  /\ UNCHANGED <<key_count, btree, stack, ret>>

bst_tree_lookup(key) ==
  LET look[p \in DOMAIN bst.node \cup {Null}] ==
        IF p = Null THEN -1
        ELSE LET node == bst.node[p]
             IN  IF key < node.key THEN look[node.left]
                 ELSE IF key > node.key THEN look[node.right] ELSE node.key
  IN  look[bst.root]

----------------------------------------------------------------------------
(* The B-tree.                                                             *)

BtreeKeys ==
  /\ pc = "btree_init"
  /\ \/ /\ Allocate(TreeKeys, "enter")
        /\ stack' = <<[path |-> <<>>, lo |-> 0, hi |-> key_count, i |-> 0, cursor |-> 0]>>
     \/ pc' = "fail_modes" /\ UNCHANGED <<live, stack>>
  /\ UNCHANGED <<key_count, bst, btree, perm, i, ret>>

(* How many children a node of count keys gets. *)
child_count_of(count) ==
  LET c == IF count < Fanout THEN count ELSE Fanout
  IN  IF c < 2 THEN 2 ELSE c

(* Mutant of Part: the remainder goes nowhere. *)
PartBase(f) == (f.hi - f.lo) \div child_count_of(f.hi - f.lo)

(* The number of keys of the child the loop of a frame builds next. *)
Part(f) ==
  LET count == f.hi - f.lo
      c     == child_count_of(count)
  IN  count \div c + (IF f.i < count % c THEN 1 ELSE 0)

ChildFrame(f) ==
  [path |-> Append(f.path, f.i), lo |-> f.cursor, hi |-> f.cursor + Part(f),
   i |-> 0, cursor |-> f.cursor]

Leaf(f) ==
  [leaf |-> TRUE, start |-> f.lo, count |-> f.hi - f.lo, keys |-> <<>>, children |-> <<>>]
Inner(f) ==
  LET c == child_count_of(f.hi - f.lo)
  IN  [leaf |-> FALSE, start |-> 0, count |-> 0, keys |-> [j \in 1 .. c - 1 |-> 0],
       children |-> [j \in 1 .. c |-> Null]]

(* A frame of build_btree_rec starts: no node, a leaf, or a first child. *)
Enter ==
  /\ pc = "enter"
  /\ LET f == Head(stack) IN
     \/ /\ ret' = Null /\ stack' = Tail(stack) /\ pc' = "return"
        /\ UNCHANGED <<live, btree>>
     \/ /\ f.hi - f.lo <= LeafCap
        /\ Allocate(Node(f.path), "return")
        /\ btree' = [btree EXCEPT !.node = With(@, Node(f.path), Leaf(f))]
        /\ ret' = Node(f.path) /\ stack' = Tail(stack)
     \/ /\ f.hi - f.lo > LeafCap
        /\ Allocate(Node(f.path), "enter")
        /\ btree' = [btree EXCEPT !.node = With(@, Node(f.path), Inner(f))]
        /\ stack' = <<ChildFrame(f)>> \o stack /\ UNCHANGED ret
  /\ UNCHANGED <<key_count, bst, perm, i>>

(* The blocks destroy_btree_rec frees, in its order. *)
destroy_btree_rec(root) ==
  LET order[p \in DOMAIN btree.node \cup {Null}] ==
        IF p = Null THEN <<>>
        ELSE FlattenSeq([j \in DOMAIN btree.node[p].children |->
                           order[btree.node[p].children[j]]]) \o <<p>>
  IN  order[root]

(* Mutant of Unwound: the children already built stay allocated. *)
UnwoundNodeOnly(f) == <<Node(f.path)>>

(* What a frame frees when its i-th child is NULL. *)
Unwound(f) ==
  FlattenSeq([j \in 1 .. f.i |-> destroy_btree_rec(btree.node[Node(f.path)].children[j])])
  \o <<Node(f.path)>>

Gone(ptrs) == [p \in DOMAIN btree.node \ Pointed(ptrs) |-> btree.node[p]]

ReturnNull ==
  /\ pc = "return" /\ stack # <<>> /\ ret = Null
  /\ Free(Unwound(Head(stack)), "return")
  /\ btree' = [btree EXCEPT !.node = Gone(Unwound(Head(stack)))]
  /\ stack' = Tail(stack)
  /\ UNCHANGED <<key_count, bst, perm, i, ret>>

(* keys[child_hi - 1] *)
Separator(child) == Key(child.hi - 1)

ReturnNode ==
  /\ pc = "return" /\ stack # <<>> /\ ret # Null
  /\ LET f     == Head(stack)
         child == ChildFrame(f)
         g     == [f EXCEPT !.i = @ + 1, !.cursor = child.hi]
         node  == btree.node[Node(f.path)]
         last  == g.i = Len(node.children)
         keys  == IF last THEN node.keys ELSE [node.keys EXCEPT ![g.i] = Separator(child)]
     IN  /\ btree' = [btree EXCEPT !.node[Node(f.path)].children[g.i] = ret,
                                   !.node[Node(f.path)].keys = keys]
         /\ IF last THEN pc' = pc /\ stack' = Tail(stack) /\ ret' = Node(f.path)
                    ELSE /\ pc' = "enter" /\ UNCHANGED ret
                         /\ stack' = <<ChildFrame(g), g>> \o Tail(stack)
  /\ UNCHANGED <<live, key_count, bst, perm, i>>

(* build_btree_rec has returned to btree_tree_init. *)
BtreeRoot ==
  /\ pc = "return" /\ stack = <<>>
  /\ IF ret = Null THEN Free(<<TreeKeys>>, "fail_modes") /\ UNCHANGED btree
                   ELSE /\ btree' = [btree EXCEPT !.root = ret]
                        /\ pc' = "lookups" /\ UNCHANGED live
  /\ ret' = Null
  /\ UNCHANGED <<key_count, bst, perm, i, stack>>

BtreeOwned == destroy_btree_rec(btree.root) \o <<TreeKeys>>

btree_leaf_lookup(node, key) ==
  IF \E j \in 0 .. node.count - 1 : Key(node.start + j) = key THEN key ELSE -1

(* Mutant of Branch: a key equal to the separator goes to its right. *)
BranchRight(node, key) ==
  LET above == {j \in DOMAIN node.keys : key < node.keys[j]}
  IN  IF above = {} THEN Len(node.children) ELSE Min(above)

(* The child a lookup goes to: that of the first separator not below key. *)
Branch(node, key) ==
  LET above == {j \in DOMAIN node.keys : key <= node.keys[j]}
  IN  IF above = {} THEN Len(node.children) ELSE Min(above)

btree_tree_lookup(key) ==
  LET look[p \in DOMAIN btree.node \cup {Null}] ==
        IF p = Null THEN -1
        ELSE LET node == btree.node[p]
             IN  IF node.leaf THEN btree_leaf_lookup(node, key)
                 ELSE look[node.children[Branch(node, key)]]
  IN  look[btree.root]

TreeStep ==
  \/ BstNodes \/ BstPerm \/ Shuffle \/ BstNode \/ BstLink
  \/ BtreeKeys \/ Enter \/ ReturnNull \/ ReturnNode \/ BtreeRoot
=============================================================================
