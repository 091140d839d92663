--------------------------- MODULE TreeBenchProofs ---------------------------
(***************************************************************************)
(* The cache-locality driver for every number of keys, every fan-out and   *)
(* leaf capacity and every list of modes.                                  *)
(***************************************************************************)
EXTENDS TreeBench, Facts, FiniteSetTheorems

(* The first key of the j-th of the Fanout parts build_btree_rec cuts a    *)
(* range into, counted from 0; the last of them ends where the range does. *)
Cut(lo, hi, j) ==
  LET more == (hi - lo) % Fanout
  IN  lo + j * ((hi - lo) \div Fanout) + (IF j < more THEN j ELSE more)

(* The range of keys below each path of the B-tree. *)
Paths == Seq(Nat)
Spans == [Paths -> [lo : Nat, hi : Nat]]
Frames == [path : Paths, lo : Nat, hi : Nat, i : Nat, cursor : Nat]

(* What the node of a path holds, finished or not. *)
LeafOn(lo, hi) ==
  [leaf |-> TRUE, start |-> lo, count |-> hi - lo, keys |-> <<>>, children |-> <<>>]
InnerOn(n, tree, q, span) ==
  LET lo == span[q].lo
      hi == span[q].hi
  IN  /\ n \in [leaf : {FALSE}, start : {0}, count : {0}, keys : [1 .. Fanout - 1 -> Int],
                children : [1 .. Fanout -> {Null} \cup DOMAIN tree]]
      /\ \A j \in 1 .. Fanout : n.children[j] # Null =>
           /\ n.children[j] = Node(Append(q, j - 1))
           /\ span[Append(q, j - 1)] = [lo |-> Cut(lo, hi, j - 1), hi |-> Cut(lo, hi, j)]
           /\ j < Fanout => n.keys[j] = Key(Cut(lo, hi, j) - 1)
NodeFits(tree, q, span) ==
  /\ span[q].lo < span[q].hi /\ span[q].hi <= key_count
  /\ \/ /\ span[q].hi - span[q].lo <= LeafCap
        /\ tree[Node(q)] = LeafOn(span[q].lo, span[q].hi)
     \/ /\ span[q].hi - span[q].lo > LeafCap
        /\ InnerOn(tree[Node(q)], tree, q, span)
TreeFits(tree, span) ==
  /\ \A x \in DOMAIN tree : \E q \in Paths : x = Node(q)
  /\ \A q \in Paths : Node(q) \in DOMAIN tree => NodeFits(tree, q, span)

(* The frames of the recursion: each one works on the part its caller's    *)
(* loop has come to.                                                       *)
CalledBy(f, c) == c.path = ChildFrame(f).path /\ c.lo = ChildFrame(f).lo /\ c.hi = ChildFrame(f).hi
Chain(st) ==
  \A k \in 1 .. Len(st) :
    /\ Len(st[k].path) = Len(st) - k
    /\ k = Len(st) => st[k].path = <<>> /\ st[k].lo = 0 /\ st[k].hi = key_count
    /\ k < Len(st) => CalledBy(st[k + 1], st[k])

(* A frame in its loop has built as many children as it has counted. *)
Open(f, tree, span) ==
  /\ Node(f.path) \in DOMAIN tree /\ ~tree[Node(f.path)].leaf
  /\ span[f.path] = [lo |-> f.lo, hi |-> f.hi]
  /\ f.i < Fanout /\ f.cursor = Cut(f.lo, f.hi, f.i)
  /\ \A j \in 1 .. Fanout : tree[Node(f.path)].children[j] # Null <=> j <= f.i
Fresh(f, tree, span) ==
  /\ Node(f.path) \notin DOMAIN tree
  /\ span[f.path] = [lo |-> f.lo, hi |-> f.hi] /\ f.lo < f.hi /\ f.hi <= key_count
  /\ f.i = 0 /\ f.cursor = f.lo

(* A node some other node points to. *)
HasParent(tree, q) ==
  \E s \in Paths, j \in 1 .. Fanout :
    /\ Node(s) \in DOMAIN tree /\ ~tree[Node(s)].leaf
    /\ q = Append(s, j - 1) /\ tree[Node(s)].children[j] = Node(q)

(* What a frame returns. *)
Returned(tree, st, r, span) ==
  r # Null => \E q \in Paths :
    /\ r = Node(q) /\ r \in DOMAIN tree
    /\ IF st = <<>> THEN q = <<>> /\ span[q] = [lo |-> 0, hi |-> key_count]
       ELSE q = ChildFrame(st[1]).path
            /\ span[q] = [lo |-> ChildFrame(st[1]).lo, hi |-> ChildFrame(st[1]).hi]

(* The tree while the frames from m on are in their loops: a node that     *)
(* lacks a child is the node of one of them, and what nobody points to is  *)
(* the node of one of them or the one just returned.                       *)
Building(tree, st, r, span, m) ==
  /\ span \in Spans /\ TreeFits(tree, span)
  /\ st \in Seq(Frames) /\ Chain(st)
  /\ \A k \in m .. Len(st) : Open(st[k], tree, span)
  /\ \A q \in Paths : Node(q) \in DOMAIN tree =>
       /\ \/ tree[Node(q)].leaf
          \/ \A j \in 1 .. Fanout : tree[Node(q)].children[j] # Null
          \/ \E k \in m .. Len(st) : st[k].path = q
       /\ \/ r = Node(q) \/ HasParent(tree, q)
          \/ \E k \in m .. Len(st) : st[k].path = q
  /\ Returned(tree, st, r, span)

----------------------------------------------------------------------------
(* The binary search tree.                                                 *)
Permutation(p) ==
  /\ p \in [Index -> Index]
  /\ \A j, k \in Index : p[j] = p[k] => j = k
  /\ \A k \in Index : \E j \in Index : p[j] = k

BstBlocks == {Bst(j) : j \in Index}

(* The first n nodes are allocated, that of key p[j] by the j-th call. *)
Allocated(n, p) ==
  /\ bst = [root |-> Null, nodes |-> bst.nodes, node |-> bst.node]
  /\ DOMAIN bst.node = {Bst(j) : j \in 0 .. n - 1}
  /\ bst.nodes \in [Index -> BstBlocks \cup {Null}]
  /\ \A j \in Index : bst.nodes[p[j]] = IF j < n THEN Bst(j) ELSE Null
  /\ \A j \in 0 .. n - 1 :
       bst.node[Bst(j)] = [key |-> Key(p[j]), left |-> Null, right |-> Null]

(* Top and the middle of a range. *)
Mid(lo, hi) == lo + (hi - lo) \div 2
Top(nodes, lo, hi) == IF lo >= hi THEN Null ELSE nodes[Mid(lo, hi)]

(* A node is the middle of a range and points to the middles of its halves. *)
Hangs(T, nodes, L, H, k) ==
  /\ k = Mid(L[k], H[k])
  /\ T[nodes[k]] = [key |-> Key(k), left |-> Top(nodes, L[k], k), right |-> Top(nodes, k + 1, H[k])]
  /\ L[k] < k => L[Mid(L[k], k)] = L[k] /\ H[Mid(L[k], k)] = k
  /\ k + 1 < H[k] => L[Mid(k + 1, H[k])] = k + 1 /\ H[Mid(k + 1, H[k])] = H[k]

(* T links the nodes of the keys lo to hi - 1. *)
Linked(T, nodes, lo, hi) ==
  \E L, H \in [lo .. hi - 1 -> 0 .. key_count] :
    /\ \A k \in lo .. hi - 1 : lo <= L[k] /\ L[k] <= k /\ k < H[k] /\ H[k] <= hi /\ Hangs(T, nodes, L, H, k)
    /\ lo < hi => L[Mid(lo, hi)] = lo /\ H[Mid(lo, hi)] = hi

BstDone ==
  /\ bst.nodes \in [Index -> BstBlocks]
  /\ \A j, k \in Index : bst.nodes[j] = bst.nodes[k] => j = k
  /\ \A x \in BstBlocks : \E k \in Index : bst.nodes[k] = x
  /\ DOMAIN bst.node = BstBlocks
  /\ Linked(bst.node, bst.nodes, 0, key_count)
  /\ bst.root = Top(bst.nodes, 0, key_count)

----------------------------------------------------------------------------
(* The whole program. *)
Base == {Items, Keys, Queries}
BstPcs == {"bst_init", "bst_perm", "shuffle", "bst_node"}
BtreePcs == {"btree_init", "enter", "return"}
TreePcs == BstPcs \cup BtreePcs \cup {"lookups"}
Started == TreePcs \cup {"modes", "fail_modes"}
Pcs == Started \cup {"arguments", "make_queries", "fail", "exit"}

ModeBlocks == IF modes = <<>> THEN {} ELSE {Items}

MainInv ==
  /\ key_count \in Nat /\ lookup_count \in Nat /\ reps \in Nat \ {0}
  /\ pc \in Pcs
  /\ modes \in Seq({"bst", "btree16"})
  /\ mi \in 0 .. Len(modes)
  /\ pc \in TreePcs => mi < Len(modes)
  /\ pc \in BstPcs => modes[mi + 1] = "bst"
  /\ pc \in BtreePcs => modes[mi + 1] = "btree16"
  /\ rep \in 0 .. reps /\ (rep = 0 \/ pc = "lookups")
  /\ pc \in {"arguments", "make_queries"} => queries = <<>> /\ status # 0 /\ mi = 0
  /\ pc \in Started => queries \in [0 .. lookup_count - 1 -> {Key(k) : k \in Index}]
  /\ pc \in Started \cup {"make_queries"} => modes # <<>> /\ key_count > 0
  /\ status = 0 => queries = <<>> \/ mi = Len(modes)
  /\ pc # "exit" => status # 0
  /\ out = [l \in 1 .. mi * reps + rep |->
              <<(l - 1) \div reps, (l - 1) % reps, Checksum(queries)>>]
  /\ pc \in {"arguments", "fail"} => live = ModeBlocks
  /\ pc = "make_queries" => live = {Items, Keys}
  /\ pc \in {"modes", "fail_modes", "bst_init", "btree_init"} => live = Base
  /\ pc = "exit" => live = {}

AllNull == bst = [NoBst EXCEPT !.nodes = [k \in Index |-> Null]]

BstInv ==
  /\ pc = "bst_perm" => live = Base \cup {Table} /\ AllNull
  /\ pc = "shuffle" => live = Base \cup {Table, Perm} /\ AllNull /\ i \in 0 .. key_count
                       /\ Permutation(perm)
  /\ pc = "bst_node" =>
       /\ i \in 0 .. key_count /\ Permutation(perm) /\ Allocated(i, perm)
       /\ live = Base \cup {Table, Perm} \cup {Bst(j) : j \in 0 .. i - 1}
  /\ pc = "lookups" /\ modes[mi + 1] = "bst" =>
       live = Base \cup {Table} \cup BstBlocks /\ BstDone

BtreeLive == live = Base \cup {TreeKeys} \cup DOMAIN btree.node

BtreeInv(span) ==
  /\ pc \in {"arguments","make_queries","modes"} \cup BstPcs \cup {"btree_init"} => btree = NoBtree /\ stack = <<>> /\ ret = Null
  /\ pc = "enter" =>
       /\ stack # <<>> /\ btree = [root |-> Null, node |-> btree.node] /\ BtreeLive
       /\ Building(btree.node, stack, Null, span, 2) /\ Fresh(stack[1], btree.node, span)
  /\ pc = "return" =>
       /\ btree = [root |-> Null, node |-> btree.node] /\ BtreeLive
       /\ Building(btree.node, stack, ret, span, 1)
  /\ pc = "lookups" =>
       /\ stack = <<>> /\ ret = Null
       /\ IF modes[mi + 1] = "bst" THEN btree = NoBtree
          ELSE /\ btree = [root |-> Node(<<>>), node |-> btree.node] /\ BtreeLive
               /\ Building(btree.node, <<>>, Node(<<>>), span, 1)

IInv == MainInv /\ BstInv /\ \E span \in Spans : BtreeInv(span)

----------------------------------------------------------------------------
(* Maps, names and sequences.                                              *)

(* A map with one more entry, or a new one. *)
LEMMA WithDomain ==
  ASSUME NEW g, NEW x, NEW v
  PROVE  DOMAIN With(g, x, v) = DOMAIN g \cup {x}
BY DEF With

LEMMA WithEntry ==
  ASSUME NEW g, NEW x, NEW v
  PROVE  With(g, x, v)[x] = v
BY DEF With

LEMMA WithOthers ==
  ASSUME NEW g, NEW x, NEW v
  PROVE  \A y \in DOMAIN g : y # x => With(g, x, v)[y] = g[y]
BY DEF With

LEMMA NodeNames ==
  ASSUME NEW q, NEW r
  PROVE  /\ Node(q) # Null
         /\ Node(q) = Node(r) => q = r
         /\ Node(q) \notin Base \cup {TreeKeys}
         /\ TreeKeys \notin Base /\ Null \notin Base \cup {TreeKeys}
BY DEF Node, Null, Base, TreeKeys, Items, Keys, Queries

LEMMA BstNames ==
  ASSUME NEW j, NEW k
  PROVE  /\ Bst(j) # Null /\ Bst(j) # Table /\ Bst(j) # Perm
         /\ Bst(j) = Bst(k) => j = k
         /\ Bst(j) \notin Base
         /\ Table \notin Base /\ Perm \notin Base /\ Table # Perm
         /\ Null \notin Base /\ Table # Null /\ Perm # Null
BY DEF Bst, Null, Base, Table, Perm, Items, Keys, Queries

LEMMA PathStep ==
  ASSUME NEW q \in Paths, NEW r \in Paths, NEW j \in Nat, NEW k \in Nat
  PROVE  /\ Append(q, j) \in Paths /\ Len(Append(q, j)) = Len(q) + 1
         /\ Append(q, j) # <<>>
         /\ Append(q, j) = Append(r, k) => q = r /\ j = k
<1>1. /\ Append(q, j) \in Paths /\ Len(Append(q, j)) = Len(q) + 1
      /\ \A m \in 1 .. Len(q) : Append(q, j)[m] = q[m]
      /\ Append(q, j)[Len(q) + 1] = j
  BY AppendProperties DEF Paths
<1>2. /\ Append(r, k) \in Paths /\ Len(Append(r, k)) = Len(r) + 1
      /\ \A m \in 1 .. Len(r) : Append(r, k)[m] = r[m]
      /\ Append(r, k)[Len(r) + 1] = k
  BY AppendProperties DEF Paths
<1>3. ASSUME Append(q, j) = Append(r, k) PROVE q = r /\ j = k
  <2>1. Len(q) \in Nat /\ Len(r) \in Nat
    BY DEF Paths
  <2>2. Len(q) = Len(r)
    BY <1>1, <1>2, <1>3, <2>1
  <2>3. q = r
    BY <1>1, <1>2, <1>3, <2>2, SeqEqual DEF Paths
  <2> QED BY <1>1, <1>2, <1>3, <2>2, <2>3
<1>4. Append(q, j) # <<>>
  <2>1. Len(<<>>) = 0 /\ Len(q) \in Nat
    BY DEF Paths
  <2> QED BY <1>1, <2>1
<1> QED BY <1>1, <1>3, <1>4

(* A frame pushed, a frame popped. *)
LEMMA PushPop ==
  ASSUME NEW S, NEW st \in Seq(S), NEW c \in S
  PROVE  /\ <<c>> \o st \in Seq(S) /\ Len(<<c>> \o st) = Len(st) + 1
         /\ (<<c>> \o st)[1] = c
         /\ \A k \in 1 .. Len(st) : (<<c>> \o st)[k + 1] = st[k]
         /\ st # <<>> =>
              /\ Len(st) \in Nat \ {0} /\ Head(st) = st[1] /\ st[1] \in S
              /\ Tail(st) \in Seq(S) /\ Len(Tail(st)) = Len(st) - 1
              /\ \A k \in 1 .. Len(st) - 1 : Tail(st)[k] = st[k + 1]
<1>1. <<c>> \in Seq(S) /\ Len(<<c>>) = 1 /\ <<c>>[1] = c /\ Len(st) \in Nat
  OBVIOUS
<1>2. /\ <<c>> \o st \in Seq(S) /\ Len(<<c>> \o st) = Len(<<c>>) + Len(st)
      /\ \A m \in 1 .. Len(<<c>>) + Len(st) :
           (<<c>> \o st)[m] = IF m <= Len(<<c>>) THEN <<c>>[m] ELSE st[m - Len(<<c>>)]
  BY <1>1, ConcatProperties
<1>3. ASSUME NEW k \in 1 .. Len(st) PROVE (<<c>> \o st)[k + 1] = st[k]
  <2>1. k + 1 \in 1 .. 1 + Len(st) /\ ~(k + 1 <= 1) /\ (k + 1) - 1 = k
    BY <1>1
  <2> QED BY <1>1, <1>2, <2>1
<1>4. (<<c>> \o st)[1] = c
  <2>1. 1 \in 1 .. 1 + Len(st) /\ 1 <= 1
    BY <1>1
  <2> QED BY <1>1, <1>2, <2>1
<1>5. ASSUME st # <<>>
      PROVE  /\ Len(st) \in Nat \ {0} /\ Head(st) = st[1] /\ st[1] \in S
             /\ Tail(st) \in Seq(S) /\ Len(Tail(st)) = Len(st) - 1
             /\ \A k \in 1 .. Len(st) - 1 : Tail(st)[k] = st[k + 1]
  <2>1. Len(st) # 0
    BY <1>5, EmptySeq
  <2>2. 1 \in 1 .. Len(st)
    BY <1>1, <2>1
  <2>3. /\ Tail(st) \in Seq(S) /\ Len(Tail(st)) = Len(st) - 1
        /\ \A k \in 1 .. Len(Tail(st)) : Tail(st)[k] = st[k + 1]
    BY <1>5, HeadTailProperties
  <2>4. st[1] \in S /\ Head(st) = st[1]
    BY <1>5, <2>2
  <2> QED BY <1>1, <2>1, <2>3, <2>4
<1> QED BY <1>1, <1>2, <1>3, <1>4, <1>5

(* A sequence of S in which nothing comes twice. *)
Once(s, S) == s \in Seq(S) /\ \A j, k \in 1 .. Len(s) : s[j] = s[k] => j = k
In(x, s) == \E k \in 1 .. Len(s) : s[k] = x

LEMMA Joined ==
  ASSUME NEW S, NEW s \in Seq(S), NEW t \in Seq(S)
  PROVE  /\ s \o t \in Seq(S)
         /\ \A x : In(x, s \o t) <=> In(x, s) \/ In(x, t)
         /\ Once(s, S) /\ Once(t, S) /\ (\A x : ~(In(x, s) /\ In(x, t))) => Once(s \o t, S)
<1> DEFINE a == Len(s)
           b == Len(t)
           u == s \o t
<1>1. /\ u \in Seq(S) /\ Len(u) = a + b /\ a \in Nat /\ b \in Nat
      /\ \A k \in 1 .. a + b : u[k] = IF k <= a THEN s[k] ELSE t[k - a]
  BY ConcatProperties
<1> HIDE DEF u
<1>2. \A k \in 1 .. a : k \in 1 .. a + b /\ u[k] = s[k]
  BY <1>1
<1>3. \A k \in 1 .. b : k + a \in 1 .. a + b /\ u[k + a] = t[k]
  <2>1. ASSUME NEW k \in 1 .. b PROVE k + a \in 1 .. a + b /\ ~(k + a <= a) /\ (k + a) - a = k
    BY <1>1
  <2> QED BY <1>1, <2>1
<1>4. \A k \in 1 .. a + b : k \in 1 .. a \/ k - a \in 1 .. b
  BY <1>1
<1>5. \A k \in 1 .. a + b : (k - a) + a = k
  BY <1>1
<1> HIDE DEF a, b
<1>6. ASSUME NEW x PROVE In(x, u) <=> In(x, s) \/ In(x, t)
  <2>1. ASSUME In(x, u) PROVE In(x, s) \/ In(x, t)
    <3>1. PICK k \in 1 .. a + b : u[k] = x
      BY <1>1, <2>1 DEF In
    <3> QED BY <1>1, <1>2, <1>3, <1>4, <1>5, <3>1 DEF In, a, b
  <2>2. In(x, s) => In(x, u)
    BY <1>1, <1>2 DEF In, a
  <2>3. In(x, t) => In(x, u)
    BY <1>1, <1>3 DEF In, b
  <2> QED BY <2>1, <2>2, <2>3
<1>7. ASSUME Once(s, S), Once(t, S), \A x : ~(In(x, s) /\ In(x, t)) PROVE Once(u, S)
  <2>1. ASSUME NEW j \in 1 .. a + b, NEW k \in 1 .. a + b, u[j] = u[k] PROVE j = k
    <3>1. CASE j \in 1 .. a /\ k \in 1 .. a
      BY <1>2, <1>7, <2>1, <3>1 DEF Once, a
    <3>2. CASE j - a \in 1 .. b /\ k - a \in 1 .. b
      <4>1. u[j] = t[j - a] /\ u[k] = t[k - a]
        BY <1>3, <1>5, <3>2
      <4>2. j - a = k - a
        BY <1>7, <2>1, <3>2, <4>1 DEF Once, b
      <4> QED BY <1>1, <4>2
    <3>3. CASE j \in 1 .. a /\ k - a \in 1 .. b
      <4>1. In(u[j], s) /\ In(u[k], t)
        BY <1>2, <1>3, <1>5, <3>3 DEF In, a, b
      <4> QED BY <1>7, <2>1, <4>1
    <3>4. CASE j - a \in 1 .. b /\ k \in 1 .. a
      <4>1. In(u[k], s) /\ In(u[j], t)
        BY <1>2, <1>3, <1>5, <3>4 DEF In, a, b
      <4> QED BY <1>7, <2>1, <4>1
    <3> QED BY <1>4, <3>1, <3>2, <3>3, <3>4
  <2> QED BY <1>1, <2>1 DEF Once
<1> QED BY <1>1, <1>6, <1>7 DEF u

(* Sequences joined one after the other. *)
LEMMA FlattenIs ==
  ASSUME NEW S, NEW n \in Nat, NEW F \in [1 .. n -> Seq(S)]
  PROVE  /\ FlattenSeq(F) \in Seq(S)
         /\ \A x : In(x, FlattenSeq(F)) <=> \E j \in 1 .. n : In(x, F[j])
         /\ /\ \A j \in 1 .. n : Once(F[j], S)
            /\ \A x : \A j, k \in 1 .. n : In(x, F[j]) /\ In(x, F[k]) => j = k
            => Once(FlattenSeq(F), S)
<1>1. Len(F) = n
  OBVIOUS
<1>2. CASE n = 0
  <2>1. FlattenSeq(F) = F
    BY <1>1, <1>2 DEF FlattenSeq
  <2>2. F \in Seq(S) /\ Len(F) = 0 /\ 1 .. 0 = {} /\ 1 .. Len(F) = {}
    BY <1>1, <1>2
  <2>3. \A x : ~In(x, F)
    BY <2>2 DEF In
  <2> QED BY <1>2, <2>1, <2>2, <2>3 DEF Once
<1>3. CASE n # 0
  <2> DEFINE Joins(m, g) == \A k \in 1 .. m : g[k] = IF k = 1 THEN F[k] ELSE g[k - 1] \o F[k]
             Step(g) == [k \in 1 .. n |-> IF k = 1 THEN F[k] ELSE g[k - 1] \o F[k]]
  (* The function that joins the first k of them, built up one by one. *)
  <2>1. \E g \in [1 .. n -> Seq(S)] : Joins(n, g)
    <3> DEFINE T == {m \in 0 .. n : ~\E g \in [1 .. m -> Seq(S)] : Joins(m, g)}
    <3>1. ASSUME T # {} PROVE FALSE
      <4>1. PICK m \in T : \A y \in T : m <= y
        <5>1. T \in SUBSET Nat
          OBVIOUS
        <5> HIDE DEF T
        <5> QED BY <3>1, <5>1, LeastNumber
      <4>2. m # 0
        <5>1. [k \in 1 .. 0 |-> <<>>] \in [1 .. 0 -> Seq(S)] /\ 1 .. 0 = {}
          OBVIOUS
        <5> QED BY <5>1
      <4>3. m - 1 \in 0 .. n /\ m - 1 \notin T
        <5>1. m \in 0 .. n
          OBVIOUS
        <5> HIDE DEF T
        <5> QED BY <4>1, <4>2, <5>1
      <4>4. PICK g \in [1 .. m - 1 -> Seq(S)] : Joins(m - 1, g)
        BY <4>3
      <4> DEFINE last == IF m = 1 THEN F[m] ELSE g[m - 1] \o F[m]
                 h == [k \in 1 .. m |-> IF k = m THEN last ELSE g[k]]
      <4>5. last \in Seq(S)
        <5>1. m \in 1 .. n /\ F[m] \in Seq(S)
          BY <4>1, <4>2
        <5>2. m # 1 => g[m - 1] \in Seq(S)
          BY <4>1, <4>2
        <5> QED BY <5>1, <5>2, ConcatProperties
      <4>6. h \in [1 .. m -> Seq(S)]
        <5> HIDE DEF last
        <5>1. ASSUME NEW k \in 1 .. m, k # m PROVE g[k] \in Seq(S)
          <6>1. k \in 1 .. m - 1
            BY <4>1, <5>1
          <6> QED BY <6>1
        <5> QED BY <4>5, <5>1
      <4>7. ASSUME NEW k \in 1 .. m PROVE h[k] = IF k = 1 THEN F[k] ELSE h[k - 1] \o F[k]
        <5>1. CASE k = m
          <6>1. m # 1 => m - 1 \in 1 .. m /\ m - 1 # m
            BY <4>1, <4>2
          <6> QED BY <5>1, <6>1
        <5>2. CASE k # m
          <6>1. k \in 1 .. m - 1 /\ (k # 1 => k - 1 \in 1 .. m /\ k - 1 # m)
            BY <4>1, <5>2
          <6> HIDE DEF last
          <6> QED BY <4>4, <5>2, <6>1
        <5> QED BY <5>1, <5>2
      <4> HIDE DEF h
      <4> QED BY <4>1, <4>6, <4>7
    <3> HIDE DEF Joins
    <3>2. n \in 0 .. n
      OBVIOUS
    <3> QED BY <3>1, <3>2
  <2>2. PICK g \in [1 .. n -> Seq(S)] : Joins(n, g)
    BY <2>1
  <2>3. g = Step(g)
    <3>1. \A k \in 1 .. n : g[k] = Step(g)[k]
      BY <2>2
    <3> QED BY <3>1
  <2>4. ASSUME NEW h, h = Step(h) PROVE h = g
    <3> DEFINE T == {k \in 1 .. n : h[k] # g[k]}
    <3>1. ASSUME T # {} PROVE FALSE
      <4>1. PICK k \in T : \A y \in T : k <= y
        <5>1. T \in SUBSET Nat
          OBVIOUS
        <5> HIDE DEF T
        <5> QED BY <3>1, <5>1, LeastNumber
      <4>2. k \in 1 .. n /\ (k # 1 => k - 1 \in 1 .. n /\ h[k - 1] = g[k - 1])
        BY <4>1
      <4>3. h[k] = Step(h)[k] /\ g[k] = Step(g)[k]
        BY <2>3, <2>4
      <4> QED BY <4>1, <4>2, <4>3
    <3>2. \A k \in 1 .. n : h[k] = g[k]
      BY <3>1
    <3>3. h = [k \in 1 .. n |-> h[k]] /\ g = [k \in 1 .. n |-> g[k]]
      BY <2>4
    <3> QED BY <3>2, <3>3
  <2>5. (CHOOSE h : h = Step(h)) = g
    BY <2>3, <2>4
  <2>6. FlattenSeq(F) = g[n]
    <3>1. FlattenSeq(F) = (CHOOSE h : h = Step(h))[n]
      BY <1>1, <1>3 DEF FlattenSeq
    <3> QED BY <2>5, <3>1
  (* What the first k of them join to. *)
  <2> DEFINE Apart == /\ \A j \in 1 .. n : Once(F[j], S)
                      /\ \A x : \A j, k \in 1 .. n : In(x, F[j]) /\ In(x, F[k]) => j = k
             Good(k) == /\ \A x : In(x, g[k]) <=> \E j \in 1 .. k : In(x, F[j])
                        /\ Apart => Once(g[k], S)
             T == {k \in 1 .. n : ~Good(k)}
  <2>7. ASSUME T # {} PROVE FALSE
    <3>1. PICK k \in T : \A y \in T : k <= y
      <4>1. T \in SUBSET Nat
        OBVIOUS
      <4> HIDE DEF T
      <4> QED BY <2>7, <4>1, LeastNumber
    <3>2. CASE k = 1
      <4>1. g[k] = F[1] /\ 1 .. 1 = {1} /\ 1 \in 1 .. n
        BY <2>2, <3>1, <3>2
      <4>2. Good(1)
        BY <3>2, <4>1
      <4> QED BY <3>1, <3>2, <4>2
    <3>3. CASE k # 1
      <4>1. /\ k - 1 \in 1 .. n /\ k \in 1 .. n /\ k - 1 \notin T
            /\ \A j \in 1 .. k - 1 : j \in 1 .. n /\ j # k
            /\ \A j \in 1 .. k : j = k \/ j \in 1 .. k - 1
            /\ \A j \in 1 .. k - 1 : j \in 1 .. k
        <5>1. k \in 1 .. n
          OBVIOUS
        <5> HIDE DEF T
        <5> QED BY <3>1, <3>3, <5>1
      <4>2. g[k] = g[k - 1] \o F[k] /\ g[k - 1] \in Seq(S) /\ F[k] \in Seq(S)
        BY <2>2, <3>3, <4>1
      <4>3. Good(k - 1)
        BY <4>1
      <4>4. ASSUME NEW x PROVE In(x, g[k]) <=> \E j \in 1 .. k : In(x, F[j])
        <5>1. In(x, g[k]) <=> In(x, g[k - 1]) \/ In(x, F[k])
          BY <4>2, Joined
        <5>2. In(x, g[k - 1]) <=> \E j \in 1 .. k - 1 : In(x, F[j])
          BY <4>3
        <5>3. k \in 1 .. k
          BY <4>1
        <5> QED BY <4>1, <5>1, <5>2, <5>3
      <4>5. ASSUME Apart PROVE Once(g[k], S)
        <5>1. Once(g[k - 1], S) /\ Once(F[k], S)
          BY <4>1, <4>3, <4>5
        <5>2. \A x : ~(In(x, g[k - 1]) /\ In(x, F[k]))
          BY <4>1, <4>3, <4>5
        <5> QED BY <4>2, <5>1, <5>2, Joined
      <4>6. Good(k)
        BY <4>4, <4>5
      <4> QED BY <3>1, <4>6
    <3> QED BY <3>2, <3>3
  <2>8. Good(n)
    <3>1. n \in 1 .. n
      BY <1>3
    <3> HIDE DEF Good
    <3> QED BY <2>7, <3>1
  <2>9. g[n] \in Seq(S)
    BY <1>3
  <2> QED BY <2>6, <2>8, <2>9
<1> QED BY <1>2, <1>3

(* A range with more keys than a leaf holds is cut into Fanout parts, each *)
(* of at least one key and none of all keys.                               *)
LEMMA Cuts ==
  ASSUME NEW lo \in Nat, NEW hi \in Nat, hi - lo > LeafCap
  PROVE  /\ child_count_of(hi - lo) = Fanout
         /\ Cut(lo, hi, 0) = lo /\ Cut(lo, hi, Fanout) = hi
         /\ \A j \in 0 .. Fanout : Cut(lo, hi, j) \in Nat
         /\ \A j, k \in 0 .. Fanout : j < k => Cut(lo, hi, j) < Cut(lo, hi, k)
         /\ \A j \in 0 .. Fanout - 1 :
              /\ Cut(lo, hi, j + 1) = Cut(lo, hi, j) + (hi - lo) \div Fanout
                                      + (IF j < (hi - lo) % Fanout THEN 1 ELSE 0)
              /\ lo <= Cut(lo, hi, j) /\ Cut(lo, hi, j) < Cut(lo, hi, j + 1)
              /\ Cut(lo, hi, j + 1) <= hi
              /\ Cut(lo, hi, j + 1) - Cut(lo, hi, j) < hi - lo
<1> USE TreeAssumption
<1> DEFINE count == hi - lo
           d == count \div Fanout
           r == count % Fanout
           C(j) == lo + j * d + (IF j < r THEN j ELSE r)
<1>1. Fanout \in Nat /\ Fanout > 1 /\ count \in Nat /\ count >= Fanout
  OBVIOUS
<1>2. count = Fanout * d + r /\ r \in 0 .. Fanout - 1 /\ d \in Int
  <2>1. Fanout \in Nat \ {0} /\ count \in Int
    BY <1>1
  <2> HIDE DEF count
  <2> QED BY <2>1, Division
<1>3. \A j : Cut(lo, hi, j) = C(j)
  BY DEF Cut
<1>4. child_count_of(count) = Fanout
  BY <1>1 DEF child_count_of
<1> HIDE DEF d, r
<1>5. d >= 1
  <2>1. ASSUME d < 1 PROVE FALSE
    <3>1. Fanout * d + Fanout <= Fanout * 1
      BY <1>1, <1>2, <2>1, Multiples
    <3>2. Fanout * d \in Int
      BY <1>1, <1>2
    <3> QED BY <1>1, <1>2, <3>1, <3>2
  <2> QED BY <1>2, <2>1
<1>6. C(0) = lo
  BY <1>2
<1>7. C(Fanout) = hi
  <2>1. Fanout * d \in Int /\ ~(Fanout < r)
    BY <1>1, <1>2
  <2> QED BY <1>1, <1>2, <2>1
<1>8. ASSUME NEW j \in 0 .. Fanout PROVE C(j) \in Nat
  <2>1. j * d \in Nat
    BY <1>1, <1>2, <1>5
  <2> QED BY <1>1, <1>2, <2>1
<1>9. ASSUME NEW j \in 0 .. Fanout, NEW k \in 0 .. Fanout, j < k PROVE C(j) < C(k)
  <2>1. d * j + d <= d * k
    BY <1>2, <1>5, <1>9, Multiples
  <2>2. d * j = j * d /\ d * k = k * d /\ j * d \in Int /\ k * d \in Int
    BY <1>2
  <2>3. (IF j < r THEN j ELSE r) <= (IF k < r THEN k ELSE r)
    BY <1>2, <1>9
  <2> HIDE DEF count
  <2> QED BY <1>2, <1>5, <2>1, <2>2, <2>3
<1>10. ASSUME NEW j \in 0 .. Fanout - 1
       PROVE  /\ C(j + 1) = C(j) + d + (IF j < r THEN 1 ELSE 0)
              /\ lo <= C(j) /\ C(j) < C(j + 1) /\ C(j + 1) <= hi
              /\ C(j + 1) - C(j) < hi - lo
  <2>1. (j + 1) * d = j * d + d /\ j * d \in Int
    BY <1>2
  <2>2. C(j + 1) = C(j) + d + (IF j < r THEN 1 ELSE 0)
    <3> HIDE DEF count
    <3> QED BY <1>2, <2>1
  <2>3. /\ j \in 0 .. Fanout /\ j + 1 \in 0 .. Fanout /\ 0 \in 0 .. Fanout /\ Fanout \in 0 .. Fanout
        /\ 1 \in 0 .. Fanout
    BY <1>1
  <2> HIDE DEF C
  <2>4. /\ C(j) < C(j + 1) /\ C(j) \in Nat /\ C(j + 1) \in Nat
        /\ j # 0 => C(0) < C(j)
        /\ j + 1 # Fanout => C(j + 1) < C(Fanout)
    BY <1>1, <1>8, <1>9, <2>3
  <2>5. j # 0 \/ j + 1 # Fanout
    BY <1>1
  <2> QED BY <1>1, <1>6, <1>7, <2>2, <2>4, <2>5
<1> HIDE DEF C
<1>11. \A j \in 0 .. Fanout - 1 : j \in 0 .. Fanout /\ j + 1 \in 0 .. Fanout
  BY <1>1
<1> QED BY <1>1, <1>3, <1>4, <1>6, <1>7, <1>8, <1>9, <1>10, <1>11 DEF d, r

(* The parts are the ranges the children of a frame work on. *)
LEMMA PartIs ==
  ASSUME NEW f \in Frames, f.hi - f.lo > LeafCap, f.i < Fanout, f.cursor = Cut(f.lo, f.hi, f.i)
  PROVE  /\ ChildFrame(f) \in Frames
         /\ ChildFrame(f).path = Append(f.path, f.i)
         /\ ChildFrame(f).lo = Cut(f.lo, f.hi, f.i) /\ ChildFrame(f).hi = Cut(f.lo, f.hi, f.i + 1)
         /\ ChildFrame(f).i = 0 /\ ChildFrame(f).cursor = ChildFrame(f).lo
<1> USE TreeAssumption
<1>1. f.path \in Paths /\ f.lo \in Nat /\ f.hi \in Nat /\ f.i \in 0 .. Fanout - 1
  BY DEF Frames
<1>2. Part(f) = (f.hi - f.lo) \div Fanout + (IF f.i < (f.hi - f.lo) % Fanout THEN 1 ELSE 0)
  <2>1. child_count_of(f.hi - f.lo) = Fanout
    BY <1>1, Cuts
  <2> QED BY <2>1 DEF Part
<1>3. f.i \in 0 .. Fanout /\ f.i + 1 \in 0 .. Fanout
  BY <1>1
<1>4. /\ Cut(f.lo, f.hi, f.i) \in Nat /\ Cut(f.lo, f.hi, f.i + 1) \in Nat
      /\ Cut(f.lo, f.hi, f.i + 1) = Cut(f.lo, f.hi, f.i) + (f.hi - f.lo) \div Fanout
                                    + (IF f.i < (f.hi - f.lo) % Fanout THEN 1 ELSE 0)
  BY <1>1, <1>3, Cuts
<1>5. Append(f.path, f.i) \in Paths
  BY <1>1, PathStep
<1>6. f.cursor + Part(f) = Cut(f.lo, f.hi, f.i + 1)
  <2>1. (f.hi - f.lo) \div Fanout \in Int
    BY <1>1
  <2> QED BY <1>2, <1>4, <2>1
<1> QED BY <1>4, <1>5, <1>6 DEF ChildFrame, Frames

----------------------------------------------------------------------------
(* What destroy_btree_rec frees.                                           *)

(* A node's children, those it has, are nodes of shorter ranges. *)
Size(p, span) == IF p = Null THEN 0 ELSE span[p[2]].hi - span[p[2]].lo

LEMMA NodeChildren ==
  ASSUME NEW tree, NEW span \in Spans, TreeFits(tree, span), key_count \in Nat,
         NEW q \in Paths, Node(q) \in DOMAIN tree
  PROVE  /\ Size(Node(q), span) \in 1 .. key_count /\ Size(Node(q), span) = span[q].hi - span[q].lo
         /\ tree[Node(q)].leaf \in BOOLEAN
         /\ DOMAIN tree[Node(q)].children = 1 .. (IF tree[Node(q)].leaf THEN 0 ELSE Fanout)
         /\ \A j \in DOMAIN tree[Node(q)].children :
              /\ j - 1 \in Nat /\ Append(q, j - 1) \in Paths
              /\ tree[Node(q)].children[j] # Null =>
                   /\ tree[Node(q)].children[j] = Node(Append(q, j - 1))
                   /\ Node(Append(q, j - 1)) \in DOMAIN tree
                   /\ Size(Node(Append(q, j - 1)), span) < Size(Node(q), span)
<1> USE TreeAssumption
<1> DEFINE n == tree[Node(q)]
           lo == span[q].lo
           hi == span[q].hi
<1>1. lo \in Nat /\ hi \in Nat /\ lo < hi /\ hi <= key_count /\ NodeFits(tree, q, span)
  BY DEF TreeFits, NodeFits, Spans
<1>2. \A r : Node(r)[2] = r /\ Node(r) # Null
  BY NodeNames DEF Node
<1>3. Size(Node(q), span) = hi - lo
  BY <1>2 DEF Size
<1>4. CASE hi - lo <= LeafCap
  <2>1. n = LeafOn(lo, hi)
    BY <1>1, <1>4 DEF NodeFits
  <2>2. n.leaf = TRUE /\ n.children = <<>> /\ DOMAIN <<>> = 1 .. 0 /\ 1 .. 0 = {}
    BY <2>1 DEF LeafOn
  <2>3. DOMAIN n.children = {} /\ 1 .. (IF n.leaf THEN 0 ELSE Fanout) = {} /\ n.leaf \in BOOLEAN
    BY <2>2
  <2>4. hi - lo \in 1 .. key_count
    BY <1>1
  <2> HIDE DEF n, lo, hi
  <2> QED BY <1>3, <2>3, <2>4 DEF n, lo, hi
<1>5. CASE hi - lo > LeafCap
  <2>1. InnerOn(n, tree, q, span)
    BY <1>1, <1>5 DEF NodeFits
  <2>2. n.leaf = FALSE /\ n.children \in [1 .. Fanout -> {Null} \cup DOMAIN tree]
    BY <2>1 DEF InnerOn
  <2>3. ASSUME NEW j \in 1 .. Fanout PROVE j - 1 \in 0 .. Fanout - 1 /\ Append(q, j - 1) \in Paths
    <3>1. j - 1 \in Nat
      OBVIOUS
    <3> QED BY <3>1, PathStep
  <2>4. ASSUME NEW j \in 1 .. Fanout, n.children[j] # Null
        PROVE  /\ n.children[j] = Node(Append(q, j - 1))
               /\ Node(Append(q, j - 1)) \in DOMAIN tree
               /\ Size(Node(Append(q, j - 1)), span) < hi - lo
    <3>1. /\ n.children[j] = Node(Append(q, j - 1))
          /\ span[Append(q, j - 1)] = [lo |-> Cut(lo, hi, j - 1), hi |-> Cut(lo, hi, j)]
      BY <2>1, <2>4 DEF InnerOn
    <3>2. Size(Node(Append(q, j - 1)), span) = Cut(lo, hi, j) - Cut(lo, hi, j - 1)
      BY <1>2, <3>1 DEF Size
    <3>3. (j - 1) + 1 = j /\ j - 1 \in 0 .. Fanout - 1
      BY <2>3
    <3>4. Cut(lo, hi, (j - 1) + 1) - Cut(lo, hi, j - 1) < hi - lo
      BY <1>1, <1>5, <2>3, Cuts
    <3> QED BY <2>2, <2>4, <3>1, <3>2, <3>3, <3>4
  <2>5. \A j \in 1 .. Fanout : j - 1 \in Nat
    OBVIOUS
  <2> HIDE DEF n, lo, hi
  <2>6. DOMAIN n.children = 1 .. Fanout
    BY <2>2
  <2>7. hi - lo \in 1 .. key_count
    BY <1>1
  <2> QED BY <1>3, <2>2, <2>3, <2>4, <2>5, <2>6, <2>7 DEF n, lo, hi
<1>6. hi - lo <= LeafCap \/ hi - lo > LeafCap
  BY <1>1
<1> QED BY <1>4, <1>5, <1>6

(* Paths through the node of q. *)
Extends(r, q) == Len(q) <= Len(r) /\ \A k \in 1 .. Len(q) : r[k] = q[k]

LEMMA ExtendsStep ==
  ASSUME NEW q \in Paths, NEW r \in Paths, NEW j \in Nat, Extends(r, Append(q, j))
  PROVE  Extends(r, q) /\ Len(r) > Len(q) /\ r[Len(q) + 1] = j
<1>1. /\ Len(Append(q, j)) = Len(q) + 1 /\ Len(q) \in Nat /\ Len(r) \in Nat
      /\ \A m \in 1 .. Len(q) : Append(q, j)[m] = q[m]
      /\ Append(q, j)[Len(q) + 1] = j
  BY AppendProperties DEF Paths
<1> QED BY <1>1 DEF Extends

(* A sequence frees the tree below q: each node once, with all it points   *)
(* to, and but for q's own none that a node left over points to.           *)
Felled(s, tree, q) ==
  /\ Once(s, DOMAIN tree) /\ In(Node(q), s)
  /\ \A x : In(x, s) => \E r \in Paths : x = Node(r) /\ Extends(r, q)
  /\ \A r \in Paths : In(Node(r), s) =>
       \A j \in DOMAIN tree[Node(r)].children :
         tree[Node(r)].children[j] # Null => In(tree[Node(r)].children[j], s)
  /\ \A r \in Paths : Node(r) \in DOMAIN tree =>
       \A j \in DOMAIN tree[Node(r)].children :
         In(tree[Node(r)].children[j], s) /\ tree[Node(r)].children[j] # Node(q) => In(Node(r), s)

LEMMA InHere ==
  ASSUME NEW S, NEW s \in Seq(S), NEW x \in S
  PROVE  /\ \A y : In(y, s) => y \in S
         /\ <<x>> \in Seq(S) /\ Once(<<x>>, S) /\ (\A y : In(y, <<x>>) <=> y = x)
         /\ Once(<<>>, S) /\ (\A y : ~In(y, <<>>))
<1>1. Len(<<x>>) = 1 /\ <<x>>[1] = x /\ <<x>> \in Seq(S) /\ 1 .. 1 = {1}
  OBVIOUS
<1>2. <<>> \in Seq(S) /\ Len(<<>>) = 0 /\ 1 .. 0 = {}
  OBVIOUS
<1>3. \A k \in 1 .. Len(s) : s[k] \in S
  OBVIOUS
<1> QED BY <1>1, <1>2, <1>3 DEF Once, In

LEMMA FellStep ==
  ASSUME NEW tree, NEW span \in Spans, TreeFits(tree, span), key_count \in Nat,
         NEW q \in Paths, Node(q) \in DOMAIN tree,
         NEW m \in Nat, \A j \in 1 .. m : j \in DOMAIN tree[Node(q)].children,
         \A j \in DOMAIN tree[Node(q)].children : j > m => tree[Node(q)].children[j] = Null,
         NEW ord \in [1 .. m -> Seq(DOMAIN tree)],
         \A j \in 1 .. m : IF tree[Node(q)].children[j] = Null THEN ord[j] = <<>>
                           ELSE Felled(ord[j], tree, Append(q, j - 1))
  PROVE  Felled(FlattenSeq(ord) \o <<Node(q)>>, tree, q)
<1> DEFINE D == DOMAIN tree
           ch == tree[Node(q)].children
           t == FlattenSeq(ord)
           s == t \o <<Node(q)>>
<1>1. \A j \in DOMAIN ch :
        /\ j - 1 \in Nat /\ Append(q, j - 1) \in Paths
        /\ ch[j] # Null => ch[j] = Node(Append(q, j - 1))
  BY NodeChildren
<1>1a. DOMAIN ch \subseteq Nat
  <2>1. DOMAIN ch = 1 .. (IF tree[Node(q)].leaf THEN 0 ELSE Fanout)
    BY NodeChildren
  <2> QED BY <2>1, TreeAssumption
<1>2. ASSUME NEW j \in 1 .. m
      PROVE  Once(ord[j], D) /\ \A x : In(x, ord[j]) =>
               /\ ch[j] # Null /\ Felled(ord[j], tree, Append(q, j - 1))
               /\ \E r \in Paths : x = Node(r) /\ Extends(r, q) /\ Len(r) > Len(q) /\ r[Len(q) + 1] = j - 1
  <2>1. j \in DOMAIN ch
    OBVIOUS
  <2>2. CASE ch[j] = Null
    <3>1. ord[j] = <<>> /\ <<>> \in Seq(D) /\ Node(q) \in D
      BY <2>2
    <3> HIDE DEF D
    <3>2. Once(<<>>, D) /\ \A x : ~In(x, <<>>)
      BY <3>1, InHere
    <3> QED BY <3>1, <3>2
  <2>3. CASE ch[j] # Null
    <3>1. Felled(ord[j], tree, Append(q, j - 1)) /\ Append(q, j - 1) \in Paths /\ j - 1 \in Nat
      BY <1>1, <2>1, <2>3
    <3>2. Once(ord[j], D)
      BY <3>1 DEF Felled
    <3>3. ASSUME NEW x, In(x, ord[j])
          PROVE  \E r \in Paths :
                   x = Node(r) /\ Extends(r, q) /\ Len(r) > Len(q) /\ r[Len(q) + 1] = j - 1
      <4>1. PICK r \in Paths : x = Node(r) /\ Extends(r, Append(q, j - 1))
        BY <3>1, <3>3 DEF Felled
      <4>2. Extends(r, q) /\ Len(r) > Len(q) /\ r[Len(q) + 1] = j - 1
        BY <3>1, <4>1, ExtendsStep
      <4> QED BY <4>1, <4>2
    <3> QED BY <2>3, <3>1, <3>2, <3>3
  <2> QED BY <2>2, <2>3
<1>3. ASSUME NEW x, NEW j \in 1 .. m, NEW k \in 1 .. m, In(x, ord[j]), In(x, ord[k]) PROVE j = k
  <2>1. PICK r \in Paths : x = Node(r) /\ r[Len(q) + 1] = j - 1
    BY <1>2, <1>3
  <2>2. PICK u \in Paths : x = Node(u) /\ u[Len(q) + 1] = k - 1
    BY <1>2, <1>3
  <2>3. r = u
    BY <2>1, <2>2, NodeNames
  <2> QED BY <2>1, <2>2, <2>3
<1>4. t \in Seq(D) /\ Once(t, D) /\ \A x : In(x, t) <=> \E j \in 1 .. m : In(x, ord[j])
  <2>1. /\ t \in Seq(D) /\ \A x : In(x, t) <=> \E j \in 1 .. m : In(x, ord[j])
        /\ /\ \A j \in 1 .. m : Once(ord[j], D)
           /\ \A x : \A j, k \in 1 .. m : In(x, ord[j]) /\ In(x, ord[k]) => j = k
           => Once(t, D)
    <3>1. ord \in [1 .. m -> Seq(D)]
      OBVIOUS
    <3> HIDE DEF D
    <3> QED BY <3>1, FlattenIs
  <2> QED BY <1>2, <1>3, <2>1
<1>5. <<Node(q)>> \in Seq(D) /\ Once(<<Node(q)>>, D) /\ \A x : In(x, <<Node(q)>>) <=> x = Node(q)
  BY InHere, <1>4
<1>6. \A x : ~(In(x, t) /\ In(x, <<Node(q)>>))
  <2>1. ASSUME NEW x, In(x, t), x = Node(q) PROVE FALSE
    <3>1. PICK j \in 1 .. m : In(x, ord[j])
      BY <1>4, <2>1
    <3>2. PICK r \in Paths : x = Node(r) /\ Len(r) > Len(q)
      BY <1>2, <3>1
    <3>3. Node(r) = Node(q) /\ Len(q) \in Nat
      BY <2>1, <3>2 DEF Paths
    <3>4. r = q
      BY <3>3, NodeNames
    <3> QED BY <3>2, <3>3, <3>4
  <2> QED BY <1>5, <2>1
<1> HIDE DEF t
<1>7. s \in Seq(D) /\ Once(s, D) /\ \A x : In(x, s) <=> In(x, t) \/ x = Node(q)
  BY <1>4, <1>5, <1>6, Joined
<1> HIDE DEF s
<1>8. \A x : In(x, s) <=> x = Node(q) \/ \E j \in 1 .. m : In(x, ord[j])
  BY <1>4, <1>7
<1>9. ASSUME NEW x, In(x, s) PROVE \E r \in Paths : x = Node(r) /\ Extends(r, q)
  <2>1. Extends(q, q)
    BY DEF Extends, Paths
  <2> QED BY <1>2, <1>8, <1>9, <2>1
<1>10. ASSUME NEW r \in Paths, In(Node(r), s), NEW j \in DOMAIN tree[Node(r)].children,
              tree[Node(r)].children[j] # Null
       PROVE  In(tree[Node(r)].children[j], s)
  <2>1. CASE r = q
    <3>1. j \in 1 .. m /\ ch[j] = Node(Append(q, j - 1)) /\ Append(q, j - 1) \in Paths
      <4>1. j \in DOMAIN ch /\ j - 1 \in Nat /\ j \in Nat
        BY <1>1, <1>1a, <1>10, <2>1
      <4>2. ~(j > m)
        BY <1>10, <2>1, <4>1
      <4> QED BY <1>1, <1>10, <2>1, <4>1, <4>2
    <3>2. Felled(ord[j], tree, Append(q, j - 1))
      BY <1>10, <2>1, <3>1
    <3>3. In(ch[j], ord[j])
      BY <3>1, <3>2 DEF Felled
    <3> QED BY <1>8, <2>1, <3>1, <3>3
  <2>2. CASE r # q
    <3>1. Node(r) # Node(q)
      BY <2>2, NodeNames
    <3>2. PICK k \in 1 .. m : In(Node(r), ord[k])
      BY <1>8, <1>10, <3>1
    <3>3. Felled(ord[k], tree, Append(q, k - 1))
      BY <1>2, <3>2
    <3>4. In(tree[Node(r)].children[j], ord[k])
      BY <1>10, <3>2, <3>3 DEF Felled
    <3> QED BY <1>8, <3>4
  <2> QED BY <2>1, <2>2
<1>11. ASSUME NEW r \in Paths, Node(r) \in DOMAIN tree, NEW j \in DOMAIN tree[Node(r)].children,
              In(tree[Node(r)].children[j], s), tree[Node(r)].children[j] # Node(q)
       PROVE  In(Node(r), s)
  <2> DEFINE c == tree[Node(r)].children[j]
  <2>1. PICK k \in 1 .. m : In(c, ord[k])
    BY <1>8, <1>11
  <2>2. Felled(ord[k], tree, Append(q, k - 1)) /\ k - 1 \in Nat
    BY <1>1, <1>2, <2>1
  <2>3. CASE c = Node(Append(q, k - 1))
    <3>1. c # Null
      BY <2>3, NodeNames
    <3>2. c = Node(Append(r, j - 1)) /\ j - 1 \in Nat
      BY <1>11, <3>1, NodeChildren
    <3>3. Append(r, j - 1) = Append(q, k - 1)
      BY <2>3, <3>2, NodeNames
    <3>4. r = q
      <4>1. q \in Paths /\ r \in Paths /\ j - 1 \in Nat /\ k - 1 \in Nat
        BY <2>2, <3>2
      <4>2. \A a, b \in Nat : Append(r, a) = Append(q, b) => r = q
        BY <4>1, PathStep
      <4> QED BY <3>3, <4>1, <4>2
    <3> QED BY <1>8, <3>4
  <2>4. CASE c # Node(Append(q, k - 1))
    <3>1. In(Node(r), ord[k])
      BY <1>11, <2>1, <2>2, <2>4 DEF Felled
    <3> QED BY <1>8, <3>1
  <2> QED BY <2>3, <2>4
<1>12. In(Node(q), s)
  BY <1>8
<1>13. Felled(s, tree, q)
  BY <1>7, <1>9, <1>10, <1>11, <1>12 DEF Felled
<1> QED BY <1>13 DEF s, t

(* One unfolding of destroy_btree_rec, and what it says of a node whose    *)
(* children, m of them, g has sequences for.                               *)
Unfold(tree, g, p) ==
  IF p = Null THEN <<>>
  ELSE FlattenSeq([j \in DOMAIN tree[p].children |-> g[tree[p].children[j]]]) \o <<p>>

LEMMA ChildMap ==
  ASSUME NEW tree, NEW span \in Spans, TreeFits(tree, span), key_count \in Nat,
         NEW q \in Paths, Node(q) \in DOMAIN tree
  PROVE  \E m \in Nat :
           /\ DOMAIN tree[Node(q)].children = 1 .. m
           /\ \A j \in 1 .. m :
                /\ tree[Node(q)].children[j] \in DOMAIN tree \cup {Null}
                /\ Size(tree[Node(q)].children[j], span) < Size(Node(q), span)
<1> DEFINE ch == tree[Node(q)].children
           m == IF tree[Node(q)].leaf THEN 0 ELSE Fanout
<1>1. m \in Nat
  BY TreeAssumption
<1>2. DOMAIN ch = 1 .. m /\ Size(Node(q), span) \in 1 .. key_count
  BY NodeChildren
<1>3. ASSUME NEW j \in DOMAIN ch
      PROVE  ch[j] \in DOMAIN tree \cup {Null} /\ Size(ch[j], span) < Size(Node(q), span)
  <2>1. CASE ch[j] = Null
    <3>1. Size(ch[j], span) = 0
      BY <2>1 DEF Size
    <3> QED BY <1>2, <2>1, <3>1
  <2>2. CASE ch[j] # Null
    BY <2>2, NodeChildren
  <2> QED BY <2>1, <2>2
<1> HIDE DEF m, ch
<1>4. DOMAIN ch = 1 .. m /\ \A j \in 1 .. m : ch[j] \in DOMAIN tree \cup {Null} /\ Size(ch[j], span) < Size(Node(q), span)
  BY <1>2, <1>3
<1> QED BY <1>1, <1>4 DEF ch

(* destroy_btree_rec is a function: it can be built up by size. *)
LEMMA OrderExists ==
  ASSUME NEW tree, NEW span \in Spans, TreeFits(tree, span), key_count \in Nat
  PROVE  \E g \in [DOMAIN tree \cup {Null} -> Seq(DOMAIN tree)] :
           g = [p \in DOMAIN tree \cup {Null} |-> Unfold(tree, g, p)]
<1> DEFINE D == DOMAIN tree
           P == D \cup {Null}
           Up(d, g) == \A p \in P : Size(p, span) <= d => g[p] = Unfold(tree, g, p)
           T == {d \in Nat : ~\E g \in [P -> Seq(D)] : Up(d, g)}
<1>1. ASSUME NEW p \in D PROVE \E q \in Paths : p = Node(q)
  BY DEF TreeFits
<1>2. ASSUME NEW p \in D PROVE Size(p, span) \in 1 .. key_count /\ p # Null
  <2>1. PICK q \in Paths : p = Node(q)
    BY <1>1
  <2> QED BY <2>1, NodeChildren, NodeNames
<1>3. Size(Null, span) = 0
  BY DEF Size
<1>4. ASSUME NEW g \in [P -> Seq(D)], NEW p \in P PROVE Unfold(tree, g, p) \in Seq(D)
  <2>1. CASE p = Null
    BY <2>1 DEF Unfold
  <2>2. CASE p # Null
    <3>1. PICK q \in Paths : p = Node(q)
      BY <1>1, <2>2
    <3>2. p \in D
      BY <2>2
    <3>3. PICK m \in Nat : DOMAIN tree[p].children = 1 .. m /\ \A j \in 1 .. m : tree[p].children[j] \in P
      BY <3>1, <3>2, ChildMap
    <3> DEFINE F == [j \in DOMAIN tree[p].children |-> g[tree[p].children[j]]]
    <3>4. F \in [1 .. m -> Seq(D)]
      BY <3>3
    <3>5. <<p>> \in Seq(D)
      BY <3>2
    <3> HIDE DEF F, D
    <3>6. FlattenSeq(F) \in Seq(D)
      BY <3>3, <3>4, FlattenIs
    <3>7. Unfold(tree, g, p) = FlattenSeq(F) \o <<p>>
      BY <2>2 DEF Unfold, F
    <3> QED BY <3>5, <3>6, <3>7, ConcatProperties
  <2> QED BY <2>1, <2>2
<1>5. ASSUME NEW g, NEW h, NEW p \in P,
             \A c \in P : Size(c, span) < Size(p, span) => g[c] = h[c]
      PROVE  Unfold(tree, g, p) = Unfold(tree, h, p)
  <2>1. CASE p = Null
    BY <2>1 DEF Unfold
  <2>2. CASE p # Null
    <3>1. PICK q \in Paths : p = Node(q)
      BY <1>1, <2>2
    <3>2. PICK m \in Nat :
            /\ DOMAIN tree[p].children = 1 .. m
            /\ \A j \in 1 .. m : /\ tree[p].children[j] \in P
                                 /\ Size(tree[p].children[j], span) < Size(p, span)
      BY <2>2, <3>1, ChildMap
    <3>3. [j \in DOMAIN tree[p].children |-> g[tree[p].children[j]]]
            = [j \in DOMAIN tree[p].children |-> h[tree[p].children[j]]]
      BY <1>5, <3>2
    <3> QED BY <2>2, <3>3 DEF Unfold
  <2> QED BY <2>1, <2>2
<1> HIDE DEF D
<1>6. ASSUME T # {} PROVE FALSE
  <2>1. PICK d \in T : \A y \in T : d <= y
    <3>1. T \in SUBSET Nat
      OBVIOUS
    <3> HIDE DEF T
    <3> QED BY <1>6, <3>1, LeastNumber
  <2>2. d \in Nat
    OBVIOUS
  <2>3. ASSUME NEW g \in [P -> Seq(D)], \A p \in P : Size(p, span) < d => g[p] = Unfold(tree, g, p)
        PROVE  FALSE
    <3> DEFINE h == [p \in P |-> IF Size(p, span) <= d THEN Unfold(tree, g, p) ELSE <<>>]
    <3>1. <<>> \in Seq(D)
      OBVIOUS
    <3>2. h \in [P -> Seq(D)]
      BY <1>4, <3>1
    <3>3. ASSUME NEW p \in P, Size(p, span) <= d PROVE h[p] = Unfold(tree, h, p)
      <4>1. \A c \in P : Size(c, span) \in Nat
        BY <1>2, <1>3
      <4>2. ASSUME NEW c \in P, Size(c, span) < Size(p, span) PROVE g[c] = h[c]
        <5>1. Size(c, span) < d /\ Size(c, span) <= d
          BY <2>2, <3>3, <4>1, <4>2
        <5> QED BY <2>3, <5>1
      <4>3. Unfold(tree, g, p) = Unfold(tree, h, p)
        <5> HIDE DEF h, P
        <5> QED BY <1>5, <4>2
      <4> QED BY <3>3, <4>3
    <3> HIDE DEF h
    <3>4. d \notin T
      BY <2>2, <3>2, <3>3
    <3> QED BY <3>4
  <2>4. CASE d = 0
    <3>1. [p \in P |-> <<>>] \in [P -> Seq(D)]
      OBVIOUS
    <3>2. \A p \in P : ~(Size(p, span) < 0)
      BY <1>2, <1>3
    <3> HIDE DEF T
    <3> QED BY <2>3, <2>4, <3>1, <3>2
  <2>5. CASE d # 0
    <3>1. d - 1 \in Nat /\ d - 1 \notin T
      <4> HIDE DEF T
      <4> QED BY <2>1, <2>2, <2>5
    <3>2. PICK g \in [P -> Seq(D)] : Up(d - 1, g)
      BY <3>1
    <3>3. \A p \in P : Size(p, span) \in Nat
      BY <1>2, <1>3
    <3>4. \A p \in P : Size(p, span) < d => Size(p, span) <= d - 1
      BY <2>2, <3>3
    <3> HIDE DEF T
    <3> QED BY <2>3, <3>2, <3>4
  <2> QED BY <2>4, <2>5
<1>7. PICK g \in [P -> Seq(D)] : Up(key_count, g)
  BY <1>6
<1>8. \A p \in P : Size(p, span) <= key_count
  BY <1>2, <1>3
<1>9. g = [p \in P |-> Unfold(tree, g, p)]
  BY <1>7, <1>8
<1> QED BY <1>9 DEF D

(* Whatever is built, it frees the trees below the nodes. *)
LEMMA OrderFells ==
  ASSUME NEW tree, NEW span \in Spans, TreeFits(tree, span), key_count \in Nat,
         NEW g, g = [p \in DOMAIN tree \cup {Null} |-> Unfold(tree, g, p)],
         NEW q \in Paths, Node(q) \in DOMAIN tree
  PROVE  Felled(g[Node(q)], tree, q)
<1> DEFINE D == DOMAIN tree
           Bad == {r \in Paths : Node(r) \in D /\ ~Felled(g[Node(r)], tree, r)}
           T == {Size(Node(r), span) : r \in Bad}
<1>1. \A r \in Paths : Node(r) \in D => Size(Node(r), span) \in Nat
  BY NodeChildren
<1>2. ASSUME T # {} PROVE FALSE
  <2>1. PICK d \in T : \A y \in T : d <= y
    <3>1. T \in SUBSET Nat
      BY <1>1
    <3> HIDE DEF T
    <3> QED BY <1>2, <3>1, LeastNumber
  <2>2. PICK r \in Paths : Node(r) \in D /\ ~Felled(g[Node(r)], tree, r) /\ d = Size(Node(r), span)
    OBVIOUS
  <2> DEFINE ch == tree[Node(r)].children
  <2>3. PICK m \in Nat :
          /\ DOMAIN ch = 1 .. m
          /\ \A j \in 1 .. m : ch[j] \in D \cup {Null} /\ Size(ch[j], span) < Size(Node(r), span)
    BY <2>2, ChildMap
  <2> DEFINE ord == [j \in 1 .. m |-> g[ch[j]]]
  <2>4. ASSUME NEW j \in 1 .. m
        PROVE  IF ch[j] = Null THEN ord[j] = <<>> ELSE Felled(ord[j], tree, Append(r, j - 1))
    <3>1. CASE ch[j] = Null
      <4>1. g[Null] = <<>>
        BY DEF Unfold
      <4> QED BY <3>1, <4>1
    <3>2. CASE ch[j] # Null
      <4>1. /\ Append(r, j - 1) \in Paths /\ ch[j] = Node(Append(r, j - 1))
            /\ Node(Append(r, j - 1)) \in D
            /\ Size(Node(Append(r, j - 1)), span) < Size(Node(r), span)
        BY <2>2, <2>3, <3>2, NodeChildren
      <4>2. Size(Node(Append(r, j - 1)), span) \in Nat /\ d \in Nat
        BY <1>1, <2>2, <4>1
      <4>3. Append(r, j - 1) \notin Bad
        <5>1. Size(Node(Append(r, j - 1)), span) \notin T
          <6> HIDE DEF T
          <6> QED BY <2>1, <2>2, <4>1, <4>2
        <5> QED BY <5>1
      <4> QED BY <3>2, <4>1, <4>3
    <3> QED BY <3>1, <3>2
  <2>5. ord \in [1 .. m -> Seq(D)]
    <3>1. ASSUME NEW j \in 1 .. m PROVE ord[j] \in Seq(D)
      <4>1. CASE ch[j] = Null
        <5>1. <<>> \in Seq(D)
          OBVIOUS
        <5> HIDE DEF ord, ch, D
        <5> QED BY <2>4, <4>1, <5>1
      <4>2. CASE ch[j] # Null
        <5>1. Felled(ord[j], tree, Append(r, j - 1))
          BY <2>4, <4>2
        <5> QED BY <5>1 DEF Felled, Once
      <4> QED BY <4>1, <4>2
    <3> QED BY <3>1
  <2>6. Felled(FlattenSeq(ord) \o <<Node(r)>>, tree, r)
    <3>1. \A j \in 1 .. m : j \in DOMAIN ch
      BY <2>3
    <3>2. \A j \in DOMAIN ch : ~(j > m)
      BY <2>3
    <3> HIDE DEF ord
    <3> QED BY <2>2, <2>4, <2>5, <3>1, <3>2, FellStep
  <2>7. g[Node(r)] = FlattenSeq(ord) \o <<Node(r)>>
    <3>1. g[Node(r)] = Unfold(tree, g, Node(r)) /\ Node(r) # Null
      BY <2>2, NodeNames
    <3>2. [j \in DOMAIN ch |-> g[ch[j]]] = ord
      BY <2>3
    <3> QED BY <3>1, <3>2 DEF Unfold
  <2> QED BY <2>2, <2>6, <2>7
<1>3. q \notin Bad
  BY <1>2
<1> QED BY <1>3

LEMMA Destroys ==
  ASSUME NEW span \in Spans, TreeFits(btree.node, span), key_count \in Nat
  PROVE  /\ destroy_btree_rec(Null) = <<>>
         /\ \A q \in Paths : Node(q) \in DOMAIN btree.node =>
              Felled(destroy_btree_rec(Node(q)), btree.node, q)
<1> DEFINE tree == btree.node
           Step(g) == [p \in DOMAIN tree \cup {Null} |-> Unfold(tree, g, p)]
           order == CHOOSE g : g = Step(g)
<1>1. order = Step(order)
  <2>1. \E g : g = Step(g)
    BY OrderExists
  <2> QED BY <2>1
<1>2. \A p : destroy_btree_rec(p) = order[p]
  BY DEF destroy_btree_rec, Unfold
<1> HIDE DEF order
<1>3. order[Null] = <<>>
  <2>1. Step(order)[Null] = <<>>
    BY DEF Unfold
  <2> QED BY <1>1, <2>1
<1>4. \A q \in Paths : Node(q) \in DOMAIN tree => Felled(order[Node(q)], tree, q)
  BY <1>1, OrderFells
<1> QED BY <1>2, <1>3, <1>4

----------------------------------------------------------------------------
(* One step of the recursion.                                              *)

(* What a frame in its loop knows of its node and of its next child. *)
LEMMA OpenFrame ==
  ASSUME NEW tree, NEW span \in Spans, TreeFits(tree, span), key_count \in Nat,
         NEW f \in Frames, Open(f, tree, span)
  PROVE  /\ f.path \in Paths /\ f.lo \in Nat /\ f.hi \in Nat /\ f.i \in 0 .. Fanout - 1
         /\ f.lo < f.hi /\ f.hi <= key_count /\ f.hi - f.lo > LeafCap
         /\ InnerOn(tree[Node(f.path)], tree, f.path, span)
         /\ ChildFrame(f) \in Frames
         /\ ChildFrame(f).path = Append(f.path, f.i)
         /\ ChildFrame(f).lo = Cut(f.lo, f.hi, f.i) /\ ChildFrame(f).hi = Cut(f.lo, f.hi, f.i + 1)
         /\ ChildFrame(f).i = 0 /\ ChildFrame(f).cursor = ChildFrame(f).lo
         /\ ChildFrame(f).lo < ChildFrame(f).hi /\ ChildFrame(f).hi <= key_count
<1> USE TreeAssumption
<1>1. f.path \in Paths /\ f.lo \in Nat /\ f.hi \in Nat /\ f.i \in 0 .. Fanout - 1
  BY DEF Frames, Open
<1>2. NodeFits(tree, f.path, span) /\ span[f.path].lo = f.lo /\ span[f.path].hi = f.hi
  BY <1>1 DEF TreeFits, Open
<1>3. f.hi - f.lo > LeafCap /\ InnerOn(tree[Node(f.path)], tree, f.path, span)
  <2>1. tree[Node(f.path)] # LeafOn(f.lo, f.hi)
    BY DEF Open, LeafOn
  <2> QED BY <1>2, <2>1 DEF NodeFits
<1>4. f.lo < f.hi /\ f.hi <= key_count
  BY <1>2 DEF NodeFits
<1>5. f.i < Fanout /\ f.cursor = Cut(f.lo, f.hi, f.i)
  BY DEF Open
<1>6. /\ ChildFrame(f) \in Frames
      /\ ChildFrame(f).path = Append(f.path, f.i)
      /\ ChildFrame(f).lo = Cut(f.lo, f.hi, f.i) /\ ChildFrame(f).hi = Cut(f.lo, f.hi, f.i + 1)
      /\ ChildFrame(f).i = 0 /\ ChildFrame(f).cursor = ChildFrame(f).lo
  BY <1>3, <1>5, PartIs
<1>7. Cut(f.lo, f.hi, f.i) < Cut(f.lo, f.hi, f.i + 1) /\ Cut(f.lo, f.hi, f.i + 1) <= f.hi
      /\ Cut(f.lo, f.hi, f.i + 1) \in Nat
  <2>1. f.i + 1 \in 0 .. Fanout
    BY <1>1
  <2> QED BY <1>1, <1>3, <2>1, Cuts
<1>8. Cut(f.lo, f.hi, f.i + 1) <= key_count
  BY <1>1, <1>4, <1>7
<1> QED BY <1>1, <1>3, <1>4, <1>6, <1>7, <1>8

(* The range of a path whose node is not there yet may still be set. *)
LEMMA SpanSet ==
  ASSUME NEW tree, NEW span \in Spans, TreeFits(tree, span),
         NEW p \in Paths, Node(p) \notin DOMAIN tree,
         NEW new \in Spans, \A q \in Paths : q # p => new[q] = span[q]
  PROVE  TreeFits(tree, new)
<1>2. ASSUME NEW q \in Paths, Node(q) \in DOMAIN tree PROVE NodeFits(tree, q, new)
  <2>1. NodeFits(tree, q, span) /\ q # p /\ new[q] = span[q]
    BY <1>2 DEF TreeFits
  <2>2. ASSUME InnerOn(tree[Node(q)], tree, q, span) PROVE InnerOn(tree[Node(q)], tree, q, new)
    <3>1. ASSUME NEW j \in 1 .. Fanout, tree[Node(q)].children[j] # Null,
                 tree[Node(q)].children[j] = Node(Append(q, j - 1))
          PROVE  new[Append(q, j - 1)] = span[Append(q, j - 1)]
      <4>1. tree[Node(q)].children[j] \in DOMAIN tree
        BY <2>2, <3>1 DEF InnerOn
      <4>2. Append(q, j - 1) # p
        BY <3>1, <4>1
      <4>3. Append(q, j - 1) \in Paths
        <5>1. j - 1 \in Nat
          OBVIOUS
        <5> QED BY <5>1, PathStep
      <4> QED BY <4>2, <4>3
    <3> QED BY <2>1, <2>2, <3>1 DEF InnerOn
  <2> QED BY <2>1, <2>2 DEF NodeFits
<1> QED BY <1>2 DEF TreeFits

(* A node that is new or changed fits when it does itself. *)
LEMMA NodeSet ==
  ASSUME NEW tree, NEW span \in Spans, TreeFits(tree, span),
         NEW p \in Paths, NEW new, DOMAIN new = DOMAIN tree \cup {Node(p)},
         \A x \in DOMAIN tree : x # Node(p) => new[x] = tree[x], NodeFits(new, p, span)
  PROVE  TreeFits(new, span)
<1>1. ASSUME NEW q \in Paths, Node(q) \in DOMAIN new PROVE NodeFits(new, q, span)
  <2>1. CASE q = p
    BY <2>1
  <2>2. CASE q # p
    <3>1. Node(q) \in DOMAIN tree /\ new[Node(q)] = tree[Node(q)]
      BY <1>1, <2>2, NodeNames
    <3>2. NodeFits(tree, q, span)
      BY <3>1 DEF TreeFits
    <3>3. ASSUME InnerOn(tree[Node(q)], tree, q, span) PROVE InnerOn(new[Node(q)], new, q, span)
      <4>1. tree[Node(q)] \in [leaf : {FALSE}, start : {0}, count : {0},
                               keys : [1 .. Fanout - 1 -> Int],
                               children : [1 .. Fanout -> {Null} \cup DOMAIN new]]
        BY <3>3 DEF InnerOn
      <4> QED BY <3>1, <3>3, <4>1 DEF InnerOn
    <3> QED BY <3>1, <3>2, <3>3 DEF NodeFits
  <2> QED BY <2>1, <2>2
<1> QED BY <1>1 DEF TreeFits

(* Frames popped or pushed. *)
LEMMA ChainPop ==
  ASSUME NEW st \in Seq(Frames), st # <<>>, Chain(st)
  PROVE  /\ Len(st) \in Nat \ {0} /\ Head(st) = st[1] /\ st[1] \in Frames
         /\ Tail(st) \in Seq(Frames) /\ Len(Tail(st)) = Len(st) - 1
         /\ \A k \in 1 .. Len(st) - 1 : Tail(st)[k] = st[k + 1]
         /\ Chain(Tail(st))
<1> DEFINE t == Tail(st)
           L == Len(st)
<1>1. /\ L \in Nat \ {0} /\ Head(st) = st[1] /\ st[1] \in Frames
      /\ t \in Seq(Frames) /\ Len(t) = L - 1
      /\ \A k \in 1 .. L - 1 : t[k] = st[k + 1]
  <2>1. st[1] \in Frames
    <3>1. 1 \in 1 .. Len(st)
      BY EmptySeq
    <3> QED BY <3>1
  <2> QED BY <2>1, PushPop
<1> HIDE DEF t
<1>2. ASSUME NEW k \in 1 .. Len(t)
      PROVE  /\ Len(t[k].path) = Len(t) - k
             /\ k = Len(t) => t[k].path = <<>> /\ t[k].lo = 0 /\ t[k].hi = key_count
             /\ k < Len(t) => CalledBy(t[k + 1], t[k])
  <2>1. k + 1 \in 1 .. L /\ t[k] = st[k + 1] /\ L - (k + 1) = (L - 1) - k
    BY <1>1
  <2>2. k < Len(t) => t[k + 1] = st[k + 1 + 1] /\ k + 1 < L
    <3>1. k < Len(t) => k + 1 \in 1 .. L - 1
      BY <1>1
    <3> QED BY <1>1, <3>1
  <2>3. k = Len(t) => k + 1 = L
    BY <1>1
  <2>4. /\ Len(st[k + 1].path) = L - (k + 1)
        /\ k + 1 = L => st[k + 1].path = <<>> /\ st[k + 1].lo = 0 /\ st[k + 1].hi = key_count
        /\ k + 1 < L => CalledBy(st[k + 1 + 1], st[k + 1])
    BY <2>1 DEF Chain
  <2> QED BY <1>1, <2>1, <2>2, <2>3, <2>4
<1>3. Chain(t)
  BY <1>2 DEF Chain
<1> QED BY <1>1, <1>3 DEF t

LEMMA ChainPush ==
  ASSUME NEW st \in Seq(Frames), st # <<>>, Chain(st), NEW c \in Frames, CalledBy(st[1], c),
         c.path = Append(st[1].path, st[1].i)
  PROVE  /\ <<c>> \o st \in Seq(Frames) /\ Len(<<c>> \o st) = Len(st) + 1 /\ Len(st) \in Nat \ {0}
         /\ (<<c>> \o st)[1] = c /\ <<c>> \o st # <<>>
         /\ \A k \in 1 .. Len(st) : (<<c>> \o st)[k + 1] = st[k]
         /\ Chain(<<c>> \o st)
<1> DEFINE t == <<c>> \o st
           L == Len(st)
<1>1. /\ t \in Seq(Frames) /\ Len(t) = L + 1 /\ t[1] = c /\ L \in Nat \ {0}
      /\ \A k \in 1 .. L : t[k + 1] = st[k]
  BY PushPop
<1> HIDE DEF t
<1>2. ASSUME NEW k \in 1 .. Len(t)
      PROVE  /\ Len(t[k].path) = Len(t) - k
             /\ k = Len(t) => t[k].path = <<>> /\ t[k].lo = 0 /\ t[k].hi = key_count
             /\ k < Len(t) => CalledBy(t[k + 1], t[k])
  <2>1. CASE k = 1
    <3>1. 1 \in 1 .. L /\ t[2] = st[1] /\ Len(t) - 1 = L /\ 1 # Len(t)
      <4>1. 1 \in 1 .. L /\ 1 + 1 = 2
        BY <1>1
      <4> QED BY <1>1, <4>1
    <3>2. Len(st[1].path) = L - 1
      BY <3>1 DEF Chain
    <3>3. Len(c.path) = L
      <4>1. st[1].path \in Paths /\ st[1].i \in Nat
        <5>1. st[1] \in Frames
          BY <3>1
        <5> QED BY <5>1 DEF Frames
      <4>2. Len(Append(st[1].path, st[1].i)) = Len(st[1].path) + 1
        BY <4>1, PathStep
      <4> QED BY <1>1, <3>2, <4>2
    <3> QED BY <1>1, <2>1, <3>1, <3>3
  <2>2. CASE k # 1
    <3> DEFINE m == k - 1
    <3>1. m \in 1 .. L /\ k = m + 1 /\ t[k] = st[m] /\ Len(t) - k = L - m
      <4>1. m \in 1 .. L /\ k = m + 1
        BY <1>1, <2>2
      <4> HIDE DEF m
      <4> QED BY <1>1, <4>1
    <3>2. k < Len(t) => m < L /\ t[k + 1] = st[m + 1]
      <4>1. k < Len(t) => m < L /\ m + 1 \in 1 .. L /\ k + 1 = (m + 1) + 1
        BY <1>1, <2>2
      <4> HIDE DEF m
      <4> QED BY <1>1, <4>1
    <3>3. k = Len(t) => m = L
      BY <1>1
    <3> HIDE DEF m
    <3>4. /\ Len(st[m].path) = L - m
          /\ m = L => st[m].path = <<>> /\ st[m].lo = 0 /\ st[m].hi = key_count
          /\ m < L => CalledBy(st[m + 1], st[m])
      BY <3>1 DEF Chain
    <3> QED BY <3>1, <3>2, <3>3, <3>4
  <2> QED BY <2>1, <2>2
<1>3. Chain(t)
  BY <1>2 DEF Chain
<1>4. t # <<>>
  <2>1. Len(<<>>) = 0
    OBVIOUS
  <2> QED BY <1>1, <2>1
<1> QED BY <1>1, <1>3, <1>4 DEF t

(* A node no loop has come to is not there. *)
LEMMA NotYet ==
  ASSUME NEW tree, NEW st, NEW r, NEW span, NEW m \in Nat, Building(tree, st, r, span, m),
         NEW p \in Paths, NEW a \in Nat, r # Node(Append(p, a)),
         \A k \in m .. Len(st) : st[k].path # Append(p, a),
         \A j \in 1 .. Fanout : Node(p) \in DOMAIN tree /\ ~tree[Node(p)].leaf /\ j - 1 = a =>
                                  tree[Node(p)].children[j] = Null
  PROVE  Node(Append(p, a)) \notin DOMAIN tree
<1> SUFFICES ASSUME Node(Append(p, a)) \in DOMAIN tree PROVE FALSE
  OBVIOUS
<1>1. Append(p, a) \in Paths
  BY PathStep
<1>2. HasParent(tree, Append(p, a))
  BY <1>1 DEF Building
<1>3. PICK s \in Paths, j \in 1 .. Fanout :
        /\ Node(s) \in DOMAIN tree /\ ~tree[Node(s)].leaf
        /\ Append(p, a) = Append(s, j - 1) /\ tree[Node(s)].children[j] = Node(Append(p, a))
  BY <1>2 DEF HasParent
<1>4. j - 1 \in Nat
  OBVIOUS
<1>5. s = p /\ j - 1 = a
  <2>1. \A b \in Nat : Append(p, a) = Append(s, b) => p = s /\ a = b
    BY PathStep
  <2> QED BY <1>3, <1>4, <2>1
<1>6. Node(Append(p, a)) # Null
  BY NodeNames
<1> QED BY <1>3, <1>5, <1>6

(* A new node changes nothing for the others. *)
Grown(tree, new, p, v) ==
  /\ DOMAIN new = DOMAIN tree \cup {Node(p)} /\ new[Node(p)] = v
  /\ \A x \in DOMAIN tree : new[x] = tree[x]

LEMMA GrownBy ==
  ASSUME NEW tree, NEW p, Node(p) \notin DOMAIN tree, NEW v
  PROVE  Grown(tree, With(tree, Node(p), v), p, v)
BY DEF With, Grown

LEMMA OthersStay ==
  ASSUME NEW tree, NEW p, NEW v, NEW new, Grown(tree, new, p, v)
  PROVE  \A q \in Paths : HasParent(tree, q) => HasParent(new, q)
<1>2. ASSUME NEW q \in Paths, HasParent(tree, q) PROVE HasParent(new, q)
  <2>1. PICK s \in Paths, j \in 1 .. Fanout :
          /\ Node(s) \in DOMAIN tree /\ ~tree[Node(s)].leaf
          /\ q = Append(s, j - 1) /\ tree[Node(s)].children[j] = Node(q)
    BY <1>2 DEF HasParent
  <2>2. Node(s) \in DOMAIN new /\ new[Node(s)] = tree[Node(s)]
    BY <2>1 DEF Grown
  <2> QED BY <2>1, <2>2 DEF HasParent
<1> QED BY <1>2

LEMMA OpenStays ==
  ASSUME NEW tree, NEW new, NEW span, NEW f, Open(f, tree, span),
         DOMAIN tree \subseteq DOMAIN new, new[Node(f.path)] = tree[Node(f.path)]
  PROVE  Open(f, new, span)
BY DEF Open

(* The fresh frame on top. *)
TopFresh(tree, st, span) ==
  /\ span \in Spans /\ TreeFits(tree, span)
  /\ st[1] \in Frames /\ st[1].path \in Paths /\ st[1].lo \in Nat /\ st[1].hi \in Nat
  /\ Node(st[1].path) \notin DOMAIN tree
  /\ span[st[1].path] = [lo |-> st[1].lo, hi |-> st[1].hi]
  /\ st[1].lo < st[1].hi /\ st[1].hi <= key_count
  /\ st \in Seq(Frames) /\ Chain(st)
InLoops(tree, st, span, t) ==
  /\ \A k \in 1 .. Len(st) - 1 : t[k] = st[k + 1] /\ Open(t[k], tree, span)
  /\ \A q \in Paths : Node(q) \in DOMAIN tree =>
       /\ \/ tree[Node(q)].leaf
          \/ \A j \in 1 .. Fanout : tree[Node(q)].children[j] # Null
          \/ \E k \in 1 .. Len(st) - 1 : t[k].path = q
       /\ HasParent(tree, q) \/ \E k \in 1 .. Len(st) - 1 : t[k].path = q

LEMMA FreshFrame ==
  ASSUME NEW tree, NEW st, NEW span, Building(tree, st, Null, span, 2), st # <<>>,
         Fresh(st[1], tree, span)
  PROVE  TopFresh(tree, st, span) /\ InLoops(tree, st, span, Tail(st))
<1>1. span \in Spans /\ TreeFits(tree, span) /\ st \in Seq(Frames) /\ Chain(st)
  BY DEF Building
<1>2. /\ st[1] \in Frames /\ Len(st) \in Nat \ {0} /\ Len(Tail(st)) = Len(st) - 1
      /\ \A k \in 1 .. Len(st) - 1 : Tail(st)[k] = st[k + 1]
  BY <1>1, ChainPop
<1>3. st[1].path \in Paths /\ st[1].lo \in Nat /\ st[1].hi \in Nat
  BY <1>2 DEF Frames
<1>4. ASSUME NEW k \in 1 .. Len(st) - 1
      PROVE  Tail(st)[k] = st[k + 1] /\ Open(Tail(st)[k], tree, span)
  <2>1. k + 1 \in 2 .. Len(st)
    BY <1>2
  <2>2. Open(st[k + 1], tree, span)
    BY <2>1 DEF Building
  <2> QED BY <1>2, <2>1, <2>2
<1>5. ASSUME NEW q, \E k \in 2 .. Len(st) : st[k].path = q
      PROVE  \E k \in 1 .. Len(st) - 1 : Tail(st)[k].path = q
  <2>1. PICK k \in 2 .. Len(st) : st[k].path = q
    BY <1>5
  <2>2. k - 1 \in 1 .. Len(st) - 1 /\ (k - 1) + 1 = k
    BY <1>2
  <2>3. Tail(st)[k - 1] = st[k]
    BY <1>2, <2>2
  <2> QED BY <2>1, <2>2, <2>3
<1>6. ASSUME NEW q \in Paths, Node(q) \in DOMAIN tree
      PROVE  /\ \/ tree[Node(q)].leaf
                \/ \A j \in 1 .. Fanout : tree[Node(q)].children[j] # Null
                \/ \E k \in 1 .. Len(st) - 1 : Tail(st)[k].path = q
             /\ HasParent(tree, q) \/ \E k \in 1 .. Len(st) - 1 : Tail(st)[k].path = q
  <2>1. /\ \/ tree[Node(q)].leaf
           \/ \A j \in 1 .. Fanout : tree[Node(q)].children[j] # Null
           \/ \E k \in 2 .. Len(st) : st[k].path = q
        /\ Null = Node(q) \/ HasParent(tree, q) \/ \E k \in 2 .. Len(st) : st[k].path = q
    BY <1>6 DEF Building
  <2>2. Null # Node(q)
    BY NodeNames
  <2> QED BY <1>5, <2>1, <2>2
<1>7. /\ Node(st[1].path) \notin DOMAIN tree
      /\ span[st[1].path] = [lo |-> st[1].lo, hi |-> st[1].hi]
      /\ st[1].lo < st[1].hi /\ st[1].hi <= key_count
  BY DEF Fresh
<1> QED BY <1>1, <1>2, <1>3, <1>4, <1>6, <1>7 DEF TopFresh, InLoops

(* Where no node could be allocated the frame just returns. *)
LEMMA EnterFails ==
  ASSUME NEW tree, NEW st, NEW span, Building(tree, st, Null, span, 2), st # <<>>,
         Fresh(st[1], tree, span)
  PROVE  Building(tree, Tail(st), Null, span, 1)
<1>1. /\ Tail(st) \in Seq(Frames) /\ Chain(Tail(st)) /\ Len(Tail(st)) = Len(st) - 1
      /\ span \in Spans /\ TreeFits(tree, span)
  <2>1. st \in Seq(Frames) /\ Chain(st) /\ span \in Spans /\ TreeFits(tree, span)
    BY DEF Building
  <2> QED BY <2>1, ChainPop
<1>2. InLoops(tree, st, span, Tail(st))
  BY FreshFrame
<1>4. Returned(tree, Tail(st), Null, span)
  BY DEF Returned
<1> QED BY <1>1, <1>2, <1>4 DEF Building, InLoops

(* A leaf is returned. *)
LEMMA EnterLeaf ==
  ASSUME NEW tree, NEW st, NEW span, Building(tree, st, Null, span, 2), st # <<>>,
         Fresh(st[1], tree, span), key_count \in Nat, st[1].hi - st[1].lo <= LeafCap,
         NEW new, Grown(tree, new, st[1].path, Leaf(st[1]))
  PROVE  Building(new, Tail(st), Node(st[1].path), span, 1)
<1> DEFINE f == st[1]
           p == f.path
           t == Tail(st)
<1>1. /\ span \in Spans /\ TreeFits(tree, span)
      /\ f \in Frames /\ p \in Paths /\ f.lo \in Nat /\ f.hi \in Nat
      /\ Node(p) \notin DOMAIN tree
      /\ span[p] = [lo |-> f.lo, hi |-> f.hi]
      /\ f.lo < f.hi /\ f.hi <= key_count
      /\ st \in Seq(Frames) /\ Chain(st)
  <2>1. TopFresh(tree, st, span)
    BY FreshFrame
  <2> QED BY <2>1 DEF TopFresh
<1>2. /\ \A k \in 1 .. Len(st) - 1 : t[k] = st[k + 1] /\ Open(t[k], tree, span)
      /\ \A q \in Paths : Node(q) \in DOMAIN tree =>
           /\ \/ tree[Node(q)].leaf
              \/ \A j \in 1 .. Fanout : tree[Node(q)].children[j] # Null
              \/ \E k \in 1 .. Len(st) - 1 : t[k].path = q
           /\ HasParent(tree, q) \/ \E k \in 1 .. Len(st) - 1 : t[k].path = q
  <2>1. InLoops(tree, st, span, t)
    BY FreshFrame
  <2> QED BY <2>1 DEF InLoops
<1>3. t \in Seq(Frames) /\ Chain(t) /\ Len(t) = Len(st) - 1 /\ Len(st) \in Nat \ {0}
  BY <1>1, ChainPop
<1>4. /\ DOMAIN new = DOMAIN tree \cup {Node(p)} /\ new[Node(p)] = Leaf(f)
      /\ \A x \in DOMAIN tree : new[x] = tree[x]
      /\ \A q \in Paths : HasParent(tree, q) => HasParent(new, q)
      /\ \A g : Open(g, tree, span) => Open(g, new, span)
  <2>1. Grown(tree, new, p, Leaf(f))
    OBVIOUS
  <2>2. /\ DOMAIN new = DOMAIN tree \cup {Node(p)} /\ new[Node(p)] = Leaf(f)
        /\ \A x \in DOMAIN tree : new[x] = tree[x]
    BY <2>1 DEF Grown
  <2>3. \A q \in Paths : HasParent(tree, q) => HasParent(new, q)
    BY <2>1, OthersStay
  <2>4. ASSUME NEW g, Open(g, tree, span) PROVE Open(g, new, span)
    <3>1. Node(g.path) \in DOMAIN tree
      BY <2>4 DEF Open
    <3>2. DOMAIN tree \subseteq DOMAIN new /\ new[Node(g.path)] = tree[Node(g.path)]
      BY <2>2, <3>1
    <3> QED BY <2>4, <3>2, OpenStays
  <2> QED BY <2>2, <2>3, <2>4
<1>5. TreeFits(new, span)
  <2>1. NodeFits(new, p, span)
    <3>1. new[Node(p)] = LeafOn(f.lo, f.hi)
      BY <1>4 DEF Leaf, LeafOn
    <3> QED BY <1>1, <3>1 DEF NodeFits
    <2> QED BY <1>1, <1>4, <2>1, NodeSet
<1>6. Returned(new, t, Node(p), span)
  <2>1. CASE t = <<>>
    <3>1. Len(st) = 1 /\ 1 \in 1 .. Len(st)
      <4>1. Len(t) = 0
        <5>1. Len(<<>>) = 0
          OBVIOUS
        <5> HIDE DEF t
        <5> QED BY <2>1, <5>1
      <4> HIDE DEF t
      <4> QED BY <1>3, <4>1
    <3>2. p = <<>> /\ f.lo = 0 /\ f.hi = key_count
      BY <1>1, <3>1 DEF Chain
    <3> HIDE DEF t
    <3> QED BY <1>1, <1>4, <2>1, <3>2 DEF Returned
  <2>2. CASE t # <<>>
    <3>1. 1 \in 1 .. Len(st) /\ 1 < Len(st) /\ 1 \in 1 .. Len(st) - 1
      <4>1. Len(t) # 0
        BY <1>3, <2>2, EmptySeq
      <4> HIDE DEF t
      <4> QED BY <1>3, <4>1
    <3>2. CalledBy(t[1], f)
      <4>1. CalledBy(st[1 + 1], st[1])
        BY <1>1, <3>1 DEF Chain
      <4> QED BY <1>2, <3>1, <4>1
    <3> HIDE DEF t
    <3> QED BY <1>1, <1>4, <2>2, <3>2 DEF Returned, CalledBy
  <2> QED BY <2>1, <2>2
<1>7. ASSUME NEW q \in Paths, Node(q) \in DOMAIN new
      PROVE  /\ \/ new[Node(q)].leaf
                \/ \A j \in 1 .. Fanout : new[Node(q)].children[j] # Null
                \/ \E k \in 1 .. Len(t) : t[k].path = q
             /\ \/ Node(p) = Node(q) \/ HasParent(new, q)
                \/ \E k \in 1 .. Len(t) : t[k].path = q
  <2>1. CASE q = p
    <3>1. new[Node(q)].leaf
      BY <1>4, <2>1 DEF Leaf
    <3> QED BY <2>1, <3>1
  <2>2. CASE q # p
    <3>1. Node(q) \in DOMAIN tree /\ new[Node(q)] = tree[Node(q)]
      <4>1. Node(q) # Node(p)
        BY <2>2, NodeNames
      <4> QED BY <1>4, <1>7, <4>1
    <3> HIDE DEF t
    <3> QED BY <1>2, <1>3, <1>4, <3>1
  <2> QED BY <2>1, <2>2
<1>8. \A k \in 1 .. Len(t) : Open(t[k], new, span)
  BY <1>2, <1>3, <1>4
<1> HIDE DEF t
<1>9. Building(new, t, Node(p), span, 1)
  BY <1>1, <1>3, <1>5, <1>6, <1>7, <1>8 DEF Building
<1> QED BY <1>9 DEF t

(* An inner node starts its loop, and its first child is fresh. *)
LEMMA EnterInner ==
  ASSUME NEW tree, NEW st, NEW span, Building(tree, st, Null, span, 2), st # <<>>,
         Fresh(st[1], tree, span), key_count \in Nat, st[1].hi - st[1].lo > LeafCap,
         NEW c, c = ChildFrame(st[1]), NEW wide \in Spans,
         wide[c.path] = [lo |-> c.lo, hi |-> c.hi], \A q \in Paths : q # c.path => wide[q] = span[q],
         NEW new, Grown(tree, new, st[1].path, Inner(st[1]))
  PROVE  /\ Building(new, <<c>> \o st, Null, wide, 2) /\ Fresh((<<c>> \o st)[1], new, wide)
         /\ <<c>> \o st # <<>>
<1> USE TreeAssumption
<1> DEFINE f == st[1]
           p == f.path
           t == <<c>> \o st
<1>1. /\ span \in Spans /\ TreeFits(tree, span)
      /\ f \in Frames /\ p \in Paths /\ f.lo \in Nat /\ f.hi \in Nat
      /\ Node(p) \notin DOMAIN tree
      /\ span[p] = [lo |-> f.lo, hi |-> f.hi]
      /\ f.lo < f.hi /\ f.hi <= key_count
      /\ st \in Seq(Frames) /\ Chain(st)
  <2>1. TopFresh(tree, st, span)
    BY FreshFrame
  <2> QED BY <2>1 DEF TopFresh
<1>2. Len(st) \in Nat \ {0} /\ 1 \in 1 .. Len(st)
  <2>1. Len(st) \in Nat \ {0}
    BY <1>1, ChainPop
  <2> QED BY <2>1
<1>3. /\ child_count_of(f.hi - f.lo) = Fanout /\ Cut(f.lo, f.hi, 0) = f.lo
      /\ Cut(f.lo, f.hi, 0) < Cut(f.lo, f.hi, 1) /\ Cut(f.lo, f.hi, 1) <= f.hi
      /\ Cut(f.lo, f.hi, 1) \in Nat
  <2>1. 0 \in 0 .. Fanout - 1 /\ 0 + 1 = 1 /\ 1 \in 0 .. Fanout /\ f.hi - f.lo > LeafCap
    OBVIOUS
  <2> HIDE DEF f
  <2> QED BY <1>1, <2>1, Cuts
<1>4. f.i = 0 /\ f.cursor = f.lo
  BY DEF Fresh
<1>5. /\ c \in Frames /\ c.path = Append(p, 0) /\ c.lo = f.lo /\ c.hi = Cut(f.lo, f.hi, 1)
      /\ c.i = 0 /\ c.cursor = c.lo
  <2>1. f.i < Fanout /\ f.cursor = Cut(f.lo, f.hi, f.i) /\ f.i + 1 = 1
    BY <1>3, <1>4
  <2>2. c = ChildFrame(f) /\ f \in Frames /\ f.hi - f.lo > LeafCap
    BY <1>1
  <2> HIDE DEF f
  <2>3. /\ ChildFrame(f) \in Frames
        /\ ChildFrame(f).path = Append(f.path, f.i)
        /\ ChildFrame(f).lo = Cut(f.lo, f.hi, f.i) /\ ChildFrame(f).hi = Cut(f.lo, f.hi, f.i + 1)
        /\ ChildFrame(f).i = 0 /\ ChildFrame(f).cursor = ChildFrame(f).lo
    BY <2>1, <2>2, PartIs
  <2> QED BY <1>3, <1>4, <2>1, <2>2, <2>3
<1>6. c.path \in Paths /\ Len(c.path) = Len(p) + 1 /\ Len(p) = Len(st) - 1
  <2>1. Len(p) = Len(st) - 1
    BY <1>1, <1>2 DEF Chain
  <2> QED BY <1>1, <1>5, <2>1, PathStep
<1>7. Node(c.path) \notin DOMAIN tree
  <2>1. \A k \in 2 .. Len(st) : st[k].path # c.path
    <3>1. ASSUME NEW k \in 2 .. Len(st) PROVE Len(st[k].path) = Len(st) - k /\ Len(st) - k # Len(st)
      <4>1. k \in 1 .. Len(st) /\ Len(st) - k # Len(st)
        BY <1>2
      <4> QED BY <1>1, <4>1 DEF Chain
    <3>2. Len(c.path) = Len(st)
      BY <1>2, <1>6
    <3> QED BY <3>1, <3>2
  <2>2. Null # Node(c.path)
    BY NodeNames
  <2> HIDE DEF p
  <2> QED BY <1>1, <1>5, <2>1, <2>2, NotYet
<1>8. c.path # p
  <2>1. Len(p) + 1 # Len(p)
    BY <1>2, <1>6
  <2> QED BY <1>6, <2>1
<1>9. /\ DOMAIN new = DOMAIN tree \cup {Node(p)} /\ new[Node(p)] = Inner(f)
      /\ \A x \in DOMAIN tree : new[x] = tree[x]
      /\ \A q \in Paths : HasParent(tree, q) => HasParent(new, q)
      /\ \A g : Open(g, tree, span) => Open(g, new, span)
  <2>1. Grown(tree, new, p, Inner(f))
    OBVIOUS
  <2>2. /\ DOMAIN new = DOMAIN tree \cup {Node(p)} /\ new[Node(p)] = Inner(f)
        /\ \A x \in DOMAIN tree : new[x] = tree[x]
    BY <2>1 DEF Grown
  <2>3. \A q \in Paths : HasParent(tree, q) => HasParent(new, q)
    BY <2>1, OthersStay
  <2>4. ASSUME NEW g, Open(g, tree, span) PROVE Open(g, new, span)
    <3>1. Node(g.path) \in DOMAIN tree
      BY <2>4 DEF Open
    <3>2. DOMAIN tree \subseteq DOMAIN new /\ new[Node(g.path)] = tree[Node(g.path)]
      BY <2>2, <3>1
    <3> QED BY <2>4, <3>2, OpenStays
  <2> QED BY <2>2, <2>3, <2>4
<1>10. Node(c.path) \notin DOMAIN new
  <2>1. Node(c.path) # Node(p)
    BY <1>8, NodeNames
  <2> QED BY <1>7, <1>9, <2>1
<1>11. new[Node(p)] = [leaf |-> FALSE, start |-> 0, count |-> 0,
                       keys |-> [j \in 1 .. Fanout - 1 |-> 0], children |-> [j \in 1 .. Fanout |-> Null]]
  BY <1>3, <1>9 DEF Inner
<1>12. TreeFits(new, span)
  <2>1. InnerOn(new[Node(p)], new, p, span)
    BY <1>11 DEF InnerOn
  <2>2. NodeFits(new, p, span)
    BY <1>1, <2>1 DEF NodeFits
  <2> QED BY <1>1, <1>9, <2>2, NodeSet
<1>13. /\ wide \in Spans /\ TreeFits(new, wide) /\ wide[c.path] = [lo |-> c.lo, hi |-> c.hi]
       /\ \A q \in Paths : q # c.path => wide[q] = span[q]
  BY <1>1, <1>6, <1>10, <1>12, SpanSet
<1>14. /\ t \in Seq(Frames) /\ Len(t) = Len(st) + 1
       /\ t[1] = c /\ t # <<>> /\ Chain(t)
       /\ \A k \in 1 .. Len(st) : t[k + 1] = st[k]
  <2>1. CalledBy(st[1], c) /\ c.path = Append(st[1].path, st[1].i)
    BY <1>4, <1>5 DEF CalledBy
  <2> QED BY <1>1, <1>5, <2>1, ChainPush
<1> HIDE DEF t
<1>15. ASSUME NEW g \in Frames, Open(g, new, span) PROVE Open(g, new, wide)
  <2>1. Node(g.path) \in DOMAIN new /\ g.path \in Paths
    BY <1>15 DEF Open, Frames
  <2>2. wide[g.path] = span[g.path]
    BY <1>10, <1>13, <2>1
  <2> QED BY <1>15, <2>2 DEF Open
<1>16. Open(f, new, span)
  <2>1. Node(f.path) \in DOMAIN new /\ ~new[Node(f.path)].leaf
    BY <1>9, <1>11
  <2>2. f.i < Fanout /\ f.cursor = Cut(f.lo, f.hi, f.i)
    BY <1>3, <1>4
  <2>3. \A j \in 1 .. Fanout : new[Node(f.path)].children[j] # Null <=> j <= f.i
    BY <1>4, <1>11
  <2> QED BY <1>1, <2>1, <2>2, <2>3 DEF Open
<1>17. ASSUME NEW k \in 2 .. Len(t) PROVE Open(t[k], new, wide) /\ t[k] = st[k - 1]
  <2>1. k - 1 \in 1 .. Len(st) /\ (k - 1) + 1 = k
    BY <1>2, <1>14
  <2>2. t[k] = st[k - 1] /\ st[k - 1] \in Frames
    BY <1>1, <1>14, <2>1
  <2>3. Open(st[k - 1], new, span)
    <3>1. CASE k = 2
      BY <1>16, <3>1
    <3>2. CASE k # 2
      <4>1. k - 1 \in 2 .. Len(st)
        BY <2>1, <3>2
      <4>2. Open(st[k - 1], tree, span)
        BY <4>1 DEF Building
      <4> QED BY <1>9, <4>2
    <3> QED BY <3>1, <3>2
  <2> QED BY <1>15, <2>2, <2>3
<1>18. ASSUME NEW k \in 1 .. Len(st) PROVE k + 1 \in 2 .. Len(t) /\ t[k + 1] = st[k]
  BY <1>2, <1>14
<1>19. ASSUME NEW q \in Paths, Node(q) \in DOMAIN new
      PROVE  /\ \/ new[Node(q)].leaf
                \/ \A j \in 1 .. Fanout : new[Node(q)].children[j] # Null
                \/ \E k \in 2 .. Len(t) : t[k].path = q
             /\ \/ HasParent(new, q)
                \/ \E k \in 2 .. Len(t) : t[k].path = q
  <2>1. CASE q = p
    <3>1. 2 \in 2 .. Len(t) /\ t[2].path = q
      <4>1. 1 + 1 = 2
        OBVIOUS
      <4> QED BY <1>2, <1>18, <2>1, <4>1
    <3> QED BY <3>1
  <2>2. CASE q # p
    <3>1. Node(q) \in DOMAIN tree /\ new[Node(q)] = tree[Node(q)]
      <4>1. Node(q) # Node(p)
        BY <2>2, NodeNames
      <4> QED BY <1>9, <1>19, <4>1
    <3>2. /\ \/ tree[Node(q)].leaf
             \/ \A j \in 1 .. Fanout : tree[Node(q)].children[j] # Null
             \/ \E k \in 2 .. Len(st) : st[k].path = q
          /\ Null = Node(q) \/ HasParent(tree, q) \/ \E k \in 2 .. Len(st) : st[k].path = q
      BY <3>1 DEF Building
    <3>3. Null # Node(q)
      BY NodeNames
    <3>4. \A k \in 2 .. Len(st) : k \in 1 .. Len(st)
      OBVIOUS
    <3>5. (\E k \in 2 .. Len(st) : st[k].path = q) => \E k \in 2 .. Len(t) : t[k].path = q
      BY <1>18, <3>4
    <3> QED BY <1>9, <3>1, <3>2, <3>3, <3>5
  <2> QED BY <2>1, <2>2
<1>20. Returned(new, t, Null, wide)
  BY DEF Returned
<1>21. Building(new, t, Null, wide, 2)
  BY <1>13, <1>14, <1>17, <1>19, <1>20 DEF Building
<1>22. Fresh(t[1], new, wide)
  <2>1. c.lo < c.hi /\ c.hi <= key_count
    BY <1>1, <1>3, <1>5
  <2> QED BY <1>5, <1>10, <1>13, <1>14, <2>1 DEF Fresh
<1> QED BY <1>13, <1>14, <1>21, <1>22 DEF t

(* The frames of a tree under construction, all in their loops. *)
LEMMA LoopFrames ==
  ASSUME NEW tree, NEW st, NEW r, NEW span, Building(tree, st, r, span, 1), st # <<>>
  PROVE  /\ span \in Spans /\ TreeFits(tree, span) /\ st \in Seq(Frames) /\ Chain(st)
         /\ Len(st) \in Nat \ {0} /\ 1 \in 1 .. Len(st)
         /\ st[1] \in Frames /\ st[1].path \in Paths /\ Open(st[1], tree, span)
         /\ Len(st[1].path) = Len(st) - 1
<1>1. span \in Spans /\ TreeFits(tree, span) /\ st \in Seq(Frames) /\ Chain(st)
  BY DEF Building
<1>2. Len(st) \in Nat \ {0} /\ st[1] \in Frames
  BY <1>1, ChainPop
<1>3. 1 \in 1 .. Len(st)
  BY <1>2
<1>4. Open(st[1], tree, span)
  BY <1>3 DEF Building
<1>5. Len(st[1].path) = Len(st) - 1
  BY <1>1, <1>3 DEF Chain
<1>6. st[1].path \in Paths
  BY <1>2 DEF Frames
<1> QED BY <1>1, <1>2, <1>3, <1>4, <1>5, <1>6

(* The blocks a frame frees are its node's tree. *)
LEMMA Unwinds ==
  ASSUME NEW st, NEW r, NEW span, Building(btree.node, st, r, span, 1), st # <<>>, key_count \in Nat
  PROVE  Felled(Unwound(st[1]), btree.node, st[1].path)
<1> DEFINE f == st[1]
           tree == btree.node
           p == f.path
           ch == tree[Node(p)].children
           ord == [j \in 1 .. f.i |-> destroy_btree_rec(ch[j])]
<1>1. span \in Spans /\ TreeFits(tree, span) /\ f \in Frames /\ p \in Paths /\ Open(f, tree, span)
  BY LoopFrames
<1>2. Node(p) \in DOMAIN tree /\ ~tree[Node(p)].leaf /\ f.i < Fanout /\ f.i \in Nat
      /\ \A j \in 1 .. Fanout : ch[j] # Null <=> j <= f.i
  BY <1>1 DEF Open, Frames
<1> HIDE DEF f, tree
<1>3. DOMAIN ch = 1 .. Fanout
  BY <1>1, <1>2, NodeChildren
<1>4. \A j \in 1 .. f.i : j \in DOMAIN ch /\ ch[j] # Null
  BY <1>2, <1>3, TreeAssumption
<1>5. \A j \in DOMAIN ch : j > f.i => ch[j] = Null
  BY <1>2, <1>3
<1>6. ASSUME NEW j \in 1 .. f.i PROVE Felled(ord[j], tree, Append(p, j - 1))
  <2>1. /\ Append(p, j - 1) \in Paths /\ ch[j] = Node(Append(p, j - 1))
        /\ Node(Append(p, j - 1)) \in DOMAIN tree
    BY <1>1, <1>2, <1>4, NodeChildren
  <2>2. Felled(destroy_btree_rec(Node(Append(p, j - 1))), tree, Append(p, j - 1))
    BY <1>1, <2>1, Destroys DEF tree
  <2> QED BY <2>1, <2>2
<1>7. ord \in [1 .. f.i -> Seq(DOMAIN tree)]
  <2>1. \A j \in 1 .. f.i : ord[j] \in Seq(DOMAIN tree)
    BY <1>6 DEF Felled, Once
  <2> QED BY <2>1
<1>8. Unwound(f) = FlattenSeq(ord) \o <<Node(p)>>
  BY DEF Unwound, tree
<1> HIDE DEF ord
<1>9. Felled(FlattenSeq(ord) \o <<Node(p)>>, tree, p)
  BY <1>1, <1>2, <1>4, <1>5, <1>6, <1>7, FellStep
<1> QED BY <1>8, <1>9 DEF f, tree

(* The tree is left as its caller found it. *)
LEMMA ReturnsNull ==
  ASSUME NEW tree, NEW st, NEW span, Building(tree, st, Null, span, 1), st # <<>>, key_count \in Nat,
         NEW s, Felled(s, tree, st[1].path),
         NEW new, DOMAIN new = {x \in DOMAIN tree : ~In(x, s)}, \A x \in DOMAIN new : new[x] = tree[x]
  PROVE  Building(new, Tail(st), Null, span, 1)
<1> DEFINE f == st[1]
           p == f.path
           t == Tail(st)
           L == Len(st)
<1>1. /\ span \in Spans /\ TreeFits(tree, span) /\ st \in Seq(Frames) /\ Chain(st)
      /\ L \in Nat \ {0} /\ p \in Paths /\ Len(p) = L - 1
  BY LoopFrames
<1>2. /\ t \in Seq(Frames) /\ Len(t) = L - 1 /\ Chain(t)
      /\ \A k \in 1 .. L - 1 : t[k] = st[k + 1]
  BY <1>1, ChainPop
<1> HIDE DEF t
<1>3. \A x \in DOMAIN new : x \in DOMAIN tree /\ ~In(x, s)
  OBVIOUS
(* What its caller has not attached yet, nothing points to. *)
<1>4. ASSUME NEW q \in Paths, NEW j \in 1 .. Fanout, Node(q) \in DOMAIN tree, ~tree[Node(q)].leaf,
             tree[Node(q)].children[j] = Node(p)
      PROVE  FALSE
  <2>1. Node(p) # Null
    BY NodeNames
  <2>2. j \in DOMAIN tree[Node(q)].children
    BY <1>1, <1>4, NodeChildren
  <2>3. Node(p) = Node(Append(q, j - 1)) /\ j - 1 \in Nat
    BY <1>1, <1>4, <2>1, <2>2, NodeChildren
  <2>4. p = Append(q, j - 1)
    BY <2>3, NodeNames
  <2>5. p # <<>>
    BY <2>3, <2>4, PathStep
  <2>6. 1 \in 1 .. L /\ 1 < L /\ 1 + 1 = 2 /\ 2 \in 1 .. L
    <3>1. 1 = L => p = <<>>
      BY <1>1 DEF Chain
    <3> QED BY <1>1, <2>5, <3>1
  <2>7. CalledBy(st[2], f) /\ Open(st[2], tree, span) /\ st[2] \in Frames
    <3>1. CalledBy(st[1 + 1], st[1])
      BY <1>1, <2>6 DEF Chain
    <3>2. Open(st[2], tree, span)
      BY <2>6 DEF Building
    <3> QED BY <1>1, <2>6, <3>1, <3>2
  <2>8. p = Append(st[2].path, st[2].i) /\ st[2].path \in Paths /\ st[2].i \in Nat
    <3>1. ChildFrame(st[2]).path = Append(st[2].path, st[2].i)
      BY <1>1, <2>7, OpenFrame
    <3> HIDE DEF f
    <3> QED BY <2>7, <3>1 DEF CalledBy, Frames
  <2> DEFINE a == j - 1
             u == st[2].path
             b == st[2].i
  <2>9. q = u /\ a = b
    <3>1. Append(q, a) = Append(u, b) /\ u \in Paths /\ a \in Nat /\ b \in Nat
      BY <2>3, <2>4, <2>8
    <3> HIDE DEF a, u, b
    <3> QED BY <3>1, PathStep
  <2>10. tree[Node(q)].children[j] # Null => j <= st[2].i
    BY <2>7, <2>9 DEF Open
  <2> QED BY <1>4, <2>1, <2>9, <2>10
<1>5. ASSUME NEW q \in Paths, NEW j \in 1 .. Fanout, Node(q) \in DOMAIN new, ~new[Node(q)].leaf,
             new[Node(q)].children[j] # Null
      PROVE  new[Node(q)].children[j] \in DOMAIN new
  <2>1. Node(q) \in DOMAIN tree /\ ~In(Node(q), s) /\ new[Node(q)] = tree[Node(q)]
    BY <1>3, <1>5
  <2>2. j \in DOMAIN tree[Node(q)].children
    BY <1>1, <1>5, <2>1, NodeChildren
  <2>3. tree[Node(q)].children[j] \in DOMAIN tree
    BY <1>1, <1>5, <2>1, <2>2, NodeChildren
  <2>4. tree[Node(q)].children[j] # Node(p)
    BY <1>4, <1>5, <2>1
  <2>5. ~In(tree[Node(q)].children[j], s)
    BY <2>1, <2>2, <2>4 DEF Felled
  <2> QED BY <2>1, <2>3, <2>5
<1>6. TreeFits(new, span)
  <2>1. ASSUME NEW q \in Paths, Node(q) \in DOMAIN new PROVE NodeFits(new, q, span)
    <3>1. Node(q) \in DOMAIN tree /\ new[Node(q)] = tree[Node(q)]
      BY <1>3, <2>1
    <3>2. NodeFits(tree, q, span)
      BY <1>1, <3>1 DEF TreeFits
    <3>3. ASSUME InnerOn(tree[Node(q)], tree, q, span) PROVE InnerOn(new[Node(q)], new, q, span)
      <4>1. ~tree[Node(q)].leaf /\ tree[Node(q)].children \in [1 .. Fanout -> {Null} \cup DOMAIN tree]
        BY <3>3 DEF InnerOn
      <4>2. \A j \in 1 .. Fanout : tree[Node(q)].children[j] \in {Null} \cup DOMAIN new
        BY <1>5, <2>1, <3>1, <4>1
      <4>3. tree[Node(q)].children \in [1 .. Fanout -> {Null} \cup DOMAIN new]
        BY <4>1, <4>2
      <4>4. tree[Node(q)] \in [leaf : {FALSE}, start : {0}, count : {0},
                               keys : [1 .. Fanout - 1 -> Int],
                               children : [1 .. Fanout -> {Null} \cup DOMAIN new]]
        BY <3>3, <4>3 DEF InnerOn
      <4> QED BY <3>1, <3>3, <4>4 DEF InnerOn
    <3> QED BY <3>1, <3>2, <3>3 DEF NodeFits
  <2> QED BY <1>1, <1>3, <2>1 DEF TreeFits
<1>7. ASSUME NEW k \in 1 .. Len(t) PROVE Open(t[k], new, span)
  <2>1. k + 1 \in 1 .. L /\ t[k] = st[k + 1] /\ L - (k + 1) < L - 1
    BY <1>1, <1>2
  <2>2. Open(st[k + 1], tree, span)
    BY <2>1 DEF Building
  <2>3. Len(st[k + 1].path) = L - (k + 1)
    BY <1>1, <2>1 DEF Chain
  <2>4. ~In(Node(st[k + 1].path), s)
    <3>1. ASSUME In(Node(st[k + 1].path), s) PROVE FALSE
      <4>1. PICK y \in Paths : Node(st[k + 1].path) = Node(y) /\ Extends(y, p)
        BY <3>1 DEF Felled
      <4>2. y = st[k + 1].path
        BY <4>1, NodeNames
      <4> HIDE DEF p
      <4> QED BY <1>1, <2>1, <2>3, <4>1, <4>2 DEF Extends
    <3> QED BY <3>1
  <2>5. Node(st[k + 1].path) \in DOMAIN new
    BY <2>2, <2>4 DEF Open
  <2>6. new[Node(st[k + 1].path)] = tree[Node(st[k + 1].path)]
    BY <2>5
  <2> QED BY <2>1, <2>2, <2>5, <2>6 DEF Open
<1>8. ASSUME NEW q \in Paths, Node(q) \in DOMAIN new, \E k \in 1 .. L : st[k].path = q
      PROVE  \E k \in 1 .. Len(t) : t[k].path = q
  <2>1. PICK k \in 1 .. L : st[k].path = q
    BY <1>8
  <2>2. k # 1
    <3>1. In(Node(p), s)
      BY DEF Felled
    <3>2. ~In(Node(q), s)
      BY <1>3, <1>8
    <3> QED BY <2>1, <3>1, <3>2
  <2>3. k - 1 \in 1 .. Len(t) /\ (k - 1) + 1 = k /\ k - 1 \in 1 .. L - 1
    BY <1>1, <1>2, <2>2
  <2>4. t[k - 1] = st[k]
    BY <1>2, <2>3
  <2> QED BY <2>1, <2>3, <2>4
<1>9. ASSUME NEW q \in Paths, Node(q) \in DOMAIN new
      PROVE  /\ \/ new[Node(q)].leaf
                \/ \A j \in 1 .. Fanout : new[Node(q)].children[j] # Null
                \/ \E k \in 1 .. Len(t) : t[k].path = q
             /\ HasParent(new, q) \/ \E k \in 1 .. Len(t) : t[k].path = q
  <2>1. Node(q) \in DOMAIN tree /\ new[Node(q)] = tree[Node(q)] /\ ~In(Node(q), s)
    BY <1>3, <1>9
  <2>2. /\ \/ tree[Node(q)].leaf
           \/ \A j \in 1 .. Fanout : tree[Node(q)].children[j] # Null
           \/ \E k \in 1 .. L : st[k].path = q
        /\ Null = Node(q) \/ HasParent(tree, q) \/ \E k \in 1 .. L : st[k].path = q
    BY <2>1 DEF Building
  <2>3. Null # Node(q)
    BY NodeNames
  <2>4. ASSUME HasParent(tree, q) PROVE HasParent(new, q)
    <3>1. PICK u \in Paths, j \in 1 .. Fanout :
            /\ Node(u) \in DOMAIN tree /\ ~tree[Node(u)].leaf
            /\ q = Append(u, j - 1) /\ tree[Node(u)].children[j] = Node(q)
      BY <2>4 DEF HasParent
    <3>2. j \in DOMAIN tree[Node(u)].children
      BY <1>1, <3>1, NodeChildren
    <3>3. ~In(Node(u), s)
      BY <2>1, <2>3, <3>1, <3>2 DEF Felled
    <3>4. Node(u) \in DOMAIN new /\ new[Node(u)] = tree[Node(u)]
      BY <3>1, <3>3
    <3> QED BY <3>1, <3>4 DEF HasParent
  <2> QED BY <1>8, <1>9, <2>1, <2>2, <2>3, <2>4
<1>10. Returned(new, t, Null, span)
  BY DEF Returned
<1>11. Building(new, t, Null, span, 1)
  BY <1>1, <1>2, <1>6, <1>7, <1>9, <1>10 DEF Building
<1> QED BY <1>11 DEF t

(* What a frame's loop writes when its child is there. *)
Filled(n, g, r, child) ==
  [n EXCEPT !.children[g] = r,
            !.keys = IF g = Len(n.children) THEN n.keys ELSE [n.keys EXCEPT ![g] = Separator(child)]]

FilledWell(v, n, tree, q, span, g, b) ==
  /\ InnerOn(v, tree, q, span) /\ v.leaf = FALSE /\ v.children[g] = b
  /\ \A j \in 1 .. Fanout : j # g => v.children[j] = n.children[j]
  /\ Len(n.children) = Fanout

LEMMA FilledIs ==
  ASSUME NEW n, NEW tree, NEW q \in Paths, NEW span, InnerOn(n, tree, q, span),
         NEW g \in 1 .. Fanout, NEW child, NEW b, b = Node(Append(q, g - 1)),
         child.hi = Cut(span[q].lo, span[q].hi, g), child.hi \in Int,
         NEW a, a = Append(q, g - 1),
         span[a] = [lo |-> Cut(span[q].lo, span[q].hi, g - 1), hi |-> child.hi],
         b \in DOMAIN tree
  PROVE  FilledWell(Filled(n, g, b, child), n, tree, q, span, g, b)
<1> USE TreeAssumption
<1> DEFINE v == Filled(n, g, b, child)
<1>1. n \in [leaf : {FALSE}, start : {0}, count : {0}, keys : [1 .. Fanout - 1 -> Int],
             children : [1 .. Fanout -> {Null} \cup DOMAIN tree]]
  BY DEF InnerOn
<1>2. Len(n.children) = Fanout
  BY <1>1
<1> DEFINE ks == IF g = Fanout THEN n.keys ELSE [n.keys EXCEPT ![g] = Key(child.hi - 1)]
           cs == [n.children EXCEPT ![g] = b]
<1>3. v = [leaf |-> FALSE, start |-> 0, count |-> 0, keys |-> ks, children |-> cs]
  <2> DEFINE w == v
  <2>1. w = Filled(n, g, b, child)
    OBVIOUS
  <2> HIDE DEF w
  <2>2. w = [leaf |-> FALSE, start |-> 0, count |-> 0, keys |-> ks, children |-> cs]
    BY <1>1, <1>2, <2>1 DEF Filled, Separator
  <2> QED BY <2>1, <2>2
<1>4. ks \in [1 .. Fanout - 1 -> Int]
  <2>1. Key(child.hi - 1) \in Int
    BY DEF Key
  <2> QED BY <1>1, <2>1
<1>5. cs \in [1 .. Fanout -> {Null} \cup DOMAIN tree]
  BY <1>1
<1>6. \A j \in 1 .. Fanout - 1 : ks[j] = IF j = g THEN Key(child.hi - 1) ELSE n.keys[j]
  BY <1>1
<1>7. \A j \in 1 .. Fanout : cs[j] = IF j = g THEN b ELSE n.children[j]
  BY <1>1
<1> HIDE DEF ks, cs, v
<1>8. /\ v.leaf = FALSE /\ v.keys = ks /\ v.children = cs
      /\ v \in [leaf : {FALSE}, start : {0}, count : {0}, keys : [1 .. Fanout - 1 -> Int],
                children : [1 .. Fanout -> {Null} \cup DOMAIN tree]]
  <2>1. v.leaf = FALSE /\ v.keys = ks /\ v.children = cs
    BY ONLY <1>3
  <2> DEFINE K == [1 .. Fanout - 1 -> Int]
             C == [1 .. Fanout -> {Null} \cup DOMAIN tree]
  <2> HIDE DEF K, C
  <2>2. ks \in K /\ cs \in C
    BY <1>4, <1>5 DEF K, C
  <2>3. v \in [leaf : {FALSE}, start : {0}, count : {0}, keys : K, children : C]
    BY ONLY <1>3, <2>2
  <2> QED BY <2>1, <2>3 DEF K, C
<1>9. ASSUME NEW j \in 1 .. Fanout, v.children[j] # Null
      PROVE  /\ v.children[j] = Node(Append(q, j - 1))
             /\ span[Append(q, j - 1)] = [lo |-> Cut(span[q].lo, span[q].hi, j - 1),
                                          hi |-> Cut(span[q].lo, span[q].hi, j)]
             /\ j < Fanout => v.keys[j] = Key(Cut(span[q].lo, span[q].hi, j) - 1)
  <2>1. CASE j = g
    <3>1. j < Fanout => v.keys[j] = Key(child.hi - 1)
      <4>1. j < Fanout => j \in 1 .. Fanout - 1
        OBVIOUS
      <4> QED BY <1>6, <1>8, <2>1, <4>1
    <3> QED BY <1>7, <1>8, <2>1, <3>1
  <2>2. CASE j # g
    <3>1. n.children[j] # Null /\ v.children[j] = n.children[j]
      BY <1>7, <1>8, <1>9, <2>2
    <3>2. j < Fanout => v.keys[j] = n.keys[j]
      BY <1>6, <1>8, <2>2
    <3> QED BY <3>1, <3>2 DEF InnerOn
  <2> QED BY <2>1, <2>2
<1>10. InnerOn(v, tree, q, span)
  BY <1>8, <1>9 DEF InnerOn
<1> QED BY <1>2, <1>7, <1>8, <1>10 DEF FilledWell, v

(* The tree with the child attached: no other frame or node is concerned. *)
LEMMA Attaches ==
  ASSUME NEW tree, NEW st, NEW r, NEW span, Building(tree, st, r, span, 1), st # <<>>, r # Null,
         key_count \in Nat,
         NEW new, DOMAIN new = DOMAIN tree, \A x \in DOMAIN tree : x # Node(st[1].path) => new[x] = tree[x],
         new[Node(st[1].path)] = Filled(tree[Node(st[1].path)], st[1].i + 1, r, ChildFrame(st[1]))
  PROVE  /\ TreeFits(new, span)
         /\ Len(tree[Node(st[1].path)].children) = Fanout
         /\ Node(st[1].path) \in DOMAIN new /\ ~new[Node(st[1].path)].leaf
         /\ \A j \in 1 .. Fanout : new[Node(st[1].path)].children[j] # Null <=> j <= st[1].i + 1
         /\ \A k \in 2 .. Len(st) : Open(st[k], new, span)
         /\ \A q \in Paths : Node(q) \in DOMAIN new /\ q # st[1].path =>
              \/ new[Node(q)].leaf
              \/ \A j \in 1 .. Fanout : new[Node(q)].children[j] # Null
              \/ \E k \in 2 .. Len(st) : st[k].path = q
         /\ \A q \in Paths : Node(q) \in DOMAIN new /\ q # st[1].path =>
              HasParent(new, q) \/ \E k \in 2 .. Len(st) : st[k].path = q
<1> USE TreeAssumption
<1> DEFINE f == st[1]
           p == f.path
           L == Len(st)
           g == f.i + 1
           child == ChildFrame(f)
<1>1. /\ span \in Spans /\ TreeFits(tree, span) /\ st \in Seq(Frames) /\ Chain(st)
      /\ L \in Nat \ {0} /\ p \in Paths /\ Len(p) = L - 1 /\ f \in Frames /\ Open(f, tree, span)
  BY LoopFrames
<1>2. /\ f.lo \in Nat /\ f.hi \in Nat /\ f.i \in 0 .. Fanout - 1
      /\ f.lo < f.hi /\ f.hi <= key_count /\ f.hi - f.lo > LeafCap
      /\ InnerOn(tree[Node(p)], tree, p, span)
      /\ child.path = Append(p, f.i)
      /\ child.lo = Cut(f.lo, f.hi, f.i) /\ child.hi = Cut(f.lo, f.hi, f.i + 1)
      /\ child \in Frames
  <2> HIDE DEF f
  <2> QED BY <1>1, OpenFrame
<1>3. /\ Node(p) \in DOMAIN tree /\ ~tree[Node(p)].leaf /\ span[p] = [lo |-> f.lo, hi |-> f.hi]
      /\ \A j \in 1 .. Fanout : tree[Node(p)].children[j] # Null <=> j <= f.i
  BY <1>1 DEF Open
<1>4. g \in 1 .. Fanout /\ g - 1 = f.i
  BY <1>2
<1>5. /\ r = Node(Append(p, g - 1)) /\ r \in DOMAIN tree
      /\ span[Append(p, g - 1)] = [lo |-> child.lo, hi |-> child.hi]
  <2>1. Returned(tree, st, r, span)
    BY DEF Building
  <2>2. PICK q \in Paths : /\ r = Node(q) /\ r \in DOMAIN tree /\ q = child.path
                           /\ span[q] = [lo |-> child.lo, hi |-> child.hi]
    BY <2>1 DEF Returned
  <2> QED BY <1>2, <1>4, <2>2
<1> DEFINE v == Filled(tree[Node(p)], g, Node(Append(p, g - 1)), child)
<1>6. new[Node(p)] = v
  BY <1>5
<1>7. /\ InnerOn(v, tree, p, span) /\ v.leaf = FALSE /\ v.children[g] = Node(Append(p, g - 1))
      /\ \A j \in 1 .. Fanout : j # g => v.children[j] = tree[Node(p)].children[j]
      /\ Len(tree[Node(p)].children) = Fanout
  <2> DEFINE n == tree[Node(p)]
             a == Append(p, g - 1)
             b == Node(a)
  <2>1. /\ child.hi = Cut(span[p].lo, span[p].hi, g) /\ child.hi \in Int
        /\ span[a] = [lo |-> Cut(span[p].lo, span[p].hi, g - 1), hi |-> child.hi]
        /\ b \in DOMAIN tree
    BY <1>2, <1>3, <1>4, <1>5 DEF Frames
  <2>2. /\ InnerOn(n, tree, p, span) /\ p \in Paths /\ g \in 1 .. Fanout /\ v = Filled(n, g, b, child)
        /\ b = Node(a) /\ a = Append(p, g - 1)
    BY <1>1, <1>2, <1>4
  <2> HIDE DEF v, n, b, a, p, child, g
  <2>3. FilledWell(Filled(n, g, b, child), n, tree, p, span, g, b)
    BY <2>1, <2>2, FilledIs
  <2> QED BY <2>2, <2>3 DEF n, FilledWell
<1> HIDE DEF v
<1>8. TreeFits(new, span)
  <2>1. InnerOn(new[Node(p)], new, p, span)
    BY <1>6, <1>7 DEF InnerOn
  <2>2. NodeFits(new, p, span)
    BY <1>2, <1>3, <2>1 DEF NodeFits
  <2>3. DOMAIN new = DOMAIN tree \cup {Node(p)}
    BY <1>3
  <2> HIDE DEF p
  <2> QED BY <1>1, <2>2, <2>3, NodeSet DEF p
<1>9. \A j \in 1 .. Fanout : new[Node(p)].children[j] # Null <=> j <= g
  <2>1. ASSUME NEW j \in 1 .. Fanout PROVE new[Node(p)].children[j] # Null <=> j <= g
    <3>1. CASE j = g
      <4>1. new[Node(p)].children[j] # Null
        BY <1>6, <1>7, <3>1, NodeNames
      <4> QED BY <1>4, <3>1, <4>1
    <3>2. CASE j # g
      <4>1. new[Node(p)].children[j] = tree[Node(p)].children[j]
        BY <1>6, <1>7, <3>2
      <4>2. j <= g <=> j <= f.i
        BY <1>2, <3>2
      <4> QED BY <1>3, <4>1, <4>2
    <3> QED BY <3>1, <3>2
  <2> QED BY <2>1
<1> HIDE DEF g
<1>10. ASSUME NEW k \in 2 .. L PROVE Open(st[k], new, span) /\ st[k].path # p
  <2>1. k \in 1 .. L /\ L - k # L - 1
    BY <1>1
  <2>2. Len(st[k].path) = L - k /\ Open(st[k], tree, span)
    BY <1>1, <2>1 DEF Chain, Building
  <2>3. st[k].path # p
    BY <1>1, <2>1, <2>2
  <2>4. Node(st[k].path) # Node(p) /\ Node(st[k].path) \in DOMAIN tree
    BY <2>2, <2>3, NodeNames DEF Open
  <2>5. new[Node(st[k].path)] = tree[Node(st[k].path)]
    BY <2>4
  <2> HIDE DEF p
  <2> QED BY <2>2, <2>3, <2>4, <2>5 DEF Open
<1>11. ASSUME NEW q \in Paths, q # p, \E k \in 1 .. L : st[k].path = q
       PROVE  \E k \in 2 .. L : st[k].path = q
  <2>1. PICK k \in 1 .. L : st[k].path = q
    BY <1>11
  <2>2. k # 1
    BY <1>11, <2>1
  <2>3. k \in 2 .. L
    BY <2>2
  <2> QED BY <2>1, <2>3
<1>12. ASSUME NEW q \in Paths, Node(q) \in DOMAIN new, q # p
       PROVE  /\ \/ new[Node(q)].leaf
                 \/ \A j \in 1 .. Fanout : new[Node(q)].children[j] # Null
                 \/ \E k \in 2 .. L : st[k].path = q
              /\ HasParent(new, q) \/ \E k \in 2 .. L : st[k].path = q
  <2>1. Node(q) \in DOMAIN tree /\ new[Node(q)] = tree[Node(q)]
    <3>1. Node(q) # Node(p)
      BY <1>12, NodeNames
    <3> QED BY <1>12, <3>1
  <2>2. /\ \/ tree[Node(q)].leaf
           \/ \A j \in 1 .. Fanout : tree[Node(q)].children[j] # Null
           \/ \E k \in 1 .. L : st[k].path = q
        /\ r = Node(q) \/ HasParent(tree, q) \/ \E k \in 1 .. L : st[k].path = q
    BY <2>1 DEF Building
  <2>3. ASSUME r = Node(q) PROVE HasParent(new, q)
    <3>1. q = Append(p, g - 1)
      BY <1>5, <2>3, NodeNames
    <3> QED BY <1>1, <1>3, <1>4, <1>6, <1>7, <2>3, <1>5, <3>1 DEF HasParent
  <2>4. ASSUME HasParent(tree, q) PROVE HasParent(new, q)
    <3>1. PICK u \in Paths, j \in 1 .. Fanout :
            /\ Node(u) \in DOMAIN tree /\ ~tree[Node(u)].leaf
            /\ q = Append(u, j - 1) /\ tree[Node(u)].children[j] = Node(q)
      BY <2>4 DEF HasParent
    <3>2. CASE u = p
      <4>1. j # g
        <5>1. Node(q) # Null
          BY NodeNames
        <5>2. j <= f.i
          BY <1>3, <3>1, <3>2, <5>1
        <5> QED BY <1>2, <1>4, <5>2
      <4>2. new[Node(u)].children[j] = Node(q)
        BY <1>6, <1>7, <3>1, <3>2, <4>1
      <4>3. Node(u) \in DOMAIN new /\ ~new[Node(u)].leaf
        BY <1>3, <1>6, <1>7, <3>2
      <4> QED BY <3>1, <4>2, <4>3 DEF HasParent
    <3>3. CASE u # p
      <4>1. Node(u) # Node(p)
        BY <3>3, NodeNames
      <4>2. Node(u) \in DOMAIN new /\ new[Node(u)] = tree[Node(u)]
        BY <3>1, <4>1
      <4> QED BY <3>1, <4>2 DEF HasParent
    <3> QED BY <3>2, <3>3
  <2> QED BY <1>11, <1>12, <2>1, <2>2, <2>3, <2>4
<1>13. Node(p) \in DOMAIN new /\ ~new[Node(p)].leaf
  BY <1>3, <1>6, <1>7
<1> QED BY <1>7, <1>8, <1>9, <1>10, <1>12, <1>13 DEF g

(* The loop of the top frame calls for its next child. *)
LEMMA CallNext ==
  ASSUME NEW tree, NEW st, NEW span, Building(tree, st, Null, span, 1), st # <<>>, key_count \in Nat,
         NEW c, c = ChildFrame(st[1]), NEW wide \in Spans,
         wide[c.path] = [lo |-> c.lo, hi |-> c.hi], \A q \in Paths : q # c.path => wide[q] = span[q]
  PROVE  /\ Building(tree, <<c>> \o st, Null, wide, 2) /\ Fresh((<<c>> \o st)[1], tree, wide)
         /\ <<c>> \o st # <<>>
<1> USE TreeAssumption
<1> DEFINE f == st[1]
           p == f.path
           t == <<c>> \o st
<1>1. /\ span \in Spans /\ TreeFits(tree, span) /\ st \in Seq(Frames) /\ Chain(st)
      /\ Len(st) \in Nat \ {0} /\ p \in Paths /\ Len(p) = Len(st) - 1 /\ f \in Frames
      /\ Open(f, tree, span)
  BY LoopFrames
<1>2. /\ f.i \in 0 .. Fanout - 1 /\ c \in Frames /\ c.path = Append(p, f.i) /\ c.i = 0 /\ c.cursor = c.lo
      /\ c.lo < c.hi /\ c.hi <= key_count /\ f.i \in Nat
  <2>1. f.i \in Nat
    BY <1>1 DEF Frames
  <2>2. c = ChildFrame(f)
    OBVIOUS
  <2> HIDE DEF f
  <2> QED BY <1>1, <2>1, <2>2, OpenFrame
<1>3. c.path \in Paths /\ Len(c.path) = Len(st)
  <2>1. Append(p, f.i) \in Paths /\ Len(Append(p, f.i)) = Len(p) + 1
    BY <1>1, <1>2, PathStep
  <2> QED BY <1>1, <1>2, <2>1
<1>4. Node(c.path) \notin DOMAIN tree
  <2>1. \A k \in 1 .. Len(st) : st[k].path # c.path
    <3>1. ASSUME NEW k \in 1 .. Len(st) PROVE Len(st[k].path) = Len(st) - k /\ Len(st) - k # Len(st)
      BY <1>1 DEF Chain
    <3> QED BY <1>3, <3>1
  <2>2. Null # Node(c.path)
    BY NodeNames
  <2>3. \A j \in 1 .. Fanout : Node(p) \in DOMAIN tree /\ ~tree[Node(p)].leaf /\ j - 1 = f.i =>
                                  tree[Node(p)].children[j] = Null
    <3>1. \A j \in 1 .. Fanout : j - 1 = f.i => ~(j <= f.i)
      BY <1>2
    <3> QED BY <1>1, <3>1 DEF Open
  <2> DEFINE a == f.i
  <2>4. a \in Nat /\ c.path = Append(p, a) /\ \A j \in 1 .. Fanout : Node(p) \in DOMAIN tree /\ ~tree[Node(p)].leaf /\ j - 1 = a =>
                                  tree[Node(p)].children[j] = Null
    BY <1>2, <2>3
  <2> HIDE DEF p, a
  <2> QED BY <1>1, <2>1, <2>2, <2>4, NotYet
<1>5. TreeFits(tree, wide)
  BY <1>1, <1>3, <1>4, SpanSet
<1>6. /\ t \in Seq(Frames) /\ Len(t) = Len(st) + 1
      /\ t[1] = c /\ t # <<>> /\ Chain(t)
      /\ \A k \in 1 .. Len(st) : t[k + 1] = st[k]
  <2>1. CalledBy(st[1], c) /\ c.path = Append(st[1].path, st[1].i)
    BY <1>2 DEF CalledBy
  <2> QED BY <1>1, <1>2, <2>1, ChainPush
<1> HIDE DEF t
<1>7. ASSUME NEW g \in Frames, Open(g, tree, span) PROVE Open(g, tree, wide)
  <2>1. Node(g.path) \in DOMAIN tree /\ g.path \in Paths
    BY <1>7 DEF Open, Frames
  <2>2. wide[g.path] = span[g.path]
    BY <1>4, <2>1
  <2> QED BY <1>7, <2>2 DEF Open
<1>8. ASSUME NEW k \in 2 .. Len(t) PROVE Open(t[k], tree, wide) /\ t[k] = st[k - 1]
  <2>1. k - 1 \in 1 .. Len(st) /\ (k - 1) + 1 = k
    BY <1>1, <1>6
  <2>2. t[k] = st[k - 1] /\ st[k - 1] \in Frames
    BY <1>1, <1>6, <2>1
  <2>3. Open(st[k - 1], tree, span)
    BY <2>1 DEF Building
  <2> QED BY <1>7, <2>2, <2>3
<1>9. ASSUME NEW k \in 1 .. Len(st) PROVE k + 1 \in 2 .. Len(t) /\ t[k + 1] = st[k]
  BY <1>1, <1>6
<1>10. ASSUME NEW q \in Paths, Node(q) \in DOMAIN tree
      PROVE  /\ \/ tree[Node(q)].leaf
                \/ \A j \in 1 .. Fanout : tree[Node(q)].children[j] # Null
                \/ \E k \in 2 .. Len(t) : t[k].path = q
             /\ \/ HasParent(tree, q)
                \/ \E k \in 2 .. Len(t) : t[k].path = q
  <2>1. /\ \/ tree[Node(q)].leaf
           \/ \A j \in 1 .. Fanout : tree[Node(q)].children[j] # Null
           \/ \E k \in 1 .. Len(st) : st[k].path = q
        /\ Null = Node(q) \/ HasParent(tree, q) \/ \E k \in 1 .. Len(st) : st[k].path = q
    BY <1>10 DEF Building
  <2>2. Null # Node(q)
    BY NodeNames
  <2>3. (\E k \in 1 .. Len(st) : st[k].path = q) => \E k \in 2 .. Len(t) : t[k].path = q
    BY <1>9
  <2> QED BY <2>1, <2>2, <2>3
<1>11. Returned(tree, t, Null, wide)
  BY DEF Returned
<1>12. Building(tree, t, Null, wide, 2)
  BY <1>5, <1>6, <1>8, <1>10, <1>11 DEF Building
<1>13. Fresh(t[1], tree, wide)
  BY <1>2, <1>4, <1>6 DEF Fresh
<1> QED BY <1>6, <1>12, <1>13 DEF t

(* The last child is there: the node is returned. *)
LEMMA ReturnsNode ==
  ASSUME NEW tree, NEW st, NEW r, NEW span, Building(tree, st, r, span, 1), st # <<>>, r # Null,
         key_count \in Nat, st[1].i + 1 = Fanout,
         NEW new, DOMAIN new = DOMAIN tree, \A x \in DOMAIN tree : x # Node(st[1].path) => new[x] = tree[x],
         new[Node(st[1].path)] = Filled(tree[Node(st[1].path)], st[1].i + 1, r, ChildFrame(st[1]))
  PROVE  Building(new, Tail(st), Node(st[1].path), span, 1)
<1> USE TreeAssumption
<1> DEFINE f == st[1]
           p == f.path
           t == Tail(st)
           L == Len(st)
<1>1. /\ span \in Spans /\ TreeFits(tree, span) /\ st \in Seq(Frames) /\ Chain(st)
      /\ L \in Nat \ {0} /\ 1 \in 1 .. L /\ p \in Paths /\ Len(p) = L - 1 /\ f \in Frames /\ Open(f, tree, span)
  BY LoopFrames
<1>2. /\ t \in Seq(Frames) /\ Len(t) = L - 1 /\ Chain(t)
      /\ \A k \in 1 .. L - 1 : t[k] = st[k + 1]
  BY <1>1, ChainPop
<1> HIDE DEF t
<1>3. /\ TreeFits(new, span)
      /\ Node(p) \in DOMAIN new /\ ~new[Node(p)].leaf
      /\ \A j \in 1 .. Fanout : new[Node(p)].children[j] # Null <=> j <= f.i + 1
      /\ \A k \in 2 .. L : Open(st[k], new, span)
      /\ \A q \in Paths : Node(q) \in DOMAIN new /\ q # p =>
           \/ new[Node(q)].leaf
           \/ \A j \in 1 .. Fanout : new[Node(q)].children[j] # Null
           \/ \E k \in 2 .. L : st[k].path = q
      /\ \A q \in Paths : Node(q) \in DOMAIN new /\ q # p =>
           HasParent(new, q) \/ \E k \in 2 .. L : st[k].path = q
  BY Attaches
<1>4. \A k \in 1 .. Len(t) : k + 1 \in 2 .. L /\ t[k] = st[k + 1]
  <2>1. \A k \in 1 .. L - 1 : k + 1 \in 2 .. L
    BY <1>1
  <2> QED BY <1>2, <2>1
<1>5. \A k \in 2 .. L : k - 1 \in 1 .. Len(t) /\ t[k - 1] = st[k]
  <2>1. ASSUME NEW k \in 2 .. L PROVE k - 1 \in 1 .. L - 1 /\ (k - 1) + 1 = k
    BY <1>1
  <2> QED BY <1>2, <2>1
<1>6. \A k \in 1 .. Len(t) : Open(t[k], new, span)
  BY <1>3, <1>4
<1>7. \A j \in 1 .. Fanout : new[Node(p)].children[j] # Null
  BY <1>3
<1>8. \A q \in Paths : (\E k \in 2 .. L : st[k].path = q) => \E k \in 1 .. Len(t) : t[k].path = q
  BY <1>5
<1>9. Returned(new, t, Node(p), span)
  <2>1. span[p] = [lo |-> f.lo, hi |-> f.hi] /\ Node(p) \in DOMAIN tree
    BY <1>1 DEF Open
  <2>2. CASE t = <<>>
    <3>1. 1 = L
      <4>1. Len(t) = 0
        <5>1. Len(<<>>) = 0
          OBVIOUS
        <5> QED BY <2>2, <5>1
      <4> QED BY <1>1, <1>2, <4>1
    <3>2. p = <<>> /\ f.lo = 0 /\ f.hi = key_count
      BY <1>1, <3>1 DEF Chain
    <3> QED BY <1>1, <2>1, <2>2, <3>2 DEF Returned
  <2>3. CASE t # <<>>
    <3>1. 1 < L /\ 1 + 1 = 2 /\ 1 \in 1 .. L - 1
      <4>1. Len(t) # 0
        BY <1>2, <2>3, EmptySeq
      <4>2. L - 1 # 0
        BY <1>2, <4>1
      <4> HIDE DEF L
      <4> QED BY <1>1, <4>2
    <3>2. t[1] = st[2] /\ CalledBy(st[2], st[1])
      <4>1. CalledBy(st[1 + 1], st[1])
        BY <1>1, <3>1 DEF Chain
      <4> QED BY <1>2, <3>1, <4>1
    <3>3. p = ChildFrame(t[1]).path /\ f.lo = ChildFrame(t[1]).lo /\ f.hi = ChildFrame(t[1]).hi
      BY <3>2 DEF CalledBy
    <3> HIDE DEF p, f, t
    <3> QED BY <1>1, <2>1, <2>3, <3>3 DEF Returned
  <2> QED BY <2>2, <2>3
<1> HIDE DEF L
<1>10. ASSUME NEW q \in Paths, Node(q) \in DOMAIN new
       PROVE  /\ \/ new[Node(q)].leaf
                 \/ \A j \in 1 .. Fanout : new[Node(q)].children[j] # Null
                 \/ \E k \in 1 .. Len(t) : t[k].path = q
              /\ \/ Node(p) = Node(q) \/ HasParent(new, q)
                 \/ \E k \in 1 .. Len(t) : t[k].path = q
  <2>1. CASE q = p
    BY <1>7, <2>1
  <2>2. CASE q # p
    BY <1>3, <1>8, <1>10, <2>2
  <2> QED BY <2>1, <2>2
<1>11. Building(new, t, Node(p), span, 1)
  BY <1>1, <1>2, <1>3, <1>6, <1>9, <1>10 DEF Building
<1> QED BY <1>11 DEF t

(* The frame of the loop that goes on. *)
Advanced(f) == [f EXCEPT !.i = @ + 1, !.cursor = ChildFrame(f).hi]

(* Another child is to come: the frame stays in its loop. *)
LEMMA ReturnsChild ==
  ASSUME NEW tree, NEW st, NEW r, NEW span, Building(tree, st, r, span, 1), st # <<>>, r # Null,
         key_count \in Nat, st[1].i + 1 # Fanout,
         NEW new, DOMAIN new = DOMAIN tree, \A x \in DOMAIN tree : x # Node(st[1].path) => new[x] = tree[x],
         new[Node(st[1].path)] = Filled(tree[Node(st[1].path)], st[1].i + 1, r, ChildFrame(st[1]))
  PROVE  Building(new, <<Advanced(st[1])>> \o Tail(st), Null, span, 1)
<1> USE TreeAssumption
<1> DEFINE f == st[1]
           p == f.path
           g == Advanced(f)
           t == <<g>> \o Tail(st)
           L == Len(st)
<1>1. /\ span \in Spans /\ TreeFits(tree, span) /\ st \in Seq(Frames) /\ Chain(st)
      /\ L \in Nat \ {0} /\ 1 \in 1 .. L /\ p \in Paths /\ Len(p) = L - 1 /\ f \in Frames /\ Open(f, tree, span)
  BY LoopFrames
<1>2. /\ ChildFrame(f) \in Frames /\ ChildFrame(f).hi = Cut(f.lo, f.hi, f.i + 1)
      /\ f.i \in 0 .. Fanout - 1
  <2> HIDE DEF f
  <2> QED BY <1>1, OpenFrame
<1>3. /\ g \in Frames /\ g.path = p /\ g.lo = f.lo /\ g.hi = f.hi /\ g.i = f.i + 1
      /\ g.cursor = Cut(f.lo, f.hi, f.i + 1)
  <2> HIDE DEF f
  <2>1. ChildFrame(f).hi \in Nat /\ f.i + 1 \in Nat
    BY <1>2 DEF Frames
  <2> QED BY <1>1, <1>2, <2>1 DEF Advanced, Frames
<1> HIDE DEF g
<1>4. /\ Tail(st) \in Seq(Frames) /\ Len(Tail(st)) = L - 1
      /\ \A k \in 1 .. L - 1 : Tail(st)[k] = st[k + 1]
  BY <1>1, ChainPop
<1>5. /\ t \in Seq(Frames) /\ Len(t) = Len(Tail(st)) + 1 /\ t[1] = g
      /\ \A k \in 1 .. Len(Tail(st)) : t[k + 1] = Tail(st)[k]
  BY <1>3, <1>4, PushPop
<1> HIDE DEF t
<1>6. Len(t) = L
  <2> HIDE DEF L
  <2> QED BY <1>1, <1>4, <1>5
<1>7. ASSUME NEW k \in 2 .. L PROVE t[k] = st[k] /\ k \in 1 .. L
  <2>1. k - 1 \in 1 .. L - 1 /\ (k - 1) + 1 = k
    BY <1>1
  <2>2. Tail(st)[k - 1] = st[k]
    BY <1>4, <2>1
  <2>3. t[k] = Tail(st)[k - 1]
    BY <1>4, <1>5, <2>1
  <2> QED BY <2>2, <2>3
<1>8. \A k \in 1 .. L : t[k].path = st[k].path /\ t[k].lo = st[k].lo /\ t[k].hi = st[k].hi
  <2>1. ASSUME NEW k \in 1 .. L PROVE t[k].path = st[k].path /\ t[k].lo = st[k].lo /\ t[k].hi = st[k].hi
    <3>1. CASE k = 1
      BY <1>3, <1>5, <3>1
    <3>2. CASE k # 1
      <4>1. k \in 2 .. L
        BY <3>2
      <4> QED BY <1>7, <4>1
    <3> QED BY <3>1, <3>2
  <2> QED BY <2>1
<1>9. Chain(t)
  <2>1. ASSUME NEW k \in 1 .. L
        PROVE  /\ Len(t[k].path) = L - k
               /\ k = L => t[k].path = <<>> /\ t[k].lo = 0 /\ t[k].hi = key_count
               /\ k < L => CalledBy(t[k + 1], t[k])
    <3>1. /\ Len(st[k].path) = L - k
          /\ k = L => st[k].path = <<>> /\ st[k].lo = 0 /\ st[k].hi = key_count
          /\ k < L => CalledBy(st[k + 1], st[k])
      BY <1>1 DEF Chain
    <3>2. ASSUME k < L PROVE CalledBy(t[k + 1], t[k])
      <4>1. k + 1 \in 2 .. L
        BY <1>1, <3>2
      <4>2. t[k + 1] = st[k + 1] /\ CalledBy(st[k + 1], st[k])
        BY <1>7, <3>1, <3>2, <4>1
      <4> QED BY <1>8, <4>2 DEF CalledBy
    <3> QED BY <1>8, <3>1, <3>2
  <2> QED BY <1>6, <2>1 DEF Chain
<1>10. /\ TreeFits(new, span)
       /\ Node(p) \in DOMAIN new /\ ~new[Node(p)].leaf
       /\ \A j \in 1 .. Fanout : new[Node(p)].children[j] # Null <=> j <= f.i + 1
       /\ \A k \in 2 .. L : Open(st[k], new, span)
       /\ \A q \in Paths : Node(q) \in DOMAIN new /\ q # p =>
            \/ new[Node(q)].leaf
            \/ \A j \in 1 .. Fanout : new[Node(q)].children[j] # Null
            \/ \E k \in 2 .. L : st[k].path = q
       /\ \A q \in Paths : Node(q) \in DOMAIN new /\ q # p =>
            HasParent(new, q) \/ \E k \in 2 .. L : st[k].path = q
  BY Attaches
<1>11. Open(g, new, span)
  <2>1. span[p] = [lo |-> f.lo, hi |-> f.hi]
    BY <1>1 DEF Open
  <2>2. f.i + 1 < Fanout
    BY <1>2
  <2> HIDE DEF p, f
  <2> QED BY <1>3, <1>10, <2>1, <2>2 DEF Open
<1>12. \A k \in 1 .. L : Open(t[k], new, span)
  <2>1. ASSUME NEW k \in 1 .. L PROVE Open(t[k], new, span)
    <3>1. CASE k = 1
      BY <1>5, <1>11, <3>1
    <3>2. CASE k # 1
      <4>1. k \in 2 .. L
        BY <3>2
      <4> QED BY <1>7, <1>10, <4>1
    <3> QED BY <3>1, <3>2
  <2> QED BY <2>1
<1>13. \A q \in Paths : (q = p \/ \E k \in 2 .. L : st[k].path = q) => \E k \in 1 .. L : t[k].path = q
  BY <1>1, <1>3, <1>5, <1>7
<1>14. ASSUME NEW q \in Paths, Node(q) \in DOMAIN new
       PROVE  /\ \/ new[Node(q)].leaf
                 \/ \A j \in 1 .. Fanout : new[Node(q)].children[j] # Null
                 \/ \E k \in 1 .. L : t[k].path = q
              /\ \/ HasParent(new, q)
                 \/ \E k \in 1 .. L : t[k].path = q
  BY <1>10, <1>13, <1>14
<1>15. Returned(new, t, Null, span)
  BY DEF Returned
<1>16. Building(new, t, Null, span, 1)
  BY <1>1, <1>5, <1>6, <1>9, <1>10, <1>12, <1>14, <1>15 DEF Building
<1> QED BY <1>16 DEF t, g

(* Nothing is left when the last frame has returned nothing. *)
LEMMA NothingBuilt ==
  ASSUME NEW tree, NEW span, Building(tree, <<>>, Null, span, 1)
  PROVE  DOMAIN tree = {}
<1> SUFFICES ASSUME DOMAIN tree # {} PROVE FALSE
  OBVIOUS
<1> DEFINE T == {Len(q) : q \in {q \in Paths : Node(q) \in DOMAIN tree}}
<1>1. T \in SUBSET Nat
  BY DEF Paths
<1>2. \A q \in Paths : Node(q) \in DOMAIN tree => Len(q) \in T
  OBVIOUS
<1>3. \A m \in T : \E q \in Paths : Node(q) \in DOMAIN tree /\ Len(q) = m
  OBVIOUS
<1>4. T # {}
  <2>1. PICK x : x \in DOMAIN tree
    OBVIOUS
  <2>2. TreeFits(tree, span)
    BY DEF Building
  <2>3. PICK q \in Paths : x = Node(q)
    BY <2>1, <2>2 DEF TreeFits
  <2> QED BY <1>2, <2>1, <2>3
<1> HIDE DEF T
<1>5. PICK m \in T : \A n \in T : m <= n
  BY <1>1, <1>4, LeastNumber
<1>6. PICK q \in Paths : Node(q) \in DOMAIN tree /\ Len(q) = m
  BY <1>3
<1>7. HasParent(tree, q)
  <2>1. Null # Node(q) /\ ~\E k \in 1 .. Len(<<>>) : <<>>[k].path = q
    BY NodeNames
  <2> QED BY <1>6, <2>1 DEF Building
<1>8. PICK s \in Paths, j \in 1 .. Fanout : Node(s) \in DOMAIN tree /\ q = Append(s, j - 1)
  BY <1>7 DEF HasParent
<1>9. Len(q) = Len(s) + 1 /\ Len(s) \in Nat
  <2>1. j - 1 \in Nat
    BY TreeAssumption
  <2> QED BY <1>8, <2>1, PathStep DEF Paths
<1>10. Len(s) \in T
  BY <1>2, <1>8
<1> QED BY <1>5, <1>6, <1>9, <1>10

(* The whole tree is freed. *)
LEMMA DestroysAll ==
  ASSUME NEW span, Building(btree.node, <<>>, Node(<<>>), span, 1), key_count \in Nat
  PROVE  /\ Node(<<>>) \in DOMAIN btree.node
         /\ Once(destroy_btree_rec(Node(<<>>)), DOMAIN btree.node)
         /\ \A x \in DOMAIN btree.node : In(x, destroy_btree_rec(Node(<<>>)))
<1> DEFINE tree == btree.node
           s == destroy_btree_rec(Node(<<>>))
<1>1. span \in Spans /\ TreeFits(tree, span) /\ <<>> \in Paths
  BY DEF Building, Paths
<1>2. Node(<<>>) \in DOMAIN tree
  BY NodeNames DEF Building, Returned
<1>3. Felled(s, tree, <<>>)
  BY <1>1, <1>2, Destroys
<1> HIDE DEF s
<1> DEFINE T == {Len(q) : q \in {q \in Paths : Node(q) \in DOMAIN tree /\ ~In(Node(q), s)}}
<1>4. T \in SUBSET Nat
  BY DEF Paths
<1>5. \A q \in Paths : Node(q) \in DOMAIN tree /\ ~In(Node(q), s) => Len(q) \in T
  OBVIOUS
<1>6. \A m \in T : \E q \in Paths : Node(q) \in DOMAIN tree /\ ~In(Node(q), s) /\ Len(q) = m
  OBVIOUS
<1> HIDE DEF T
<1>7. T = {}
  <2> SUFFICES ASSUME T # {} PROVE FALSE
    OBVIOUS
  <2>1. PICK m \in T : \A n \in T : m <= n
    BY <1>4, LeastNumber
  <2>2. PICK q \in Paths : Node(q) \in DOMAIN tree /\ ~In(Node(q), s) /\ Len(q) = m
    BY <1>6
  <2>3. q # <<>>
    BY <1>3, <2>2 DEF Felled
  <2>4. HasParent(tree, q)
    <3>1. Node(<<>>) # Node(q)
      BY <2>3, NodeNames
    <3>2. ~\E k \in 1 .. Len(<<>>) : <<>>[k].path = q
      OBVIOUS
    <3> QED BY <2>2, <3>1, <3>2 DEF Building
  <2>5. PICK u \in Paths, j \in 1 .. Fanout :
          /\ Node(u) \in DOMAIN tree /\ ~tree[Node(u)].leaf
          /\ q = Append(u, j - 1) /\ tree[Node(u)].children[j] = Node(q)
    BY <2>4 DEF HasParent
  <2>6. Len(q) = Len(u) + 1 /\ Len(u) \in Nat
    <3>1. j - 1 \in Nat
      BY TreeAssumption
    <3> QED BY <2>5, <3>1, PathStep DEF Paths
  <2>7. In(Node(u), s)
    <3> SUFFICES ASSUME ~In(Node(u), s) PROVE FALSE
      OBVIOUS
    <3>1. Len(u) \in T
      BY <1>5, <2>5
    <3> QED BY <2>1, <2>2, <2>6, <3>1
  <2>8. j \in DOMAIN tree[Node(u)].children /\ tree[Node(u)].children[j] # Null
    <3>1. j \in DOMAIN tree[Node(u)].children
      BY <1>1, <2>5, NodeChildren
    <3> QED BY <2>5, <3>1, NodeNames
  <2> QED BY <1>3, <2>2, <2>5, <2>7, <2>8 DEF Felled
<1>8. ASSUME NEW x \in DOMAIN tree PROVE In(x, s)
  <2>1. PICK q \in Paths : x = Node(q)
    BY <1>1 DEF TreeFits
  <2> QED BY <1>5, <1>7, <2>1
<1> QED BY <1>2, <1>3, <1>8 DEF Felled, s

LEMMA Primed ==
  ASSUME key_count' = key_count, NEW span, NEW m
  PROVE  /\ Building(btree.node, stack, ret, span, m)' <=> Building(btree.node', stack', ret', span, m)
         /\ Building(btree.node, stack, Null, span, m)' <=> Building(btree.node', stack', Null, span, m)
         /\ Building(btree.node, <<>>, Node(<<>>), span, m)' <=> Building(btree.node', <<>>, Node(<<>>), span, m)
         /\ Fresh(stack[1], btree.node, span)' <=> Fresh(stack'[1], btree.node', span)
<1>1. TreeFits(btree.node, span)' <=> TreeFits(btree.node', span)
  BY DEF TreeFits, NodeFits
<1>2. Chain(stack)' <=> Chain(stack')
  BY DEF Chain
<1>3. Chain(<<>>)' <=> Chain(<<>>)
  BY DEF Chain
<1>4. Returned(btree.node, stack, ret, span)' <=> Returned(btree.node', stack', ret', span)
  BY DEF Returned
<1>5. Returned(btree.node, stack, Null, span)' <=> Returned(btree.node', stack', Null, span)
  BY DEF Returned
<1>6. Returned(btree.node, <<>>, Node(<<>>), span)' <=> Returned(btree.node', <<>>, Node(<<>>), span)
  BY DEF Returned
<1>7. Building(btree.node, stack, ret, span, m)' <=> Building(btree.node', stack', ret', span, m)
  BY <1>1, <1>2, <1>4 DEF Building
<1>8. Building(btree.node, stack, Null, span, m)' <=> Building(btree.node', stack', Null, span, m)
  BY <1>1, <1>2, <1>5 DEF Building
<1>9. Building(btree.node, <<>>, Node(<<>>), span, m)' <=> Building(btree.node', <<>>, Node(<<>>), span, m)
  BY <1>1, <1>3, <1>6 DEF Building
<1>10. Fresh(stack[1], btree.node, span)' <=> Fresh(stack'[1], btree.node', span)
  BY DEF Fresh
<1> QED BY <1>7, <1>8, <1>9, <1>10

(* Blocks that are live and come once are freed. *)
LEMMA FreeIs ==
  ASSUME NEW S, NEW s, Once(s, S), \A x : In(x, s) => x \in live /\ x # Null,
         NEW then, Free(s, then)
  PROVE  pc' = then /\ live' = {x \in live : ~In(x, s)}
<1>1. DOMAIN s = 1 .. Len(s)
  BY DEF Once
<1>2. \A x : x \in Pointed(s) <=> In(x, s)
  <2>1. \A x : In(x, s) <=> \E k \in DOMAIN s : s[k] = x
    BY <1>1 DEF In
  <2> QED BY <2>1 DEF Pointed
<1>3. Freeable(s)
  <2>1. \A j, k \in DOMAIN s : s[j] = s[k] => j = k
    BY <1>1 DEF Once
  <2> QED BY <1>2, <2>1 DEF Freeable
<1> QED BY <1>2, <1>3 DEF Free

(* The B-tree of the next state. *)
LEMMA EntersAt ==
  ASSUME key_count' = key_count, NEW new, NEW wide,
         pc' = "enter", stack' # <<>>, btree' = [root |-> Null, node |-> new],
         live' = Base \cup {TreeKeys} \cup DOMAIN new,
         Building(new, stack', Null, wide, 2), Fresh(stack'[1], new, wide)
  PROVE  BtreeInv(wide)'
<1>1. btree'.node = new /\ btree' = [root |-> Null, node |-> btree'.node]
  OBVIOUS
<1>2. Building(btree.node, stack, Null, wide, 2)' /\ Fresh(stack[1], btree.node, wide)'
  BY <1>1, Primed
<1>3. BtreeLive'
  BY <1>1 DEF BtreeLive, Base, TreeKeys, Items, Keys, Queries
<1> QED BY <1>1, <1>2, <1>3 DEF BtreeInv, BstPcs

LEMMA ReturnsAt ==
  ASSUME key_count' = key_count, NEW new, NEW wide,
         pc' = "return", btree' = [root |-> Null, node |-> new],
         live' = Base \cup {TreeKeys} \cup DOMAIN new,
         Building(new, stack', ret', wide, 1)
  PROVE  BtreeInv(wide)'
<1>1. btree'.node = new /\ btree' = [root |-> Null, node |-> btree'.node]
  OBVIOUS
<1>2. Building(btree.node, stack, ret, wide, 1)'
  BY <1>1, Primed
<1>3. BtreeLive'
  BY <1>1 DEF BtreeLive, Base, TreeKeys, Items, Keys, Queries
<1> QED BY <1>1, <1>2, <1>3 DEF BtreeInv, BstPcs

(* The range a path gets when the loop comes to it. *)
LEMMA Widened ==
  ASSUME NEW span \in Spans, NEW c \in Frames
  PROVE  \E wide \in Spans : /\ wide[c.path] = [lo |-> c.lo, hi |-> c.hi]
                             /\ \A q \in Paths : q # c.path => wide[q] = span[q]
<1> DEFINE wide == [q \in Paths |-> IF q = c.path THEN [lo |-> c.lo, hi |-> c.hi] ELSE span[q]]
<1>1. c.path \in Paths /\ c.lo \in Nat /\ c.hi \in Nat
  BY DEF Frames
<1>2. wide \in Spans
  BY <1>1 DEF Spans
<1> QED BY <1>1, <1>2

LEMMA BtreeKeysStep ==
  ASSUME MainInv, NEW span \in Spans, BtreeInv(span), BtreeKeys
  PROVE  /\ pc' = "enter" \/ (pc' = "fail_modes" /\ live' = Base)
         /\ \E wide \in Spans : BtreeInv(wide)'
<1>1. key_count \in Nat /\ key_count > 0 /\ live = Base /\ key_count' = key_count
  BY DEF MainInv, BtreeKeys, Started, TreePcs, BtreePcs
<1>2. btree = NoBtree /\ stack = <<>> /\ ret = Null /\ btree' = btree /\ ret' = Null
  BY DEF BtreeInv, BtreeKeys
<1>3. CASE pc' = "fail_modes" /\ UNCHANGED <<live, stack>>
  BY <1>1, <1>3 DEF BtreeInv, BstPcs
<1>4. CASE Allocate(TreeKeys, "enter")
           /\ stack' = <<[path |-> <<>>, lo |-> 0, hi |-> key_count, i |-> 0, cursor |-> 0]>>
  <2> DEFINE c == [path |-> <<>>, lo |-> 0, hi |-> key_count, i |-> 0, cursor |-> 0]
             st == <<c>>
             new == <<>>
  <2>1. c \in Frames /\ <<>> \in Paths
    BY <1>1 DEF Frames, Paths
  <2>2. st \in Seq(Frames) /\ Len(st) = 1 /\ st[1] = c /\ st # <<>>
    BY <2>1
  <2>3. PICK wide \in Spans : wide[c.path] = [lo |-> c.lo, hi |-> c.hi]
    BY <2>1, Widened
  <2>4. \A x : x \notin DOMAIN new
    OBVIOUS
  <2>5. btree' = [root |-> Null, node |-> new] /\ stack' = st /\ pc' = "enter"
        /\ live' = Base \cup {TreeKeys} \cup DOMAIN new
    BY <1>1, <1>2, <1>4, <2>4 DEF Allocate, NoBtree
  <2> HIDE DEF st, new
  <2>6. Chain(st)
    <3>1. Len(c.path) = 0
      OBVIOUS
    <3> QED BY <2>2, <3>1 DEF Chain
  <2>7. TreeFits(new, wide) /\ Returned(new, st, Null, wide)
    BY <2>4 DEF TreeFits, Returned
  <2>8. Building(new, st, Null, wide, 2)
    BY <2>2, <2>4, <2>6, <2>7 DEF Building
  <2>9. Fresh(st[1], new, wide)
    BY <1>1, <2>2, <2>3, <2>4 DEF Fresh
  <2>10. BtreeInv(wide)'
    BY <1>1, <2>2, <2>5, <2>8, <2>9, EntersAt
  <2> QED BY <2>5, <2>10
<1> QED BY <1>3, <1>4 DEF BtreeKeys

LEMMA EnterStep ==
  ASSUME MainInv, NEW span \in Spans, BtreeInv(span), Enter
  PROVE  pc' \in {"enter", "return"} /\ \E wide \in Spans : BtreeInv(wide)'
<1> DEFINE f == stack[1]
           tree == btree.node
           p == f.path
<1>1. /\ key_count \in Nat /\ key_count' = key_count /\ stack # <<>>
      /\ btree = [root |-> Null, node |-> tree] /\ live = Base \cup {TreeKeys} \cup DOMAIN tree
      /\ Building(tree, stack, Null, span, 2) /\ Fresh(f, tree, span)
  BY DEF MainInv, BtreeInv, Enter, BtreeLive
<1>2. stack \in Seq(Frames) /\ Head(stack) = f /\ f \in Frames /\ Node(p) \notin DOMAIN tree
  <2>1. stack \in Seq(Frames) /\ Chain(stack)
    BY <1>1 DEF Building
  <2> QED BY <1>1, <2>1, ChainPop DEF Fresh
<1> HIDE DEF tree
<1>3. CASE ret' = Null /\ stack' = Tail(stack) /\ pc' = "return" /\ UNCHANGED <<live, btree>>
  <2>1. Building(tree, Tail(stack), Null, span, 1)
    BY <1>1, EnterFails
  <2>2. Building(tree, stack', ret', span, 1)
    BY <1>3, <2>1
  <2>3. BtreeInv(span)'
    BY <1>1, <1>3, <2>2, ReturnsAt
  <2> QED BY <1>3, <2>3
<1>4. CASE /\ f.hi - f.lo <= LeafCap
           /\ Allocate(Node(p), "return")
           /\ btree' = [btree EXCEPT !.node = With(@, Node(p), Leaf(f))]
           /\ ret' = Node(p) /\ stack' = Tail(stack)
  <2> DEFINE new == With(tree, Node(p), Leaf(f))
  <2>1. Grown(tree, new, p, Leaf(f))
    BY <1>2, GrownBy
  <2>2. btree' = [root |-> Null, node |-> new]
    BY <1>1, <1>4 DEF tree
  <2> HIDE DEF new
  <2>3. Building(new, Tail(stack), Node(p), span, 1)
    BY <1>1, <1>4, <2>1, EnterLeaf
  <2>4. live' = Base \cup {TreeKeys} \cup DOMAIN new /\ pc' = "return"
    BY <1>1, <1>4, <2>1 DEF Allocate, Grown
  <2>5. Building(new, stack', ret', span, 1)
    BY <1>4, <2>3
  <2>6. BtreeInv(span)'
    BY <1>1, <2>2, <2>4, <2>5, ReturnsAt
  <2> QED BY <2>4, <2>6
<1>5. CASE /\ f.hi - f.lo > LeafCap
           /\ Allocate(Node(p), "enter")
           /\ btree' = [btree EXCEPT !.node = With(@, Node(p), Inner(f))]
           /\ stack' = <<ChildFrame(f)>> \o stack /\ UNCHANGED ret
  <2> DEFINE new == With(tree, Node(p), Inner(f))
             c == ChildFrame(f)
  <2>1. Grown(tree, new, p, Inner(f))
    BY <1>2, GrownBy
  <2>2. btree' = [root |-> Null, node |-> new]
    BY <1>1, <1>5 DEF tree
  <2> HIDE DEF new
  <2>3. c \in Frames
    <3>1. f.i < Fanout /\ f.cursor = Cut(f.lo, f.hi, f.i)
      <4>1. f.lo \in Nat /\ f.hi \in Nat
        BY <1>2 DEF Frames
      <4>2. f.i = 0 /\ f.cursor = f.lo
        BY <1>1 DEF Fresh
      <4>3. Cut(f.lo, f.hi, 0) = f.lo
        <5> HIDE DEF f
        <5> QED BY <1>5, <4>1, Cuts
      <4> QED BY <4>2, <4>3, TreeAssumption
    <3> HIDE DEF f
    <3> QED BY <1>2, <1>5, <3>1, PartIs
  <2>4. PICK wide \in Spans : /\ wide[c.path] = [lo |-> c.lo, hi |-> c.hi]
                              /\ \A q \in Paths : q # c.path => wide[q] = span[q]
    <3> HIDE DEF c
    <3> QED BY <2>3, Widened
  <2>5. /\ Building(new, <<c>> \o stack, Null, wide, 2) /\ Fresh((<<c>> \o stack)[1], new, wide)
        /\ <<c>> \o stack # <<>>
    <3>1. c = ChildFrame(stack[1])
      OBVIOUS
    <3> HIDE DEF c
    <3> QED BY <1>1, <1>5, <2>1, <2>4, <3>1, EnterInner
  <2>6. live' = Base \cup {TreeKeys} \cup DOMAIN new /\ pc' = "enter" /\ stack' = <<c>> \o stack
    BY <1>1, <1>5, <2>1 DEF Allocate, Grown
  <2>7. Building(new, stack', Null, wide, 2) /\ Fresh(stack'[1], new, wide) /\ stack' # <<>>
    BY <2>5, <2>6
  <2>8. BtreeInv(wide)'
    BY <1>1, <2>2, <2>6, <2>7, EntersAt
  <2> QED BY <2>6, <2>8
<1> QED BY <1>2, <1>3, <1>4, <1>5 DEF Enter

LEMMA ReturnNullStep ==
  ASSUME MainInv, NEW span \in Spans, BtreeInv(span), ReturnNull
  PROVE  pc' = "return" /\ BtreeInv(span)'
<1> DEFINE f == stack[1]
           tree == btree.node
           s == Unwound(f)
           new == Gone(s)
<1>1. /\ key_count \in Nat /\ key_count' = key_count /\ stack # <<>> /\ ret = Null /\ ret' = Null
      /\ btree = [root |-> Null, node |-> tree] /\ live = Base \cup {TreeKeys} \cup DOMAIN tree
      /\ Building(tree, stack, Null, span, 1)
  BY DEF MainInv, BtreeInv, ReturnNull, BtreeLive
<1>2. Head(stack) = f
  <2>1. stack \in Seq(Frames) /\ Chain(stack)
    BY <1>1 DEF Building
  <2> QED BY <1>1, <2>1, ChainPop
<1>3. Felled(s, tree, f.path)
  BY <1>1, Unwinds
<1>4. Once(s, DOMAIN tree) /\ \A x : In(x, s) => x \in DOMAIN tree /\ x # Null
  <2>1. Once(s, DOMAIN tree) /\ \A x : In(x, s) => \E r \in Paths : x = Node(r)
    BY <1>3 DEF Felled
  <2>2. \A x : In(x, s) => x \in DOMAIN tree
    BY <2>1 DEF Once, In
  <2>3. \A r : Node(r) # Null
    BY NodeNames
  <2> QED BY <2>1, <2>2, <2>3
<1>5. /\ Free(s, "return") /\ btree' = [btree EXCEPT !.node = Gone(s)] /\ stack' = Tail(stack)
  BY <1>2 DEF ReturnNull
<1>6. DOMAIN s = 1 .. Len(s) /\ DOMAIN new = {x \in DOMAIN tree : ~In(x, s)}
      /\ \A x \in DOMAIN new : new[x] = tree[x]
  <2>1. DOMAIN s = 1 .. Len(s)
    BY <1>4 DEF Once
  <2>2. \A x : x \in Pointed(s) <=> In(x, s)
    BY <1>4, <2>1 DEF Pointed, In
  <2> HIDE DEF s
  <2>3. DOMAIN new = DOMAIN tree \ Pointed(s) /\ \A x \in DOMAIN new : new[x] = tree[x]
    BY DEF Gone
  <2> QED BY <2>1, <2>2, <2>3
<1> HIDE DEF s
<1>7. pc' = "return" /\ live' = {x \in live : ~In(x, s)}
  <2>1. \A x : In(x, s) => x \in live /\ x # Null
    BY <1>1, <1>4
  <2> HIDE DEF tree
  <2> QED BY <1>4, <1>5, <2>1, FreeIs
<1> HIDE DEF new
<1>8. live' = Base \cup {TreeKeys} \cup DOMAIN new
  <2>1. \A x \in Base \cup {TreeKeys} : ~In(x, s)
    <3>1. \A x : In(x, s) => \E r \in Paths : x = Node(r)
      BY <1>3 DEF Felled
    <3>2. \A r : Node(r) \notin Base \cup {TreeKeys}
      BY NodeNames
    <3> QED BY <3>1, <3>2
  <2> QED BY <1>1, <1>6, <1>7, <2>1
<1>9. Building(new, Tail(stack), Null, span, 1)
  <2> HIDE DEF tree
  <2> QED BY <1>1, <1>3, <1>6, ReturnsNull
<1>10. btree' = [root |-> Null, node |-> new]
  <2>1. btree' = [btree EXCEPT !.node = new]
    BY <1>5 DEF new
  <2> QED BY <1>1, <2>1
<1>11. Building(new, stack', ret', span, 1)
  BY <1>1, <1>5, <1>9
<1>12. BtreeInv(span)'
  BY <1>1, <1>7, <1>8, <1>10, <1>11, ReturnsAt
<1> QED BY <1>7, <1>12

LEMMA TwoPushed ==
  ASSUME NEW S, NEW u \in Seq(S), NEW c, NEW g
  PROVE  <<c, g>> \o u = <<c>> \o (<<g>> \o u)
<1> DEFINE T == S \cup {c, g}
           a == <<c, g>> \o u
           b == <<g>> \o u
           d == <<c>> \o b
<1>1. u \in Seq(T) /\ Len(u) \in Nat /\ <<c, g>> \in Seq(T) /\ c \in T /\ g \in T
  OBVIOUS
<1>2. b \in Seq(T) /\ Len(b) = Len(u) + 1 /\ b[1] = g /\ \A k \in 1 .. Len(u) : b[k + 1] = u[k]
  <2> HIDE DEF T
  <2> QED BY <1>1, PushPop
<1> HIDE DEF b
<1>3. d \in Seq(T) /\ Len(d) = Len(b) + 1 /\ d[1] = c /\ \A k \in 1 .. Len(b) : d[k + 1] = b[k]
  <2> HIDE DEF T
  <2> QED BY <1>1, <1>2, PushPop
<1>4. /\ a \in Seq(T) /\ Len(a) = 2 + Len(u)
      /\ \A k \in 1 .. 2 + Len(u) : a[k] = IF k <= 2 THEN <<c, g>>[k] ELSE u[k - 2]
  <2>1. Len(<<c, g>>) = 2
    OBVIOUS
  <2> HIDE DEF T
  <2> QED BY <1>1, <2>1, ConcatProperties
<1> HIDE DEF a, d, T
<1>5. ASSUME NEW k \in 1 .. Len(a) PROVE a[k] = d[k]
  <2>1. CASE k = 1
    BY <1>3, <1>4, <1>5, <2>1
  <2>2. CASE k = 2
    <3>1. 1 \in 1 .. Len(b) /\ 1 + 1 = 2
      BY <1>1, <1>2
    <3>2. d[2] = b[1]
      BY <1>3, <3>1
    <3> QED BY <1>2, <1>4, <1>5, <2>2, <3>2
  <2>3. CASE k > 2
    <3>1. k - 1 \in 1 .. Len(b) /\ (k - 1) + 1 = k /\ k - 2 \in 1 .. Len(u) /\ (k - 2) + 1 = k - 1
      BY <1>1, <1>2, <1>4, <2>3
    <3>2. d[k] = b[k - 1] /\ b[k - 1] = u[k - 2]
      BY <1>2, <1>3, <3>1
    <3> QED BY <1>4, <1>5, <2>3, <3>2
  <2> QED BY <1>1, <1>4, <2>1, <2>2, <2>3
<1>6. Len(a) = Len(d)
  BY <1>1, <1>2, <1>3, <1>4
<1>7. a = d
  BY <1>3, <1>4, <1>5, <1>6, SeqEqual
<1> QED BY <1>7 DEF a, b, d

LEMMA SetTwice ==
  ASSUME NEW F, NEW x \in DOMAIN F, NEW a, NEW b
  PROVE  [[F EXCEPT ![x] = a] EXCEPT ![x] = b] = [F EXCEPT ![x] = b]
OBVIOUS

LEMMA ReturnNodeStep ==
  ASSUME MainInv, NEW span \in Spans, BtreeInv(span), ReturnNode
  PROVE  pc' \in {"enter", "return"} /\ \E wide \in Spans : BtreeInv(wide)'
<1> DEFINE f == stack[1]
           tree == btree.node
           p == f.path
           child == ChildFrame(f)
           g == Advanced(f)
           n == tree[Node(p)]
           keys == IF g.i = Len(n.children) THEN n.keys ELSE [n.keys EXCEPT ![g.i] = Separator(child)]
<1>1. /\ key_count \in Nat /\ key_count' = key_count /\ stack # <<>> /\ ret # Null
      /\ btree = [root |-> Null, node |-> tree] /\ live = Base \cup {TreeKeys} \cup DOMAIN tree
      /\ Building(tree, stack, ret, span, 1) /\ live' = live
  BY DEF MainInv, BtreeInv, ReturnNode, BtreeLive
<1>2. /\ Head(stack) = f /\ f \in Frames /\ Open(f, tree, span) /\ span \in Spans
      /\ TreeFits(tree, span)
  <2>1. /\ span \in Spans /\ TreeFits(tree, span) /\ stack \in Seq(Frames) /\ Chain(stack)
        /\ Open(stack[1], tree, span)
    BY <1>1, LoopFrames
  <2> QED BY <1>1, <2>1, ChainPop
<1>3. Node(p) \in DOMAIN tree /\ Len(n.children) = Fanout
  <2>1. Node(p) \in DOMAIN tree /\ InnerOn(n, tree, p, span)
    <3> HIDE DEF f
    <3> QED BY <1>1, <1>2, OpenFrame DEF Open
  <2>2. n.children \in [1 .. Fanout -> {Null} \cup DOMAIN tree]
    BY <2>1 DEF InnerOn
  <2> QED BY <2>1, <2>2, TreeAssumption
<1>4. g.i = f.i + 1
  BY <1>2 DEF Advanced, Frames
<1>5. /\ btree' = [btree EXCEPT !.node[Node(p)].children[g.i] = ret, !.node[Node(p)].keys = keys]
      /\ IF g.i = Len(n.children) THEN pc' = pc /\ stack' = Tail(stack) /\ ret' = Node(p)
         ELSE /\ pc' = "enter" /\ ret' = ret
              /\ stack' = <<ChildFrame(g), g>> \o Tail(stack)
  BY <1>2 DEF ReturnNode, Advanced
<1> DEFINE v == [n EXCEPT !.children[g.i] = ret, !.keys = keys]
           new == [tree EXCEPT ![Node(p)] = v]
<1>6. btree' = [root |-> Null, node |-> new]
  <2> DEFINE x == Node(p)
             k == g.i
             n1 == [n EXCEPT !.children[k] = ret]
             t1 == [tree EXCEPT ![x] = n1]
             b1 == [btree EXCEPT !.node[x].children[k] = ret]
  <2>1. b1 = [root |-> Null, node |-> t1]
    <3>1. btree = [root |-> Null, node |-> tree]
      BY <1>1
    <3>2. n = tree[x]
      OBVIOUS
    <3> HIDE DEF x, k, tree, n
    <3> QED BY <3>1, <3>2
  <2>2. t1[x] = n1 /\ DOMAIN t1 = DOMAIN tree
    <3> HIDE DEF n1
    <3> QED BY <1>3
  <2>3. [t1 EXCEPT ![x].keys = keys] = [t1 EXCEPT ![x] = v]
    <3>1. v = [n1 EXCEPT !.keys = keys]
      OBVIOUS
    <3> HIDE DEF v, n1, t1, x, keys
    <3> QED BY <2>2, <3>1
  <2>4. [t1 EXCEPT ![x] = v] = new
    <3>1. x \in DOMAIN tree
      BY <1>3
    <3>2. new = [tree EXCEPT ![x] = v]
      OBVIOUS
    <3> HIDE DEF v, n1, x, tree, new
    <3> QED BY <3>1, <3>2, SetTwice
  <2>5. btree' = [b1 EXCEPT !.node[x].keys = keys]
    BY <1>5
  <2>6. [b1 EXCEPT !.node[x].keys = keys] = [root |-> Null, node |-> [t1 EXCEPT ![x].keys = keys]]
    <3> HIDE DEF b1, t1, x, keys
    <3> QED BY <2>1
  <2> HIDE DEF b1, t1, new
  <2> QED BY <2>3, <2>4, <2>5, <2>6
<1>7. v = Filled(n, f.i + 1, ret, child)
  BY <1>4 DEF Filled
<1>8. DOMAIN new = DOMAIN tree /\ (\A x \in DOMAIN tree : x # Node(p) => new[x] = tree[x]) /\ new[Node(p)] = v
  <2> HIDE DEF v
  <2> QED BY <1>3
<1> HIDE DEF new
<1>9. live' = Base \cup {TreeKeys} \cup DOMAIN new
  BY <1>1, <1>8
<1>10. new[Node(p)] = Filled(tree[Node(p)], f.i + 1, ret, ChildFrame(f))
  BY <1>7, <1>8
<1> HIDE DEF v, keys
<1>11. stack \in Seq(Frames) /\ Tail(stack) \in Seq(Frames) /\ f.i + 1 \in Nat
  <2>1. stack \in Seq(Frames) /\ Chain(stack)
    BY <1>1 DEF Building
  <2> QED BY <1>1, <1>2, <2>1, ChainPop DEF Frames
<1>12. g \in Frames
  <2>1. child \in Frames
    <3> HIDE DEF f
    <3> QED BY <1>1, <1>2, OpenFrame
  <2>2. child.hi \in Nat
    BY <2>1 DEF Frames
  <2> HIDE DEF f
  <2> QED BY <1>2, <1>11, <2>2 DEF Advanced, Frames
<1>13. CASE g.i = Len(n.children)
  <2>1. f.i + 1 = Fanout
    BY <1>3, <1>4, <1>13
  <2>2. Building(new, Tail(stack), Node(p), span, 1)
    <3> HIDE DEF tree
    <3> QED BY <1>1, <1>8, <1>10, <2>1, ReturnsNode
  <2>3. pc' = "return" /\ stack' = Tail(stack) /\ ret' = Node(p)
    BY <1>5, <1>13 DEF ReturnNode
  <2>4. Building(new, stack', ret', span, 1)
    BY <2>2, <2>3
  <2>5. BtreeInv(span)'
    BY <1>1, <1>6, <1>9, <2>3, <2>4, ReturnsAt
  <2> QED BY <2>3, <2>5
<1>14. CASE g.i # Len(n.children)
  <2>1. f.i + 1 # Fanout
    BY <1>3, <1>4, <1>14
  <2> DEFINE st == <<g>> \o Tail(stack)
             c == ChildFrame(g)
  <2>2. Building(new, st, Null, span, 1)
    <3> HIDE DEF tree
    <3> QED BY <1>1, <1>8, <1>10, <2>1, ReturnsChild
  <2>3. st[1] = g /\ st # <<>> /\ <<c, g>> \o Tail(stack) = <<c>> \o st
    <3> DEFINE u == Tail(stack)
    <3>1. u \in Seq(Frames) /\ g \in Frames
      BY <1>11, <1>12
    <3> HIDE DEF u, g
    <3>2. (<<g>> \o u)[1] = g /\ Len(<<g>> \o u) = Len(u) + 1 /\ Len(u) \in Nat
      BY <3>1, PushPop
    <3>3. <<g>> \o u # <<>>
      <4>1. Len(<<>>) = 0
        OBVIOUS
      <4> QED BY <3>2, <4>1
    <3>4. <<c, g>> \o u = <<c>> \o (<<g>> \o u)
      BY <3>1, TwoPushed
    <3> QED BY <3>2, <3>3, <3>4 DEF u
  <2>4. c \in Frames
    <3>1. /\ Open(st[1], new, span) /\ st[1] \in Frames /\ TreeFits(new, span)
      <4> HIDE DEF st
      <4> QED BY <2>2, <2>3, LoopFrames
    <3>2. Open(g, new, span)
      BY <2>3, <3>1
    <3> HIDE DEF g
    <3> QED BY <1>1, <1>2, <1>12, <3>1, <3>2, OpenFrame
  <2>5. PICK wide \in Spans : /\ wide[c.path] = [lo |-> c.lo, hi |-> c.hi]
                              /\ \A q \in Paths : q # c.path => wide[q] = span[q]
    <3> HIDE DEF c
    <3> QED BY <2>4, Widened
  <2>6. /\ Building(new, <<c>> \o st, Null, wide, 2) /\ Fresh((<<c>> \o st)[1], new, wide)
        /\ <<c>> \o st # <<>>
    <3>1. c = ChildFrame(st[1])
      BY <2>3
    <3> HIDE DEF c, st
    <3> QED BY <1>1, <2>2, <2>3, <2>5, <3>1, CallNext
  <2>7. pc' = "enter" /\ stack' = <<c>> \o st
    BY <1>5, <1>14, <2>3
  <2>8. Building(new, stack', Null, wide, 2) /\ Fresh(stack'[1], new, wide) /\ stack' # <<>>
    BY <2>6, <2>7
  <2>9. BtreeInv(wide)'
    BY <1>1, <1>6, <1>9, <2>7, <2>8, EntersAt
  <2> QED BY <2>7, <2>9
<1> QED BY <1>13, <1>14

LEMMA BtreeRootStep ==
  ASSUME MainInv, NEW span \in Spans, BtreeInv(span), BtreeRoot, UNCHANGED <<modes, mi>>
  PROVE  /\ pc' = "lookups" \/ (pc' = "fail_modes" /\ live' = Base)
         /\ BtreeInv(span)'
<1> DEFINE tree == btree.node
<1>1. /\ key_count \in Nat /\ key_count' = key_count /\ stack = <<>> /\ ret' = Null /\ stack' = <<>>
      /\ btree = [root |-> Null, node |-> tree] /\ live = Base \cup {TreeKeys} \cup DOMAIN tree
      /\ Building(tree, <<>>, ret, span, 1) /\ modes[mi + 1] = "btree16"
  BY DEF MainInv, BtreeInv, BtreeRoot, BtreeLive, BtreePcs
<1>2. CASE ret = Null
  <2>1. DOMAIN tree = {}
    <3> HIDE DEF tree
    <3> QED BY <1>1, <1>2, NothingBuilt
  <2>2. live = Base \cup {TreeKeys} /\ TreeKeys \notin Base /\ TreeKeys # Null
    BY <1>1, <2>1, NodeNames
  <2>3. Once(<<TreeKeys>>, {TreeKeys}) /\ \A x : In(x, <<TreeKeys>>) <=> x = TreeKeys
    <3>1. <<>> \in Seq({TreeKeys}) /\ TreeKeys \in {TreeKeys}
      OBVIOUS
    <3> QED BY <3>1, InHere
  <2>4. Free(<<TreeKeys>>, "fail_modes")
    BY <1>2 DEF BtreeRoot
  <2>5. \A x : In(x, <<TreeKeys>>) => x \in live /\ x # Null
    BY <2>2, <2>3
  <2>6. pc' = "fail_modes" /\ live' = {x \in live : ~In(x, <<TreeKeys>>)}
    BY <2>3, <2>4, <2>5, FreeIs
  <2>7. live' = Base
    BY <2>2, <2>3, <2>6
  <2> QED BY <2>6, <2>7 DEF BtreeInv, BstPcs
<1>3. CASE ret # Null
  <2>1. btree' = [btree EXCEPT !.root = ret] /\ pc' = "lookups" /\ live' = live
    BY <1>3 DEF BtreeRoot
  <2>2. ret = Node(<<>>)
    <3>1. Returned(tree, <<>>, ret, span)
      BY <1>1 DEF Building
    <3> QED BY <1>3, <3>1 DEF Returned
  <2>3. btree' = [root |-> Node(<<>>), node |-> tree]
    <3> HIDE DEF tree
    <3> QED BY <1>1, <2>1, <2>2
  <2>4. btree'.node = tree
    BY <2>3
  <2>5. Building(btree.node, <<>>, Node(<<>>), span, 1)'
    BY <1>1, <2>2, <2>4, Primed
  <2>6. BtreeLive'
    BY <1>1, <2>1, <2>4 DEF BtreeLive, Base, TreeKeys, Items, Keys, Queries
  <2>7. modes'[mi' + 1] = "btree16" /\ ret' = Null /\ stack' = <<>>
    BY <1>1
  <2> HIDE DEF tree
  <2> QED BY <2>1, <2>3, <2>4, <2>5, <2>6, <2>7 DEF BtreeInv, BstPcs
<1> QED BY <1>2, <1>3

(* A step of the trees leaves the driver where it is. *)
LEMMA MainStays ==
  ASSUME MainInv, UNCHANGED <<key_count, todo, modes, lookup_count, reps, queries, mi, rep, out, status>>,
         \/ pc \in BstPcs /\ pc' \in BstPcs \cup {"lookups", "fail_modes"}
         \/ pc \in BtreePcs /\ pc' \in BtreePcs \cup {"lookups", "fail_modes"},
         pc' \in {"bst_init", "btree_init", "fail_modes"} => live' = Base
  PROVE  MainInv'
<1>1. pc \in TreePcs /\ pc # "lookups" /\ pc' \in TreePcs \cup {"fail_modes"}
  BY DEF TreePcs, BstPcs, BtreePcs
<1>2. pc \in Started /\ pc' \in Started /\ pc' \in Pcs /\ pc \notin {"arguments", "make_queries", "exit"}
      /\ pc' \notin {"arguments", "make_queries", "fail", "exit", "modes"}
  BY <1>1 DEF Started, Pcs, TreePcs, BstPcs, BtreePcs
<1>3. /\ rep = 0 /\ mi < Len(modes) /\ status # 0
      /\ pc' \in BstPcs => modes[mi + 1] = "bst"
      /\ pc' \in BtreePcs => modes[mi + 1] = "btree16"
  BY <1>1, <1>2 DEF MainInv, BstPcs, BtreePcs
<1>4. /\ queries \in [0 .. lookup_count - 1 -> {Key(k) : k \in Index}] /\ modes # <<>> /\ key_count > 0
      /\ queries' = queries /\ Index' = Index
  BY <1>2 DEF MainInv, Index
<1>5. Checksum(queries)' = Checksum(queries)
  OBVIOUS
<1>6. pc' \in {"modes", "fail_modes", "bst_init", "btree_init"} => live' = Base'
  BY <1>2 DEF Base, Items, Keys, Queries
<1>7. pc' \in Started => queries' \in [0 .. lookup_count' - 1 -> {Key(k) : k \in Index'}]
  BY <1>4
<1>8. pc' \in TreePcs => mi' < Len(modes')
  BY <1>3
<1>9. /\ pc' \in BstPcs => modes'[mi' + 1] = "bst"
      /\ pc' \in BtreePcs => modes'[mi' + 1] = "btree16"
  BY <1>3
<1>10. out' = [l \in 1 .. mi' * reps' + rep' |->
              <<(l - 1) \div reps', (l - 1) % reps', Checksum(queries)'>>]
  BY <1>5 DEF MainInv
<1> QED BY <1>2, <1>3, <1>4, <1>6, <1>7, <1>8, <1>9, <1>10 DEF MainInv

LEMMA MidIs ==
  ASSUME NEW lo \in Nat, NEW hi \in Nat, lo < hi
  PROVE  Mid(lo, hi) \in Nat /\ lo <= Mid(lo, hi) /\ Mid(lo, hi) < hi
<1>1. \A n \in Nat : n > 0 => n \div 2 \in Nat /\ n \div 2 < n
  OBVIOUS
<1>2. hi - lo \in Nat /\ hi - lo > 0
  OBVIOUS
<1>3. (hi - lo) \div 2 \in Nat /\ (hi - lo) \div 2 < hi - lo
  BY <1>1, <1>2
<1> QED BY <1>3 DEF Mid

(* The two halves of a range under the middle of it. *)
Halves(g, nodes, node, lo, hi) ==
  IF lo >= hi THEN <<>>
  ELSE With(Joint(g[<<lo, Mid(lo, hi)>>], g[<<Mid(lo, hi) + 1, hi>>]), nodes[Mid(lo, hi)],
            [node[nodes[Mid(lo, hi)]] EXCEPT !.left = Top(nodes, lo, Mid(lo, hi)),
                                             !.right = Top(nodes, Mid(lo, hi) + 1, hi)])
Ranges == (0 .. key_count) \X (0 .. key_count)

LEMMA HalvesSame ==
  ASSUME NEW g, NEW h, NEW nodes, NEW node, NEW lo \in Nat, NEW hi \in Nat,
         lo < hi => g[<<lo, Mid(lo, hi)>>] = h[<<lo, Mid(lo, hi)>>],
         lo < hi => g[<<Mid(lo, hi) + 1, hi>>] = h[<<Mid(lo, hi) + 1, hi>>]
  PROVE  Halves(g, nodes, node, lo, hi) = Halves(h, nodes, node, lo, hi)
BY DEF Halves

(* The recursion ends: each range is longer than its halves. *)
LEMMA BuildExists ==
  ASSUME key_count \in Nat
  PROVE  \E g : g = [r \in Ranges |-> Halves(g, bst.nodes, bst.node, r[1], r[2])]
<1> DEFINE nodes == bst.nodes
           node == bst.node
<1> HIDE DEF nodes, node
<1> DEFINE Up(d, g) == \A r \in Ranges : r[2] - r[1] <= d => g[r] = Halves(g, nodes, node, r[1], r[2])
           T == {d \in Nat : ~\E g : Up(d, g)}
<1>1. ASSUME NEW r \in Ranges
      PROVE  /\ r[1] \in Nat /\ r[2] \in Nat /\ r[2] <= key_count /\ r = <<r[1], r[2]>>
             /\ r[1] < r[2] =>
                  /\ <<r[1], Mid(r[1], r[2])>> \in Ranges /\ Mid(r[1], r[2]) - r[1] < r[2] - r[1]
                  /\ <<Mid(r[1], r[2]) + 1, r[2]>> \in Ranges /\ r[2] - (Mid(r[1], r[2]) + 1) < r[2] - r[1]
  <2>1. /\ r[1] \in Nat /\ r[2] \in Nat /\ r[2] <= key_count /\ r[1] <= key_count /\ r = <<r[1], r[2]>>
    BY DEF Ranges
  <2> DEFINE m == Mid(r[1], r[2])
  <2>2. r[1] < r[2] => m \in Nat /\ r[1] <= m /\ m < r[2]
    BY <2>1, MidIs
  <2> HIDE DEF m
  <2>3. ASSUME r[1] < r[2]
        PROVE /\ <<r[1], m>> \in Ranges /\ m - r[1] < r[2] - r[1]
              /\ <<m + 1, r[2]>> \in Ranges /\ r[2] - (m + 1) < r[2] - r[1]
    <3>1. m \in 0 .. key_count /\ m + 1 \in 0 .. key_count /\ r[1] \in 0 .. key_count /\ r[2] \in 0 .. key_count
      BY <2>1, <2>2, <2>3
    <3>2. m - r[1] < r[2] - r[1] /\ r[2] - (m + 1) < r[2] - r[1]
      BY <2>1, <2>2, <2>3
    <3> QED BY <3>1, <3>2 DEF Ranges
  <2> QED BY <2>1, <2>3 DEF m
<1>2. ASSUME NEW g, NEW h, NEW r \in Ranges, \A c \in Ranges : c[2] - c[1] < r[2] - r[1] => g[c] = h[c]
      PROVE  Halves(g, nodes, node, r[1], r[2]) = Halves(h, nodes, node, r[1], r[2])
  <2> DEFINE m == Mid(r[1], r[2])
             a == <<r[1], m>>
             b == <<m + 1, r[2]>>
  <2>1. r[1] < r[2] => a \in Ranges /\ a[2] - a[1] < r[2] - r[1]
    BY <1>1
  <2>2. r[1] < r[2] => b \in Ranges /\ b[2] - b[1] < r[2] - r[1]
    BY <1>1
  <2>3. r[1] < r[2] => g[a] = h[a] /\ g[b] = h[b]
    <3> HIDE DEF a, b
    <3> QED BY <1>2, <2>1, <2>2
  <2> DEFINE lo == r[1]
             hi == r[2]
  <2>4. lo \in Nat /\ hi \in Nat
    BY <1>1
  <2>5. lo < hi => g[<<lo, Mid(lo, hi)>>] = h[<<lo, Mid(lo, hi)>>]
    BY <2>3
  <2>6. lo < hi => g[<<Mid(lo, hi) + 1, hi>>] = h[<<Mid(lo, hi) + 1, hi>>]
    BY <2>3
  <2>7. Halves(g, nodes, node, lo, hi) = Halves(h, nodes, node, lo, hi)
    <3> HIDE DEF lo, hi
    <3> QED BY <2>4, <2>5, <2>6, HalvesSame
  <2> QED BY <2>7
<1>3. ASSUME T # {} PROVE FALSE
  <2>1. PICK d \in T : \A y \in T : d <= y
    <3>1. T \in SUBSET Nat
      OBVIOUS
    <3> HIDE DEF T
    <3> QED BY <1>3, <3>1, LeastNumber
  <2>2. d \in Nat
    OBVIOUS
  <2>3. ASSUME NEW g, \A r \in Ranges : r[2] - r[1] < d => g[r] = Halves(g, nodes, node, r[1], r[2])
        PROVE  FALSE
    <3> DEFINE h == [r \in Ranges |-> Halves(g, nodes, node, r[1], r[2])]
    <3>1. ASSUME NEW r \in Ranges, r[2] - r[1] <= d PROVE h[r] = Halves(h, nodes, node, r[1], r[2])
      <4>1. ASSUME NEW c \in Ranges, c[2] - c[1] < r[2] - r[1] PROVE g[c] = h[c]
        <5>1. c[2] - c[1] < d
          <6>1. c[1] \in Nat /\ c[2] \in Nat /\ r[1] \in Nat /\ r[2] \in Nat
            BY <1>1
          <6> QED BY <2>2, <3>1, <4>1, <6>1
        <5> QED BY <2>3, <5>1
      <4>2. Halves(g, nodes, node, r[1], r[2]) = Halves(h, nodes, node, r[1], r[2])
        <5> HIDE DEF h
        <5> QED BY <1>2, <4>1
      <4> QED BY <4>2
    <3> HIDE DEF h
    <3>2. d \notin T
      BY <2>2, <3>1
    <3> QED BY <3>2
  <2>4. CASE d = 0
    <3> DEFINE g == [r \in Ranges |-> <<>>]
    <3>1. ASSUME NEW r \in Ranges, r[2] - r[1] < d PROVE g[r] = Halves(g, nodes, node, r[1], r[2])
      <4>1. r[1] >= r[2]
        <5>1. r[1] \in Nat /\ r[2] \in Nat
          BY <1>1
        <5> QED BY <2>4, <3>1, <5>1
      <4> QED BY <4>1 DEF Halves
    <3> HIDE DEF T, g
    <3> QED BY <2>3, <3>1
  <2>5. CASE d # 0
    <3>1. d - 1 \in Nat /\ d - 1 \notin T
      <4> HIDE DEF T
      <4> QED BY <2>1, <2>2, <2>5
    <3>2. PICK g : Up(d - 1, g)
      BY <3>1
    <3>3. ASSUME NEW r \in Ranges PROVE r[2] - r[1] < d => r[2] - r[1] <= d - 1
      <4>1. r[1] \in Nat /\ r[2] \in Nat
        BY <1>1
      <4> QED BY <2>2, <4>1
    <3> HIDE DEF T
    <3> QED BY <2>3, <3>2, <3>3
  <2> QED BY <2>4, <2>5
<1>4. PICK h : Up(key_count, h)
  BY <1>3
<1> DEFINE g == [r \in Ranges |-> h[r]]
<1>5. ASSUME NEW r \in Ranges PROVE h[r] = Halves(g, nodes, node, r[1], r[2])
  <2>1. r[2] - r[1] <= key_count
    <3>1. r[1] \in Nat /\ r[2] \in Nat /\ r[2] <= key_count
      BY <1>1
    <3> QED BY <3>1
  <2>2. \A c \in Ranges : c[2] - c[1] < r[2] - r[1] => h[c] = g[c]
    OBVIOUS
  <2>3. h[r] = Halves(h, nodes, node, r[1], r[2])
    BY <1>4, <2>1
  <2> HIDE DEF g
  <2> QED BY <1>2, <2>2, <2>3
<1>6. g = [r \in Ranges |-> Halves(g, nodes, node, r[1], r[2])]
  BY <1>5
<1> QED BY <1>6 DEF nodes, node

(* What hangs together in a half hangs together in the whole. *)
LEMMA HangsStill ==
  ASSUME NEW A, NEW C, NEW nodes, NEW L, NEW H, NEW L1, NEW H1, NEW lo \in Nat, NEW hi \in Nat, hi <= key_count,
         key_count \in Nat, L1 \in [lo .. hi - 1 -> 0 .. key_count], H1 \in [lo .. hi - 1 -> 0 .. key_count],
         \A k \in lo .. hi - 1 : L[k] = L1[k] /\ H[k] = H1[k] /\ C[nodes[k]] = A[nodes[k]],
         NEW k \in lo .. hi - 1, lo <= L1[k], L1[k] <= k, k < H1[k], H1[k] <= hi,
         Hangs(A, nodes, L1, H1, k)
  PROVE  Hangs(C, nodes, L, H, k)
<1>1. k \in Nat /\ L1[k] \in Nat /\ H1[k] \in Nat /\ L[k] = L1[k] /\ H[k] = H1[k]
  OBVIOUS
<1>2. ASSUME L1[k] < k PROVE L[Mid(L1[k], k)] = L1[k] /\ H[Mid(L1[k], k)] = k
  <2> DEFINE a == L1[k]
             m == Mid(a, k)
  <2>1. a \in Nat /\ a < k /\ lo <= a
    BY <1>1, <1>2
  <2> HIDE DEF a
  <2>2. m \in Nat /\ a <= m /\ m < k
    BY <1>1, <2>1, MidIs
  <2> HIDE DEF m
  <2>3. m \in lo .. hi - 1
    BY <1>1, <2>1, <2>2
  <2>4. L1[m] = a /\ H1[m] = k
    BY <1>2 DEF Hangs, a, m
  <2>5. L[m] = a /\ H[m] = k
    BY <2>3, <2>4
  <2> QED BY <2>5 DEF a, m
<1>3. ASSUME k + 1 < H1[k] PROVE L[Mid(k + 1, H1[k])] = k + 1 /\ H[Mid(k + 1, H1[k])] = H1[k]
  <2> DEFINE b == H1[k]
             a == k + 1
             m == Mid(a, b)
  <2>1. b \in Nat /\ a \in Nat /\ a < b /\ b <= hi /\ lo <= a
    BY <1>1, <1>3
  <2> HIDE DEF a, b
  <2>2. m \in Nat /\ a <= m /\ m < b
    BY <2>1, MidIs
  <2> HIDE DEF m
  <2>3. m \in lo .. hi - 1
    BY <2>1, <2>2
  <2>4. L1[m] = a /\ H1[m] = b
    BY <1>3 DEF Hangs, a, b, m
  <2>5. L[m] = a /\ H[m] = b
    BY <2>3, <2>4
  <2> QED BY <2>5 DEF a, b, m
<1>4. k = Mid(L[k], H[k]) /\ C[nodes[k]] = [key |-> Key(k), left |-> Top(nodes, L[k], k), right |-> Top(nodes, k + 1, H[k])]
  BY <1>1 DEF Hangs
<1> QED BY <1>1, <1>2, <1>3, <1>4 DEF Hangs

Built(T, nodes, lo, hi) == DOMAIN T = {nodes[k] : k \in lo .. hi - 1} /\ Linked(T, nodes, lo, hi)

(* A range is linked when its halves are and the middle points to theirs. *)
LEMMA LinkStep ==
  ASSUME key_count \in Nat, NEW nodes, \A j, k \in Index : nodes[j] = nodes[k] => j = k,
         NEW lo \in Nat, NEW hi \in Nat, lo < hi, hi <= key_count, NEW m, m = Mid(lo, hi),
         NEW A, Built(A, nodes, lo, m), NEW B, Built(B, nodes, m + 1, hi),
         NEW C, C[nodes[m]] = [key |-> Key(m), left |-> Top(nodes, lo, m), right |-> Top(nodes, m + 1, hi)],
         \A y \in DOMAIN A : y # nodes[m] => C[y] = A[y],
         \A y \in DOMAIN B : y # nodes[m] /\ y \notin DOMAIN A => C[y] = B[y]
  PROVE  Linked(C, nodes, lo, hi)
<1>1. m \in Nat /\ lo <= m /\ m < hi /\ m + 1 \in Nat
  BY MidIs
<1> DEFINE K == 0 .. key_count
<1>2. PICK L1 \in [lo .. m - 1 -> K], H1 \in [lo .. m - 1 -> K] :
        /\ \A k \in lo .. m - 1 : lo <= L1[k] /\ L1[k] <= k /\ k < H1[k] /\ H1[k] <= m /\ Hangs(A, nodes, L1, H1, k)
        /\ lo < m => L1[Mid(lo, m)] = lo /\ H1[Mid(lo, m)] = m
  BY DEF Linked, Built
<1>3. PICK L2 \in [m + 1 .. hi - 1 -> K], H2 \in [m + 1 .. hi - 1 -> K] :
        /\ \A k \in m + 1 .. hi - 1 :
             m + 1 <= L2[k] /\ L2[k] <= k /\ k < H2[k] /\ H2[k] <= hi /\ Hangs(B, nodes, L2, H2, k)
        /\ m + 1 < hi => L2[Mid(m + 1, hi)] = m + 1 /\ H2[Mid(m + 1, hi)] = hi
  BY DEF Linked, Built
<1> DEFINE L == [k \in lo .. hi - 1 |-> IF k < m THEN L1[k] ELSE IF k = m THEN lo ELSE L2[k]]
           H == [k \in lo .. hi - 1 |-> IF k < m THEN H1[k] ELSE IF k = m THEN hi ELSE H2[k]]
<1>4. L \in [lo .. hi - 1 -> K] /\ H \in [lo .. hi - 1 -> K]
  <2>1. lo \in K /\ hi \in K
    OBVIOUS
  <2>2. ASSUME NEW k \in lo .. hi - 1 PROVE L[k] \in K /\ H[k] \in K
    <3>1. CASE k < m
      <4>1. k \in lo .. m - 1
        BY <1>1, <3>1
      <4>2. L1[k] \in K /\ H1[k] \in K
        BY <4>1
      <4> HIDE DEF K
      <4> QED BY <3>1, <4>2
    <3>2. CASE k = m
      <4> HIDE DEF K
      <4> QED BY <1>1, <2>1, <3>2
    <3>3. CASE k > m
      <4>1. k \in m + 1 .. hi - 1 /\ ~(k < m) /\ k # m
        BY <1>1, <3>3
      <4>2. L2[k] \in K /\ H2[k] \in K
        BY <4>1
      <4> HIDE DEF K
      <4> QED BY <4>1, <4>2
    <3> QED BY <1>1, <3>1, <3>2, <3>3
  <2> QED BY <2>2
<1>5. \A k \in lo .. m - 1 : L[k] = L1[k] /\ H[k] = H1[k]
  BY <1>1
<1>6. \A k \in m + 1 .. hi - 1 : L[k] = L2[k] /\ H[k] = H2[k]
  <2>1. \A k \in m + 1 .. hi - 1 : k \in lo .. hi - 1 /\ ~(k < m) /\ k # m
    BY <1>1
  <2> QED BY <2>1
<1>7. L[m] = lo /\ H[m] = hi
  BY <1>1
<1> HIDE DEF L, H
<1>8. \A k \in lo .. hi - 1 : k \in Index
  BY DEF Index
<1>9. \A k \in lo .. m - 1 : C[nodes[k]] = A[nodes[k]]
  <2>1. ASSUME NEW k \in lo .. m - 1 PROVE C[nodes[k]] = A[nodes[k]]
    <3>1. k # m /\ k \in lo .. hi - 1 /\ m \in lo .. hi - 1 /\ nodes[k] \in DOMAIN A
      BY <1>1 DEF Built
    <3>2. nodes[k] # nodes[m]
      BY <1>8, <3>1
    <3> QED BY <3>1, <3>2
  <2> QED BY <2>1
<1>10. \A k \in m + 1 .. hi - 1 : C[nodes[k]] = B[nodes[k]]
  <2>1. ASSUME NEW k \in m + 1 .. hi - 1 PROVE C[nodes[k]] = B[nodes[k]]
    <3>1. k # m /\ k \in lo .. hi - 1 /\ m \in lo .. hi - 1 /\ nodes[k] \in DOMAIN B
      BY <1>1 DEF Built
    <3>2. nodes[k] # nodes[m]
      BY <1>8, <3>1
    <3>3. nodes[k] \notin DOMAIN A
      <4>1. ASSUME NEW j \in lo .. m - 1, nodes[j] = nodes[k] PROVE FALSE
        <5>1. j \in lo .. hi - 1 /\ j # k
          BY <1>1
        <5> QED BY <1>8, <3>1, <4>1, <5>1
      <4> QED BY <4>1 DEF Built
    <3> QED BY <3>1, <3>2, <3>3
  <2> QED BY <2>1
<1>11. ASSUME NEW k \in lo .. hi - 1
       PROVE  lo <= L[k] /\ L[k] <= k /\ k < H[k] /\ H[k] <= hi /\ Hangs(C, nodes, L, H, k)
  <2>1. CASE k < m
    <3>1. k \in lo .. m - 1 /\ m <= key_count
      BY <1>1, <2>1
    <3>2. Hangs(C, nodes, L, H, k)
      <4>1. /\ lo <= L1[k] /\ L1[k] <= k /\ k < H1[k] /\ H1[k] <= m /\ Hangs(A, nodes, L1, H1, k)
            /\ \A j \in lo .. m - 1 : L[j] = L1[j] /\ H[j] = H1[j] /\ C[nodes[j]] = A[nodes[j]]
        BY <1>2, <1>5, <1>9, <3>1
      <4> QED BY <1>1, <1>2, <3>1, <4>1, HangsStill
    <3>3. L1[k] \in Nat /\ H1[k] \in Nat
      BY <3>1
    <3> QED BY <1>1, <1>2, <1>5, <3>1, <3>2, <3>3
  <2>2. CASE k = m
    <3>1. lo < m => L[Mid(lo, m)] = lo /\ H[Mid(lo, m)] = m
      <4>1. ASSUME lo < m PROVE Mid(lo, m) \in lo .. m - 1
        <5>1. Mid(lo, m) \in Nat /\ lo <= Mid(lo, m) /\ Mid(lo, m) < m
          BY <1>1, <4>1, MidIs
        <5> QED BY <1>1, <5>1
      <4> QED BY <1>2, <1>5, <4>1
    <3>2. m + 1 < hi => L[Mid(m + 1, hi)] = m + 1 /\ H[Mid(m + 1, hi)] = hi
      <4>1. ASSUME m + 1 < hi PROVE Mid(m + 1, hi) \in m + 1 .. hi - 1
        <5>1. Mid(m + 1, hi) \in Nat /\ m + 1 <= Mid(m + 1, hi) /\ Mid(m + 1, hi) < hi
          BY <1>1, <4>1, MidIs
        <5> QED BY <1>1, <5>1
      <4> QED BY <1>3, <1>6, <4>1
    <3>3. Hangs(C, nodes, L, H, m)
      BY <1>7, <3>1, <3>2 DEF Hangs
    <3> QED BY <1>1, <1>7, <2>2, <3>3
  <2>3. CASE k > m
    <3>1. k \in m + 1 .. hi - 1
      BY <1>1, <2>3
    <3> DEFINE n == m + 1
    <3>2. Hangs(C, nodes, L, H, k)
      <4>1. /\ n <= L2[k] /\ L2[k] <= k /\ k < H2[k] /\ H2[k] <= hi /\ Hangs(B, nodes, L2, H2, k)
            /\ \A j \in n .. hi - 1 : L[j] = L2[j] /\ H[j] = H2[j] /\ C[nodes[j]] = B[nodes[j]]
            /\ n \in Nat /\ k \in n .. hi - 1
            /\ L2 \in [n .. hi - 1 -> 0 .. key_count] /\ H2 \in [n .. hi - 1 -> 0 .. key_count]
        BY <1>1, <1>3, <1>6, <1>10, <3>1
      <4> HIDE DEF n
      <4> QED BY <4>1, HangsStill
    <3>3. L2[k] \in Nat /\ H2[k] \in Nat
      BY <3>1
    <3> QED BY <1>1, <1>3, <1>6, <3>1, <3>2, <3>3
  <2> QED BY <1>1, <2>1, <2>2, <2>3
<1>12. lo < hi => L[Mid(lo, hi)] = lo /\ H[Mid(lo, hi)] = hi
  BY <1>7
<1> QED BY <1>4, <1>11, <1>12 DEF Linked

LEMMA JoinEntries ==
  ASSUME NEW f, NEW g, NEW x, NEW v
  PROVE  /\ With(Joint(f, g), x, v)[x] = v
         /\ \A y \in DOMAIN f : y # x => With(Joint(f, g), x, v)[y] = f[y]
         /\ \A y \in DOMAIN g : y # x /\ y \notin DOMAIN f => With(Joint(f, g), x, v)[y] = g[y]
<1> DEFINE J == Joint(f, g)
<1>1. DOMAIN J = DOMAIN f \cup DOMAIN g
  BY DEF Joint
<1>2. (\A y \in DOMAIN f : J[y] = f[y]) /\ \A y \in DOMAIN g : y \notin DOMAIN f => J[y] = g[y]
  BY DEF Joint
<1> HIDE DEF J
<1>3. With(J, x, v)[x] = v /\ \A y \in DOMAIN J : y # x => With(J, x, v)[y] = J[y]
  BY WithEntry, WithOthers
<1>4. With(J, x, v)[x] = v /\ (\A y \in DOMAIN f : y # x => With(J, x, v)[y] = f[y])
      /\ \A y \in DOMAIN g : y # x /\ y \notin DOMAIN f => With(J, x, v)[y] = g[y]
  BY <1>1, <1>2, <1>3
<1> QED BY <1>4 DEF J

(* The recursion links every range, by the number of its keys. *)
LEMMA BuildLinks ==
  ASSUME key_count \in Nat, NEW nodes, \A j, k \in Index : nodes[j] = nodes[k] => j = k,
         NEW node, \A k \in Index : node[nodes[k]] = [key |-> Key(k), left |-> Null, right |-> Null],
         NEW g, g = [r \in Ranges |-> Halves(g, nodes, node, r[1], r[2])]
  PROVE  \A lo, hi \in 0 .. key_count : Built(g[<<lo, hi>>], nodes, lo, hi)
<1> DEFINE K == 0 .. key_count
           T == {d \in Nat : \E lo, hi \in K : hi - lo = d /\ ~Built(g[<<lo, hi>>], nodes, lo, hi)}
<1>1. \A lo, hi \in K : g[<<lo, hi>>] = Halves(g, nodes, node, lo, hi)
  <2>1. ASSUME NEW lo \in K, NEW hi \in K PROVE g[<<lo, hi>>] = Halves(g, nodes, node, lo, hi)
    <3>1. <<lo, hi>> \in Ranges /\ <<lo, hi>>[1] = lo /\ <<lo, hi>>[2] = hi
      BY DEF Ranges
    <3> QED BY <3>1
  <2> QED BY <2>1
<1>2. ASSUME NEW lo \in K, NEW hi \in K, lo >= hi PROVE Built(g[<<lo, hi>>], nodes, lo, hi)
  <2>1. g[<<lo, hi>>] = <<>>
    BY <1>1, <1>2 DEF Halves
  <2>2. lo .. hi - 1 = {} /\ ~(lo < hi)
    BY <1>2
  <2>3. DOMAIN <<>> = {nodes[k] : k \in lo .. hi - 1}
    BY <2>2
  <2>4. [k \in {} |-> 0] \in [lo .. hi - 1 -> 0 .. key_count]
    BY <2>2
  <2>5. Linked(<<>>, nodes, lo, hi)
    BY <2>2, <2>4 DEF Linked
  <2> QED BY <2>1, <2>3, <2>5 DEF Built
<1>3. ASSUME NEW lo \in K, NEW hi \in K, lo < hi,
             \A a, b \in K : b - a < hi - lo => Built(g[<<a, b>>], nodes, a, b)
      PROVE  Built(g[<<lo, hi>>], nodes, lo, hi)
  <2> DEFINE m == Mid(lo, hi)
             A == g[<<lo, m>>]
             B == g[<<m + 1, hi>>]
             C == g[<<lo, hi>>]
             v == [node[nodes[m]] EXCEPT !.left = Top(nodes, lo, m), !.right = Top(nodes, m + 1, hi)]
  <2>1. lo \in Nat /\ hi \in Nat /\ hi <= key_count
    OBVIOUS
  <2>2. m \in Nat /\ lo <= m /\ m < hi
    BY <1>3, <2>1, MidIs
  <2>3. C = With(Joint(A, B), nodes[m], v)
    <3>1. ~(lo >= hi) /\ C = Halves(g, nodes, node, lo, hi)
      BY <1>1, <1>3
    <3>2. Halves(g, nodes, node, lo, hi) = With(Joint(A, B), nodes[m], v)
      BY <3>1 DEF Halves
    <3> QED BY <3>1, <3>2
  <2>4. m \in Index
    BY <2>1, <2>2 DEF Index
  <2>5. v = [key |-> Key(m), left |-> Top(nodes, lo, m), right |-> Top(nodes, m + 1, hi)]
    <3>1. node[nodes[m]] = [key |-> Key(m), left |-> Null, right |-> Null]
      BY <2>4
    <3> DEFINE w == node[nodes[m]]
               a == Top(nodes, lo, m)
               b == Top(nodes, m + 1, hi)
    <3>2. v = [w EXCEPT !.left = a, !.right = b] /\ w = [key |-> Key(m), left |-> Null, right |-> Null]
      BY <3>1
    <3> HIDE DEF w, a, b, v, m
    <3>3. v = [key |-> Key(m), left |-> a, right |-> b]
      BY <3>2
    <3> QED BY <3>3 DEF a, b
  <2> HIDE DEF m, v
  <2>6. Built(A, nodes, lo, m) /\ Built(B, nodes, m + 1, hi)
    <3>1. m \in K /\ m + 1 \in K /\ m - lo < hi - lo /\ hi - (m + 1) < hi - lo
      BY <2>1, <2>2
    <3> QED BY <1>3, <3>1
  <2> HIDE DEF A, B
  <2>7. /\ C[nodes[m]] = v
        /\ \A y \in DOMAIN A : y # nodes[m] => C[y] = A[y]
        /\ \A y \in DOMAIN B : y # nodes[m] /\ y \notin DOMAIN A => C[y] = B[y]
    BY <2>3, JoinEntries
  <2>8. DOMAIN C = {nodes[k] : k \in lo .. m - 1} \cup {nodes[k] : k \in m + 1 .. hi - 1} \cup {nodes[m]}
    <3>1. DOMAIN C = DOMAIN A \cup DOMAIN B \cup {nodes[m]}
      <4>1. DOMAIN With(Joint(A, B), nodes[m], v) = DOMAIN A \cup DOMAIN B \cup {nodes[m]}
        BY DEF With, Joint
      <4> HIDE DEF C
      <4> QED BY <2>3, <4>1
    <3> HIDE DEF C
    <3> QED BY <2>6, <3>1 DEF Built
  <2>9. DOMAIN C = {nodes[k] : k \in lo .. hi - 1}
    <3>1. \A k : k \in lo .. hi - 1 <=> k \in lo .. m - 1 \/ k \in m + 1 .. hi - 1 \/ k = m
      BY <2>1, <2>2
    <3> QED BY <2>8, <3>1
  <2> HIDE DEF C
  <2>10. Linked(C, nodes, lo, hi)
    <3>1. m = Mid(lo, hi)
      BY DEF m
    <3>3. C[nodes[m]] = [key |-> Key(m), left |-> Top(nodes, lo, m), right |-> Top(nodes, m + 1, hi)]
      BY <2>5, <2>7
    <3> QED BY <1>3, <2>1, <2>6, <2>7, <3>1, <3>3, LinkStep
  <2>11. Built(C, nodes, lo, hi)
    BY <2>9, <2>10 DEF Built
  <2> QED BY <2>11 DEF C
<1>4. T \in SUBSET Nat
  OBVIOUS
<1>5. \A lo, hi \in K : hi - lo \in Nat /\ ~Built(g[<<lo, hi>>], nodes, lo, hi) => hi - lo \in T
  OBVIOUS
<1>6. \A d \in T : \E lo, hi \in K : hi - lo = d /\ ~Built(g[<<lo, hi>>], nodes, lo, hi)
  OBVIOUS
<1> HIDE DEF T
<1>7. T = {}
  <2> SUFFICES ASSUME T # {} PROVE FALSE
    OBVIOUS
  <2>1. PICK d \in T : \A e \in T : d <= e
    BY <1>4, LeastNumber
  <2>2. PICK lo \in K, hi \in K : hi - lo = d /\ ~Built(g[<<lo, hi>>], nodes, lo, hi)
    BY <1>6
  <2>3. lo < hi
    BY <1>2, <2>2
  <2>4. ASSUME NEW a \in K, NEW b \in K, b - a < hi - lo PROVE Built(g[<<a, b>>], nodes, a, b)
    <3>1. CASE a >= b
      BY <1>2, <3>1
    <3>2. CASE a < b
      <4>1. b - a \in Nat /\ ~(d <= b - a)
        BY <2>2, <2>4, <3>2
      <4>2. b - a \notin T
        BY <2>1, <4>1
      <4> QED BY <1>5, <4>1, <4>2
    <3> QED BY <3>1, <3>2
  <2> QED BY <1>3, <2>2, <2>3, <2>4
<1>8. ASSUME NEW lo \in K, NEW hi \in K PROVE Built(g[<<lo, hi>>], nodes, lo, hi)
  <2>1. CASE lo >= hi
    BY <1>2, <2>1
  <2>2. CASE lo < hi
    <3>1. hi - lo \in Nat
      BY <2>2
    <3> QED BY <1>5, <1>7, <3>1
  <2> QED BY <2>1, <2>2
<1> QED BY <1>8

(* What build_bst_from_sorted_nodes leaves behind. *)
LEMMA BuildIs ==
  ASSUME key_count \in Nat, \A j, k \in Index : bst.nodes[j] = bst.nodes[k] => j = k,
         \A k \in Index : bst.node[bst.nodes[k]] = [key |-> Key(k), left |-> Null, right |-> Null]
  PROVE  Built(build_bst_from_sorted_nodes, bst.nodes, 0, key_count)
<1> DEFINE nodes == bst.nodes
           node == bst.node
           Step(g) == [r \in Ranges |-> Halves(g, nodes, node, r[1], r[2])]
           build == CHOOSE g : g = Step(g)
<1>1. build = Step(build)
  <2>1. \E g : g = Step(g)
    BY BuildExists
  <2> QED BY <2>1
<1>2. build_bst_from_sorted_nodes = build[<<0, key_count>>]
  BY DEF build_bst_from_sorted_nodes, Halves, Ranges, Mid, Top, BstTop
<1> HIDE DEF build
<1>3. \A lo, hi \in 0 .. key_count : Built(build[<<lo, hi>>], nodes, lo, hi)
  <2> DEFINE g == build
  <2>1. g = [r \in Ranges |-> Halves(g, nodes, node, r[1], r[2])]
    BY <1>1
  <2> HIDE DEF g, nodes, node
  <2>2. \A j, k \in Index : nodes[j] = nodes[k] => j = k
    BY DEF nodes
  <2>3. \A k \in Index : node[nodes[k]] = [key |-> Key(k), left |-> Null, right |-> Null]
    BY DEF nodes, node
  <2>4. \A lo, hi \in 0 .. key_count : Built(g[<<lo, hi>>], nodes, lo, hi)
    BY <2>1, <2>2, <2>3, BuildLinks
  <2> QED BY <2>4 DEF g
<1>4. 0 \in 0 .. key_count /\ key_count \in 0 .. key_count
  OBVIOUS
<1> QED BY <1>2, <1>3, <1>4

Distinct(s) == \A j, k \in DOMAIN s : s[j] = s[k] /\ s[j] # Null => j = k

LEMMA FreeDistinct ==
  ASSUME NEW s, Distinct(s), Pointed(s) \subseteq live, NEW then, Free(s, then)
  PROVE  pc' = then /\ live' = live \ Pointed(s)
BY DEF Free, Freeable, Distinct

(* What bst_tree_destroy frees: the table, and each node of it once. *)
LEMMA OwnedIs ==
  ASSUME key_count \in Nat, NEW F, bst.nodes \in [Index -> F],
         \A j, k \in Index : bst.nodes[j] = bst.nodes[k] /\ bst.nodes[j] # Null => j = k,
         \A k \in Index : bst.nodes[k] # Table /\ bst.nodes[k] # Perm
  PROVE  /\ Distinct(BstOwned) /\ Distinct(<<Perm>> \o BstOwned)
         /\ \A x : x \in Pointed(BstOwned) <=> x = Table \/ (x # Null /\ \E k \in Index : bst.nodes[k] = x)
         /\ \A x : x \in Pointed(<<Perm>> \o BstOwned) <=> x = Perm \/ x \in Pointed(BstOwned)
<1> DEFINE n == key_count
           nodes == bst.nodes
           a == [k \in 1 .. n |-> nodes[k - 1]]
           s == BstOwned
           t == <<Perm>> \o s
           V == F \cup {Table, Perm}
<1>1. a \in Seq(V) /\ Len(a) = n /\ \A k \in 1 .. n : a[k] = nodes[k - 1] /\ k - 1 \in Index
  <2>1. \A k \in 1 .. n : k - 1 \in Index /\ nodes[k - 1] \in V
    BY DEF Index
  <2>2. a \in [1 .. n -> V]
    BY <2>1
  <2> HIDE DEF a, V
  <2>3. a \in Seq(V) /\ Len(a) = n
    BY <2>2
  <2> QED BY <2>1, <2>3 DEF a
<1>2. s = a \o <<Table>>
  BY DEF BstOwned
<1> HIDE DEF a
<1>3. /\ s \in Seq(V) /\ Len(s) = n + 1 /\ s[n + 1] = Table
      /\ \A k \in 1 .. n : s[k] = nodes[k - 1]
  <2>1. <<Table>> \in Seq(V) /\ Len(<<Table>>) = 1
    OBVIOUS
  <2> HIDE DEF V, s
  <2>2. /\ s \in Seq(V) /\ Len(s) = n + 1
        /\ \A k \in 1 .. n + 1 : s[k] = IF k <= n THEN a[k] ELSE <<Table>>[k - n]
    BY <1>1, <1>2, <2>1, ConcatProperties
  <2>3. n + 1 \in 1 .. n + 1 /\ ~(n + 1 <= n) /\ (n + 1) - n = 1
    OBVIOUS
  <2>4. s[n + 1] = Table
    BY <2>2, <2>3
  <2>5. \A k \in 1 .. n : s[k] = nodes[k - 1]
    BY <1>1, <2>2
  <2> QED BY <2>2, <2>4, <2>5
<1> HIDE DEF s
<1>4. DOMAIN s = 1 .. n + 1
  BY <1>3
<1>5. /\ t \in Seq(V) /\ Len(t) = n + 2 /\ t[1] = Perm
      /\ \A k \in 1 .. n + 1 : t[k + 1] = s[k]
  <2>1. Perm \in V
    OBVIOUS
  <2> HIDE DEF V
  <2> QED BY <1>3, <2>1, PushPop
<1> HIDE DEF t
<1>6. DOMAIN t = 1 .. n + 2
  BY <1>5
<1>7. \A k \in 1 .. n + 1 : k = n + 1 \/ k \in 1 .. n
  OBVIOUS
<1>8. Table # Perm /\ Table # Null /\ Perm # Null
  BY BstNames
<1>9. Distinct(s)
  <2>1. ASSUME NEW j \in 1 .. n + 1, NEW k \in 1 .. n + 1, s[j] = s[k], s[j] # Null PROVE j = k
    <3>1. CASE j \in 1 .. n /\ k \in 1 .. n
      <4>1. j - 1 = k - 1
        BY <1>1, <1>3, <2>1, <3>1
      <4> QED BY <3>1, <4>1
    <3>2. CASE j = n + 1 /\ k \in 1 .. n
      BY <1>1, <1>3, <2>1, <3>2
    <3>3. CASE k = n + 1 /\ j \in 1 .. n
      BY <1>1, <1>3, <2>1, <3>3
    <3> QED BY <1>7, <3>1, <3>2, <3>3
  <2> QED BY <1>4, <2>1 DEF Distinct
<1>10. \A x : x \in Pointed(s) <=> x = Table \/ (x # Null /\ \E k \in Index : nodes[k] = x)
  <2>1. ASSUME NEW x PROVE x \in Pointed(s) <=> x = Table \/ (x # Null /\ \E k \in Index : nodes[k] = x)
    <3>1. x \in Pointed(s) <=> x # Null /\ \E k \in 1 .. n + 1 : s[k] = x
      BY <1>4 DEF Pointed
    <3>2. \A k \in Index : k + 1 \in 1 .. n /\ (k + 1) - 1 = k
      BY DEF Index
    <3>3. n + 1 \in 1 .. n + 1 /\ \A k \in 1 .. n : k \in 1 .. n + 1
      OBVIOUS
    <3>4. \A k \in Index : s[k + 1] = nodes[k] /\ k + 1 \in 1 .. n + 1
      <4>1. ASSUME NEW k \in Index PROVE s[k + 1] = nodes[k] /\ k + 1 \in 1 .. n + 1
        BY <1>3, <3>2, <3>3
      <4> QED BY <4>1
    <3>5. ASSUME NEW k \in 1 .. n + 1, s[k] = x, x # Null PROVE x = Table \/ (\E l \in Index : nodes[l] = x)
      BY <1>1, <1>3, <1>7, <3>5
    <3> QED BY <1>3, <1>8, <3>1, <3>3, <3>4, <3>5
  <2> QED BY <2>1
<1>11. \A k \in 1 .. n + 2 : k = 1 \/ (k - 1 \in 1 .. n + 1 /\ (k - 1) + 1 = k)
  OBVIOUS
<1>12. \A k \in 1 .. n + 1 : s[k] # Perm
  BY <1>1, <1>3, <1>7, <1>8
<1>13. Distinct(t)
  <2>1. ASSUME NEW j \in 1 .. n + 2, NEW k \in 1 .. n + 2, t[j] = t[k], t[j] # Null PROVE j = k
    <3>1. CASE j # 1 /\ k # 1
      <4>1. t[j] = s[j - 1] /\ t[k] = s[k - 1] /\ j - 1 \in 1 .. n + 1 /\ k - 1 \in 1 .. n + 1
        BY <1>5, <1>11, <3>1
      <4>2. j - 1 = k - 1
        BY <1>4, <1>9, <2>1, <4>1 DEF Distinct
      <4> QED BY <4>2
    <3>2. CASE j = 1 /\ k # 1
      <4>1. k - 1 \in 1 .. n + 1 /\ (k - 1) + 1 = k
        BY <1>11, <3>2
      <4>2. t[k] = s[k - 1] /\ s[k - 1] # Perm
        BY <1>5, <1>12, <4>1
      <4> QED BY <1>5, <2>1, <3>2, <4>2
    <3>3. CASE k = 1 /\ j # 1
      <4>1. j - 1 \in 1 .. n + 1 /\ (j - 1) + 1 = j
        BY <1>11, <3>3
      <4>2. t[j] = s[j - 1] /\ s[j - 1] # Perm
        BY <1>5, <1>12, <4>1
      <4> QED BY <1>5, <2>1, <3>3, <4>2
    <3> QED BY <3>1, <3>2, <3>3
  <2> QED BY <1>6, <2>1 DEF Distinct
<1>14. \A x : x \in Pointed(t) <=> x = Perm \/ x \in Pointed(s)
  <2>1. ASSUME NEW x PROVE x \in Pointed(t) <=> x = Perm \/ x \in Pointed(s)
    <3>1. x \in Pointed(t) <=> x # Null /\ \E k \in 1 .. n + 2 : t[k] = x
      BY <1>6 DEF Pointed
    <3>2. x \in Pointed(s) <=> x # Null /\ \E k \in 1 .. n + 1 : s[k] = x
      BY <1>4 DEF Pointed
    <3>3. 1 \in 1 .. n + 2 /\ \A k \in 1 .. n + 1 : k + 1 \in 1 .. n + 2
      OBVIOUS
    <3>4. \A k \in 1 .. n + 2 : k = 1 \/ (t[k] = s[k - 1] /\ k - 1 \in 1 .. n + 1)
      BY <1>5, <1>11
    <3>5. ASSUME x \in Pointed(t) PROVE x = Perm \/ x \in Pointed(s)
      BY <1>5, <3>1, <3>2, <3>4, <3>5
    <3>6. x = Perm => x \in Pointed(t)
      BY <1>5, <1>8, <3>1, <3>3
    <3>7. x \in Pointed(s) => x \in Pointed(t)
      BY <1>5, <3>1, <3>2, <3>3
    <3> QED BY <3>5, <3>6, <3>7
  <2> QED BY <2>1
<1> QED BY <1>9, <1>10, <1>13, <1>14 DEF s, t

(* Where the driver stands while the BST is built. *)
LEMMA BstNodesStep ==
  ASSUME MainInv, BstNodes
  PROVE  /\ (pc' = "bst_perm" \/ (pc' = "fail_modes" /\ live' = Base))
         /\ BstInv'
<1>1. live = Base /\ key_count' = key_count
  BY DEF MainInv, BstNodes
<1>2. CASE pc' = "fail_modes" /\ UNCHANGED <<live, bst>>
  BY <1>1, <1>2 DEF BstInv
<1>3. CASE Allocate(Table, "bst_perm") /\ bst' = [NoBst EXCEPT !.nodes = [k \in Index |-> Null]]
  <2>1. pc' = "bst_perm" /\ live' = Base \cup {Table}
    BY <1>1, <1>3 DEF Allocate
  <2>2. Index' = Index
    BY <1>1 DEF Index
  <2>3. AllNull'
    BY <1>3, <2>2 DEF AllNull
  <2>4. live' = (Base \cup {Table})'
    BY <2>1 DEF Base, Items, Keys, Queries, Table
  <2> QED BY <2>1, <2>3, <2>4 DEF BstInv
<1> QED BY <1>2, <1>3 DEF BstNodes

LEMMA BstPermStep ==
  ASSUME MainInv, BstInv, BstPerm
  PROVE  /\ (pc' = "shuffle" \/ (pc' = "fail_modes" /\ live' = Base))
         /\ BstInv'
<1>1. key_count \in Nat /\ live = Base \cup {Table} /\ AllNull /\ key_count' = key_count /\ Index' = Index
  BY DEF MainInv, BstInv, BstPerm, Index
<1>2. CASE Allocate(Perm, "shuffle") /\ perm' = [k \in Index |-> k] /\ i' = key_count /\ UNCHANGED bst
  <2>1. pc' = "shuffle" /\ live' = Base \cup {Table, Perm}
    BY <1>1, <1>2 DEF Allocate
  <2>2. AllNull'
    BY <1>1, <1>2 DEF AllNull
  <2>3. Permutation(perm')
    BY <1>2 DEF Permutation
  <2>4. Permutation(perm)' /\ i' \in 0 .. key_count'
    BY <1>1, <1>2, <2>3 DEF Permutation
  <2>5. live' = (Base \cup {Table, Perm})'
    BY <2>1 DEF Base, Items, Keys, Queries, Table, Perm
  <2> QED BY <2>1, <2>2, <2>4, <2>5 DEF BstInv
<1>3. CASE Free(BstOwned, "fail_modes") /\ bst' = NoBst
  <2>1. bst.nodes = [k \in Index |-> Null]
    BY <1>1 DEF AllNull, NoBst
  <2>2. Distinct(BstOwned) /\ \A x : x \in Pointed(BstOwned) <=> x = Table
    <3>1. bst.nodes \in [Index -> {Null}] /\ \A k \in Index : bst.nodes[k] = Null
      BY <2>1
    <3>2. Null # Table /\ Null # Perm
      BY BstNames
    <3>3. /\ Distinct(BstOwned)
          /\ \A x : x \in Pointed(BstOwned) <=> x = Table \/ (x # Null /\ \E k \in Index : bst.nodes[k] = x)
      BY <1>1, <3>1, <3>2, OwnedIs
    <3> QED BY <3>1, <3>3
  <2>3. pc' = "fail_modes" /\ live' = live \ Pointed(BstOwned)
    BY <1>1, <1>3, <2>2, FreeDistinct
  <2>4. Table \notin Base
    BY BstNames
  <2>5. live' = Base
    BY <1>1, <2>2, <2>3, <2>4
  <2> QED BY <2>3, <2>5 DEF BstInv
<1> QED BY <1>2, <1>3 DEF BstPerm

(* A swap keeps a permutation one. *)
LEMMA Swapped ==
  ASSUME NEW p, Permutation(p), NEW a \in Index, NEW b \in Index,
         NEW q, q = [p EXCEPT ![a] = p[b], ![b] = p[a]]
  PROVE  Permutation(q)
<1>1. p \in [Index -> Index]
  BY DEF Permutation
<1>2. /\ q \in [Index -> Index] /\ q[a] = p[b] /\ q[b] = p[a]
      /\ \A k \in Index : k # a /\ k # b => q[k] = p[k]
  BY <1>1
<1>3. ASSUME NEW j \in Index, NEW k \in Index, q[j] = q[k] PROVE j = k
  BY <1>2, <1>3 DEF Permutation
<1>4. ASSUME NEW k \in Index PROVE \E j \in Index : q[j] = k
  <2>1. PICK j \in Index : p[j] = k
    BY DEF Permutation
  <2> QED BY <1>2, <2>1
<1> QED BY <1>2, <1>3, <1>4 DEF Permutation

LEMMA ShuffleStep ==
  ASSUME MainInv, BstInv, Shuffle
  PROVE  pc' \in {"shuffle", "bst_node"} /\ BstInv'
<1>1. /\ key_count \in Nat /\ live = Base \cup {Table, Perm} /\ AllNull /\ i \in 0 .. key_count
      /\ Permutation(perm) /\ key_count' = key_count /\ Index' = Index /\ live' = live /\ bst' = bst
      /\ pc = "shuffle"
  BY DEF MainInv, BstInv, Shuffle, Index
<1>2. \A q : Permutation(q)' <=> Permutation(q)
  BY <1>1 DEF Permutation
<1>3. AllNull'
  BY <1>1 DEF AllNull
<1>4. (Base \cup {Table, Perm})' = Base \cup {Table, Perm}
  BY DEF Base, Items, Keys, Queries, Table, Perm
<1>5. ASSUME i > 1, NEW j \in 0 .. i - 1,
             perm' = [perm EXCEPT ![i - 1] = perm[j], ![j] = perm[i - 1]], i' = i - 1, pc' = pc
      PROVE  pc' \in {"shuffle", "bst_node"} /\ BstInv'
  <2>1. i - 1 \in Index /\ j \in Index /\ i' \in 0 .. key_count
    BY <1>1, <1>5 DEF Index
  <2> DEFINE q == perm'
             a == i - 1
  <2>2. Permutation(q)
    <3>1. q = [perm EXCEPT ![a] = perm[j], ![j] = perm[a]] /\ a \in Index
      BY <1>5, <2>1
    <3> HIDE DEF q, a
    <3> QED BY <1>1, <2>1, <3>1, Swapped
  <2>3. Permutation(perm)'
    BY <1>1, <2>2 DEF Permutation
  <2> QED BY <1>1, <1>3, <1>4, <1>5, <2>1, <2>3 DEF BstInv
<1>6. CASE ~(i > 1) /\ i' = 0 /\ pc' = "bst_node" /\ UNCHANGED perm
  <2>1. Permutation(perm)'
    BY <1>1, <1>6 DEF Permutation
  <2>2. bst = [root |-> Null, nodes |-> [k \in Index |-> Null], node |-> <<>>]
    BY <1>1 DEF AllNull, NoBst
  <2>3. Allocated(0, perm)
    <3>1. perm \in [Index -> Index]
      BY <1>1 DEF Permutation
    <3>2. \A j \in Index : bst.nodes[perm[j]] = Null /\ ~(j < 0)
      BY <2>2, <3>1 DEF Index
    <3>3. bst.nodes \in [Index -> BstBlocks \cup {Null}]
      BY <2>2
    <3>4. DOMAIN bst.node = {Bst(j) : j \in 0 .. 0 - 1}
      <4>1. 0 .. 0 - 1 = {} /\ DOMAIN <<>> = {}
        OBVIOUS
      <4> QED BY <2>2, <4>1
    <3> QED BY <2>2, <3>2, <3>3, <3>4 DEF Allocated
  <2>4. Allocated(i, perm)'
    BY <1>1, <1>6, <2>3 DEF Allocated, BstBlocks
  <2>5. {Bst(j) : j \in 0 .. 0 - 1} = {}
    OBVIOUS
  <2>6. (live = Base \cup {Table, Perm} \cup {Bst(j) : j \in 0 .. i - 1})'
    BY <1>1, <1>6, <2>5 DEF Base, Items, Keys, Queries, Table, Perm
  <2> QED BY <1>1, <1>6, <2>1, <2>4, <2>6 DEF BstInv
<1> QED BY <1>5, <1>6 DEF Shuffle

(* The nodes the table holds while the tree is built. *)
LEMMA AllocatedIs ==
  ASSUME key_count \in Nat, NEW p, Permutation(p), NEW n \in 0 .. key_count, Allocated(n, p)
  PROVE  /\ bst.nodes \in [Index -> BstBlocks \cup {Null}]
         /\ \A j, k \in Index : bst.nodes[j] = bst.nodes[k] /\ bst.nodes[j] # Null => j = k
         /\ \A k \in Index : bst.nodes[k] # Table /\ bst.nodes[k] # Perm
         /\ \A x : (x # Null /\ \E k \in Index : bst.nodes[k] = x) <=> \E j \in 0 .. n - 1 : x = Bst(j)
<1>1. /\ bst.nodes \in [Index -> BstBlocks \cup {Null}] /\ p \in [Index -> Index]
      /\ \A j \in Index : bst.nodes[p[j]] = IF j < n THEN Bst(j) ELSE Null
      /\ \A k \in Index : \E j \in Index : p[j] = k
  BY DEF Allocated, Permutation
<1>2. \A j, k : Bst(j) = Bst(k) => j = k
  BY BstNames
<1>3. \A j : Bst(j) # Null /\ Bst(j) # Table /\ Bst(j) # Perm
  BY BstNames
<1>4. Null # Table /\ Null # Perm
  BY BstNames
<1>5. ASSUME NEW a \in Index, NEW b \in Index, bst.nodes[a] = bst.nodes[b], bst.nodes[a] # Null PROVE a = b
  <2>1. PICK j \in Index : p[j] = a
    BY <1>1
  <2>2. PICK k \in Index : p[k] = b
    BY <1>1
  <2>3. bst.nodes[a] = Bst(j) /\ bst.nodes[b] = Bst(k)
    BY <1>1, <1>5, <2>1, <2>2
  <2> QED BY <1>2, <1>5, <2>1, <2>2, <2>3
<1>6. ASSUME NEW a \in Index PROVE bst.nodes[a] # Table /\ bst.nodes[a] # Perm
  BY <1>1, <1>3, <1>4 DEF BstBlocks
<1>7. ASSUME NEW x PROVE (x # Null /\ \E k \in Index : bst.nodes[k] = x) <=> \E j \in 0 .. n - 1 : x = Bst(j)
  <2>1. ASSUME NEW k \in Index, x # Null, bst.nodes[k] = x PROVE \E j \in 0 .. n - 1 : x = Bst(j)
    <3>1. PICK j \in Index : p[j] = k
      BY <1>1
    <3>2. j < n /\ x = Bst(j)
      BY <1>1, <2>1, <3>1
    <3>3. j \in 0 .. n - 1
      BY <3>2 DEF Index
    <3> QED BY <3>2, <3>3
  <2>2. ASSUME NEW j \in 0 .. n - 1, x = Bst(j) PROVE x # Null /\ \E k \in Index : bst.nodes[k] = x
    <3>1. j \in Index /\ j < n
      BY DEF Index
    <3>2. p[j] \in Index /\ bst.nodes[p[j]] = x
      BY <1>1, <2>2, <3>1
    <3> QED BY <1>3, <2>2, <3>2
  <2> QED BY <2>1, <2>2
<1> QED BY <1>1, <1>5, <1>6, <1>7

LEMMA BstNodeStep ==
  ASSUME MainInv, BstInv, BstNode
  PROVE  /\ (pc' = "bst_node" \/ (pc' = "fail_modes" /\ live' = Base))
         /\ BstInv'
<1>1. /\ key_count \in Nat /\ i \in 0 .. key_count /\ i < key_count /\ Permutation(perm) /\ Allocated(i, perm)
      /\ live = Base \cup {Table, Perm} \cup {Bst(j) : j \in 0 .. i - 1}
      /\ key_count' = key_count /\ Index' = Index
  BY DEF MainInv, BstInv, BstNode, Index
<1>2. CASE /\ Allocate(Bst(i), "bst_node")
           /\ bst' = [bst EXCEPT !.nodes[perm[i]] = Bst(i),
                                 !.node = With(@, Bst(i), [key |-> Key(perm[i]), left |-> Null,
                                                           right |-> Null])]
           /\ i' = i + 1 /\ UNCHANGED perm
  <2> DEFINE x == Bst(i)
             k == perm[i]
             v == [key |-> Key(k), left |-> Null, right |-> Null]
             nodes == bst.nodes
             node == bst.node
             nodes2 == [nodes EXCEPT ![k] = x]
             node2 == With(node, x, v)
  <2>1. bst = [root |-> Null, nodes |-> nodes, node |-> node]
    BY <1>1 DEF Allocated
  <2>2. bst' = [root |-> Null, nodes |-> nodes2, node |-> node2]
    <3>1. bst' = [bst EXCEPT !.nodes[k] = x, !.node = With(@, x, v)]
      BY <1>2
    <3> HIDE DEF nodes, node, x, k, v
    <3> QED BY <2>1, <3>1
  <2>3. i \in Index /\ perm \in [Index -> Index] /\ k \in Index /\ \A j \in Index : perm[j] = k => j = i
    BY <1>1 DEF Permutation, Index
  <2>4. /\ nodes \in [Index -> BstBlocks \cup {Null}] /\ DOMAIN node = {Bst(j) : j \in 0 .. i - 1}
        /\ \A j \in Index : nodes[perm[j]] = IF j < i THEN Bst(j) ELSE Null
        /\ \A j \in 0 .. i - 1 : node[Bst(j)] = [key |-> Key(perm[j]), left |-> Null, right |-> Null]
    BY <1>1 DEF Allocated
  <2>5. /\ nodes2 \in [Index -> BstBlocks \cup {Null}] /\ nodes2[k] = x
        /\ \A l \in Index : l # k => nodes2[l] = nodes[l]
    <3>1. x \in BstBlocks
      BY <2>3 DEF BstBlocks
    <3> HIDE DEF x, k, nodes
    <3> QED BY <2>3, <2>4, <3>1
  <2>6. DOMAIN node2 = DOMAIN node \cup {x}
    BY WithDomain
  <2>7. node2[x] = v
    BY WithEntry
  <2>8. \A y \in DOMAIN node : y # x => node2[y] = node[y]
    BY WithOthers
  <2> HIDE DEF nodes2, node2
  <2>9. \A j : j \in 0 .. (i + 1) - 1 <=> j \in 0 .. i - 1 \/ j = i
    BY <1>1
  <2>10. ASSUME NEW j \in Index PROVE nodes2[perm[j]] = IF j < i + 1 THEN Bst(j) ELSE Null
    <3>1. CASE j = i
      BY <1>1, <2>5, <3>1
    <3>2. CASE j # i
      <4>1. perm[j] \in Index /\ perm[j] # k
        BY <2>3, <3>2
      <4>2. nodes2[perm[j]] = nodes[perm[j]]
        BY <2>5, <4>1
      <4>3. j < i + 1 <=> j < i
        BY <1>1, <3>2 DEF Index
      <4> QED BY <2>4, <4>2, <4>3
    <3> QED BY <3>1, <3>2
  <2>11. ASSUME NEW j \in 0 .. (i + 1) - 1
         PROVE  node2[Bst(j)] = [key |-> Key(perm[j]), left |-> Null, right |-> Null]
    <3>1. CASE j = i
      BY <2>7, <3>1
    <3>2. CASE j # i
      <4>1. Bst(j) # x
        BY <3>2, BstNames
      <4>2. j \in 0 .. i - 1 /\ Bst(j) \in DOMAIN node
        BY <2>4, <2>9, <3>2
      <4> QED BY <2>4, <2>8, <4>1, <4>2
    <3> QED BY <3>1, <3>2
  <2>12. DOMAIN node2 = {Bst(j) : j \in 0 .. (i + 1) - 1}
    BY <2>4, <2>6, <2>9
  <2>13. bst'.nodes = nodes2 /\ bst'.node = node2
    BY <2>2
  <2>14. Allocated(i, perm)'
    <3>1. i' = i + 1 /\ perm' = perm /\ BstBlocks' = BstBlocks
      BY <1>1, <1>2 DEF BstBlocks
    <3> HIDE DEF nodes, node
    <3> QED BY <1>1, <2>2, <2>5, <2>10, <2>11, <2>12, <2>13, <3>1 DEF Allocated
  <2>15. pc' = "bst_node" /\ live' = live \cup {x}
    BY <1>2 DEF Allocate
  <2>16. (live = Base \cup {Table, Perm} \cup {Bst(j) : j \in 0 .. i - 1})'
    <3>1. live' = Base \cup {Table, Perm} \cup {Bst(j) : j \in 0 .. (i + 1) - 1}
      BY <1>1, <2>9, <2>15
    <3> QED BY <1>2, <3>1 DEF Base, Items, Keys, Queries, Table, Perm
  <2>17. Permutation(perm)' /\ i' \in 0 .. key_count'
    BY <1>1, <1>2 DEF Permutation
  <2> QED BY <2>14, <2>15, <2>16, <2>17 DEF BstInv
<1>3. CASE Free(<<Perm>> \o BstOwned, "fail_modes")
  <2> DEFINE s == <<Perm>> \o BstOwned
  <2>1. /\ bst.nodes \in [Index -> BstBlocks \cup {Null}]
        /\ \A j, k \in Index : bst.nodes[j] = bst.nodes[k] /\ bst.nodes[j] # Null => j = k
        /\ \A k \in Index : bst.nodes[k] # Table /\ bst.nodes[k] # Perm
        /\ \A x : (x # Null /\ \E k \in Index : bst.nodes[k] = x) <=> \E j \in 0 .. i - 1 : x = Bst(j)
    BY <1>1, AllocatedIs
  <2>2. Distinct(s) /\ \A x : x \in Pointed(s) <=> x = Perm \/ x = Table \/ \E j \in 0 .. i - 1 : x = Bst(j)
    <3>1. /\ Distinct(s)
          /\ \A x : x \in Pointed(BstOwned) <=> x = Table \/ (x # Null /\ \E k \in Index : bst.nodes[k] = x)
          /\ \A x : x \in Pointed(s) <=> x = Perm \/ x \in Pointed(BstOwned)
      BY <1>1, <2>1, OwnedIs
    <3> HIDE DEF s
    <3> QED BY <2>1, <3>1
  <2> HIDE DEF s
  <2>3. pc' = "fail_modes" /\ live' = live \ Pointed(s)
    <3>1. Pointed(s) \subseteq live
      BY <1>1, <2>2
    <3>2. Free(s, "fail_modes")
      BY <1>3 DEF s
    <3> QED BY <2>2, <3>1, <3>2, FreeDistinct
  <2>4. Table \notin Base /\ Perm \notin Base /\ \A j : Bst(j) \notin Base
    BY BstNames
  <2>5. live' = Base
    BY <1>1, <2>2, <2>3, <2>4
  <2> QED BY <2>3, <2>5 DEF BstInv
<1> QED BY <1>2, <1>3 DEF BstNode

(* What the linked tree looks like. *)
LEMMA BstLinkStep ==
  ASSUME MainInv, BstInv, BstLink
  PROVE  pc' = "lookups" /\ BstInv'
<1> DEFINE nodes == bst.nodes
           T == build_bst_from_sorted_nodes
<1>1. /\ key_count \in Nat /\ i = key_count /\ Permutation(perm) /\ Allocated(key_count, perm)
      /\ live = Base \cup {Table, Perm} \cup {Bst(j) : j \in 0 .. key_count - 1}
      /\ key_count' = key_count /\ Index' = Index
  BY DEF MainInv, BstInv, BstLink, Index
<1>2. /\ nodes \in [Index -> BstBlocks \cup {Null}]
      /\ \A j, k \in Index : nodes[j] = nodes[k] /\ nodes[j] # Null => j = k
      /\ \A x : (x # Null /\ \E k \in Index : nodes[k] = x) <=> \E j \in 0 .. key_count - 1 : x = Bst(j)
  <2>1. key_count \in 0 .. key_count
    BY <1>1
  <2> QED BY <1>1, <2>1, AllocatedIs
<1>3. \A k \in Index : nodes[k] \in BstBlocks /\ nodes[k] # Null
                       /\ bst.node[nodes[k]] = [key |-> Key(k), left |-> Null, right |-> Null]
  <2>1. ASSUME NEW k \in Index
        PROVE  nodes[k] \in BstBlocks /\ nodes[k] # Null
               /\ bst.node[nodes[k]] = [key |-> Key(k), left |-> Null, right |-> Null]
    <3>1. PICK j \in Index : perm[j] = k
      BY <1>1 DEF Permutation
    <3>2. j \in 0 .. key_count - 1 /\ j < key_count
      BY <1>1 DEF Index
    <3>3. nodes[k] = Bst(j) /\ bst.node[Bst(j)] = [key |-> Key(k), left |-> Null, right |-> Null]
      BY <1>1, <3>1, <3>2 DEF Allocated
    <3> QED BY <3>3, BstNames DEF BstBlocks
  <2> QED BY <2>1
<1>4. nodes \in [Index -> BstBlocks] /\ (\A j, k \in Index : nodes[j] = nodes[k] => j = k)
      /\ \A x \in BstBlocks : \E k \in Index : nodes[k] = x
  <2>1. \A x \in BstBlocks : \E j \in 0 .. key_count - 1 : x = Bst(j)
    BY DEF BstBlocks, Index
  <2> QED BY <1>2, <1>3, <2>1
<1>5. Built(T, nodes, 0, key_count)
  BY <1>1, <1>3, <1>4, BuildIs
<1> HIDE DEF T
<1>6. bst'.node = T /\ bst'.nodes = nodes /\ bst'.root = Top(nodes, 0, key_count)
  <2>1. bst = [root |-> Null, nodes |-> nodes, node |-> bst.node]
    BY <1>1 DEF Allocated
  <2>2. bst' = [bst EXCEPT !.node = T, !.root = BstTop(0, key_count)]
    BY DEF BstLink, T
  <2>3. BstTop(0, key_count) = Top(nodes, 0, key_count)
    BY DEF BstTop, Top, Mid
  <2> HIDE DEF nodes
  <2> QED BY <2>1, <2>2, <2>3
<1>7. DOMAIN T = BstBlocks
  <2>1. DOMAIN T = {nodes[k] : k \in 0 .. key_count - 1}
    BY <1>5 DEF Built
  <2> HIDE DEF nodes
  <2> QED BY <1>3, <1>4, <2>1 DEF Index
<1>8. Linked(bst.node, bst.nodes, 0, key_count)'
  <2>1. Linked(T, nodes, 0, key_count)
    BY <1>5 DEF Built
  <2> HIDE DEF nodes
  <2> QED BY <1>1, <1>6, <2>1 DEF Linked
<1>9. BstBlocks' = BstBlocks
  BY <1>1 DEF BstBlocks
<1>10. BstDone'
  <2>1. (bst.root = Top(bst.nodes, 0, key_count))'
    BY <1>1, <1>6
  <2> HIDE DEF nodes
  <2> QED BY <1>1, <1>4, <1>6, <1>7, <1>8, <1>9, <2>1 DEF BstDone
<1>11. pc' = "lookups" /\ live' = live \ {Perm}
  <2>1. Free(<<Perm>>, "lookups")
    BY DEF BstLink
  <2>2. Once(<<Perm>>, {Perm}) /\ \A x : In(x, <<Perm>>) <=> x = Perm
    <3>1. <<>> \in Seq({Perm}) /\ Perm \in {Perm}
      OBVIOUS
    <3> QED BY <3>1, InHere
  <2>3. \A x : In(x, <<Perm>>) => x \in live /\ x # Null
    BY <1>1, <2>2, BstNames
  <2>4. pc' = "lookups" /\ live' = {x \in live : ~In(x, <<Perm>>)}
    BY <2>1, <2>2, <2>3, FreeIs
  <2> QED BY <2>2, <2>4
<1>12. live' = Base \cup {Table} \cup BstBlocks
  <2>1. Perm \notin Base /\ Perm # Table /\ \A j : Bst(j) # Perm
    BY BstNames
  <2> QED BY <1>1, <1>11, <2>1 DEF BstBlocks, Index
<1>13. (live = Base \cup {Table} \cup BstBlocks)'
  BY <1>9, <1>12 DEF Base, Items, Keys, Queries, Table
<1> QED BY <1>10, <1>11, <1>13 DEF BstInv

(* The key, when it is one of a range. *)
Answer(x, lo, hi) == IF \E j \in lo .. hi - 1 : x = Key(j) THEN x ELSE -1

(* One step of bst_tree_lookup. *)
Probe(T, g, x, p) ==
  IF p = Null THEN -1
  ELSE IF x < T[p].key THEN g[T[p].left] ELSE IF x > T[p].key THEN g[T[p].right] ELSE T[p].key

Spread(T, nodes, L, H) ==
  /\ L \in [Index -> 0 .. key_count] /\ H \in [Index -> 0 .. key_count]
  /\ \A k \in Index : L[k] <= k /\ k < H[k] /\ H[k] <= key_count /\ Hangs(T, nodes, L, H, k)

LEMMA AnswerSplits ==
  ASSUME NEW x \in Int, NEW lo \in Nat, NEW hi \in Nat, NEW k \in Nat, lo <= k, k < hi
  PROVE  /\ x < Key(k) => Answer(x, lo, hi) = Answer(x, lo, k)
         /\ x > Key(k) => Answer(x, lo, hi) = Answer(x, k + 1, hi)
         /\ x = Key(k) => Answer(x, lo, hi) = x
<1>1. \A j \in lo .. hi - 1 : /\ x < Key(k) /\ x = Key(j) => j \in lo .. k - 1
                              /\ x > Key(k) /\ x = Key(j) => j \in k + 1 .. hi - 1
  BY DEF Key
<1>2. /\ \A j \in lo .. k - 1 : j \in lo .. hi - 1
      /\ \A j \in k + 1 .. hi - 1 : j \in lo .. hi - 1
      /\ k \in lo .. hi - 1
  OBVIOUS
<1> QED BY <1>1, <1>2 DEF Answer

LEMMA ProbeStep ==
  ASSUME key_count \in Nat, NEW T, NEW nodes, \A k \in Index : nodes[k] # Null,
         NEW L, NEW H, Spread(T, nodes, L, H), NEW x \in Int, NEW k \in Index, NEW g,
         g[Top(nodes, L[k], k)] = Answer(x, L[k], k), g[Top(nodes, k + 1, H[k])] = Answer(x, k + 1, H[k])
  PROVE  Probe(T, g, x, nodes[k]) = Answer(x, L[k], H[k])
<1> DEFINE a == L[k]
           b == H[k]
           p == nodes[k]
           l == Top(nodes, a, k)
           r == Top(nodes, k + 1, b)
<1>1. k \in Nat /\ a \in Nat /\ b \in Nat /\ a <= k /\ k < b
  BY DEF Spread, Index
<1>2. T[p] = [key |-> Key(k), left |-> l, right |-> r]
  BY DEF Spread, Hangs
<1>3. T[p].key = Key(k) /\ T[p].left = l /\ T[p].right = r
  <2> HIDE DEF p, l, r
  <2> QED BY <1>2
<1>4. p # Null /\ Key(k) \in Int /\ g[l] = Answer(x, a, k) /\ g[r] = Answer(x, k + 1, b)
  BY <1>1 DEF Key
<1> HIDE DEF a, b, p, l, r
<1>5. /\ x < Key(k) => Answer(x, a, b) = Answer(x, a, k)
      /\ x > Key(k) => Answer(x, a, b) = Answer(x, k + 1, b)
      /\ x = Key(k) => Answer(x, a, b) = x
  BY <1>1, AnswerSplits
<1>6. Probe(T, g, x, p) = Answer(x, a, b)
  BY <1>3, <1>4, <1>5 DEF Probe
<1> QED BY <1>6 DEF a, b, p

(* The top of a range is the node of its middle. *)
LEMMA TopIs ==
  ASSUME key_count \in Nat, NEW T, NEW nodes, NEW L, NEW H, Spread(T, nodes, L, H), NEW k \in Index
  PROVE  /\ L[k] < k => \E m \in Index : /\ Top(nodes, L[k], k) = nodes[m] /\ L[m] = L[k] /\ H[m] = k
                                         /\ H[m] - L[m] < H[k] - L[k]
         /\ k + 1 < H[k] => \E m \in Index : /\ Top(nodes, k + 1, H[k]) = nodes[m] /\ L[m] = k + 1 /\ H[m] = H[k]
                                             /\ H[m] - L[m] < H[k] - L[k]
         /\ L[k] >= k => Top(nodes, L[k], k) = Null
         /\ k + 1 >= H[k] => Top(nodes, k + 1, H[k]) = Null
<1> DEFINE a == L[k]
           b == H[k]
           c == k + 1
<1>1. k \in Nat /\ a \in Nat /\ b \in Nat /\ c \in Nat /\ a <= k /\ k < b /\ b <= key_count /\ c = k + 1
  BY DEF Spread, Index
<1>2. /\ a < k => L[Mid(a, k)] = a /\ H[Mid(a, k)] = k
      /\ c < b => L[Mid(c, b)] = c /\ H[Mid(c, b)] = b
  BY DEF Spread, Hangs
<1> HIDE DEF a, b, c
<1>3. ASSUME a < k
      PROVE  \E m \in Index : Top(nodes, a, k) = nodes[m] /\ L[m] = a /\ H[m] = k /\ H[m] - L[m] < b - a
  <2>1. Mid(a, k) \in Nat /\ Mid(a, k) < k
    BY <1>1, <1>3, MidIs
  <2>2. Mid(a, k) \in Index
    BY <1>1, <2>1 DEF Index
  <2>3. Top(nodes, a, k) = nodes[Mid(a, k)]
    BY <1>1, <1>3 DEF Top
  <2>4. k - a < b - a
    BY <1>1
  <2> QED BY <1>2, <1>3, <2>2, <2>3, <2>4
<1>4. ASSUME c < b
      PROVE  \E m \in Index : Top(nodes, c, b) = nodes[m] /\ L[m] = c /\ H[m] = b /\ H[m] - L[m] < b - a
  <2>1. Mid(c, b) \in Nat /\ Mid(c, b) < b
    BY <1>1, <1>4, MidIs
  <2>2. Mid(c, b) \in Index
    BY <1>1, <2>1 DEF Index
  <2>3. Top(nodes, c, b) = nodes[Mid(c, b)]
    BY <1>1, <1>4 DEF Top
  <2>4. b - c < b - a
    BY <1>1
  <2> QED BY <1>2, <1>4, <2>2, <2>3, <2>4
<1>5. (a >= k => Top(nodes, a, k) = Null) /\ (c >= b => Top(nodes, c, b) = Null)
  BY DEF Top
<1> QED BY <1>3, <1>4, <1>5 DEF a, b, c

(* A probe of a node answers for its range when its children do for theirs. *)
LEMMA ProbeAnswers ==
  ASSUME key_count \in Nat, NEW T, NEW nodes, \A k \in Index : nodes[k] # Null,
         NEW L, NEW H, Spread(T, nodes, L, H), NEW x \in Int, NEW k \in Index, NEW g, g[Null] = -1,
         \A m \in Index : H[m] - L[m] < H[k] - L[k] => g[nodes[m]] = Answer(x, L[m], H[m])
  PROVE  Probe(T, g, x, nodes[k]) = Answer(x, L[k], H[k])
<1>1. k \in Nat /\ L[k] \in Nat /\ H[k] \in Nat
  BY DEF Spread, Index
<1>2. \A lo \in Nat, hi \in Nat : lo >= hi => Answer(x, lo, hi) = -1
  <2>1. \A lo \in Nat, hi \in Nat : lo >= hi => \A j \in lo .. hi - 1 : FALSE
    OBVIOUS
  <2> QED BY <2>1 DEF Answer
<1>3. g[Top(nodes, L[k], k)] = Answer(x, L[k], k)
  <2>1. CASE L[k] < k
    <3>1. PICK m \in Index : /\ Top(nodes, L[k], k) = nodes[m] /\ L[m] = L[k] /\ H[m] = k
                             /\ H[m] - L[m] < H[k] - L[k]
      BY <2>1, TopIs
    <3> QED BY <3>1
  <2>2. CASE L[k] >= k
    <3>1. Top(nodes, L[k], k) = Null
      BY <2>2, TopIs
    <3> QED BY <1>1, <1>2, <2>2, <3>1
  <2> QED BY <1>1, <2>1, <2>2
<1>4. g[Top(nodes, k + 1, H[k])] = Answer(x, k + 1, H[k])
  <2>1. CASE k + 1 < H[k]
    <3>1. PICK m \in Index : /\ Top(nodes, k + 1, H[k]) = nodes[m] /\ L[m] = k + 1 /\ H[m] = H[k]
                             /\ H[m] - L[m] < H[k] - L[k]
      BY <2>1, TopIs
    <3> QED BY <3>1
  <2>2. CASE k + 1 >= H[k]
    <3>1. Top(nodes, k + 1, H[k]) = Null
      BY <2>2, TopIs
    <3>2. k + 1 \in Nat
      BY <1>1
    <3> QED BY <1>1, <1>2, <2>2, <3>1, <3>2
  <2> QED BY <1>1, <2>1, <2>2
<1> QED BY <1>3, <1>4, ProbeStep

(* The lookup of a BST is a function: its answers are those of the ranges. *)
LEMMA ProbesExist ==
  ASSUME key_count \in Nat, NEW T, NEW nodes, \A k \in Index : nodes[k] # Null,
         \A j, k \in Index : nodes[j] = nodes[k] => j = k, DOMAIN T = {nodes[k] : k \in Index},
         NEW L, NEW H, Spread(T, nodes, L, H), NEW x \in Int
  PROVE  \E g : g = [p \in DOMAIN T \cup {Null} |-> Probe(T, g, x, p)]
<1> DEFINE Of(p) == CHOOSE k \in Index : nodes[k] = p
           g == [p \in DOMAIN T \cup {Null} |->
                   IF p = Null THEN -1 ELSE Answer(x, L[Of(p)], H[Of(p)])]
<1>1. \A k \in Index : Of(nodes[k]) = k
  OBVIOUS
<1>2. g[Null] = -1
  OBVIOUS
<1>3. \A k \in Index : g[nodes[k]] = Answer(x, L[k], H[k])
  BY <1>1
<1>4. DOMAIN g = DOMAIN T \cup {Null}
  OBVIOUS
<1>5. g = [p \in DOMAIN g |-> g[p]]
  OBVIOUS
<1> HIDE DEF g
<1>6. ASSUME NEW p \in DOMAIN T \cup {Null} PROVE g[p] = Probe(T, g, x, p)
  <2>1. CASE p = Null
    BY <1>2, <2>1 DEF Probe
  <2>2. CASE p # Null
    <3>1. PICK k \in Index : p = nodes[k]
      BY <2>2
    <3>2. Probe(T, g, x, nodes[k]) = Answer(x, L[k], H[k])
      BY <1>2, <1>3, ProbeAnswers
    <3> QED BY <1>3, <3>1, <3>2
  <2> QED BY <2>1, <2>2
<1>7. g = [p \in DOMAIN T \cup {Null} |-> Probe(T, g, x, p)]
  BY <1>4, <1>5, <1>6
<1> QED BY <1>7

(* And any function that takes these steps gives those answers. *)
LEMMA ProbesAnswer ==
  ASSUME key_count \in Nat, NEW T, NEW nodes, \A k \in Index : nodes[k] # Null,
         \A j, k \in Index : nodes[j] = nodes[k] => j = k, DOMAIN T = {nodes[k] : k \in Index},
         NEW L, NEW H, Spread(T, nodes, L, H), NEW x \in Int,
         NEW g, g = [p \in DOMAIN T \cup {Null} |-> Probe(T, g, x, p)], NEW k \in Index
  PROVE  g[Null] = -1 /\ g[nodes[k]] = Answer(x, L[k], H[k])
<1> DEFINE Bad == {j \in Index : g[nodes[j]] # Answer(x, L[j], H[j])}
           S == {H[j] - L[j] : j \in Bad}
<1>1. g[Null] = -1
  <2>1. Null \in DOMAIN T \cup {Null} /\ Probe(T, g, x, Null) = -1
    BY DEF Probe
  <2> QED BY <2>1
<1>2. \A j \in Index : g[nodes[j]] = Probe(T, g, x, nodes[j])
  <2>1. \A j \in Index : nodes[j] \in DOMAIN T \cup {Null}
    OBVIOUS
  <2> QED BY <2>1
<1>3. \A j \in Index : H[j] - L[j] \in Nat
  BY DEF Spread, Index
<1>4. S \in SUBSET Nat
  BY <1>3
<1>5. ASSUME S # {} PROVE FALSE
  <2>1. PICK d \in S : \A e \in S : d <= e
    <3> HIDE DEF S
    <3> QED BY <1>4, <1>5, LeastNumber
  <2>2. PICK j \in Bad : d = H[j] - L[j]
    OBVIOUS
  <2>3. ASSUME NEW m \in Index, H[m] - L[m] < H[j] - L[j] PROVE g[nodes[m]] = Answer(x, L[m], H[m])
    <3>1. H[m] - L[m] \in Nat /\ d \in Nat /\ ~(d <= H[m] - L[m])
      BY <1>3, <2>2, <2>3
    <3>2. m \notin Bad
      BY <2>1, <3>1
    <3> QED BY <3>2
  <2>4. j \in Index
    OBVIOUS
  <2>5. Probe(T, g, x, nodes[j]) = Answer(x, L[j], H[j])
    BY <1>1, <2>3, <2>4, ProbeAnswers
  <2> QED BY <1>2, <2>4, <2>5
<1>6. k \notin Bad
  BY <1>5
<1> QED BY <1>1, <1>6

LEMMA SpreadOf ==
  ASSUME key_count \in Nat, BstDone
  PROVE  \E L, H : /\ Spread(bst.node, bst.nodes, L, H)
                   /\ 0 < key_count => L[Mid(0, key_count)] = 0 /\ H[Mid(0, key_count)] = key_count
<1>1. PICK L \in [0 .. key_count - 1 -> 0 .. key_count], H \in [0 .. key_count - 1 -> 0 .. key_count] :
        /\ \A k \in 0 .. key_count - 1 : 0 <= L[k] /\ L[k] <= k /\ k < H[k] /\ H[k] <= key_count
                                         /\ Hangs(bst.node, bst.nodes, L, H, k)
        /\ 0 < key_count => L[Mid(0, key_count)] = 0 /\ H[Mid(0, key_count)] = key_count
  BY DEF BstDone, Linked
<1>2. Spread(bst.node, bst.nodes, L, H)
  BY <1>1 DEF Spread, Index
<1> QED BY <1>1, <1>2

(* The linked BST finds every key and nothing else. *)
LEMMA BstFinds ==
  ASSUME key_count \in Nat, BstDone, NEW x \in Int
  PROVE  bst_tree_lookup(x) = IF x \in {Key(j) : j \in Index} THEN x ELSE -1
<1> DEFINE T == bst.node
           nodes == bst.nodes
           Step(g) == [p \in DOMAIN T \cup {Null} |-> Probe(T, g, x, p)]
           look == CHOOSE g : g = Step(g)
<1>1. PICK L, H : /\ Spread(T, nodes, L, H)
                  /\ 0 < key_count => L[Mid(0, key_count)] = 0 /\ H[Mid(0, key_count)] = key_count
  BY SpreadOf
<1>2. /\ \A k \in Index : nodes[k] # Null
      /\ \A j, k \in Index : nodes[j] = nodes[k] => j = k
      /\ DOMAIN T = {nodes[k] : k \in Index}
  <2>1. \A k \in Index : nodes[k] \in BstBlocks
    BY DEF BstDone
  <2>2. \A y \in BstBlocks : y # Null
    BY BstNames DEF BstBlocks
  <2>3. DOMAIN T = BstBlocks /\ \A y \in BstBlocks : \E k \in Index : nodes[k] = y
    BY DEF BstDone
  <2>4. \A j, k \in Index : nodes[j] = nodes[k] => j = k
    BY DEF BstDone
  <2> QED BY <2>1, <2>2, <2>3, <2>4
<1>3. look = Step(look)
  <2>1. \E g : g = Step(g)
    <3> HIDE DEF T, nodes
    <3> QED BY <1>1, <1>2, ProbesExist
  <2> QED BY <2>1
<1>4. bst_tree_lookup(x) = look[bst.root]
  BY DEF bst_tree_lookup, Probe
<1> HIDE DEF look
<1>5. bst.root = Top(nodes, 0, key_count)
  BY DEF BstDone
<1>6. \A k \in Index : look[Null] = -1 /\ look[nodes[k]] = Answer(x, L[k], H[k])
  <2>1. look = [p \in DOMAIN T \cup {Null} |-> Probe(T, look, x, p)]
    BY <1>3
  <2> HIDE DEF T, nodes
  <2> QED BY <1>1, <1>2, <2>1, ProbesAnswer
<1>7. Answer(x, 0, key_count) = IF x \in {Key(j) : j \in Index} THEN x ELSE -1
  BY DEF Answer, Index
<1>8. CASE 0 < key_count
  <2>1. Mid(0, key_count) \in Nat /\ Mid(0, key_count) < key_count
    BY <1>8, MidIs
  <2>2. Mid(0, key_count) \in Index
    BY <2>1 DEF Index
  <2>3. bst.root = nodes[Mid(0, key_count)]
    BY <1>5, <1>8 DEF Top
  <2>4. look[bst.root] = Answer(x, 0, key_count)
    BY <1>1, <1>6, <1>8, <2>2, <2>3
  <2> QED BY <1>4, <1>7, <2>4
<1>9. CASE key_count = 0
  <2>1. bst.root = Null
    BY <1>5, <1>9 DEF Top
  <2>2. look[Null] = -1
    <3>1. Step(look)[Null] = -1
      BY DEF Probe
    <3> QED BY <1>3, <3>1
  <2>3. Index = {}
    BY <1>9 DEF Index
  <2> QED BY <1>4, <2>1, <2>2, <2>3
<1> QED BY <1>8, <1>9

(* A B-tree no frame works on any more.                                    *)
Complete(tree, span) ==
  /\ span \in Spans /\ TreeFits(tree, span)
  /\ Node(<<>>) \in DOMAIN tree /\ span[<<>>] = [lo |-> 0, hi |-> key_count]
  /\ \A q \in Paths : Node(q) \in DOMAIN tree =>
       /\ tree[Node(q)].leaf \/ \A j \in 1 .. Fanout : tree[Node(q)].children[j] # Null
       /\ q = <<>> \/ HasParent(tree, q)

LEMMA CompleteIs ==
  ASSUME NEW tree, NEW span, Building(tree, <<>>, Node(<<>>), span, 1)
  PROVE  Complete(tree, span)
<1>1. Len(<<>>) = 0 /\ 1 .. 0 = {} /\ <<>> \in Paths
  BY DEF Paths
<1>2. Node(<<>>) \in DOMAIN tree /\ span[<<>>] = [lo |-> 0, hi |-> key_count]
  <2>1. PICK q \in Paths : Node(<<>>) \in DOMAIN tree /\ q = <<>> /\ span[q] = [lo |-> 0, hi |-> key_count]
    BY NodeNames DEF Building, Returned
  <2> QED BY <2>1
<1>3. \A q \in Paths : Node(<<>>) = Node(q) => q = <<>>
  BY NodeNames
<1> QED BY <1>1, <1>2, <1>3 DEF Building, Complete

(* What a node of such a tree is: a leaf with all its keys, or an inner    *)
(* node with all its children and separators.                              *)
IsLeaf(tree, q, lo, hi) ==
  hi - lo <= LeafCap /\ tree[Node(q)].leaf /\ tree[Node(q)].start = lo /\ tree[Node(q)].count = hi - lo
IsInner(tree, span, q, lo, hi) ==
  /\ hi - lo > LeafCap /\ ~tree[Node(q)].leaf
  /\ Len(tree[Node(q)].children) = Fanout /\ DOMAIN tree[Node(q)].keys = 1 .. Fanout - 1
  /\ \A j \in 1 .. Fanout :
       /\ Append(q, j - 1) \in Paths /\ Node(Append(q, j - 1)) \in DOMAIN tree
       /\ tree[Node(q)].children[j] = Node(Append(q, j - 1))
       /\ span[Append(q, j - 1)] = [lo |-> Cut(lo, hi, j - 1), hi |-> Cut(lo, hi, j)]
  /\ \A j \in 1 .. Fanout - 1 : tree[Node(q)].keys[j] = Key(Cut(lo, hi, j) - 1)

LEMMA CompleteNode ==
  ASSUME NEW tree, NEW span, Complete(tree, span), key_count \in Nat,
         NEW q \in Paths, Node(q) \in DOMAIN tree
  PROVE  /\ span[q].lo \in Nat /\ span[q].hi \in Nat /\ span[q].lo < span[q].hi /\ span[q].hi <= key_count
         /\ IsLeaf(tree, q, span[q].lo, span[q].hi) \/ IsInner(tree, span, q, span[q].lo, span[q].hi)
<1> USE TreeAssumption
<1> DEFINE n == tree[Node(q)]
           lo == span[q].lo
           hi == span[q].hi
<1>1. lo \in Nat /\ hi \in Nat /\ lo < hi /\ hi <= key_count /\ NodeFits(tree, q, span)
  BY DEF Complete, TreeFits, NodeFits, Spans
<1>2. CASE hi - lo <= LeafCap
  <2>1. n = LeafOn(lo, hi)
    BY <1>1, <1>2 DEF NodeFits
  <2> HIDE DEF n, lo, hi
  <2>2. n.leaf /\ n.start = lo /\ n.count = hi - lo
    BY <2>1 DEF LeafOn
  <2>3. IsLeaf(tree, q, lo, hi)
    BY <1>2, <2>2 DEF IsLeaf, n
  <2> QED BY <1>1, <2>3 DEF lo, hi
<1>3. CASE hi - lo > LeafCap
  <2>1. InnerOn(n, tree, q, span)
    BY <1>1, <1>3 DEF NodeFits
  <2>2. /\ n.leaf = FALSE /\ n.children \in [1 .. Fanout -> {Null} \cup DOMAIN tree]
        /\ n.keys \in [1 .. Fanout - 1 -> Int]
    BY <2>1 DEF InnerOn
  <2>3. Len(n.children) = Fanout
    <3>1. Fanout \in Nat /\ n.children \in Seq({Null} \cup DOMAIN tree) /\ DOMAIN n.children = 1 .. Fanout
      BY <2>2
    <3> QED BY <3>1
  <2>4. \A j \in 1 .. Fanout : n.children[j] # Null
    BY <2>2 DEF Complete
  <2>5. \A j \in 1 .. Fanout : n.children[j] = Node(Append(q, j - 1)) /\ n.children[j] \in DOMAIN tree
    BY <2>1, <2>2, <2>4 DEF InnerOn
  <2>6. \A j \in 1 .. Fanout : span[Append(q, j - 1)] = [lo |-> Cut(lo, hi, j - 1), hi |-> Cut(lo, hi, j)]
    BY <2>1, <2>4 DEF InnerOn
  <2>7. \A j \in 1 .. Fanout - 1 : n.keys[j] = Key(Cut(lo, hi, j) - 1)
    <3>1. \A j \in 1 .. Fanout - 1 : j \in 1 .. Fanout /\ j < Fanout
      OBVIOUS
    <3> QED BY <2>1, <2>4, <3>1 DEF InnerOn
  <2>8. ASSUME NEW j \in 1 .. Fanout PROVE Append(q, j - 1) \in Paths
    <3>1. j - 1 \in Nat
      OBVIOUS
    <3> QED BY <3>1, PathStep
  <2>9. DOMAIN n.keys = 1 .. Fanout - 1
    BY <2>2
  <2> HIDE DEF n, lo, hi
  <2>10. IsInner(tree, span, q, lo, hi)
    BY <1>3, <2>2, <2>3, <2>5, <2>6, <2>7, <2>8, <2>9 DEF IsInner, n
  <2> QED BY <1>1, <2>10 DEF lo, hi
<1>4. hi - lo <= LeafCap \/ hi - lo > LeafCap
  BY <1>1
<1> QED BY <1>2, <1>3, <1>4

(* The child a lookup goes to has the key in its range if the node has. *)
LEMMA BranchAnswers ==
  ASSUME NEW tree, NEW span, NEW q, NEW lo \in Nat, NEW hi \in Nat, IsInner(tree, span, q, lo, hi), NEW x \in Int
  PROVE  /\ Branch(tree[Node(q)], x) \in 1 .. Fanout
         /\ Answer(x, lo, hi) = Answer(x, Cut(lo, hi, Branch(tree[Node(q)], x) - 1),
                                       Cut(lo, hi, Branch(tree[Node(q)], x)))
<1> USE TreeAssumption
<1> DEFINE n == tree[Node(q)]
           b == Branch(n, x)
           above == {j \in DOMAIN n.keys : x <= n.keys[j]}
           C(j) == Cut(lo, hi, j)
<1>1. /\ DOMAIN n.keys = 1 .. Fanout - 1 /\ Len(n.children) = Fanout
      /\ \A j \in 1 .. Fanout - 1 : n.keys[j] = Key(C(j) - 1)
      /\ hi - lo > LeafCap
  BY DEF IsInner
<1>2. /\ C(0) = lo /\ C(Fanout) = hi /\ \A j \in 0 .. Fanout : C(j) \in Nat
      /\ \A j, k \in 0 .. Fanout : j < k => C(j) < C(k)
  BY <1>1, Cuts
<1>3. above \in SUBSET (1 .. Fanout - 1)
  BY <1>1
<1>4. b = IF above = {} THEN Fanout ELSE Min(above)
  BY <1>1 DEF Branch
<1>5. \A j \in 1 .. Fanout - 1 : j \in above <=> x <= Key(C(j) - 1)
  BY <1>1
<1> HIDE DEF above, C, n
<1>6. /\ b \in 1 .. Fanout
      /\ b # Fanout => x <= Key(C(b) - 1)
      /\ b # 1 => ~(x <= Key(C(b - 1) - 1))
  <2>1. CASE above = {}
    <3>1. b = Fanout
      BY <1>4, <2>1
    <3>2. Fanout - 1 \in 1 .. Fanout - 1 /\ Fanout \in 1 .. Fanout
      OBVIOUS
    <3> QED BY <1>5, <2>1, <3>1, <3>2
  <2>2. CASE above # {}
    <3>1. \E y \in above : \A z \in above : y <= z
      <4>1. above \in SUBSET Nat
        BY <1>3
      <4> QED BY <2>2, <4>1, LeastNumber
    <3>2. Min(above) \in above /\ \A z \in above : Min(above) <= z
      BY <3>1 DEF Min
    <3>3. b \in above /\ b \in 1 .. Fanout - 1 /\ \A z \in above : b <= z
      BY <1>3, <1>4, <2>2, <3>2
    <3> HIDE DEF b
    <3>4. b \in 1 .. Fanout /\ (b # 1 => b - 1 \in 1 .. Fanout - 1 /\ ~(b <= b - 1))
      BY <3>3
    <3> QED BY <1>5, <3>3, <3>4
  <2> QED BY <2>1, <2>2
<1> HIDE DEF b
<1>7. b \in 0 .. Fanout /\ b - 1 \in 0 .. Fanout
  BY <1>6
<1>8. C(b) \in Nat /\ C(b - 1) \in Nat /\ lo <= C(b - 1) /\ C(b) <= hi
  <2>1. 0 \in 0 .. Fanout /\ Fanout \in 0 .. Fanout /\ (b - 1 = 0 \/ 0 < b - 1) /\ (b = Fanout \/ b < Fanout)
    BY <1>6
  <2>2. C(b) \in Nat /\ C(b - 1) \in Nat
    BY <1>2, <1>7
  <2>3. b - 1 = 0 => C(b - 1) = lo
    BY <1>2
  <2>4. 0 < b - 1 => C(0) < C(b - 1)
    BY <1>2, <1>7, <2>1
  <2>5. b < Fanout => C(b) < C(Fanout)
    BY <1>2, <1>7, <2>1
  <2> QED BY <1>2, <2>1, <2>2, <2>3, <2>4, <2>5
<1>9. ASSUME NEW m \in lo .. hi - 1, x = Key(m) PROVE m \in C(b - 1) .. C(b) - 1
  <2> DEFINE u == C(b - 1)
             v == C(b)
  <2>1. u \in Nat /\ v \in Nat /\ m \in Nat
    BY <1>8
  <2>2. b = Fanout => v = hi
    BY <1>2
  <2>3. b = 1 => u = lo
    BY <1>2
  <2>4. (b # Fanout => x <= Key(v - 1)) /\ (b # 1 => ~(x <= Key(u - 1)))
    BY <1>6
  <2> HIDE DEF u, v
  <2>5. b = Fanout \/ m <= v - 1
    BY <1>9, <2>1, <2>4 DEF Key
  <2>6. b = 1 \/ u <= m
    BY <1>9, <2>1, <2>4 DEF Key
  <2>7. u <= m /\ m <= v - 1
    BY <2>1, <2>2, <2>3, <2>5, <2>6
  <2>8. m \in u .. v - 1
    BY <2>1, <2>7
  <2> QED BY <2>8 DEF u, v
<1>10. ASSUME NEW m \in C(b - 1) .. C(b) - 1 PROVE m \in lo .. hi - 1
  <2> DEFINE u == C(b - 1)
             v == C(b)
  <2>1. u \in Nat /\ v \in Nat /\ lo <= u /\ v <= hi /\ m \in u .. v - 1
    BY <1>8
  <2> HIDE DEF u, v
  <2> QED BY <2>1
<1>11. Answer(x, lo, hi) = Answer(x, C(b - 1), C(b))
  BY <1>9, <1>10 DEF Answer
<1> QED BY <1>6, <1>11 DEF n, C, b

(* One step of btree_tree_lookup. *)
Descend(tree, g, x, p) ==
  IF p = Null THEN -1
  ELSE IF tree[p].leaf THEN btree_leaf_lookup(tree[p], x)
       ELSE g[tree[p].children[Branch(tree[p], x)]]

LEMMA LeafAnswers ==
  ASSUME NEW tree, NEW q, NEW lo \in Nat, NEW hi \in Nat, IsLeaf(tree, q, lo, hi), NEW x \in Int
  PROVE  btree_leaf_lookup(tree[Node(q)], x) = Answer(x, lo, hi)
<1> DEFINE n == tree[Node(q)]
<1>1. n.start = lo /\ n.count = hi - lo
  BY DEF IsLeaf
<1> HIDE DEF n
<1>2. ASSUME NEW j \in 0 .. hi - lo - 1, Key(lo + j) = x PROVE \E k \in lo .. hi - 1 : x = Key(k)
  <2>1. lo + j \in lo .. hi - 1
    OBVIOUS
  <2> QED BY <1>2, <2>1
<1>3. ASSUME NEW k \in lo .. hi - 1, x = Key(k) PROVE \E j \in 0 .. hi - lo - 1 : Key(lo + j) = x
  <2>1. k - lo \in 0 .. hi - lo - 1 /\ lo + (k - lo) = k
    OBVIOUS
  <2> QED BY <1>3, <2>1
<1>4. btree_leaf_lookup(n, x) = Answer(x, lo, hi)
  BY <1>1, <1>2, <1>3 DEF btree_leaf_lookup, Answer
<1> QED BY <1>4 DEF n

(* A node's step answers for its range when its children do for theirs. *)
LEMMA DescendAnswers ==
  ASSUME NEW tree, NEW span, Complete(tree, span), key_count \in Nat, NEW q \in Paths, Node(q) \in DOMAIN tree,
         NEW x \in Int, NEW g,
         \A r \in Paths : Node(r) \in DOMAIN tree /\ span[r].hi - span[r].lo < span[q].hi - span[q].lo
                            => g[Node(r)] = Answer(x, span[r].lo, span[r].hi)
  PROVE  Descend(tree, g, x, Node(q)) = Answer(x, span[q].lo, span[q].hi)
<1> USE TreeAssumption
<1> DEFINE lo == span[q].lo
           hi == span[q].hi
           n == tree[Node(q)]
           b == Branch(n, x)
<1>1. lo \in Nat /\ hi \in Nat /\ (IsLeaf(tree, q, lo, hi) \/ IsInner(tree, span, q, lo, hi)) /\ Node(q) # Null
  BY CompleteNode, NodeNames
<1>2. CASE IsLeaf(tree, q, lo, hi)
  <2>1. n.leaf
    BY <1>2 DEF IsLeaf
  <2>2. Descend(tree, g, x, Node(q)) = btree_leaf_lookup(n, x)
    BY <1>1, <2>1 DEF Descend
  <2> HIDE DEF lo, hi
  <2>3. btree_leaf_lookup(n, x) = Answer(x, lo, hi)
    BY <1>1, <1>2, LeafAnswers
  <2> QED BY <2>2, <2>3 DEF lo, hi
<1>3. CASE IsInner(tree, span, q, lo, hi)
  <2>1. ~n.leaf
    BY <1>3 DEF IsInner
  <2>2. Descend(tree, g, x, Node(q)) = g[n.children[b]]
    BY <1>1, <2>1 DEF Descend
  <2>3. b \in 1 .. Fanout /\ Answer(x, lo, hi) = Answer(x, Cut(lo, hi, b - 1), Cut(lo, hi, b))
    <3> HIDE DEF lo, hi
    <3> QED BY <1>1, <1>3, BranchAnswers
  <2> HIDE DEF b
  <2> DEFINE r == Append(q, b - 1)
  <2>4. /\ r \in Paths /\ Node(r) \in DOMAIN tree /\ n.children[b] = Node(r)
        /\ span[r] = [lo |-> Cut(lo, hi, b - 1), hi |-> Cut(lo, hi, b)]
    <3> HIDE DEF lo, hi
    <3> QED BY <1>3, <2>3 DEF IsInner
  <2>5. hi - lo > LeafCap
    BY <1>3 DEF IsInner
  <2>6. Cut(lo, hi, b) - Cut(lo, hi, b - 1) < hi - lo
    <3> DEFINE j == b - 1
    <3>1. j \in 0 .. Fanout - 1 /\ j + 1 = b
      BY <2>3
    <3> HIDE DEF lo, hi, j
    <3>2. Cut(lo, hi, j + 1) - Cut(lo, hi, j) < hi - lo
      BY <1>1, <2>5, <3>1, Cuts
    <3> QED BY <3>1, <3>2 DEF j
  <2> HIDE DEF r
  <2>7. span[r].lo = Cut(lo, hi, b - 1) /\ span[r].hi = Cut(lo, hi, b)
    BY <2>4
  <2>8. g[Node(r)] = Answer(x, span[r].lo, span[r].hi)
    BY <2>4, <2>6, <2>7
  <2> QED BY <2>2, <2>3, <2>4, <2>7, <2>8
<1> QED BY <1>1, <1>2, <1>3

LEMMA DescentsExist ==
  ASSUME NEW tree, NEW span, Complete(tree, span), key_count \in Nat, NEW x \in Int
  PROVE  \E g : g = [p \in DOMAIN tree \cup {Null} |-> Descend(tree, g, x, p)]
<1> DEFINE g == [p \in DOMAIN tree \cup {Null} |->
                   IF p = Null THEN -1 ELSE Answer(x, span[p[2]].lo, span[p[2]].hi)]
<1>1. \A q : Node(q)[2] = q /\ Node(q) # Null
  BY NodeNames DEF Node
<1>2. g[Null] = -1
  OBVIOUS
<1>3. \A r \in Paths : Node(r) \in DOMAIN tree => g[Node(r)] = Answer(x, span[r].lo, span[r].hi)
  BY <1>1
<1>4. DOMAIN g = DOMAIN tree \cup {Null}
  OBVIOUS
<1>5. g = [p \in DOMAIN g |-> g[p]]
  OBVIOUS
<1> HIDE DEF g
<1>6. ASSUME NEW p \in DOMAIN tree \cup {Null} PROVE g[p] = Descend(tree, g, x, p)
  <2>1. CASE p = Null
    BY <1>2, <2>1 DEF Descend
  <2>2. CASE p # Null
    <3>1. PICK q \in Paths : p = Node(q) /\ Node(q) \in DOMAIN tree
      BY <2>2 DEF Complete, TreeFits
    <3>2. Descend(tree, g, x, Node(q)) = Answer(x, span[q].lo, span[q].hi)
      BY <1>3, <3>1, DescendAnswers
    <3> QED BY <1>3, <3>1, <3>2
  <2> QED BY <2>1, <2>2
<1>7. g = [p \in DOMAIN tree \cup {Null} |-> Descend(tree, g, x, p)]
  BY <1>4, <1>5, <1>6
<1> QED BY <1>7

LEMMA DescentsAnswer ==
  ASSUME NEW tree, NEW span, Complete(tree, span), key_count \in Nat, NEW x \in Int,
         NEW g, g = [p \in DOMAIN tree \cup {Null} |-> Descend(tree, g, x, p)],
         NEW q \in Paths, Node(q) \in DOMAIN tree
  PROVE  g[Node(q)] = Answer(x, span[q].lo, span[q].hi)
<1> DEFINE W(r) == span[r].hi - span[r].lo
           D == {r \in Paths : Node(r) \in DOMAIN tree}
           Bad == {r \in D : g[Node(r)] # Answer(x, span[r].lo, span[r].hi)}
           S == {W(r) : r \in Bad}
<1>1. \A r \in D : g[Node(r)] = Descend(tree, g, x, Node(r))
  <2>1. \A r \in D : Node(r) \in DOMAIN tree \cup {Null}
    OBVIOUS
  <2> QED BY <2>1
<1>2. \A r \in D : W(r) \in Nat
  <2>1. ASSUME NEW r \in D PROVE W(r) \in Nat
    <3>1. span[r].lo \in Nat /\ span[r].hi \in Nat /\ span[r].lo < span[r].hi
      BY CompleteNode
    <3> QED BY <3>1
  <2> QED BY <2>1
<1>3. S \in SUBSET Nat
  BY <1>2
<1>4. ASSUME S # {} PROVE FALSE
  <2>1. PICK d \in S : \A e \in S : d <= e
    <3> HIDE DEF S
    <3> QED BY <1>3, <1>4, LeastNumber
  <2>2. PICK j \in Bad : d = W(j)
    OBVIOUS
  <2>3. ASSUME NEW m \in D, W(m) < W(j) PROVE g[Node(m)] = Answer(x, span[m].lo, span[m].hi)
    <3>1. W(m) \in Nat /\ W(j) \in Nat
      BY <1>2
    <3>2. ~(d <= W(m))
      <4> HIDE DEF W
      <4> QED BY <2>2, <2>3, <3>1
    <3>3. m \notin Bad
      BY <2>1, <3>2
    <3> QED BY <3>3
  <2>4. Descend(tree, g, x, Node(j)) = Answer(x, span[j].lo, span[j].hi)
    BY <2>3, DescendAnswers
  <2> QED BY <1>1, <2>4
<1>5. q \notin Bad
  BY <1>4
<1> QED BY <1>5

(* The finished B-tree finds every key and nothing else. *)
LEMMA BtreeFinds ==
  ASSUME key_count \in Nat, NEW span, Complete(btree.node, span), btree.root = Node(<<>>), NEW x \in Int
  PROVE  btree_tree_lookup(x) = IF x \in {Key(j) : j \in Index} THEN x ELSE -1
<1> DEFINE tree == btree.node
           Step(g) == [p \in DOMAIN tree \cup {Null} |-> Descend(tree, g, x, p)]
           look == CHOOSE g : g = Step(g)
<1>1. look = Step(look)
  <2>1. \E g : g = Step(g)
    BY DescentsExist
  <2> QED BY <2>1
<1>2. btree_tree_lookup(x) = look[btree.root]
  BY DEF btree_tree_lookup, Descend
<1> HIDE DEF look
<1>3. look[Node(<<>>)] = Answer(x, span[<<>>].lo, span[<<>>].hi)
  <2>1. <<>> \in Paths /\ Node(<<>>) \in DOMAIN tree
    BY DEF Complete, Paths
  <2>2. look = [p \in DOMAIN tree \cup {Null} |-> Descend(tree, look, x, p)]
    BY <1>1
  <2> HIDE DEF tree
  <2> QED BY <2>1, <2>2, DescentsAnswer DEF tree
<1>4. span[<<>>].lo = 0 /\ span[<<>>].hi = key_count
  BY DEF Complete
<1> QED BY <1>2, <1>3, <1>4 DEF Answer, Index

(* A key below a node. *)
Holds(span, q, k) == span[q].lo <= k /\ k < span[q].hi

(* A node but the root has a parent, below which all its keys are. *)
LEMMA ParentOf ==
  ASSUME NEW tree, NEW span, Complete(tree, span), key_count \in Nat,
         NEW q \in Paths, Node(q) \in DOMAIN tree, q # <<>>
  PROVE  \E s \in Paths, j \in 1 .. Fanout :
           /\ Node(s) \in DOMAIN tree /\ IsInner(tree, span, s, span[s].lo, span[s].hi)
           /\ q = Append(s, j - 1) /\ Len(s) \in Nat /\ Len(q) = Len(s) + 1
           /\ span[q] = [lo |-> Cut(span[s].lo, span[s].hi, j - 1), hi |-> Cut(span[s].lo, span[s].hi, j)]
           /\ \A k \in Nat : Holds(span, q, k) => Holds(span, s, k)
<1> USE TreeAssumption
<1>1. PICK s \in Paths, j \in 1 .. Fanout :
        Node(s) \in DOMAIN tree /\ ~tree[Node(s)].leaf /\ q = Append(s, j - 1)
  BY DEF Complete, HasParent
<1> DEFINE lo == span[s].lo
           hi == span[s].hi
<1>2. lo \in Nat /\ hi \in Nat /\ (IsLeaf(tree, s, lo, hi) \/ IsInner(tree, span, s, lo, hi))
  BY <1>1, CompleteNode
<1>3. IsInner(tree, span, s, lo, hi)
  BY <1>1, <1>2 DEF IsLeaf
<1>4. span[q] = [lo |-> Cut(lo, hi, j - 1), hi |-> Cut(lo, hi, j)] /\ hi - lo > LeafCap
  <2> HIDE DEF lo, hi
  <2> QED BY <1>1, <1>3 DEF IsInner
<1>5. Len(s) \in Nat /\ Len(q) = Len(s) + 1
  <2>1. j - 1 \in Nat
    OBVIOUS
  <2> QED BY <1>1, <2>1, PathStep DEF Paths
<1>6. lo <= Cut(lo, hi, j - 1) /\ Cut(lo, hi, j) <= hi /\ Cut(lo, hi, j - 1) \in Nat /\ Cut(lo, hi, j) \in Nat
  <2> DEFINE e == j - 1
  <2>1. e \in 0 .. Fanout - 1 /\ e + 1 = j /\ e \in 0 .. Fanout /\ j \in 0 .. Fanout
    OBVIOUS
  <2> HIDE DEF lo, hi, e
  <2>2. lo <= Cut(lo, hi, e) /\ Cut(lo, hi, e + 1) <= hi /\ Cut(lo, hi, e) \in Nat /\ Cut(lo, hi, j) \in Nat
    BY <1>2, <1>4, <2>1, Cuts
  <2> QED BY <2>1, <2>2 DEF e
<1>7. span[q].lo = Cut(lo, hi, j - 1) /\ span[q].hi = Cut(lo, hi, j)
  BY <1>4
<1>8. ASSUME NEW k \in Nat, Holds(span, q, k) PROVE Holds(span, s, k)
  <2> DEFINE u == span[q].lo
             v == span[q].hi
  <2>1. u <= k /\ k < v /\ lo <= u /\ v <= hi /\ u \in Nat /\ v \in Nat
    BY <1>6, <1>7, <1>8 DEF Holds
  <2> HIDE DEF lo, hi, u, v
  <2>2. lo <= k /\ k < hi
    BY <1>2, <2>1
  <2> QED BY <2>2 DEF Holds, lo, hi
<1> QED BY <1>1, <1>3, <1>4, <1>5, <1>8

(* On each level one node at most has a key below it. *)
LEMMA OneOnLevel ==
  ASSUME NEW tree, NEW span, Complete(tree, span), key_count \in Nat, NEW k \in Nat,
         NEW q \in Paths, NEW r \in Paths, Node(q) \in DOMAIN tree, Node(r) \in DOMAIN tree,
         Holds(span, q, k), Holds(span, r, k), Len(q) = Len(r)
  PROVE  q = r
<1> USE TreeAssumption
<1> DEFINE D == {s \in Paths : Node(s) \in DOMAIN tree /\ Holds(span, s, k)}
           S == {n \in Nat : \E s, t \in D : Len(s) = n /\ Len(t) = n /\ s # t}
<1>1. ASSUME S # {} PROVE FALSE
  <2>1. PICK n \in S : \A m \in S : n <= m
    <3>1. S \in SUBSET Nat
      OBVIOUS
    <3> HIDE DEF S
    <3> QED BY <1>1, <3>1, LeastNumber
  <2>2. PICK s \in D, t \in D : Len(s) = n /\ Len(t) = n /\ s # t
    OBVIOUS
  <2>3. n \in Nat
    OBVIOUS
  <2>4. \A a \in Paths : Len(a) = 0 => a = <<>>
    BY EmptySeq DEF Paths
  <2>5. s # <<>> /\ t # <<>>
    <3>1. Len(<<>>) = 0
      OBVIOUS
    <3> QED BY <2>2, <2>4, <3>1
  <2>6. PICK a \in Paths, e \in 1 .. Fanout :
          /\ Node(a) \in DOMAIN tree /\ IsInner(tree, span, a, span[a].lo, span[a].hi)
          /\ s = Append(a, e - 1) /\ Len(a) \in Nat /\ Len(s) = Len(a) + 1
          /\ span[s] = [lo |-> Cut(span[a].lo, span[a].hi, e - 1), hi |-> Cut(span[a].lo, span[a].hi, e)]
          /\ \A x \in Nat : Holds(span, s, x) => Holds(span, a, x)
    BY <2>2, <2>5, ParentOf
  <2>7. PICK b \in Paths, j \in 1 .. Fanout :
          /\ Node(b) \in DOMAIN tree /\ IsInner(tree, span, b, span[b].lo, span[b].hi)
          /\ t = Append(b, j - 1) /\ Len(b) \in Nat /\ Len(t) = Len(b) + 1
          /\ span[t] = [lo |-> Cut(span[b].lo, span[b].hi, j - 1), hi |-> Cut(span[b].lo, span[b].hi, j)]
          /\ \A x \in Nat : Holds(span, t, x) => Holds(span, b, x)
    BY <2>2, <2>5, ParentOf
  <2>8. a = b
    <3>1. a \in D /\ b \in D
      BY <2>2, <2>6, <2>7
    <3>2. Len(a) = n - 1 /\ Len(b) = n - 1 /\ n - 1 \in Nat /\ ~(n <= n - 1)
      BY <2>2, <2>3, <2>6, <2>7
    <3>3. n - 1 \notin S
      <4> HIDE DEF S
      <4> QED BY <2>1, <3>2
    <3> HIDE DEF D
    <3> QED BY <3>1, <3>2, <3>3
  <2> DEFINE lo == span[a].lo
             hi == span[a].hi
             C(x) == Cut(lo, hi, x)
  <2>9. /\ C(e - 1) <= k /\ k < C(e) /\ C(j - 1) <= k /\ k < C(j)
    <3>1. span[s].lo = C(e - 1) /\ span[s].hi = C(e) /\ span[t].lo = C(j - 1) /\ span[t].hi = C(j)
      BY <2>6, <2>7, <2>8
    <3>2. Holds(span, s, k) /\ Holds(span, t, k)
      BY <2>2
    <3> HIDE DEF C
    <3> QED BY <3>1, <3>2 DEF Holds
  <2>10. (\A x \in 0 .. Fanout : C(x) \in Nat) /\ \A x, y \in 0 .. Fanout : x < y => C(x) < C(y)
    <3>1. lo \in Nat /\ hi \in Nat /\ hi - lo > LeafCap
      BY <2>6, CompleteNode DEF IsInner
    <3> HIDE DEF lo, hi
    <3> QED BY <3>1, Cuts
  <2> HIDE DEF C
  <2>11. e - 1 \in 0 .. Fanout /\ e \in 0 .. Fanout /\ j - 1 \in 0 .. Fanout /\ j \in 0 .. Fanout
    OBVIOUS
  <2>12. ~(e < j)
    <3>1. ASSUME e < j PROVE FALSE
      <4>1. e = j - 1 \/ e < j - 1
        BY <3>1
      <4>2. C(e) = C(j - 1) \/ C(e) < C(j - 1)
        BY <2>10, <2>11, <4>1
      <4> QED BY <2>9, <2>10, <2>11, <4>2
    <3> QED BY <3>1
  <2>13. ~(j < e)
    <3>1. ASSUME j < e PROVE FALSE
      <4>1. j = e - 1 \/ j < e - 1
        BY <3>1
      <4>2. C(j) = C(e - 1) \/ C(j) < C(e - 1)
        BY <2>10, <2>11, <4>1
      <4> QED BY <2>9, <2>10, <2>11, <4>2
    <3> QED BY <3>1
  <2>14. e = j
    BY <2>12, <2>13
  <2> QED BY <2>2, <2>6, <2>7, <2>8, <2>14
<1>2. Len(q) \in Nat /\ q \in D /\ r \in D
  BY DEF Paths
<1>3. Len(q) \notin S
  BY <1>1
<1> HIDE DEF D
<1> QED BY <1>2, <1>3

(* Below a leaf there are no nodes. *)
LEMMA NoneBelow ==
  ASSUME NEW tree, NEW span, Complete(tree, span), key_count \in Nat, NEW k \in Nat,
         NEW q \in Paths, NEW r \in Paths, Node(q) \in DOMAIN tree, Node(r) \in DOMAIN tree,
         Holds(span, q, k), Holds(span, r, k), tree[Node(q)].leaf
  PROVE  Len(r) <= Len(q)
<1> USE TreeAssumption
<1> DEFINE D == {s \in Paths : Node(s) \in DOMAIN tree /\ Holds(span, s, k) /\ Len(s) > Len(q)}
           S == {Len(s) : s \in D}
<1>1. Len(q) \in Nat /\ \A s \in D : Len(s) \in Nat
  BY DEF Paths
<1>2. ASSUME S # {} PROVE FALSE
  <2>1. PICK n \in S : \A m \in S : n <= m
    <3>1. S \in SUBSET Nat
      BY <1>1
    <3> HIDE DEF S
    <3> QED BY <1>2, <3>1, LeastNumber
  <2>2. PICK s \in D : Len(s) = n
    OBVIOUS
  <2>3. s # <<>>
    <3>1. Len(<<>>) = 0
      OBVIOUS
    <3> QED BY <1>1, <2>2, <3>1
  <2>4. PICK a \in Paths :
          /\ Node(a) \in DOMAIN tree /\ IsInner(tree, span, a, span[a].lo, span[a].hi)
          /\ Len(a) \in Nat /\ Len(s) = Len(a) + 1
          /\ \A x \in Nat : Holds(span, s, x) => Holds(span, a, x)
    BY <2>2, <2>3, ParentOf
  <2>5. Holds(span, a, k) /\ ~tree[Node(a)].leaf
    BY <2>2, <2>4 DEF IsInner
  <2>6. Len(a) # Len(q)
    <3>1. ASSUME Len(a) = Len(q) PROVE FALSE
      <4>1. a = q
        BY <2>4, <2>5, <3>1, OneOnLevel
      <4> QED BY <2>5, <4>1
    <3> QED BY <3>1
  <2>7. Len(a) > Len(q)
    BY <1>1, <2>2, <2>4, <2>6
  <2>8. a \in D
    BY <2>4, <2>5, <2>7
  <2>9. Len(a) \in S
    BY <2>8
  <2>10. n <= Len(a)
    <3> HIDE DEF S
    <3> QED BY <2>1, <2>9
  <2> QED BY <2>2, <2>4, <2>10
<1>3. r \notin D
  BY <1>2
<1>4. Len(r) \in Nat
  BY DEF Paths
<1> QED BY <1>1, <1>3, <1>4

(* A key is in a leaf. *)
LEMMA SomeLeaf ==
  ASSUME NEW tree, NEW span, Complete(tree, span), key_count \in Nat, NEW k \in Index
  PROVE  \E q \in Paths : Node(q) \in DOMAIN tree /\ tree[Node(q)].leaf /\ Holds(span, q, k)
<1> USE TreeAssumption
<1> DEFINE W(s) == span[s].hi - span[s].lo
           D == {s \in Paths : Node(s) \in DOMAIN tree /\ Holds(span, s, k)}
           S == {W(s) : s \in D}
<1>1. k \in Nat /\ k < key_count
  BY DEF Index
<1>2. ASSUME NEW s \in D
      PROVE  /\ span[s].lo \in Nat /\ span[s].hi \in Nat /\ W(s) \in Nat
             /\ IsLeaf(tree, s, span[s].lo, span[s].hi) \/ IsInner(tree, span, s, span[s].lo, span[s].hi)
  <2>1. /\ span[s].lo \in Nat /\ span[s].hi \in Nat /\ span[s].lo < span[s].hi
        /\ IsLeaf(tree, s, span[s].lo, span[s].hi) \/ IsInner(tree, span, s, span[s].lo, span[s].hi)
    BY CompleteNode
  <2> QED BY <2>1
<1>3. <<>> \in D
  <2>1. <<>> \in Paths /\ Node(<<>>) \in DOMAIN tree /\ span[<<>>].lo = 0 /\ span[<<>>].hi = key_count
    BY DEF Complete, Paths
  <2>2. Holds(span, <<>>, k)
    BY <1>1, <2>1 DEF Holds
  <2> QED BY <2>1, <2>2
<1>4. PICK n \in S : \A m \in S : n <= m
  <2>1. S \in SUBSET Nat /\ S # {}
    BY <1>2, <1>3
  <2> HIDE DEF S
  <2> QED BY <2>1, LeastNumber
<1>5. PICK q \in D : W(q) = n
  OBVIOUS
<1>6. ASSUME IsInner(tree, span, q, span[q].lo, span[q].hi) PROVE FALSE
  <2> DEFINE lo == span[q].lo
             hi == span[q].hi
             x == Key(k)
             b == Branch(tree[Node(q)], x)
  <2>1. lo \in Nat /\ hi \in Nat /\ x \in Int /\ lo <= k /\ k < hi /\ hi - lo > LeafCap
    BY <1>1, <1>2, <1>5, <1>6 DEF Key, Holds, IsInner
  <2>2. b \in 1 .. Fanout /\ Answer(x, lo, hi) = Answer(x, Cut(lo, hi, b - 1), Cut(lo, hi, b))
    <3>1. IsInner(tree, span, q, lo, hi)
      BY <1>6
    <3>2. lo \in Nat /\ hi \in Nat /\ x \in Int
      BY <2>1
    <3> HIDE DEF lo, hi, x, D, S, W
    <3> QED BY <3>1, <3>2, BranchAnswers
  <2> HIDE DEF b
  <2> DEFINE u == Cut(lo, hi, b - 1)
             v == Cut(lo, hi, b)
             r == Append(q, b - 1)
  <2>3. r \in Paths /\ Node(r) \in DOMAIN tree /\ span[r] = [lo |-> u, hi |-> v]
    BY <1>6, <2>2 DEF IsInner
  <2>4. u \in Nat /\ v \in Nat /\ v - u < hi - lo
    <3> DEFINE j == b - 1
    <3>1. j \in 0 .. Fanout - 1 /\ j + 1 = b /\ j \in 0 .. Fanout /\ b \in 0 .. Fanout
      BY <2>2
    <3> HIDE DEF lo, hi, j
    <3>2. Cut(lo, hi, j + 1) - Cut(lo, hi, j) < hi - lo /\ Cut(lo, hi, j) \in Nat /\ Cut(lo, hi, b) \in Nat
      BY <2>1, <3>1, Cuts
    <3> QED BY <3>1, <3>2 DEF j
  <2>5. Answer(x, lo, hi) = x /\ x # -1
    <3>1. k \in lo .. hi - 1 /\ x # -1
      BY <1>1, <2>1 DEF Key
    <3> QED BY <3>1 DEF Answer
  <2> HIDE DEF u, v, r
  <2>6. u <= k /\ k < v
    <3>1. PICK j \in u .. v - 1 : x = Key(j)
      BY <2>2, <2>5 DEF Answer, u, v
    <3>2. j \in Int /\ j = k
      BY <1>1, <2>4, <3>1 DEF Key
    <3> QED BY <2>4, <3>1, <3>2
  <2>7. span[r].lo = u /\ span[r].hi = v
    BY <2>3
  <2>8. r \in D
    BY <2>3, <2>6, <2>7 DEF Holds
  <2>9. W(r) \in S /\ W(r) = v - u
    BY <2>7, <2>8
  <2>10. n <= W(r) /\ n = hi - lo
    <3> HIDE DEF S
    <3> QED BY <1>4, <1>5, <2>9
  <2> HIDE DEF W, lo, hi
  <2> QED BY <2>1, <2>4, <2>9, <2>10
<1>7. tree[Node(q)].leaf
  BY <1>2, <1>6 DEF IsLeaf
<1> QED BY <1>5, <1>7

(* The leaves of a finished tree share the keys out. *)
Tiled(tree) ==
  LET leaves == {p \in DOMAIN tree : tree[p].leaf}
      Of(p)  == tree[p].start .. tree[p].start + tree[p].count - 1
  IN  /\ UNION {Of(p) : p \in leaves} = Index
      /\ \A p, q \in leaves : p # q => Of(p) \cap Of(q) = {}
      /\ \A p \in leaves : tree[p].count \in 1 .. LeafCap

LEMMA Tiles ==
  ASSUME NEW tree, NEW span, Complete(tree, span), key_count \in Nat
  PROVE  Tiled(tree)
<1> USE TreeAssumption
<1> DEFINE leaves == {p \in DOMAIN tree : tree[p].leaf}
           Of(p)  == tree[p].start .. tree[p].start + tree[p].count - 1
<1>1. ASSUME NEW p \in leaves
      PROVE  \E q \in Paths : /\ p = Node(q) /\ Node(q) \in DOMAIN tree /\ tree[Node(q)].leaf
                              /\ \A k : k \in Of(p) <=> k \in Index /\ Holds(span, q, k)
                              /\ tree[p].count \in 1 .. LeafCap
  <2>1. PICK q \in Paths : p = Node(q)
    BY DEF Complete, TreeFits
  <2> DEFINE lo == span[q].lo
             hi == span[q].hi
  <2>2. /\ lo \in Nat /\ hi \in Nat /\ lo < hi /\ hi <= key_count
        /\ IsLeaf(tree, q, lo, hi) \/ IsInner(tree, span, q, lo, hi)
    BY <2>1, CompleteNode
  <2>3. hi - lo <= LeafCap /\ tree[p].start = lo /\ tree[p].count = hi - lo
    BY <2>1, <2>2 DEF IsLeaf, IsInner
  <2> HIDE DEF lo, hi
  <2>4. tree[p].count \in 1 .. LeafCap
    BY <2>2, <2>3
  <2>5. Of(p) = lo .. lo + (hi - lo) - 1
    BY <2>3
  <2>6. \A k : k \in Of(p) <=> k \in 0 .. key_count - 1 /\ lo <= k /\ k < hi
    <3> HIDE DEF Of
    <3>1. \A k : k \in lo .. lo + (hi - lo) - 1 <=> k \in 0 .. key_count - 1 /\ lo <= k /\ k < hi
      BY <2>2
    <3> QED BY <2>5, <3>1
  <2>7. \A k : k \in Of(p) <=> k \in Index /\ Holds(span, q, k)
    <3> HIDE DEF Of
    <3> QED BY <2>6 DEF Index, Holds, lo, hi
  <2> QED BY <2>1, <2>4, <2>7
<1>2. ASSUME NEW k \in Index PROVE \E p \in leaves : k \in Of(p)
  <2>1. PICK q \in Paths : Node(q) \in DOMAIN tree /\ tree[Node(q)].leaf /\ Holds(span, q, k)
    BY SomeLeaf
  <2>2. Node(q) \in leaves
    BY <2>1
  <2>3. PICK r \in Paths : Node(q) = Node(r) /\ \A x : x \in Of(Node(q)) <=> x \in Index /\ Holds(span, r, x)
    <3> HIDE DEF Of, leaves
    <3> QED BY <1>1, <2>2
  <2>4. q = r
    BY <2>3, NodeNames
  <2> HIDE DEF Of, leaves
  <2> QED BY <2>1, <2>2, <2>3, <2>4
<1>3. ASSUME NEW p \in leaves, NEW t \in leaves, NEW k, k \in Of(p), k \in Of(t) PROVE p = t
  <2> HIDE DEF Of, leaves
  <2>1. PICK q \in Paths : /\ p = Node(q) /\ Node(q) \in DOMAIN tree /\ tree[Node(q)].leaf
                           /\ k \in Index /\ Holds(span, q, k)
    BY <1>1, <1>3
  <2>2. PICK r \in Paths : /\ t = Node(r) /\ Node(r) \in DOMAIN tree /\ tree[Node(r)].leaf
                           /\ k \in Index /\ Holds(span, r, k)
    BY <1>1, <1>3
  <2>3. k \in Nat /\ Len(q) \in Nat /\ Len(r) \in Nat
    BY <2>1 DEF Index, Paths
  <2>4. Len(q) <= Len(r) /\ Len(r) <= Len(q)
    BY <2>1, <2>2, <2>3, NoneBelow
  <2>5. Len(q) = Len(r)
    BY <2>3, <2>4
  <2>6. q = r
    BY <2>1, <2>2, <2>3, <2>5, OneOnLevel
  <2> QED BY <2>1, <2>2, <2>6
<1>4. UNION {Of(p) : p \in leaves} = Index
  <2>1. \A p \in leaves : \A k \in Of(p) : k \in Index
    BY <1>1
  <2> HIDE DEF Of, leaves
  <2> QED BY <1>2, <2>1
<1>5. (\A p \in leaves : tree[p].count \in 1 .. LeafCap) /\ \A p, q \in leaves : p # q => Of(p) \cap Of(q) = {}
  <2>1. \A p \in leaves : tree[p].count \in 1 .. LeafCap
    BY <1>1
  <2> HIDE DEF Of, leaves
  <2> QED BY <1>3, <2>1
<1> QED BY <1>4, <1>5 DEF Tiled

(* The two trees find the same. *)
LEMMA LooksUp ==
  ASSUME MainInv, BstInv, NEW span \in Spans, BtreeInv(span), pc = "lookups", NEW x \in Int
  PROVE  Lookup(x) = IF x \in {Key(j) : j \in Index} THEN x ELSE -1
<1>1. key_count \in Nat
  BY DEF MainInv
<1>2. modes[mi + 1] \in {"bst", "btree16"}
  <2>1. modes \in Seq({"bst", "btree16"}) /\ mi + 1 \in 1 .. Len(modes)
    BY DEF MainInv, TreePcs
  <2> QED BY <2>1
<1>3. CASE modes[mi + 1] = "bst"
  <2>1. BstDone
    BY <1>3 DEF BstInv
  <2>2. Lookup(x) = bst_tree_lookup(x)
    BY <1>3 DEF Lookup
  <2> QED BY <1>1, <2>1, <2>2, BstFinds
<1>4. CASE modes[mi + 1] = "btree16"
  <2>1. btree = [root |-> Node(<<>>), node |-> btree.node] /\ Building(btree.node, <<>>, Node(<<>>), span, 1)
    BY <1>4 DEF BtreeInv
  <2>2. btree.root = Node(<<>>)
    BY <2>1
  <2>3. Complete(btree.node, span)
    BY <2>1, CompleteIs
  <2>4. Lookup(x) = btree_tree_lookup(x)
    BY <1>4 DEF Lookup
  <2> QED BY <1>1, <2>2, <2>3, <2>4, BtreeFinds
<1> QED BY <1>2, <1>3, <1>4

(* Every query is a key: what is added up is the queries themselves. *)
LEMMA QueriesFound ==
  ASSUME MainInv, BstInv, NEW span \in Spans, BtreeInv(span), pc = "lookups"
  PROVE  [q \in DOMAIN queries |-> Lookup(queries[q])] = queries
<1>1. queries \in [0 .. lookup_count - 1 -> {Key(k) : k \in Index}]
  BY DEF MainInv, Started, TreePcs
<1>2. ASSUME NEW q \in DOMAIN queries PROVE Lookup(queries[q]) = queries[q]
  <2>1. PICK k \in Index : queries[q] = Key(k)
    BY <1>1, <1>2
  <2>2. Key(k) \in Int
    BY DEF Key, Index, MainInv
  <2>3. Lookup(Key(k)) = Key(k)
    BY <2>2, LooksUp
  <2> QED BY <2>1, <2>3
<1>3. queries = [q \in DOMAIN queries |-> queries[q]]
  BY <1>1
<1> QED BY <1>2, <1>3

LEMMA Quotient ==
  ASSUME NEW n \in Nat \ {0}, NEW d \in Int, NEW e \in 0 .. n - 1
  PROVE  (n * d + e) \div n = d
<1> DEFINE a == n * d + e
           q == a \div n
           r == a % n
<1>1. a \in Int
  OBVIOUS
<1>2. r = e
  BY Remainder
<1> HIDE DEF a
<1>3. a = n * q + r /\ q \in Int
  BY <1>1, Division
<1> HIDE DEF q, r
<1>4. n * d = n * q
  <2>1. n * d \in Int /\ n * q \in Int
    BY <1>3
  <2> QED BY <1>2, <1>3, <2>1 DEF a
<1>5. ~(d + 1 <= q) /\ ~(q + 1 <= d)
  <2>1. n * d \in Int /\ n * q \in Int
    BY <1>3
  <2>2. d + 1 <= q => n * d + n <= n * q
    BY <1>3, Multiples
  <2>3. q + 1 <= d => n * q + n <= n * d
    BY <1>3, Multiples
  <2> QED BY <1>4, <2>1, <2>2, <2>3
<1>6. q = d
  BY <1>3, <1>5
<1> QED BY <1>6 DEF q, a

(* What is printed after n lines in all. *)
Printed(n, sum) == [l \in 1 .. n |-> <<(l - 1) \div reps, (l - 1) % reps, sum>>]

LEMMA PrintsOne ==
  ASSUME reps \in Nat \ {0}, NEW m \in Nat, NEW r \in 0 .. reps - 1, NEW sum
  PROVE  Append(Printed(m * reps + r, sum), <<m, r, sum>>) = Printed(m * reps + (r + 1), sum)
<1> DEFINE L == m * reps + r
           S == {<<(l - 1) \div reps, (l - 1) % reps, sum>> : l \in 1 .. L + 1}
           s == Printed(L, sum)
           v == <<m, r, sum>>
<1>1. L \in Nat
  OBVIOUS
<1>2. L \div reps = m /\ L % reps = r
  <2>1. L = reps * m + r
    OBVIOUS
  <2> HIDE DEF L
  <2> QED BY <2>1, Quotient, Remainder
<1> HIDE DEF L
<1>3. (L + 1) - 1 = L /\ L + 1 \in 1 .. L + 1
  BY <1>1
<1>4. v \in S
  BY <1>2, <1>3
<1>5. s \in [1 .. L -> S]
  <2>1. \A l \in 1 .. L : l \in 1 .. L + 1
    BY <1>1
  <2> QED BY <2>1 DEF Printed
<1> HIDE DEF S, s
<1>6. Append(s, v) = WithBehind(s, L, v)
  BY <1>1, <1>4, <1>5, PushIs
<1>7. WithBehind(s, L, v) = Printed(L + 1, sum)
  <2>1. ASSUME NEW l \in 1 .. L + 1
        PROVE (IF l = L + 1 THEN v ELSE s[l]) = <<(l - 1) \div reps, (l - 1) % reps, sum>>
    <3>1. CASE l = L + 1
      BY <1>2, <1>3, <3>1
    <3>2. CASE l # L + 1
      <4>1. l \in 1 .. L
        BY <1>1, <3>2
      <4> QED BY <3>2, <4>1 DEF s, Printed
    <3> QED BY <3>1, <3>2
  <2> HIDE DEF v
  <2> QED BY <2>1 DEF WithBehind, Printed
<1>8. L + 1 = m * reps + (r + 1)
  BY DEF L
<1> QED BY <1>6, <1>7, <1>8 DEF s, v, L

(* What free() of a few pointers takes. *)
LEMMA FewFreed ==
  ASSUME NEW a, NEW b, a # b
  PROVE  /\ Distinct(<<a>>) /\ Pointed(<<a>>) = {a} \ {Null}
         /\ Distinct(<<a, b>>) /\ Pointed(<<a, b>>) = {a, b} \ {Null}
<1>1. DOMAIN <<a>> = {1} /\ <<a>>[1] = a
  OBVIOUS
<1>2. DOMAIN <<a, b>> = {1, 2} /\ <<a, b>>[1] = a /\ <<a, b>>[2] = b
  OBVIOUS
<1>4. Distinct(<<a>>) /\ Distinct(<<a, b>>)
  BY <1>1, <1>2 DEF Distinct
<1>5. Pointed(<<a>>) = {a} \ {Null}
  BY <1>1 DEF Pointed
<1>6. Pointed(<<a, b>>) = {a, b} \ {Null}
  BY <1>2 DEF Pointed
<1> QED BY <1>4, <1>5, <1>6

LEMMA DriverNames == /\ Items # Keys /\ Keys # Queries /\ Queries # Items
                     /\ Items # Null /\ Keys # Null /\ Queries # Null
BY DEF Items, Keys, Queries, Null

LEMMA AllFreed ==
  /\ Distinct(<<Keys, Queries, Items>>)
  /\ Pointed(<<Keys, Queries, Items>>) = Base
<1> DEFINE s == <<Keys, Queries, Items>>
<1>1. DOMAIN s = {1, 2, 3} /\ s[1] = Keys /\ s[2] = Queries /\ s[3] = Items
  OBVIOUS
<1> HIDE DEF s
<1>2. Distinct(s)
  BY <1>1, DriverNames DEF Distinct
<1>3. Pointed(s) = Base
  BY <1>1, DriverNames DEF Pointed, Base
<1> QED BY <1>2, <1>3 DEF s

(* While the driver is between two trees there is none. *)
Between == {"arguments", "make_queries", "modes", "bst_init", "btree_init"}

LEMMA NoTree ==
  ASSUME NEW span \in Spans, pc' \in Between \cup {"fail_modes", "fail", "exit"},
         pc' \in Between => btree' = NoBtree /\ stack' = <<>> /\ ret' = Null
  PROVE  BstInv' /\ \E wide \in Spans : BtreeInv(wide)'
<1>1. BstInv'
  BY DEF BstInv, Between
<1>2. BtreeInv(span)'
  BY DEF BtreeInv, Between, BstPcs
<1> QED BY <1>1, <1>2

LEMMA NoneYet ==
  ASSUME NEW span \in Spans, BtreeInv(span), pc \in Between, UNCHANGED <<btree, stack, ret>>
  PROVE  btree' = NoBtree /\ stack' = <<>> /\ ret' = Null
BY DEF BtreeInv, Between, BstPcs

(* Printed nothing yet: whatever the queries. *)
LEMMA NothingPrinted ==
  ASSUME reps \in Nat \ {0}, NEW sum
  PROVE  Printed(0 * reps + 0, sum) = <<>>
<1>1. 0 * reps + 0 = 0 /\ 1 .. 0 = {}
  OBVIOUS
<1>2. DOMAIN Printed(0, sum) = {} /\ DOMAIN <<>> = {} /\ Printed(0, sum) = [l \in {} |-> 0]
  BY <1>1 DEF Printed
<1>3. <<>> = [l \in {} |-> 0]
  OBVIOUS
<1> QED BY <1>1, <1>2, <1>3

(* A step in which the driver's own variables stay. *)
Driver == <<key_count, modes, lookup_count, reps, queries, mi, rep, out>>

LEMMA ModeAppended ==
  ASSUME MainInv, pc = "arguments", NEW mode \in {"bst", "btree16"}, append_mode(mode),
         UNCHANGED <<key_count, lookup_count, reps, queries, mi, rep, out, status>>
  PROVE  MainInv' /\ pc' \in {"arguments", "fail"}
<1> USE DEF Pcs, Started, TreePcs, BstPcs, BtreePcs
<1>1. CASE Allocate(Items, "arguments") /\ modes' = Append(modes, mode)
  <2>1. modes' \in Seq({"bst", "btree16"}) /\ Len(modes') = Len(modes) + 1 /\ Len(modes) \in Nat
    BY <1>1, AppendProperties DEF MainInv
  <2>2. modes' # <<>>
    <3>1. Len(<<>>) = 0
      OBVIOUS
    <3> QED BY <2>1, <3>1
  <2>3. live' = {Items} /\ ModeBlocks' = {Items} /\ pc' = "arguments"
    BY <1>1, <2>2 DEF MainInv, ModeBlocks, Allocate
  <2>4. mi = 0 /\ mi' = 0 /\ 0 \in 0 .. Len(modes') /\ rep = 0
    BY <2>1 DEF MainInv
  <2>5. Checksum(queries)' = Checksum(queries)
    OBVIOUS
  <2> QED BY <2>1, <2>3, <2>4, <2>5 DEF MainInv
<1>2. CASE pc' = "fail" /\ UNCHANGED <<live, modes>>
  <2>1. Checksum(queries)' = Checksum(queries) /\ ModeBlocks' = ModeBlocks
    BY <1>2 DEF ModeBlocks
  <2> QED BY <1>2, <2>1 DEF MainInv
<1> QED BY <1>1, <1>2 DEF append_mode

LEMMA FreeModes ==
  ASSUME MainInv, live = ModeBlocks, Free(<<ModeItems>>, "exit")
  PROVE  pc' = "exit" /\ live' = {}
<1>1. Distinct(<<ModeItems>>) /\ Pointed(<<ModeItems>>) = {ModeItems} \ {Null}
  <2>1. \E b : ModeItems # b
    <3>1. ModeItems = Null \/ ModeItems = Items
      BY DEF ModeItems
    <3> QED BY <3>1, DriverNames
  <2> QED BY <2>1, FewFreed
<1>2. {ModeItems} \ {Null} = ModeBlocks
  BY DriverNames DEF ModeItems, ModeBlocks
<1>3. pc' = "exit" /\ live' = live \ Pointed(<<ModeItems>>)
  BY <1>1, <1>2, FreeDistinct
<1> QED BY <1>1, <1>2, <1>3

LEMMA ArgumentStep ==
  ASSUME MainInv, NEW span \in Spans, BtreeInv(span), Argument
  PROVE  MainInv' /\ BstInv' /\ \E wide \in Spans : BtreeInv(wide)'
<1> USE DEF Pcs, Started, TreePcs, BstPcs, BtreePcs
<1>1. MainInv' /\ pc' \in {"arguments", "fail", "exit"}
  <2>1. CASE Head(todo) \in {"bst", "btree16"} /\ append_mode(Head(todo)) /\ UNCHANGED status
    BY <2>1, ModeAppended DEF Argument, treeVars
  <2>2. CASE pc' = "fail" /\ UNCHANGED <<live, modes, status>>
    <3>1. UNCHANGED Driver /\ live' = live /\ status' = status /\ pc = "arguments" /\ pc' = "fail"
      BY <2>2 DEF Argument, treeVars, Driver
    <3>2. Checksum(queries)' = Checksum(queries) /\ ModeBlocks' = ModeBlocks
      BY <3>1 DEF ModeBlocks, Driver
    <3> QED BY <3>1, <3>2 DEF MainInv, Driver
  <2>3. CASE Free(<<ModeItems>>, "exit") /\ status' = 0 /\ UNCHANGED modes
    <3>1. UNCHANGED Driver /\ status' = 0 /\ pc = "arguments" /\ live = ModeBlocks
      BY <2>3 DEF Argument, treeVars, Driver, MainInv
    <3>2. pc' = "exit" /\ live' = {}
      BY <2>3, <3>1, FreeModes
    <3>3. Checksum(queries)' = Checksum(queries)
      BY <3>1 DEF Driver
    <3> QED BY <3>1, <3>2, <3>3 DEF MainInv, Driver
  <2> QED BY <2>1, <2>2, <2>3 DEF Argument
<1>2. pc \in Between /\ UNCHANGED <<btree, stack, ret>>
  BY DEF Argument, treeVars, Between
<1>3. btree' = NoBtree /\ stack' = <<>> /\ ret' = Null
  BY <1>2, NoneYet
<1>4. pc' \in Between \cup {"fail_modes", "fail", "exit"}
  BY <1>1 DEF Between
<1>5. BstInv' /\ \E wide \in Spans : BtreeInv(wide)'
  BY <1>3, <1>4, NoTree
<1> QED BY <1>1, <1>5

LEMMA DefaultModeStep ==
  ASSUME MainInv, NEW span \in Spans, BtreeInv(span), DefaultMode
  PROVE  MainInv' /\ BstInv' /\ \E wide \in Spans : BtreeInv(wide)'
<1>1. MainInv' /\ pc' \in {"arguments", "fail"}
  BY ModeAppended DEF DefaultMode, treeVars
<1>2. pc \in Between /\ UNCHANGED <<btree, stack, ret>>
  BY DEF DefaultMode, treeVars, Between
<1>3. btree' = NoBtree /\ stack' = <<>> /\ ret' = Null
  BY <1>2, NoneYet
<1>4. pc' \in Between \cup {"fail_modes", "fail", "exit"}
  BY <1>1 DEF Between
<1>5. BstInv' /\ \E wide \in Spans : BtreeInv(wide)'
  BY <1>3, <1>4, NoTree
<1> QED BY <1>1, <1>5

LEMMA MakeKeysStep ==
  ASSUME MainInv, NEW span \in Spans, BtreeInv(span), MakeKeys
  PROVE  MainInv' /\ BstInv' /\ \E wide \in Spans : BtreeInv(wide)'
<1> USE DEF Pcs, Started, TreePcs, BstPcs, BtreePcs
<1>1. UNCHANGED Driver /\ status' = status /\ pc = "arguments" /\ modes # <<>> /\ live = {Items}
  BY DEF MakeKeys, treeVars, Driver, MainInv, ModeBlocks
<1>2. Checksum(queries)' = Checksum(queries) /\ ModeBlocks' = ModeBlocks
  BY <1>1 DEF Driver, ModeBlocks
<1>3. \/ pc' = "make_queries" /\ key_count > 0 /\ live' = {Items, Keys}
      \/ pc' = "fail" /\ live' = live
  BY <1>1 DEF MakeKeys, Allocate
<1>4. MainInv'
  BY <1>1, <1>2, <1>3 DEF MainInv, Driver
<1>5. pc \in Between /\ UNCHANGED <<btree, stack, ret>>
  BY <1>1 DEF MakeKeys, treeVars, Between
<1>6. btree' = NoBtree /\ stack' = <<>> /\ ret' = Null
  BY <1>5, NoneYet
<1>7. pc' \in Between \cup {"fail_modes", "fail", "exit"}
  BY <1>3 DEF Between
<1> QED BY <1>4, <1>6, <1>7, NoTree

LEMMA MakeQueriesStep ==
  ASSUME MainInv, NEW span \in Spans, BtreeInv(span), MakeQueries
  PROVE  MainInv' /\ BstInv' /\ \E wide \in Spans : BtreeInv(wide)'
<1> USE DEF Pcs, Started, TreePcs, BstPcs, BtreePcs
<1>1. /\ UNCHANGED <<key_count, modes, lookup_count, reps, mi, rep, out>> /\ status' = status
      /\ pc = "make_queries" /\ live = {Items, Keys} /\ mi = 0 /\ rep = 0 /\ reps \in Nat \ {0}
      /\ modes # <<>> /\ status # 0
  <2>1. pc = "make_queries" /\ pc # "exit" /\ pc # "lookups"
    BY DEF MakeQueries
  <2>2. /\ live = {Items, Keys} /\ mi = 0 /\ rep = 0 /\ reps \in Nat \ {0}
        /\ modes # <<>> /\ status # 0
    BY <2>1 DEF MainInv
  <2>3. UNCHANGED <<key_count, modes, lookup_count, reps, mi, rep, out>> /\ status' = status
    BY DEF MakeQueries, treeVars
  <2> QED BY <2>1, <2>2, <2>3
<1>2. \/ /\ pc' = "modes" /\ live' = Base
         /\ queries' \in [0 .. lookup_count - 1 -> {Key(k) : k \in Index}]
      \/ pc' = "fail" /\ live' = {Items} /\ queries' = queries
  <2>1. CASE Allocate(Queries, "modes") /\ queries' \in [0 .. lookup_count - 1 -> {Key(k) : k \in Index}]
    BY <1>1, <2>1 DEF Allocate, Base
  <2>2. CASE Free(<<Keys>>, "fail") /\ UNCHANGED queries
    <3>1. Distinct(<<Keys>>) /\ Pointed(<<Keys>>) = {Keys} \ {Null}
      BY FewFreed, DriverNames
    <3>2. {Keys} \ {Null} = {Keys} /\ {Keys} \subseteq live /\ live \ {Keys} = {Items}
      BY <1>1, DriverNames
    <3>3. pc' = "fail" /\ live' = live \ Pointed(<<Keys>>)
      BY <2>2, <3>1, <3>2, FreeDistinct
    <3> QED BY <2>2, <3>1, <3>2, <3>3
  <2> QED BY <2>1, <2>2 DEF MakeQueries
<1>3. out = <<>>
  <2>1. out = Printed(mi * reps + rep, Checksum(queries))
    BY DEF MainInv, Printed
  <2> QED BY <1>1, <2>1, NothingPrinted
<1>5. out' = [l \in 1 .. mi' * reps' + rep' |-> <<(l - 1) \div reps', (l - 1) % reps', Checksum(queries)'>>]
  <2> DEFINE sum == Checksum(queries')
  <2>1. Printed(0 * reps + 0, sum) = <<>>
    BY <1>1, NothingPrinted
  <2>2. mi' = 0 /\ rep' = 0 /\ reps' = reps /\ out' = <<>>
    BY <1>1, <1>3
  <2>3. Checksum(queries)' = sum
    OBVIOUS
  <2> HIDE DEF sum
  <2>4. <<>> = [l \in 1 .. 0 * reps + 0 |-> <<(l - 1) \div reps, (l - 1) % reps, sum>>]
    BY <2>1 DEF Printed
  <2> QED BY <2>2, <2>3, <2>4
<1>6. ModeBlocks' = {Items} /\ {Key(k) : k \in Index}' = {Key(k) : k \in Index}
  BY <1>1 DEF ModeBlocks, Index
<1>7. MainInv'
  BY <1>1, <1>2, <1>5, <1>6 DEF MainInv
<1>8. pc \in Between /\ UNCHANGED <<btree, stack, ret>>
  BY <1>1 DEF MakeQueries, treeVars, Between
<1>9. btree' = NoBtree /\ stack' = <<>> /\ ret' = Null
  BY <1>8, NoneYet
<1>10. pc' \in Between \cup {"fail_modes", "fail", "exit"}
  BY <1>2 DEF Between
<1> QED BY <1>7, <1>9, <1>10, NoTree

LEMMA ModeStep ==
  ASSUME MainInv, NEW span \in Spans, BtreeInv(span), Mode
  PROVE  MainInv' /\ BstInv' /\ \E wide \in Spans : BtreeInv(wide)'
<1> USE DEF Pcs, Started, TreePcs, BstPcs, BtreePcs
<1>1. UNCHANGED Driver /\ pc = "modes" /\ live = Base /\ status # 0
  BY DEF Mode, treeVars, Driver, MainInv
<1>2. Checksum(queries)' = Checksum(queries) /\ ModeBlocks' = ModeBlocks
      /\ {Key(k) : k \in Index}' = {Key(k) : k \in Index}
  BY <1>1 DEF Driver, ModeBlocks, Index
<1>3. MainInv' /\ pc' \in {"bst_init", "btree_init", "exit"}
  <2>1. CASE mi < Len(modes)
    <3>1. live' = live /\ status' = status /\ pc' = IF modes[mi + 1] = "bst" THEN "bst_init" ELSE "btree_init"
      BY <2>1 DEF Mode
    <3>2. modes[mi + 1] \in {"bst", "btree16"}
      <4>1. modes \in Seq({"bst", "btree16"}) /\ mi + 1 \in 1 .. Len(modes)
        BY <2>1 DEF MainInv
      <4> QED BY <4>1
    <3>3. \/ pc' = "bst_init" /\ modes[mi + 1] = "bst"
          \/ pc' = "btree_init" /\ modes[mi + 1] = "btree16"
      BY <3>1, <3>2
    <3>4. modes' = modes /\ mi' = mi /\ rep' = rep
      BY <1>1 DEF Driver
    <3> QED BY <1>1, <1>2, <2>1, <3>1, <3>3, <3>4 DEF MainInv, Driver
  <2>2. CASE ~(mi < Len(modes))
    <3>1. Free(<<Keys, Queries, Items>>, "exit") /\ status' = 0
      BY <2>2 DEF Mode
    <3>2. Distinct(<<Keys, Queries, Items>>) /\ Pointed(<<Keys, Queries, Items>>) = Base
      BY AllFreed
    <3>4. pc' = "exit" /\ live' = live \ Base
      BY <1>1, <3>1, <3>2, FreeDistinct
    <3>5. mi = Len(modes)
      <4>1. Len(modes) \in Nat /\ mi \in 0 .. Len(modes)
        BY DEF MainInv
      <4> QED BY <2>2, <4>1
    <3> QED BY <1>1, <1>2, <3>1, <3>4, <3>5 DEF MainInv, Driver
  <2> QED BY <2>1, <2>2
<1>4. pc \in Between /\ UNCHANGED <<btree, stack, ret>>
  BY <1>1 DEF Mode, treeVars, Between
<1>5. btree' = NoBtree /\ stack' = <<>> /\ ret' = Null
  BY <1>4, NoneYet
<1>6. pc' \in Between \cup {"fail_modes", "fail", "exit"}
  BY <1>3 DEF Between
<1> QED BY <1>3, <1>5, <1>6, NoTree

LEMMA FailModesStep ==
  ASSUME MainInv, NEW span \in Spans, FailModes
  PROVE  MainInv' /\ BstInv' /\ \E wide \in Spans : BtreeInv(wide)'
<1> USE DEF Pcs, Started, TreePcs, BstPcs, BtreePcs
<1>1. UNCHANGED Driver /\ pc = "fail_modes" /\ live = Base /\ status' = status /\ modes # <<>>
  BY DEF FailModes, treeVars, Driver, MainInv
<1>2. Checksum(queries)' = Checksum(queries) /\ ModeBlocks' = {Items}
  BY <1>1 DEF Driver, ModeBlocks
<1>3. pc' = "fail" /\ live' = {Items}
  <2>1. Distinct(<<Keys, Queries>>) /\ Pointed(<<Keys, Queries>>) = {Keys, Queries} \ {Null}
    BY FewFreed, DriverNames
  <2>2. {Keys, Queries} \ {Null} = {Keys, Queries} /\ {Keys, Queries} \subseteq live /\ live \ {Keys, Queries} = {Items}
    BY <1>1, DriverNames DEF Base
  <2>3. Free(<<Keys, Queries>>, "fail")
    BY DEF FailModes
  <2>4. pc' = "fail" /\ live' = live \ Pointed(<<Keys, Queries>>)
    BY <2>1, <2>2, <2>3, FreeDistinct
  <2> QED BY <2>1, <2>2, <2>4
<1>4. MainInv'
  BY <1>1, <1>2, <1>3 DEF MainInv, Driver
<1>5. pc' \in Between \cup {"fail_modes", "fail", "exit"} /\ pc' \notin Between
  BY <1>3 DEF Between
<1> QED BY <1>4, <1>5, NoTree

LEMMA FailStep ==
  ASSUME MainInv, NEW span \in Spans, Fail
  PROVE  MainInv' /\ BstInv' /\ \E wide \in Spans : BtreeInv(wide)'
<1> USE DEF Pcs, Started, TreePcs, BstPcs, BtreePcs
<1>1. UNCHANGED Driver /\ pc = "fail" /\ live = ModeBlocks /\ status' = 1 /\ Free(<<ModeItems>>, "exit")
  BY DEF Fail, treeVars, Driver, MainInv
<1>2. Checksum(queries)' = Checksum(queries)
  BY <1>1 DEF Driver
<1>3. pc' = "exit" /\ live' = {}
  BY <1>1, FreeModes
<1>4. MainInv'
  BY <1>1, <1>2, <1>3 DEF MainInv, Driver
<1>5. pc' \in Between \cup {"fail_modes", "fail", "exit"} /\ pc' \notin Between
  BY <1>3 DEF Between
<1> QED BY <1>4, <1>5, NoTree

(* What the invariant says of the trees depends on their variables only. *)
LEMMA BstSame ==
  ASSUME UNCHANGED <<treeVars, pc, live, modes, mi>>, BstInv
  PROVE  BstInv'
<1>1. /\ key_count' = key_count /\ bst' = bst /\ perm' = perm /\ i' = i
      /\ pc' = pc /\ live' = live /\ modes' = modes /\ mi' = mi
  BY DEF treeVars
<1>2. Index' = Index /\ BstBlocks' = BstBlocks
  BY <1>1 DEF Index, BstBlocks
<1>3. AllNull' <=> AllNull
  BY <1>1, <1>2 DEF AllNull
<1>4. Permutation(perm)' <=> Permutation(perm)
  BY <1>1, <1>2 DEF Permutation
<1>5. Allocated(i, perm)' <=> Allocated(i, perm)
  BY <1>1, <1>2 DEF Allocated
<1>6. BstDone' <=> BstDone
  <2>1. Linked(bst.node, bst.nodes, 0, key_count)' <=> Linked(bst.node, bst.nodes, 0, key_count)
    BY <1>1 DEF Linked
  <2>2. Top(bst.nodes, 0, key_count)' = Top(bst.nodes, 0, key_count)
    BY <1>1
  <2> QED BY <1>1, <1>2, <2>1, <2>2 DEF BstDone
<1> QED BY <1>1, <1>2, <1>3, <1>4, <1>5, <1>6 DEF BstInv

LEMMA BtreeSame ==
  ASSUME UNCHANGED <<treeVars, pc, live, modes, mi>>, NEW span \in Spans, BtreeInv(span)
  PROVE  BtreeInv(span)'
<1>1. /\ key_count' = key_count /\ btree' = btree /\ stack' = stack /\ ret' = ret
      /\ pc' = pc /\ live' = live /\ modes' = modes /\ mi' = mi
  BY DEF treeVars
<1>2. /\ Building(btree.node, stack, ret, span, 1)' <=> Building(btree.node, stack, ret, span, 1)
      /\ Building(btree.node, stack, Null, span, 2)' <=> Building(btree.node, stack, Null, span, 2)
      /\ Building(btree.node, <<>>, Node(<<>>), span, 1)' <=> Building(btree.node, <<>>, Node(<<>>), span, 1)
      /\ Fresh(stack[1], btree.node, span)' <=> Fresh(stack[1], btree.node, span)
  <2>1. /\ Building(btree.node, stack, ret, span, 1)' <=> Building(btree.node', stack', ret', span, 1)
        /\ Building(btree.node, stack, Null, span, 2)' <=> Building(btree.node', stack', Null, span, 2)
        /\ Building(btree.node, <<>>, Node(<<>>), span, 1)' <=> Building(btree.node', <<>>, Node(<<>>), span, 1)
        /\ Fresh(stack[1], btree.node, span)' <=> Fresh(stack'[1], btree.node', span)
    BY <1>1, Primed
  <2> QED BY <1>1, <2>1
<1>3. BtreeLive' <=> BtreeLive
  BY <1>1 DEF BtreeLive
<1> QED BY <1>1, <1>2, <1>3 DEF BtreeInv

LEMMA RepetitionStep ==
  ASSUME MainInv, BstInv, NEW span \in Spans, BtreeInv(span), Repetition
  PROVE  MainInv' /\ BstInv' /\ \E wide \in Spans : BtreeInv(wide)'
<1> USE DEF Pcs, Started, TreePcs, BstPcs, BtreePcs
<1>1. /\ UNCHANGED <<treeVars, pc, live, modes, mi>> /\ key_count' = key_count
      /\ UNCHANGED <<lookup_count, reps, queries, status>> /\ pc = "lookups" /\ rep < reps /\ rep' = rep + 1
  BY DEF Repetition, treeVars
<1>2. BstInv' /\ BtreeInv(span)'
  BY <1>1, BstSame, BtreeSame
<1>3. out' = Append(out, <<mi, rep, Checksum(queries)>>)
  <2>1. [q \in DOMAIN queries |-> Lookup(queries[q])] = queries
    BY <1>1, QueriesFound
  <2>2. out' = Append(out, <<mi, rep, Checksum([q \in DOMAIN queries |-> Lookup(queries[q])])>>)
    BY DEF Repetition
  <2> QED BY <2>1, <2>2
<1>4. reps \in Nat \ {0} /\ mi \in Nat /\ rep \in 0 .. reps - 1 /\ out = Printed(mi * reps + rep, Checksum(queries))
  <2>1. reps \in Nat \ {0} /\ mi \in 0 .. Len(modes) /\ modes \in Seq({"bst", "btree16"}) /\ rep \in 0 .. reps
    BY DEF MainInv
  <2>2. out = Printed(mi * reps + rep, Checksum(queries))
    BY DEF MainInv, Printed
  <2>3. mi \in Nat /\ rep \in 0 .. reps - 1
    BY <1>1, <2>1
  <2> QED BY <2>1, <2>2, <2>3
<1>5. out' = Printed(mi * reps + (rep + 1), Checksum(queries))
  <2> DEFINE sum == Checksum(queries)
  <2>1. out' = Append(Printed(mi * reps + rep, sum), <<mi, rep, sum>>)
    BY <1>3, <1>4
  <2> HIDE DEF sum
  <2>2. out' = Printed(mi * reps + (rep + 1), sum)
    BY <1>4, <2>1, PrintsOne
  <2> QED BY <2>2 DEF sum
<1>6. Checksum(queries)' = Checksum(queries)
  BY <1>1
<1>7. out' = [l \in 1 .. mi' * reps' + rep' |-> <<(l - 1) \div reps', (l - 1) % reps', Checksum(queries)'>>]
  BY <1>1, <1>5, <1>6 DEF Printed
<1>8. rep' \in 0 .. reps'
  BY <1>1, <1>4
<1>9. {Key(k) : k \in Index}' = {Key(k) : k \in Index} /\ ModeBlocks' = ModeBlocks
  BY <1>1 DEF Index, ModeBlocks
<1>10. MainInv'
  BY <1>1, <1>7, <1>8, <1>9 DEF MainInv
<1> QED BY <1>2, <1>10

LEMMA DestroyBst ==
  ASSUME MainInv, BstInv, pc = "lookups", modes[mi + 1] = "bst", Free(BstOwned, "modes")
  PROVE  pc' = "modes" /\ live' = Base
<1>1. live = Base \cup {Table} \cup BstBlocks /\ BstDone /\ key_count \in Nat
  BY DEF BstInv, MainInv
<1>2. \A x \in BstBlocks : x # Null /\ x # Table /\ x # Perm /\ x \notin Base
  BY BstNames DEF BstBlocks
<1>3. Table \notin Base /\ Table # Null
  BY BstNames
<1>4. /\ bst.nodes \in [Index -> BstBlocks]
      /\ \A j, k \in Index : bst.nodes[j] = bst.nodes[k] => j = k
      /\ \A x \in BstBlocks : \E k \in Index : bst.nodes[k] = x
  BY <1>1 DEF BstDone
<1>5. \A k \in Index : bst.nodes[k] \in BstBlocks
  BY <1>4
<1>6. \A k \in Index : bst.nodes[k] # Table /\ bst.nodes[k] # Perm
  BY <1>2, <1>5
<1>7. /\ Distinct(BstOwned)
      /\ \A x : x \in Pointed(BstOwned) <=> x = Table \/ (x # Null /\ \E k \in Index : bst.nodes[k] = x)
  BY <1>1, <1>4, <1>6, OwnedIs
<1>8. \A x : x \in Pointed(BstOwned) <=> x = Table \/ x \in BstBlocks
  BY <1>2, <1>4, <1>5, <1>7
<1>9. pc' = "modes" /\ live' = live \ Pointed(BstOwned)
  <2>1. Pointed(BstOwned) \subseteq live
    BY <1>1, <1>8
  <2> QED BY <1>7, <2>1, FreeDistinct
<1> QED BY <1>1, <1>2, <1>3, <1>8, <1>9

LEMMA DestroyBtree ==
  ASSUME MainInv, NEW span \in Spans, BtreeInv(span), pc = "lookups", modes[mi + 1] = "btree16",
         Free(BtreeOwned, "modes")
  PROVE  pc' = "modes" /\ live' = Base
<1> DEFINE D == DOMAIN btree.node
           S == D \cup {TreeKeys}
           s == destroy_btree_rec(Node(<<>>))
           t == <<TreeKeys>>
<1>1. /\ btree = [root |-> Node(<<>>), node |-> btree.node] /\ live = Base \cup {TreeKeys} \cup D
      /\ Building(btree.node, <<>>, Node(<<>>), span, 1) /\ key_count \in Nat
  BY DEF BtreeInv, BtreeLive, MainInv
<1>2. Once(s, D) /\ \A x \in D : In(x, s)
  BY <1>1, DestroysAll
<1>3. BtreeOwned = s \o t
  <2>1. btree.root = Node(<<>>)
    BY <1>1
  <2> QED BY <2>1 DEF BtreeOwned
<1>4. ASSUME NEW x \in D PROVE x # TreeKeys /\ x # Null /\ x \notin Base
  <2>1. PICK q \in Paths : x = Node(q)
    BY <1>1 DEF Building, TreeFits
  <2> QED BY <2>1, NodeNames
<1>5. TreeKeys # Null /\ TreeKeys \notin Base
  BY NodeNames
<1> HIDE DEF s, D
<1>6. s \in Seq(D) /\ (\A x : In(x, s) <=> x \in D) /\ s \in Seq(S) /\ Once(s, S)
  <2>1. s \in Seq(D) /\ \A j, k \in 1 .. Len(s) : s[j] = s[k] => j = k
    BY <1>2 DEF Once
  <2>2. \A x : In(x, s) => x \in D
    BY <2>1 DEF In
  <2>3. s \in Seq(S)
    BY <2>1
  <2> QED BY <1>2, <2>1, <2>2, <2>3 DEF Once
<1>7. t \in Seq(S) /\ Once(t, S) /\ \A x : In(x, t) <=> x = TreeKeys
  <2>1. TreeKeys \in S
    OBVIOUS
  <2> HIDE DEF S
  <2> QED BY <1>6, <2>1, InHere
<1> HIDE DEF S, t
<1>8. Once(s \o t, S) /\ \A x : In(x, s \o t) <=> x \in D \/ x = TreeKeys
  <2>1. \A x : ~(In(x, s) /\ In(x, t))
    BY <1>4, <1>6, <1>7
  <2> QED BY <1>6, <1>7, <2>1, Joined
<1>9. pc' = "modes" /\ live' = {x \in live : ~In(x, s \o t)}
  <2>1. \A x : In(x, s \o t) => x \in live /\ x # Null
    BY <1>1, <1>4, <1>5, <1>8
  <2>2. Free(s \o t, "modes")
    BY <1>3
  <2> QED BY <1>8, <2>1, <2>2, FreeIs
<1> QED BY <1>1, <1>4, <1>5, <1>8, <1>9

LEMMA DestroyStep ==
  ASSUME MainInv, BstInv, NEW span \in Spans, BtreeInv(span), Destroy
  PROVE  MainInv' /\ BstInv' /\ \E wide \in Spans : BtreeInv(wide)'
<1> USE DEF Pcs, Started, TreePcs, BstPcs, BtreePcs
<1>1. /\ UNCHANGED <<key_count, modes, lookup_count, reps, queries, out, status, stack, ret>>
      /\ pc = "lookups" /\ rep = reps /\ mi' = mi + 1 /\ rep' = 0
  BY DEF Destroy
<1>2. modes \in Seq({"bst", "btree16"}) /\ mi \in Nat /\ mi < Len(modes) /\ Len(modes) \in Nat /\ reps \in Nat \ {0}
  <2>1. modes \in Seq({"bst", "btree16"}) /\ mi \in 0 .. Len(modes) /\ mi < Len(modes) /\ reps \in Nat \ {0}
    BY <1>1 DEF MainInv
  <2> QED BY <2>1
<1>3. modes[mi + 1] \in {"bst", "btree16"}
  <2>1. mi + 1 \in 1 .. Len(modes)
    BY <1>2
  <2> QED BY <1>2, <2>1
<1>4. pc' = "modes" /\ live' = Base /\ btree' = NoBtree
  <2>1. CASE modes[mi + 1] = "bst"
    <3>1. Free(BstOwned, "modes") /\ btree' = btree
      BY <2>1 DEF Destroy
    <3>2. btree = NoBtree
      BY <1>1, <2>1 DEF BtreeInv
    <3> QED BY <1>1, <2>1, <3>1, <3>2, DestroyBst
  <2>2. CASE modes[mi + 1] = "btree16"
    <3>1. Free(BtreeOwned, "modes") /\ btree' = NoBtree
      BY <2>2 DEF Destroy
    <3> QED BY <1>1, <2>2, <3>1, DestroyBtree
  <2> QED BY <1>3, <2>1, <2>2
<1>5. stack' = <<>> /\ ret' = Null
  BY <1>1 DEF BtreeInv
<1>6. BstInv' /\ \E wide \in Spans : BtreeInv(wide)'
  <2>1. pc' \in Between \cup {"fail_modes", "fail", "exit"}
    BY <1>4 DEF Between
  <2> QED BY <1>4, <1>5, <2>1, NoTree
<1>7. out' = [l \in 1 .. mi' * reps' + rep' |-> <<(l - 1) \div reps', (l - 1) % reps', Checksum(queries)'>>]
  <2>1. (mi + 1) * reps + 0 = mi * reps + rep
    BY <1>1, <1>2
  <2>2. Checksum(queries)' = Checksum(queries) /\ mi' = mi + 1 /\ rep' = 0 /\ reps' = reps /\ out' = out
    BY <1>1
  <2>3. out = [l \in 1 .. mi * reps + rep |-> <<(l - 1) \div reps, (l - 1) % reps, Checksum(queries)>>]
    BY DEF MainInv
  <2> QED BY <2>1, <2>2, <2>3
<1>8. mi' \in 0 .. Len(modes') /\ rep' \in 0 .. reps'
  BY <1>1, <1>2
<1>9. {Key(k) : k \in Index}' = {Key(k) : k \in Index} /\ ModeBlocks' = ModeBlocks
  BY <1>1 DEF Index, ModeBlocks
<1>10. status' # 0
  BY <1>1 DEF MainInv
<1>11. MainInv'
  BY <1>1, <1>4, <1>7, <1>8, <1>9, <1>10 DEF MainInv
<1> QED BY <1>6, <1>11

(* A step of the BST leaves the B-tree alone. *)
LEMMA BtreeStays ==
  ASSUME MainInv, NEW span \in Spans, BtreeInv(span), pc \in BstPcs, pc' \in BstPcs \cup {"lookups", "fail_modes"},
         UNCHANGED <<btree, stack, ret, modes, mi>>
  PROVE  BtreeInv(span)'
<1>1. btree = NoBtree /\ stack = <<>> /\ ret = Null
  BY DEF BtreeInv, BstPcs
<1>2. modes'[mi' + 1] = "bst"
  BY DEF MainInv
<1> QED BY <1>1, <1>2 DEF BtreeInv, BstPcs

LEMMA TreeNextStep ==
  ASSUME MainInv, BstInv, NEW span \in Spans, BtreeInv(span), TreeNext
  PROVE  MainInv' /\ BstInv' /\ \E wide \in Spans : BtreeInv(wide)'
<1>1. UNCHANGED <<todo, modes, lookup_count, reps, queries, mi, rep, out, status>>
  BY DEF TreeNext
<1>2. CASE BstNodes \/ BstPerm \/ Shuffle \/ BstNode \/ BstLink
  <2>1. /\ BstInv' /\ pc' \in {"bst_perm", "shuffle", "bst_node", "lookups", "fail_modes"}
        /\ pc' = "fail_modes" => live' = Base
    BY <1>2, BstNodesStep, BstPermStep, ShuffleStep, BstNodeStep, BstLinkStep
  <2>2. /\ UNCHANGED <<key_count, btree, stack, ret>> /\ pc \in BstPcs
    BY <1>2 DEF BstNodes, BstPerm, Shuffle, BstNode, BstLink, BstPcs
  <2>3. pc' \in BstPcs \cup {"lookups", "fail_modes"}
    BY <2>1 DEF BstPcs
  <2>4. BtreeInv(span)'
    BY <1>1, <2>2, <2>3, BtreeStays
  <2>5. MainInv'
    BY <1>1, <2>1, <2>2, <2>3, MainStays
  <2> QED BY <2>1, <2>4, <2>5
<1>3. CASE BtreeKeys \/ Enter \/ ReturnNull \/ ReturnNode \/ BtreeRoot
  <2>1. /\ \E wide \in Spans : BtreeInv(wide)'
        /\ pc' \in {"enter", "return", "lookups", "fail_modes"} /\ (pc' = "fail_modes" => live' = Base)
    <3>1. CASE BtreeKeys
      BY <3>1, BtreeKeysStep
    <3>2. CASE Enter
      BY <3>2, EnterStep
    <3>3. CASE ReturnNull
      BY <3>3, ReturnNullStep
    <3>4. CASE ReturnNode
      BY <3>4, ReturnNodeStep
    <3>5. CASE BtreeRoot
      BY <1>1, <3>5, BtreeRootStep
    <3> QED BY <1>3, <3>1, <3>2, <3>3, <3>4, <3>5
  <2>2. UNCHANGED key_count /\ pc \in BtreePcs
    BY <1>3 DEF BtreeKeys, Enter, ReturnNull, ReturnNode, BtreeRoot, BtreePcs
  <2>3. pc' \in BtreePcs \cup {"lookups", "fail_modes"}
    BY <2>1 DEF BtreePcs
  <2>4. MainInv'
    BY <1>1, <2>1, <2>2, <2>3, MainStays
  <2>5. BstInv'
    <3>1. modes'[mi' + 1] = "btree16"
      BY <1>1, <2>2 DEF MainInv
    <3> QED BY <2>1, <3>1 DEF BstInv
  <2> QED BY <2>1, <2>4, <2>5
<1> QED BY <1>2, <1>3 DEF TreeNext, TreeStep

LEMMA Starts == Init => IInv
<1> SUFFICES ASSUME Init PROVE IInv
  OBVIOUS
<1>1. /\ key_count \in Nat /\ lookup_count \in Nat /\ reps \in Nat \ {0}
      /\ pc = "arguments" /\ live = {} /\ modes = <<>> /\ queries = <<>> /\ mi = 0 /\ rep = 0
      /\ out = <<>> /\ status = -1 /\ btree = NoBtree /\ stack = <<>> /\ ret = Null
  BY TreeAssumption, BenchAssumption DEF Init, TreesInit
<1>2. out = [l \in 1 .. mi * reps + rep |-> <<(l - 1) \div reps, (l - 1) % reps, Checksum(queries)>>]
  <2> DEFINE sum == Checksum(queries)
  <2>1. Printed(0 * reps + 0, sum) = <<>>
    BY <1>1, NothingPrinted
  <2> HIDE DEF sum
  <2>2. out = [l \in 1 .. mi * reps + rep |-> <<(l - 1) \div reps, (l - 1) % reps, sum>>]
    BY <1>1, <2>1 DEF Printed
  <2> QED BY <2>2 DEF sum
<1>3. MainInv
  <2>1. modes \in Seq({"bst", "btree16"}) /\ Len(modes) = 0 /\ mi \in 0 .. Len(modes) /\ rep \in 0 .. reps
    <3>1. <<>> \in Seq({"bst", "btree16"}) /\ Len(<<>>) = 0
      OBVIOUS
    <3> QED BY <1>1, <3>1
  <2>2. live = ModeBlocks
    BY <1>1 DEF ModeBlocks
  <2> QED BY <1>1, <1>2, <2>1, <2>2 DEF MainInv, Pcs, Started, TreePcs, BstPcs, BtreePcs
<1>4. BstInv
  BY <1>1 DEF BstInv
<1>5. \E span \in Spans : BtreeInv(span)
  <2>1. [q \in Paths |-> [lo |-> 0, hi |-> 0]] \in Spans
    BY DEF Spans
  <2>2. \A span \in Spans : BtreeInv(span)
    BY <1>1 DEF BtreeInv
  <2> QED BY <2>1, <2>2
<1> QED BY <1>3, <1>4, <1>5 DEF IInv

LEMMA Stutters ==
  ASSUME MainInv, UNCHANGED vars
  PROVE  MainInv'
<1>1. /\ UNCHANGED <<key_count, pc, live, todo, modes, lookup_count, reps, queries, mi, rep, out, status>>
  BY DEF vars, treeVars
<1>2. Checksum(queries)' = Checksum(queries) /\ ModeBlocks' = ModeBlocks
      /\ {Key(k) : k \in Index}' = {Key(k) : k \in Index}
  BY <1>1 DEF ModeBlocks, Index
<1> QED BY <1>1, <1>2 DEF MainInv

LEMMA Inductive == IInv /\ [Next]_vars => IInv'
<1> SUFFICES ASSUME MainInv, BstInv, NEW span \in Spans, BtreeInv(span), [Next]_vars
             PROVE  MainInv' /\ BstInv' /\ \E wide \in Spans : BtreeInv(wide)'
  BY DEF IInv
<1>1. CASE Argument
  BY <1>1, ArgumentStep
<1>2. CASE DefaultMode
  BY <1>2, DefaultModeStep
<1>3. CASE MakeKeys
  BY <1>3, MakeKeysStep
<1>4. CASE MakeQueries
  BY <1>4, MakeQueriesStep
<1>5. CASE Mode
  BY <1>5, ModeStep
<1>6. CASE TreeNext
  BY <1>6, TreeNextStep
<1>7. CASE Repetition
  BY <1>7, RepetitionStep
<1>8. CASE Destroy
  BY <1>8, DestroyStep
<1>9. CASE FailModes
  BY <1>9, FailModesStep
<1>10. CASE Fail
  BY <1>10, FailStep
<1>11. CASE UNCHANGED vars
  <2>1. MainInv'
    BY <1>11, Stutters
  <2>2. UNCHANGED <<treeVars, pc, live, modes, mi>>
    BY <1>11 DEF vars
  <2>3. BstInv' /\ BtreeInv(span)'
    BY <2>2, BstSame, BtreeSame
  <2> QED BY <2>1, <2>3
<1> QED BY <1>1, <1>2, <1>3, <1>4, <1>5, <1>6, <1>7, <1>8, <1>9, <1>10, <1>11 DEF Next

LEMMA Invariance == Spec => []IInv
<1>1. Init => IInv
  BY Starts
<1>2. IInv /\ [Next]_vars => IInv'
  BY Inductive
<1> QED BY <1>1, <1>2, PTL DEF Spec

(* Whichever allocation fails, of any node at any depth of any tree, the   *)
(* program frees each block once and exits with none left.                 *)
THEOREM BenchLeaksNothing == Spec => []NothingLeaks
<1>1. IInv => NothingLeaks
  <2>1. MainInv => NothingLeaks
    BY DEF MainInv, NothingLeaks, Pcs, Started, TreePcs, BstPcs, BtreePcs
  <2> QED BY <2>1 DEF IInv
<1> QED BY <1>1, Invariance, PTL

(* A finished tree of either kind finds every key and nothing else. *)
THEOREM TreesFindExactly == Spec => []FindsExactly
<1>1. IInv => FindsExactly
  <2> SUFFICES ASSUME MainInv, BstInv, NEW span \in Spans, BtreeInv(span), pc = "lookups",
                      NEW k \in 0 .. 2 * key_count + 1
               PROVE  Lookup(k) = IF k \in {Key(j) : j \in Index} THEN k ELSE -1
    BY DEF IInv, FindsExactly
  <2> QED BY LooksUp
<1> QED BY <1>1, Invariance, PTL

(* The leaves of a finished B-tree share the keys out. *)
THEOREM BtreeLeavesTile == Spec => []LeavesTile
<1>1. IInv => LeavesTile
  <2> SUFFICES ASSUME MainInv, BstInv, NEW span \in Spans, BtreeInv(span),
                      pc = "lookups", modes[mi + 1] = "btree16"
               PROVE  Tiled(btree.node)
    BY DEF IInv, LeavesTile, Tiled
  <2>1. Building(btree.node, <<>>, Node(<<>>), span, 1) /\ key_count \in Nat
    BY DEF BtreeInv, MainInv
  <2>2. Complete(btree.node, span)
    BY <2>1, CompleteIs
  <2> QED BY <2>1, <2>2, Tiles
<1> QED BY <1>1, Invariance, PTL

(* All modes and repetitions print the sum of the queries, one line each,  *)
(* in order.                                                               *)
THEOREM ChecksumsAgree == Spec => []SameChecksum
<1>1. IInv => SameChecksum
  <2> SUFFICES ASSUME MainInv PROVE SameChecksum
    BY DEF IInv
  <2> DEFINE sum == Checksum(queries)
  <2>1. out = [l \in 1 .. mi * reps + rep |-> <<(l - 1) \div reps, (l - 1) % reps, sum>>]
    BY DEF MainInv
  <2>2. status = 0 /\ queries # <<>> => mi = Len(modes) /\ rep = 0
    BY DEF MainInv
  <2>3. mi \in Nat /\ reps \in Nat \ {0} /\ Len(modes) \in Nat
    <3>1. modes \in Seq({"bst", "btree16"}) /\ mi \in 0 .. Len(modes) /\ reps \in Nat \ {0}
      BY DEF MainInv
    <3> QED BY <3>1
  <2> HIDE DEF sum
  <2>4. ASSUME NEW l \in DOMAIN out
        PROVE  out[l][1] = (l - 1) \div reps /\ out[l][2] = (l - 1) % reps /\ out[l][3] = sum
    <3>1. out[l] = <<(l - 1) \div reps, (l - 1) % reps, sum>>
      BY <2>1, <2>4
    <3> QED BY <3>1
  <2>5. ASSUME mi = Len(modes), rep = 0 PROVE DOMAIN out = 1 .. Len(modes) * reps
    <3>1. mi * reps + rep = Len(modes) * reps
      BY <2>3, <2>5
    <3> QED BY <2>1, <3>1
  <2> QED BY <2>2, <2>4, <2>5 DEF SameChecksum, sum
<1> QED BY <1>1, Invariance, PTL
==============================================================================
