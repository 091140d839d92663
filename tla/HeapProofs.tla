----------------------------- MODULE HeapProofs -----------------------------
(***************************************************************************)
(* The linked-list cache lab, for every length, stride and size of the     *)
(* words: list_build and list_destroy lose no block and free none twice,   *)
(* whichever allocations fail (IInv); a built list is one path through all *)
(* its nodes, whatever the shuffle did, both algorithms find its middle,   *)
(* and the nodes of a page-spread list do not overlap (PathInv).           *)
(*                                                                         *)
(* And the two drivers of the dispatch benchmark, for any arguments: they  *)
(* free every block once, whichever allocations fail (DriverInv).          *)
(***************************************************************************)
EXTENDS ListBuild, DispatchBench, Facts

(* The blocks are told apart by their names. *)
LEMMA Distinct ==
  /\ Storage # Null /\ Table # Null /\ Indices # Null
  /\ Storage # Table /\ Storage # Indices /\ Table # Indices
  /\ \A j : Block(j) # Null /\ Block(j) # Table /\ Block(j) # Storage /\ Block(j) # Indices
  /\ \A j, k : Block(j) = Block(k) => j = k
BY DEF Storage, Table, Indices, Null, Block

(* The node blocks and then the table: no pointer twice. *)
LEMMA PointedNodes ==
  ASSUME NEW m \in Nat
  PROVE  LET s == Append(NodeBlocks(m), Table)
         IN  /\ Pointed(s) = {Table} \cup Nodes(m)
             /\ \A j, k \in DOMAIN s : s[j] = s[k] => j = k
<1> DEFINE s == Append(NodeBlocks(m), Table)
<1>1. NodeBlocks(m) \in Seq({Block(j) : j \in Int}) /\ Len(NodeBlocks(m)) = m
  BY DEF NodeBlocks
<1>2. /\ DOMAIN s = 1 .. m + 1
      /\ \A k \in 1 .. m + 1 : s[k] = IF k <= m THEN Block(k - 1) ELSE Table
  BY <1>1 DEF NodeBlocks
<1> HIDE DEF s
<1>3. \A j, k \in DOMAIN s : s[j] = s[k] => j = k
  <2> SUFFICES ASSUME NEW j \in 1 .. m + 1, NEW k \in 1 .. m + 1, s[j] = s[k]  PROVE j = k
    BY <1>2
  <2>1. CASE j <= m /\ k <= m
    BY <1>2, <2>1, Distinct
  <2>2. CASE ~(j <= m /\ k <= m)
    BY <1>2, <2>2, Distinct
  <2> QED BY <2>1, <2>2
<1>4. Pointed(s) = {Table} \cup Nodes(m)
  <2>1. \A k \in 1 .. m + 1 : s[k] \in {Table} \cup Nodes(m) /\ s[k] # Null
    BY <1>2, Distinct DEF Nodes
  <2>2. s[m + 1] = Table
    BY <1>2
  <2>3. \A j \in 0 .. m - 1 : s[j + 1] = Block(j) /\ j + 1 \in 1 .. m + 1
    BY <1>2
  <2> QED BY <1>2, <2>1, <2>2, <2>3, Distinct DEF Pointed, Nodes
<1> QED BY <1>3, <1>4 DEF s

(* The unwinding of build_malloc_nodes frees every node so far and the table. *)
LEMMA FreeNodes ==
  ASSUME NEW m \in Nat, NEW then,
         {Table} \cup Nodes(m) \subseteq live,
         Free(Append(NodeBlocks(m), Table), then)
  PROVE  live' = live \ ({Table} \cup Nodes(m)) /\ pc' = then
<1> DEFINE s == Append(NodeBlocks(m), Table)
<1>1. Pointed(s) = {Table} \cup Nodes(m) /\ (\A j, k \in DOMAIN s : s[j] = s[k] => j = k)
  BY PointedNodes
<1> HIDE DEF s
<1>2. Freeable(s)
  BY <1>1 DEF Freeable
<1>3. Free(s, then)
  BY DEF s
<1> QED BY <1>1, <1>2, <1>3 DEF Free

(* Freeing two pointers, either of which may be NULL, and one of them. *)
LEMMA FreeTwo ==
  ASSUME NEW a, NEW b, NEW then, {a, b} \ {Null} \subseteq live, a # b \/ a = Null,
         Free(<<a, b>>, then)
  PROVE  live' = live \ ({a, b} \ {Null}) /\ pc' = then
<1> DEFINE s == <<a, b>>
<1>1. DOMAIN s = {1, 2} /\ s[1] = a /\ s[2] = b
  OBVIOUS
<1>2. Free(s, then)
  BY DEF s
<1> HIDE DEF s
<1>3. Pointed(s) = {a, b} \ {Null}
  BY <1>1 DEF Pointed
<1>4. Freeable(s)
  <2>1. \A j, k \in {1, 2} : s[j] = s[k] /\ s[j] # Null => j = k
    BY <1>1
  <2> QED BY <1>1, <1>3, <2>1 DEF Freeable
<1> QED BY <1>2, <1>3, <1>4 DEF Free

(* Freeing one live block. *)
LEMMA FreeOne ==
  ASSUME NEW a, NEW then, a \in live, a # Null, Free(<<a>>, then)
  PROVE  live' = live \ {a} /\ pc' = then
<1>1. Pointed(<<a>>) = {a}
  BY DEF Pointed
<1>2. Freeable(<<a>>)
  BY <1>1 DEF Freeable
<1> QED BY <1>1, <1>2 DEF Free

----------------------------------------------------------------------------
(* Before the first trial nothing is allocated. *)
LEMMA InitIInv == Init => IInv
BY SizeAssumption DEF Init, IInv, Frame, OwnedByLocals, OwnedByList, Zeroed, NoLocal, Modes, Pcs

(* build_contiguous: whichever of its two allocations fails. *)
LEMMA ContiguousIInv ==
  ASSUME IInv, ContiguousNodes \/ ContiguousViews \/ ContiguousCheck
  PROVE  IInv'
<1>1. CASE ContiguousNodes
  BY <1>1, Distinct DEF ContiguousNodes, Allocate, IInv, Frame, OwnedByLocals, OwnedByList,
                        NoLocal, Modes, Pcs
<1>2. CASE ContiguousViews
  BY <1>2, Distinct DEF ContiguousViews, Allocate, IInv, Frame, OwnedByLocals, OwnedByList,
                        Modes, Pcs
<1>3. CASE ContiguousCheck
  <2>1. CASE local.nodes = Null \/ local.views = Null
    <3>1. live' = {} /\ pc' = "failed"
      BY <1>3, <2>1, FreeTwo, Distinct DEF ContiguousCheck, IInv, OwnedByLocals
    <3> QED BY <1>3, <2>1, <3>1 DEF ContiguousCheck, IInv, Frame, OwnedByLocals, OwnedByList, Modes, Pcs
  <2>2. CASE ~(local.nodes = Null \/ local.views = Null)
    BY <1>3, <2>2, Distinct DEF ContiguousCheck, Filled, IInv, Frame, OwnedByLocals, OwnedByList,
                                Modes, Pcs
  <2> QED BY <2>1, <2>2
<1> QED BY <1>1, <1>2, <1>3

(* build_malloc_nodes: the table, each node, the link or the fetch of the indices. *)
LEMMA MallocIInv ==
  ASSUME IInv, MallocTable \/ MallocNode \/ MallocLink
  PROVE  IInv'
<1>1. CASE MallocTable
  <2>1. Nodes(0) = {}
    BY DEF Nodes
  <2> QED BY <1>1, <2>1, Distinct DEF MallocTable, Allocate, IInv, Frame, OwnedByLocals, OwnedByList,
                                NoLocal, Modes, Pcs
<1>2. CASE MallocNode
  <2>1. CASE Allocate(Block(local.i), "malloc_node") /\ local' = [local EXCEPT !.i = @ + 1]
    <3>1. Nodes(local.i + 1) = Nodes(local.i) \cup {Block(local.i)}
      BY DEF Nodes, IInv, Frame
    <3> QED BY <1>2, <2>1, <3>1 DEF MallocNode, Allocate, IInv, Frame, OwnedByLocals, OwnedByList,
                              Modes, Pcs
  <2>2. CASE Free(Append(NodeBlocks(local.i), local.nodes), "failed") /\ UNCHANGED local
    <3>1. live' = {} /\ pc' = "failed"
      BY <1>2, <2>2, FreeNodes DEF MallocNode, IInv, Frame, OwnedByLocals
    <3> QED BY <1>2, <2>2, <3>1 DEF MallocNode, IInv, Frame, OwnedByLocals, OwnedByList, Modes, Pcs
  <2> QED BY <1>2, <2>1, <2>2 DEF MallocNode
<1>3. CASE MallocLink
  <2>1. CASE list.mode = "malloc" /\ pc' = "built"
    BY <1>3, <2>1 DEF MallocLink, Allocate, Filled, IInv, Frame, OwnedByLocals, OwnedByList, Modes, Pcs
  <2>2. CASE /\ list.mode = "shuffle" /\ Allocate(Indices, "shuffle_indices")
             /\ local' = [local EXCEPT !.indices = [k \in Index |-> k], !.i = n]
             /\ UNCHANGED <<list, next>>
    BY <1>3, <2>2 DEF MallocLink, Allocate, IInv, Frame, OwnedByLocals, OwnedByList, Modes, Pcs
  <2>3. CASE Free(Append(NodeBlocks(n), local.nodes), "failed") /\ UNCHANGED <<local, list>>
    <3>1. live' = {} /\ pc' = "failed"
      BY <1>3, <2>3, FreeNodes DEF MallocLink, IInv, Frame, OwnedByLocals
    <3> QED BY <1>3, <2>3, <3>1 DEF MallocLink, IInv, Frame, OwnedByLocals, OwnedByList, Modes, Pcs
  <2> QED BY <1>3, <2>1, <2>2, <2>3 DEF MallocLink
<1> QED BY <1>1, <1>2, <1>3

(* The shuffle holds the table, the nodes and the indices, and frees these at its end. *)
LEMMA ShuffleIInv ==
  ASSUME IInv, ShuffleSwap \/ ShuffleLink
  PROVE  IInv'
<1>1. CASE ShuffleSwap
  <2>1. local'.i = local.i - 1 /\ local.i > 1 /\ local'.nodes = local.nodes
        /\ local' = [i |-> local'.i, indices |-> local'.indices, len |-> local'.len,
                     nodes |-> local'.nodes, views |-> local'.views]
    BY <1>1 DEF ShuffleSwap, IInv, Frame
  <2>2. pc = "shuffle_indices" /\ UNCHANGED <<n, pc, live, list>>
    BY <1>1 DEF ShuffleSwap
  <2> QED BY <2>1, <2>2 DEF IInv, Frame, OwnedByLocals, OwnedByList, Modes, Pcs
<1>2. CASE ShuffleLink
  <2>1. live' = {Table} \cup Nodes(n) /\ pc' = "built"
    <3>1. live' = live \ {Indices} /\ pc' = "built"
      BY <1>2, FreeOne, Distinct DEF ShuffleLink, IInv, OwnedByLocals
    <3>2. Indices \notin Nodes(n)
      BY Distinct DEF Nodes
    <3> QED BY <1>2, <3>1, <3>2, Distinct DEF ShuffleLink, IInv, OwnedByLocals
  <2> QED BY <1>2, <2>1 DEF ShuffleLink, Filled, IInv, Frame, OwnedByLocals, OwnedByList, Modes, Pcs
<1> QED BY <1>1, <1>2

(* build_page_spread: the region is freed when the views cannot be allocated. *)
LEMMA SpreadIInv ==
  ASSUME IInv, SpreadRegion \/ SpreadViews
  PROVE  IInv'
<1>1. CASE SpreadRegion
  BY <1>1, Distinct DEF SpreadRegion, Allocate, IInv, Frame, OwnedByLocals, OwnedByList,
                        NoLocal, Modes, Pcs
<1>2. CASE SpreadViews
  <2>1. CASE Allocate(Table, "built") /\ list' = Filled(0, local.nodes, Table, local.len, Stride)
    BY <1>2, <2>1, Distinct DEF SpreadViews, Allocate, Filled, IInv, Frame, OwnedByLocals,
                                OwnedByList, Modes, Pcs
  <2>2. CASE Free(<<local.nodes>>, "failed") /\ UNCHANGED <<list, next>>
    <3>1. live' = {} /\ pc' = "failed"
      BY <1>2, <2>2, FreeOne, Distinct DEF SpreadViews, IInv, OwnedByLocals
    <3> QED BY <1>2, <2>2, <3>1 DEF SpreadViews, IInv, Frame, OwnedByLocals, OwnedByList, Modes, Pcs
  <2> QED BY <1>2, <2>1, <2>2 DEF SpreadViews
<1> QED BY <1>1, <1>2

(* list_destroy frees what the mode allocated, each block once. *)
LEMMA DestroyIInv ==
  ASSUME IInv, Destroy
  PROVE  IInv'
<1>1. live' = {} /\ pc' = "idle"
  <2>1. CASE list.mode \in {"malloc", "shuffle"}
    <3>1. /\ Owned = Append(NodeBlocks(n), Table) /\ live = {Table} \cup Nodes(n)
          /\ n \in Nat /\ Free(Owned, "idle")
      BY <2>1, Distinct DEF Destroy, Owned, IInv, Frame, OwnedByList
    <3> QED BY <3>1, FreeNodes
  <2>2. CASE list.mode \notin {"malloc", "shuffle"}
    <3>1. Owned = <<Storage, Table>> /\ live = {Storage, Table} /\ Free(Owned, "idle")
      BY <2>2 DEF Destroy, Owned, IInv, OwnedByList
    <3> QED BY <3>1, FreeTwo, Distinct
  <2> QED BY <2>1, <2>2
<1> QED BY <1>1 DEF Destroy, IInv, Frame, OwnedByLocals, OwnedByList, Zeroed, NoLocal, Modes, Pcs

(* Every step keeps the ownership of the live blocks. *)
LEMMA NextIInv == IInv /\ [Next]_vars => IInv'
<1> SUFFICES ASSUME IInv, [Next]_vars  PROVE IInv'
  OBVIOUS
<1>1. ASSUME NEW mode \in Modes, Build(mode)  PROVE IInv'
  BY <1>1 DEF Build, IInv, Frame, OwnedByLocals, OwnedByList, NoLocal, Modes, Pcs
<1>2. CASE BuildEmpty
  BY <1>2 DEF BuildEmpty, IInv, Frame, OwnedByLocals, OwnedByList, Zeroed, Modes, Pcs
<1>3. CASE FindFastSlow \/ FindTwoPass
  BY <1>3 DEF FindFastSlow, FindTwoPass, IInv, Frame, OwnedByLocals, OwnedByList, Modes, Pcs
<1>4. CASE UNCHANGED vars
  BY <1>4 DEF vars, IInv, Frame, OwnedByLocals, OwnedByList
<1> QED BY <1>1, <1>2, <1>3, <1>4, ContiguousIInv, MallocIInv, ShuffleIInv, SpreadIInv, DestroyIInv
     DEF Next

(* list_build returns -1 with nothing allocated, list_destroy frees every  *)
(* block of the list once, and a built list owns exactly what is live.     *)
THEOREM NothingIsLost == Spec => []NothingLost
<1>1. IInv => NothingLost
  <2> SUFFICES ASSUME IInv  PROVE NothingLost
    OBVIOUS
  <2>1. pc # "bad_free"
    BY DEF IInv, Frame, Pcs
  <2>2. pc \in {"idle", "failed"} => live = {} /\ list.storage = Null /\ list.indirect = Null
    BY DEF IInv, OwnedByLocals, OwnedByList
  <2>3. ASSUME pc \in {"built", "found"}  PROVE live = Pointed(Owned)
    <3>1. CASE list.mode \in {"malloc", "shuffle"}
      <4>1. /\ Owned = Append(NodeBlocks(n), Table) /\ live = {Table} \cup Nodes(n) /\ n \in Nat
        BY <2>3, <3>1, Distinct DEF Owned, IInv, Frame, OwnedByList
      <4> QED BY <4>1, PointedNodes
    <3>2. CASE list.mode \notin {"malloc", "shuffle"}
      <4>1. Owned = <<Storage, Table>> /\ live = {Storage, Table}
        BY <2>3, <3>2 DEF Owned, IInv, OwnedByList
      <4> QED BY <4>1, Distinct DEF Pointed
    <3> QED BY <3>1, <3>2
  <2> QED BY <2>1, <2>2, <2>3 DEF NothingLost
<1> QED BY <1>1, InitIInv, NextIInv, PTL DEF Spec

----------------------------------------------------------------------------
(* Walks along a path.                                                     *)

Permutes(p) ==
  /\ p \in [Index -> Index]
  /\ \A j, k \in Index : p[j] = p[k] => j = k
  /\ \A m \in Index : \E k \in Index : p[k] = m

Path(p) == \A k \in Index : next[p[k]] = IF k + 1 < n THEN p[k + 1] ELSE End

(* The k-th of the path, or the end behind it. *)
On(p, k) == IF k < n THEN p[k] ELSE End

(* The pointers k steps from the i-th node of a path are at its (i + k)-th. *)
LEMMA NthIs ==
  ASSUME n \in Nat, NEW p \in [Index -> Index], Path(p), NEW i \in Nat, NEW k \in Nat
  PROVE  Nth(On(p, i), k) = On(p, i + k)
<1> DEFINE m == On(p, i)
           Step(g) == [j \in 0 .. k |-> IF j = 0 THEN m
                                        ELSE IF g[j - 1] = End THEN End ELSE next[g[j - 1]]]
           met == [j \in 0 .. k |-> On(p, i + j)]
<1>1. met = Step(met)
  <2>1. ASSUME NEW j \in 0 .. k PROVE met[j] = Step(met)[j]
    <3>1. CASE j = 0
      BY <3>1
    <3>2. CASE j # 0
      <4>1. /\ j - 1 \in 0 .. k /\ i + (j - 1) \in Nat /\ (i + (j - 1)) + 1 = i + j
            /\ met[j - 1] = On(p, i + (j - 1)) /\ met[j] = On(p, i + j)
        BY <3>2
      <4>2. Step(met)[j] = IF met[j - 1] = End THEN End ELSE next[met[j - 1]]
        BY <3>2
      <4> HIDE DEF met, Step
      <4>3. CASE i + (j - 1) < n
        <5>1. i + (j - 1) \in Index /\ p[i + (j - 1)] \in Index
          BY <4>1, <4>3 DEF Index
        <5>2. p[i + (j - 1)] # End
          BY <5>1 DEF Index, End
        <5>3. next[p[i + (j - 1)]] = On(p, i + j)
          BY <4>1, <5>1 DEF Path, On
        <5> QED BY <4>1, <4>2, <4>3, <5>2, <5>3 DEF On
      <4>4. CASE ~(i + (j - 1) < n)
        <5>1. ~(i + j < n)
          BY <4>1, <4>4
        <5> QED BY <4>1, <4>2, <4>4, <5>1 DEF On
      <4> QED BY <4>3, <4>4
    <3> QED BY <3>1, <3>2
  <2>2. met = [j \in 0 .. k |-> met[j]] /\ Step(met) = [j \in 0 .. k |-> Step(met)[j]]
    OBVIOUS
  <2> HIDE DEF met, Step
  <2> QED BY <2>1, <2>2
<1>2. ASSUME NEW g, g = Step(g) PROVE g = met
  <2> DEFINE T == {j \in 0 .. k : g[j] # met[j]}
  <2>1. ASSUME T # {} PROVE FALSE
    <3>1. PICK x \in T : \A y \in T : x <= y
      <4>1. T \in SUBSET Nat
        OBVIOUS
      <4> HIDE DEF T
      <4> QED BY <2>1, <4>1, LeastNumber
    <3>2. x \in 0 .. k /\ (x # 0 => x - 1 \in 0 .. k /\ g[x - 1] = met[x - 1])
      BY <3>1
    <3>3. g[x] = Step(g)[x] /\ met[x] = Step(met)[x]
      BY <1>1, <1>2
    <3> HIDE DEF met, m
    <3> QED BY <3>1, <3>2, <3>3
  <2>2. \A j \in 0 .. k : g[j] = met[j]
    BY <2>1
  <2>3. g = [j \in 0 .. k |-> g[j]] /\ met = [j \in 0 .. k |-> met[j]]
    BY <1>2
  <2> HIDE DEF met
  <2> QED BY <2>2, <2>3
<1>3. (CHOOSE g : g = Step(g)) = met
  BY <1>1, <1>2
<1>4. Nth(m, k) = (CHOOSE g : g = Step(g))[k]
  BY DEF Nth
<1>5. met[k] = On(p, i + k)
  OBVIOUS
<1> HIDE DEF met, m, Step
<1>6. Nth(m, k) = On(p, i + k)
  BY <1>3, <1>4, <1>5
<1> QED BY <1>6 DEF m

(* A path meets every node once and then ends. *)
LEMMA PathMeetsAll ==
  ASSUME n \in Nat, n > 0, NEW p, Permutes(p), Path(p), NEW head, head = p[0]
  PROVE  /\ {Nth(head, k) : k \in Index} = Index
         /\ \A k \in 0 .. n : Nth(head, k) = On(p, k)
<1>1. p \in [Index -> Index] /\ head = On(p, 0)
  BY DEF Permutes, On
<1>2. ASSUME NEW k \in Nat PROVE Nth(head, k) = On(p, k)
  <2>1. Nth(On(p, 0), k) = On(p, 0 + k)
    BY <1>1, NthIs
  <2> QED BY <1>1, <2>1
<1>3. \A k \in Index : Nth(head, k) = p[k]
  BY <1>2 DEF Index, On
<1>4. \A m \in Index : \E k \in Index : p[k] = m
  BY DEF Permutes
<1>5. \A k \in Index : p[k] \in Index
  BY <1>1
<1>6. {Nth(head, k) : k \in Index} = Index
  BY <1>3, <1>4, <1>5
<1> QED BY <1>2, <1>6

(* The first pass counts n nodes. *)
LEMMA TwoPassMiddle ==
  ASSUME n \in Nat, n > 0, NEW p, Permutes(p), Path(p), NEW head, head = p[0]
  PROVE  middle_two_pass(head) = Nth(head, n \div 2)
<1> DEFINE Count(c) == Nth(head, c) = End /\ \A k \in 0 .. c - 1 : Nth(head, k) # End
<1>1. \A k \in 0 .. n : Nth(head, k) = End <=> k = n
  <2>1. \A k \in 0 .. n : Nth(head, k) = On(p, k)
    BY PathMeetsAll
  <2>2. \A k \in Index : p[k] # End
    BY DEF Permutes, Index, End
  <2> QED BY <2>1, <2>2 DEF On, Index
<1>2. n \in 0 .. n /\ Count(n) /\ \A c \in 0 .. n : Count(c) => c = n
  BY <1>1
<1>3. (CHOOSE c \in 0 .. n : Count(c)) = n
  BY <1>2
<1> QED BY <1>3 DEF middle_two_pass

(* After j rounds slow is at j and fast at 2 j, up to the middle and the end. *)
LEMMA FastSlowMiddle ==
  ASSUME n \in Nat, n > 0, NEW p, Permutes(p), Path(p), NEW head, head = p[0]
  PROVE  middle_fast_slow(head) = Nth(head, n \div 2)
<1> DEFINE h == n \div 2
           first == [slow |-> head, fast |-> head]
           Step(g) == [j \in 0 .. n |->
              IF j = 0 THEN first
              ELSE IF g[j - 1].fast = End \/ Nth(g[j - 1].fast, 1) = End THEN g[j - 1]
                   ELSE [slow |-> next[g[j - 1].slow], fast |-> Nth(g[j - 1].fast, 2)]]
           At(r) == [slow |-> On(p, r), fast |-> On(p, 2 * r)]
           met == [j \in 0 .. n |-> At(IF j < h THEN j ELSE h)]
<1>1. h \in 0 .. n - 1 /\ (n = 2 * h \/ n = 2 * h + 1)
  OBVIOUS
<1>2. p \in [Index -> Index] /\ \A k \in Nat : On(p, k) = End <=> k >= n
  <2>1. p \in [Index -> Index]
    BY DEF Permutes
  <2>2. \A k \in Index : p[k] # End
    BY <2>1 DEF Index, End
  <2>3. ASSUME NEW k \in Nat PROVE On(p, k) = End <=> k >= n
    <3>1. k < n => k \in Index
      BY DEF Index
    <3> QED BY <2>2, <3>1 DEF On
  <2> QED BY <2>1, <2>3
<1>3. \A k \in Nat : Nth(On(p, k), 1) = On(p, k + 1) /\ Nth(On(p, k), 2) = On(p, k + 2)
  BY <1>2, NthIs
<1>4. \A k \in Nat : k + 1 < n => next[On(p, k)] = On(p, k + 1)
  BY DEF Path, On, Index
<1> HIDE DEF h
<1>5. ASSUME NEW r \in 0 .. h
      PROVE  /\ (At(r).fast = End \/ Nth(At(r).fast, 1) = End) <=> r = h
             /\ r < h => /\ next[At(r).slow] = On(p, r + 1)
                         /\ Nth(At(r).fast, 2) = On(p, 2 * (r + 1))
  <2>1. r \in Nat /\ 2 * r \in Nat /\ 2 * r + 2 = 2 * (r + 1)
    BY <1>1
  <2>2. At(r).fast = End <=> 2 * r >= n
    BY <1>2, <2>1
  <2>3. Nth(At(r).fast, 1) = End <=> 2 * r + 1 >= n
    <3>1. Nth(At(r).fast, 1) = On(p, 2 * r + 1)
      BY <1>3, <2>1
    <3> QED BY <1>2, <2>1, <3>1
  <2>4. Nth(At(r).fast, 2) = On(p, 2 * r + 2)
    BY <1>3, <2>1
  <2>5. r < h => next[At(r).slow] = On(p, r + 1)
    BY <1>1, <1>4, <2>1
  <2> HIDE DEF At
  <2> QED BY <1>1, <2>1, <2>2, <2>3, <2>4, <2>5
<1>6. met = Step(met)
  <2>1. ASSUME NEW j \in 0 .. n PROVE met[j] = Step(met)[j]
    <3>1. CASE j = 0
      <4>1. met[j] = At(0)
        BY <1>1, <3>1
      <4>2. At(0) = first
        BY DEF On
      <4> QED BY <3>1, <4>1, <4>2
    <3>2. CASE j # 0
      <4> DEFINE r == IF j - 1 < h THEN j - 1 ELSE h
      <4>1. j - 1 \in 0 .. n /\ met[j - 1] = At(r)
        BY <3>2
      <4>2. r \in 0 .. h /\ (r < h => r + 1 = (IF j < h THEN j ELSE h))
            /\ (r = h => h = (IF j < h THEN j ELSE h))
        BY <1>1, <3>2
      <4>3. Step(met)[j] = IF At(r).fast = End \/ Nth(At(r).fast, 1) = End THEN At(r)
                     ELSE [slow |-> next[At(r).slow], fast |-> Nth(At(r).fast, 2)]
        <5>1. Step(met)[j] = IF met[j - 1].fast = End \/ Nth(met[j - 1].fast, 1) = End
                             THEN met[j - 1]
                             ELSE [slow |-> next[met[j - 1].slow], fast |-> Nth(met[j - 1].fast, 2)]
          BY <3>2
        <5> HIDE DEF met, At, Step, r
        <5> QED BY <4>1, <5>1
      <4>4. met[j] = At(IF j < h THEN j ELSE h)
        OBVIOUS
      <4> HIDE DEF r, met, Step
      <4>5. CASE r = h
        <5>1. Step(met)[j] = At(r)
          BY <1>5, <4>2, <4>3, <4>5
        <5> QED BY <4>2, <4>4, <4>5, <5>1
      <4>6. CASE r # h
        <5>1. r < h /\ r \in 0 .. h
          BY <1>1, <4>2, <4>6
        <5>2. Step(met)[j] = At(r + 1)
          BY <1>5, <4>3, <5>1
        <5> QED BY <4>2, <4>4, <5>1, <5>2
      <4> QED BY <4>5, <4>6
    <3> QED BY <3>1, <3>2
  <2>2. met = [j \in 0 .. n |-> met[j]] /\ Step(met) = [j \in 0 .. n |-> Step(met)[j]]
    OBVIOUS
  <2> HIDE DEF met, Step
  <2> QED BY <2>1, <2>2
<1>7. ASSUME NEW g, g = Step(g) PROVE g = met
  <2> DEFINE T == {j \in 0 .. n : g[j] # met[j]}
  <2>1. ASSUME T # {} PROVE FALSE
    <3>1. PICK x \in T : \A y \in T : x <= y
      <4>1. T \in SUBSET Nat
        OBVIOUS
      <4> HIDE DEF T
      <4> QED BY <2>1, <4>1, LeastNumber
    <3>2. x \in 0 .. n /\ (x # 0 => x - 1 \in 0 .. n /\ g[x - 1] = met[x - 1])
      BY <3>1
    <3>3. g[x] = Step(g)[x] /\ met[x] = Step(met)[x]
      BY <1>6, <1>7
    <3> HIDE DEF met
    <3> QED BY <3>1, <3>2, <3>3
  <2>2. \A j \in 0 .. n : g[j] = met[j]
    BY <2>1
  <2>3. g = [j \in 0 .. n |-> g[j]] /\ met = [j \in 0 .. n |-> met[j]]
    BY <1>7
  <2> HIDE DEF met
  <2> QED BY <2>2, <2>3
<1>8. (CHOOSE g : g = Step(g)) = met
  BY <1>6, <1>7
<1>9. met[n] = At(h)
  BY <1>1
<1>10. middle_fast_slow(head) = (CHOOSE g : g = Step(g))[n].slow
  BY DEF middle_fast_slow, Rounds
<1>11. At(h).slow = On(p, h) /\ Nth(head, h) = On(p, h)
  BY <1>1, PathMeetsAll
<1> HIDE DEF met, Step, At
<1> QED BY <1>8, <1>9, <1>10, <1>11 DEF h

----------------------------------------------------------------------------
(* The second invariant: the indices are a permutation while they are       *)
(* shuffled, a built list is a path through all nodes, the middle is at n/2, *)
(* and the region of a page-spread list is n whole strides long.            *)
PathInv ==
  /\ spread \in Spreads
  /\ pc \notin {"idle", "failed"} => n > 0
  /\ pc = "shuffle_indices" => Permutes(local.indices)
  /\ pc \in {"built", "found"} => \E p \in [Index -> Index] : Permutes(p) /\ Path(p) /\ list.head = p[0]
  /\ MiddleFound
  /\ pc = "spread_views" => local.len = n * Stride
  /\ pc = "built" /\ list.mode = "page_spread" => list.len = n * Stride /\ list.spread = Stride

(* A stride has room for a node. *)
LEMMA StrideFits ==
  ASSUME spread \in Spreads
  PROVE  Stride \in Nat \ {0} /\ NodeSize \in Nat \ {0} /\ Stride >= NodeSize
BY SizeAssumption DEF Stride

(* What checked_mul_size lets through is not reduced by size_t. *)
LEMMA ProductFits ==
  ASSUME NEW a \in Nat \ {0}, NEW b \in Nat \ {0}, ~Overflows(a, b)
  PROVE  (a * b) % (SizeMax + 1) = a * b
<1> DEFINE q == SizeMax \div b
<1>1. SizeMax \in Nat /\ SizeMax = b * q + (SizeMax % b) /\ SizeMax % b \in Nat /\ q \in Int /\ a <= q
  BY SizeAssumption, Division DEF Overflows
<1> HIDE DEF q
<1>2. PICK d \in Nat : q = a + d
  <2>1. q - a \in Nat /\ q = a + (q - a)
    BY <1>1
  <2> QED BY <2>1
<1>3. b * q = b * a + b * d /\ b * a \in Nat /\ b * d \in Nat /\ a * b = b * a
  BY <1>2
<1>4. a * b \in 0 .. (SizeMax + 1) - 1
  BY <1>1, <1>3
<1>5. PICK e \in 0 .. (SizeMax + 1) - 1 : e = a * b
  BY <1>4
<1>6. ((SizeMax + 1) * 0 + e) % (SizeMax + 1) = e
  BY <1>1, Remainder
<1>7. (SizeMax + 1) * 0 + e = e
  BY <1>1
<1> QED BY <1>5, <1>6, <1>7

(* Linked in the order of their indices, the nodes are a path. *)
LEMMA SequentialPath ==
  ASSUME n \in Nat, n > 0, UNCHANGED n, next' = Sequential, list'.head = 0
  PROVE  (\E p \in [Index -> Index] : Permutes(p) /\ Path(p) /\ list.head = p[0])'
<1>1. PICK p \in [Index -> Index] : \A k \in Index : p[k] = k
  <2>1. [k \in Index |-> k] \in [Index -> Index] /\ \A k \in Index : [j \in Index |-> j][k] = k
    OBVIOUS
  <2> QED BY <2>1
<1>2. Index' = Index /\ 0 \in Index /\ p[0] = list'.head
  BY <1>1 DEF Index
<1>3. Permutes(p)'
  BY <1>1, <1>2 DEF Permutes
<1>4. Path(p)'
  <2>1. ASSUME NEW k \in Index PROVE next'[p[k]] = IF k + 1 < n THEN p[k + 1] ELSE End
    <3>1. next'[k] = IF k + 1 < n THEN k + 1 ELSE End
      BY DEF Sequential
    <3>2. k + 1 < n => k + 1 \in Index
      BY DEF Index
    <3> QED BY <1>1, <3>1, <3>2
  <2> QED BY <1>2, <2>1 DEF Path
<1> QED BY <1>2, <1>3, <1>4

(* Linked in the order of the shuffled indices, too. *)
LEMMA ShuffledPath ==
  ASSUME n \in Nat, n > 0, UNCHANGED n, NEW ix, ix = local.indices, Permutes(ix),
         next' = ShuffleLinks, list'.head = ix[0]
  PROVE  (\E p \in [Index -> Index] : Permutes(p) /\ Path(p) /\ list.head = p[0])'
<1>1. Index' = Index /\ ix \in [Index -> Index] /\ Permutes(ix)'
  BY DEF Index, Permutes
<1>2. next' = [m \in Index |-> LET k == CHOOSE k \in Index : ix[k] = m
                               IN  IF k + 1 < n THEN ix[k + 1] ELSE End]
  BY DEF ShuffleLinks
<1>3. ASSUME NEW j \in Index PROVE next'[ix[j]] = IF j + 1 < n THEN ix[j + 1] ELSE End
  <2>1. (CHOOSE k \in Index : ix[k] = ix[j]) = j
    BY DEF Permutes
  <2>2. ix[j] \in Index
    BY <1>1
  <2> QED BY <1>2, <2>1, <2>2
<1>4. Path(ix)'
  BY <1>1, <1>3 DEF Path
<1> QED BY <1>1, <1>4

(* A swap keeps a permutation. *)
LEMMA SwapPermutes ==
  ASSUME NEW ix, Permutes(ix), NEW a \in Index, NEW b \in Index
  PROVE  Permutes([ix EXCEPT ![a] = ix[b], ![b] = ix[a]])
<1> DEFINE iy == [ix EXCEPT ![a] = ix[b], ![b] = ix[a]]
<1>1. ix \in [Index -> Index]
  BY DEF Permutes
<1>2. /\ iy \in [Index -> Index]
      /\ \A k \in Index : iy[k] = IF k = b THEN ix[a] ELSE IF k = a THEN ix[b] ELSE ix[k]
  BY <1>1
<1> HIDE DEF iy
<1>3. \A j, k \in Index : iy[j] = iy[k] => j = k
  BY <1>2 DEF Permutes
<1>4. ASSUME NEW m \in Index PROVE \E k \in Index : iy[k] = m
  <2>1. PICK k \in Index : ix[k] = m
    BY DEF Permutes
  <2>2. CASE k = a
    BY <1>2, <2>1, <2>2
  <2>3. CASE k = b
    BY <1>2, <2>1, <2>3
  <2>4. CASE k # a /\ k # b
    BY <1>2, <2>1, <2>4
  <2> QED BY <2>2, <2>3, <2>4
<1>5. Permutes(iy)
  BY <1>2, <1>3, <1>4 DEF Permutes
<1> QED BY <1>5 DEF iy

(* Nothing is built yet. *)
LEMMA InitPathInv == Init => PathInv
BY DEF Init, PathInv, MiddleFound

(* Steps that neither link a list, nor hold indices or a region. *)
LEMMA PathOthers ==
  ASSUME IInv, PathInv, \/ \E mode \in Modes : Build(mode)
                        \/ BuildEmpty \/ ContiguousNodes \/ ContiguousViews
                        \/ MallocTable \/ MallocNode \/ Destroy
  PROVE  PathInv'
<1>1. CASE \E mode \in Modes : Build(mode)
  BY <1>1 DEF Build, Modes, PathInv, MiddleFound
<1>2. CASE BuildEmpty
  BY <1>2 DEF BuildEmpty, PathInv, MiddleFound
<1>3. CASE ContiguousNodes \/ ContiguousViews
  BY <1>3 DEF ContiguousNodes, ContiguousViews, Allocate, PathInv, MiddleFound
<1>4. CASE MallocTable
  BY <1>4 DEF MallocTable, Allocate, PathInv, MiddleFound
<1>5. CASE MallocNode
  BY <1>5 DEF MallocNode, Allocate, Free, PathInv, MiddleFound
<1>6. CASE Destroy
  BY <1>6 DEF Destroy, Free, PathInv, MiddleFound
<1> QED BY <1>1, <1>2, <1>3, <1>4, <1>5, <1>6

(* build_contiguous and build_malloc_nodes link the nodes in order. *)
LEMMA PathSequential ==
  ASSUME IInv, PathInv, ContiguousCheck \/ MallocLink
  PROVE  PathInv'
<1>1. n \in Nat /\ n > 0 /\ n' = n /\ spread' = spread /\ spread \in Spreads
  BY DEF ContiguousCheck, MallocLink, IInv, Frame, PathInv, MiddleFound
<1>2. ASSUME pc' = "built", next' = Sequential, list'.head = 0, list'.mode # "page_spread"
      PROVE  PathInv'
  <2>1. (\E p \in [Index -> Index] : Permutes(p) /\ Path(p) /\ list.head = p[0])'
    BY <1>1, <1>2, SequentialPath
  <2> QED BY <1>1, <1>2, <2>1 DEF PathInv, MiddleFound
<1>3. ASSUME pc' \in {"failed", "bad_free"}
      PROVE  PathInv'
  BY <1>1, <1>3 DEF PathInv, MiddleFound
<1>4. CASE ContiguousCheck
  <2>1. \/ pc' \in {"failed", "bad_free"}
        \/ pc' = "built" /\ next' = Sequential /\ list'.head = 0 /\ list'.mode = list.mode
    BY <1>4 DEF ContiguousCheck, Filled, Free
  <2>2. list.mode = "contiguous"
    BY <1>4 DEF ContiguousCheck, IInv, OwnedByLocals
  <2> QED BY <1>2, <1>3, <2>1, <2>2
<1>5. CASE MallocLink
  <2>1. CASE list.mode = "malloc" /\ pc' = "built"
    <3>1. next' = Sequential /\ list'.head = 0 /\ list'.mode = "malloc"
      BY <1>5, <2>1 DEF MallocLink, Filled, Allocate
    <3> QED BY <1>2, <2>1, <3>1
  <2>2. CASE Free(Append(NodeBlocks(n), local.nodes), "failed")
    BY <1>3, <2>2 DEF Free
  <2>3. CASE pc' = "shuffle_indices" /\ local' = [local EXCEPT !.indices = [k \in Index |-> k], !.i = n]
    <3>1. local'.indices = [k \in Index |-> k]
      BY <2>3 DEF IInv, Frame
    <3>2. Permutes(local.indices)'
      BY <1>1, <3>1 DEF Permutes, Index
    <3> QED BY <1>1, <2>3, <3>2 DEF PathInv, MiddleFound
  <2> QED BY <1>5, <2>1, <2>2, <2>3 DEF MallocLink, Allocate
<1> QED BY <1>4, <1>5

(* The shuffle permutes the indices and links the nodes in their order. *)
LEMMA PathShuffle ==
  ASSUME IInv, PathInv, ShuffleSwap \/ ShuffleLink
  PROVE  PathInv'
<1>1. /\ n \in Nat /\ n > 0 /\ n' = n /\ spread' = spread /\ spread \in Spreads
      /\ pc = "shuffle_indices" /\ Permutes(local.indices) /\ local.i \in 0 .. n
      /\ list.mode = "shuffle"
  BY DEF ShuffleSwap, ShuffleLink, IInv, Frame, OwnedByLocals, PathInv, MiddleFound
<1>2. CASE ShuffleSwap
  <2> DEFINE a == local.i - 1
  <2>1. PICK j \in 0 .. local.i - 1 :
          local' = [local EXCEPT !.i = @ - 1,
                                 !.indices[local.i - 1] = local.indices[j],
                                 !.indices[j] = local.indices[local.i - 1]]
    BY <1>2 DEF ShuffleSwap
  <2>2. a \in Index /\ j \in Index /\ pc' = "shuffle_indices"
    <3>1. local.i > 1 /\ pc' = "shuffle_indices"
      BY <1>1, <1>2 DEF ShuffleSwap
    <3>2. PICK i \in 0 .. n : i = local.i
      BY <1>1
    <3>3. a = i - 1 /\ j \in 0 .. i - 1 /\ i > 1
      BY <3>1, <3>2
    <3> QED BY <1>1, <3>1, <3>3 DEF Index
  <2>3. local'.indices = [local.indices EXCEPT ![a] = local.indices[j], ![j] = local.indices[a]]
    BY <2>1 DEF IInv, Frame
  <2>4. PICK ix : ix = local.indices
    OBVIOUS
  <2>5. Permutes([ix EXCEPT ![a] = ix[j], ![j] = ix[a]])
    <3>1. Permutes(ix)
      BY <1>1, <2>4
    <3>2. PICK x \in Index : x = a
      BY <2>2
    <3> HIDE DEF a
    <3> QED BY <2>2, <3>1, <3>2, SwapPermutes
  <2>6. Permutes(local'.indices)
    BY <2>3, <2>4, <2>5
  <2>7. Permutes(local.indices)'
    BY <1>1, <2>6 DEF Permutes, Index
  <2> QED BY <1>1, <2>2, <2>7 DEF PathInv, MiddleFound
<1>3. CASE ShuffleLink
  <2>1. pc' \in {"built", "bad_free"} /\ next' = ShuffleLinks
        /\ list'.head = local.indices[0] /\ list'.mode = "shuffle"
    BY <1>1, <1>3 DEF ShuffleLink, Filled, Free
  <2>2. PICK ix : ix = local.indices
    OBVIOUS
  <2>3. (\E p \in [Index -> Index] : Permutes(p) /\ Path(p) /\ list.head = p[0])'
    BY <1>1, <2>1, <2>2, ShuffledPath
  <2> QED BY <1>1, <2>1, <2>3 DEF PathInv, MiddleFound
<1> QED BY <1>2, <1>3

(* build_page_spread: the region has room for every stride. *)
LEMMA PathSpread ==
  ASSUME IInv, PathInv, SpreadRegion \/ SpreadViews
  PROVE  PathInv'
<1>1. n \in Nat /\ n > 0 /\ n' = n /\ spread' = spread /\ spread \in Spreads /\ Stride' = Stride
  BY DEF SpreadRegion, SpreadViews, IInv, Frame, PathInv, Stride
<1>2. ASSUME pc' \in {"failed", "bad_free"}
      PROVE  PathInv'
  BY <1>1, <1>2 DEF PathInv, MiddleFound
<1>3. CASE SpreadRegion
  <2>1. CASE pc' = "failed"
    BY <1>2, <2>1
  <2>2. CASE pc' # "failed"
    <3>1. /\ ~Overflows(n, Stride) /\ pc' = "spread_views"
          /\ local' = [local EXCEPT !.len = (n * Stride) % (SizeMax + 1), !.nodes = Storage]
      BY <1>3, <2>2 DEF SpreadRegion, Allocate
    <3>2. (n * Stride) % (SizeMax + 1) = n * Stride
      <4>1. PICK b \in Nat \ {0}, a \in Nat \ {0} : b = Stride /\ a = n
        BY <1>1, StrideFits
      <4>2. ~Overflows(a, b)
        BY <3>1, <4>1
      <4> QED BY <4>1, <4>2, ProductFits
    <3>3. local'.len = n * Stride
      BY <3>1, <3>2 DEF IInv, Frame
    <3> QED BY <1>1, <3>1, <3>3 DEF PathInv, MiddleFound
  <2> QED BY <2>1, <2>2
<1>4. CASE SpreadViews
  <2>1. CASE pc' \in {"failed", "bad_free"}
    BY <1>2, <2>1
  <2>2. CASE pc' \notin {"failed", "bad_free"}
    <3>1. /\ pc = "spread_views" /\ pc' = "built" /\ next' = Sequential
          /\ list' = Filled(0, local.nodes, Table, local.len, Stride)
      BY <1>4, <2>2 DEF SpreadViews, Allocate, Free
    <3>2. list'.head = 0 /\ list'.len = n * Stride /\ list'.spread = Stride
      BY <3>1 DEF Filled, PathInv, MiddleFound
    <3>3. (\E p \in [Index -> Index] : Permutes(p) /\ Path(p) /\ list.head = p[0])'
      BY <1>1, <3>1, <3>2, SequentialPath
    <3> QED BY <1>1, <3>1, <3>2, <3>3 DEF PathInv, MiddleFound
  <2> QED BY <2>1, <2>2
<1> QED BY <1>3, <1>4

(* Either algorithm returns the middle of the path. *)
LEMMA PathFind ==
  ASSUME IInv, PathInv, FindFastSlow \/ FindTwoPass
  PROVE  PathInv'
<1>1. /\ pc = "built" /\ pc' = "found" /\ UNCHANGED <<n, spread, list, next>>
      /\ middle' \in {middle_fast_slow(list.head), middle_two_pass(list.head)}
  BY DEF FindFastSlow, FindTwoPass
<1>2. n \in Nat /\ n > 0 /\ spread \in Spreads
  BY <1>1 DEF IInv, Frame, PathInv, MiddleFound
<1>3. PICK p \in [Index -> Index] : Permutes(p) /\ Path(p) /\ list.head = p[0]
  BY <1>1 DEF PathInv, MiddleFound
<1>4. PICK head : head = list.head
  OBVIOUS
<1>5. head = p[0] /\ Permutes(p) /\ Path(p)
  BY <1>3, <1>4
<1>6. middle_fast_slow(head) = Nth(head, n \div 2)
  BY <1>2, <1>5, FastSlowMiddle
<1>7. middle_two_pass(head) = Nth(head, n \div 2)
  BY <1>2, <1>5, TwoPassMiddle
<1>8. middle' = Nth(list.head, n \div 2)
  BY <1>1, <1>4, <1>6, <1>7
<1>9. MiddleFound'
  BY <1>1, <1>8 DEF MiddleFound, Nth
<1>10. (\E q \in [Index -> Index] : Permutes(q) /\ Path(q) /\ list.head = q[0])'
  BY <1>1, <1>3 DEF Permutes, Path, Index
<1>11. pc' \notin {"built", "shuffle_indices", "spread_views"}
  BY <1>1
<1>12. spread' \in Spreads /\ n' > 0
  BY <1>1, <1>2
<1> QED BY <1>1, <1>9, <1>10, <1>11, <1>12 DEF PathInv

(* Both invariants hold in every reachable state. *)
LEMMA PathHolds == Spec => [](IInv /\ PathInv)
<1>1. IInv /\ PathInv /\ [Next]_vars => PathInv'
  <2> SUFFICES ASSUME IInv, PathInv, [Next]_vars PROVE PathInv'
    OBVIOUS
  <2>1. CASE UNCHANGED vars
    <3>1. MiddleFound'
      BY <2>1 DEF vars, PathInv, MiddleFound, Nth
    <3>2. UNCHANGED <<n, spread, pc, local, list, next>>
      BY <2>1 DEF vars
    <3> QED BY <3>1, <3>2 DEF PathInv, Permutes, Path, Index, Stride
  <2> QED BY <2>1, PathOthers, PathSequential, PathShuffle, PathSpread, PathFind DEF Next
<1> QED BY <1>1, InitIInv, NextIInv, InitPathInv, PTL DEF Spec

(* For every length: a built list meets every node once from its head and  *)
(* then ends, after any sequence of swaps of the shuffle.                  *)
THEOREM ListIsPath == Spec => []OnePath
<1>1. IInv /\ PathInv => OnePath
  <2> SUFFICES ASSUME IInv, PathInv, pc = "built"
               PROVE  {Nth(list.head, k) : k \in Index} = Index /\ Nth(list.head, n) = End
    BY DEF OnePath
  <2>1. n \in Nat /\ n > 0 /\ n \in 0 .. n
    BY DEF IInv, Frame, PathInv, MiddleFound
  <2>2. PICK p \in [Index -> Index] : Permutes(p) /\ Path(p) /\ list.head = p[0]
    BY DEF PathInv, MiddleFound
  <2>3. PICK head : head = list.head
    OBVIOUS
  <2>4. Permutes(p) /\ Path(p) /\ head = p[0]
    BY <2>2, <2>3
  <2>5. {Nth(head, k) : k \in Index} = Index /\ \A k \in 0 .. n : Nth(head, k) = On(p, k)
    BY <2>1, <2>4, PathMeetsAll
  <2>6. On(p, n) = End
    BY <2>1 DEF On
  <2> QED BY <2>1, <2>3, <2>5, <2>6
<1> QED BY <1>1, PathHolds, PTL

(* For every length, even or odd, and however the list is linked: the slow *)
(* pointer of middle_fast_slow.c and the second pass of middle_two_pass.c  *)
(* end at the node at position n / 2.                                      *)
THEOREM MiddleIsFound == Spec => []MiddleFound
<1>1. IInv /\ PathInv => MiddleFound
  BY DEF PathInv, MiddleFound
<1> QED BY <1>1, PathHolds, PTL

(* For every length, stride and width of size_t: what checked_mul_size let *)
(* through is the length of a region in which no two nodes overlap.        *)
THEOREM NodesDoNotOverlap == Spec => []NodesApart
<1>1. IInv /\ PathInv => NodesApart
  <2> SUFFICES ASSUME IInv, PathInv, pc = "built", list.mode = "page_spread"
               PROVE  /\ list.spread >= NodeSize
                      /\ \A k \in Index : k * list.spread + NodeSize <= list.len
    BY DEF NodesApart
  <2>1. PICK S : S = Stride
    OBVIOUS
  <2>2. /\ S \in Nat \ {0} /\ NodeSize \in Nat \ {0} /\ S >= NodeSize
        /\ list.spread = S /\ list.len = n * S /\ n \in Nat
    BY <2>1, StrideFits DEF PathInv, IInv, Frame
  <2>3. ASSUME NEW k \in Index PROVE k * S + NodeSize <= n * S
    <3>1. k \in Int /\ k + 1 <= n /\ n \in Int
      BY <2>2 DEF Index
    <3>2. S * k + S <= S * n
      BY <2>2, <3>1, Multiples
    <3>3. k * S = S * k /\ n * S = S * n /\ S * k \in Int
      BY <2>2, <3>1
    <3> QED BY <2>2, <3>2, <3>3
  <2> QED BY <2>2, <2>3
<1> QED BY <1>1, PathHolds, PTL

-----------------------------------------------------------------------------
(* The drivers of the dispatch benchmark. *)

(* A list and the block of its items. *)
Listed(l, name) ==
  /\ \E S : l.list \in Seq(S)
  /\ l.items = Null \/ \E k \in Nat : l.items = <<name, k>>
Held(p, q) == {p.items, q.items} \ {Null}

(* Which blocks are live while main collects its arguments, between two    *)
(* programs, while it measures one, and in the driver of a single mode.    *)
DriverInv ==
  /\ pc \in {"arguments", "patterns", "dispatches", "fail", "single", "single_runs", "exit"}
  /\ Listed(patterns, "patterns") /\ Listed(dispatches, "dispatches")
  /\ pc \in {"arguments", "patterns", "fail"} =>
       program_ready = FALSE /\ live = Held(patterns, dispatches)
  /\ pc = "dispatches" =>
       program_ready = TRUE /\ code = Code /\ live = Held(patterns, dispatches) \cup {Code}
  /\ pc = "single" => live = {}
  /\ pc = "single_runs" => code = Code /\ live = {Code}
  /\ pc = "exit" => live = {}

LEMMA DriverStarts == DriverInit => DriverInv
<1>1. << >> \in Seq({})
  OBVIOUS
<1> SUFFICES ASSUME DriverInit PROVE DriverInv
  OBVIOUS
<1>2. patterns.items = Null /\ patterns.list = << >> /\ dispatches.items = Null /\ dispatches.list = << >>
  BY DEF DriverInit, Empty, Null
<1>3. Listed(patterns, "patterns") /\ Listed(dispatches, "dispatches")
  BY <1>1, <1>2 DEF Listed
<1>4. Held(patterns, dispatches) = {}
  BY <1>2 DEF Held
<1> QED BY <1>3, <1>4 DEF DriverInv, DriverInit

(* free() of the items of both lists, as the exits of main call it. *)
LEMMA FreeLists ==
  ASSUME NEW p, NEW q, Listed(p, "patterns"), Listed(q, "dispatches"), live = Held(p, q),
         NEW there, Free(<<p.items, q.items>>, there)
  PROVE  pc' = there /\ live' = {}
<1> DEFINE ptrs == <<p.items, q.items>>
<1>1. DOMAIN ptrs = {1, 2} /\ ptrs[1] = p.items /\ ptrs[2] = q.items
  OBVIOUS
<1>2. p.items = q.items => p.items = Null
  BY DEF Listed, Null
<1> HIDE DEF ptrs
<1>3. Pointed(ptrs) = Held(p, q)
  BY <1>1 DEF Pointed, Null, Held
<1>4. Freeable(ptrs)
  BY <1>1, <1>2, <1>3 DEF Freeable, Null
<1>5. pc' = there /\ live' = live \ Pointed(ptrs)
  BY <1>4 DEF Free, ptrs
<1> QED BY <1>3, <1>5

LEMMA FreeProgram ==
  ASSUME code = Code, Code \in live, NEW there, program_destroy(there)
  PROVE  pc' = there /\ live' = live \ {Code} /\ code' = Null
<1> DEFINE ptrs == <<code>>
<1>1. DOMAIN ptrs = {1} /\ ptrs[1] = Code
  OBVIOUS
<1> HIDE DEF ptrs
<1>2. Pointed(ptrs) = {Code}
  BY <1>1 DEF Pointed, Null, Code
<1>3. Freeable(ptrs)
  BY <1>1, <1>2 DEF Freeable
<1>4. pc' = there /\ live' = live \ Pointed(ptrs) /\ code' = Null
  BY <1>3 DEF program_destroy, Free, ptrs, Null
<1> QED BY <1>2, <1>4

(* realloc: the list grows with its block, or both stay. *)
LEMMA GrownIs ==
  ASSUME NEW l, NEW name, Listed(l, name), NEW item, NEW after, after \in Grown(name, l, item)
  PROVE  /\ Listed(after, name)
         /\ after.list # l.list => after.items # Null
         /\ after.list = l.list => after = l
<1>1. PICK S : l.list \in Seq(S)
  BY DEF Listed
<1>2. PICK T : T = S \cup {item}
  OBVIOUS
<1>3. l.list \in Seq(T) /\ item \in T
  BY <1>1, <1>2
<1>4. Append(l.list, item) \in Seq(T) /\ Len(Append(l.list, item)) = Len(l.list) + 1 /\ Len(l.list) \in Nat
  BY <1>3
<1>5. Append(l.list, item) # l.list
  BY <1>4
<1>6. CASE after = l
  BY <1>6
<1>7. CASE after = [items |-> <<name, Len(l.list) + 1>>, list |-> Append(l.list, item)]
  <2>1. after.items = <<name, Len(l.list) + 1>> /\ after.list = Append(l.list, item)
    BY <1>7
  <2>2. after.items # Null
    BY <1>4, <2>1 DEF Null
  <2>3. Listed(after, name)
    BY <1>4, <2>1 DEF Listed
  <2> QED BY <1>5, <2>1, <2>2, <2>3
<1> QED BY <1>6, <1>7 DEF Grown, ItemsBlock

(* append_pattern and append_dispatch. *)
LEMMA AppendKeeps ==
  ASSUME DriverInv, pc = "arguments", program_ready' = program_ready,
         NEW name \in {"patterns", "dispatches"}, NEW item, NEW there \in {"arguments", "patterns"},
         AppendItem(name, IF name = "patterns" THEN patterns ELSE dispatches, item, there)
  PROVE  DriverInv'
<1> DEFINE l == IF name = "patterns" THEN patterns ELSE dispatches
<1>1. /\ Listed(patterns, "patterns") /\ Listed(dispatches, "dispatches") /\ program_ready = FALSE
      /\ live = {patterns.items, dispatches.items} \ {Null}
  BY DEF DriverInv, Held
<1>2. Listed(l, name)
  BY <1>1
<1>3. PICK after \in Grown(name, l, item) :
        /\ IF after.list # l.list
           THEN live' = (live \ {l.items}) \cup {after.items} /\ pc' = there
           ELSE pc' = "fail" /\ live' = live
        /\ IF name = "patterns" THEN patterns' = after /\ dispatches' = dispatches
                                ELSE dispatches' = after /\ patterns' = patterns
  BY Zenon DEF AppendItem
<1> HIDE DEF l
<1>4. /\ Listed(after, name) /\ (after.list # l.list => after.items # Null)
      /\ (after.list = l.list => after = l)
  BY <1>2, <1>3, GrownIs
<1>5. Listed(patterns', "patterns") /\ Listed(dispatches', "dispatches")
  BY <1>1, <1>3, <1>4
<1>6. patterns.items = dispatches.items => patterns.items = Null
  BY <1>1 DEF Listed, Null
<1>7. live' = {patterns'.items, dispatches'.items} \ {Null}
  <2>1. CASE after.list # l.list /\ name = "patterns"
    BY <1>1, <1>3, <1>4, <1>6, <2>1 DEF l
  <2>2. CASE after.list # l.list /\ name = "dispatches"
    BY <1>1, <1>3, <1>4, <1>6, <2>2 DEF l
  <2>3. CASE after.list = l.list
    BY <1>1, <1>3, <1>4, <2>3 DEF l
  <2> QED BY <2>1, <2>2, <2>3
<1>8. pc' \in {"arguments", "patterns", "fail"}
  BY <1>3
<1> QED BY <1>1, <1>5, <1>7, <1>8 DEF DriverInv, Held

LEMMA DriverKept ==
  ASSUME DriverInv, [DriverNext]_driverVars PROVE DriverInv'
<1>1. CASE Argument
  <2>1. pc = "arguments" /\ program_ready' = program_ready
    BY <1>1 DEF Argument
  <2> DEFINE option == Head(todo)[1]
             value  == Head(todo)[2]
  <2>2. CASE /\ option \in {"patterns", "dispatches"}
             /\ AppendItem(option, IF option = "patterns" THEN patterns ELSE dispatches, value, "arguments")
    <3> HIDE DEF option, value
    <3> QED BY <2>1, <2>2, AppendKeeps
  <2>3. CASE Jump("fail") /\ UNCHANGED <<patterns, dispatches>>
    BY <2>1, <2>3 DEF Jump, DriverInv, Listed, Held
  <2>4. CASE Free(<<patterns.items, dispatches.items>>, "exit") /\ UNCHANGED <<patterns, dispatches>>
    BY <2>1, <2>4, FreeLists, SMTT(30) DEF DriverInv, Listed
  <2> QED BY <1>1, <2>2, <2>3, <2>4 DEF Argument
<1>2. CASE NoReps
  BY <1>2 DEF NoReps, Jump, options, DriverInv, Listed, Held
<1>3. CASE DefaultPattern
  BY <1>3, AppendKeeps DEF DefaultPattern
<1>4. CASE DefaultDispatch
  <2>1. CASE dispatches.list = << >>
    BY <1>4, <2>1, AppendKeeps DEF DefaultDispatch
  <2>2. CASE dispatches.list # << >>
    BY <1>4, <2>2 DEF DefaultDispatch, Jump, DriverInv, Listed, Held
  <2> QED BY <2>1, <2>2
<1>5. CASE Pattern
  BY <1>5 DEF Pattern, program_init, Allocate, Code, Null, options, DriverInv, Listed, Held
<1>6. CASE Measure
  BY <1>6 DEF Measure, options, DriverInv, Listed, Held
<1>7. CASE PatternDone
  <2>1. Code \notin Held(patterns, dispatches)
    BY DEF DriverInv, Listed, Held, Code, Null
  <2>2. pc = "dispatches" /\ code = Code /\ live = Held(patterns, dispatches) \cup {Code}
    BY <1>7 DEF PatternDone, DriverInv
  <2>3. pc' = "patterns" /\ live' = Held(patterns, dispatches)
    BY <1>7, <2>1, <2>2, FreeProgram DEF PatternDone
  <2> QED BY <1>7, <2>3 DEF PatternDone, options, DriverInv, Listed, Held
<1>8. CASE Done
  BY <1>8, FreeLists DEF Done, options, DriverInv, Listed
<1>9. CASE Fail
  BY <1>9, FreeLists DEF Fail, options, DriverInv, Listed
<1>10. CASE Single
  BY <1>10 DEF Single, Leave, program_init, Allocate, Code, options, DriverInv, Listed, Held
<1>11. CASE SingleRuns
  <2>1. pc = "single_runs" /\ code = Code /\ live = {Code}
    BY <1>11 DEF SingleRuns, DriverInv
  <2>2. (pc' = pc /\ live' = live /\ code' = code) \/ (pc' = "exit" /\ live' = {})
    BY <1>11, <2>1, FreeProgram DEF SingleRuns
  <2> QED BY <1>11, <2>1, <2>2 DEF SingleRuns, options, DriverInv, Listed
<1>12. CASE UNCHANGED driverVars
  BY <1>12 DEF driverVars, DriverInv, Listed, Held
<1> QED BY <1>1, <1>2, <1>3, <1>4, <1>5, <1>6, <1>7, <1>8, <1>9, <1>10, <1>11, <1>12 DEF DriverNext

(* bench.c and bench_mode_common.c, for every list of arguments: whichever  *)
(* realloc or calloc fails and wherever an argument is refused, each block  *)
(* is freed once, none is left pc the exit, and program_ready says whether  *)
(* there is a code to destroy.                                           *)
THEOREM DriversFreeAll == DriverSpec => []DriverFreesAll
<1>1. DriverInv => DriverFreesAll
  BY DEF DriverInv, DriverFreesAll, Code, Held, Listed, Null
<1> QED BY <1>1, DriverStarts, DriverKept, PTL DEF DriverSpec
=============================================================================
