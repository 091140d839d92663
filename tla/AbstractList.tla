---------------------------- MODULE AbstractList ----------------------------
(***************************************************************************)
(* What an intrusive list promises its client: a sequence of distinct      *)
(* nodes to which a node is added at either end and from which any member  *)
(* is removed, the others keeping their order.                             *)
(***************************************************************************)
EXTENDS Naturals, Sequences, SequencesExt

CONSTANT Items       \* the nodes, 1 .. N

VARIABLE order       \* the list

AllItems == [k \in Items |-> k]
Listed(k) == k \in ToSet(order)

Init == order = <<>>

PushFront(k) == ~Listed(k) /\ order' = <<k>> \o order
PushBack(k)  == ~Listed(k) /\ order' = Append(order, k)
Delete(k)    == \E i \in 1 .. Len(order) : order[i] = k /\ order' = RemoveAt(order, i)
Relink       == order' \in {<<>>, AllItems}

Next == Relink \/ \E k \in Items : PushFront(k) \/ PushBack(k) \/ Delete(k)

Spec == Init /\ [][Next]_order
=============================================================================
