----------------------------- MODULE Quiz3Proofs -----------------------------
(***************************************************************************)
(* The two labs of quiz 3 the models follow, for every size.               *)
(*                                                                         *)
(* First the list and hlist lab.  Its first part is the pprev of the hlist *)
(* and of the suite's chain: it points at the pointer that points at its   *)
(* node (IInv).  The second is the list as a sequence (ListInv): which     *)
(* nodes the pointers reach and in which order, kept through every call,   *)
(* from which follow that the ring is linked both ways, that the safe loop *)
(* visits every node, and that each structure is the list of AbstractList. *)
(*                                                                         *)
(* Then heapsort_standard and heapsort_bottom_up (SortInv): both keep the  *)
(* heap and the sorted tail, so neither of bench_one's die() calls is      *)
(* reached, and the standard one keeps the elements.  sift_down is         *)
(* followed round by round: which edges of the heap hold while an element  *)
(* is on its way down, or up again.                                        *)
(***************************************************************************)
EXTENDS KernelList, HeapSort, Facts, FiniteSetTheorems

Typed == next \in [Slots -> Pointers] /\ back \in [Slots -> Pointers]

(* The two halves of SlotsPointBack, without the program counter. *)
FromBack == \A k \in Items : OnHlist(k) => next[back[k]] = k /\ Holds(back[k])
FromNext == \A s \in Slots :
              Holds(s) /\ next[s] # Null => next[s] \in Items /\ back[next[s]] = s
PointBack == Typed /\ FromBack /\ FromNext

(* The chain as it is linked for a test. *)
Chain ==
  /\ next[N] = Null
  /\ \A k \in Items : back[k] = k - 1
  /\ \A k \in Slots \ {N} : next[k] = k + 1

IInv ==
  /\ pc \in {"hlist", "relink", "seek"} => PointBack
  /\ pc = "hlist" => test = 0
  /\ pc = "relink" => test \in 0 .. (Tests - 1) /\ next[N] = Null
  /\ pc = "seek" => /\ Chain /\ pos \in Slots
                    /\ test \in 1 .. Tests
                    /\ target \in Items \cup {Absent}
                    /\ test < Tests => target # N

(* The pointers that are no slots, and the slots that are nodes.           *)
LEMMA Names ==
  /\ N \in Nat /\ N > 0 /\ N \in Items /\ 0 \in Slots /\ 0 \notin Items
  /\ Items \subseteq Slots
  /\ \A s \in Slots : s \in Items \/ s = 0
  /\ Slots \subseteq Pointers
  /\ Null \notin Slots /\ Poison1 \notin Slots /\ Poison2 \notin Slots
  /\ Wild \notin Slots /\ Absent \notin Slots /\ Absent # Null
  /\ Null \in Pointers /\ Poison1 \in Pointers /\ Poison2 \in Pointers /\ Wild \in Pointers
BY NAssumption DEF Items, Slots, Pointers, Null, Poison1, Poison2, Wild, Absent

(* init_hlist_node on a node that is off the list.                         *)
LEMMA InitNodeKeeps ==
  ASSUME PointBack, NEW k \in Items, init_hlist_node(k)
  PROVE  PointBack'
<1> USE Names
<1>1. /\ next' = [next EXCEPT ![k] = Null] /\ back' = [back EXCEPT ![k] = Null]
      /\ back[k] \notin Slots
  BY DEF init_hlist_node, Set, OnHlist
<1>2. Typed /\ Typed'
  BY <1>1 DEF PointBack, Typed
<1>3. /\ next'[k] = Null /\ back'[k] = Null
      /\ \A s \in Slots : s # k => next'[s] = next[s] /\ back'[s] = back[s]
  BY <1>1, <1>2 DEF Typed
<1>4. \A s \in Slots : Holds(s) => s # k
  BY <1>1 DEF Holds, OnHlist
<1>5. \A s \in Slots : Holds(s)' <=> Holds(s)
  BY <1>1, <1>3, <1>4 DEF Holds, OnHlist
<1>6. FromBack'
  <2> SUFFICES ASSUME NEW j \in Items, OnHlist(j)' PROVE (next[back[j]] = j /\ Holds(back[j]))'
    BY DEF FromBack
  <2>1. j # k
    BY <1>3 DEF OnHlist
  <2>2. OnHlist(j) /\ back'[j] = back[j] /\ back[j] \in Slots
    BY <1>3, <2>1 DEF OnHlist
  <2>3. next[back[j]] = j /\ Holds(back[j])
    BY <2>2 DEF PointBack, FromBack
  <2>4. back[j] # k
    BY <1>4, <2>2, <2>3
  <2> QED BY <1>3, <1>5, <2>2, <2>3, <2>4
<1>7. FromNext'
  <2> SUFFICES ASSUME NEW s \in Slots, Holds(s)', next'[s] # Null
               PROVE next'[s] \in Items /\ back'[next'[s]] = s
    BY DEF FromNext
  <2>1. Holds(s) /\ s # k /\ next'[s] = next[s]
    BY <1>3, <1>4, <1>5
  <2>2. next[s] \in Items /\ back[next[s]] = s
    BY <2>1 DEF PointBack, FromNext
  <2>3. next[s] # k
    BY <1>1, <2>2
  <2> QED BY <1>3, <2>1, <2>2, <2>3
<1> QED BY <1>2, <1>6, <1>7 DEF PointBack

(* hlist_add_head of an initialised node.                                  *)
LEMMA AddHeadKeeps ==
  ASSUME PointBack, NEW k \in Items, hlist_add_head(k)
  PROVE  PointBack'
<1> USE Names
<1> DEFINE first == next[0]
<1>1. back[k] = Null /\ back[k] \notin Slots
  BY DEF hlist_add_head
<1>2. Typed /\ first \in Pointers
  BY DEF PointBack, Typed
<1>3. /\ back' = [j \in Slots |-> CASE j = k -> 0
                                    [] j # k /\ j = first -> k
                                    [] OTHER -> back[j]]
      /\ next' = [j \in Slots |-> CASE j = k -> first [] j = 0 -> k [] OTHER -> next[j]]
  BY DEF hlist_add_head
<1>4. first # Null => first \in Items /\ back[first] = 0
  BY DEF PointBack, FromNext, Holds
<1>5. first # k
  BY <1>1, <1>4
<1> HIDE DEF first
<1>6. /\ back'[k] = 0 /\ next'[k] = first /\ next'[0] = k
      /\ first # Null => back'[first] = k
      /\ \A j \in Slots : j # k /\ j # first => back'[j] = back[j]
      /\ \A j \in Slots : j # k /\ j # 0 => next'[j] = next[j]
  BY <1>3, <1>4, <1>5
<1>7. Typed'
  <2>1. \A j \in Slots : back'[j] \in Pointers
    BY <1>2, <1>4, <1>6 DEF Typed
  <2>2. \A j \in Slots : next'[j] \in Pointers
    BY <1>2, <1>6 DEF Typed
  <2>3. DOMAIN back' = Slots /\ DOMAIN next' = Slots
    BY <1>3
  <2>4. back' = [j \in Slots |-> back'[j]] /\ next' = [j \in Slots |-> next'[j]]
    BY <1>3
  <2> QED BY <2>1, <2>2, <2>4 DEF Typed
<1>8. \A s \in Slots : Holds(s)' <=> Holds(s) \/ s = k
  BY <1>4, <1>6 DEF Holds, OnHlist
<1>9. ~Holds(k)
  BY <1>1 DEF Holds, OnHlist
<1>10. FromBack'
  <2> SUFFICES ASSUME NEW j \in Items, OnHlist(j)' PROVE (next[back[j]] = j /\ Holds(back[j]))'
    BY DEF FromBack
  <2>1. CASE j = k
    BY <1>6, <1>8, <2>1 DEF Holds
  <2>2. CASE j = first
    BY <1>4, <1>6, <1>8, <2>2
  <2>3. CASE j # k /\ j # first
    <3>1. back'[j] = back[j] /\ back[j] \in Slots
      BY <1>6, <2>3 DEF OnHlist
    <3>2. next[back[j]] = j /\ Holds(back[j])
      BY <3>1 DEF PointBack, FromBack, OnHlist
    <3>3. back[j] # 0 /\ back[j] # k
      BY <1>9, <2>3, <3>2 DEF first
    <3> QED BY <1>6, <1>8, <3>1, <3>2, <3>3
  <2> QED BY <2>1, <2>2, <2>3
<1>11. FromNext'
  <2> SUFFICES ASSUME NEW s \in Slots, Holds(s)', next'[s] # Null
               PROVE next'[s] \in Items /\ back'[next'[s]] = s
    BY DEF FromNext
  <2>1. CASE s = 0
    BY <1>6, <2>1
  <2>2. CASE s = k
    BY <1>4, <1>6, <2>2
  <2>3. CASE s # 0 /\ s # k
    <3>1. Holds(s) /\ next'[s] = next[s]
      BY <1>6, <1>8, <2>3
    <3>2. next[s] \in Items /\ back[next[s]] = s
      BY <3>1 DEF PointBack, FromNext
    <3>3. next[s] # k /\ next[s] # first
      BY <1>1, <1>4, <2>3, <3>2
    <3> QED BY <1>6, <3>1, <3>2, <3>3
  <2> QED BY <2>1, <2>2, <2>3
<1> QED BY <1>7, <1>10, <1>11 DEF PointBack

(* hlist_del of a node that is on the list, or that was only initialised.  *)
LEMMA DelKeeps ==
  ASSUME PointBack, NEW k \in Items, hlist_del(k)
  PROVE  PointBack'
<1> USE Names
<1>1. CASE back[k] = Null
  BY <1>1 DEF hlist_del, PointBack, Typed, FromBack, FromNext, Holds, OnHlist
<1>2. CASE back[k] # Null
  <2> DEFINE b == back[k]
             m == next[k]
  <2>1. OnHlist(k) /\ b \in Slots /\ Holds(k)
    BY <1>2 DEF hlist_del, OnHlist, Holds
  <2>2. next[b] = k /\ Holds(b)
    BY <2>1 DEF PointBack, FromBack
  <2>3. m # Null => m \in Items /\ back[m] = k
    BY <2>1 DEF PointBack, FromNext
  <2>4. Typed /\ m \in Pointers
    BY DEF PointBack, Typed
  <2>5. /\ back' = [j \in Slots |-> CASE j = k -> Poison2
                                      [] j # k /\ j = m -> b
                                      [] OTHER -> back[j]]
        /\ next' = [[next EXCEPT ![b] = m] EXCEPT ![k] = Poison1]
    <3>1. /\ back' = [j \in Slots |-> CASE j = k -> Poison2
                                        [] j # k /\ j = next[k] -> back[k]
                                        [] OTHER -> back[j]]
          /\ next' = [next EXCEPT ![back[k]] = next[k], ![k] = Poison1]
      BY <1>2 DEF hlist_del, Set2
    <3> QED BY <3>1
  <2>6. m = k <=> b = k
    BY <2>1, <2>2, <2>3
  <2> HIDE DEF b, m
  <2>7. /\ back'[k] = Poison2 /\ next'[k] = Poison1
        /\ m # k /\ m # Null => back'[m] = b
        /\ \A j \in Slots : j # k /\ j # m => back'[j] = back[j]
        /\ b # k => next'[b] = m
        /\ \A j \in Slots : j # k /\ j # b => next'[j] = next[j]
    <3>1. DOMAIN next = Slots
      BY <2>4 DEF Typed
    <3> QED BY <2>1, <2>3, <2>5, <3>1
  <2>8. Typed'
    <3>1. \A j \in Slots : back'[j] \in Pointers
      BY <2>1, <2>3, <2>4, <2>7 DEF Typed
    <3>2. back' = [j \in Slots |-> back'[j]]
      BY <2>5
    <3>3. next' \in [Slots -> Pointers]
      BY <2>1, <2>4, <2>5 DEF Typed
    <3> QED BY <3>1, <3>2, <3>3 DEF Typed
  <2>9. \A s \in Slots : s # k /\ Holds(s) => Holds(s)'
    BY <2>1, <2>3, <2>7 DEF Holds, OnHlist
  <2>10. \A s \in Slots : Holds(s)' => s # k /\ Holds(s)
    <3> SUFFICES ASSUME NEW s \in Slots, Holds(s)' PROVE s # k /\ Holds(s)
      OBVIOUS
    <3>1. s # k
      BY <2>7 DEF Holds, OnHlist
    <3>2. CASE s = m /\ s \in Items
      <4>1. back[s] = k /\ k \in Slots
        BY <2>3, <3>2
      <4> QED BY <3>1, <4>1 DEF Holds, OnHlist
    <3>3. CASE s # m \/ s = 0
      BY <2>7, <3>1, <3>3 DEF Holds, OnHlist
    <3> QED BY <3>1, <3>2, <3>3
  <2>11. FromBack'
    <3> SUFFICES ASSUME NEW j \in Items, OnHlist(j)'
                 PROVE (next[back[j]] = j /\ Holds(back[j]))'
      BY DEF FromBack
    <3>1. j # k
      BY <2>7 DEF OnHlist
    <3>2. CASE j = m
      <4>1. back'[j] = b /\ b # k
        BY <2>6, <2>7, <3>1, <3>2
      <4> QED BY <2>1, <2>2, <2>7, <2>9, <3>2, <4>1
    <3>3. CASE j # m
      <4>1. back'[j] = back[j] /\ back[j] \in Slots
        BY <2>7, <3>1, <3>3 DEF OnHlist
      <4>2. next[back[j]] = j /\ Holds(back[j])
        BY <4>1 DEF PointBack, FromBack, OnHlist
      <4>3. back[j] # b /\ back[j] # k
        BY <2>2, <3>1, <3>3, <4>2 DEF m
      <4> QED BY <2>7, <2>9, <4>1, <4>2, <4>3
    <3> QED BY <3>2, <3>3
  <2>12. FromNext'
    <3> SUFFICES ASSUME NEW s \in Slots, Holds(s)', next'[s] # Null
                 PROVE next'[s] \in Items /\ back'[next'[s]] = s
      BY DEF FromNext
    <3>1. s # k /\ Holds(s)
      BY <2>10
    <3>2. CASE s = b
      BY <2>3, <2>6, <2>7, <3>1, <3>2
    <3>3. CASE s # b
      <4>1. next'[s] = next[s]
        BY <2>7, <3>1, <3>3
      <4>2. next[s] \in Items /\ back[next[s]] = s
        BY <3>1, <4>1 DEF PointBack, FromNext
      <4>3. next[s] # k
        BY <3>3, <4>2 DEF b
      <4>4. next[s] # m
        BY <2>3, <3>1, <4>2
      <4> QED BY <2>7, <4>1, <4>2, <4>3, <4>4
    <3> QED BY <3>2, <3>3
  <2> QED BY <2>8, <2>11, <2>12 DEF PointBack
<1> QED BY <1>1, <1>2

(* A chain that was linked from end to end points back everywhere.         *)
LEMMA ChainPointsBack ==
  ASSUME Typed', Chain'
  PROVE  PointBack'
<1> USE Names
<1>1. \A k \in Items : k - 1 \in Slots \ {N} /\ (k - 1) + 1 = k
  BY DEF Items, Slots
<1>2. \A s \in Slots \ {N} : s + 1 \in Items /\ (s + 1) - 1 = s
  BY DEF Items, Slots
<1>3. \A s \in Slots : Holds(s)'
  BY <1>1 DEF Chain, Holds, OnHlist
<1>4. FromBack'
  BY <1>1, <1>3 DEF Chain, FromBack
<1>5. FromNext'
  BY <1>2 DEF Chain, FromNext
<1> QED BY <1>4, <1>5 DEF PointBack

(* Storing the links again makes a whole chain if the last next is NULL.   *)
LEMMA LinkingMakesChain ==
  ASSUME NEW f, NEW g, f[N] = Null, next' = Linked(f), back' = Linkback(g), g[0] \in Pointers
  PROVE  Typed' /\ Chain'
<1> USE Names
<1>1. \A k \in Slots : next'[k] = IF k < N THEN k + 1 ELSE f[k]
  BY DEF Linked
<1>2. \A k \in Slots : back'[k] = IF k = 0 THEN g[k] ELSE k - 1
  BY DEF Linkback
<1>3. \A k \in Slots \ {N} : k < N /\ k + 1 \in Slots
  BY DEF Slots
<1>4. \A k \in Items : k # 0 /\ k - 1 \in Slots
  BY DEF Items, Slots
<1>5. Chain'
  <2>1. next'[N] = Null
    BY <1>1
  <2>2. \A k \in Items : back'[k] = k - 1
    BY <1>2, <1>4
  <2>3. \A k \in Slots \ {N} : next'[k] = k + 1
    BY <1>1, <1>3
  <2> QED BY <2>1, <2>2, <2>3 DEF Chain
<1>6. \A k \in Slots : next'[k] \in Pointers /\ back'[k] \in Pointers
  BY <1>2, <1>3, <1>4, <1>5 DEF Chain
<1>7. next' = [k \in Slots |-> next'[k]] /\ back' = [k \in Slots |-> back'[k]]
  BY DEF Linked, Linkback
<1> QED BY <1>5, <1>6, <1>7 DEF Typed

(* Deleting the target through pp, when it is not the tail.                *)
LEMMA DeleteKeeps ==
  ASSUME Typed, Chain, pos \in Slots, target \in Items, target # N, next[pos] = target,
         next' = Set2(next, pos, next[target], target, Poison1),
         back' = IF next[target] = Null THEN Set(back, target, Poison2)
                 ELSE Set2(back, next[target], pos, target, Poison2)
  PROVE  PointBack' /\ next'[N] = Null
<1> USE Names
<1>1. /\ pos = target - 1 /\ pos # N /\ pos # target
      /\ next[target] = target + 1 /\ target + 1 \in Items /\ target + 1 # target
      /\ target + 1 # pos /\ target + 1 # Null
  <2>1. pos # N
    BY DEF Chain
  <2>2. next[pos] = pos + 1 /\ next[target] = target + 1
    BY <2>1 DEF Chain
  <2> QED BY <2>1, <2>2 DEF Items, Slots
<1> DEFINE after == target + 1
<1>2. /\ next' = [next EXCEPT ![pos] = after, ![target] = Poison1]
      /\ back' = [back EXCEPT ![after] = pos, ![target] = Poison2]
  BY <1>1 DEF Set2
<1>3. after \in Items /\ after # target /\ after # pos
  BY <1>1
<1>4. after = target + 1 /\ pos = target - 1
  BY <1>1
<1> HIDE DEF after
<1>5. Typed'
  BY <1>2, <1>3 DEF Typed
<1>6. /\ next'[pos] = after /\ next'[target] = Poison1
      /\ back'[after] = pos /\ back'[target] = Poison2
      /\ \A s \in Slots : s # pos /\ s # target => next'[s] = next[s]
      /\ \A s \in Slots : s # after /\ s # target => back'[s] = back[s]
  BY <1>1, <1>2, <1>3 DEF Typed
<1>7. next'[N] = Null
  BY <1>1, <1>6 DEF Chain
<1>8. \A k \in Items : k - 1 \in Slots \ {N} /\ (k - 1) + 1 = k
  BY DEF Items, Slots
<1>9. \A s \in Slots \ {N} : s + 1 \in Items /\ (s + 1) - 1 = s
  BY DEF Items, Slots
<1>10. \A s \in Slots : Holds(s)' <=> s # target
  BY <1>3, <1>6, <1>8 DEF Chain, Holds, OnHlist
<1>11. FromBack'
  <2> SUFFICES ASSUME NEW j \in Items, OnHlist(j)' PROVE (next[back[j]] = j /\ Holds(back[j]))'
    BY DEF FromBack
  <2>1. j # target
    BY <1>6 DEF OnHlist
  <2>2. CASE j = after
    BY <1>1, <1>6, <1>10, <2>2
  <2>3. CASE j # after
    <3>1. back'[j] = j - 1 /\ j - 1 \in Slots \ {N} /\ next[j - 1] = j
      BY <1>6, <1>8, <2>1, <2>3 DEF Chain
    <3>2. j - 1 # pos /\ j - 1 # target
      BY <1>4, <2>1, <2>3 DEF Items
    <3> QED BY <1>6, <1>10, <3>1, <3>2
  <2> QED BY <2>2, <2>3
<1>12. FromNext'
  <2> SUFFICES ASSUME NEW s \in Slots, Holds(s)', next'[s] # Null
               PROVE next'[s] \in Items /\ back'[next'[s]] = s
    BY DEF FromNext
  <2>1. s # target
    BY <1>10
  <2>2. CASE s = pos
    BY <1>3, <1>6, <2>2
  <2>3. CASE s # pos
    <3>1. s # N
      BY <1>7
    <3>2. next'[s] = s + 1 /\ s + 1 \in Items /\ back[s + 1] = s
      BY <1>6, <1>9, <2>1, <2>3, <3>1 DEF Chain
    <3>3. s + 1 # target /\ s + 1 # after
      BY <1>4, <2>1, <2>3 DEF Items, Slots
    <3> QED BY <1>6, <3>2, <3>3
  <2> QED BY <2>2, <2>3
<1> QED BY <1>5, <1>7, <1>11, <1>12 DEF PointBack

(* Every step of the hlist calls keeps the invariant.                      *)
LEMMA HlistStepKeeps ==
  ASSUME IInv, NEW k \in Items, init_hlist_node(k) \/ hlist_add_head(k) \/ hlist_del(k)
  PROVE  IInv'
<1>1. pc = "hlist" /\ pc' = "hlist" /\ test' = test
  BY DEF init_hlist_node, hlist_add_head, hlist_del, walk
<1>2. PointBack
  BY <1>1 DEF IInv
<1>3. PointBack'
  BY <1>2, InitNodeKeeps, AddHeadKeeps, DelKeeps
<1> QED BY <1>1, <1>3 DEF IInv

(* The suite links the chain for a test: first from scratch, then again.   *)
LEMMA RelinkStepKeeps ==
  ASSUME IInv, StartSuite \/ Relink
  PROVE  IInv'
<1> USE Names
<1>1. CASE StartSuite
  <2> DEFINE f == Set(Uninitialised, N, Null)
  <2>1. f[N] = Null /\ Uninitialised[0] \in Pointers
    BY DEF Set, Uninitialised
  <2>2. next' = Linked(f) /\ back' = Linkback(Uninitialised)
    BY <1>1 DEF StartSuite
  <2> HIDE DEF f
  <2>3. Typed' /\ Chain'
    BY <2>1, <2>2, LinkingMakesChain
  <2>4. PointBack'
    BY <2>3, ChainPointsBack
  <2>5. pc = "hlist" /\ pc' = "relink" /\ test' = test
    BY <1>1 DEF StartSuite, walk
  <2>6. test' = 0 /\ next'[N] = Null
    BY <2>3, <2>5 DEF IInv, Chain
  <2> QED BY <2>4, <2>5, <2>6 DEF IInv, Tests
<1>2. CASE Relink
  <2>1. /\ pc = "relink" /\ pc' = "seek" /\ pos' = 0 /\ test' = test + 1
        /\ next' = Linked(next) /\ back' = Linkback(back) /\ target' \in Targets
    BY <1>2 DEF Relink
  <2>2. next[N] = Null /\ Typed /\ test \in 0 .. (Tests - 1)
    BY <2>1 DEF IInv, PointBack
  <2>3. back[0] \in Pointers
    BY <2>2 DEF Typed
  <2>4. Typed' /\ Chain'
    BY <2>1, <2>2, <2>3, LinkingMakesChain
  <2>5. PointBack'
    BY <2>4, ChainPointsBack
  <2>6. test' \in 1 .. Tests /\ target' \in Items \cup {Absent}
    BY <2>1, <2>2 DEF Tests, Targets
  <2>7. test' < Tests => target' # N
    BY <2>1, <2>2 DEF Tests, Targets
  <2> QED BY <2>1, <2>4, <2>5, <2>6, <2>7 DEF IInv
<1> QED BY <1>1, <1>2

(* The walk to the target, its end, and the deletion.                      *)
LEMMA SeekStepKeeps ==
  ASSUME IInv, Seek \/ Miss \/ DeleteTarget
  PROVE  IInv'
<1> USE Names
<1>1. CASE Seek
  <2>1. /\ pc = "seek" /\ pc' = "seek" /\ pos' \in Items
        /\ UNCHANGED <<next, back, target, test>>
    BY <1>1 DEF Seek
  <2>2. PointBack /\ Chain
    BY <2>1 DEF IInv
  <2>3. PointBack' /\ Chain'
    BY <2>1, <2>2 DEF PointBack, Typed, FromBack, FromNext, Chain, Holds, OnHlist
  <2> QED BY <2>1, <2>3 DEF IInv
<1>2. CASE Miss
  BY <1>2 DEF Miss, IInv
<1>3. CASE DeleteTarget
  <2>1. /\ pc = "seek" /\ next[pos] = target /\ test' = test
        /\ next' = Set2(next, pos, next[target], target, Poison1)
        /\ back' = IF next[target] = Null THEN Set(back, target, Poison2)
                   ELSE Set2(back, next[target], pos, target, Poison2)
        /\ pc' \in {"check_failed", "fill", "relink"}
        /\ pc' = "relink" => test # Tests
    BY <1>3 DEF DeleteTarget, walk
  <2>2. CASE pc' = "relink"
    <3>1. /\ Typed /\ Chain /\ pos \in Slots /\ test \in 1 .. Tests
          /\ target \in Items \cup {Absent}
          /\ test < Tests => target # N
      BY <2>1 DEF IInv, PointBack
    <3>2. test < Tests /\ test' \in 0 .. (Tests - 1)
      BY <2>1, <2>2, <3>1 DEF Tests
    <3>3. target \in Pointers
      BY <2>1, <3>1 DEF Typed
    <3>4. target # Absent
      BY <3>3 DEF Pointers, Absent, Slots, Null, Poison1, Poison2, Wild
    <3>5. target \in Items
      BY <3>1, <3>4
    <3>6. PointBack' /\ next'[N] = Null
      BY <2>1, <3>1, <3>2, <3>5, DeleteKeeps
    <3> QED BY <2>2, <3>2, <3>6 DEF IInv
  <2>3. CASE pc' # "relink"
    BY <2>1, <2>3 DEF IInv
  <2> QED BY <2>2, <2>3
<1> QED BY <1>1, <1>2, <1>3

(* No other step is taken or ends where the invariant speaks.              *)
LEMMA LoopStepKeeps ==
  ASSUME FirstFill \/ SecondFill \/ AddTail \/ StartLoop \/ VisitSafe
         \/ Advance \/ SafeDone \/ VisitUnsafe \/ UnsafeDone
  PROVE  IInv'
<1>1. pc' \notin {"hlist", "relink", "seek"}
  BY DEF FirstFill, SecondFill, AddTail, StartLoop, VisitSafe, Advance,
         SafeDone, VisitUnsafe, UnsafeDone
<1> QED BY <1>1 DEF IInv

(* The start of the program.                                               *)
LEMMA StartKeeps == Init => IInv
<1> SUFFICES ASSUME Init PROVE IInv
  OBVIOUS
<1> USE Names
<1>1. /\ pc = "hlist" /\ test = 0
      /\ next = [[k \in Slots |-> Wild] EXCEPT ![0] = Null]
      /\ back = [k \in Slots |-> Wild]
  BY DEF Init, Set, Uninitialised
<1>2. Typed
  BY <1>1 DEF Typed
<1>3. \A k \in Slots : ~OnHlist(k)
  BY <1>1 DEF OnHlist
<1>4. next[0] = Null
  BY <1>1
<1>5. FromBack /\ FromNext
  BY <1>3, <1>4 DEF FromBack, FromNext, Holds
<1> QED BY <1>1, <1>2, <1>5 DEF IInv, PointBack

(* IInv holds in every reachable state.                                    *)
LEMMA Inductive == Spec => []IInv
<1>1. IInv /\ [Next]_vars => IInv'
  <2> SUFFICES ASSUME IInv, [Next]_vars PROVE IInv'
    OBVIOUS
  <2>1. CASE \E k \in Items : init_hlist_node(k) \/ hlist_add_head(k) \/ hlist_del(k)
    BY <2>1, HlistStepKeeps
  <2>2. CASE StartSuite \/ Relink
    BY <2>2, RelinkStepKeeps
  <2>3. CASE Seek \/ Miss \/ DeleteTarget
    BY <2>3, SeekStepKeeps
  <2>4. CASE \/ FirstFill \/ SecondFill \/ AddTail \/ StartLoop \/ VisitSafe
             \/ Advance \/ SafeDone \/ VisitUnsafe \/ UnsafeDone
    BY <2>4, LoopStepKeeps
  <2>5. CASE UNCHANGED vars
    BY <2>5 DEF vars, walk, IInv, PointBack, Typed, FromBack, FromNext, Chain, Holds, OnHlist
  <2> QED BY <2>1, <2>2, <2>3, <2>4, <2>5 DEF Next
<1> QED BY StartKeeps, <1>1, PTL DEF Spec

(* For every number of nodes: wherever the hlist functions or the suite    *)
(* stand, every pprev points at the pointer that points at its node, and   *)
(* that pointer belongs to the list, so a node can be unlinked in place.   *)
THEOREM PointersPointBack == Spec => []SlotsPointBack
<1>1. IInv => SlotsPointBack
  BY DEF IInv, PointBack, FromBack, FromNext, SlotsPointBack
<1> QED BY <1>1, Inductive, PTL

----------------------------------------------------------------------------
(* The list as a sequence.  Which pointers reach the nodes of s in order,  *)
(* and what adding a node in front or behind, and taking one out, do to them. *)

(* The pointers nx lead from the head through the L nodes of s to e, and   *)
(* the pointers bk from each of these back to the one before it.           *)
Along(nx, s, L, e) ==
  /\ nx[0] = IF L = 0 THEN e ELSE s[1]
  /\ \A i \in 1 .. L : nx[s[i]] = IF i = L THEN e ELSE s[i + 1]

Behind(bk, s, L) == \A i \in 1 .. L : bk[s[i]] = IF i = 1 THEN 0 ELSE s[i - 1]

Distinct(s, L) == \A i, j \in 1 .. L : s[i] = s[j] => i = j

LEMMA ReachedIs ==
  ASSUME NEW f, NEW e, e \notin Items, NEW L \in 0 .. N, NEW s \in [1 .. L -> Items],
         Along(f, s, L, e)
  PROVE  Reached(f) = s
<1> USE NAssumption
<1> DEFINE Step(g) == [j \in Slots |-> IF j = 0 THEN f[0]
                              ELSE IF g[j - 1] \in Items THEN f[g[j - 1]]
                              ELSE g[j - 1]]
           met == [j \in Slots |-> IF j < L THEN s[j + 1] ELSE e]
<1>1. \A i \in 1 .. L : s[i] \in Items
  OBVIOUS
<1>2. met = Step(met)
  <2>1. ASSUME NEW j \in Slots PROVE met[j] = Step(met)[j]
    <3>1. CASE j = 0
      BY <3>1 DEF Along, Slots
    <3>2. CASE j # 0
      <4>1. /\ j - 1 \in Slots /\ j \in 1 .. N
            /\ met[j - 1] = IF j <= L THEN s[j] ELSE e
            /\ met[j] = IF j < L THEN s[j + 1] ELSE e
        BY <3>2 DEF Slots
      <4>2. Step(met)[j] = IF met[j - 1] \in Items THEN f[met[j - 1]] ELSE met[j - 1]
        BY <3>2
      <4> HIDE DEF met, Step
      <4>3. CASE j <= L
        <5>1. j \in 1 .. L /\ f[s[j]] = IF j = L THEN e ELSE s[j + 1]
          BY <4>1, <4>3 DEF Along
        <5> QED BY <1>1, <4>1, <4>2, <4>3, <5>1
      <4>4. CASE j > L
        BY <4>1, <4>2, <4>4
      <4> QED BY <4>1, <4>3, <4>4
    <3> QED BY <3>1, <3>2
  <2>2. met = [j \in Slots |-> met[j]] /\ Step(met) = [j \in Slots |-> Step(met)[j]]
    OBVIOUS
  <2> HIDE DEF met, Step
  <2> QED BY <2>1, <2>2
<1>3. ASSUME NEW g, g = Step(g) PROVE g = met
  <2> DEFINE T == {j \in Slots : g[j] # met[j]}
  <2>1. ASSUME T # {} PROVE FALSE
    <3>1. PICK x \in T : \A y \in T : x <= y
      <4>1. T \in SUBSET Nat
        BY DEF Slots
      <4> HIDE DEF T
      <4> QED BY <2>1, <4>1, LeastNumber
    <3>2. x \in Slots /\ (x # 0 => x - 1 \in Slots /\ g[x - 1] = met[x - 1])
      BY <3>1 DEF Slots
    <3>3. g[x] = Step(g)[x] /\ met[x] = Step(met)[x]
      BY <1>2, <1>3
    <3> HIDE DEF met
    <3> QED BY <3>1, <3>2, <3>3
  <2>2. \A j \in Slots : g[j] = met[j]
    BY <2>1
  <2>3. g = [j \in Slots |-> g[j]] /\ met = [j \in Slots |-> met[j]]
    BY <1>3
  <2> HIDE DEF met
  <2> QED BY <2>2, <2>3
<1>4. (CHOOSE g : g = Step(g)) = met
  BY <1>2, <1>3
<1>5. {j \in 1 .. N + 1 : met[j - 1] \in Items} = 1 .. L
  <2>1. ASSUME NEW j \in 1 .. N + 1 PROVE met[j - 1] \in Items <=> j \in 1 .. L
    <3>1. j - 1 \in Slots
      BY DEF Slots
    <3>2. met[j - 1] = IF j - 1 < L THEN s[j] ELSE e
      BY <3>1
    <3> HIDE DEF met
    <3> QED BY <1>1, <3>2
  <2> HIDE DEF met
  <2> QED BY <2>1
<1>6. [i \in 1 .. L |-> met[i - 1]] = s
  <2>1. \A i \in 1 .. L : met[i - 1] = s[i]
    <3>1. \A i \in 1 .. L : i - 1 \in Slots
      BY DEF Slots
    <3> QED BY <3>1
  <2> HIDE DEF met
  <2> QED BY <2>1
<1>7. Reached(f) = [i \in {j \in 1 .. N + 1 : met[j - 1] \in Items} |-> met[i - 1]]
  <2> DEFINE at == CHOOSE g : g = Step(g)
  <2>1. Reached(f) = [i \in {j \in 1 .. N + 1 : at[j - 1] \in Items} |-> at[i - 1]]
    BY DEF Reached
  <2> HIDE DEF met, at
  <2>2. at = met
    BY <1>4 DEF at
  <2> QED BY <2>1, <2>2
<1> QED BY <1>5, <1>6, <1>7

(* A list that does not hold one of the nodes is shorter than N. *)
LEMMA RoomForOne ==
  ASSUME NEW L \in 0 .. N, NEW s \in [1 .. L -> Items], Distinct(s, L),
         NEW k \in Items, \A i \in 1 .. L : s[i] # k
  PROVE  L + 1 \in 0 .. N
<1>1. N \in Nat \ {0} /\ Items = 1 .. N /\ IsFiniteSet(Items) /\ Cardinality(Items) = N
  BY NAssumption, FS_Interval DEF Items
<1>2. IsFiniteSet(Items \ {k}) /\ Cardinality(Items \ {k}) = N - 1
  BY <1>1, FS_RemoveElement, ZenonT(30)
<1>3. IsFiniteSet(1 .. L) /\ Cardinality(1 .. L) = L
  BY <1>1, FS_Interval
<1>4. s \in [1 .. L -> Items \ {k}]
  OBVIOUS
<1>5. ~(N - 1 < L)
  <2> SUFFICES ASSUME N - 1 < L PROVE FALSE
    OBVIOUS
  <2>1. \E i, j \in 1 .. L : i # j /\ s[i] = s[j]
    BY <1>2, <1>3, <1>4, FS_PigeonHole
  <2> QED BY <2>1 DEF Distinct
<1> QED BY <1>1, <1>5

(* A node in front of the others. *)
LEMMA FrontAlong ==
  ASSUME NEW L \in 0 .. N, NEW s \in [1 .. L -> Items], NEW k \in Items,
         \A i \in 1 .. L : s[i] # k, Distinct(s, L),
         NEW nx, NEW bk, NEW e, e \notin Items, Along(nx, s, L, e), Behind(bk, s, L),
         NEW nx2, nx2[0] = k, nx2[k] = nx[0], \A m \in Items \ {k} : nx2[m] = nx[m],
         NEW bk2, bk2[k] = 0,
         \A m \in Items \ {k} : bk2[m] = IF m = nx[0] THEN k ELSE bk[m]
  PROVE  /\ Along(nx2, WithInFront(k, s, L), L + 1, e)
         /\ Behind(bk2, WithInFront(k, s, L), L + 1)
         /\ Distinct(WithInFront(k, s, L), L + 1)
         /\ WithInFront(k, s, L) \in [1 .. L + 1 -> Items]
<1> DEFINE t == WithInFront(k, s, L)
<1>1. N \in Nat /\ \A i \in 1 .. L + 1 : t[i] = IF i = 1 THEN k ELSE s[i - 1]
  BY NAssumption DEF WithInFront
<1>2. \A i \in 1 .. L : s[i] \in Items \ {k}
  OBVIOUS
<1>3. t \in [1 .. L + 1 -> Items]
  BY DEF WithInFront
<1> HIDE DEF t
<1>4. Distinct(t, L + 1)
  BY <1>1, <1>2 DEF Distinct
<1>5. ASSUME NEW i \in 1 .. L + 1
      PROVE  /\ nx2[t[i]] = IF i = L + 1 THEN e ELSE t[i + 1]
             /\ bk2[t[i]] = IF i = 1 THEN 0 ELSE t[i - 1]
  <2>1. CASE i = 1
    BY <1>1, <2>1 DEF Along
  <2>2. CASE i # 1
    <3> DEFINE j == i - 1
    <3>1. j \in 1 .. L /\ i = j + 1 /\ t[i] = s[j] /\ s[j] \in Items \ {k}
      BY <1>1, <1>2, <2>2
    <3>2. nx2[t[i]] = (IF j = L THEN e ELSE s[j + 1])
      BY <3>1 DEF Along
    <3>3. j # L => t[i + 1] = s[j + 1]
      BY <1>1, <3>1
    <3>4. t[i - 1] = IF j = 1 THEN k ELSE s[j - 1]
      BY <1>1, <3>1
    <3>5. s[j] = nx[0] <=> j = 1
      BY <3>1 DEF Along, Distinct
    <3>6. bk2[t[i]] = IF j = 1 THEN k ELSE s[j - 1]
      BY <3>1, <3>5 DEF Behind
    <3> QED BY <2>2, <3>1, <3>2, <3>3, <3>4, <3>6
  <2> QED BY <2>1, <2>2
<1>6. nx2[0] = t[1] /\ L + 1 # 0
  BY <1>1
<1>7. Along(nx2, t, L + 1, e) /\ Behind(bk2, t, L + 1)
  BY <1>5, <1>6 DEF Along, Behind
<1> QED BY <1>3, <1>4, <1>7 DEF t

(* A node behind the others. *)
LEMMA BackAlong ==
  ASSUME NEW L \in 0 .. N, NEW s \in [1 .. L -> Items], NEW k \in Items,
         \A i \in 1 .. L : s[i] # k, Distinct(s, L),
         NEW nx, NEW bk, NEW e, e \notin Items, Along(nx, s, L, e), Behind(bk, s, L),
         NEW last, last = IF L = 0 THEN 0 ELSE s[L],
         NEW nx2, nx2[k] = e, \A m \in Slots \ {k} : nx2[m] = IF m = last THEN k ELSE nx[m],
         NEW bk2, bk2[k] = last, \A m \in Items \ {k} : bk2[m] = bk[m]
  PROVE  /\ Along(nx2, WithBehind(s, L, k), L + 1, e)
         /\ Behind(bk2, WithBehind(s, L, k), L + 1)
         /\ Distinct(WithBehind(s, L, k), L + 1)
         /\ WithBehind(s, L, k) \in [1 .. L + 1 -> Items]
<1> DEFINE t == WithBehind(s, L, k)
<1>1. N \in Nat /\ \A i \in 1 .. L + 1 : t[i] = IF i = L + 1 THEN k ELSE s[i]
  BY NAssumption DEF WithBehind
<1>2. \A i \in 1 .. L : s[i] \in Items \ {k} /\ s[i] \in Slots \ {k}
  BY DEF Items, Slots
<1>3. t \in [1 .. L + 1 -> Items]
  BY DEF WithBehind
<1> HIDE DEF t
<1>4. Distinct(t, L + 1)
  BY <1>1, <1>2 DEF Distinct
<1>5. ASSUME NEW i \in 1 .. L + 1
      PROVE  /\ nx2[t[i]] = IF i = L + 1 THEN e ELSE t[i + 1]
             /\ bk2[t[i]] = IF i = 1 THEN 0 ELSE t[i - 1]
  <2>1. CASE i = L + 1
    BY <1>1, <2>1
  <2>2. CASE i # L + 1
    <3>1. i \in 1 .. L /\ t[i] = s[i] /\ s[i] \in Slots \ {k} /\ s[i] \in Items \ {k} /\ L # 0
      BY <1>1, <1>2, <2>2
    <3>2. s[i] = last <=> i = L
      BY <3>1 DEF Distinct
    <3>3. nx2[t[i]] = (IF i = L THEN k ELSE s[i + 1])
      BY <3>1, <3>2 DEF Along
    <3>4. t[i + 1] = IF i = L THEN k ELSE s[i + 1]
      BY <1>1, <3>1
    <3>5. bk2[t[i]] = IF i = 1 THEN 0 ELSE s[i - 1]
      BY <3>1 DEF Behind
    <3>6. i # 1 => t[i - 1] = s[i - 1]
      BY <1>1, <3>1
    <3> QED BY <2>2, <3>3, <3>4, <3>5, <3>6
  <2> QED BY <2>1, <2>2
<1>6. nx2[0] = t[1] /\ L + 1 # 0
  <2>1. 0 \in Slots \ {k} /\ L + 1 # 0
    BY <1>1 DEF Slots, Items
  <2>2. CASE L = 0
    BY <1>1, <2>1, <2>2
  <2>3. CASE L # 0
    <3>1. L \in 1 .. L /\ 1 \in 1 .. L /\ last # 0 /\ t[1] = s[1]
      BY <1>1, <2>3 DEF Items
    <3> QED BY <2>1, <2>3, <3>1 DEF Along
  <2> QED BY <2>2, <2>3
<1>7. Along(nx2, t, L + 1, e) /\ Behind(bk2, t, L + 1)
  BY <1>5, <1>6 DEF Along, Behind
<1> QED BY <1>3, <1>4, <1>7 DEF t

(* The p-th node taken out. *)
LEMMA WithoutAlong ==
  ASSUME NEW L \in 0 .. N, NEW s \in [1 .. L -> Items], NEW p \in 1 .. L, Distinct(s, L),
         NEW nx, NEW bk, NEW e, e \notin Items, Along(nx, s, L, e), Behind(bk, s, L),
         NEW nx2, \A m \in Slots \ {s[p]} : nx2[m] = IF m = bk[s[p]] THEN nx[s[p]] ELSE nx[m],
         NEW bk2, \A m \in Items \ {s[p]} : bk2[m] = IF m = nx[s[p]] THEN bk[s[p]] ELSE bk[m]
  PROVE  /\ Along(nx2, WithoutAt(s, L, p), L - 1, e)
         /\ Behind(bk2, WithoutAt(s, L, p), L - 1)
         /\ Distinct(WithoutAt(s, L, p), L - 1)
         /\ WithoutAt(s, L, p) \in [1 .. L - 1 -> Items] /\ L - 1 \in 0 .. N
<1> DEFINE t == WithoutAt(s, L, p)
           k == s[p]
<1>1. /\ N \in Nat /\ L \in Nat /\ k \in Items
      /\ \A i \in 1 .. L - 1 : t[i] = IF i < p THEN s[i] ELSE s[i + 1]
  BY NAssumption DEF WithoutAt
<1>2. \A i \in 1 .. L : s[i] \in Items /\ s[i] \in Slots /\ s[i] # 0 /\ (i # p => s[i] # k)
  BY DEF Items, Slots, Distinct
<1>3. t \in [1 .. L - 1 -> Items]
  <2>1. \A i \in 1 .. L - 1 : t[i] \in Items
    BY <1>1, <1>2
  <2>2. t = [i \in 1 .. L - 1 |-> t[i]]
    BY DEF WithoutAt
  <2> HIDE DEF t
  <2> QED BY <2>1, <2>2
<1>4. nx[k] = (IF p = L THEN e ELSE s[p + 1]) /\ bk[k] = (IF p = 1 THEN 0 ELSE s[p - 1])
  BY DEF Along, Behind
<1> HIDE DEF t, k
<1>5. Distinct(t, L - 1)
  BY <1>1, <1>2 DEF Distinct
<1>6. ASSUME NEW i \in 1 .. L, i # p
      PROVE  /\ nx2[s[i]] = IF i = p - 1 THEN nx[k] ELSE nx[s[i]]
             /\ bk2[s[i]] = IF i = p + 1 THEN bk[k] ELSE bk[s[i]]
  <2>1. s[i] \in Items \ {k} /\ s[i] \in Slots \ {k} /\ s[i] # 0
    BY <1>2, <1>6
  <2>2. s[i] = bk[k] <=> i = p - 1
    BY <1>1, <1>4, <2>1 DEF Distinct
  <2>3. s[i] = nx[k] <=> i = p + 1
    BY <1>1, <1>4, <2>1 DEF Distinct
  <2> QED BY <2>1, <2>2, <2>3 DEF k
<1>7. ASSUME NEW i \in 1 .. L - 1
      PROVE  /\ nx2[t[i]] = IF i = L - 1 THEN e ELSE t[i + 1]
             /\ bk2[t[i]] = IF i = 1 THEN 0 ELSE t[i - 1]
  <2>1. CASE i < p
    <3>1. t[i] = s[i] /\ i \in 1 .. L /\ i # p /\ i # p + 1
      BY <1>1, <2>1
    <3>2. /\ nx2[s[i]] = (IF i = p - 1 THEN nx[k] ELSE nx[s[i]])
          /\ bk2[s[i]] = bk[s[i]]
      BY <1>6, <3>1
    <3>3. nx[s[i]] = (IF i = L THEN e ELSE s[i + 1]) /\ bk[s[i]] = (IF i = 1 THEN 0 ELSE s[i - 1])
      BY <3>1 DEF Along, Behind
    <3>4. i # 1 => t[i - 1] = s[i - 1]
      BY <1>1, <2>1, <3>1
    <3>5. nx2[s[i]] = IF i = L - 1 THEN e ELSE t[i + 1]
      BY <1>1, <1>4, <2>1, <3>1, <3>2, <3>3
    <3> QED BY <3>1, <3>2, <3>3, <3>4, <3>5
  <2>2. CASE i >= p
    <3> DEFINE j == i + 1
    <3>1. t[i] = s[j] /\ j \in 1 .. L /\ j # p /\ j # p - 1 /\ j # 1
      BY <1>1, <2>2
    <3>2. /\ nx2[s[j]] = nx[s[j]]
          /\ bk2[s[j]] = (IF j = p + 1 THEN bk[k] ELSE bk[s[j]])
      BY <1>6, <3>1
    <3>3. nx[s[j]] = (IF j = L THEN e ELSE s[j + 1]) /\ bk[s[j]] = s[j - 1]
      BY <3>1 DEF Along, Behind
    <3>4. nx2[s[j]] = IF i = L - 1 THEN e ELSE t[i + 1]
      BY <1>1, <2>2, <3>1, <3>2, <3>3
    <3>5. bk2[s[j]] = IF i = 1 THEN 0 ELSE t[i - 1]
      BY <1>1, <1>4, <2>2, <3>1, <3>2, <3>3
    <3> QED BY <3>1, <3>4, <3>5
  <2> QED BY <1>1, <2>1, <2>2
<1>8. nx2[0] = IF L - 1 = 0 THEN e ELSE t[1]
  <2>1. 0 \in Slots \ {k} /\ nx[0] = s[1]
    BY <1>1 DEF Slots, Items, Along
  <2>2. 0 = bk[k] <=> p = 1
    BY <1>1, <1>2, <1>4
  <2>3. nx2[0] = IF p = 1 THEN nx[k] ELSE s[1]
    BY <2>1, <2>2 DEF k
  <2> QED BY <1>1, <1>4, <2>3
<1>9. Along(nx2, t, L - 1, e) /\ Behind(bk2, t, L - 1)
  BY <1>7, <1>8 DEF Along, Behind
<1> QED BY <1>1, <1>3, <1>5, <1>9 DEF t

----------------------------------------------------------------------------
(* The invariant of the list, and the steps of the sequence.               *)

Upto(L) == [i \in 1 .. L |-> i]

(* The list is s: an hlist, whose nodes are the only ones with a slot, or a ring. *)
Hlist(s, L) ==
  /\ Along(next, s, L, Null) /\ Behind(back, s, L)
  /\ \A k \in Items : OnHlist(k) => \E i \in 1 .. L : s[i] = k

Ring(s, L) ==
  /\ Typed /\ Along(next, s, L, 0) /\ Behind(back, s, L)
  /\ back[0] = IF L = 0 THEN 0 ELSE s[L]

(* What the safe loop has left when it has visited v nodes, in which order, *)
(* and where its cursors are.                                               *)
StillIn(v) == {k \in Items : k > v \/ k \notin doomed}

Increasing(s, L, S) ==
  /\ \A i, j \in 1 .. L : i < j => s[i] < s[j]
  /\ \A k \in Items : k \in S <=> \E i \in 1 .. L : s[i] = k

Cursors(v) ==
  /\ pos \in Slots /\ cached \in Slots
  /\ pc = "safe" => pos = IF v = N THEN 0 ELSE v + 1
  /\ pc = "safe" /\ v < N => cached = IF v + 1 = N THEN 0 ELSE v + 2
  /\ pc = "advance" => v >= 1 /\ cached = IF v = N THEN 0 ELSE v + 1
  /\ pc = "refill" => v = N

RingPcs == {"add", "safe", "advance", "refill", "readd", "unsafe", "broke", "exit"}

ListIs(s, L) ==
  /\ Distinct(s, L)
  /\ pc = "hlist" => Hlist(s, L)
  /\ pc \in RingPcs => Ring(s, L)
  /\ pc \in {"add", "readd"} => pos = L + 1 /\ s = Upto(L)
  /\ pc = "unsafe" => L = N /\ s = Upto(N) /\ pos \in Slots
  /\ pc \in {"safe", "advance", "refill"} =>
       \E v \in 0 .. N : visited = Upto(v) /\ Increasing(s, L, StillIn(v)) /\ Cursors(v)

ListInv == \E L \in 0 .. N : \E s \in [1 .. L -> Items] : ListIs(s, L)

LEMMA Ends == /\ 0 \notin Items /\ Null \notin Items
              /\ N \in Nat \ {0} /\ Items = 1 .. N /\ Slots = 0 .. N
              /\ 0 \in 0 .. N /\ Items \subseteq Slots
              /\ Slots \cap {Null, Poison1, Poison2, Wild} = {}
BY NAssumption DEF Items, Slots, Null, Poison1, Poison2, Wild

(* What the walk meets is the list. *)
LEMMA WalkIs ==
  ASSUME NEW L \in 0 .. N, NEW s \in [1 .. L -> Items],
         Along(next, s, L, Null) \/ Along(next, s, L, 0)
  PROVE  Walk = s
BY Ends, ReachedIs DEF Walk

LEMMA WalkIsNext ==
  ASSUME NEW L \in 0 .. N, NEW s \in [1 .. L -> Items],
         Along(next', s, L, Null) \/ Along(next', s, L, 0)
  PROVE  Walk' = s
BY Ends, ReachedIs DEF Walk

(* The steps of the sequence. *)
LEMMA PushesFront ==
  ASSUME NEW L \in 0 .. N, NEW s \in [1 .. L -> Items], NEW k \in Items,
         \A i \in 1 .. L : s[i] # k, Walk = s, Walk' = WithInFront(k, s, L)
  PROVE  Abstract!Next
<1>1. L \in Nat /\ DOMAIN s = 1 .. L
  BY Ends
<1>2. <<k>> \o s = WithInFront(k, s, L)
  BY <1>1, PushIs
<1>3. ~Abstract!Listed(k)
  BY <1>1 DEF Abstract!Listed, Abstract!ToSet
<1> QED BY <1>2, <1>3 DEF Abstract!Next, Abstract!PushFront

LEMMA PushesBack ==
  ASSUME NEW L \in 0 .. N, NEW s \in [1 .. L -> Items], NEW k \in Items,
         \A i \in 1 .. L : s[i] # k, Walk = s, Walk' = WithBehind(s, L, k)
  PROVE  Abstract!Next
<1>1. L \in Nat /\ DOMAIN s = 1 .. L
  BY Ends
<1>2. Append(s, k) = WithBehind(s, L, k)
  BY <1>1, PushIs
<1>3. ~Abstract!Listed(k)
  BY <1>1 DEF Abstract!Listed, Abstract!ToSet
<1> QED BY <1>2, <1>3 DEF Abstract!Next, Abstract!PushBack

LEMMA Deletes ==
  ASSUME NEW L \in 0 .. N, NEW s \in [1 .. L -> Items], NEW p \in 1 .. L,
         Walk = s, Walk' = WithoutAt(s, L, p)
  PROVE  Abstract!Next
<1>1. L \in Nat /\ Len(s) = L /\ s[p] \in Items
  BY Ends
<1>2. RemoveAt(s, p) = WithoutAt(s, L, p)
  BY <1>1, RemoveAtIs
<1>3. Abstract!RemoveAt(s, p) = RemoveAt(s, p)
  BY DEF Abstract!RemoveAt, RemoveAt
<1>4. Abstract!Delete(s[p])
  BY <1>1, <1>2, <1>3 DEF Abstract!Delete
<1> QED BY <1>1, <1>4 DEF Abstract!Next

(* The list as it is linked for a test, and a list of none. *)
LEMMA ChainWalk ==
  ASSUME Chain'
  PROVE  Along(next', Upto(N), N, Null) /\ Behind(back', Upto(N), N)
         /\ Upto(N) \in [1 .. N -> Items] /\ Distinct(Upto(N), N) /\ Walk' = Abstract!AllItems
<1>1. Along(next', Upto(N), N, Null) /\ Behind(back', Upto(N), N)
      /\ Upto(N) \in [1 .. N -> Items] /\ Distinct(Upto(N), N)
  BY Ends DEF Chain, Along, Behind, Distinct, Upto
<1>2. N \in 0 .. N
  BY Ends
<1>3. Walk' = Upto(N)
  BY <1>1, <1>2, WalkIsNext
<1> QED BY <1>1, <1>3, Ends DEF Upto, Abstract!AllItems

LEMMA EmptyWalk ==
  ASSUME next'[0] \in {0, Null}
  PROVE  Upto(0) \in [1 .. 0 -> Items] /\ Walk' = << >> /\ Upto(0) = << >>
<1>1. Upto(0) \in [1 .. 0 -> Items] /\ Upto(0) = << >>
  BY DEF Upto
<1>2. Along(next', Upto(0), 0, next'[0])
  BY DEF Along
<1> QED BY <1>1, <1>2, Ends, WalkIsNext

----------------------------------------------------------------------------
(* The hlist calls.                                                        *)

(* The hlist calls: one node is put in front, or one is taken out. *)
LEMMA HlistStepLists ==
  ASSUME IInv, ListInv, NEW k \in Items,
         init_hlist_node(k) \/ hlist_add_head(k) \/ hlist_del(k)
  PROVE  ListInv' /\ (Abstract!Next \/ Walk' = Walk)
<1>1. pc = "hlist" /\ pc' = "hlist" /\ Typed
  BY DEF init_hlist_node, hlist_add_head, hlist_del, IInv, PointBack
<1>2. PICK L \in 0 .. N : \E s \in [1 .. L -> Items] : ListIs(s, L)
  BY DEF ListInv
<1>3. PICK s \in [1 .. L -> Items] : Distinct(s, L) /\ Hlist(s, L)
  BY <1>1, <1>2 DEF ListIs
<1>4. /\ Along(next, s, L, Null) /\ Behind(back, s, L) /\ Walk = s
      /\ \A j \in Items : OnHlist(j) => \E i \in 1 .. L : s[i] = j
  BY <1>3, WalkIs DEF Hlist
<1>5. \A i \in 1 .. L : s[i] \in Items /\ s[i] # 0 /\ OnHlist(s[i])
  <2>1. \A i \in 1 .. L : s[i] \in Items /\ s[i] # 0
    BY Ends
  <2>2. ASSUME NEW i \in 1 .. L PROVE OnHlist(s[i])
    <3>1. i # 1 => i - 1 \in 1 .. L
      OBVIOUS
    <3> QED BY <1>4, <2>1, <3>1, Ends DEF Behind, OnHlist
  <2> QED BY <2>1, <2>2
<1>6. ASSUME NEW M \in 0 .. N, NEW t \in [1 .. M -> Items], Distinct(t, M), Hlist(t, M)'
      PROVE  ListInv' /\ Walk' = t
  <2>1. ListIs(t, M)'
    BY <1>1, <1>6 DEF ListIs, RingPcs
  <2>2. Walk' = t
    BY <1>6, WalkIsNext DEF Hlist
  <2> QED BY <2>1, <2>2 DEF ListInv
<1>7. CASE init_hlist_node(k)
  <2>1. /\ next' = [next EXCEPT ![k] = Null] /\ back' = [back EXCEPT ![k] = Null]
        /\ ~OnHlist(k)
    BY <1>7 DEF init_hlist_node, Set
  <2>2. \A i \in 1 .. L : s[i] # k
    BY <1>5, <2>1
  <2>3. /\ next'[0] = next[0] /\ back'[k] = Null
        /\ \A i \in 1 .. L : next'[s[i]] = next[s[i]] /\ back'[s[i]] = back[s[i]]
        /\ \A j \in Items \ {k} : back'[j] = back[j]
    BY <1>1, <1>5, <2>1, <2>2, Ends DEF Typed
  <2>4. Along(next', s, L, Null) /\ Behind(back', s, L)
    BY <1>4, <2>3 DEF Along, Behind
  <2>5. \A j \in Items : OnHlist(j)' => \E i \in 1 .. L : s[i] = j
    BY <1>4, <2>3, Ends DEF OnHlist
  <2> QED BY <1>3, <1>4, <1>6, <2>4, <2>5 DEF Hlist
<1>8. CASE hlist_add_head(k)
  <2>1. back[k] = Null /\ ~OnHlist(k)
    BY <1>8, Ends DEF hlist_add_head, OnHlist
  <2>2. \A i \in 1 .. L : s[i] # k
    BY <1>5, <2>1
  <2>3. /\ next'[0] = k /\ next'[k] = next[0] /\ back'[k] = 0
        /\ \A m \in Items \ {k} : next'[m] = next[m]
        /\ \A m \in Items \ {k} : back'[m] = IF m = next[0] THEN k ELSE back[m]
    BY <1>8, Ends DEF hlist_add_head
  <2> DEFINE t == WithInFront(k, s, L)
  <2>4. L + 1 \in 0 .. N
    BY <1>3, <2>2, RoomForOne
  <2>5. /\ Along(next', t, L + 1, Null) /\ Behind(back', t, L + 1)
        /\ Distinct(t, L + 1) /\ t \in [1 .. L + 1 -> Items]
    <3>1. Null \notin Items
      BY Ends
    <3> QED BY <1>3, <1>4, <2>2, <2>3, <3>1, FrontAlong
  <2>6. ASSUME NEW j \in Items, OnHlist(j)' PROVE \E i \in 1 .. L + 1 : t[i] = j
    <3>1. t[1] = k /\ 1 \in 1 .. L + 1 /\ \A i \in 1 .. L : i + 1 \in 1 .. L + 1 /\ t[i + 1] = s[i]
      BY Ends DEF WithInFront
    <3> HIDE DEF t
    <3>2. j # k => \E i \in 1 .. L : s[i] = j
      <4>1. j = next[0] => 1 \in 1 .. L /\ s[1] = j
        BY <1>4, Ends DEF Along
      <4>2. j # k /\ j # next[0] => OnHlist(j)
        BY <2>3, <2>6 DEF OnHlist
      <4> QED BY <1>4, <4>1, <4>2
    <3> QED BY <3>1, <3>2
  <2> HIDE DEF t
  <2>7. Hlist(t, L + 1)'
    BY <2>5, <2>6 DEF Hlist
  <2>8. ListInv' /\ Walk' = t
    BY <1>6, <2>4, <2>5, <2>7
  <2>9. Abstract!Next
    BY <1>4, <2>2, <2>8, PushesFront DEF t
  <2> QED BY <2>8, <2>9
<1>9. CASE hlist_del(k) /\ back[k] = Null
  <2>1. next' = next /\ back' = back
    BY <1>9 DEF hlist_del
  <2>2. Hlist(s, L)'
    BY <1>3, <2>1 DEF Hlist, OnHlist
  <2> QED BY <1>3, <1>4, <1>6, <2>2
<1>10. CASE hlist_del(k) /\ back[k] # Null
  <2>1. OnHlist(k)
    BY <1>10 DEF hlist_del
  <2>2. PICK p \in 1 .. L : s[p] = k
    BY <1>4, <2>1
  <2>3. /\ next' = [next EXCEPT ![back[k]] = next[k], ![k] = Poison1]
        /\ back' = [j \in Slots |-> CASE j = k -> Poison2
                                      [] j # k /\ j = next[k] -> back[k]
                                      [] OTHER -> back[j]]
    BY <1>10 DEF hlist_del, Set2
  <2>4. back[k] \in Slots
    BY <2>1 DEF OnHlist
  <2>5. /\ \A m \in Slots \ {k} : next'[m] = IF m = back[k] THEN next[k] ELSE next[m]
        /\ \A m \in Slots \ {k} : back'[m] = IF m = next[k] THEN back[k] ELSE back[m]
    BY <1>1, <2>3, <2>4 DEF Typed
  <2> DEFINE t == WithoutAt(s, L, p)
  <2>6. /\ Along(next', t, L - 1, Null) /\ Behind(back', t, L - 1)
        /\ Distinct(t, L - 1) /\ t \in [1 .. L - 1 -> Items] /\ L - 1 \in 0 .. N
    <3>1. \A m \in Items \ {k} : back'[m] = IF m = next[k] THEN back[k] ELSE back[m]
      BY <2>5, Ends
    <3>2. /\ \A m \in Slots \ {s[p]} :
                 next'[m] = IF m = back[s[p]] THEN next[s[p]] ELSE next[m]
          /\ \A m \in Items \ {s[p]} :
                 back'[m] = IF m = next[s[p]] THEN back[s[p]] ELSE back[m]
      BY <2>2, <2>5, <3>1
    <3>3. Null \notin Items
      BY Ends
    <3> QED BY <1>3, <1>4, <3>2, <3>3, WithoutAlong
  <2>7. ASSUME NEW j \in Items, OnHlist(j)' PROVE \E i \in 1 .. L - 1 : t[i] = j
    <3>1. j # k
      BY <2>3, <2>7, Ends DEF OnHlist
    <3>2. \E i \in 1 .. L : s[i] = j
      <4>1. j = next[k] => p # L /\ p + 1 \in 1 .. L /\ s[p + 1] = j
        BY <1>4, <2>2, Ends DEF Along
      <4>2. j # next[k] => OnHlist(j)
        BY <2>5, <2>7, <3>1, Ends DEF OnHlist
      <4> QED BY <1>4, <4>1, <4>2
    <3>3. PICK i \in 1 .. L : s[i] = j
      BY <3>2
    <3>4. CASE i < p
      BY <3>3, <3>4, Ends DEF WithoutAt
    <3>5. CASE i > p
      <4>1. i - 1 \in 1 .. L - 1 /\ t[i - 1] = j
        BY <3>3, <3>5, Ends DEF WithoutAt
      <4> QED BY <4>1
    <3> QED BY <2>2, <3>1, <3>3, <3>4, <3>5, Ends
  <2> HIDE DEF t
  <2>8. Hlist(t, L - 1)'
    BY <2>6, <2>7 DEF Hlist
  <2>9. ListInv' /\ Walk' = t
    BY <1>6, <2>6, <2>8
  <2>10. Abstract!Next
    BY <1>4, <2>9, Deletes DEF t
  <2> QED BY <2>9, <2>10
<1> QED BY <1>7, <1>8, <1>9, <1>10

----------------------------------------------------------------------------
(* The suite, and the two calls of the ring.                               *)

(* Between the structures nothing is asked of the list. *)
LEMMA NoList ==
  ASSUME pc' \notin RingPcs \cup {"hlist"}
  PROVE  ListInv'
<1>1. Upto(0) \in [1 .. 0 -> Items] /\ Distinct(Upto(0), 0) /\ 0 \in 0 .. N
  BY Ends DEF Upto, Distinct
<1>2. ListIs(Upto(0), 0)'
  BY <1>1 DEF ListIs, RingPcs
<1> QED BY <1>1, <1>2 DEF ListInv

(* The suite: the chain is linked whole, one target is taken out. *)
LEMMA SuiteStepLists ==
  ASSUME IInv, StartSuite \/ Relink \/ Seek \/ Miss \/ DeleteTarget
  PROVE  ListInv' /\ (Abstract!Next \/ Walk' = Walk)
<1>1. ListInv'
  <2>1. pc' \in {"relink", "seek", "not_found", "check_failed", "fill"}
    BY DEF StartSuite, Relink, Seek, Miss, DeleteTarget
  <2> QED BY <2>1, NoList DEF RingPcs
<1>2. CASE StartSuite
  <2> DEFINE f == Set(Uninitialised, N, Null)
  <2>1. f[N] = Null /\ Uninitialised[0] \in Pointers
    BY Names DEF Set, Uninitialised
  <2>2. next' = Linked(f) /\ back' = Linkback(Uninitialised)
    BY <1>2 DEF StartSuite
  <2> HIDE DEF f
  <2>3. Chain'
    BY <2>1, <2>2, LinkingMakesChain
  <2>4. Walk' = Abstract!AllItems
    BY <2>3, ChainWalk
  <2> QED BY <1>1, <2>4 DEF Abstract!Next, Abstract!Relink
<1>3. CASE Relink
  <2>1. next' = Linked(next) /\ back' = Linkback(back) /\ next[N] = Null /\ back[0] \in Pointers
    BY <1>3, Ends DEF Relink, IInv, PointBack, Typed
  <2>2. Chain'
    BY <2>1, LinkingMakesChain
  <2>3. Walk' = Abstract!AllItems
    BY <2>2, ChainWalk
  <2> QED BY <1>1, <2>3 DEF Abstract!Next, Abstract!Relink
<1>4. CASE Seek \/ Miss
  BY <1>1, <1>4 DEF Seek, Miss, Walk
<1>5. CASE DeleteTarget
  <2> DEFINE s == Upto(N)
  <2>1. /\ Typed /\ Chain /\ pos \in Slots /\ next[pos] = target
        /\ target \in Items \cup {Absent}
        /\ next' = Set2(next, pos, next[target], target, Poison1)
        /\ back' = IF next[target] = Null THEN Set(back, target, Poison2)
                   ELSE Set2(back, next[target], pos, target, Poison2)
    BY <1>5 DEF DeleteTarget, IInv, PointBack
  <2>2. target \in 1 .. N /\ pos = target - 1 /\ back[target] = pos
        /\ next[target] = IF target = N THEN Null ELSE target + 1
    BY <2>1, Ends DEF Chain, Absent, Null
  <2>3. /\ Along(next, s, N, Null) /\ Behind(back, s, N) /\ Distinct(s, N)
        /\ s \in [1 .. N -> Items] /\ s[target] = target
    BY <2>1, <2>2, Ends DEF Chain, Along, Behind, Distinct, Upto
  <2> HIDE DEF s
  <2>4. /\ \A m \in Slots \ {target} : next'[m] = IF m = back[target] THEN next[target] ELSE next[m]
        /\ \A m \in Items \ {target} : back'[m] = IF m = next[target] THEN back[target] ELSE back[m]
    <3>1. next \in [Slots -> Pointers] /\ back \in [Slots -> Pointers] /\ pos # target
      BY <2>1, <2>2, Ends DEF Typed
    <3>2. \A m \in Slots \ {target} : next'[m] = IF m = back[target] THEN next[target] ELSE next[m]
      BY <2>1, <2>2, <3>1 DEF Set2
    <3>3. \A m \in Items \ {target} : back'[m] = IF m = next[target] THEN back[target] ELSE back[m]
      <4>1. CASE target = N
        BY <2>1, <2>2, <3>1, <4>1, Ends DEF Set
      <4>2. CASE target # N
        <5>1. next[target] = target + 1 /\ next[target] # Null /\ target + 1 \in Slots
              /\ target + 1 # target
          BY <2>2, <4>2, Ends DEF Null
        <5> QED BY <2>1, <2>2, <3>1, <5>1, Ends DEF Set2
      <4> QED BY <4>1, <4>2
    <3> QED BY <3>2, <3>3
  <2> SUFFICES ASSUME NEW u \in [1 .. N -> Items], u = s, NEW p \in 1 .. N, p = target
               PROVE  Abstract!Next
    BY <1>1, <2>2, <2>3
  <2>5. /\ Along(next', WithoutAt(u, N, p), N - 1, Null)
        /\ WithoutAt(u, N, p) \in [1 .. N - 1 -> Items] /\ N - 1 \in 0 .. N
    <3>1. N \in 0 .. N
      BY Ends
    <3>2. /\ \A m \in Slots \ {u[p]} :
               next'[m] = IF m = back[u[p]] THEN next[u[p]] ELSE next[m]
          /\ \A m \in Items \ {u[p]} :
               back'[m] = IF m = next[u[p]] THEN back[u[p]] ELSE back[m]
      BY <2>3, <2>4
    <3>3. Null \notin Items
      BY Ends
    <3>4. Along(next, u, N, Null) /\ Behind(back, u, N) /\ Distinct(u, N)
      BY <2>3
    <3> HIDE DEF s
    <3> QED BY <3>1, <3>2, <3>3, <3>4, WithoutAlong, Z3T(30)
  <2>6. Walk' = WithoutAt(u, N, p)
    BY <2>5, WalkIsNext
  <2>7. N \in 0 .. N
    BY Ends
  <2>8. Walk = u
    BY <2>3, <2>7, WalkIs
  <2> QED BY <2>6, <2>7, <2>8, Deletes
<1> QED BY <1>2, <1>3, <1>4, <1>5

(* list_add_tail and list_del on a ring. *)
LEMMA RingAdd ==
  ASSUME NEW L \in 0 .. N, NEW s \in [1 .. L -> Items], Distinct(s, L), Ring(s, L),
         NEW k \in Items, \A i \in 1 .. L : s[i] # k, list_add_tail(k)
  PROVE  /\ Ring(WithBehind(s, L, k), L + 1)' /\ Distinct(WithBehind(s, L, k), L + 1)
         /\ WithBehind(s, L, k) \in [1 .. L + 1 -> Items] /\ L + 1 \in 0 .. N
<1> DEFINE last == IF L = 0 THEN 0 ELSE s[L]
           t == WithBehind(s, L, k)
<1>1. /\ Along(next, s, L, 0) /\ Behind(back, s, L) /\ back[0] = last /\ Typed
      /\ next' = [next EXCEPT ![k] = 0, ![back[0]] = k]
      /\ back' = [back EXCEPT ![0] = k, ![k] = back[0]]
  BY DEF Ring, list_add_tail, Set2
<1>2. last \in Slots \ {k} /\ k # 0 /\ k \in Slots /\ 0 \in Slots
  BY Ends
<1> HIDE DEF last
<1>3. /\ next'[k] = 0
      /\ \A m \in Slots \ {k} : next'[m] = IF m = last THEN k ELSE next[m]
      /\ back'[k] = last
      /\ back'[0] = k
  BY <1>1, <1>2 DEF Typed
<1>4. \A m \in Items \ {k} : back'[m] = back[m]
  BY <1>1, <1>2, Ends DEF Typed
<1>5. L + 1 \in 0 .. N
  BY RoomForOne
<1>6. /\ Along(next', WithBehind(s, L, k), L + 1, 0)
      /\ Behind(back', WithBehind(s, L, k), L + 1)
      /\ Distinct(WithBehind(s, L, k), L + 1)
      /\ WithBehind(s, L, k) \in [1 .. L + 1 -> Items]
  <2>1. 0 \notin Items
    BY Ends
  <2>2. last = IF L = 0 THEN 0 ELSE s[L]
    BY DEF last
  <2>3. PICK lst : lst = last
    OBVIOUS
  <2>4. lst = IF L = 0 THEN 0 ELSE s[L]
    BY <2>2, <2>3
  <2>5. \A m \in Slots \ {k} : next'[m] = IF m = lst THEN k ELSE next[m]
    BY <1>3, <2>3
  <2>6. back'[k] = lst
    BY <1>3, <2>3
  <2>7. Along(next, s, L, 0) /\ Behind(back, s, L)
    BY <1>1
  <2>8. next'[k] = 0
    BY <1>3
  <2> QED BY <1>4, <2>1, <2>4, <2>5, <2>6, <2>7, <2>8, BackAlong, Z3T(30)
<1>7. Typed'
  <2>1. next' \in [Slots -> Pointers]
    BY <1>1, <1>2, Names DEF Typed
  <2>2. back' \in [Slots -> Pointers]
    BY <1>1, <1>2, Names DEF Typed
  <2> QED BY <2>1, <2>2 DEF Typed
<1>8. t[L + 1] = k /\ L + 1 # 0
  BY Ends DEF WithBehind
<1> HIDE DEF t
<1>9. Ring(t, L + 1)'
  <2>1. Along(next', t, L + 1, 0) /\ Behind(back', t, L + 1)
    BY <1>6 DEF t
  <2> QED BY <1>3, <1>7, <1>8, <2>1 DEF Ring
<1> QED BY <1>5, <1>6, <1>9 DEF t

LEMMA RingDelete ==
  ASSUME NEW L \in 0 .. N, NEW s \in [1 .. L -> Items], Distinct(s, L), Ring(s, L),
         NEW p \in 1 .. L, list_del(s[p])
  PROVE  /\ Ring(WithoutAt(s, L, p), L - 1)' /\ Distinct(WithoutAt(s, L, p), L - 1)
         /\ WithoutAt(s, L, p) \in [1 .. L - 1 -> Items] /\ L - 1 \in 0 .. N
<1> DEFINE k == s[p]
           t == WithoutAt(s, L, p)
<1>1. /\ Along(next, s, L, 0) /\ Behind(back, s, L) /\ back[0] = s[L] /\ Typed
      /\ next' = [next EXCEPT ![back[k]] = next[k], ![k] = Poison1]
      /\ back' = [back EXCEPT ![next[k]] = back[k], ![k] = Poison2]
  BY Ends DEF Ring, list_del, Set2
<1>2. /\ k \in Items /\ k \in Slots \ {0}
      /\ next[k] = (IF p = L THEN 0 ELSE s[p + 1]) /\ back[k] = (IF p = 1 THEN 0 ELSE s[p - 1])
  BY <1>1, Ends DEF Along, Behind
<1>3. /\ next[k] \in Slots /\ back[k] \in Slots /\ next[k] # k /\ back[k] # k
      /\ next[k] = 0 <=> p = L
  BY <1>2, Ends DEF Distinct
<1>4. /\ \A m \in Slots \ {k} : next'[m] = IF m = back[k] THEN next[k] ELSE next[m]
      /\ \A m \in Slots \ {k} : back'[m] = IF m = next[k] THEN back[k] ELSE back[m]
  BY <1>1, <1>2, <1>3 DEF Typed
<1>5. /\ Along(next', WithoutAt(s, L, p), L - 1, 0)
      /\ Behind(back', WithoutAt(s, L, p), L - 1)
      /\ Distinct(WithoutAt(s, L, p), L - 1)
      /\ WithoutAt(s, L, p) \in [1 .. L - 1 -> Items] /\ L - 1 \in 0 .. N
  <2>1. 0 \notin Items
    BY Ends
  <2>2. /\ \A m \in Slots \ {s[p]} : next'[m] = IF m = back[s[p]] THEN next[s[p]] ELSE next[m]
        /\ \A m \in Items \ {s[p]} : back'[m] = IF m = next[s[p]] THEN back[s[p]] ELSE back[m]
    BY <1>4, Ends
  <2>3. Along(next, s, L, 0) /\ Behind(back, s, L)
    BY <1>1
  <2> QED BY <2>1, <2>2, <2>3, WithoutAlong
<1>6. Typed'
  <2>1. next' \in [Slots -> Pointers]
    BY <1>1, <1>2, <1>3, Names DEF Typed
  <2>2. back' \in [Slots -> Pointers]
    BY <1>1, <1>2, <1>3, Names DEF Typed
  <2> QED BY <2>1, <2>2 DEF Typed
<1>7. back'[0] = IF L - 1 = 0 THEN 0 ELSE t[L - 1]
  <2>1. back'[0] = IF p = L THEN back[k] ELSE s[L]
    BY <1>1, <1>2, <1>3, <1>4, Ends
  <2>2. \A i \in 1 .. L - 1 : t[i] = IF i < p THEN s[i] ELSE s[i + 1]
    BY DEF WithoutAt
  <2> HIDE DEF t, k
  <2> QED BY <1>2, <2>1, <2>2, Ends
<1> HIDE DEF t
<1>8. Ring(t, L - 1)'
  <2>1. Along(next', t, L - 1, 0) /\ Behind(back', t, L - 1)
    BY <1>5 DEF t
  <2> QED BY <1>6, <1>7, <2>1 DEF Ring
<1> QED BY <1>5, <1>8 DEF t

----------------------------------------------------------------------------
(* The loops.                                                              *)

(* An empty head starts the list again. *)
LEMMA FillStepLists ==
  ASSUME FirstFill \/ (ListInv /\ SecondFill)
  PROVE  ListInv' /\ (Abstract!Next \/ Walk' = Walk)
<1>1. Typed' /\ next'[0] = 0 /\ back'[0] = 0 /\ pos' = 1 /\ pc' \in {"add", "readd"}
  <2>1. CASE FirstFill
    <3>1. /\ next' = [Uninitialised EXCEPT ![0] = 0] /\ back' = [Uninitialised EXCEPT ![0] = 0]
          /\ pos' = 1 /\ pc' = "add"
      BY <2>1 DEF FirstFill, init_list_head, Set
    <3>2. Uninitialised \in [Slots -> Pointers]
      BY Names DEF Uninitialised
    <3> QED BY <3>1, <3>2, Names DEF Typed
  <2>2. CASE ListInv /\ SecondFill
    <3>1. /\ next' = [next EXCEPT ![0] = 0] /\ back' = [back EXCEPT ![0] = 0]
          /\ pos' = 1 /\ pc' = "readd" /\ pc = "refill"
      BY <2>2 DEF SecondFill, init_list_head, Set
    <3>2. Typed
      BY <2>2, <3>1 DEF ListInv, ListIs, RingPcs, Ring
    <3> QED BY <3>1, <3>2, Names DEF Typed
  <2> QED BY <2>1, <2>2
<1>2. /\ Upto(0) \in [1 .. 0 -> Items] /\ Walk' = << >>
  BY <1>1, EmptyWalk
<1>3. 0 \in 0 .. N
  BY Ends
<1>4. Ring(Upto(0), 0)' /\ Distinct(Upto(0), 0)
  <2>1. Along(next', Upto(0), 0, 0) /\ Behind(back', Upto(0), 0) /\ Distinct(Upto(0), 0)
    BY <1>1 DEF Along, Behind, Distinct
  <2> QED BY <1>1, <2>1 DEF Ring
<1>5. ListIs(Upto(0), 0)'
  BY <1>1, <1>4 DEF ListIs
<1>6. ListInv'
  BY <1>2, <1>3, <1>5 DEF ListInv
<1> QED BY <1>2, <1>6 DEF Abstract!Next, Abstract!Relink

(* The nodes are added one after the other. *)
LEMMA AddStepLists ==
  ASSUME ListInv, AddTail
  PROVE  ListInv' /\ (Abstract!Next \/ Walk' = Walk)
<1>1. /\ pc \in {"add", "readd"} /\ pc' = pc /\ pos \in Items
      /\ list_add_tail(pos) /\ pos' = pos + 1
  BY DEF AddTail
<1>2. PICK L \in 0 .. N : \E s \in [1 .. L -> Items] : ListIs(s, L)
  BY DEF ListInv
<1>3. PICK s \in [1 .. L -> Items] : ListIs(s, L)
  BY <1>2
<1>4. Distinct(s, L) /\ Ring(s, L) /\ pos = L + 1 /\ s = Upto(L)
  BY <1>1, <1>3 DEF ListIs, RingPcs
<1>5. PICK k \in Items : k = pos
  BY <1>1
<1>6. list_add_tail(k) /\ k = L + 1
  BY <1>1, <1>4, <1>5
<1>7. \A i \in 1 .. L : s[i] # k
  BY <1>4, <1>6, Ends DEF Upto
<1>8. /\ Ring(WithBehind(s, L, k), L + 1)' /\ Distinct(WithBehind(s, L, k), L + 1)
      /\ WithBehind(s, L, k) \in [1 .. L + 1 -> Items] /\ L + 1 \in 0 .. N
  BY <1>4, <1>6, <1>7, RingAdd
<1>9. WithBehind(s, L, k) = Upto(L + 1)
  BY <1>4, <1>6, Ends DEF WithBehind, Upto
<1>10. pos' = (L + 1) + 1
  BY <1>1, <1>4
<1>11. ListIs(WithBehind(s, L, k), L + 1)'
  <2> DEFINE t == WithBehind(s, L, k)
  <2>1. Ring(t, L + 1)' /\ Distinct(t, L + 1) /\ t = Upto(L + 1)
    BY <1>8, <1>9
  <2> HIDE DEF t
  <2>2. ListIs(t, L + 1)'
    BY <1>1, <1>10, <2>1 DEF ListIs
  <2> QED BY <2>2 DEF t
<1>12. ListInv'
  BY <1>8, <1>11 DEF ListInv
<1>13. Walk = s
  BY <1>4, WalkIs DEF Ring
<1>14. Walk' = WithBehind(s, L, k)
  BY <1>8, WalkIsNext DEF Ring
<1>15. Abstract!Next
  BY <1>7, <1>13, <1>14, PushesBack
<1> QED BY <1>12, <1>15

(* A step that moves a cursor leaves the list. *)
LEMMA RingStays ==
  ASSUME NEW L \in 0 .. N, NEW s \in [1 .. L -> Items], Ring(s, L), UNCHANGED <<next, back>>
  PROVE  Ring(s, L)' /\ Walk' = Walk
BY DEF Ring, Typed, Walk

(* Both loops begin at the first node of a full list. *)
LEMMA StartLoopLists ==
  ASSUME ListInv, StartLoop
  PROVE  ListInv' /\ Walk' = Walk
<1>1. /\ pc \in {"add", "readd"} /\ pos = N + 1 /\ pc' \in {"safe", "unsafe"}
      /\ pos' = next[0] /\ cached' = next[next[0]] /\ visited' = << >>
      /\ UNCHANGED <<next, back, doomed>>
  BY DEF StartLoop
<1>2. PICK L \in 0 .. N : \E s \in [1 .. L -> Items] : ListIs(s, L)
  BY DEF ListInv
<1>3. PICK s \in [1 .. L -> Items] : ListIs(s, L)
  BY <1>2
<1>4. Distinct(s, L) /\ Ring(s, L) /\ L = N /\ s = Upto(N)
  BY <1>1, <1>3, Ends DEF ListIs, RingPcs
<1>5. Ring(s, L)' /\ Walk' = Walk
  BY <1>1, <1>4, RingStays
<1>6. /\ \A i \in 1 .. N : s[i] = i
      /\ Along(next, s, L, 0)
  BY <1>4 DEF Upto, Ring
<1>7. pos' = 1 /\ cached' = (IF 1 = N THEN 0 ELSE 2) /\ pos' \in Slots /\ cached' \in Slots
  <2>1. 1 \in 1 .. N /\ L # 0 /\ next[0] = 1
    BY <1>4, <1>6, Ends DEF Along
  <2>2. next[1] = IF 1 = N THEN 0 ELSE s[2]
    BY <1>4, <1>6, <2>1 DEF Along
  <2>3. 1 # N => 2 \in 1 .. N /\ s[2] = 2
    BY <1>6, Ends
  <2> QED BY <1>1, <2>1, <2>2, <2>3, Ends
<1>8. visited' = Upto(0) /\ Increasing(s, L, StillIn(0))' /\ Cursors(0)'
  <2>1. visited' = Upto(0)
    BY <1>1 DEF Upto
  <2>2. StillIn(0)' = Items
    BY Ends DEF StillIn
  <2>3. Increasing(s, L, StillIn(0))'
    BY <1>4, <1>6, <2>2, Ends DEF Increasing
  <2>4. Cursors(0)'
    BY <1>1, <1>7, Ends DEF Cursors
  <2> QED BY <2>1, <2>3, <2>4
<1>9. ListIs(s, L)'
  BY <1>1, <1>4, <1>5, <1>7, <1>8, Ends DEF ListIs
<1> QED BY <1>5, <1>9 DEF ListInv

(* The safe loop visits the node behind those it visited. *)
LEMMA VisitSafeLists ==
  ASSUME ListInv, VisitSafe
  PROVE  ListInv' /\ (Abstract!Next \/ Walk' = Walk)
<1>1. /\ pc = "safe" /\ pc' = "advance" /\ pos # 0 /\ visited' = Append(visited, pos)
      /\ IF pos \in doomed THEN list_del(pos) ELSE UNCHANGED <<next, back>>
      /\ UNCHANGED <<pos, cached, doomed>>
  BY DEF VisitSafe
<1>2. PICK L \in 0 .. N : \E s \in [1 .. L -> Items] : ListIs(s, L)
  BY DEF ListInv
<1>3. PICK s \in [1 .. L -> Items] : ListIs(s, L)
  BY <1>2
<1>4. Distinct(s, L) /\ Ring(s, L)
  BY <1>1, <1>3 DEF ListIs, RingPcs
<1>5. PICK v \in 0 .. N : visited = Upto(v) /\ Increasing(s, L, StillIn(v)) /\ Cursors(v)
  BY <1>1, <1>3 DEF ListIs
<1> DEFINE k == v + 1
<1>6. v # N /\ k \in Items /\ pos = k /\ cached = (IF k = N THEN 0 ELSE k + 1) /\ k \in 0 .. N
  BY <1>1, <1>5, Ends DEF Cursors
<1>7. visited' = Upto(k)
  <2>1. Upto(v) \in Seq(Nat) /\ Len(Upto(v)) = v /\ v \in Nat
    BY Ends DEF Upto
  <2>2. Append(Upto(v), k) = WithBehind(Upto(v), v, k)
    <3>1. Upto(v) \in [1 .. v -> Nat] /\ k \in Nat
      BY <2>1, Ends DEF Upto
    <3> HIDE DEF k
    <3> QED BY <2>1, <3>1, PushIs
  <2>3. WithBehind(Upto(v), v, k) = Upto(k)
    BY <2>1 DEF WithBehind, Upto
  <2> QED BY <1>1, <1>5, <1>6, <2>2, <2>3
<1>8. PICK p \in 1 .. L : s[p] = k
  <2>1. k \in StillIn(v)
    BY <1>6, Ends DEF StillIn
  <2> QED BY <1>5, <1>6, <2>1 DEF Increasing
<1>9. Cursors(k)'
  <2>1. pos' \in Slots /\ cached' \in Slots /\ cached' = (IF k = N THEN 0 ELSE k + 1) /\ k >= 1
    BY <1>1, <1>5, <1>6, Ends DEF Cursors
  <2> HIDE DEF k
  <2> QED BY <1>1, <2>1 DEF Cursors
<1>10. ASSUME NEW M \in 0 .. N, NEW t \in [1 .. M -> Items], Distinct(t, M), Ring(t, M)',
              Increasing(t, M, StillIn(k))'
       PROVE  ListInv'
  <2> HIDE DEF k
  <2>1. ListIs(t, M)'
    BY <1>1, <1>6, <1>7, <1>9, <1>10 DEF ListIs
  <2> QED BY <2>1 DEF ListInv
<1>11. StillIn(k)' = (IF k \in doomed THEN StillIn(v) \ {k} ELSE StillIn(v))
  BY <1>1, <1>6, Ends DEF StillIn
<1>12. CASE pos \notin doomed
  <2>1. Ring(s, L)' /\ Walk' = Walk
    BY <1>1, <1>4, <1>12, RingStays
  <2>2. Increasing(s, L, StillIn(k))'
    BY <1>5, <1>6, <1>11, <1>12 DEF Increasing
  <2> QED BY <1>4, <1>10, <2>1, <2>2
<1>13. CASE pos \in doomed
  <2>1. list_del(s[p])
    BY <1>1, <1>6, <1>8, <1>13
  <2>2. /\ Ring(WithoutAt(s, L, p), L - 1)' /\ Distinct(WithoutAt(s, L, p), L - 1)
        /\ WithoutAt(s, L, p) \in [1 .. L - 1 -> Items] /\ L - 1 \in 0 .. N
    BY <1>4, <2>1, RingDelete
  <2>3. Increasing(WithoutAt(s, L, p), L - 1, StillIn(k))'
    <3> DEFINE t == WithoutAt(s, L, p)
    <3>1. \A i \in 1 .. L - 1 : t[i] = IF i < p THEN s[i] ELSE s[i + 1]
      BY DEF WithoutAt
    <3>2. L \in Nat /\ p \in 1 .. L
      BY Ends
    <3> HIDE DEF t
    <3>3. \A i, j \in 1 .. L - 1 : i < j => t[i] < t[j]
      BY <1>5, <3>1, <3>2 DEF Increasing
    <3>4. StillIn(k)' = StillIn(v) \ {k}
      BY <1>6, <1>11, <1>13
    <3>5. ASSUME NEW j \in Items
          PROVE  j \in StillIn(k)' <=> \E i \in 1 .. L - 1 : t[i] = j
      <4>1. j \in StillIn(v) <=> \E i \in 1 .. L : s[i] = j
        BY <1>5 DEF Increasing
      <4>2. ASSUME NEW i \in 1 .. L - 1, t[i] = j PROVE j \in StillIn(v) /\ j # k
        <5>1. PICK h \in 1 .. L : h # p /\ s[h] = j
          BY <3>1, <3>2, <4>2
        <5> QED BY <1>4, <1>8, <4>1, <5>1 DEF Distinct
      <4>3. ASSUME j \in StillIn(v), j # k PROVE \E i \in 1 .. L - 1 : t[i] = j
        <5>1. PICK i \in 1 .. L : s[i] = j
          BY <4>1, <4>3
        <5>2. CASE i < p
          BY <3>1, <3>2, <5>1, <5>2
        <5>3. CASE i > p
          <6>1. i - 1 \in 1 .. L - 1 /\ t[i - 1] = j
            BY <3>1, <3>2, <5>1, <5>3
          <6> QED BY <6>1
        <5>4. i # p
          BY <1>8, <4>3, <5>1
        <5> QED BY <3>2, <5>2, <5>3, <5>4
      <4> QED BY <3>4, <4>2, <4>3
    <3> HIDE DEF k
    <3>6. Increasing(t, L - 1, StillIn(k))'
      BY <3>3, <3>5 DEF Increasing
    <3> QED BY <3>6 DEF t
  <2>4. ListInv'
    BY <1>10, <2>2, <2>3
  <2>5. Walk = s
    BY <1>4, WalkIs DEF Ring
  <2>6. Walk' = WithoutAt(s, L, p)
    BY <2>2, WalkIsNext DEF Ring
  <2>7. Abstract!Next
    BY <2>5, <2>6, Deletes
  <2> QED BY <2>4, <2>7
<1> QED BY <1>12, <1>13

(* The safe loop moves on to the node it kept, and reads the one after it. *)
LEMMA AdvanceLists ==
  ASSUME ListInv, Advance \/ SafeDone
  PROVE  ListInv' /\ Walk' = Walk
<1>1. /\ pc \in {"safe", "advance"} /\ pc' \in {"safe", "refill"}
      /\ UNCHANGED <<next, back, doomed, visited>>
  BY DEF Advance, SafeDone, walk
<1>2. PICK L \in 0 .. N : \E s \in [1 .. L -> Items] : ListIs(s, L)
  BY DEF ListInv
<1>3. PICK s \in [1 .. L -> Items] : ListIs(s, L)
  BY <1>2
<1>4. Distinct(s, L) /\ Ring(s, L)
  BY <1>1, <1>3 DEF ListIs, RingPcs
<1>5. PICK v \in 0 .. N : visited = Upto(v) /\ Increasing(s, L, StillIn(v)) /\ Cursors(v)
  BY <1>1, <1>3 DEF ListIs
<1>6. Ring(s, L)' /\ Walk' = Walk
  BY <1>1, <1>4, RingStays
<1>7. Cursors(v)'
  <2>1. CASE SafeDone
    <3>1. pos = 0 /\ pc = "safe" /\ pc' = "refill" /\ pos' = pos /\ cached' = cached
      BY <2>1 DEF SafeDone, walk
    <3>2. v = N
      BY <1>5, <3>1, Ends DEF Cursors
    <3> QED BY <1>5, <3>1, <3>2 DEF Cursors
  <2>2. CASE Advance
    <3>1. pc = "advance" /\ pos' = cached /\ cached' = next[cached] /\ pc' = "safe"
      BY <2>2 DEF Advance
    <3>2. cached = (IF v = N THEN 0 ELSE v + 1) /\ cached \in Slots
      BY <1>5, <3>1 DEF Cursors
    <3>3. Along(next, s, L, 0) /\ \A i \in 1 .. L : s[i] \in Items
      BY <1>4 DEF Ring
    <3>4. CASE v = N
      <4>1. cached' \in Slots
        BY <3>1, <3>2, <3>3, <3>4, Ends DEF Along
      <4> QED BY <3>1, <3>2, <3>4, <4>1 DEF Cursors
    <3>5. CASE v # N
      <4> DEFINE k == v + 1
      <4>1. k \in Items /\ k \in StillIn(v) /\ (k < N => k + 1 \in Items /\ k + 1 \in StillIn(v))
        BY <3>5, Ends DEF StillIn
      <4>2. PICK p \in 1 .. L : s[p] = k
        BY <1>5, <4>1 DEF Increasing
      <4>3. cached' = IF p = L THEN 0 ELSE s[p + 1]
        BY <3>1, <3>2, <3>3, <3>5, <4>2 DEF Along
      <4>4. \A i, j \in 1 .. L : i < j => s[i] < s[j]
        BY <1>5 DEF Increasing
      <4>5. p # L => p + 1 \in 1 .. L /\ s[p + 1] \in Items /\ k < s[p + 1]
        <5>1. p # L => p + 1 \in 1 .. L /\ p < p + 1
          BY Ends
        <5> QED BY <3>3, <4>2, <4>4, <5>1
      <4>6. CASE k = N
        <5>1. p = L
          BY <4>5, <4>6, Ends
        <5>2. cached' = 0
          BY <4>3, <5>1
        <5> QED BY <3>1, <3>2, <3>5, <4>6, <5>2, Ends DEF Cursors
      <4>7. CASE k # N
        <5>1. k + 1 \in Items /\ k + 1 \in StillIn(v)
          BY <3>5, <4>1, <4>7, Ends
        <5>2. PICK q \in 1 .. L : s[q] = k + 1
          BY <1>5, <5>1 DEF Increasing
        <5>3. p < q
          <6>1. ~(q < p) /\ q # p
            BY <4>2, <4>4, <5>2, Ends
          <6> QED BY <6>1, Ends
        <5>4. p # L /\ s[p + 1] = k + 1
          <6>1. p # L
            BY <5>3, Ends
          <6>2. p + 1 = q \/ p + 1 < q
            BY <5>3, Ends
          <6>3. s[p + 1] <= k + 1
            BY <4>4, <4>5, <5>2, <6>1, <6>2, Ends
          <6> QED BY <4>5, <6>1, <6>3, Ends
        <5>5. cached' = v + 2
          BY <4>3, <5>4
        <5> QED BY <3>1, <3>2, <3>5, <4>7, <5>1, <5>5, Ends DEF Cursors
      <4> QED BY <4>6, <4>7
    <3> QED BY <3>4, <3>5
  <2> QED BY <2>1, <2>2
<1>8. visited' = Upto(v) /\ Increasing(s, L, StillIn(v))'
  BY <1>1, <1>5 DEF Increasing, StillIn
<1>9. ListIs(s, L)'
  BY <1>1, <1>4, <1>6, <1>7, <1>8 DEF ListIs
<1> QED BY <1>6, <1>9 DEF ListInv

(* The unsafe loop reads the successor behind a visit, and breaks after a deletion. *)
LEMMA UnsafeStepLists ==
  ASSUME ListInv, VisitUnsafe \/ UnsafeDone
  PROVE  ListInv' /\ (Abstract!Next \/ Walk' = Walk)
<1>1. pc = "unsafe" /\ pc' \in {"unsafe", "broke", "exit"}
  BY DEF VisitUnsafe, UnsafeDone
<1>2. PICK L \in 0 .. N : \E s \in [1 .. L -> Items] : ListIs(s, L)
  BY DEF ListInv
<1>3. PICK s \in [1 .. L -> Items] : ListIs(s, L)
  BY <1>2
<1>4. Distinct(s, L) /\ Ring(s, L) /\ L = N /\ s = Upto(N) /\ pos \in Slots
  BY <1>1, <1>3 DEF ListIs, RingPcs
<1>5. ASSUME NEW M \in 0 .. N, NEW t \in [1 .. M -> Items], Distinct(t, M), Ring(t, M)',
             pc' \in {"broke", "exit"}
      PROVE  ListInv'
  <2>1. ListIs(t, M)'
    BY <1>5 DEF ListIs
  <2> QED BY <2>1 DEF ListInv
<1>6. CASE UnsafeDone
  <2>1. UNCHANGED <<next, back>> /\ pc' = "exit"
    BY <1>6 DEF UnsafeDone
  <2>2. Ring(s, L)' /\ Walk' = Walk
    BY <1>4, <2>1, RingStays
  <2> QED BY <1>4, <1>5, <2>1, <2>2
<1>7. CASE VisitUnsafe
  <2>1. /\ pos # 0
        /\ IF pos \in doomed THEN list_del(pos) /\ pc' = "broke" /\ UNCHANGED pos
           ELSE pos' = next[pos] /\ UNCHANGED <<pc, next, back>>
    BY <1>7 DEF VisitUnsafe
  <2>2. PICK p \in 1 .. L : p = pos /\ s[p] = pos
    BY <1>4, <2>1, Ends DEF Upto
  <2>3. CASE pos \in doomed
    <3>1. list_del(s[p]) /\ pc' = "broke"
      BY <2>1, <2>2, <2>3
    <3>2. /\ Ring(WithoutAt(s, L, p), L - 1)' /\ Distinct(WithoutAt(s, L, p), L - 1)
          /\ WithoutAt(s, L, p) \in [1 .. L - 1 -> Items] /\ L - 1 \in 0 .. N
      BY <1>4, <3>1, RingDelete
    <3>3. ListInv'
      BY <1>5, <3>1, <3>2
    <3>4. Walk = s
      BY <1>4, WalkIs DEF Ring
    <3>5. Walk' = WithoutAt(s, L, p)
      BY <3>2, WalkIsNext DEF Ring
    <3>6. Abstract!Next
      BY <3>4, <3>5, Deletes
    <3> QED BY <3>3, <3>6
  <2>4. CASE pos \notin doomed
    <3>1. pos' = next[pos] /\ UNCHANGED <<pc, next, back>>
      BY <2>1, <2>4
    <3>2. Ring(s, L)' /\ Walk' = Walk
      BY <1>4, <3>1, RingStays
    <3>3. pos' \in Slots
      <4>1. next[s[p]] = (IF p = L THEN 0 ELSE s[p + 1]) /\ (p # L => s[p + 1] \in Items)
        BY <1>4, Ends, SMTT(30) DEF Ring, Along
      <4> QED BY <2>2, <3>1, <4>1, Ends
    <3>4. ListIs(s, L)'
      BY <1>1, <1>4, <3>1, <3>2, <3>3 DEF ListIs
    <3> QED BY <3>2, <3>4 DEF ListInv
  <2> QED BY <2>3, <2>4
<1> QED BY <1>1, <1>6, <1>7

(* Every step does to the list what a list allows, or leaves it. *)
LEMMA StepLists ==
  ASSUME IInv, ListInv, [Next]_vars
  PROVE  ListInv' /\ (Abstract!Next \/ Walk' = Walk)
<1>1. CASE \E k \in Items : init_hlist_node(k) \/ hlist_add_head(k) \/ hlist_del(k)
  BY <1>1, HlistStepLists
<1>2. CASE StartSuite \/ Relink \/ Seek \/ Miss \/ DeleteTarget
  BY <1>2, SuiteStepLists
<1>3. CASE FirstFill \/ SecondFill
  BY <1>3, FillStepLists
<1>4. CASE AddTail
  BY <1>4, AddStepLists
<1>5. CASE StartLoop
  BY <1>5, StartLoopLists
<1>6. CASE VisitSafe
  BY <1>6, VisitSafeLists
<1>7. CASE Advance \/ SafeDone
  BY <1>7, AdvanceLists
<1>8. CASE VisitUnsafe \/ UnsafeDone
  BY <1>8, UnsafeStepLists
<1>9. CASE UNCHANGED vars
  <2>1. UNCHANGED <<next, back, pc, pos, cached, doomed, visited>>
    BY <1>9 DEF vars, walk
  <2> QED BY <2>1 DEF ListInv, ListIs, Hlist, Ring, Typed, Increasing, StillIn, Cursors, OnHlist, Walk
<1> QED BY <1>1, <1>2, <1>3, <1>4, <1>5, <1>6, <1>7, <1>8, <1>9 DEF Next

LEMMA StartLists == Init => ListInv /\ Abstract!Init
<1> SUFFICES ASSUME Init PROVE ListInv /\ Abstract!Init
  OBVIOUS
<1>1. /\ pc = "hlist" /\ next = [Uninitialised EXCEPT ![0] = Null] /\ back = Uninitialised
  BY DEF Init, Set
<1>2. next[0] = Null /\ \A k \in Slots : ~OnHlist(k)
  BY <1>1, Names DEF Uninitialised, OnHlist
<1>3. Upto(0) \in [1 .. 0 -> Items] /\ Upto(0) = << >> /\ 0 \in 0 .. N
  BY Ends DEF Upto
<1>4. Along(next, Upto(0), 0, Null) /\ Behind(back, Upto(0), 0) /\ Distinct(Upto(0), 0)
  BY <1>2 DEF Along, Behind, Distinct
<1>5. ListIs(Upto(0), 0)
  BY <1>1, <1>2, <1>4, Ends DEF ListIs, Hlist, RingPcs
<1>6. Walk = << >>
  BY <1>3, <1>4, WalkIs
<1> QED BY <1>3, <1>5, <1>6 DEF ListInv, Abstract!Init

LEMMA ListHolds == Spec => []ListInv
<1>1. Init => ListInv
  BY StartLists
<1>2. IInv /\ ListInv /\ [Next]_vars => ListInv'
  BY StepLists
<1> QED BY <1>1, <1>2, Inductive, PTL DEF Spec

(* For every number of nodes: between any two calls, deletions during a    *)
(* walk included, next and prev undo each other on the head and on every   *)
(* node of the circular list.                                              *)
THEOREM RingLinked == Spec => []RingBothWays
<1>1. ListInv => RingBothWays
  <2> SUFFICES ASSUME ListInv, pc \in RingPcs, NEW k \in ToSet(Walk) \cup {0}
               PROVE  /\ next[k] \in Slots /\ back[k] \in Slots
                      /\ back[next[k]] = k /\ next[back[k]] = k
    BY DEF RingBothWays, RingPcs
  <2>1. PICK L \in 0 .. N : \E s \in [1 .. L -> Items] : ListIs(s, L)
    BY DEF ListInv
  <2>2. PICK s \in [1 .. L -> Items] : ListIs(s, L)
    BY <2>1
  <2>3. /\ Along(next, s, L, 0) /\ Behind(back, s, L) /\ back[0] = IF L = 0 THEN 0 ELSE s[L]
    BY <2>2 DEF ListIs, Ring
  <2>4. ToSet(Walk) = {s[i] : i \in 1 .. L}
    <3>1. Walk = s /\ DOMAIN s = 1 .. L
      BY <2>3, WalkIs
    <3> QED BY <3>1 DEF ToSet
  <2>5. \A i \in 1 .. L : s[i] \in Items /\ s[i] \in Slots
    BY Ends
  <2>6. CASE k = 0
    <3>1. CASE L = 0
      BY <2>3, <2>6, <3>1, Ends DEF Along
    <3>2. CASE L # 0
      <4>1. 1 \in 1 .. L /\ L \in 1 .. L
        BY <3>2, Ends
      <4> QED BY <2>3, <2>5, <2>6, <3>2, <4>1, Ends DEF Along, Behind
    <3> QED BY <3>1, <3>2
  <2>7. CASE k # 0
    <3>1. PICK i \in 1 .. L : k = s[i]
      BY <2>4, <2>7
    <3>2. i # L => i + 1 \in 1 .. L /\ i + 1 # 1 /\ (i + 1) - 1 = i
      BY Ends
    <3>3. i # 1 => i - 1 \in 1 .. L /\ i - 1 # L /\ (i - 1) + 1 = i
      BY Ends
    <3>4. next[k] \in Slots /\ back[next[k]] = k
      <4>1. next[k] = IF i = L THEN 0 ELSE s[i + 1]
        BY <2>3, <3>1 DEF Along
      <4>2. i # L => back[s[i + 1]] = s[i]
        BY <2>3, <3>2 DEF Behind
      <4>3. i = L => L # 0 /\ back[0] = s[i]
        BY <2>3, Ends
      <4> QED BY <2>5, <3>1, <3>2, <4>1, <4>2, <4>3, Ends
    <3>5. back[k] \in Slots /\ next[back[k]] = k
      <4>1. back[k] = IF i = 1 THEN 0 ELSE s[i - 1]
        BY <2>3, <3>1 DEF Behind
      <4>2. i # 1 => next[s[i - 1]] = s[i]
        BY <2>3, <3>3 DEF Along
      <4>3. i = 1 => next[0] = s[i]
        BY <2>3, Ends DEF Along
      <4> QED BY <2>5, <3>1, <3>3, <4>1, <4>2, <4>3, Ends
    <3> QED BY <3>4, <3>5
  <2> QED BY <2>6, <2>7
<1> QED BY <1>1, ListHolds, PTL

(* For every number of nodes, whichever of them are deleted on the way: the *)
(* safe loop visits each node once and in list order, its cursors are never *)
(* poison, and it leaves the others in order.                               *)
THEOREM SafeLoopComplete == Spec => []SafeVisitsAll
<1>1. ListInv => SafeVisitsAll
  <2> SUFFICES ASSUME ListInv, pc \in {"safe", "advance", "refill"} PROVE SafeVisitsAll
    BY DEF SafeVisitsAll
  <2>1. PICK L \in 0 .. N : \E s \in [1 .. L -> Items] : ListIs(s, L)
    BY DEF ListInv
  <2>2. PICK s \in [1 .. L -> Items] : ListIs(s, L)
    BY <2>1
  <2>3. PICK v \in 0 .. N : visited = Upto(v) /\ Increasing(s, L, StillIn(v)) /\ Cursors(v)
    BY <2>2 DEF ListIs
  <2>4. Walk = s
    <3>1. Along(next, s, L, 0)
      BY <2>2 DEF ListIs, RingPcs, Ring
    <3> QED BY <3>1, WalkIs
  <2>5. pos \in Slots /\ cached \in Slots /\ (pc = "refill" => v = N)
    BY <2>3 DEF Cursors
  <2>6. visited = SubSeq([k \in Items |-> k], 1, Len(visited))
    <3> DEFINE all == [k \in Items |-> k]
    <3>1. v \in Nat /\ Len(Upto(v)) = v /\ Upto(v) \in Seq(Nat) /\ v <= N
      BY Ends DEF Upto
    <3>2. all \in Seq(Nat) /\ Len(all) = N /\ \A i \in 1 .. N : all[i] = i
      BY Ends
    <3> HIDE DEF all
    <3>3. /\ SubSeq(all, 1, v) \in Seq(Nat) /\ Len(SubSeq(all, 1, v)) = v
          /\ \A i \in 1 .. v : SubSeq(all, 1, v)[i] = all[i]
      BY <3>1, <3>2, SubSeqProperties, Ends
    <3>4. \A i \in 1 .. v : SubSeq(all, 1, v)[i] = Upto(v)[i]
      BY <3>1, <3>2, <3>3, Ends DEF Upto
    <3>5. SubSeq(all, 1, v) = Upto(v)
      BY <3>1, <3>3, <3>4, SeqEqual
    <3> QED BY <2>3, <3>1, <3>5 DEF all
  <2>7. pc = "refill" => visited = [k \in Items |-> k] /\ InOrder(Walk, Items \ doomed)
    <3> SUFFICES ASSUME pc = "refill" PROVE visited = [k \in Items |-> k] /\ InOrder(Walk, Items \ doomed)
      OBVIOUS
    <3>1. v = N
      BY <2>5
    <3>2. visited = [k \in Items |-> k]
      BY <2>3, <3>1, Ends DEF Upto
    <3>3. StillIn(N) = Items \ doomed
      BY Ends DEF StillIn
    <3>4. DOMAIN s = 1 .. L /\ Len(s) = L /\ \A i \in 1 .. L : s[i] \in Items
      BY Ends
    <3>5. ToSet(s) = {s[i] : i \in 1 .. L}
      BY <3>4 DEF ToSet
    <3>6. \A k \in Items : k \in Items \ doomed <=> \E i \in 1 .. L : s[i] = k
      BY <2>3, <3>1, <3>3 DEF Increasing
    <3>7. ToSet(s) = Items \ doomed
      BY <3>4, <3>5, <3>6
    <3>8. InOrder(s, Items \ doomed)
      BY <2>3, <3>4, <3>7 DEF InOrder, Increasing
    <3> QED BY <2>4, <3>2, <3>8
  <2> QED BY <2>5, <2>6, <2>7 DEF SafeVisitsAll
<1> QED BY <1>1, ListHolds, PTL

(* For every number of nodes: each call of the hlist, of the suite and of  *)
(* the loops does to the nodes the pointers reach what a list allows, an   *)
(* addition at an end, the removal of a member or a new start, or nothing. *)
THEOREM ImplementsList == Spec => ListSpec
<1>1. Init => Abstract!Init
  BY StartLists
<1>2. IInv /\ ListInv /\ [Next]_vars => [Abstract!Next]_Walk
  BY StepLists
<1> QED BY <1>1, <1>2, Inductive, ListHolds, PTL DEF Spec, ListSpec, Abstract!Spec

-----------------------------------------------------------------------------
(* heapsort_standard and heapsort_bottom_up. *)

Up(i) == (i - 1) \div 2

(* The edge above i holds; all edges do from node s down to the end e; the *)
(* elements from e on are in order and not less than those before them.    *)
Edge(a, i) == a[Up(i)] >= a[i]
Edges(a, s, e) == \A i \in 1 .. e - 1 : Up(i) >= s => Edge(a, i)
SortedFrom(a, e) == \A i \in e .. n - 1, j \in Index : j <= i => a[j] <= a[i]

SortTyped ==
  /\ base \in Shuffles /\ work \in [Index -> Index]
  /\ sort \in {"standard", "bottom_up", "done"} /\ phase \in {"heapify", "extract"}
  /\ sort = "standard" => work \in Shuffles
  /\ sift = [at |-> sift.at, start |-> sift.start, end |-> sift.end, root |-> sift.root,
             value |-> sift.value]
  /\ sift.at \in {"returned", "down", "up"}
  /\ sift.at = "up" => sort = "bottom_up"
  /\ sift.at = "down" => Sorting

(* Between two calls of sift_down. *)
AtRest ==
  Sorting /\ Returned =>
    /\ phase = "heapify" => loop \in 0 .. n \div 2 /\ Edges(work, loop, n)
    /\ phase = "extract" => loop \in 1 .. n /\ Edges(work, 0, loop) /\ SortedFrom(work, loop)

(* In a call of sift_down: it works on the nodes from start to end. *)
Called ==
  ~Returned =>
    /\ sift.start \in Nat /\ sift.end \in 1 .. n /\ sift.root \in sift.start .. sift.end - 1
    /\ phase = "heapify" => sift.start = loop /\ sift.end = n /\ loop \in 0 .. n \div 2
    /\ phase = "extract" => sift.start = 0 /\ sift.end = loop
    /\ SortedFrom(work, sift.end)

(* Standard: only the edges below r may fail, and what is above r is not   *)
(* less than what is below it.                                             *)
Sinking(a, s, e, r) ==
  \A i \in 1 .. e - 1 :
    /\ Up(i) >= s /\ Up(i) # r => Edge(a, i)
    /\ Up(i) = r /\ r # s => a[Up(r)] >= a[i]

(* Bottom-up, on the way down: only the edges below s may fail, and only     *)
(* before the first round; then every edge holds, an element being there     *)
(* twice.  On the way up, with the value v: every edge holds.                *)
Falling(a, s, e, r) ==
  /\ \A i \in 1 .. e - 1 : Up(i) >= s /\ (r = s => Up(i) # s) => Edge(a, i)
  /\ a[r] <= a[s]
Climbing(a, s, e, r, v) == Edges(a, s, e) /\ a[r] <= v /\ v = a[s]

(* Nodes of which each but s has its parent among them. *)
ClosedUpwards(D, s) == s \in D /\ \A i \in D : i >= s /\ (i # s => Up(i) \in D)

Sifting ==
  /\ Down("standard")  => Sinking(work, sift.start, sift.end, sift.root)
  /\ Down("bottom_up") => Falling(work, sift.start, sift.end, sift.root)
  /\ sift.at = "up"    => Climbing(work, sift.start, sift.end, sift.root, sift.value)
  /\ sort = "bottom_up" /\ ~Returned =>
       \E D \in SUBSET Index : ClosedUpwards(D, sift.start) /\ sift.root \in D

SortInv == SortTyped /\ AtRest /\ Called /\ Sifting

----------------------------------------------------------------------------
(* The tree.                                                               *)

LEMMA UpIs ==
  /\ \A i \in Nat \ {0} : Up(i) \in Nat /\ Up(i) < i /\ (i = 2 * Up(i) + 1 \/ i = 2 * Up(i) + 2)
  /\ \A r \in Nat : Up(2 * r + 1) = r /\ Up(2 * r + 2) = r
<1>1. ASSUME NEW i \in Nat \ {0}
      PROVE  Up(i) \in Nat /\ Up(i) < i /\ (i = 2 * Up(i) + 1 \/ i = 2 * Up(i) + 2)
  <2>1. i - 1 \in Int /\ 2 \in Nat \ {0}
    OBVIOUS
  <2>2. /\ i - 1 = 2 * ((i - 1) \div 2) + ((i - 1) % 2)
        /\ (i - 1) % 2 \in 0 .. 1 /\ (i - 1) \div 2 \in Int
    BY <2>1, Division
  <2> QED BY <2>2 DEF Up
<1>2. ASSUME NEW r \in Nat PROVE Up(2 * r + 1) = r /\ Up(2 * r + 2) = r
  BY DEF Up
<1> QED BY <1>1, <1>2

(* The nodes before an end e are indices, and hold numbers. *)
LEMMA Within ==
  ASSUME NEW a \in [Index -> Index], NEW e \in 1 .. n
  PROVE  /\ n \in Nat /\ e \in Nat
         /\ \A i \in 0 .. e - 1 : i \in Nat /\ i \in Index /\ a[i] \in Nat /\ a[i] \in Int
         /\ \A i \in e .. n - 1 : i \in Nat /\ i \in Index
<1>1. n \in Nat /\ e \in Nat
  BY LengthAssumption
<1>2. \A i \in 0 .. e - 1 : i \in Index
  BY <1>1 DEF Index
<1>3. \A i \in Index : a[i] \in Index
  OBVIOUS
<1>4. \A i \in Index : i \in Nat /\ i \in Int
  BY <1>1 DEF Index
<1>5. \A i \in e .. n - 1 : i \in Index
  BY <1>1 DEF Index
<1> QED BY <1>1, <1>2, <1>3, <1>4, <1>5

(* The first element of a heap is a largest one. *)
LEMMA TopIsLargest ==
  ASSUME NEW a \in [Index -> Index], NEW e \in 1 .. n, Edges(a, 0, e)
  PROVE  \A j \in 0 .. e - 1 : a[j] <= a[0]
<1> DEFINE T == {j \in 0 .. e - 1 : ~(a[j] <= a[0])}
<1>1. n \in Nat /\ e \in Nat /\ \A j \in 0 .. e - 1 : j \in Index /\ a[j] \in Int
  BY Within
<1>2. ASSUME T # {} PROVE FALSE
  <2>1. PICK x \in T : \A y \in T : x <= y
    <3>1. T \in SUBSET Nat
      OBVIOUS
    <3> HIDE DEF T
    <3> QED BY <1>2, <3>1, LeastNumber
  <2>2. x \in 0 .. e - 1 /\ ~(a[x] <= a[0]) /\ x # 0
    BY <1>1
  <2>3. Up(x) \in 0 .. e - 1 /\ Up(x) < x
    BY <1>1, <2>2, UpIs
  <2>4. a[Up(x)] <= a[0]
    BY <1>1, <2>1, <2>3
  <2>5. a[Up(x)] >= a[x]
    BY <1>1, <2>2, <2>3 DEF Edges, Edge
  <2> QED BY <1>1, <2>2, <2>3, <2>4, <2>5
<1> QED BY <1>2

(* A rearrangement of the first e elements leaves the tail as it is. *)
LEMMA TailStays ==
  ASSUME NEW a \in [Index -> Index], NEW b \in [Index -> Index], NEW e \in 1 .. n,
         SortedFrom(a, e), \A i \in e .. n - 1 : b[i] = a[i],
         \A j \in 0 .. e - 1 : \E m \in 0 .. e - 1 : b[j] = a[m]
  PROVE  SortedFrom(b, e)
<1>1. ASSUME NEW i \in e .. n - 1, NEW j \in Index, j <= i PROVE b[j] <= b[i]
  <2>1. n \in Nat /\ e \in Nat /\ i \in Index /\ \A m \in 0 .. e - 1 : m \in Index
    BY Within
  <2>2. CASE j \in 0 .. e - 1
    <3>1. PICK m \in 0 .. e - 1 : b[j] = a[m]
      BY <2>2
    <3>2. m \in Index /\ m <= i
      BY <2>1
    <3> QED BY <1>1, <3>1, <3>2 DEF SortedFrom
  <2>3. CASE j \notin 0 .. e - 1
    <3>1. j \in e .. n - 1
      BY <2>1, <2>3 DEF Index
    <3> QED BY <1>1, <3>1 DEF SortedFrom
  <2> QED BY <2>2, <2>3
<1> QED BY <1>1 DEF SortedFrom

LEMMA SwapIs ==
  ASSUME NEW a \in [Index -> Index], NEW r \in Index, NEW c \in Index
  PROVE  /\ Swap(a, r, c) \in [Index -> Index]
         /\ \A i \in Index : Swap(a, r, c)[i] = IF i = c THEN a[r] ELSE IF i = r THEN a[c] ELSE a[i]
         /\ a \in Shuffles => Swap(a, r, c) \in Shuffles
<1> DEFINE b == Swap(a, r, c)
<1>1. /\ b \in [Index -> Index]
      /\ \A i \in Index : b[i] = IF i = c THEN a[r] ELSE IF i = r THEN a[c] ELSE a[i]
  BY DEF Swap
<1> HIDE DEF b
<1>2. a \in Shuffles => b \in Shuffles
  BY <1>1 DEF Shuffles
<1> QED BY <1>1, <1>2 DEF b

----------------------------------------------------------------------------
(* The rounds of sift_down.                                                *)

(* The standard one: the element sinks from r to the larger child c. *)
LEMMA SinkRound ==
  ASSUME NEW a \in [Index -> Index], NEW e \in 1 .. n, NEW s \in Nat, NEW r \in s .. e - 1,
         NEW c \in 1 .. e - 1, Up(c) = r, a[r] < a[c],
         \A i \in 1 .. e - 1 : Up(i) = r => a[c] >= a[i],
         Sinking(a, s, e, r), SortedFrom(a, e)
  PROVE  Sinking(Swap(a, r, c), s, e, c) /\ SortedFrom(Swap(a, r, c), e)
<1> DEFINE b == Swap(a, r, c)
<1>0. n \in Nat /\ e \in Nat /\ r \in 0 .. e - 1 /\ c \in 0 .. e - 1 /\ r < c
  <2>1. n \in Nat /\ e \in Nat
    BY Within
  <2>2. c \in Nat \ {0}
    BY <2>1
  <2>3. r < c
    BY <2>2, UpIs
  <2> QED BY <2>1, <2>2, <2>3
<1>1. /\ n \in Nat /\ e \in Nat /\ r \in Nat /\ c \in Nat /\ r < c /\ r \in Index /\ c \in Index
      /\ \A i \in 0 .. e - 1 : i \in Index /\ a[i] \in Int
  BY <1>0, Within
<1>2. /\ b \in [Index -> Index]
      /\ \A i \in Index : b[i] = IF i = c THEN a[r] ELSE IF i = r THEN a[c] ELSE a[i]
  BY <1>1, SwapIs
<1> HIDE DEF b
<1>3. SortedFrom(b, e)
  <2>1. \A i \in e .. n - 1 : i \in Index /\ i # c /\ i # r /\ b[i] = a[i]
    BY <1>0, <1>2, Within
  <2>2. \A j \in 0 .. e - 1 : \E m \in 0 .. e - 1 : b[j] = a[m]
    BY <1>1, <1>2
  <2> QED BY <1>2, <2>1, <2>2, TailStays
<1>4. ASSUME NEW i \in 1 .. e - 1
      PROVE  /\ Up(i) >= s /\ Up(i) # c => Edge(b, i)
             /\ Up(i) = c /\ c # s => b[Up(c)] >= b[i]
  <2>1. /\ i \in Nat /\ i \in Index /\ Up(i) \in Nat /\ Up(i) < i /\ Up(i) \in Index
        /\ i \in 0 .. e - 1 /\ Up(i) \in 0 .. e - 1
    BY <1>1, UpIs, SMTT(30)
  <2>2. ASSUME Up(i) >= s, Up(i) # c PROVE b[Up(i)] >= b[i]
    <3>1. CASE Up(i) = r
      BY <1>1, <1>2, <2>1, <3>1
    <3>2. CASE Up(i) # r /\ i = r
      <4>1. r # s
        BY <2>1, <2>2, <3>2
      <4>2. a[Up(r)] >= a[c]
        BY <4>1 DEF Sinking
      <4> QED BY <1>1, <1>2, <2>1, <2>2, <3>2, <4>2
    <3>3. CASE Up(i) # r /\ i # r
      <4>1. i # c /\ a[Up(i)] >= a[i]
        BY <2>2, <3>3 DEF Sinking, Edge
      <4> QED BY <1>1, <1>2, <2>1, <2>2, <3>3, <4>1
    <3> QED BY <3>1, <3>2, <3>3
  <2>3. ASSUME Up(i) = c PROVE b[Up(c)] >= b[i]
    <3>1. a[c] >= a[i] /\ i # c /\ i # r
      BY <1>1, <2>1, <2>3 DEF Sinking, Edge
    <3> QED BY <1>1, <1>2, <2>1, <2>3, <3>1
  <2> QED BY <2>2, <2>3 DEF Edge
<1> QED BY <1>3, <1>4 DEF Sinking, b

(* It stops where no child is larger: every edge holds. *)
LEMMA SinkStops ==
  ASSUME NEW a \in [Index -> Index], NEW e \in 1 .. n, NEW s \in Nat, NEW r \in s .. e - 1,
         \A i \in 1 .. e - 1 : Up(i) = r => a[r] >= a[i],
         Sinking(a, s, e, r)
  PROVE  Edges(a, s, e)
BY DEF Edges, Sinking, Edge

(* The bottom-up one: the larger child c moves up to r. *)
LEMMA FallRound ==
  ASSUME NEW a \in [Index -> Index], NEW e \in 1 .. n, NEW s \in Nat, NEW r \in s .. e - 1,
         NEW c \in 1 .. e - 1, Up(c) = r,
         \A i \in 1 .. e - 1 : Up(i) = r => a[c] >= a[i],
         Falling(a, s, e, r), SortedFrom(a, e)
  PROVE  /\ Falling([a EXCEPT ![r] = a[c]], s, e, c)
         /\ SortedFrom([a EXCEPT ![r] = a[c]], e)
         /\ [a EXCEPT ![r] = a[c]] \in [Index -> Index]
<1> DEFINE b == [a EXCEPT ![r] = a[c]]
<1>0. /\ n \in Nat /\ e \in Nat /\ s \in 0 .. e - 1 /\ r \in 0 .. e - 1 /\ c \in 0 .. e - 1 /\ r < c
  <2>1. n \in Nat /\ e \in Nat
    BY Within
  <2>2. c \in Nat \ {0}
    BY <2>1
  <2>3. r < c
    BY <2>2, UpIs
  <2> QED BY <2>1, <2>2, <2>3
<1>1. /\ n \in Nat /\ e \in Nat /\ r \in Nat /\ c \in Nat /\ r < c /\ r \in Index /\ c \in Index
      /\ s \in Index /\ \A i \in 0 .. e - 1 : i \in Index /\ a[i] \in Int
  BY <1>0, Within
<1>2. b \in [Index -> Index] /\ \A i \in Index : b[i] = IF i = r THEN a[c] ELSE a[i]
  BY <1>1
<1> HIDE DEF b
<1>3. SortedFrom(b, e)
  <2>1. \A i \in e .. n - 1 : i \in Index /\ i # r /\ b[i] = a[i]
    BY <1>0, <1>2, Within
  <2>2. \A j \in 0 .. e - 1 : \E m \in 0 .. e - 1 : b[j] = a[m]
    BY <1>1, <1>2
  <2> QED BY <1>2, <2>1, <2>2, TailStays
<1>4. r # s => Edge(a, c)
  BY <1>1 DEF Falling
<1>5. ASSUME NEW i \in 1 .. e - 1, Up(i) >= s PROVE b[Up(i)] >= b[i]
  <2>1. /\ i \in Nat /\ i \in Index /\ Up(i) \in Nat /\ Up(i) < i /\ Up(i) \in Index
        /\ i \in 0 .. e - 1 /\ Up(i) \in 0 .. e - 1
    BY <1>1, UpIs, SMTT(30)
  <2>2. CASE Up(i) = r
    BY <1>1, <1>2, <2>1, <2>2
  <2>3. CASE Up(i) # r /\ i = r
    <3>1. r # s
      BY <1>5, <2>1, <2>3
    <3>2. a[Up(r)] >= a[r] /\ a[r] >= a[c]
      BY <1>4, <1>5, <2>3, <3>1 DEF Falling, Edge
    <3> QED BY <1>1, <1>2, <2>1, <2>3, <3>2
  <2>4. CASE Up(i) # r /\ i # r
    <3>1. a[Up(i)] >= a[i]
      BY <1>5, <2>4 DEF Falling, Edge
    <3> QED BY <1>1, <1>2, <2>1, <2>4, <3>1
  <2> QED BY <2>2, <2>3, <2>4
<1>6. b[c] <= b[s]
  <2>1. CASE r = s
    BY <1>1, <1>2, <2>1
  <2>2. CASE r # s
    <3>1. a[r] >= a[c] /\ a[r] <= a[s] /\ r \in 0 .. e - 1 /\ c \in 0 .. e - 1 /\ s \in 0 .. e - 1
      BY <1>1, <1>4, <2>2 DEF Edge, Falling
    <3> QED BY <1>1, <1>2, <2>2, <3>1
  <2> QED BY <2>1, <2>2
<1>7. Falling(b, s, e, c)
  BY <1>5, <1>6 DEF Falling, Edge
<1> QED BY <1>2, <1>3, <1>7 DEF b

(* At a leaf there is no edge below r any more. *)
LEMMA FallStops ==
  ASSUME NEW a \in [Index -> Index], NEW e \in 1 .. n, NEW s \in Nat, NEW r \in s .. e - 1,
         \A i \in 1 .. e - 1 : Up(i) # r, Falling(a, s, e, r)
  PROVE  Climbing(a, s, e, r, a[s])
BY DEF Climbing, Falling, Edges

(* On the way up r takes a value x not less than its own, not more than v nor *)
(* than the parent's: every edge still holds.                                 *)
LEMMA ClimbRound ==
  ASSUME NEW a \in [Index -> Index], NEW e \in 1 .. n, NEW s \in Nat, NEW r \in s .. e - 1,
         NEW v, Climbing(a, s, e, r, v), SortedFrom(a, e),
         NEW m \in 0 .. e - 1, a[r] <= a[m], r # s => Up(r) >= s /\ a[m] <= a[Up(r)],
         r = s => a[m] = a[s]
  PROVE  /\ Edges([a EXCEPT ![r] = a[m]], s, e)
         /\ [a EXCEPT ![r] = a[m]][s] = a[s]
         /\ SortedFrom([a EXCEPT ![r] = a[m]], e)
         /\ [a EXCEPT ![r] = a[m]] \in [Index -> Index]
<1> DEFINE b == [a EXCEPT ![r] = a[m]]
<1>0. n \in Nat /\ e \in Nat /\ s \in 0 .. e - 1 /\ r \in 0 .. e - 1
  BY Within
<1>1. /\ n \in Nat /\ e \in Nat /\ r \in Nat /\ r \in Index /\ m \in Index
      /\ s \in Index /\ \A i \in 0 .. e - 1 : i \in Index /\ a[i] \in Int
  BY <1>0, Within
<1>2. b \in [Index -> Index] /\ \A i \in Index : b[i] = IF i = r THEN a[m] ELSE a[i]
  BY <1>1
<1> HIDE DEF b
<1>3. SortedFrom(b, e)
  <2>1. \A i \in e .. n - 1 : i \in Index /\ i # r /\ b[i] = a[i]
    BY <1>0, <1>2, Within
  <2>2. \A j \in 0 .. e - 1 : \E h \in 0 .. e - 1 : b[j] = a[h]
    BY <1>1, <1>2
  <2> QED BY <1>2, <2>1, <2>2, TailStays
<1>4. ASSUME NEW i \in 1 .. e - 1, Up(i) >= s PROVE b[Up(i)] >= b[i]
  <2>1. /\ i \in Nat /\ i \in Index /\ Up(i) \in Nat /\ Up(i) < i /\ Up(i) \in Index
        /\ i \in 0 .. e - 1 /\ Up(i) \in 0 .. e - 1
    BY <1>1, UpIs, SMTT(30)
  <2>2. a[Up(i)] >= a[i]
    BY <1>4 DEF Climbing, Edges, Edge
  <2>3. CASE i = r
    BY <1>1, <1>2, <1>4, <2>1, <2>3
  <2>4. CASE i # r
    BY <1>1, <1>2, <2>1, <2>2, <2>4
  <2> QED BY <2>3, <2>4
<1>5. b[s] = a[s]
  BY <1>1, <1>2
<1>6. Edges(b, s, e)
  BY <1>4 DEF Edges, Edge
<1> QED BY <1>2, <1>3, <1>5, <1>6 DEF b
(* The child sift_down looks at is a largest one. *)
LEMMA LargerChild ==
  ASSUME NEW a \in [Index -> Index], NEW e \in 1 .. n, NEW r \in 0 .. e - 1, r * 2 + 1 < e,
         NEW c, c = IF r * 2 + 1 + 1 < e /\ a[r * 2 + 1] < a[r * 2 + 1 + 1]
                    THEN r * 2 + 1 + 1 ELSE r * 2 + 1
  PROVE  c \in 1 .. e - 1 /\ Up(c) = r /\ \A i \in 1 .. e - 1 : Up(i) = r => a[c] >= a[i]
<1>1. n \in Nat /\ e \in Nat /\ r \in Nat /\ \A i \in 0 .. e - 1 : a[i] \in Int
  BY Within
<1>2. c \in 1 .. e - 1 /\ c \in {2 * r + 1, 2 * r + 2}
  BY <1>1
<1>3. Up(c) = r
  BY <1>1, <1>2, UpIs
<1>4. ASSUME NEW i \in 1 .. e - 1, Up(i) = r PROVE a[c] >= a[i]
  <2>1. i = r * 2 + 1 \/ i = r * 2 + 1 + 1
    <3>1. i \in Nat \ {0}
      BY <1>1
    <3>2. i = 2 * Up(i) + 1 \/ i = 2 * Up(i) + 2
      BY <3>1, UpIs
    <3>3. i = 2 * r + 1 \/ i = 2 * r + 2
      BY <1>4, <3>2
    <3> QED BY <1>1, <3>3
  <2>2. a[r * 2 + 1] \in Int /\ a[i] \in Int
    BY <1>1
  <2> QED BY <1>1, <2>1, <2>2
<1> QED BY <1>2, <1>3, <1>4

----------------------------------------------------------------------------
(* The calls of sift_down.                                                 *)

(* Nothing but the heap is left, or nothing but the tail. *)
LEMMA SortEnds ==
  ASSUME NEW a \in [Index -> Index]
  PROVE  SortedFrom(a, n) /\ (SortedFrom(a, 1) => is_sorted(a))
<1>1. n \in Nat
  BY LengthAssumption
<1>2. SortedFrom(a, n)
  BY <1>1 DEF SortedFrom
<1>3. ASSUME SortedFrom(a, 1), NEW i \in 1 .. n - 1 PROVE a[i - 1] <= a[i]
  <2>1. i - 1 \in Index /\ i - 1 <= i
    BY <1>1 DEF Index
  <2> QED BY <1>3, <2>1 DEF SortedFrom
<1> QED BY <1>2, <1>3 DEF is_sorted

(* The second half of the array has no children. *)
LEMMA HalfIsHeap ==
  ASSUME NEW a
  PROVE  n \div 2 \in Nat /\ n \div 2 <= n /\ (n # 1 => n \div 2 < n) /\ Edges(a, n \div 2, n)
<1> DEFINE h == n \div 2
<1>1. n \in Nat \ {0} /\ 2 \in Nat \ {0}
  BY LengthAssumption
<1>2. n = 2 * h + (n % 2) /\ n % 2 \in 0 .. 1 /\ h \in Int
  BY <1>1, Division
<1> HIDE DEF h
<1>3. ASSUME NEW i \in 1 .. n - 1 PROVE ~(Up(i) >= h)
  <2>1. i \in Nat \ {0}
    BY <1>1
  <2>2. Up(i) \in Nat /\ (i = 2 * Up(i) + 1 \/ i = 2 * Up(i) + 2)
    BY <2>1, UpIs
  <2> HIDE DEF h
  <2> QED BY <1>1, <1>2, <2>2
<1>4. h \in Nat /\ h <= n /\ (n # 1 => h < n)
  BY <1>1, <1>2
<1> QED BY <1>3, <1>4 DEF Edges, h

(* A node is put on top of a part that is in order. *)
LEMMA Begins ==
  ASSUME NEW a \in [Index -> Index], NEW e \in 1 .. n, NEW s \in 0 .. e - 1,
         \A i \in 1 .. e - 1 : Up(i) >= s + 1 => Edge(a, i)
  PROVE  /\ Sinking(a, s, e, s) /\ Falling(a, s, e, s)
         /\ {s} \in SUBSET Index /\ ClosedUpwards({s}, s)
<1>1. n \in Nat /\ e \in Nat /\ s \in Nat /\ s \in Index /\ a[s] \in Int
  BY Within
<1>2. ASSUME NEW i \in 1 .. e - 1, Up(i) >= s, Up(i) # s PROVE Edge(a, i)
  <2>1. i \in Nat \ {0}
    BY <1>1
  <2>2. Up(i) \in Nat
    BY <2>1, UpIs
  <2> QED BY <1>1, <1>2, <2>2
<1>3. Sinking(a, s, e, s)
  BY <1>2 DEF Sinking
<1>4. Falling(a, s, e, s)
  BY <1>1, <1>2 DEF Falling
<1>5. {s} \in SUBSET Index /\ ClosedUpwards({s}, s)
  BY <1>1 DEF ClosedUpwards
<1> QED BY <1>3, <1>4, <1>5

(* The largest element changes places with the last of the heap. *)
LEMMA ExtractRound ==
  ASSUME NEW a \in [Index -> Index], NEW e \in 2 .. n, Edges(a, 0, e), SortedFrom(a, e)
  PROVE  /\ \A i \in 1 .. e - 2 : Up(i) >= 1 => Edge(Swap(a, 0, e - 1), i)
         /\ SortedFrom(Swap(a, 0, e - 1), e - 1)
<1> DEFINE l == e - 1
           b == Swap(a, 0, l)
<1>0. e \in 1 .. n
  BY LengthAssumption
<1>1. /\ n \in Nat /\ e \in Nat /\ l \in Nat /\ 0 \in Index /\ l \in Index /\ l # 0
      /\ l \in 0 .. e - 1 /\ 0 \in 0 .. e - 1
      /\ \A i \in 0 .. e - 1 : i \in Nat /\ i \in Index /\ a[i] \in Int
  <2>1. n \in Nat /\ e \in Nat /\ l \in 0 .. e - 1 /\ 0 \in 0 .. e - 1 /\ l # 0
    BY <1>0, Within
  <2> QED BY <1>0, <2>1, Within
<1>2. /\ b \in [Index -> Index]
      /\ \A i \in Index : b[i] = IF i = l THEN a[0] ELSE IF i = 0 THEN a[l] ELSE a[i]
  <2> HIDE DEF l
  <2> QED BY <1>1, SwapIs
<1>3. l = e - 1
  OBVIOUS
<1> HIDE DEF b, l
<1>4. ASSUME NEW i \in 1 .. e - 2, Up(i) >= 1 PROVE b[Up(i)] >= b[i]
  <2>1. i \in Nat \ {0} /\ i \in 0 .. e - 1 /\ i # l /\ i \in 1 .. e - 1
    BY <1>1, <1>3
  <2>2. Up(i) \in Nat /\ Up(i) < i
    BY <2>1, UpIs
  <2>3. Up(i) \in 0 .. e - 1 /\ Up(i) # l /\ Up(i) # 0
    BY <1>1, <1>3, <1>4, <2>1, <2>2
  <2>4. a[Up(i)] >= a[i]
    BY <2>1, <2>2 DEF Edges, Edge
  <2>5. b[i] = a[i] /\ b[Up(i)] = a[Up(i)]
    BY <1>1, <1>2, <2>1, <2>3
  <2> QED BY <2>4, <2>5
<1>5. \A j \in 0 .. e - 1 : \E m \in 0 .. e - 1 : b[j] = a[m]
  BY <1>1, <1>2
<1>6. SortedFrom(b, e)
  <2>1. \A i \in e .. n - 1 : b[i] = a[i]
    <3>1. \A i \in e .. n - 1 : i \in Index
      BY <1>0, Within
    <3> QED BY <1>1, <1>2, <1>3, <3>1
  <2> QED BY <1>0, <1>2, <1>5, <2>1, TailStays
<1>7. ASSUME NEW i \in l .. n - 1, NEW j \in Index, j <= i PROVE b[j] <= b[i]
  <2>1. CASE i = l
    <3>1. j \in 0 .. e - 1
      BY <1>1, <1>3, <1>7, <2>1 DEF Index
    <3>2. PICK m \in 0 .. e - 1 : b[j] = a[m]
      BY <1>5, <3>1
    <3>3. a[m] <= a[0]
      BY <1>0, TopIsLargest
    <3> QED BY <1>1, <1>2, <2>1, <3>2, <3>3
  <2>2. CASE i # l
    <3>1. i \in e .. n - 1
      BY <1>1, <1>3, <2>2
    <3> QED BY <1>6, <1>7, <3>1 DEF SortedFrom
  <2> QED BY <2>1, <2>2
<1>8. SortedFrom(b, l)
  BY <1>7 DEF SortedFrom
<1> QED BY <1>4, <1>8 DEF Edge, b, l

----------------------------------------------------------------------------
(* The steps.                                                              *)

(* In a call of sift_down, the array and the arguments. *)
LEMMA InCall ==
  ASSUME SortInv, ~Returned
  PROVE  /\ work \in [Index -> Index] /\ sift.end \in 1 .. n /\ sift.start \in Nat
         /\ sift.root \in sift.start .. sift.end - 1 /\ sift.root \in 0 .. sift.end - 1
         /\ sift.start \in 0 .. sift.end - 1
         /\ SortedFrom(work, sift.end) /\ sort \in {"standard", "bottom_up"}
<1>1. /\ work \in [Index -> Index] /\ sift.end \in 1 .. n /\ sift.start \in Nat
      /\ sift.root \in sift.start .. sift.end - 1 /\ SortedFrom(work, sift.end)
  BY DEF SortInv, SortTyped, Called
<1>2. sort \in {"standard", "bottom_up"}
  BY DEF SortInv, SortTyped, Sorting, Returned
<1>3. n \in Nat /\ sift.end \in Nat
  BY <1>1, LengthAssumption
<1> QED BY <1>1, <1>2, <1>3

(* A round that does not end the call. *)
LEMMA GoesOn ==
  ASSUME SortInv, ~Returned, NEW at \in {"down", "up"}, at = "up" => sort = "bottom_up",
         NEW r \in sift.start .. sift.end - 1, NEW v,
         sift' = [at |-> at, start |-> sift.start, end |-> sift.end, root |-> r, value |-> v],
         work' \in [Index -> Index], SortedFrom(work', sift.end),
         sort = "standard" => work' \in Shuffles, UNCHANGED <<base, sort, phase, loop>>
  PROVE  SortTyped' /\ AtRest' /\ Called'
<1>1. ~(Returned') /\ (Sorting' <=> Sorting)
  BY DEF Returned, Sorting
<1>2. Sorting
  BY InCall DEF Sorting
<1>3. SortTyped'
  <2>1. base \in Shuffles /\ sort \in {"standard", "bottom_up", "done"} /\ phase \in {"heapify", "extract"}
    BY DEF SortInv, SortTyped
  <2> QED BY <1>1, <1>2, <2>1 DEF SortTyped
<1>4. AtRest'
  BY <1>1 DEF AtRest
<1>5. Called'
  <2>1. /\ sift.start \in Nat /\ sift.end \in 1 .. n
        /\ phase = "heapify" => sift.start = loop /\ sift.end = n /\ loop \in 0 .. n \div 2
        /\ phase = "extract" => sift.start = 0 /\ sift.end = loop
    BY DEF SortInv, Called
  <2>2. sift'.start = sift.start /\ sift'.end = sift.end /\ sift'.root = r
    OBVIOUS
  <2>3. (sift.start \in Nat)' /\ (sift.end \in 1 .. n)' /\ (sift.root \in sift.start .. sift.end - 1)'
    BY <2>1, <2>2
  <2>4. (phase = "heapify" => sift.start = loop /\ sift.end = n /\ loop \in 0 .. n \div 2)'
    BY <2>1, <2>2
  <2>5. (phase = "extract" => sift.start = 0 /\ sift.end = loop)'
    BY <2>1, <2>2
  <2>6. SortedFrom(work, sift.end)'
    BY <2>2
  <2> QED BY <2>3, <2>4, <2>5, <2>6 DEF Called
<1> QED BY <1>3, <1>4, <1>5

(* A round that ends it. *)
LEMMA Returns ==
  ASSUME SortInv, ~Returned, sift' = NoSift, work' \in [Index -> Index],
         Edges(work', sift.start, sift.end), SortedFrom(work', sift.end),
         sort = "standard" => work' \in Shuffles, UNCHANGED <<base, sort, phase, loop>>
  PROVE  SortInv'
<1>1. Returned' /\ (Sorting' <=> Sorting) /\ sift'.at = "returned"
  BY DEF Returned, Sorting, NoSift
<1>2. SortTyped'
  <2>1. base \in Shuffles /\ sort \in {"standard", "bottom_up", "done"} /\ phase \in {"heapify", "extract"}
    BY DEF SortInv, SortTyped
  <2>2. (sift = [at |-> sift.at, start |-> sift.start, end |-> sift.end, root |-> sift.root,
                 value |-> sift.value])'
    BY DEF NoSift
  <2> QED BY <1>1, <2>1, <2>2 DEF SortTyped
<1>3. AtRest'
  <2>1. /\ phase = "heapify" => sift.start = loop /\ sift.end = n /\ loop \in 0 .. n \div 2
        /\ phase = "extract" => sift.start = 0 /\ sift.end = loop
        /\ sift.end \in 1 .. n
    BY DEF SortInv, Called
  <2>2. phase' = "heapify" => loop' \in 0 .. n \div 2 /\ Edges(work', loop', n)
    BY <2>1
  <2>3. phase' = "extract" => loop' \in 1 .. n /\ Edges(work', 0, loop') /\ SortedFrom(work', loop')
    BY <2>1
  <2> QED BY <2>2, <2>3 DEF AtRest
<1>4. Called'
  BY <1>1 DEF Called
<1>5. Sifting'
  BY <1>1 DEF Sifting, Down, Returned
<1> QED BY <1>2, <1>3, <1>4, <1>5 DEF SortInv

(* sift_down is called for the node s. *)
LEMMA Calls ==
  ASSUME SortInv, Sorting, Returned, NEW s, NEW e \in 1 .. n, s \in 0 .. e - 1,
         sift' = SiftDown(s, e), work' \in [Index -> Index],
         \A i \in 1 .. e - 1 : Up(i) >= s + 1 => Edge(work', i), SortedFrom(work', e),
         sort = "standard" => work' \in Shuffles, UNCHANGED <<base, sort, phase>>,
         phase = "heapify" => s = loop' /\ e = n /\ loop' \in 0 .. n \div 2,
         phase = "extract" => s = 0 /\ e = loop'
  PROVE  SortInv'
<1>0. /\ sift'.at = "down" /\ sift'.start = s /\ sift'.end = e /\ sift'.root = s
      /\ sift' = [at |-> "down", start |-> s, end |-> e, root |-> s, value |-> 0]
  BY DEF SiftDown
<1>1. ~(Returned') /\ Sorting'
  BY <1>0 DEF Returned, Sorting
<1>2. SortTyped'
  <2>1. base \in Shuffles /\ sort \in {"standard", "bottom_up", "done"} /\ phase \in {"heapify", "extract"}
    BY DEF SortInv, SortTyped
  <2>2. (sift = [at |-> sift.at, start |-> sift.start, end |-> sift.end, root |-> sift.root,
                 value |-> sift.value])'
    BY <1>0
  <2> QED BY <1>0, <1>1, <2>1, <2>2 DEF SortTyped
<1>3. AtRest'
  BY <1>1 DEF AtRest
<1>4. Called'
  <2>1. s \in Nat /\ s \in s .. e - 1 /\ n \in Nat
    BY LengthAssumption
  <2>2. (sift.start \in Nat)' /\ (sift.end \in 1 .. n)' /\ (sift.root \in sift.start .. sift.end - 1)'
    BY <1>0, <2>1
  <2>3. (phase = "heapify" => sift.start = loop /\ sift.end = n /\ loop \in 0 .. n \div 2)'
    BY <1>0
  <2>4. (phase = "extract" => sift.start = 0 /\ sift.end = loop)'
    BY <1>0
  <2>5. SortedFrom(work, sift.end)'
    BY <1>0
  <2> QED BY <2>2, <2>3, <2>4, <2>5 DEF Called
<1>5. Sifting'
  <2>1. /\ Sinking(work', s, e, s) /\ Falling(work', s, e, s)
        /\ {s} \in SUBSET Index /\ ClosedUpwards({s}, s)
    BY Begins
  <2>2. Sinking(work', sift'.start, sift'.end, sift'.root)
    BY <1>0, <2>1
  <2>3. Falling(work', sift'.start, sift'.end, sift'.root)
    BY <1>0, <2>1
  <2>4. \E D \in SUBSET Index : ClosedUpwards(D, sift'.start) /\ sift'.root \in D
    BY <1>0, <2>1
  <2>5. sift'.at # "up"
    BY <1>0
  <2> QED BY <2>2, <2>3, <2>4, <2>5 DEF Sifting
<1> QED BY <1>2, <1>3, <1>4, <1>5 DEF SortInv
LEMMA HeapifyKeeps ==
  ASSUME SortInv, Heapify PROVE SortInv'
<1>2. loop \in 0 .. n \div 2 /\ Edges(work, loop, n)
  BY DEF SortInv, AtRest, Heapify
<1>3. n \in 1 .. n /\ n \in Nat /\ n \div 2 \in Nat /\ n \div 2 <= n
  BY HalfIsHeap, LengthAssumption
<1>4. loop > 0 /\ loop - 1 \in 0 .. n - 1 /\ loop - 1 \in 0 .. n \div 2 /\ (loop - 1) + 1 = loop
  BY <1>2, <1>3 DEF Heapify
<1>5. work' = work /\ loop' = loop - 1 /\ sift' = SiftDown(loop - 1, n) /\ Sorting /\ Returned /\ phase = "heapify"
      /\ UNCHANGED <<base, sort, phase>>
  BY DEF Heapify
<1>6. \A i \in 1 .. n - 1 : Up(i) >= (loop - 1) + 1 => Edge(work', i)
  BY <1>2, <1>4, <1>5 DEF Edges
<1>7. work' \in [Index -> Index] /\ (sort = "standard" => work' \in Shuffles)
  BY <1>5 DEF SortInv, SortTyped
<1>8. SortedFrom(work', n)
  BY <1>7, SortEnds
<1>9. /\ phase = "heapify" => loop - 1 = loop' /\ n = n /\ loop' \in 0 .. n \div 2
      /\ phase = "extract" => loop - 1 = 0 /\ n = loop'
  BY <1>4, <1>5
<1> QED BY <1>3, <1>4, <1>5, <1>6, <1>7, <1>8, <1>9, Calls

LEMMA HeapifiedKeeps ==
  ASSUME SortInv, Heapified PROVE SortInv'
<1>1. work \in [Index -> Index] /\ n \in Nat \ {0}
  BY LengthAssumption DEF SortInv, SortTyped
<1>2. Edges(work, 0, n)
  <2>1. CASE loop = 0
    BY <2>1 DEF SortInv, AtRest, Heapified
  <2>2. CASE n < 2
    BY <1>1, <2>2 DEF Edges
  <2> QED BY <2>1, <2>2 DEF Heapified
<1>3. SortedFrom(work, n)
  BY <1>1, SortEnds
<1>4. phase' = "extract" /\ loop' = n /\ UNCHANGED <<base, work, sort, sift>> /\ Returned
  BY DEF Heapified
<1>5. SortTyped'
  BY <1>4 DEF SortInv, SortTyped, Sorting
<1>6. AtRest'
  BY <1>1, <1>2, <1>3, <1>4 DEF AtRest
<1>7. Called' /\ Sifting'
  BY <1>4 DEF Called, Sifting, Returned, Down
<1> QED BY <1>5, <1>6, <1>7 DEF SortInv

LEMMA ExtractKeeps ==
  ASSUME SortInv, Extract PROVE SortInv'
<1>1. work \in [Index -> Index] /\ n \in Nat \ {0}
  BY LengthAssumption DEF SortInv, SortTyped
<1>2. loop \in 1 .. n /\ Edges(work, 0, loop) /\ SortedFrom(work, loop) /\ loop > 1
  BY DEF SortInv, AtRest, Extract
<1>3. loop \in 2 .. n /\ loop - 1 \in 1 .. n /\ 0 \in 0 .. (loop - 1) - 1 /\ 0 \in Index /\ loop - 1 \in Index
      /\ (loop - 1) - 1 = loop - 2
  BY <1>1, <1>2 DEF Index
<1>4. /\ \A i \in 1 .. loop - 2 : Up(i) >= 1 => Edge(Swap(work, 0, loop - 1), i)
      /\ SortedFrom(Swap(work, 0, loop - 1), loop - 1)
  BY <1>1, <1>2, <1>3, ExtractRound
<1>5. work' = Swap(work, 0, loop - 1) /\ loop' = loop - 1 /\ sift' = SiftDown(0, loop - 1) /\ Sorting /\ Returned
      /\ phase = "extract" /\ UNCHANGED <<base, sort, phase>>
  BY DEF Extract
<1>6. work' \in [Index -> Index] /\ (work \in Shuffles => work' \in Shuffles)
  BY <1>1, <1>3, <1>5, SwapIs
<1>7. sort = "standard" => work' \in Shuffles
  BY <1>6 DEF SortInv, SortTyped
<1>8. \A i \in 1 .. (loop - 1) - 1 : Up(i) >= 0 + 1 => Edge(work', i)
  BY <1>3, <1>4, <1>5
<1>9. SortedFrom(work', loop - 1)
  BY <1>4, <1>5
<1>10. /\ phase = "heapify" => 0 = loop' /\ loop - 1 = n /\ loop' \in 0 .. n \div 2
       /\ phase = "extract" => 0 = 0 /\ loop - 1 = loop'
  BY <1>5
<1> QED BY <1>3, <1>5, <1>6, <1>7, <1>8, <1>9, <1>10, Calls

(* Where each sort begins. *)
LEMMA Fresh ==
  ASSUME base \in Shuffles, work = base, sort \in {"standard", "bottom_up"}, phase = "heapify",
         loop = n \div 2, sift = NoSift
  PROVE  SortInv
<1>1. work \in [Index -> Index]
  BY DEF Shuffles
<1>2. Returned /\ sift.at = "returned"
  BY DEF Returned, NoSift
<1>3. sift = [at |-> sift.at, start |-> sift.start, end |-> sift.end, root |-> sift.root,
              value |-> sift.value]
  BY DEF NoSift
<1>4. SortTyped
  BY <1>1, <1>2, <1>3 DEF SortTyped
<1>5. AtRest
  <2>1. n \div 2 \in 0 .. n \div 2 /\ Edges(work, n \div 2, n)
    BY HalfIsHeap
  <2> QED BY <2>1 DEF AtRest
<1>6. Called /\ Sifting
  BY <1>2 DEF Called, Sifting, Down, Returned
<1> QED BY <1>4, <1>5, <1>6 DEF SortInv

LEMMA CheckKeeps ==
  ASSUME SortInv, Check PROVE SortInv'
<1>1. work \in [Index -> Index] /\ n \in Nat \ {0}
  BY LengthAssumption DEF SortInv, SortTyped
<1>2. is_sorted(work)
  <2>1. loop \in 1 .. n /\ SortedFrom(work, loop) /\ loop <= 1
    BY DEF SortInv, AtRest, Check
  <2>2. loop = 1
    BY <1>1, <2>1
  <2> QED BY <1>1, <2>1, <2>2, SortEnds
<1>3. CASE sort = "standard"
  <2>1. sort' = "bottom_up" /\ work' = base' /\ phase' = "heapify" /\ loop' = n \div 2
        /\ base' = base /\ sift' = sift
    BY <1>2, <1>3 DEF Check
  <2>2. base \in Shuffles
    BY DEF SortInv, SortTyped
  <2>3. SortTyped'
    <3>1. base' \in [Index -> Index]
      BY <2>1, <2>2 DEF Shuffles
    <3>2. sift.at = "returned"
      BY DEF Check, Returned
    <3> QED BY <2>1, <2>2, <3>1, <3>2 DEF SortInv, SortTyped
  <2>4. AtRest'
    <3>1. n \div 2 \in 0 .. n \div 2 /\ Edges(work', n \div 2, n)
      BY HalfIsHeap
    <3> QED BY <2>1, <3>1 DEF AtRest
  <2>5. Called' /\ Sifting'
    BY <2>1 DEF Check, Called, Sifting, Down, Returned
  <2> QED BY <2>3, <2>4, <2>5 DEF SortInv
<1>4. CASE sort # "standard"
  <2>1. sort' = "done" /\ UNCHANGED <<base, work, phase, loop, sift>>
    BY <1>2, <1>4 DEF Check
  <2>2. ~(Sorting') /\ Returned' /\ sift.at = "returned"
    BY <2>1 DEF Check, Sorting, Returned
  <2>3. SortTyped'
    BY <2>1, <2>2 DEF SortInv, SortTyped
  <2>4. AtRest' /\ Called' /\ Sifting'
    BY <2>1, <2>2 DEF AtRest, Called, Sifting, Down, Returned
  <2> QED BY <2>3, <2>4 DEF SortInv
<1> QED BY <1>3, <1>4

(* The children of the node sift_down has reached. *)
LEMMA ChildIs ==
  ASSUME SortInv, ~Returned, Left < sift.end
  PROVE  /\ Child \in 1 .. sift.end - 1 /\ Child \in sift.start .. sift.end - 1
         /\ Up(Child) = sift.root
         /\ \A i \in 1 .. sift.end - 1 : Up(i) = sift.root => work[Child] >= work[i]
<1>1. /\ work \in [Index -> Index] /\ sift.end \in 1 .. n /\ sift.start \in Nat
      /\ sift.root \in 0 .. sift.end - 1 /\ sift.root \in sift.start .. sift.end - 1
  BY InCall
<1>2. sift.root * 2 + 1 < sift.end
  BY DEF Left
<1>3. Child = IF sift.root * 2 + 1 + 1 < sift.end /\ work[sift.root * 2 + 1] < work[sift.root * 2 + 1 + 1]
              THEN sift.root * 2 + 1 + 1 ELSE sift.root * 2 + 1
  BY DEF Child, Left
<1>4. /\ Child \in 1 .. sift.end - 1 /\ Up(Child) = sift.root
      /\ \A i \in 1 .. sift.end - 1 : Up(i) = sift.root => work[Child] >= work[i]
  BY <1>1, <1>2, <1>3, LargerChild
<1>5. Child \in sift.start .. sift.end - 1
  <2>1. n \in Nat /\ sift.end \in Nat
    BY <1>1, LengthAssumption
  <2> HIDE DEF Up
  <2>2. Child \in Nat \ {0}
    BY <1>4, <2>1
  <2>3. sift.root < Child
    BY <1>4, <2>2, UpIs
  <2> QED BY <1>1, <1>4, <2>1, <2>2, <2>3
<1> QED BY <1>4, <1>5

LEMMA LeafIs ==
  ASSUME SortInv, ~Returned, ~(Left < sift.end)
  PROVE  \A i \in 1 .. sift.end - 1 : Up(i) # sift.root
<1>1. sift.end \in Nat /\ sift.root \in Nat
  <2>1. sift.end \in 1 .. n /\ sift.root \in 0 .. sift.end - 1 /\ n \in Nat
    BY InCall, LengthAssumption
  <2> QED BY <2>1
<1>2. ASSUME NEW i \in 1 .. sift.end - 1, Up(i) = sift.root PROVE FALSE
  <2>1. i \in Nat \ {0}
    BY <1>1
  <2>2. i = 2 * Up(i) + 1 \/ i = 2 * Up(i) + 2
    BY <2>1, UpIs
  <2>3. i = 2 * sift.root + 1 \/ i = 2 * sift.root + 2
    BY <1>2, <2>2
  <2> QED BY <1>1, <2>3 DEF Left
<1> QED BY <1>2
LEMMA StandardStopKeeps ==
  ASSUME SortInv, StandardStop PROVE SortInv'
<1>1. ~Returned /\ Down("standard") /\ sift' = NoSift /\ UNCHANGED <<base, work, sort, phase, loop>>
      /\ sort = "standard"
  BY DEF StandardStop, Down, Returned
<1>2. /\ work \in [Index -> Index] /\ sift.end \in 1 .. n /\ sift.start \in Nat
      /\ sift.root \in sift.start .. sift.end - 1 /\ sift.root \in 0 .. sift.end - 1
      /\ SortedFrom(work, sift.end)
  BY <1>1, InCall
<1>3. \A i \in 0 .. sift.end - 1 : work[i] \in Int
  BY <1>2, Within
<1>4. ASSUME NEW i \in 1 .. sift.end - 1, Up(i) = sift.root PROVE work[sift.root] >= work[i]
  <2>1. Left < sift.end
    BY <1>1, <1>4, LeafIs
  <2>2. Child \in 1 .. sift.end - 1 /\ work[Child] >= work[i]
    BY <1>1, <1>4, <2>1, ChildIs
  <2>3. ~(work[sift.root] < work[Child])
    BY <2>1 DEF StandardStop, Sinks
  <2>4. Child \in 0 .. sift.end - 1 /\ i \in 0 .. sift.end - 1
    BY <2>2
  <2>5. work[sift.root] \in Int /\ work[Child] \in Int /\ work[i] \in Int
    BY <1>2, <1>3, <2>4
  <2> QED BY <2>2, <2>3, <2>5
<1>5. Sinking(work, sift.start, sift.end, sift.root)
  BY <1>1 DEF SortInv, Sifting
<1>6. Edges(work, sift.start, sift.end)
  BY <1>2, <1>4, <1>5, SinkStops
<1>7. work' \in [Index -> Index] /\ Edges(work', sift.start, sift.end) /\ SortedFrom(work', sift.end)
  BY <1>1, <1>2, <1>6
<1>8. sort = "standard" => work' \in Shuffles
  BY <1>1 DEF SortInv, SortTyped
<1> QED BY <1>1, <1>7, <1>8, Returns

LEMMA StandardSwapKeeps ==
  ASSUME SortInv, StandardSwap PROVE SortInv'
<1>1. /\ ~Returned /\ Down("standard") /\ sort = "standard" /\ sift.at = "down"
      /\ Left < sift.end /\ work[sift.root] < work[Child]
      /\ work' = Swap(work, sift.root, Child) /\ sift' = [sift EXCEPT !.root = Child]
      /\ UNCHANGED <<base, sort, phase, loop>>
  BY DEF StandardSwap, Sinks, Down, Returned
<1>2. /\ work \in [Index -> Index] /\ sift.end \in 1 .. n /\ sift.start \in Nat
      /\ sift.root \in sift.start .. sift.end - 1 /\ sift.root \in 0 .. sift.end - 1
      /\ SortedFrom(work, sift.end)
  BY <1>1, InCall
<1>3. /\ Child \in 1 .. sift.end - 1 /\ Child \in sift.start .. sift.end - 1
      /\ Up(Child) = sift.root
      /\ \A i \in 1 .. sift.end - 1 : Up(i) = sift.root => work[Child] >= work[i]
  BY <1>1, ChildIs
<1>4. Sinking(work, sift.start, sift.end, sift.root)
  BY <1>1 DEF SortInv, Sifting
<1>5. /\ Sinking(Swap(work, sift.root, Child), sift.start, sift.end, Child)
      /\ SortedFrom(Swap(work, sift.root, Child), sift.end)
  BY <1>1, <1>2, <1>3, <1>4, SinkRound
<1>6. sift.root \in Index /\ Child \in Index
  <2>1. Child \in 0 .. sift.end - 1
    BY <1>3
  <2> QED BY <1>2, <2>1, Within
<1>7. work' \in [Index -> Index] /\ (work \in Shuffles => work' \in Shuffles)
  BY <1>1, <1>2, <1>6, SwapIs
<1>8. sort = "standard" => work' \in Shuffles
  BY <1>7 DEF SortInv, SortTyped
<1>9. sift' = [at |-> "down", start |-> sift.start, end |-> sift.end, root |-> Child,
               value |-> sift.value]
  <2>1. sift = [at |-> sift.at, start |-> sift.start, end |-> sift.end, root |-> sift.root,
                value |-> sift.value]
    BY DEF SortInv, SortTyped
  <2> QED BY <1>1, <2>1
<1>10. SortTyped' /\ AtRest' /\ Called'
  <2>1. "down" \in {"down", "up"} /\ ("down" = "up" => sort = "bottom_up")
    OBVIOUS
  <2>2. SortedFrom(work', sift.end)
    BY <1>1, <1>5
  <2> QED BY <1>1, <1>3, <1>7, <1>8, <1>9, <2>1, <2>2, GoesOn
<1>11. Sifting'
  <2>1. Sinking(work', sift'.start, sift'.end, sift'.root)
    BY <1>1, <1>5, <1>9
  <2>2. sift'.at = "down" /\ sort' = "standard"
    BY <1>1, <1>9
  <2> QED BY <2>1, <2>2 DEF Sifting, Down
<1> QED BY <1>10, <1>11 DEF SortInv

LEMMA BottomUpDescendKeeps ==
  ASSUME SortInv, BottomUpDescend PROVE SortInv'
<1>1. /\ ~Returned /\ Down("bottom_up") /\ sort = "bottom_up" /\ sift.at = "down" /\ Left < sift.end
      /\ work' = [work EXCEPT ![sift.root] = work[Child]] /\ sift' = [sift EXCEPT !.root = Child]
      /\ UNCHANGED <<base, sort, phase, loop>>
  BY DEF BottomUpDescend, Down, Returned
<1>2. /\ work \in [Index -> Index] /\ sift.end \in 1 .. n /\ sift.start \in Nat
      /\ sift.root \in sift.start .. sift.end - 1 /\ sift.root \in 0 .. sift.end - 1
      /\ SortedFrom(work, sift.end)
  BY <1>1, InCall
<1>3. /\ Child \in 1 .. sift.end - 1 /\ Child \in sift.start .. sift.end - 1
      /\ Up(Child) = sift.root
      /\ \A i \in 1 .. sift.end - 1 : Up(i) = sift.root => work[Child] >= work[i]
  BY <1>1, ChildIs
<1>4. Falling(work, sift.start, sift.end, sift.root)
  BY <1>1 DEF SortInv, Sifting
<1>5. /\ Falling(work', sift.start, sift.end, Child)
      /\ SortedFrom(work', sift.end) /\ work' \in [Index -> Index]
  BY <1>1, <1>2, <1>3, <1>4, FallRound
<1>9. sift' = [at |-> "down", start |-> sift.start, end |-> sift.end, root |-> Child,
               value |-> sift.value]
  <2>1. sift = [at |-> sift.at, start |-> sift.start, end |-> sift.end, root |-> sift.root,
                value |-> sift.value]
    BY DEF SortInv, SortTyped
  <2> QED BY <1>1, <2>1
<1>10. SortTyped' /\ AtRest' /\ Called'
  <2>1. "down" \in {"down", "up"} /\ ("down" = "up" => sort = "bottom_up")
        /\ (sort = "standard" => work' \in Shuffles)
    BY <1>1
  <2> QED BY <1>1, <1>3, <1>5, <1>9, <2>1, GoesOn
<1>11. Sifting'
  <2>1. Falling(work', sift'.start, sift'.end, sift'.root)
    BY <1>5, <1>9
  <2>2. sift'.at = "down" /\ sort' = "bottom_up"
    BY <1>1, <1>9
  <2>3. PICK D \in SUBSET Index : ClosedUpwards(D, sift.start) /\ sift.root \in D
    BY <1>1 DEF SortInv, Sifting
  <2>4. Child \in Index /\ Child >= sift.start
    <3>1. Child \in 0 .. sift.end - 1
      BY <1>3
    <3>2. Child \in Index
      BY <1>2, <3>1, Within
    <3> QED BY <1>3, <3>2
  <2>5. ClosedUpwards(D \cup {Child}, sift.start) /\ D \cup {Child} \in SUBSET Index
    BY <1>3, <2>3, <2>4 DEF ClosedUpwards
  <2>6. \E E \in SUBSET Index : ClosedUpwards(E, sift'.start) /\ sift'.root \in E
    BY <1>9, <2>5
  <2> QED BY <2>1, <2>2, <2>6 DEF Sifting, Down
<1> QED BY <1>10, <1>11 DEF SortInv

LEMMA BottomUpLeafKeeps ==
  ASSUME SortInv, BottomUpLeaf PROVE SortInv'
<1>1. /\ ~Returned /\ Down("bottom_up") /\ sort = "bottom_up" /\ sift.at = "down" /\ Left >= sift.end
      /\ sift' = [sift EXCEPT !.at = "up", !.value = work[sift.start]]
      /\ UNCHANGED <<base, work, sort, phase, loop>>
  BY DEF BottomUpLeaf, Down, Returned
<1>2. /\ work \in [Index -> Index] /\ sift.end \in 1 .. n /\ sift.start \in Nat
      /\ sift.root \in sift.start .. sift.end - 1 /\ sift.root \in 0 .. sift.end - 1
      /\ SortedFrom(work, sift.end)
  BY <1>1, InCall
<1>3. ~(Left < sift.end)
  BY <1>1, <1>2, LengthAssumption DEF Left
<1>4. Falling(work, sift.start, sift.end, sift.root)
  BY <1>1 DEF SortInv, Sifting
<1>5. \A i \in 1 .. sift.end - 1 : Up(i) # sift.root
  BY <1>1, <1>3, LeafIs
<1>6. Climbing(work, sift.start, sift.end, sift.root, work[sift.start])
  BY <1>2, <1>4, <1>5, FallStops
<1>9. sift' = [at |-> "up", start |-> sift.start, end |-> sift.end, root |-> sift.root,
               value |-> work[sift.start]]
  <2>1. sift = [at |-> sift.at, start |-> sift.start, end |-> sift.end, root |-> sift.root,
                value |-> sift.value]
    BY DEF SortInv, SortTyped
  <2> QED BY <1>1, <2>1
<1>10. SortTyped' /\ AtRest' /\ Called'
  <2>1. "up" \in {"down", "up"} /\ ("up" = "up" => sort = "bottom_up")
        /\ (sort = "standard" => work' \in Shuffles) /\ work' \in [Index -> Index]
        /\ SortedFrom(work', sift.end)
    BY <1>1, <1>2
  <2> QED BY <1>1, <1>2, <1>9, <2>1, GoesOn
<1>11. Sifting'
  <2>1. Climbing(work', sift'.start, sift'.end, sift'.root, sift'.value)
    BY <1>1, <1>6, <1>9
  <2>2. sift'.at = "up" /\ sort' = "bottom_up"
    BY <1>1, <1>9
  <2>3. \E D \in SUBSET Index : ClosedUpwards(D, sift.start) /\ sift.root \in D
    BY <1>1 DEF SortInv, Sifting
  <2>4. \E D \in SUBSET Index : ClosedUpwards(D, sift'.start) /\ sift'.root \in D
    BY <1>9, <2>3
  <2> QED BY <2>1, <2>2, <2>4 DEF Sifting, Down
<1> QED BY <1>10, <1>11 DEF SortInv

(* On the way up: the parent is still at or below start. *)
LEMMA ParentIs ==
  ASSUME SortInv, sift.at = "up", sift.root # sift.start
  PROVE  /\ Parent = Up(sift.root) /\ Up(sift.root) \in sift.start .. sift.end - 1
         /\ Up(sift.root) \in 0 .. sift.end - 1 /\ sift.root > sift.start
         /\ work[Up(sift.root)] >= work[sift.root]
<1>1. /\ ~Returned /\ sort = "bottom_up"
      /\ Climbing(work, sift.start, sift.end, sift.root, sift.value)
  BY DEF SortInv, SortTyped, Sifting, Returned
<1>2. PICK D \in SUBSET Index : ClosedUpwards(D, sift.start) /\ sift.root \in D
  BY <1>1 DEF SortInv, Sifting
<1>3. /\ sift.end \in Nat /\ sift.start \in Nat /\ sift.root \in sift.start .. sift.end - 1
  <2>1. sift.end \in 1 .. n /\ n \in Nat /\ sift.start \in Nat
        /\ sift.root \in sift.start .. sift.end - 1
    BY <1>1, InCall, LengthAssumption
  <2> QED BY <2>1
<1>4. Up(sift.root) \in D /\ Up(sift.root) >= sift.start
  BY <1>2 DEF ClosedUpwards
<1>5. sift.root \in Nat \ {0}
  BY <1>3
<1>6. Up(sift.root) \in Nat /\ Up(sift.root) < sift.root
  BY <1>5, UpIs
<1>7. sift.root \in 1 .. sift.end - 1
  BY <1>3, <1>5
<1>8. work[Up(sift.root)] >= work[sift.root]
  BY <1>1, <1>4, <1>7 DEF Climbing, Edges, Edge
<1>9. Parent = Up(sift.root)
  BY DEF Parent, Up
<1> HIDE DEF Up
<1> QED BY <1>3, <1>4, <1>6, <1>8, <1>9

LEMMA BottomUpClimbKeeps ==
  ASSUME SortInv, BottomUpClimb PROVE SortInv'
<1>1. /\ ~Returned /\ sift.at = "up" /\ sift.root > sift.start /\ work[Parent] < sift.value
      /\ work' = [work EXCEPT ![sift.root] = work[Parent]] /\ sift' = [sift EXCEPT !.root = Parent]
      /\ UNCHANGED <<base, sort, phase, loop>>
  BY DEF BottomUpClimb, Returned
<1>2. /\ work \in [Index -> Index] /\ sift.end \in 1 .. n /\ sift.start \in Nat
      /\ sift.root \in sift.start .. sift.end - 1 /\ sift.root \in 0 .. sift.end - 1
      /\ SortedFrom(work, sift.end) /\ sift.start \in 0 .. sift.end - 1
  BY <1>1, InCall
<1>3. /\ sort = "bottom_up" /\ Climbing(work, sift.start, sift.end, sift.root, sift.value)
      /\ \E D \in SUBSET Index : ClosedUpwards(D, sift.start) /\ sift.root \in D
  BY <1>1 DEF SortInv, SortTyped, Sifting
<1>4. sift.root # sift.start
  BY <1>1, <1>2, LengthAssumption
<1>5. /\ Parent = Up(sift.root) /\ Up(sift.root) \in sift.start .. sift.end - 1
      /\ Up(sift.root) \in 0 .. sift.end - 1
      /\ work[Up(sift.root)] >= work[sift.root]
  BY <1>1, <1>4, ParentIs
<1>6. \A i \in 0 .. sift.end - 1 : i \in Index /\ work[i] \in Int
  BY <1>2, Within
<1>7. /\ work[sift.root] <= work[Up(sift.root)] /\ work[Up(sift.root)] <= work[Up(sift.root)]
      /\ Up(sift.root) >= sift.start
  <2>1. work[sift.root] \in Int /\ work[Up(sift.root)] \in Int
    BY <1>2, <1>5, <1>6
  <2> QED BY <1>5, <2>1
<1>8. /\ Edges(work', sift.start, sift.end) /\ work'[sift.start] = work[sift.start]
      /\ SortedFrom(work', sift.end) /\ work' \in [Index -> Index]
  <2>1. PICK m \in 0 .. sift.end - 1 : m = Up(sift.root)
    BY <1>5
  <2>2. work' = [work EXCEPT ![sift.root] = work[m]]
    BY <1>1, <1>5, <2>1
  <2>3. work[sift.root] <= work[m]
    BY <1>7, <2>1
  <2>4. sift.root # sift.start => Up(sift.root) >= sift.start /\ work[m] <= work[Up(sift.root)]
    BY <1>7, <2>1
  <2>5. sift.root = sift.start => work[m] = work[sift.start]
    BY <1>4
  <2>6. /\ Edges(work', sift.start, sift.end) /\ SortedFrom(work', sift.end)
        /\ work' \in [Index -> Index]
    BY <1>2, <1>3, <2>2, <2>3, <2>4, <2>5, ClimbRound
  <2>7. sift.start \in Index /\ sift.root \in Index
    BY <1>2, <1>6
  <2>8. work'[sift.start] = work[sift.start]
    BY <1>2, <1>4, <2>2, <2>7
  <2> QED BY <2>6, <2>8
<1>9. sift' = [at |-> "up", start |-> sift.start, end |-> sift.end, root |-> Up(sift.root),
               value |-> sift.value]
  <2>1. sift = [at |-> sift.at, start |-> sift.start, end |-> sift.end, root |-> sift.root,
                value |-> sift.value]
    BY DEF SortInv, SortTyped
  <2> QED BY <1>1, <1>5, <2>1
<1>10. SortTyped' /\ AtRest' /\ Called'
  <2>1. "up" \in {"down", "up"} /\ ("up" = "up" => sort = "bottom_up")
        /\ (sort = "standard" => work' \in Shuffles)
    BY <1>3
  <2> QED BY <1>1, <1>5, <1>8, <1>9, <2>1, GoesOn
<1>11. Sifting'
  <2>1. Climbing(work', sift'.start, sift'.end, sift'.root, sift'.value)
    <3>1. sift.value = work[sift.start] /\ work[sift.start] \in Int /\ work[Up(sift.root)] \in Int
      BY <1>2, <1>3, <1>5, <1>6 DEF Climbing
    <3>2. work'[Up(sift.root)] = work[Up(sift.root)]
      <4>1. Up(sift.root) # sift.root /\ Up(sift.root) \in Index
        <5>1. sift.root \in Nat \ {0}
          BY <1>2, <1>4, LengthAssumption
        <5>2. Up(sift.root) \in Nat /\ Up(sift.root) < sift.root
          BY <5>1, UpIs
        <5>3. Up(sift.root) \in Index
          BY <1>5, <1>6
        <5> QED BY <5>1, <5>2, <5>3
      <4> QED BY <1>1, <1>2, <4>1
    <3>3. work'[Up(sift.root)] <= sift.value
      BY <1>1, <1>5, <3>1, <3>2
    <3> QED BY <1>8, <1>9, <3>1, <3>3 DEF Climbing
  <2>2. sift'.at = "up" /\ sort' = "bottom_up"
    BY <1>1, <1>3, <1>9
  <2>3. PICK D \in SUBSET Index : ClosedUpwards(D, sift.start) /\ sift.root \in D
    BY <1>3
  <2>4. Up(sift.root) \in D
    BY <1>4, <2>3 DEF ClosedUpwards
  <2>5. \E E \in SUBSET Index : ClosedUpwards(E, sift'.start) /\ sift'.root \in E
    BY <1>9, <2>3, <2>4
  <2> QED BY <2>1, <2>2, <2>5 DEF Sifting, Down
<1> QED BY <1>10, <1>11 DEF SortInv

LEMMA BottomUpPlaceKeeps ==
  ASSUME SortInv, BottomUpPlace PROVE SortInv'
<1>1. /\ ~Returned /\ sift.at = "up" /\ ~(sift.root > sift.start /\ work[Parent] < sift.value)
      /\ work' = [work EXCEPT ![sift.root] = sift.value] /\ sift' = NoSift
      /\ UNCHANGED <<base, sort, phase, loop>>
  BY DEF BottomUpPlace, Returned
<1>2. /\ work \in [Index -> Index] /\ sift.end \in 1 .. n /\ sift.start \in Nat
      /\ sift.root \in sift.start .. sift.end - 1 /\ sift.root \in 0 .. sift.end - 1
      /\ SortedFrom(work, sift.end) /\ sift.start \in 0 .. sift.end - 1
  BY <1>1, InCall
<1>3. sort = "bottom_up" /\ Climbing(work, sift.start, sift.end, sift.root, sift.value)
  BY <1>1 DEF SortInv, SortTyped, Sifting
<1>4. sift.value = work[sift.start] /\ work[sift.root] <= work[sift.start]
  BY <1>3 DEF Climbing
<1>5. \A i \in 0 .. sift.end - 1 : i \in Index /\ work[i] \in Int
  BY <1>2, Within
<1>6. sift.root # sift.start => Up(sift.root) >= sift.start /\ work[sift.start] <= work[Up(sift.root)]
  <2>1. HAVE sift.root # sift.start
  <2>2. /\ Parent = Up(sift.root) /\ Up(sift.root) \in sift.start .. sift.end - 1
        /\ Up(sift.root) \in 0 .. sift.end - 1 /\ sift.root > sift.start
    BY <1>1, <2>1, ParentIs
  <2>3. work[sift.start] \in Int /\ work[Up(sift.root)] \in Int
    BY <1>2, <1>5, <2>2
  <2> QED BY <1>1, <1>4, <2>2, <2>3
<1>7. /\ Edges(work', sift.start, sift.end)
      /\ SortedFrom(work', sift.end) /\ work' \in [Index -> Index]
  <2>1. work' = [work EXCEPT ![sift.root] = work[sift.start]]
    BY <1>1, <1>4
  <2>2. sift.root = sift.start => work[sift.start] = work[sift.start]
    OBVIOUS
  <2> QED BY <1>2, <1>3, <1>4, <1>6, <2>1, <2>2, ClimbRound
<1>8. sort = "standard" => work' \in Shuffles
  BY <1>3
<1> QED BY <1>1, <1>7, <1>8, Returns

----------------------------------------------------------------------------
(* The invariant, and what follows from it.                                *)

LEMMA SortInductive == SortInit => SortInv
<1> SUFFICES ASSUME SortInit PROVE SortInv
  OBVIOUS
<1> QED BY Fresh DEF SortInit

LEMMA NextKeeps ==
  ASSUME SortInv, [SortNext]_sortVars PROVE SortInv'
<1>1. CASE Heapify
  BY <1>1, HeapifyKeeps
<1>2. CASE Heapified
  BY <1>2, HeapifiedKeeps
<1>3. CASE Extract
  BY <1>3, ExtractKeeps
<1>4. CASE Check
  BY <1>4, CheckKeeps
<1>5. CASE StandardStop
  BY <1>5, StandardStopKeeps
<1>6. CASE StandardSwap
  BY <1>6, StandardSwapKeeps
<1>7. CASE BottomUpDescend
  BY <1>7, BottomUpDescendKeeps
<1>8. CASE BottomUpLeaf
  BY <1>8, BottomUpLeafKeeps
<1>9. CASE BottomUpClimb
  BY <1>9, BottomUpClimbKeeps
<1>10. CASE BottomUpPlace
  BY <1>10, BottomUpPlaceKeeps
<1>11. CASE UNCHANGED sortVars
  BY <1>11 DEF sortVars, SortInv, SortTyped, AtRest, Called, Sifting, Sorting, Returned, Down
<1> QED BY <1>1, <1>2, <1>3, <1>4, <1>5, <1>6, <1>7, <1>8, <1>9, <1>10, <1>11 DEF SortNext

LEMMA AlwaysSorts == SortSpec => []SortInv
BY SortInductive, NextKeeps, PTL DEF SortSpec

(* A permutation has each element once. *)
LEMMA OnceEach ==
  ASSUME NEW a \in Shuffles, NEW v \in Index
  PROVE  Count(a, v) = 1
<1>1. IsFiniteSet(Index) /\ a \in [Index -> Index]
  <2>1. 0 \in Int /\ n - 1 \in Int
    BY LengthAssumption
  <2> QED BY <2>1, FS_Interval DEF Index, Shuffles
<1>2. a \in Injection(Index, Index)
  BY <1>1 DEF Shuffles, Injection, IsInjective
<1>3. a \in Surjection(Index, Index)
  BY <1>1, <1>2, FS_Injection
<1>4. PICK i \in Index : a[i] = v
  BY <1>3 DEF Surjection
<1>5. {j \in Index : a[j] = v} = {i}
  BY <1>4 DEF Shuffles
<1> QED BY <1>5, FS_Singleton DEF Count

(* The loop invariants of both sorts (ch_sort_trace.c, the loops of           *)
(* heapsort_standard and heapsort_bottom_up): between two calls of sift_down  *)
(* the heap is a heap and the tail is in order and not less than the heap.    *)
THEOREM HeapIsKept == SortSpec => []HeapOrder
<1>1. ASSUME SortInv PROVE HeapOrder
  <2>1. n \in Nat /\ work \in [Index -> Index] /\ phase \in {"heapify", "extract"}
    BY <1>1, LengthAssumption DEF SortInv, SortTyped
  <2>2. CASE Sorting /\ Returned /\ phase = "heapify"
    <3>1. Edges(work, loop, n) /\ SortedFrom(work, n)
      BY <1>1, <2>1, <2>2, SortEnds DEF SortInv, AtRest
    <3> QED BY <2>2, <3>1 DEF HeapOrder, Edges, SortedFrom, Edge, Up
  <2>3. CASE Sorting /\ Returned /\ phase = "extract"
    <3>1. Edges(work, 0, loop) /\ SortedFrom(work, loop)
      BY <1>1, <2>3 DEF SortInv, AtRest
    <3> QED BY <2>3, <3>1 DEF HeapOrder, Edges, SortedFrom, Edge, Up
  <2> QED BY <2>1, <2>2, <2>3 DEF HeapOrder
<1> QED BY <1>1, AlwaysSorts, PTL

(* bench_one's two die() calls, for every array: both sorts return the array  *)
(* in order, and heapsort_standard has lost and duplicated no element.        *)
THEOREM BothSort == SortSpec => []SortsRight
<1>1. ASSUME SortInv PROVE SortsRight
  <2>1. sort # "failed" /\ base \in Shuffles /\ (sort = "standard" => work \in Shuffles)
    BY <1>1 DEF SortInv, SortTyped
  <2>2. ASSUME sort = "standard" PROVE SameElements(work, base)
    BY <2>1, <2>2, OnceEach DEF SameElements
  <2> QED BY <2>1, <2>2 DEF SortsRight
<1> QED BY <1>1, AlwaysSorts, PTL
=============================================================================
