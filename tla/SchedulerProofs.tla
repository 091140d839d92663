--------------------------- MODULE SchedulerProofs ---------------------------
(***************************************************************************)
(* The scheduler, for every NODE_COUNT and both modes: its types, and in   *)
(* safe mode the exclusion of the handler from the critical section, the   *)
(* well-formedness of the run queue and the refinement of RunQueue.  IInv  *)
(* (Scheduler.tla) is the inductive invariant: where each side may be      *)
(* (ControlInv), and what the list is or will be when the call in progress *)
(* returns (ListInv).  The refinement also needs what a walk of the list   *)
(* meets in the middle of a call: WalkInv (SchedulerRefinement.tla).  What *)
(* is counted, across the wraps of both counters, is FlipInv.              *)
(***************************************************************************)
EXTENDS SchedulerRefinement, Facts, FiniteSetTheorems

----------------------------------------------------------------------------
(* What the list functions do: each statement keeps the pointers in range, *)
(* and each function, executed without interference, adds or removes one   *)
(* node of a well-formed list.                                             *)

(* The statements of the list functions, on any list. *)
LEMMA FrontStatements ==
  ASSUME NEW q, NEW n
  PROVE  /\ Statement("list_add_front", 1, q, n) = [q EXCEPT !.prev[n] = Null]
         /\ Statement("list_add_front", 2, q, n) = [q EXCEPT !.next[n] = q.head]
         /\ Statement("list_add_front", 3, q, n) = IF q.head # Null THEN [q EXCEPT !.prev[q.head] = n] ELSE [q EXCEPT !.tail = n]
         /\ \A k \in 4 .. 6 : Statement("list_add_front", k, q, n) = [q EXCEPT !.head = n]
<1>1. \A k : Statement("list_add_front", k, q, n) = list_add_front(k, q, n)
  BY Zenon DEF Statement
<1>2. list_add_front(1, q, n) = [q EXCEPT !.prev[n] = Null]
  BY DEF list_add_front, SetPrev, SetNext
<1>3. list_add_front(2, q, n) = [q EXCEPT !.next[n] = q.head]
  BY DEF list_add_front, SetPrev, SetNext
<1>4. list_add_front(3, q, n) = IF q.head # Null THEN [q EXCEPT !.prev[q.head] = n] ELSE [q EXCEPT !.tail = n]
  BY DEF list_add_front, SetPrev, SetNext
<1>5. ASSUME NEW k \in 4 .. 6 PROVE list_add_front(k, q, n) = [q EXCEPT !.head = n]
  BY DEF list_add_front, SetPrev, SetNext
<1> QED BY <1>1, <1>2, <1>3, <1>4, <1>5, Zenon

LEMMA BackStatements ==
  ASSUME NEW q, NEW n
  PROVE  /\ Statement("list_add_back", 1, q, n) = [q EXCEPT !.next[n] = Null]
         /\ Statement("list_add_back", 2, q, n) = [q EXCEPT !.prev[n] = q.tail]
         /\ Statement("list_add_back", 3, q, n) = IF q.tail # Null THEN [q EXCEPT !.next[q.tail] = n] ELSE [q EXCEPT !.head = n]
         /\ \A k \in 4 .. 6 : Statement("list_add_back", k, q, n) = [q EXCEPT !.tail = n]
<1>1. \A k : Statement("list_add_back", k, q, n) = list_add_back(k, q, n)
  BY Zenon DEF Statement
<1>2. list_add_back(1, q, n) = [q EXCEPT !.next[n] = Null]
  BY DEF list_add_back, SetPrev, SetNext
<1>3. list_add_back(2, q, n) = [q EXCEPT !.prev[n] = q.tail]
  BY DEF list_add_back, SetPrev, SetNext
<1>4. list_add_back(3, q, n) = IF q.tail # Null THEN [q EXCEPT !.next[q.tail] = n] ELSE [q EXCEPT !.head = n]
  BY DEF list_add_back, SetPrev, SetNext
<1>5. ASSUME NEW k \in 4 .. 6 PROVE list_add_back(k, q, n) = [q EXCEPT !.tail = n]
  BY DEF list_add_back, SetPrev, SetNext
<1> QED BY <1>1, <1>2, <1>3, <1>4, <1>5, Zenon

LEMMA RemoveStatements ==
  ASSUME NEW q, NEW n
  PROVE  /\ Statement("list_remove", 1, q, n) = IF q.prev[n] # Null THEN [q EXCEPT !.next[q.prev[n]] = q.next[n]]
              ELSE [q EXCEPT !.head = q.next[n]]
         /\ Statement("list_remove", 2, q, n) = IF q.next[n] # Null THEN [q EXCEPT !.prev[q.next[n]] = q.prev[n]]
              ELSE [q EXCEPT !.tail = q.prev[n]]
         /\ Statement("list_remove", 3, q, n) = [q EXCEPT !.prev[n] = Null]
         /\ \A k \in 4 .. 6 : Statement("list_remove", k, q, n) = [q EXCEPT !.next[n] = Null]
<1>1. \A k : Statement("list_remove", k, q, n) = list_remove(k, q, n)
  BY Zenon DEF Statement
<1>2. list_remove(1, q, n) = IF q.prev[n] # Null THEN [q EXCEPT !.next[q.prev[n]] = q.next[n]]
              ELSE [q EXCEPT !.head = q.next[n]]
  BY DEF list_remove, SetPrev, SetNext
<1>3. list_remove(2, q, n) = IF q.next[n] # Null THEN [q EXCEPT !.prev[q.next[n]] = q.prev[n]]
              ELSE [q EXCEPT !.tail = q.prev[n]]
  BY DEF list_remove, SetPrev, SetNext
<1>4. list_remove(3, q, n) = [q EXCEPT !.prev[n] = Null]
  BY DEF list_remove, SetPrev, SetNext
<1>5. ASSUME NEW k \in 4 .. 6 PROVE list_remove(k, q, n) = [q EXCEPT !.next[n] = Null]
  BY DEF list_remove, SetPrev, SetNext
<1> QED BY <1>1, <1>2, <1>3, <1>4, <1>5, Zenon

LEMMA UncheckedStatements ==
  ASSUME NEW q, NEW n
  PROVE  /\ Statement("list_remove_unchecked", 1, q, n) = [q EXCEPT !.next[q.prev[n]] = q.next[n]]
         /\ Statement("list_remove_unchecked", 2, q, n) = [q EXCEPT !.prev[q.next[n]] = q.prev[n]]
         /\ Statement("list_remove_unchecked", 3, q, n) = IF q.head = n THEN [q EXCEPT !.head = q.next[n]] ELSE q
         /\ Statement("list_remove_unchecked", 4, q, n) = IF q.tail = n THEN [q EXCEPT !.tail = q.prev[n]] ELSE q
         /\ Statement("list_remove_unchecked", 5, q, n) = [q EXCEPT !.prev[n] = Null]
         /\ \A k \in {6} : Statement("list_remove_unchecked", k, q, n) = [q EXCEPT !.next[n] = Null]
<1>1. \A k : Statement("list_remove_unchecked", k, q, n) = list_remove_unchecked(k, q, n)
  BY Zenon DEF Statement
<1>2. list_remove_unchecked(1, q, n) = [q EXCEPT !.next[q.prev[n]] = q.next[n]]
  BY DEF list_remove_unchecked, SetPrev, SetNext
<1>3. list_remove_unchecked(2, q, n) = [q EXCEPT !.prev[q.next[n]] = q.prev[n]]
  BY DEF list_remove_unchecked, SetPrev, SetNext
<1>4. list_remove_unchecked(3, q, n) = IF q.head = n THEN [q EXCEPT !.head = q.next[n]] ELSE q
  BY DEF list_remove_unchecked, SetPrev, SetNext
<1>5. list_remove_unchecked(4, q, n) = IF q.tail = n THEN [q EXCEPT !.tail = q.prev[n]] ELSE q
  BY DEF list_remove_unchecked, SetPrev, SetNext
<1>6. list_remove_unchecked(5, q, n) = [q EXCEPT !.prev[n] = Null]
  BY DEF list_remove_unchecked, SetPrev, SetNext
<1>7. ASSUME NEW k \in {6} PROVE list_remove_unchecked(k, q, n) = [q EXCEPT !.next[n] = Null]
  BY DEF list_remove_unchecked, SetPrev, SetNext
<1> QED BY <1>1, <1>2, <1>3, <1>4, <1>5, <1>6, <1>7, Zenon

(* Every statement that does not dereference NULL leaves a list_t whose    *)
(* pointers are NULL or nodes.                                             *)
LEMMA StatementType ==
  ASSUME NEW f \in Functions, NEW k \in 1 .. 6, NEW q \in List, NEW n \in Nodes,
         ~DerefsNull(f, k, q, n)
  PROVE  Statement(f, k, q, n) \in List
<1>1. SetPrev(q, n, Null) \in List /\ SetNext(q, n, Null) \in List
  BY DEF SetPrev, SetNext, List, Link
<1>2. /\ SetNext(q, n, q.head) \in List /\ SetPrev(q, n, q.tail) \in List
      /\ \A h \in Nodes : /\ SetPrev(q, h, n) \in List
                          /\ SetNext(q, h, n) \in List
                          /\ SetNext(q, h, q.next[n]) \in List
                          /\ SetPrev(q, h, q.prev[n]) \in List
  BY DEF SetPrev, SetNext, List, Link
<1>3. /\ [q EXCEPT !.tail = n] \in List /\ [q EXCEPT !.head = n] \in List
      /\ [q EXCEPT !.head = q.next[n]] \in List /\ [q EXCEPT !.tail = q.prev[n]] \in List
  BY DEF List, Link
<1>4. /\ q.head \in Link /\ q.tail \in Link /\ q.prev[n] \in Link /\ q.next[n] \in Link
      /\ \A m \in Link : m # Null => m \in Nodes
  BY DEF List, Link
<1>5. CASE f = "list_add_front"
  <2>1. Statement(f, k, q, n) = list_add_front(k, q, n)
    BY <1>5, Zenon DEF Statement
  <2> QED BY <1>1, <1>2, <1>3, <1>4, <2>1 DEF list_add_front
<1>6. CASE f = "list_add_back"
  <2>1. Statement(f, k, q, n) = list_add_back(k, q, n)
    BY <1>6, Zenon DEF Statement
  <2> QED BY <1>1, <1>2, <1>3, <1>4, <2>1 DEF list_add_back
<1>7. CASE f = "list_remove"
  <2>1. Statement(f, k, q, n) = list_remove(k, q, n)
    BY <1>7, Zenon DEF Statement
  <2> QED BY <1>1, <1>2, <1>3, <1>4, <2>1 DEF list_remove
<1>8. CASE f = "list_remove_unchecked"
  <2>1. k = 1 => q.prev[n] \in Nodes
    BY <1>4, <1>8 DEF DerefsNull
  <2>2. k = 2 => q.next[n] \in Nodes
    BY <1>4, <1>8 DEF DerefsNull
  <2>3. Statement(f, k, q, n) = list_remove_unchecked(k, q, n)
    BY <1>8, Zenon DEF Statement
  <2> QED BY <1>1, <1>2, <1>3, <1>4, <2>1, <2>2, <2>3 DEF list_remove_unchecked
<1>9. QED
  BY <1>5, <1>6, <1>7, <1>8 DEF Functions

(* The remaining statements of a call are the next one and those after it. *)
LEMMA RestStep ==
  ASSUME NEW f, NEW k \in 1 .. 3, NEW q, NEW n
  PROVE  Rest(f, k, q, n) = Rest(f, k + 1, Statement(f, k, q, n), n)
<1>1. CASE k = 1
  BY <1>1 DEF Rest
<1>2. CASE k = 2
  BY <1>2 DEF Rest
<1>3. CASE k = 3
  BY <1>3 DEF Rest
<1>4. QED
  BY <1>1, <1>2, <1>3

(* At its last statement, the rest of a call is that statement. *)
LEMMA RestLast ==
  ASSUME NEW f, NEW q, NEW n
  PROVE  Rest(f, 4, q, n) = Statement(f, 4, q, n)
BY DEF Rest

----------------------------------------------------------------------------
(* list_add_front puts one more node before the queued ones. *)
LEMMA AddFrontWhole ==
  ASSUME NEW q \in List, NEW S \in SUBSET Nodes, NEW L \in Nat, NEW n \in Nodes \ S,
         Queued(q, S, L)
  PROVE  Queued(Rest("list_add_front", 1, q, n), S \cup {n}, L + 1)
<1> DEFINE r == Rest("list_add_front", 1, q, n)
<1>1. PICK s \in [1 .. L -> S] :
        /\ \A i, j \in 1 .. L : s[i] = s[j] => i = j
        /\ \A m \in S : \E i \in 1 .. L : s[i] = m
        /\ Represents(q, s, L)
  BY DEF Queued
<1> DEFINE t == [i \in 1 .. L + 1 |-> IF i = 1 THEN n ELSE s[i - 1]]
<1>2. /\ q.head \in Link /\ q.tail \in Link
      /\ q.prev \in [Nodes -> Link] /\ q.next \in [Nodes -> Link]
      /\ q.head # Null => q.head \in Nodes
      /\ Null \notin Nodes
  BY DEF List, Link, Null, Nodes
<1>3. q.head = (IF L = 0 THEN Null ELSE s[1]) /\ q.tail = (IF L = 0 THEN Null ELSE s[L])
  BY <1>1 DEF Represents
<1>4. q.head # Null <=> L > 0
  BY <1>1, <1>2, <1>3
<1>5. /\ r.head = n
      /\ r.tail = IF L = 0 THEN n ELSE q.tail
      /\ r.next = [q.next EXCEPT ![n] = q.head]
      /\ r.prev = IF L = 0 THEN [q.prev EXCEPT ![n] = Null]
                  ELSE [[q.prev EXCEPT ![n] = Null] EXCEPT ![q.head] = n]
  <2> DEFINE q1 == Statement("list_add_front", 1, q, n)
             q2 == Statement("list_add_front", 2, q1, n)
             q3 == Statement("list_add_front", 3, q2, n)
  <2>1. r = Statement("list_add_front", 4, q3, n)
    BY DEF Rest
  <2>2. q1 = [q EXCEPT !.prev[n] = Null]
    BY FrontStatements
  <2>3. q2 = [q1 EXCEPT !.next[n] = q1.head]
    BY FrontStatements
  <2>4. q3 = IF q2.head # Null THEN [q2 EXCEPT !.prev[q2.head] = n] ELSE [q2 EXCEPT !.tail = n]
    BY FrontStatements
  <2> HIDE DEF r, q1, q2, q3
  <2>5. r = [q3 EXCEPT !.head = n]
    BY <2>1, FrontStatements
  <2>6. q2.head = q.head /\ q2.tail = q.tail /\ q2.prev = [q.prev EXCEPT ![n] = Null]
        /\ q2.next = [q.next EXCEPT ![n] = q.head] /\ q2 \in List
    BY <2>2, <2>3 DEF List, Link
  <2>7. QED
    BY <1>4, <2>4, <2>5, <2>6 DEF List
<1>6. t \in [1 .. L + 1 -> S \cup {n}]
  OBVIOUS
<1>7. \A i, j \in 1 .. L + 1 : t[i] = t[j] => i = j
  BY <1>1
<1>8. \A m \in S \cup {n} : \E i \in 1 .. L + 1 : t[i] = m
  <2>1. t[1] = n /\ 1 \in 1 .. L + 1
    OBVIOUS
  <2>2. ASSUME NEW m \in S PROVE \E i \in 1 .. L + 1 : t[i] = m
    <3>1. PICK i \in 1 .. L : s[i] = m
      BY <1>1
    <3>2. i + 1 \in 1 .. L + 1 /\ t[i + 1] = m
      BY <3>1
    <3>3. QED
      BY <3>2
  <2>3. QED
    BY <2>1, <2>2
<1>9. Represents(r, t, L + 1)
  <2>1. r.head = t[1]
    BY <1>5
  <2>2. r.tail = t[L + 1]
    BY <1>3, <1>5
  <2>3. r.prev[n] = Null /\ r.next[n] = IF L = 0 THEN Null ELSE s[1]
    BY <1>1, <1>2, <1>3, <1>5
  <2>4. ASSUME NEW j \in 1 .. L
        PROVE  /\ r.prev[s[j]] = IF j = 1 THEN n ELSE s[j - 1]
               /\ r.next[s[j]] = IF j = L THEN Null ELSE s[j + 1]
    <3>1. s[j] \in Nodes /\ s[j] # n /\ L # 0 /\ 1 \in 1 .. L
      OBVIOUS
    <3>2. /\ q.prev[s[j]] = IF j = 1 THEN Null ELSE s[j - 1]
          /\ q.next[s[j]] = IF j = L THEN Null ELSE s[j + 1]
      BY <1>1 DEF Represents
    <3>3. s[j] = q.head <=> j = 1
      BY <1>1, <1>3, <3>1
    <3>4. QED
      BY <1>2, <1>3, <1>5, <3>1, <3>2, <3>3
  <2>5. ASSUME NEW i \in 1 .. L + 1
        PROVE  /\ r.prev[t[i]] = IF i = 1 THEN Null ELSE t[i - 1]
               /\ r.next[t[i]] = IF i = L + 1 THEN Null ELSE t[i + 1]
    <3>1. CASE i = 1
      BY <2>3, <3>1
    <3>2. CASE i # 1
      <4> DEFINE j == i - 1
      <4>1. j \in 1 .. L /\ i = j + 1
        BY <3>2
      <4>2. /\ t[i] = s[j]
            /\ t[i - 1] = IF j = 1 THEN n ELSE s[j - 1]
            /\ i # L + 1 => t[i + 1] = s[j + 1]
        BY <3>2, <4>1
      <4>3. QED
        BY <2>4, <3>2, <4>1, <4>2
    <3>3. QED
      BY <3>1, <3>2
  <2>6. QED
    BY <2>1, <2>2, <2>5 DEF Represents
<1>10. QED
  BY <1>6, <1>7, <1>8, <1>9 DEF Queued

(* list_add_back puts one more node after the queued ones. *)
LEMMA AddBackWhole ==
  ASSUME NEW q \in List, NEW S \in SUBSET Nodes, NEW L \in Nat, NEW n \in Nodes \ S,
         Queued(q, S, L)
  PROVE  Queued(Rest("list_add_back", 1, q, n), S \cup {n}, L + 1)
<1> DEFINE r == Rest("list_add_back", 1, q, n)
<1>1. PICK s \in [1 .. L -> S] :
        /\ \A i, j \in 1 .. L : s[i] = s[j] => i = j
        /\ \A m \in S : \E i \in 1 .. L : s[i] = m
        /\ Represents(q, s, L)
  BY DEF Queued
<1> DEFINE t == [i \in 1 .. L + 1 |-> IF i = L + 1 THEN n ELSE s[i]]
<1>2. /\ q.head \in Link /\ q.tail \in Link
      /\ q.prev \in [Nodes -> Link] /\ q.next \in [Nodes -> Link]
      /\ q.tail # Null => q.tail \in Nodes
      /\ Null \notin Nodes
  BY DEF List, Link, Null, Nodes
<1>3. q.head = (IF L = 0 THEN Null ELSE s[1]) /\ q.tail = (IF L = 0 THEN Null ELSE s[L])
  BY <1>1 DEF Represents
<1>4. q.tail # Null <=> L > 0
  BY <1>1, <1>2, <1>3
<1>5. /\ r.tail = n
      /\ r.head = IF L = 0 THEN n ELSE q.head
      /\ r.prev = [q.prev EXCEPT ![n] = q.tail]
      /\ r.next = IF L = 0 THEN [q.next EXCEPT ![n] = Null]
                  ELSE [[q.next EXCEPT ![n] = Null] EXCEPT ![q.tail] = n]
  <2> DEFINE q1 == Statement("list_add_back", 1, q, n)
             q2 == Statement("list_add_back", 2, q1, n)
             q3 == Statement("list_add_back", 3, q2, n)
  <2>1. r = Statement("list_add_back", 4, q3, n)
    BY DEF Rest
  <2>2. q1 = [q EXCEPT !.next[n] = Null]
    BY BackStatements
  <2>3. q2 = [q1 EXCEPT !.prev[n] = q1.tail]
    BY BackStatements
  <2>4. q3 = IF q2.tail # Null THEN [q2 EXCEPT !.next[q2.tail] = n] ELSE [q2 EXCEPT !.head = n]
    BY BackStatements
  <2> HIDE DEF r, q1, q2, q3
  <2>5. r = [q3 EXCEPT !.tail = n]
    BY <2>1, BackStatements
  <2>6. q2.head = q.head /\ q2.tail = q.tail /\ q2.next = [q.next EXCEPT ![n] = Null]
        /\ q2.prev = [q.prev EXCEPT ![n] = q.tail] /\ q2 \in List
    BY <2>2, <2>3 DEF List, Link
  <2>7. QED
    BY <1>4, <2>4, <2>5, <2>6 DEF List
<1>6. t \in [1 .. L + 1 -> S \cup {n}]
  OBVIOUS
<1>7. \A i, j \in 1 .. L + 1 : t[i] = t[j] => i = j
  BY <1>1
<1>8. \A m \in S \cup {n} : \E i \in 1 .. L + 1 : t[i] = m
  <2>1. t[L + 1] = n /\ L + 1 \in 1 .. L + 1
    OBVIOUS
  <2>2. ASSUME NEW m \in S PROVE \E i \in 1 .. L + 1 : t[i] = m
    <3>1. PICK i \in 1 .. L : s[i] = m
      BY <1>1
    <3>2. i \in 1 .. L + 1 /\ t[i] = m
      BY <3>1
    <3>3. QED
      BY <3>2
  <2>3. QED
    BY <2>1, <2>2
<1>9. Represents(r, t, L + 1)
  <2>1. r.tail = t[L + 1]
    BY <1>5
  <2>2. r.head = t[1]
    BY <1>3, <1>5
  <2>3. r.next[n] = Null /\ r.prev[n] = IF L = 0 THEN Null ELSE s[L]
    BY <1>1, <1>2, <1>3, <1>5
  <2>4. ASSUME NEW j \in 1 .. L
        PROVE  /\ r.prev[s[j]] = IF j = 1 THEN Null ELSE s[j - 1]
               /\ r.next[s[j]] = IF j = L THEN n ELSE s[j + 1]
    <3>1. s[j] \in Nodes /\ s[j] # n /\ L # 0 /\ L \in 1 .. L
      OBVIOUS
    <3>2. /\ q.prev[s[j]] = IF j = 1 THEN Null ELSE s[j - 1]
          /\ q.next[s[j]] = IF j = L THEN Null ELSE s[j + 1]
      BY <1>1 DEF Represents
    <3>3. s[j] = q.tail <=> j = L
      BY <1>1, <1>3, <3>1
    <3>4. QED
      BY <1>2, <1>3, <1>5, <3>1, <3>2, <3>3
  <2>5. ASSUME NEW i \in 1 .. L + 1
        PROVE  /\ r.prev[t[i]] = IF i = 1 THEN Null ELSE t[i - 1]
               /\ r.next[t[i]] = IF i = L + 1 THEN Null ELSE t[i + 1]
    <3>1. CASE i = L + 1
      BY <2>3, <3>1
    <3>2. CASE i # L + 1
      <4>1. /\ i \in 1 .. L /\ t[i] = s[i]
            /\ i # 1 => t[i - 1] = s[i - 1]
            /\ t[i + 1] = IF i = L THEN n ELSE s[i + 1]
        BY <3>2
      <4>2. QED
        BY <2>4, <3>2, <4>1
    <3>3. QED
      BY <3>1, <3>2
  <2>6. QED
    BY <2>1, <2>2, <2>5 DEF Represents
<1>10. QED
  BY <1>6, <1>7, <1>8, <1>9 DEF Queued

(* list_remove takes its node out of the list, wherever it is queued. *)
LEMMA RemoveWhole ==
  ASSUME NEW q \in List, NEW S \in SUBSET Nodes, NEW L \in Nat, NEW n \in S,
         Queued(q, S, L)
  PROVE  Queued(Rest("list_remove", 1, q, n), S \ {n}, L - 1)
<1> DEFINE r == Rest("list_remove", 1, q, n)
<1>1. PICK s \in [1 .. L -> S] :
        /\ \A i, j \in 1 .. L : s[i] = s[j] => i = j
        /\ \A m \in S : \E i \in 1 .. L : s[i] = m
        /\ Represents(q, s, L)
  BY DEF Queued
<1>2. PICK p \in 1 .. L : s[p] = n
  BY <1>1
<1> DEFINE t == [i \in 1 .. L - 1 |-> IF i < p THEN s[i] ELSE s[i + 1]]
<1>3. /\ q.head \in Link /\ q.tail \in Link
      /\ q.prev \in [Nodes -> Link] /\ q.next \in [Nodes -> Link]
      /\ Null \notin Nodes /\ n \in Nodes
  BY DEF List, Link, Null, Nodes
<1>4. /\ q.head = s[1] /\ q.tail = s[L]
      /\ q.prev[n] = IF p = 1 THEN Null ELSE s[p - 1]
      /\ q.next[n] = IF p = L THEN Null ELSE s[p + 1]
  BY <1>1, <1>2 DEF Represents
<1>5. /\ q.prev[n] # Null <=> p # 1
      /\ q.next[n] # Null <=> p # L
      /\ q.prev[n] # n /\ q.next[n] # n
      /\ p # 1 => q.prev[n] \in Nodes
      /\ p # L => q.next[n] \in Nodes
  <2>1. p # 1 => p - 1 \in 1 .. L /\ s[p - 1] \in Nodes /\ s[p - 1] # s[p]
    BY <1>1
  <2>2. p # L => p + 1 \in 1 .. L /\ s[p + 1] \in Nodes /\ s[p + 1] # s[p]
    BY <1>1
  <2>3. QED
    BY <1>2, <1>3, <1>4, <2>1, <2>2
<1>6. /\ r.head = IF p = 1 THEN q.next[n] ELSE q.head
      /\ r.tail = IF p = L THEN q.prev[n] ELSE q.tail
      /\ \A m \in Nodes \ {n} :
           /\ r.next[m] = IF m = q.prev[n] THEN q.next[n] ELSE q.next[m]
           /\ r.prev[m] = IF m = q.next[n] THEN q.prev[n] ELSE q.prev[m]
  <2> DEFINE q1 == Statement("list_remove", 1, q, n)
             q2 == Statement("list_remove", 2, q1, n)
             q3 == Statement("list_remove", 3, q2, n)
  <2>1. r = Statement("list_remove", 4, q3, n)
    BY DEF Rest
  <2>2. q1 = IF q.prev[n] # Null THEN [q EXCEPT !.next[q.prev[n]] = q.next[n]]
             ELSE [q EXCEPT !.head = q.next[n]]
    BY RemoveStatements
  <2>3. q2 = IF q1.next[n] # Null THEN [q1 EXCEPT !.prev[q1.next[n]] = q1.prev[n]]
             ELSE [q1 EXCEPT !.tail = q1.prev[n]]
    BY RemoveStatements
  <2>4. q3 = [q2 EXCEPT !.prev[n] = Null]
    BY RemoveStatements
  <2> HIDE DEF r, q1, q2, q3
  <2>5. r = [q3 EXCEPT !.next[n] = Null]
    BY <2>1, RemoveStatements
  <2>6. /\ q1 \in List
        /\ q1.head = IF p = 1 THEN q.next[n] ELSE q.head
        /\ q1.tail = q.tail /\ q1.prev = q.prev
        /\ q1.next = IF p = 1 THEN q.next ELSE [q.next EXCEPT ![q.prev[n]] = q.next[n]]
    BY <1>3, <1>5, <2>2 DEF List
  <2>7. q1.next[n] = q.next[n] /\ q1.prev[n] = q.prev[n]
    BY <1>3, <1>5, <2>6
  <2>8. /\ q2 \in List
        /\ q2.head = q1.head /\ q2.next = q1.next
        /\ q2.tail = IF p = L THEN q.prev[n] ELSE q.tail
        /\ q2.prev = IF p = L THEN q.prev ELSE [q.prev EXCEPT ![q.next[n]] = q.prev[n]]
    BY <1>3, <1>5, <2>3, <2>6, <2>7 DEF List
  <2>9. /\ r.head = q2.head /\ r.tail = q2.tail
        /\ r.prev = [q2.prev EXCEPT ![n] = Null]
        /\ r.next = [q2.next EXCEPT ![n] = Null]
    BY <2>4, <2>5, <2>8 DEF List
  <2>10. QED
    BY <1>3, <1>5, <2>6, <2>8, <2>9
<1>7. t \in [1 .. L - 1 -> S \ {n}]
  <2>1. ASSUME NEW i \in 1 .. L - 1 PROVE t[i] \in S \ {n}
    BY <1>1, <1>2
  <2>2. QED
    BY <2>1
<1>8. \A i, j \in 1 .. L - 1 : t[i] = t[j] => i = j
  BY <1>1
<1>9. \A m \in S \ {n} : \E i \in 1 .. L - 1 : t[i] = m
  <2>1. ASSUME NEW m \in S \ {n} PROVE \E i \in 1 .. L - 1 : t[i] = m
    <3>1. PICK i \in 1 .. L : s[i] = m
      BY <1>1
    <3>2. CASE i < p
      <4>1. i \in 1 .. L - 1 /\ t[i] = m
        BY <3>1, <3>2
      <4>2. QED
        BY <4>1
    <3>3. CASE i > p
      <4>1. i - 1 \in 1 .. L - 1 /\ t[i - 1] = m
        BY <3>1, <3>3
      <4>2. QED
        BY <4>1
    <3>4. QED
      BY <1>2, <3>1, <3>2, <3>3
  <2>2. QED
    BY <2>1
<1>10. Represents(r, t, L - 1)
  <2>1. r.head = IF L - 1 = 0 THEN Null ELSE t[1]
    BY <1>4, <1>6
  <2>2. r.tail = IF L - 1 = 0 THEN Null ELSE t[L - 1]
    BY <1>4, <1>6
  <2>3. ASSUME NEW j \in 1 .. L, j # p
        PROVE  /\ r.prev[s[j]] = IF j = p + 1 THEN (IF p = 1 THEN Null ELSE s[p - 1])
                                 ELSE (IF j = 1 THEN Null ELSE s[j - 1])
               /\ r.next[s[j]] = IF j = p - 1 THEN (IF p = L THEN Null ELSE s[p + 1])
                                 ELSE (IF j = L THEN Null ELSE s[j + 1])
    <3>1. s[j] \in Nodes \ {n}
      BY <1>1, <1>2, <2>3
    <3>2. /\ q.prev[s[j]] = IF j = 1 THEN Null ELSE s[j - 1]
          /\ q.next[s[j]] = IF j = L THEN Null ELSE s[j + 1]
      BY <1>1 DEF Represents
    <3>3. s[j] = q.prev[n] <=> j = p - 1
      <4>1. p # 1 => p - 1 \in 1 .. L
        OBVIOUS
      <4>2. QED
        BY <1>1, <1>3, <1>4, <3>1, <4>1
    <3>4. s[j] = q.next[n] <=> j = p + 1
      <4>1. p # L => p + 1 \in 1 .. L
        OBVIOUS
      <4>2. QED
        BY <1>1, <1>3, <1>4, <3>1, <4>1
    <3>5. QED
      BY <1>4, <1>6, <3>1, <3>2, <3>3, <3>4
  <2>4. ASSUME NEW i \in 1 .. L - 1
        PROVE  /\ r.prev[t[i]] = IF i = 1 THEN Null ELSE t[i - 1]
               /\ r.next[t[i]] = IF i = L - 1 THEN Null ELSE t[i + 1]
    <3>1. CASE i < p
      <4>1. /\ i \in 1 .. L /\ i # p /\ i # p + 1 /\ t[i] = s[i]
            /\ i # 1 => t[i - 1] = s[i - 1]
            /\ i # L - 1 => t[i + 1] = IF i = p - 1 THEN s[p + 1] ELSE s[i + 1]
            /\ i = L - 1 => i = p - 1 /\ p = L
        BY <3>1
      <4>2. QED
        BY <2>3, <3>1, <4>1
    <3>2. CASE i >= p
      <4> DEFINE j == i + 1
      <4>1. /\ j \in 1 .. L /\ j # p /\ j # p - 1 /\ t[i] = s[j]
            /\ i # 1 => t[i - 1] = IF j = p + 1 THEN s[p - 1] ELSE s[j - 1]
            /\ i # L - 1 => t[i + 1] = s[j + 1]
            /\ i = 1 => j = p + 1 /\ p = 1
            /\ i = L - 1 <=> j = L
            /\ j # 1
            /\ i # 1 /\ j = p + 1 => p # 1
        BY <3>2
      <4>2. QED
        BY <2>3, <4>1
    <3>3. QED
      BY <3>1, <3>2
  <2>5. QED
    BY <2>1, <2>2, <2>4 DEF Represents
<1>11. QED
  BY <1>7, <1>8, <1>9, <1>10 DEF Queued

(* The links of a node that is not queued do not matter. *)
LEMMA ResetUnqueued ==
  ASSUME NEW q \in List, NEW S \in SUBSET Nodes, NEW L \in Nat, NEW n \in Nodes \ S,
         Queued(q, S, L)
  PROVE  Queued(SetNext(SetPrev(q, n, Null), n, Null), S, L)
<1> DEFINE r == SetNext(SetPrev(q, n, Null), n, Null)
<1>1. /\ r.head = q.head /\ r.tail = q.tail
      /\ \A m \in Nodes : m # n => r.prev[m] = q.prev[m] /\ r.next[m] = q.next[m]
  BY DEF SetNext, SetPrev, List
<1> HIDE DEF r
<1>2. ASSUME NEW s \in [1 .. L -> S], Represents(q, s, L)
      PROVE  Represents(r, s, L)
  <2>1. \A i \in 1 .. L : s[i] \in Nodes /\ s[i] # n
    OBVIOUS
  <2>2. QED
    BY <1>1, <1>2, <2>1 DEF Represents
<1>3. QED
  BY <1>2 DEF Queued, r

(* A list that holds a node has a head. *)
LEMMA HeadQueued ==
  ASSUME NEW q, NEW S \in SUBSET Nodes, NEW L \in Nat \ {0}, Queued(q, S, L)
  PROVE  q.head \in S /\ q.head # Null
BY DEF Queued, Represents, Nodes, Null

----------------------------------------------------------------------------
(* What a walk from the head meets before and after each statement.        *)

(* If the list a walk meets is s, Walk is s. *)
LEMMA WalkFollows ==
  ASSUME NEW q, NEW L \in 0 .. N, NEW s \in [1 .. L -> Nodes], Follows(q, s, L)
  PROVE  Walk(q) = s
<1> USE NAssumption
<1> DEFINE Step(g) == [i \in 1 .. N |-> IF i = 1 THEN q.head
                                        ELSE IF g[i - 1] = Null THEN Null ELSE q.next[g[i - 1]]]
           met == [i \in 1 .. N |-> IF i <= L THEN s[i] ELSE Null]
<1>1. Null \notin Nodes /\ \A i \in 1 .. L : s[i] # Null
  BY DEF Null, Nodes
<1>2. met = Step(met)
  <2>1. ASSUME NEW i \in 1 .. N PROVE met[i] = Step(met)[i]
    BY <1>1 DEF Follows
  <2> QED BY <2>1
<1>3. ASSUME NEW g, g = Step(g) PROVE g = met
  <2> DEFINE T == {i \in 1 .. N : g[i] # met[i]}
  <2>1. ASSUME T # {} PROVE FALSE
    <3>1. PICK x \in T : \A y \in T : x <= y
      <4>1. T \in SUBSET Nat
        OBVIOUS
      <4> HIDE DEF T
      <4> QED BY <2>1, <4>1, LeastNumber
    <3>2. x \in 1 .. N /\ x # 1 => x - 1 \in 1 .. N /\ g[x - 1] = met[x - 1]
      BY <3>1
    <3>3. g[x] = Step(g)[x] /\ met[x] = Step(met)[x]
      BY <1>2, <1>3
    <3> QED BY <3>1, <3>2, <3>3
  <2>2. \A i \in 1 .. N : g[i] = met[i]
    BY <2>1
  <2>3. g = [i \in 1 .. N |-> g[i]] /\ met = [i \in 1 .. N |-> met[i]]
    BY <1>3
  <2> QED BY <2>2, <2>3
<1>4. (CHOOSE g : g = Step(g)) = met
  BY <1>2, <1>3
<1>5. {j \in 1 .. N : met[j] # Null} = 1 .. L
  <2>1. ASSUME NEW j \in 1 .. N PROVE met[j] # Null <=> j \in 1 .. L
    BY <1>1
  <2> HIDE DEF met
  <2> QED BY <2>1
<1>6. [i \in 1 .. L |-> met[i]] = s
  <2>1. \A i \in 1 .. L : met[i] = s[i]
    OBVIOUS
  <2> HIDE DEF met
  <2> QED BY <2>1
<1>7. Walk(q) = [i \in {j \in 1 .. N : met[j] # Null} |-> met[i]]
  <2> DEFINE at == CHOOSE g : g = Step(g)
  <2>1. Walk(q) = [i \in {j \in 1 .. N : at[j] # Null} |-> at[i]]
    BY DEF Walk
  <2> HIDE DEF met, at
  <2>2. at = met
    BY <1>4 DEF at
  <2> QED BY <2>1, <2>2
<1> QED BY <1>5, <1>6, <1>7

(* A well-formed list is met by the walk, every node once. *)
LEMMA QueuedWalk ==
  ASSUME NEW q, NEW S \in SUBSET Nodes, NEW L \in 0 .. N, Queued(q, S, L)
  PROVE  /\ Walk(q) \in [1 .. L -> S] /\ Follows(q, Walk(q), L) /\ Represents(q, Walk(q), L)
         /\ \A i, j \in 1 .. L : Walk(q)[i] = Walk(q)[j] => i = j
         /\ \A n \in S : \E i \in 1 .. L : Walk(q)[i] = n
<1>1. PICK s \in [1 .. L -> S] :
        /\ \A i, j \in 1 .. L : s[i] = s[j] => i = j
        /\ \A m \in S : \E i \in 1 .. L : s[i] = m
        /\ Represents(q, s, L)
  BY DEF Queued
<1>2. Follows(q, s, L)
  BY <1>1 DEF Represents, Follows
<1>3. Walk(q) = s
  <2>1. s \in [1 .. L -> Nodes]
    OBVIOUS
  <2> QED BY <1>2, <2>1, WalkFollows
<1> QED BY <1>1, <1>2, <1>3

(* Only the head and the next pointers matter to a walk. *)
LEMMA WalkSame ==
  ASSUME NEW q, NEW r, r.head = q.head, r.next = q.next
  PROVE  Walk(r) = Walk(q)
BY DEF Walk

(* What happens to a node the walk does not meet does not matter either. *)
LEMMA WalkKept ==
  ASSUME NEW q \in List, NEW n \in Nodes, NEW L \in 0 .. N,
         NEW s \in [1 .. L -> Nodes \ {n}], Follows(q, s, L),
         NEW r, r.head = q.head, \A m \in Nodes \ {n} : r.next[m] = q.next[m]
  PROVE  Follows(r, s, L) /\ Walk(r) = s /\ Walk(q) = s
<1>1. Follows(r, s, L)
  <2>1. \A i \in 1 .. L : s[i] \in Nodes \ {n}
    OBVIOUS
  <2> QED BY <2>1 DEF Follows
<1>2. s \in [1 .. L -> Nodes]
  OBVIOUS
<1> QED BY <1>1, <1>2, WalkFollows

(* After its first statement list_remove only touches its own node. *)
LEMMA RemoveWalkRest ==
  ASSUME NEW q \in List, NEW n \in Nodes, NEW k \in 2 .. 4, NEW r,
         r = Statement("list_remove", k, q, n)
  PROVE  r.head = q.head /\ \A m \in Nodes \ {n} : r.next[m] = q.next[m]
<1>1. CASE k = 2
  <2>1. r = IF q.next[n] # Null THEN [q EXCEPT !.prev[q.next[n]] = q.prev[n]] ELSE [q EXCEPT !.tail = q.prev[n]]
    BY <1>1, RemoveStatements
  <2> QED BY <1>1, <2>1 DEF List
<1>2. CASE k = 3
  <2>1. r = [q EXCEPT !.prev[n] = Null]
    BY <1>2, RemoveStatements
  <2> QED BY <1>2, <2>1 DEF List
<1>3. CASE k = 4
  <2>1. r = [q EXCEPT !.next[n] = Null]
    BY <1>3, RemoveStatements
  <2> QED BY <1>3, <2>1 DEF List
<1> QED BY <1>1, <1>2, <1>3

(* list_add_front leaves the walk alone before its last statement, *)
LEMMA AddFrontWalk ==
  ASSUME NEW q \in List, NEW n \in Nodes, NEW k \in 1 .. 3, NEW r,
         r = Statement("list_add_front", k, q, n)
  PROVE  /\ r.head = q.head
         /\ \A m \in Nodes \ {n} : r.next[m] = q.next[m]
         /\ k = 2 => r.next[n] = q.head
         /\ k = 3 => r.next[n] = q.next[n]
<1>1. CASE k = 1
  <2>1. r = [q EXCEPT !.prev[n] = Null]
    BY <1>1, FrontStatements
  <2> QED BY <1>1, <2>1 DEF List
<1>2. CASE k = 2
  <2>1. r = [q EXCEPT !.next[n] = q.head]
    BY <1>2, FrontStatements
  <2> QED BY <1>2, <2>1 DEF List
<1>3. CASE k = 3
  <2>1. r = IF q.head # Null THEN [q EXCEPT !.prev[q.head] = n] ELSE [q EXCEPT !.tail = n]
    BY <1>3, FrontStatements
  <2> QED BY <1>3, <2>1 DEF List
<1> QED BY <1>1, <1>2, <1>3

(* which puts the node in front. *)
LEMMA AddFrontLast ==
  ASSUME NEW q \in List, NEW n \in Nodes, NEW L \in 0 .. N - 1,
         NEW s \in [1 .. L -> Nodes \ {n}], Follows(q, s, L), q.next[n] = q.head,
         NEW r, r = Statement("list_add_front", 4, q, n)
  PROVE  Walk(r) = WithInFront(n, s, L)
<1> DEFINE t == [i \in 1 .. L + 1 |-> IF i = 1 THEN n ELSE s[i - 1]]
<1>1. r.head = n /\ r.next = q.next
  BY FrontStatements DEF List
<1>2. t \in [1 .. L + 1 -> Nodes]
  OBVIOUS
<1>3. Follows(r, t, L + 1)
  <2>1. r.head = t[1]
    BY <1>1
  <2>2. ASSUME NEW i \in 1 .. L + 1
        PROVE  r.next[t[i]] = IF i = L + 1 THEN Null ELSE t[i + 1]
    <3>1. CASE i = 1
      BY <1>1, <3>1 DEF Follows
    <3>2. CASE i # 1
      <4>1. i - 1 \in 1 .. L /\ t[i] = s[i - 1] /\ (i # L + 1 => t[i + 1] = s[i])
        BY <3>2
      <4> QED BY <1>1, <4>1 DEF Follows
    <3> QED BY <3>1, <3>2
  <2> QED BY <2>1, <2>2 DEF Follows
<1>4. L + 1 \in 0 .. N
  BY NAssumption
<1> HIDE DEF t
<1>5. t = WithInFront(n, s, L)
  BY DEF t, WithInFront
<1> QED BY <1>2, <1>3, <1>4, <1>5, WalkFollows

(* list_add_back leaves the walk alone but for its third statement, *)
LEMMA AddBackWalk ==
  ASSUME NEW q \in List, NEW n \in Nodes, NEW k \in {1, 2, 4}, NEW r,
         r = Statement("list_add_back", k, q, n)
  PROVE  /\ r.head = q.head
         /\ \A m \in Nodes \ {n} : r.next[m] = q.next[m]
         /\ k # 4 => r.tail = q.tail
         /\ k = 1 => r.next[n] = Null
         /\ k # 1 => r.next = q.next
         /\ k = 4 => r.tail = n
<1>1. CASE k = 1
  <2>1. r = [q EXCEPT !.next[n] = Null]
    BY <1>1, BackStatements
  <2> QED BY <1>1, <2>1 DEF List
<1>2. CASE k = 2
  <2>1. r = [q EXCEPT !.prev[n] = q.tail]
    BY <1>2, BackStatements
  <2> QED BY <1>2, <2>1 DEF List
<1>3. CASE k = 4
  <2>1. r = [q EXCEPT !.tail = n]
    BY <1>3, BackStatements
  <2> QED BY <1>3, <2>1 DEF List
<1> QED BY <1>1, <1>2, <1>3

(* which puts the node behind. *)
LEMMA AddBackThird ==
  ASSUME NEW q \in List, NEW n \in Nodes, NEW L \in 0 .. N - 1,
         NEW s \in [1 .. L -> Nodes \ {n}], Follows(q, s, L),
         \A i, j \in 1 .. L : s[i] = s[j] => i = j,
         q.tail = (IF L = 0 THEN Null ELSE s[L]), q.next[n] = Null,
         NEW r, r = Statement("list_add_back", 3, q, n)
  PROVE  Follows(r, WithBehind(s, L, n), L + 1) /\ Walk(r) = WithBehind(s, L, n)
<1> DEFINE t == [i \in 1 .. L + 1 |-> IF i = L + 1 THEN n ELSE s[i]]
<1>1. Null \notin Nodes
  BY DEF Null, Nodes
<1>2. /\ L = 0 => r.head = n /\ r.next = q.next
      /\ L # 0 => r.head = q.head /\ r.next = [q.next EXCEPT ![s[L]] = n]
  <2>0. r = IF q.tail # Null THEN [q EXCEPT !.next[q.tail] = n] ELSE [q EXCEPT !.head = n]
    <3>1. Statement("list_add_back", 3, q, n)
             = IF q.tail # Null THEN [q EXCEPT !.next[q.tail] = n] ELSE [q EXCEPT !.head = n]
      BY BackStatements, Zenon
    <3> QED BY <3>1
  <2>1. CASE L = 0
    BY <2>0, <2>1 DEF List
  <2>2. CASE L # 0
    <3>1. s[L] \in Nodes /\ s[L] # Null /\ q.tail = s[L]
      BY <1>1, <2>2
    <3>2. r = [q EXCEPT !.next[s[L]] = n]
      BY <2>0, <3>1, Zenon
    <3> QED BY <2>2, <3>2 DEF List
  <2> QED BY <2>1, <2>2
<1>3. t \in [1 .. L + 1 -> Nodes]
  OBVIOUS
<1>4. Follows(r, t, L + 1)
  <2>1. r.head = t[1]
    BY <1>2 DEF Follows
  <2>2. ASSUME NEW i \in 1 .. L + 1
        PROVE  r.next[t[i]] = IF i = L + 1 THEN Null ELSE t[i + 1]
    <3>0. DOMAIN q.next = Nodes
      BY DEF List
    <3>1. CASE i = L + 1
      <4>1. L # 0 => s[L] \in Nodes \ {n}
        OBVIOUS
      <4>2. r.next[n] = q.next[n]
        BY <1>2, <3>0, <4>1
      <4> QED BY <3>1, <4>2
    <3>2. CASE i # L + 1
      <4>1. i \in 1 .. L /\ L # 0 /\ L \in 1 .. L /\ t[i] = s[i] /\ s[i] \in Nodes
        BY <3>2
      <4>2. s[i] = s[L] <=> i = L
        BY <4>1
      <4>3. r.next[s[i]] = IF i = L THEN n ELSE q.next[s[i]]
        BY <1>2, <3>0, <4>1, <4>2
      <4>4. q.next[s[i]] = IF i = L THEN Null ELSE s[i + 1]
        BY <4>1 DEF Follows
      <4> QED BY <4>1, <4>3, <4>4
    <3> QED BY <3>1, <3>2
  <2> QED BY <2>1, <2>2 DEF Follows
<1>5. L + 1 \in 0 .. N
  BY NAssumption
<1> HIDE DEF t
<1>6. Walk(r) = t
  BY <1>3, <1>4, <1>5, WalkFollows
<1>7. t = WithBehind(s, L, n)
  BY DEF t, WithBehind
<1> QED BY <1>4, <1>6, <1>7

(* The first statement of list_remove takes the node out of the walk. *)
LEMMA RemoveWalkFirst ==
  ASSUME NEW q \in List, NEW S \in SUBSET Nodes, NEW L \in 0 .. N, NEW n \in S,
         Queued(q, S, L), NEW r, r = Statement("list_remove", 1, q, n)
  PROVE  \E p \in 1 .. L :
           /\ Walk(q)[p] = n /\ (q.head = n => p = 1)
           /\ Walk(r) = WithoutAt(Walk(q), L, p)
           /\ Walk(r) \in [1 .. L - 1 -> S \ {n}] /\ Follows(r, Walk(r), L - 1)
<1> DEFINE s == Walk(q)
<1>1. /\ s \in [1 .. L -> S] /\ Follows(q, s, L) /\ Represents(q, s, L)
      /\ \A i, j \in 1 .. L : s[i] = s[j] => i = j
      /\ \A m \in S : \E i \in 1 .. L : s[i] = m
  BY QueuedWalk
<1> HIDE DEF s
<1>2. PICK p \in 1 .. L : s[p] = n
  BY <1>1
<1> DEFINE t == [i \in 1 .. L - 1 |-> IF i < p THEN s[i] ELSE s[i + 1]]
<1>3. Null \notin Nodes /\ n \in Nodes /\ DOMAIN q.next = Nodes
  BY DEF Null, Nodes, List
<1>4. q.head = s[1] /\ (q.head = n => p = 1)
  BY <1>1, <1>2 DEF Follows
<1>5. t \in [1 .. L - 1 -> S \ {n}]
  <2>1. ASSUME NEW i \in 1 .. L - 1 PROVE t[i] \in S \ {n}
    BY <1>1, <1>2
  <2> QED BY <2>1
<1>6. /\ q.prev[n] = IF p = 1 THEN Null ELSE s[p - 1]
      /\ q.next[n] = IF p = L THEN Null ELSE s[p + 1]
  BY <1>1, <1>2 DEF Represents
<1>7. /\ p = 1 => r.head = q.next[n] /\ r.next = q.next
      /\ p # 1 => r.head = q.head /\ r.next = [q.next EXCEPT ![s[p - 1]] = q.next[n]]
  <2>0. r = IF q.prev[n] # Null THEN [q EXCEPT !.next[q.prev[n]] = q.next[n]]
              ELSE [q EXCEPT !.head = q.next[n]]
    BY RemoveStatements, Zenon
  <2>1. CASE p = 1
    <3>1. r = [q EXCEPT !.head = q.next[n]]
      BY <1>6, <2>0, <2>1, Zenon
    <3> QED BY <2>1, <3>1 DEF List
  <2>2. CASE p # 1
    <3>1. p - 1 \in 1 .. L /\ s[p - 1] \in Nodes /\ q.prev[n] # Null /\ q.prev[n] = s[p - 1]
      BY <1>1, <1>3, <1>6, <2>2
    <3>2. r = [q EXCEPT !.next[s[p - 1]] = q.next[n]]
      BY <2>0, <3>1, Zenon
    <3> QED BY <2>2, <3>2 DEF List
  <2> QED BY <2>1, <2>2
<1>8. Follows(r, t, L - 1)
  <2>1. r.head = IF L - 1 = 0 THEN Null ELSE t[1]
    BY <1>2, <1>4, <1>6, <1>7
  <2>2. ASSUME NEW i \in 1 .. L - 1
        PROVE  r.next[t[i]] = IF i = L - 1 THEN Null ELSE t[i + 1]
    <3>1. CASE i < p
      <4>1. /\ i \in 1 .. L /\ p - 1 \in 1 .. L /\ p # 1 /\ t[i] = s[i] /\ s[i] \in Nodes
            /\ (s[i] = s[p - 1] <=> i = p - 1)
        BY <1>1, <3>1
      <4>2. r.next[s[i]] = IF i = p - 1 THEN q.next[n] ELSE q.next[s[i]]
        BY <1>3, <1>7, <4>1
      <4>3. q.next[s[i]] = s[i + 1]
        BY <1>1, <3>1, <4>1 DEF Follows
      <4>4. i = L - 1 => p = L /\ i = p - 1
        BY <3>1
      <4>5. i # L - 1 => t[i + 1] = IF i = p - 1 THEN s[p + 1] ELSE s[i + 1]
        BY <3>1
      <4> QED BY <1>6, <4>1, <4>2, <4>3, <4>4, <4>5
    <3>2. CASE i >= p
      <4>1. /\ i + 1 \in 1 .. L /\ t[i] = s[i + 1] /\ s[i + 1] \in Nodes
            /\ p # 1 => p - 1 \in 1 .. L /\ s[i + 1] # s[p - 1]
        BY <1>1, <3>2
      <4>2. r.next[s[i + 1]] = q.next[s[i + 1]]
        BY <1>3, <1>7, <4>1
      <4>3. q.next[s[i + 1]] = IF i + 1 = L THEN Null ELSE s[i + 2]
        BY <1>1, <4>1 DEF Follows
      <4>4. i # L - 1 => t[i + 1] = s[i + 2]
        BY <3>2
      <4> QED BY <4>1, <4>2, <4>3, <4>4
    <3> QED BY <3>1, <3>2
  <2> QED BY <2>1, <2>2 DEF Follows
<1>9. Walk(r) = t
  <2> HIDE DEF t
  <2>1. t \in [1 .. L - 1 -> Nodes]
    BY <1>5
  <2>2. L - 1 \in 0 .. N
    BY <1>2, NAssumption
  <2> QED BY <1>8, <2>1, <2>2, WalkFollows
<1> HIDE DEF t
<1>10. t = WithoutAt(s, L, p)
  BY DEF t, WithoutAt
<1> QED BY <1>2, <1>4, <1>5, <1>8, <1>9, <1>10 DEF s

----------------------------------------------------------------------------
(* Types and control.                                                      *)

(* The node the thread works on is a node of the array. *)
LEMMA MainNodeType ==
  ASSUME TypeOK, ControlInv
  PROVE  MainNode \in Nodes
BY NAssumption DEF TypeOK, ControlInv, MainNode, Nodes

(* Nodes are links other than NULL. *)
LEMMA NodesFacts == /\ Nodes \subseteq Link /\ Null \in Link /\ Null \notin Nodes
                    /\ 0 \in Nodes /\ N \in Nat \ {0} /\ Nodes = 0 .. N - 1
BY NAssumption DEF Nodes, Link, Null

(* The zeroed program is in the invariant. *)
LEMMA InitInv == Init => IInv
<1> SUFFICES ASSUME Init PROVE IInv
  OBVIOUS
<1> USE DEF Init
<1>1. TypeOK
  BY NAssumption, WidthAssumption, TickAssumption
     DEF TypeOK, List, EmptyList, MainCalls, HandlerCalls, Idle, Nodes, Link, Null
<1>2. ControlInv
  BY NAssumption DEF ControlInv, Armed, Critical, Idle, Nodes
<1>3. ListInv
  <2>1. Queued(queue, {}, 0)
    <3> DEFINE s == [i \in 1 .. 0 |-> 0]
    <3>1. s \in [1 .. 0 -> {}] /\ Represents(queue, s, 0)
      BY DEF Represents, EmptyList
    <3>2. QED
      BY <3>1 DEF Queued
  <2>2. 0 .. main.cursor - 1 = {} /\ main.cursor = 0
    OBVIOUS
  <2>3. Queued(queue, 0 .. main.cursor - 1, main.cursor)
    BY <2>1, <2>2
  <2>4. QED
    BY <2>3 DEF ListInv, Idle
<1>4. QED
  BY <1>1, <1>2, <1>3 DEF IInv

Frame == [call : MainCalls, at : 1 .. 6, cursor : Link]
HandlerFrame == [call : HandlerCalls, at : 1 .. 6, node : Link, prev : Link]

(* Where a statement of a call leaves the program counter of the context that runs it. *)
LEMMA GotoFacts ==
  ASSUME main \in Frame, NEW c \in MainCalls, MainGoto(c)
  PROVE  /\ main' \in Frame
         /\ main'.call = c /\ main'.at = 1 /\ main'.cursor = main.cursor
BY DEF Frame, MainGoto, MainCall

(* The thread's steps that are not statements of the list functions keep   *)
(* the types and the control.                                              *)
LEMMA ControlMain ==
  ASSUME TypeOK, ControlInv,
         Block \/ Scan \/ Touch \/ TouchDone \/ Unblock \/ Advance
  PROVE  TypeOK' /\ ControlInv'
<1>0. main \in Frame /\ handler \in HandlerFrame
  BY DEF TypeOK, Frame, HandlerFrame
<1>1. CASE Block
  <2>1. main' \in Frame /\ main'.call = "remove" /\ main'.at = 1
    BY <1>0, <1>1, GotoFacts DEF Block, MainCalls
  <2>2. TypeOK'
    BY <1>1, <2>1 DEF TypeOK, Block, Frame, Signals, g_mask
  <2>3. ControlInv'
    BY <1>1, <2>1 DEF ControlInv, Block, MainRuns, Armed, Critical, g_mask
  <2>4. QED
    BY <2>2, <2>3
<1>2. CASE Scan
  <2>1. /\ main' \in Frame /\ main'.call = "touch" /\ main'.at = 1
    BY <1>2 DEF Scan, Frame, TypeOK, List, MainCalls
  <2>2. TypeOK'
    BY <1>2, <2>1 DEF TypeOK, Scan, Frame
  <2>3. ControlInv'
    BY <1>2, <2>1 DEF ControlInv, Scan, MainRuns, Armed, Critical
  <2>4. QED
    BY <2>2, <2>3
<1>3. CASE Touch
  <2>1. main.cursor \in Nodes
    BY <1>0, <1>3 DEF Touch, Link, Frame
  <2>2. /\ main' \in Frame /\ main'.call = "touch" /\ main'.at = main.at
    BY <1>0, <1>3, <2>1 DEF Touch, Frame, TypeOK, List, MainCalls
  <2>3. TypeOK'
    BY <1>3, <2>1, <2>2 DEF TypeOK, Touch, Frame
  <2>4. ControlInv'
    BY <1>3, <2>2 DEF ControlInv, Touch, MainRuns, Armed, Critical
  <2>5. QED
    BY <2>3, <2>4
<1>4. CASE TouchDone
  <2>1. main' \in Frame /\ main'.call = "add_front" /\ main'.at = 1
    BY <1>0, <1>4, GotoFacts DEF TouchDone, MainCalls
  <2>2. TypeOK'
    BY <1>4, <2>1 DEF TypeOK, TouchDone, Frame
  <2>3. ControlInv'
    BY <1>4, <2>1 DEF ControlInv, TouchDone, MainRuns, Armed, Critical
  <2>4. QED
    BY <2>2, <2>3
<1>5. CASE Unblock
  <2>1. main' \in Frame /\ main'.call = "advance" /\ main'.at = 1
    BY <1>0, <1>5, GotoFacts DEF Unblock, MainCalls
  <2>2. blocked' = {}
    BY <1>5 DEF Unblock, TypeOK, Signals, g_mask
  <2>3. TypeOK'
    BY <1>5, <2>1, <2>2 DEF TypeOK, Unblock, Frame
  <2>4. ControlInv'
    BY <1>5, <2>1, <2>2 DEF ControlInv, Unblock, MainRuns, Armed, Critical
  <2>5. QED
    BY <2>3, <2>4
<1>6. CASE Advance
  <2>1. main' \in Frame /\ main'.call = LoopStart /\ main'.at = 1
    BY <1>0, <1>6, GotoFacts DEF Advance, MainCalls, LoopStart
  <2>2. iter' \in 0 .. IterWidth - 1
    BY <1>6, WidthAssumption DEF Advance, TypeOK
  <2>3. TypeOK'
    BY <1>6, <2>1, <2>2 DEF TypeOK, Advance, Frame
  <2>4. ControlInv'
    BY <1>6, <2>1 DEF ControlInv, Advance, MainRuns, Armed, Critical, LoopStart
  <2>5. QED
    BY <2>3, <2>4
<1>7. QED
  BY <1>1, <1>2, <1>3, <1>4, <1>5, <1>6

(* So do the kernel's. *)
LEMMA ControlKernel ==
  ASSUME TypeOK, ControlInv, Expire \/ Deliver
  PROVE  TypeOK' /\ ControlInv'
<1>1. CASE Expire
  BY <1>1 DEF Expire, TypeOK, ControlInv, Armed, Critical, Signals, SIGALRM
<1>2. CASE Deliver
  <2>1. /\ handler' \in HandlerFrame
        /\ handler'.call = "tick" /\ handler'.at = 1
    BY <1>2 DEF Deliver, HandlerCall, TypeOK, HandlerFrame, HandlerCalls
  <2>2. TypeOK'
    BY <1>2, <2>1 DEF TypeOK, Deliver, HandlerFrame
  <2>3. Armed /\ ~(Safe /\ Critical)
    BY <1>2 DEF Deliver, ControlInv
  <2>4. ControlInv'
    BY <1>2, <2>1, <2>3 DEF ControlInv, Deliver, Armed, Critical
  <2>5. QED
    BY <2>2, <2>4
<1>3. QED
  BY <1>1, <1>2

(* runqueue_seed's steps keep the control invariant. *)
LEMMA ControlSeed ==
  ASSUME TypeOK, ControlInv, Seed
  PROVE  TypeOK' /\ ControlInv'
<1>1. main.cursor \in Nodes /\ main \in Frame
  BY DEF Seed, ControlInv, TypeOK, Frame
<1>2. main' \in Frame /\ main'.call = "seed_add" /\ main'.at = 1 /\ main'.cursor = main.cursor
  BY <1>1, GotoFacts DEF Seed, MainCalls
<1>3. queue' \in List
  BY <1>1 DEF Seed, SetPrev, SetNext, List, Link, TypeOK
<1>4. value' \in [Nodes -> {0, 1}]
  <2>1. main.cursor % 2 \in {0, 1}
    BY <1>1 DEF Nodes
  <2>2. QED
    BY <1>1, <2>1 DEF Seed, TypeOK
<1>5. TypeOK'
  BY <1>2, <1>3, <1>4 DEF TypeOK, Seed, Frame
<1>6. ControlInv'
  BY <1>1, <1>2 DEF ControlInv, Seed, Armed, Critical
<1>7. QED
  BY <1>5, <1>6

(* What a step of the thread inside a list function is: the call's next    *)
(* statement or, after the last one, the return from the call.             *)
LEMMA ControlMainStatement ==
  ASSUME TypeOK, ControlInv, MainStatement
  PROVE  TypeOK' /\ ControlInv'
<1> DEFINE f == MainFunction
<1>0. main \in Frame /\ MainNode \in Nodes /\ f \in Functions /\ main.at \in 1 .. 6
  BY MainNodeType DEF TypeOK, Frame, MainFunction, Functions
<1>1. Length(f) \in {4, 6} /\ (Safe => Length(f) = 4)
  BY DEF Length, MainFunction
<1> HIDE DEF f
<1>2. CASE DerefsNull(f, main.at, queue, MainNode)
  <2>1. status' = "fault" /\ UNCHANGED <<queue, main>>
    BY <1>2 DEF MainStatement, f
  <2>2. TypeOK'
    BY <2>1 DEF TypeOK, MainStatement
  <2>3. ControlInv'
    BY <2>1 DEF ControlInv, MainStatement, Armed, Critical
  <2>4. QED
    BY <2>2, <2>3
<1>3. CASE ~DerefsNull(f, main.at, queue, MainNode)
  <2>1. /\ queue' = Statement(f, main.at, queue, MainNode)
        /\ status' = status
        /\ main' = IF main.at < Length(f) THEN [main EXCEPT !.at = @ + 1] ELSE AfterMainCall
    BY <1>3 DEF MainStatement, f
  <2>2. queue' \in List
    BY <1>0, <1>3, <2>1, StatementType DEF TypeOK
  <2>3. CASE main.at < Length(f)
    <3>1. /\ main' \in Frame /\ main'.call = main.call /\ main'.cursor = main.cursor
          /\ main'.at = main.at + 1 /\ (Safe => main'.at <= 4)
      BY <1>0, <1>1, <2>1, <2>3 DEF Frame
    <3>2. TypeOK'
      BY <2>1, <2>2, <3>1 DEF TypeOK, MainStatement, Frame
    <3>3. ControlInv'
      BY <3>1 DEF ControlInv, MainStatement, Armed, Critical
    <3>4. QED
      BY <3>2, <3>3
  <2>4. CASE ~(main.at < Length(f))
    <3>1. main' = AfterMainCall
      BY <2>1, <2>4
    <3>2. CASE main.call = "seed_add" /\ main.cursor + 1 < N
      <4>1. main' = [call |-> "seed", at |-> 1, cursor |-> main.cursor + 1]
        BY <3>1, <3>2 DEF AfterMainCall
      <4>2. main.cursor + 1 \in Nodes
        <5>1. main.cursor \in 0 .. N - 1
          BY <3>2 DEF ControlInv, Nodes
        <5>2. QED
          BY <3>2, <5>1, NAssumption DEF Nodes
      <4>3. main' \in Frame /\ main'.call = "seed" /\ main'.at = 1 /\ main'.cursor \in Nodes
        BY <4>1, <4>2 DEF Frame, Link, MainCalls
      <4>4. TypeOK'
        BY <2>1, <2>2, <4>3 DEF TypeOK, MainStatement, Frame
      <4>5. ControlInv'
        BY <3>2, <4>3 DEF ControlInv, MainStatement, Armed, Critical
      <4>6. QED
        BY <4>4, <4>5
    <3>3. CASE main.call = "seed_add" /\ ~(main.cursor + 1 < N)
      <4>1. main' = [call |-> LoopStart, at |-> 1, cursor |-> Null]
        BY <3>1, <3>3 DEF AfterMainCall
      <4>2. main' \in Frame /\ main'.call = LoopStart /\ main'.at = 1
        BY <4>1 DEF Frame, Link, MainCalls, LoopStart
      <4>3. TypeOK'
        BY <2>1, <2>2, <4>2 DEF TypeOK, MainStatement, Frame
      <4>4. ControlInv'
        BY <3>3, <4>2 DEF ControlInv, MainStatement, Armed, Critical, LoopStart
      <4>5. QED
        BY <4>3, <4>4
    <3>4. CASE main.call # "seed_add"
      <4> DEFINE c == IF main.call = "remove" THEN "scan"
                      ELSE IF Safe THEN "unblock" ELSE "advance"
      <4>1. MainGoto(c) /\ c \in MainCalls
        BY <3>1, <3>4 DEF AfterMainCall, MainCalls, MainGoto
      <4>2. main' \in Frame /\ main'.call = c /\ main'.at = 1
        BY <1>0, <4>1, GotoFacts
      <4>3. TypeOK'
        BY <2>1, <2>2, <4>2 DEF TypeOK, MainStatement, Frame
      <4>4. ControlInv'
        BY <3>4, <4>2 DEF ControlInv, MainStatement, Armed, Critical
      <4>5. QED
        BY <4>3, <4>4
    <3>5. QED
      BY <3>2, <3>3, <3>4
  <2>5. QED
    BY <2>3, <2>4
<1>4. QED
  BY <1>2, <1>3

(* The handler's steps. *)
LEMMA ControlTick ==
  ASSUME TypeOK, ControlInv, Tick
  PROVE  TypeOK' /\ ControlInv'
<1>1. /\ queue.head \in Link /\ queue.tail \in Link
      /\ queue.tail # Null => queue.tail \in Nodes /\ queue.prev[queue.tail] \in Link
      /\ \A m \in Link : m # Null => m \in Nodes
  BY DEF TypeOK, List, Link
<1>2. /\ handler' \in HandlerFrame /\ handler'.at = 1
      /\ handler'.call \in {"remove", "drop_tail", "idle"}
      /\ handler'.call # "idle" => handler'.node \in Nodes
      /\ handler'.call = "drop_tail" => ~Safe /\ handler'.prev \in Nodes
  BY <1>1 DEF Tick, SwitchFrom, Idle, HandlerFrame, HandlerCalls, Link, Null
<1>3. g_ticks' \in -TickMax - 1 .. TickMax
  BY TickAssumption DEF Tick, TypeOK
<1>4. Armed /\ ~(Safe /\ Critical)
  BY DEF Tick, HandlerRuns, ControlInv
<1>5. TypeOK'
  BY <1>2, <1>3 DEF TypeOK, Tick, HandlerFrame
<1>6. ControlInv'
  BY <1>2, <1>4 DEF ControlInv, Tick, Armed, Critical
<1>7. QED
  BY <1>5, <1>6

(* The flip of the handler keeps the control invariant. *)
LEMMA ControlFlip ==
  ASSUME TypeOK, ControlInv, Flip
  PROVE  TypeOK' /\ ControlInv'
<1>1. handler.node \in Nodes /\ Armed /\ ~(Safe /\ Critical)
  BY DEF Flip, HandlerRuns, ControlInv
<1>2. value' \in [Nodes -> {0, 1}]
  BY <1>1 DEF Flip, TypeOK
<1>3. /\ handler' \in HandlerFrame /\ handler'.call = "add_back" /\ handler'.at = 1
      /\ handler'.node = handler.node
  BY DEF Flip, HandlerCall, HandlerFrame, HandlerCalls, TypeOK
<1>4. TypeOK'
  BY <1>2, <1>3 DEF TypeOK, Flip, HandlerFrame
<1>5. ControlInv'
  BY <1>1, <1>3 DEF ControlInv, Flip, Armed, Critical
<1>6. QED
  BY <1>4, <1>5

(* A statement of the handler keeps the control invariant. *)
LEMMA ControlHandlerStatement ==
  ASSUME TypeOK, ControlInv, HandlerStatement
  PROVE  TypeOK' /\ ControlInv'
<1> DEFINE f == HandlerFunction
<1>0. /\ handler.call \in HandlerCalls \ {"idle", "tick", "flip"}
      /\ handler \in HandlerFrame /\ handler.at \in 1 .. 6
      /\ handler.node \in Nodes /\ HandlerNode \in Nodes /\ f \in Functions
      /\ Armed /\ ~(Safe /\ Critical)
  BY DEF HandlerStatement, HandlerRuns, TypeOK, ControlInv, HandlerFrame, HandlerFunction,
         HandlerNode, Functions
<1>1. Length(f) \in {4, 6} /\ (Safe => Length(f) = 4)
  BY <1>0 DEF Length, HandlerFunction, ControlInv, HandlerCalls
<1> HIDE DEF f
<1>2. CASE DerefsNull(f, handler.at, queue, HandlerNode)
  <2>1. status' = "fault" /\ UNCHANGED <<queue, handler>>
    BY <1>2 DEF HandlerStatement, f
  <2>2. TypeOK'
    BY <2>1 DEF TypeOK, HandlerStatement
  <2>3. ControlInv'
    BY <2>1 DEF ControlInv, HandlerStatement, Armed, Critical
  <2>4. QED
    BY <2>2, <2>3
<1>3. CASE ~DerefsNull(f, handler.at, queue, HandlerNode)
  <2>1. /\ queue' = Statement(f, handler.at, queue, HandlerNode)
        /\ status' = status
        /\ handler' = IF handler.at < Length(f) THEN [handler EXCEPT !.at = @ + 1]
                      ELSE HandlerAfterCall
    BY <1>3 DEF HandlerStatement, f
  <2>2. queue' \in List
    BY <1>0, <1>3, <2>1, StatementType DEF TypeOK
  <2>3. CASE handler.at < Length(f)
    <3>1. /\ handler' \in HandlerFrame /\ handler'.call = handler.call
          /\ handler'.node = handler.node /\ handler'.prev = handler.prev
          /\ (Safe => handler'.at <= 4)
      BY <1>0, <1>1, <2>1, <2>3 DEF HandlerFrame
    <3>2. TypeOK'
      BY <2>1, <2>2, <3>1 DEF TypeOK, HandlerStatement, HandlerFrame
    <3>3. ControlInv'
      BY <1>0, <3>1 DEF ControlInv, HandlerStatement, Armed, Critical
    <3>4. QED
      BY <3>2, <3>3
  <2>4. CASE ~(handler.at < Length(f))
    <3>1. /\ handler' \in HandlerFrame /\ handler'.at = 1
          /\ handler'.call # "idle" => /\ handler'.node = handler.node
                                       /\ handler'.prev = handler.prev
          /\ handler'.call \in {"drop_prev", "front_tail", "back_prev"} =>
                 handler.call \in {"drop_tail", "drop_prev", "front_tail"}
          /\ handler'.call # "drop_tail"
      BY <1>0, <2>1, <2>4
         DEF HandlerAfterCall, HandlerCall, Idle, HandlerFrame, HandlerCalls, Link
    <3>2. TypeOK'
      BY <2>1, <2>2, <3>1 DEF TypeOK, HandlerStatement, HandlerFrame
    <3>3. ControlInv'
      BY <1>0, <3>1 DEF ControlInv, HandlerStatement, Armed, Critical
    <3>4. QED
      BY <3>2, <3>3
  <2>5. QED
    BY <2>3, <2>4
<1>4. QED
  BY <1>2, <1>3

(* Every step keeps the control invariant. *)
LEMMA ControlNext ==
  ASSUME TypeOK, ControlInv, [Next]_vars
  PROVE  TypeOK' /\ ControlInv'
<1>1. CASE UNCHANGED vars
  BY <1>1 DEF vars, TypeOK, ControlInv, Armed, Critical
<1>2. QED
  BY <1>1, ControlMain, ControlKernel, ControlSeed, ControlMainStatement, ControlTick,
     ControlFlip, ControlHandlerStatement DEF Next, Main, Handler

----------------------------------------------------------------------------
(* The list, in safe mode.                                                 *)

LEMMA NodeArithmetic ==
  ASSUME NEW n \in Nodes
  PROVE  /\ N \in Nat \ {0} /\ N - 1 \in Nat /\ (N - 1) + 1 = N
         /\ (Nodes \ {n}) \cup {n} = Nodes /\ n \notin Nodes \ {n}
         /\ n \in Nat /\ 0 .. n \in SUBSET Nodes /\ 0 .. n - 1 \in SUBSET Nodes
         /\ 0 .. (n + 1) - 1 = 0 .. n
         /\ (0 .. n - 1) \cup {n} = 0 .. n /\ n \notin 0 .. n - 1
BY NAssumption DEF Nodes

(* Steps of the thread that leave the links alone keep the list invariant. *)
LEMMA ListMain ==
  ASSUME IInv, Safe,
         Block \/ Scan \/ Touch \/ TouchDone \/ Unblock \/ Advance
  PROVE  ListInv'
<1>0. /\ MainNode \in Nodes /\ queue \in List /\ main \in Frame
      /\ status = "running" /\ handler.call = "idle"
      /\ queue' = queue /\ status' = status /\ handler' = handler
  BY MainNodeType DEF IInv, TypeOK, Frame, MainRuns,
                      Block, Scan, Touch, TouchDone, Unblock, Advance
<1>1. CASE Block
  <2>1. main'.call = "remove" /\ main'.at = 1 /\ iter' = iter
    BY <1>1 DEF Block, MainGoto, MainCall
  <2>2. Queued(queue, Nodes, N)
    BY <1>0, <1>1 DEF Block, IInv, ListInv
  <2>3. MainNode' = MainNode
    BY <1>1, <2>1 DEF MainNode, Block
  <2>4. Queued(Rest("list_remove", 1, queue, MainNode), Nodes \ {MainNode}, N - 1)
    BY <1>0, <2>2, RemoveWhole, NodeArithmetic
  <2>5. QED
    BY <1>0, <2>1, <2>3, <2>4 DEF ListInv
<1>2. CASE Scan
  <2>1. main.call = "scan" /\ main'.call = "touch" /\ MainNode' = MainNode
    BY <1>2 DEF Scan, MainNode
  <2>2. QED
    BY <1>0, <2>1 DEF IInv, ListInv
<1>3. CASE Touch
  <2>1. main.call = "touch" /\ main'.call = "touch" /\ MainNode' = MainNode
    BY <1>0, <1>3 DEF Touch, MainNode, Frame
  <2>2. QED
    BY <1>0, <2>1 DEF IInv, ListInv
<1>4. CASE TouchDone
  <2>1. /\ main.call = "touch" /\ main'.call = "add_front" /\ main'.at = 1
        /\ MainNode' = MainNode
    BY <1>4 DEF TouchDone, MainNode, MainGoto, MainCall
  <2>2. Queued(queue, Nodes \ {MainNode}, N - 1)
    BY <2>1 DEF IInv, ListInv
  <2> DEFINE n == MainNode
             S == Nodes \ {MainNode}
             L == N - 1
  <2>a. n \in Nodes /\ S \in SUBSET Nodes /\ n \notin S /\ L \in Nat
    BY <1>0, NodeArithmetic
  <2>b. queue \in List /\ Queued(queue, S, L)
    BY <1>0, <2>2
  <2>3. Queued(Rest("list_add_front", 1, queue, n), S \cup {n}, L + 1)
    <3> HIDE DEF n, S, L
    <3> QED  BY <2>a, <2>b, AddFrontWhole
  <2>4. Queued(Rest("list_add_front", 1, queue, MainNode), Nodes, N)
    BY <1>0, <2>3, NodeArithmetic
  <2>5. QED
    BY <1>0, <2>1, <2>4 DEF ListInv
<1>5. CASE Unblock
  <2>1. main.call = "unblock" /\ main'.call = "advance"
    BY <1>5 DEF Unblock, MainGoto, MainCall
  <2>2. QED
    BY <1>0, <2>1 DEF IInv, ListInv
<1>6. CASE Advance
  <2>1. main.call = "advance" /\ main'.call = "block"
    BY <1>6 DEF Advance, MainGoto, MainCall, LoopStart
  <2>2. QED
    BY <1>0, <2>1 DEF IInv, ListInv
<1>7. QED
  BY <1>1, <1>2, <1>3, <1>4, <1>5, <1>6

(* runqueue_seed appends the next node to the queue. *)
LEMMA ListSeed ==
  ASSUME IInv, Safe, Seed
  PROVE  ListInv'
<1> DEFINE c == main.cursor
<1>1. /\ c \in Nodes /\ queue \in List /\ main.call = "seed"
      /\ status' = "running" /\ handler' = handler /\ handler.call = "idle"
      /\ main'.call = "seed_add" /\ main'.at = 1 /\ main'.cursor = c
      /\ queue' = SetNext(SetPrev(queue, c, Null), c, Null)
  BY DEF IInv, TypeOK, ControlInv, Seed, MainRuns, MainGoto, MainCall
<1>2. queue' \in List
  BY ControlSeed DEF IInv, TypeOK
<1>3. Queued(queue, 0 .. c - 1, c)
  BY <1>1 DEF IInv, ListInv
<1>4. Queued(queue', 0 .. c - 1, c)
  BY <1>1, <1>3, ResetUnqueued, NodeArithmetic
<1>5. Queued(Rest("list_add_back", 1, queue', c), (0 .. c - 1) \cup {c}, c + 1)
  BY <1>1, <1>2, <1>4, AddBackWhole, NodeArithmetic
<1>6. Queued(Rest("list_add_back", 1, queue', c), 0 .. c, c + 1)
  BY <1>1, <1>5, NodeArithmetic
<1>7. QED
  BY <1>1, <1>6 DEF ListInv

(* Delivery, masking and return of the signal leave the links alone. *)
LEMMA ListKernel ==
  ASSUME IInv, Safe, Expire \/ Deliver
  PROVE  ListInv'
<1>1. /\ queue' = queue /\ status' = status /\ main' = main /\ iter' = iter
      /\ \/ handler' = handler
         \/ handler.call = "idle" /\ handler'.call = "tick"
  BY DEF Expire, Deliver, HandlerCall
<1>2. MainNode' = MainNode
  BY <1>1 DEF MainNode
<1>3. QED
  BY <1>1, <1>2 DEF IInv, ListInv

(* One more statement of a call leaves what the call will return as it     *)
(* was, and the last statement leaves exactly that.                        *)
LEMMA Progress ==
  ASSUME NEW f, NEW k \in 1 .. 4, NEW q, NEW n
  PROVE  /\ k < 4 => Rest(f, k + 1, Statement(f, k, q, n), n) = Rest(f, k, q, n)
         /\ ~(k < 4) => Statement(f, k, q, n) = Rest(f, k, q, n)
BY RestStep, RestLast

(* A list statement of the thread keeps the list the call will leave. *)
LEMMA ListMainStatement ==
  ASSUME IInv, Safe, MainStatement
  PROVE  ListInv'
<1> DEFINE f == MainFunction
           n == MainNode
           k == main.at
<1>1. /\ n \in Nodes /\ k \in 1 .. 4 /\ main \in Frame
      /\ main.call \in {"seed_add", "remove", "add_front"}
      /\ status = "running" /\ handler' = handler /\ handler.call = "idle" /\ iter' = iter
  BY MainNodeType DEF IInv, TypeOK, ControlInv, Frame, MainStatement, MainRuns
<1>2. f # "list_remove_unchecked" /\ Length(f) = 4
  BY <1>1 DEF MainFunction, Length
<1>3. /\ queue' = Statement(f, k, queue, n) /\ status' = "running"
      /\ main' = IF k < 4 THEN [main EXCEPT !.at = @ + 1] ELSE AfterMainCall
  BY <1>1, <1>2 DEF MainStatement, DerefsNull
<1>4. CASE k < 4
  <2>1. main'.call = main.call /\ main'.at = k + 1 /\ main'.cursor = main.cursor
    BY <1>1, <1>3, <1>4 DEF Frame
  <2>2. MainNode' = n
    BY <1>1, <2>1 DEF MainNode
  <2>3. Rest(f, k + 1, queue', n) = Rest(f, k, queue, n)
    BY <1>1, <1>3, <1>4, Progress
  <2>4. CASE main.call = "seed_add"
    <3>1. f = "list_add_back" /\ n = main.cursor
      BY <2>4 DEF MainFunction, MainNode
    <3>2. QED
      BY <1>1, <1>3, <2>1, <2>3, <2>4, <3>1 DEF IInv, ListInv
  <2>5. CASE main.call = "remove"
    <3>1. f = "list_remove"
      BY <2>5 DEF MainFunction
    <3>2. QED
      BY <1>1, <1>3, <2>1, <2>2, <2>3, <2>5, <3>1 DEF IInv, ListInv
  <2>6. CASE main.call = "add_front"
    <3>1. f = "list_add_front"
      BY <2>6 DEF MainFunction
    <3>2. QED
      BY <1>1, <1>3, <2>1, <2>2, <2>3, <2>6, <3>1 DEF IInv, ListInv
  <2>7. QED
    BY <1>1, <2>4, <2>5, <2>6
<1>5. CASE ~(k < 4)
  <2>1. queue' = Rest(f, k, queue, n) /\ main' = AfterMainCall
    BY <1>1, <1>3, <1>5, Progress
  <2>2. CASE main.call = "seed_add"
    <3>1. f = "list_add_back" /\ n = main.cursor
      BY <2>2 DEF MainFunction, MainNode
    <3>2. Queued(queue', 0 .. n, n + 1)
      BY <2>1, <2>2, <3>1 DEF IInv, ListInv
    <3>3. CASE n + 1 < N
      <4>1. main'.call = "seed" /\ main'.cursor = n + 1
        BY <2>1, <2>2, <3>1, <3>3 DEF AfterMainCall
      <4>2. Queued(queue', 0 .. (n + 1) - 1, n + 1)
        BY <1>1, <3>2, NodeArithmetic
      <4>3. QED
        BY <1>1, <1>3, <4>1, <4>2 DEF ListInv
    <3>4. CASE ~(n + 1 < N)
      <4>1. main'.call = "block"
        BY <2>1, <2>2, <3>1, <3>4 DEF AfterMainCall, LoopStart
      <4>2. n + 1 = N /\ 0 .. n = Nodes
        BY <1>1, <3>4, NAssumption DEF Nodes
      <4>3. QED
        BY <1>1, <1>3, <3>2, <4>1, <4>2 DEF ListInv
    <3>5. QED
      BY <3>3, <3>4
  <2>3. CASE main.call = "remove"
    <3>1. f = "list_remove" /\ main'.call = "scan"
      BY <2>1, <2>3 DEF MainFunction, AfterMainCall, MainCall
    <3>2. MainNode' = n
      BY <1>1, <2>3, <3>1 DEF MainNode
    <3>3. Queued(queue', Nodes \ {n}, N - 1)
      BY <2>1, <2>3, <3>1 DEF IInv, ListInv
    <3>4. QED
      BY <1>1, <1>3, <3>1, <3>2, <3>3 DEF ListInv
  <2>4. CASE main.call = "add_front"
    <3>1. f = "list_add_front" /\ main'.call = "unblock"
      BY <2>1, <2>4 DEF MainFunction, AfterMainCall, MainCall
    <3>2. Queued(queue', Nodes, N)
      BY <2>1, <2>4, <3>1 DEF IInv, ListInv
    <3>3. QED
      BY <1>1, <1>3, <3>1, <3>2 DEF ListInv
  <2>5. QED
    BY <1>1, <2>2, <2>3, <2>4
<1>6. QED
  BY <1>4, <1>5

(* Where the thread is while a handler runs. *)
LEMMA MainOutside ==
  ASSUME IInv, Safe, HandlerRuns
  PROVE  /\ main.call \in {"block", "advance"}
         /\ handler.call \in {"tick", "remove", "flip", "add_back"}
BY DEF IInv, TypeOK, ControlInv, Armed, Critical, HandlerRuns, MainCalls, HandlerCalls

(* The count of a tick leaves the links alone and starts list_remove of the head. *)
LEMMA ListTick ==
  ASSUME IInv, Safe, Tick
  PROVE  ListInv'
<1>1. /\ main.call \in {"block", "advance"} /\ main' = main /\ queue' = queue
      /\ status' = "running" /\ queue \in List
  BY MainOutside DEF Tick, HandlerRuns, IInv, TypeOK
<1>2. Queued(queue, Nodes, N)
  BY <1>1 DEF Tick, IInv, ListInv
<1>3. queue.head \in Nodes /\ queue.head # Null
  BY <1>2, NAssumption, HeadQueued
<1>4. handler'.call = "remove" /\ handler'.at = 1 /\ handler'.node = queue.head
  BY <1>3 DEF Tick, SwitchFrom
<1>5. Queued(Rest("list_remove", 1, queue, queue.head), Nodes \ {queue.head}, N - 1)
  BY <1>1, <1>2, <1>3, RemoveWhole, NodeArithmetic, SMTT(30)
<1>6. QED
  BY <1>1, <1>4, <1>5 DEF ListInv

(* The flip leaves the links alone and starts list_add_back. *)
LEMMA ListFlip ==
  ASSUME IInv, Safe, Flip
  PROVE  ListInv'
<1> DEFINE h == handler.node
<1>1. /\ main.call \in {"block", "advance"} /\ main' = main /\ queue' = queue
      /\ status' = "running" /\ queue \in List /\ h \in Nodes
      /\ handler'.call = "add_back" /\ handler'.at = 1 /\ handler'.node = h
  BY MainOutside DEF Flip, HandlerRuns, HandlerCall, IInv, TypeOK, ControlInv
<1>2. Queued(queue, Nodes \ {h}, N - 1)
  BY DEF Flip, IInv, ListInv
<1>3. Queued(Rest("list_add_back", 1, queue, h), (Nodes \ {h}) \cup {h}, (N - 1) + 1)
  BY <1>1, <1>2, AddBackWhole, NodeArithmetic
<1>4. Queued(Rest("list_add_back", 1, queue, h), Nodes, N)
  BY <1>1, <1>3, NodeArithmetic
<1>5. QED
  BY <1>1, <1>4 DEF ListInv

(* A list statement of the handler keeps the list the call will leave. *)
LEMMA ListHandlerStatement ==
  ASSUME IInv, Safe, HandlerStatement
  PROVE  ListInv'
<1> DEFINE f == HandlerFunction
           h == handler.node
           k == handler.at
<1>1. /\ main.call \in {"block", "advance"} /\ main' = main
      /\ handler.call \in {"remove", "add_back"} /\ handler \in HandlerFrame
      /\ k \in 1 .. 4 /\ h \in Nodes /\ HandlerNode = h /\ status = "running"
  BY MainOutside DEF HandlerStatement, HandlerRuns, HandlerNode, HandlerFrame,
                     IInv, TypeOK, ControlInv
<1>2. /\ f = IF handler.call = "remove" THEN "list_remove" ELSE "list_add_back"
      /\ Length(f) = 4 /\ f # "list_remove_unchecked"
  BY <1>1 DEF HandlerFunction, Length
<1>3. /\ queue' = Statement(f, k, queue, h) /\ status' = "running"
      /\ handler' = IF k < 4 THEN [handler EXCEPT !.at = @ + 1] ELSE HandlerAfterCall
  BY <1>1, <1>2 DEF HandlerStatement, DerefsNull
<1>4. CASE k < 4
  <2>1. handler'.call = handler.call /\ handler'.at = k + 1 /\ handler'.node = h
    BY <1>1, <1>3, <1>4 DEF HandlerFrame
  <2>2. Rest(f, k + 1, queue', h) = Rest(f, k, queue, h)
    BY <1>1, <1>3, <1>4, Progress
  <2>3. QED
    BY <1>1, <1>2, <1>3, <2>1, <2>2 DEF IInv, ListInv
<1>5. CASE ~(k < 4)
  <2>1. queue' = Rest(f, k, queue, h) /\ handler' = HandlerAfterCall
    BY <1>1, <1>3, <1>5, Progress
  <2>2. CASE handler.call = "remove"
    <3>1. handler'.call = "flip" /\ handler'.node = h
      BY <2>1, <2>2 DEF HandlerAfterCall, HandlerCall
    <3>2. Queued(queue', Nodes \ {h}, N - 1)
      BY <1>2, <2>1, <2>2 DEF IInv, ListInv
    <3>3. QED
      BY <1>1, <1>3, <3>1, <3>2 DEF ListInv
  <2>3. CASE handler.call = "add_back"
    <3>1. handler'.call = "idle"
      BY <2>1, <2>3 DEF HandlerAfterCall, Idle
    <3>2. Queued(queue', Nodes, N)
      BY <1>2, <2>1, <2>3 DEF IInv, ListInv
    <3>3. QED
      BY <1>1, <1>3, <3>1, <3>2 DEF ListInv
  <2>4. QED
    BY <1>1, <2>2, <2>3
<1>6. QED
  BY <1>4, <1>5

(* The three parts together are inductive. *)
LEMMA InvNext == IInv /\ [Next]_vars => IInv'
<1> SUFFICES ASSUME IInv, [Next]_vars PROVE IInv'
  OBVIOUS
<1>1. TypeOK' /\ ControlInv'
  BY ControlNext DEF IInv
<1>2. ListInv'
  <2>1. CASE ~Safe
    BY <2>1 DEF ListInv
  <2>2. CASE Safe /\ UNCHANGED vars
    BY <2>2 DEF IInv, ListInv, vars, MainNode
  <2>3. CASE Safe /\ Next
    BY <2>3, ListMain, ListSeed, ListKernel, ListMainStatement, ListTick, ListFlip,
       ListHandlerStatement DEF Next, Main, Handler
  <2>4. QED
    BY <2>1, <2>2, <2>3
<1>3. QED
  BY <1>1, <1>2 DEF IInv

----------------------------------------------------------------------------
(* The refinement of RunQueue, step by step.  MappedSame makes a step      *)
(* invisible; the lemmas after it follow the statements of the three list  *)
(* functions.                                                              *)

(* What the mapped state depends on. *)
LEMMA MappedSame ==
  ASSUME Order' = Order, Holder' = Holder, Held' = Held, Turn' = Turn
  PROVE  UNCHANGED RQ!vars
BY DEF RQ!vars

(* A node is put at an end of the others. *)
LEMMA PushNode ==
  ASSUME NEW n \in Nodes, NEW L \in Nat, NEW s \in [1 .. L -> Nodes \ {n}]
  PROVE  <<n>> \o s = WithInFront(n, s, L) /\ Append(s, n) = WithBehind(s, L, n)
<1>1. s \in [1 .. L -> Nodes]
  OBVIOUS
<1> QED BY <1>1, PushIs

(* Statements of list_add_back, in the middle of a call. *)
LEMMA AppendingStep ==
  ASSUME NEW q \in List, NEW n \in Nodes, NEW L \in 0 .. N - 1, NEW k \in 1 .. 3,
         NEW s \in [1 .. L -> Nodes \ {n}],
         \A i, j \in 1 .. L : s[i] = s[j] => i = j,
         Appending(k, q, s, L, n),
         NEW r \in List, r = Statement("list_add_back", k, q, n)
  PROVE  /\ Appending(k + 1, r, s, L, n)
         /\ Walk(q) = s
         /\ Walk(r) = IF k = 3 THEN Append(s, n) ELSE s
<1>1. Follows(q, s, L) /\ L \in 0 .. N
  BY NAssumption DEF Appending
<1>2. CASE k \in 1 .. 2
  <2>1. /\ r.head = q.head /\ r.tail = q.tail
        /\ \A m \in Nodes \ {n} : r.next[m] = q.next[m]
        /\ k = 1 => r.next[n] = Null
        /\ k # 1 => r.next = q.next
    BY <1>2, AddBackWalk
  <2>2. Follows(r, s, L) /\ Walk(r) = s /\ Walk(q) = s
    BY <1>1, <2>1, WalkKept
  <2> QED BY <1>2, <2>1, <2>2 DEF Appending
<1>3. CASE k = 3
  <2>1. q.tail = (IF L = 0 THEN Null ELSE s[L]) /\ q.next[n] = Null
    BY <1>3 DEF Appending
  <2>2. Follows(r, WithBehind(s, L, n), L + 1) /\ Walk(r) = WithBehind(s, L, n)
    BY <1>1, <1>3, <2>1, AddBackThird
  <2>3. Append(s, n) = WithBehind(s, L, n)
    <3>1. L \in Nat
      BY NAssumption
    <3> QED BY <3>1, PushNode
  <2>4. Walk(q) = s
    <3>1. s \in [1 .. L -> Nodes]
      OBVIOUS
    <3> QED BY <1>1, <3>1, WalkFollows
  <2> QED BY <1>3, <2>2, <2>3, <2>4 DEF Appending
<1> QED BY <1>2, <1>3

(* The last statement of list_add_back only sets the tail. *)
LEMMA AppendingLast ==
  ASSUME NEW q \in List, NEW n \in Nodes, NEW r, r = Statement("list_add_back", 4, q, n)
  PROVE  r.head = q.head /\ r.next = q.next /\ r.tail = n /\ Walk(r) = Walk(q)
<1>1. r.head = q.head /\ r.next = q.next /\ r.tail = n
  BY BackStatements DEF List
<1> QED BY <1>1, WalkSame

(* The nodes seeded so far. *)
LEMMA SeededFacts ==
  ASSUME NEW c \in Nodes
  PROVE  /\ c \in 0 .. N - 1 /\ Seeded(c) \in [1 .. c -> Nodes \ {c}]
         /\ \A i, j \in 1 .. c : Seeded(c)[i] = Seeded(c)[j] => i = j
         /\ Append(Seeded(c), c) = Seeded(c + 1)
         /\ Seeded(c + 1) \in [1 .. c + 1 -> Nodes]
<1>1. c \in 0 .. N - 1 /\ Seeded(c) \in [1 .. c -> Nodes \ {c}]
      /\ \A i, j \in 1 .. c : Seeded(c)[i] = Seeded(c)[j] => i = j
      /\ Seeded(c + 1) \in [1 .. c + 1 -> Nodes]
  BY NAssumption DEF Seeded, Nodes
<1>2. Append(Seeded(c), c) = WithBehind(Seeded(c), c, c)
  <2>1. Seeded(c) \in [1 .. c -> Nodes] /\ c \in Nat
    BY <1>1
  <2> QED BY <2>1, PushIs
<1>3. WithBehind(Seeded(c), c, c) = Seeded(c + 1)
  BY <1>1 DEF Seeded, WithBehind
<1> QED BY <1>1, <1>2, <1>3

(* The turn goes to the next node, also when iter wraps. *)
LEMMA TurnWraps ==
  ASSUME iter \in 0 .. IterWidth - 1
  PROVE  /\ ((iter + 1) % IterWidth) % N = (iter + 1) % N
         /\ (iter + 1) % N = ((iter % N) + 1) % N
<1>1. N \in Nat /\ N > 0 /\ IterWidth \in Nat /\ IterWidth > 0 /\ IterWidth % N = 0 /\ iter \in Nat
  BY NAssumption, WidthAssumption
<1>2. ((iter + 1) % IterWidth) % N = (iter + 1) % N
  <2>1. CASE iter + 1 < IterWidth
    <3>1. (iter + 1) % IterWidth = iter + 1
      BY <1>1, <2>1
    <3> QED BY <3>1
  <2>2. CASE iter + 1 = IterWidth
    <3>1. (iter + 1) % IterWidth = 0 /\ 0 % N = 0
      BY <1>1, <2>2
    <3> QED BY <1>1, <2>2, <3>1
  <2> QED BY <1>1, <2>1, <2>2
<1>3. (iter + 1) % N = ((iter % N) + 1) % N
  <2>1. N \in Nat \ {0} /\ iter \in Nat
    BY <1>1
  <2> QED BY <2>1, NextRemainder
<1> QED BY <1>2, <1>3

(* The thread's steps outside the list functions are invisible. *)
LEMMA RefineMain ==
  ASSUME IInv, WalkInv, Safe, Block \/ Scan \/ Touch \/ TouchDone \/ Unblock \/ Advance
  PROVE  WalkInv' /\ UNCHANGED RQ!vars
<1>0. /\ queue' = queue /\ handler' = handler /\ handler.call = "idle"
      /\ main \in Frame /\ iter \in 0 .. IterWidth - 1 /\ MainNode \in Nodes
      /\ main.call \notin {"seed", "seed_add"}
  BY MainNodeType DEF IInv, TypeOK, Frame, MainRuns,
                      Block, Scan, Touch, TouchDone, Unblock, Advance
<1>1. /\ main'.call \notin {"seed", "seed_add"}
      /\ ~HandlerHolds /\ ~HandlerHolds'
  BY <1>0 DEF HandlerHolds, Block, Scan, Touch, TouchDone, Unblock, Advance, MainGoto, MainCall,
              LoopStart, Frame
<1>2. Order' = Order
  BY <1>0, <1>1 DEF Order, Armed
<1>3. SUFFICES /\ main'.call = "remove" => main'.at = 1 /\ Queued(queue, Nodes, N)
               /\ main'.call = "add_front" => main'.at = 1
               /\ MainHolds' <=> MainHolds
               /\ MainHolds => MainNode' = MainNode
               /\ Turn' = Turn
  <2>1. WalkInv'
    BY <1>0, <1>1, <1>3 DEF WalkInv, HandlerHolds
  <2>2. Holder' = Holder /\ Held' = Held
    BY <1>1, <1>3 DEF Holder, Held
  <2> QED BY <1>2, <1>3, <2>1, <2>2, MappedSame
<1>4. CASE Block
  <2>1. main.call = "block" /\ main'.call = "remove" /\ main'.at = 1 /\ iter' = iter
    BY <1>4 DEF Block, MainGoto, MainCall
  <2>2. Queued(queue, Nodes, N)
    BY <1>0, <2>1 DEF IInv, ListInv
  <2> QED BY <2>1, <2>2 DEF MainHolds, Turn
<1>5. CASE Scan
  <2>1. main.call = "scan" /\ main'.call = "touch" /\ iter' = iter
    BY <1>5 DEF Scan
  <2> QED BY <2>1 DEF MainHolds, MainNode, Turn
<1>6. CASE Touch
  <2>1. main.call = "touch" /\ main'.call = "touch" /\ iter' = iter
    BY <1>0, <1>6 DEF Touch, Frame
  <2> QED BY <2>1 DEF MainHolds, MainNode, Turn
<1>7. CASE TouchDone
  <2>1. main.call = "touch" /\ main'.call = "add_front" /\ main'.at = 1 /\ iter' = iter
    BY <1>7 DEF TouchDone, MainGoto, MainCall
  <2> QED BY <2>1 DEF MainHolds, MainNode, Turn
<1>8. CASE Unblock
  <2>1. main.call = "unblock" /\ main'.call = "advance" /\ iter' = iter
    BY <1>8 DEF Unblock, MainGoto, MainCall
  <2> QED BY <2>1 DEF MainHolds, Turn
<1>9. CASE Advance
  <2>1. main.call = "advance" /\ main'.call = "block" /\ iter' = (iter + 1) % IterWidth
    BY <1>9 DEF Advance, MainGoto, MainCall, LoopStart
  <2> QED BY <1>0, <2>1, TurnWraps DEF MainHolds, Turn
<1> QED BY <1>4, <1>5, <1>6, <1>7, <1>8, <1>9

(* So is what the kernel does. *)
LEMMA RefineKernel ==
  ASSUME IInv, WalkInv, Safe, Expire \/ Deliver
  PROVE  WalkInv' /\ UNCHANGED RQ!vars
<1>1. /\ queue' = queue /\ main' = main /\ iter' = iter
      /\ \/ handler' = handler
         \/ handler.call = "idle" /\ handler'.call = "tick"
  BY DEF Expire, Deliver, HandlerCall
<1>2. /\ MainHolds' = MainHolds /\ MainNode' = MainNode
      /\ HandlerHolds' = HandlerHolds /\ (HandlerHolds => handler' = handler)
  BY <1>1 DEF MainHolds, HandlerHolds, MainNode
<1>3. WalkInv'
  BY <1>1, <1>2 DEF WalkInv
<1>4. Order' = Order /\ Holder' = Holder /\ Held' = Held /\ Turn' = Turn
  BY <1>1, <1>2 DEF Order, Armed, Holder, Held, Turn
<1> QED BY <1>3, <1>4, MappedSame

(* The seed of a node: the queue seeded so far does not hold it. *)
LEMMA RefineSeed ==
  ASSUME IInv, IInv', WalkInv, Safe, Seed
  PROVE  WalkInv' /\ UNCHANGED RQ!vars
<1> DEFINE c == main.cursor
<1>1. /\ main.call = "seed" /\ main'.call = "seed_add" /\ main'.at = 1 /\ main'.cursor = c
      /\ c \in Nodes /\ handler' = handler /\ handler.call = "idle" /\ iter' = iter
      /\ queue \in List
      /\ queue' = SetNext(SetPrev(queue, c, Null), c, Null)
  BY DEF Seed, MainRuns, MainGoto, MainCall, IInv, TypeOK, ControlInv
<1>2. queue'.head = queue.head /\ queue'.tail = queue.tail
      /\ \A m \in Nodes \ {c} : queue'.next[m] = queue.next[m]
  BY <1>1 DEF SetNext, SetPrev, List
<1>3. Appending(1, queue, Seeded(c), c, c)
  BY <1>1 DEF WalkInv
<1>4. Appending(1, queue', Seeded(c), c, c)
  <2>1. c \in 0 .. N /\ Seeded(c) \in [1 .. c -> Nodes \ {c}]
    <3>1. c \in 0 .. N - 1 /\ Seeded(c) \in [1 .. c -> Nodes \ {c}]
      BY <1>1, SeededFacts
    <3> QED BY <3>1, NAssumption
  <2>2. Follows(queue', Seeded(c), c)
    BY <1>1, <1>2, <1>3, <2>1, WalkKept DEF Appending
  <2> QED BY <1>2, <1>3, <2>2 DEF Appending
<1>5. WalkInv'
  BY <1>1, <1>4 DEF WalkInv, MainHolds
<1>6. Order' = Order /\ Holder' = Holder /\ Held' = Held /\ Turn' = Turn
  BY <1>1 DEF Order, Armed, Holder, Held, Turn, MainHolds, HandlerHolds
<1> QED BY <1>5, <1>6, MappedSame

(* What the refinement reads of a statement of the thread. *)
LEMMA MainStatementFacts ==
  ASSUME IInv, IInv', Safe, MainStatement
  PROVE  /\ MainNode \in Nodes /\ main.at \in 1 .. 4 /\ main \in Frame
         /\ queue \in List /\ queue' \in List /\ iter \in 0 .. IterWidth - 1
         /\ main.call \in {"seed_add", "remove", "add_front"}
         /\ handler' = handler /\ handler.call = "idle" /\ iter' = iter
         /\ queue' = Statement(MainFunction, main.at, queue, MainNode)
         /\ main' = IF main.at < 4 THEN [main EXCEPT !.at = @ + 1] ELSE AfterMainCall
<1>1. /\ MainNode \in Nodes /\ main.at \in 1 .. 4 /\ main \in Frame
      /\ queue \in List /\ queue' \in List /\ iter \in 0 .. IterWidth - 1
      /\ main.call \in {"seed_add", "remove", "add_front"}
      /\ status' = "running" /\ handler' = handler /\ handler.call = "idle" /\ iter' = iter
  BY MainNodeType DEF IInv, TypeOK, ControlInv, ListInv, Frame, MainStatement, MainRuns
<1>2. MainFunction # "list_remove_unchecked" /\ Length(MainFunction) = 4
  BY <1>1 DEF MainFunction, Length
<1> QED BY <1>1, <1>2 DEF MainStatement, DerefsNull

(* The list_add_back of the seed: after the last one the whole queue is there. *)
LEMMA RefineSeedAdd ==
  ASSUME IInv, IInv', WalkInv, Safe, MainStatement, main.call = "seed_add"
  PROVE  WalkInv' /\ UNCHANGED RQ!vars
<1> DEFINE c == main.cursor
           k == main.at
<1>1. /\ k \in 1 .. 4 /\ queue \in List /\ queue' \in List /\ c \in Nodes /\ main \in Frame
      /\ handler' = handler /\ handler.call = "idle" /\ iter' = iter
      /\ queue' = Statement("list_add_back", k, queue, c)
      /\ main' = IF k < 4 THEN [main EXCEPT !.at = @ + 1] ELSE AfterMainCall
  BY MainStatementFacts DEF MainFunction, MainNode
<1>2. Appending(k, queue, Seeded(c), c, c)
  BY DEF WalkInv
<1>3. /\ c \in 0 .. N - 1 /\ Seeded(c) \in [1 .. c -> Nodes \ {c}]
      /\ \A i, j \in 1 .. c : Seeded(c)[i] = Seeded(c)[j] => i = j
      /\ Append(Seeded(c), c) = Seeded(c + 1)
      /\ Seeded(c + 1) \in [1 .. c + 1 -> Nodes]
      /\ Seeded(c + 1)[c + 1] = c
  <2>1. Seeded(c + 1)[c + 1] = c
    BY <1>1 DEF Seeded, Nodes
  <2> QED BY <1>1, <2>1, SeededFacts
<1> HIDE DEF c, k
<1>4. CASE k < 4
  <2>1. main'.call = "seed_add" /\ main'.at = k + 1 /\ main'.cursor = c
    BY <1>1, <1>4 DEF Frame, c, k
  <2>2. Appending(k + 1, queue', Seeded(c), c, c)
    <3>1. k \in 1 .. 3
      BY <1>1, <1>4
    <3> QED BY <1>1, <1>2, <1>3, <3>1, AppendingStep
  <2>3. WalkInv'
    BY <1>1, <2>1, <2>2 DEF WalkInv, MainHolds
  <2>4. Order' = Order /\ Holder' = Holder /\ Held' = Held /\ Turn' = Turn
    BY <1>1, <2>1 DEF Order, Armed, Holder, Held, Turn, MainHolds, HandlerHolds
  <2> QED BY <2>3, <2>4, MappedSame
<1>5. CASE k = 4
  <2>1. /\ queue'.head = queue.head /\ queue'.next = queue.next /\ queue'.tail = c
        /\ Walk(queue') = Walk(queue)
    BY <1>1, <1>5, AppendingLast
  <2>2. Follows(queue, Seeded(c + 1), c + 1)
    BY <1>2, <1>3, <1>5 DEF Appending
  <2>3. Follows(queue', Seeded(c + 1), c + 1)
    BY <2>1, <2>2 DEF Follows
  <2>4. Walk(queue') = Seeded(c + 1)
    <3>1. c + 1 \in 0 .. N
      BY <1>3, NAssumption
    <3> QED BY <1>3, <2>3, <3>1, WalkFollows
  <2>5. CASE c + 1 < N
    <3>1. main'.call = "seed" /\ main'.cursor = c + 1
      BY <1>1, <1>5, <2>5 DEF AfterMainCall, c, k
    <3>2. Appending(1, queue', Seeded(c + 1), c + 1, c + 1)
      BY <1>3, <2>1, <2>3 DEF Appending
    <3>3. WalkInv'
      BY <1>1, <3>1, <3>2 DEF WalkInv, MainHolds
    <3>4. Order' = Order /\ Holder' = Holder /\ Held' = Held /\ Turn' = Turn
      BY <1>1, <3>1 DEF Order, Armed, Holder, Held, Turn, MainHolds, HandlerHolds
    <3> QED BY <3>3, <3>4, MappedSame
  <2>6. CASE ~(c + 1 < N)
    <3>1. main'.call = "block" /\ c + 1 = N
      BY <1>1, <1>3, <1>5, <2>6, NAssumption DEF AfterMainCall, LoopStart, c, k
    <3>2. WalkInv'
      BY <1>1, <3>1 DEF WalkInv, MainHolds
    <3>3. Order' = Order
      BY <2>4, <3>1 DEF Order, Armed
    <3>4. Holder' = Holder /\ Held' = Held /\ Turn' = Turn
      BY <1>1, <3>1 DEF Holder, Held, Turn, MainHolds, HandlerHolds
    <3> QED BY <3>2, <3>3, <3>4, MappedSame
  <2> QED BY <2>5, <2>6
<1> QED BY <1>1, <1>4, <1>5

(* The sequence t is s without its p-th element n. *)
Taken(s, t, n, p) ==
  /\ s[p] = n /\ t = RemoveAt(s, p)
  /\ p = 1 => n = Head(s) /\ t = Tail(s)

(* A list_remove under way: its first statement takes the node out of the  *)
(* walk, wherever it is queued; the others leave the walk alone.           *)
LEMMA RemoveFirstIs ==
  ASSUME NEW q \in List, NEW n \in Nodes, Queued(q, Nodes, N),
         NEW r, r = Statement("list_remove", 1, q, n)
  PROVE  /\ \E p \in 1 .. Len(Walk(q)) :
              (q.head = n => p = 1) /\ Taken(Walk(q), Walk(r), n, p)
         /\ Meets(r, Nodes \ {n}, N - 1)
<1>1. N \in Nat \ {0} /\ N \in 0 .. N /\ Nodes \in SUBSET Nodes
  BY NAssumption
<1>2. Walk(q) \in [1 .. N -> Nodes]
  BY <1>1, QueuedWalk
<1>3. PICK p \in 1 .. N :
        /\ Walk(q)[p] = n /\ (q.head = n => p = 1)
        /\ Walk(r) = WithoutAt(Walk(q), N, p)
        /\ Walk(r) \in [1 .. N - 1 -> Nodes \ {n}] /\ Follows(r, Walk(r), N - 1)
  BY <1>1, RemoveWalkFirst, Z3
<1>4. Len(Walk(q)) = N
  BY <1>1, <1>2
<1>5. RemoveAt(Walk(q), p) = WithoutAt(Walk(q), N, p)
  BY <1>1, <1>2, RemoveAtIs
<1>6. Head(Walk(q)) = Walk(q)[1] /\ Tail(Walk(q)) = WithoutAt(Walk(q), N, 1)
  BY <1>1, <1>2, HeadTailIs
<1>7. Meets(r, Nodes \ {n}, N - 1)
  BY <1>3 DEF Meets
<1> QED BY <1>3, <1>4, <1>5, <1>6, <1>7 DEF Taken

LEMMA RemoveRestIs ==
  ASSUME NEW q \in List, NEW n \in Nodes, Meets(q, Nodes \ {n}, N - 1), NEW k \in 2 .. 4,
         NEW r, r = Statement("list_remove", k, q, n)
  PROVE  Walk(r) = Walk(q) /\ Meets(r, Nodes \ {n}, N - 1)
<1>1. PICK s \in [1 .. N - 1 -> Nodes \ {n}] : Follows(q, s, N - 1)
  BY DEF Meets
<1>2. r.head = q.head /\ \A m \in Nodes \ {n} : r.next[m] = q.next[m]
  BY RemoveWalkRest
<1>3. N - 1 \in 0 .. N
  BY NAssumption
<1>4. Follows(r, s, N - 1) /\ Walk(r) = s /\ Walk(q) = s
  BY <1>1, <1>2, <1>3, WalkKept
<1> QED BY <1>4 DEF Meets

(* The thread's list_remove: it takes the node whose turn it is. *)
LEMMA RefineMainRemove ==
  ASSUME IInv, IInv', WalkInv, Safe, MainStatement, main.call = "remove"
  PROVE  WalkInv' /\ (RQ!Take \/ UNCHANGED RQ!vars)
<1> DEFINE n == MainNode
           k == main.at
<1>1. /\ k \in 1 .. 4 /\ queue \in List /\ queue' \in List /\ n \in Nodes /\ main \in Frame
      /\ handler' = handler /\ handler.call = "idle" /\ iter' = iter
      /\ queue' = Statement("list_remove", k, queue, n)
      /\ main' = IF k < 4 THEN [main EXCEPT !.at = @ + 1] ELSE MainCall("scan")
      /\ n = iter % N
  BY MainStatementFacts DEF MainFunction, MainNode, AfterMainCall
<1>2. /\ main'.call = (IF k < 4 THEN "remove" ELSE "scan")
      /\ k < 4 => main'.at = k + 1
      /\ MainNode' = n /\ MainHolds' /\ (MainHolds <=> k > 1)
  BY <1>1 DEF Frame, MainCall, MainNode, MainHolds
<1> HIDE DEF n, k
<1>3. ~HandlerHolds /\ ~HandlerHolds'
  BY <1>1 DEF HandlerHolds
<1>4. Turn = n /\ Turn' = n
  BY <1>1, <1>2 DEF Turn, MainHolds
<1>5. ASSUME Meets(queue', Nodes \ {n}, N - 1) PROVE WalkInv'
  <2>1. ~(main'.call = "remove" /\ main'.at = 1)
    BY <1>1, <1>2
  <2> QED BY <1>1, <1>2, <1>5, <2>1 DEF WalkInv, n
<1>6. CASE k = 1
  <2>1. Queued(queue, Nodes, N)
    BY <1>6 DEF WalkInv, k
  <2>2. PICK p \in 1 .. Len(Walk(queue)) :
          Walk(queue)[p] = n /\ Walk(queue') = RemoveAt(Walk(queue), p)
    <3>1. \E p \in 1 .. Len(Walk(queue)) :
            (queue.head = n => p = 1) /\ Taken(Walk(queue), Walk(queue'), n, p)
      BY <1>1, <1>6, <2>1, RemoveFirstIs
    <3> QED BY <3>1 DEF Taken
  <2>3. Meets(queue', Nodes \ {n}, N - 1)
    BY <1>1, <1>6, <2>1, RemoveFirstIs
  <2>4. Order = Walk(queue) /\ Order' = Walk(queue')
    BY <1>2 DEF Order, Armed
  <2>5. Holder = "none" /\ Holder' = "main" /\ Held' = n
    BY <1>2, <1>3, <1>6 DEF Holder, Held, n
  <2>6. RQ!Take
    <3>1. RemoveAt(Order, p) = RQ!RemoveAt(Order, p)
      BY DEF RemoveAt, RQ!RemoveAt
    <3> QED BY <1>4, <2>2, <2>4, <2>5, <3>1 DEF RQ!Take
  <2> QED BY <1>5, <2>3, <2>6
<1>7. CASE k # 1
  <2>1. Meets(queue, Nodes \ {n}, N - 1) /\ k \in 2 .. 4
    BY <1>1, <1>2, <1>7 DEF WalkInv, n
  <2>2. Walk(queue') = Walk(queue) /\ Meets(queue', Nodes \ {n}, N - 1)
    BY <1>1, <2>1, RemoveRestIs
  <2>3. Order' = Order
    BY <1>2, <2>2 DEF Order, Armed
  <2>4. MainHolds
    BY <1>2, <2>1
  <2>5. Holder' = Holder /\ Held' = Held
    BY <1>2, <2>4 DEF Holder, Held, n
  <2> QED BY <1>4, <1>5, <2>2, <2>3, <2>5, MappedSame
<1> QED BY <1>6, <1>7

(* The thread's list_add_front: the node is queued again by its last statement. *)
LEMMA RefineMainAddFront ==
  ASSUME IInv, IInv', WalkInv, Safe, MainStatement, main.call = "add_front"
  PROVE  WalkInv' /\ (RQ!PutFront \/ UNCHANGED RQ!vars)
<1> DEFINE n == MainNode
           k == main.at
<1>1. /\ k \in 1 .. 4 /\ queue \in List /\ queue' \in List /\ n \in Nodes /\ main \in Frame
      /\ handler' = handler /\ handler.call = "idle" /\ iter' = iter
      /\ iter \in 0 .. IterWidth - 1
      /\ queue' = Statement("list_add_front", k, queue, n)
      /\ main' = IF k < 4 THEN [main EXCEPT !.at = @ + 1] ELSE MainCall("unblock")
      /\ n = iter % N
  BY MainStatementFacts DEF MainFunction, MainNode, AfterMainCall
<1>2. /\ main'.call = (IF k < 4 THEN "add_front" ELSE "unblock")
      /\ k < 4 => main'.at = k + 1
      /\ MainNode' = n /\ MainHolds /\ (MainHolds' <=> k < 4)
  BY <1>1 DEF Frame, MainCall, MainNode, MainHolds
<1>3. Meets(queue, Nodes \ {n}, N - 1) /\ (k > 2 => queue.next[n] = queue.head)
  BY <1>2 DEF WalkInv
<1> HIDE DEF n, k
<1>4. PICK s \in [1 .. N - 1 -> Nodes \ {n}] : Follows(queue, s, N - 1)
  BY <1>3 DEF Meets
<1>5. ~HandlerHolds /\ ~HandlerHolds'
  BY <1>1 DEF HandlerHolds
<1>6. N \in Nat \ {0} /\ N - 1 \in Nat /\ N - 1 \in 0 .. N - 1 /\ N - 1 \in 0 .. N
  BY NAssumption
<1>7. CASE k < 4
  <2>1. k \in 1 .. 3
    BY <1>1, <1>7
  <2>2. /\ queue'.head = queue.head
        /\ \A m \in Nodes \ {n} : queue'.next[m] = queue.next[m]
        /\ k = 2 => queue'.next[n] = queue.head
        /\ k = 3 => queue'.next[n] = queue.next[n]
    BY <1>1, <2>1, AddFrontWalk
  <2>3. Follows(queue', s, N - 1) /\ Walk(queue') = s /\ Walk(queue) = s
    BY <1>1, <1>4, <1>6, <2>2, WalkKept
  <2>4. k + 1 > 2 => queue'.next[n] = queue'.head
    BY <1>1, <1>3, <2>1, <2>2
  <2>5. Meets(queue', Nodes \ {n}, N - 1)
    BY <2>3 DEF Meets
  <2>6. WalkInv'
    BY <1>1, <1>2, <1>7, <2>4, <2>5 DEF WalkInv, n
  <2>7. Order' = Order /\ Turn' = Turn
    BY <1>1, <1>2, <1>7, <2>3 DEF Order, Armed, Turn
  <2>8. MainHolds /\ MainHolds'
    BY <1>2, <1>7
  <2>9. Holder' = Holder /\ Held' = Held
    BY <1>2, <2>8 DEF Holder, Held, n
  <2> QED BY <2>6, <2>7, <2>9, MappedSame
<1>8. CASE k = 4
  <2>1. Walk(queue') = WithInFront(n, s, N - 1)
    <3>1. queue.next[n] = queue.head
      BY <1>3, <1>8
    <3> QED BY <1>1, <1>4, <1>6, <1>8, <3>1, AddFrontLast
  <2>2. <<n>> \o s = WithInFront(n, s, N - 1)
    BY <1>1, <1>6, PushNode
  <2>3. Walk(queue) = s
    <3>1. s \in [1 .. N - 1 -> Nodes]
      OBVIOUS
    <3> QED BY <1>4, <1>6, <3>1, WalkFollows
  <2>4. Order = s /\ Order' = <<n>> \o s
    BY <1>2, <1>8, <2>1, <2>2, <2>3 DEF Order, Armed
  <2>5. Holder = "main" /\ Held = n /\ Holder' = "none" /\ Held' = -1
    BY <1>2, <1>5, <1>8 DEF Holder, Held, n
  <2>6. Turn' = (Turn + 1) % N
    <3>1. Turn = iter % N /\ Turn' = (iter + 1) % N
      BY <1>1, <1>2, <1>8 DEF Turn
    <3> QED BY <1>1, <3>1, TurnWraps
  <2>7. RQ!PutFront
    BY <2>4, <2>5, <2>6 DEF RQ!PutFront
  <2>8. WalkInv'
    BY <1>1, <1>2, <1>8 DEF WalkInv
  <2> QED BY <2>7, <2>8
<1> QED BY <1>1, <1>7, <1>8

(* Where both sides are while a handler runs: the thread holds no node. *)
LEMMA HandlerFacts ==
  ASSUME IInv, Safe, HandlerRuns
  PROVE  /\ main.call \in {"block", "advance"} /\ ~MainHolds
         /\ handler.call \in {"tick", "remove", "flip", "add_back"}
         /\ handler.call # "tick" => handler.node \in Nodes
         /\ handler.at \in 1 .. 4 /\ handler \in HandlerFrame /\ queue \in List
<1>1. /\ main.call \in {"block", "advance"}
      /\ handler.call \in {"tick", "remove", "flip", "add_back"}
  BY MainOutside
<1> QED BY <1>1 DEF MainHolds, HandlerFrame, IInv, TypeOK, ControlInv

(* The count of a tick is invisible: it only finds the head. *)
LEMMA RefineTick ==
  ASSUME IInv, WalkInv, Safe, Tick
  PROVE  WalkInv' /\ UNCHANGED RQ!vars
<1>1. /\ main.call \in {"block", "advance"} /\ main' = main /\ queue' = queue /\ iter' = iter
      /\ handler.call = "tick" /\ ~MainHolds
  BY HandlerFacts DEF Tick
<1>2. Queued(queue, Nodes, N)
  BY <1>1 DEF IInv, ListInv
<1>3. queue.head \in Nodes /\ queue.head # Null
  BY <1>2, NAssumption, HeadQueued
<1>4. handler'.call = "remove" /\ handler'.at = 1 /\ handler'.node = queue.head
  BY <1>3 DEF Tick, SwitchFrom
<1>5. ~MainHolds' /\ ~HandlerHolds /\ ~HandlerHolds'
  BY <1>1, <1>4 DEF MainHolds, HandlerHolds
<1>6. WalkInv'
  BY <1>1, <1>2, <1>4, <1>5 DEF WalkInv
<1>7. Order' = Order /\ Holder' = Holder /\ Held' = Held /\ Turn' = Turn
  BY <1>1, <1>5 DEF Order, Armed, Holder, Held, Turn
<1> QED BY <1>6, <1>7, MappedSame

(* So is the flip, between the two list functions. *)
LEMMA RefineFlip ==
  ASSUME IInv, WalkInv, Safe, Flip
  PROVE  WalkInv' /\ UNCHANGED RQ!vars
<1> DEFINE h == handler.node
<1>1. /\ main.call \in {"block", "advance"} /\ main' = main /\ queue' = queue /\ iter' = iter
      /\ handler.call = "flip" /\ ~MainHolds /\ h \in Nodes
      /\ handler'.call = "add_back" /\ handler'.at = 1 /\ handler'.node = h
  BY HandlerFacts DEF Flip, HandlerCall
<1>2. Queued(queue, Nodes \ {h}, N - 1)
  BY <1>1 DEF IInv, ListInv
<1> HIDE DEF h
<1>3. N - 1 \in 0 .. N /\ Nodes \ {h} \in SUBSET Nodes
  BY NAssumption
<1>4. /\ Walk(queue) \in [1 .. N - 1 -> Nodes \ {h}]
      /\ \A i, j \in 1 .. N - 1 : Walk(queue)[i] = Walk(queue)[j] => i = j
      /\ Follows(queue, Walk(queue), N - 1) /\ Represents(queue, Walk(queue), N - 1)
  BY <1>2, <1>3, QueuedWalk
<1>5. Appending(1, queue, Walk(queue), N - 1, h)
  BY <1>4 DEF Appending, Represents
<1>6. ~MainHolds' /\ HandlerHolds /\ HandlerHolds'
  BY <1>1 DEF MainHolds, HandlerHolds
<1>7. WalkInv'
  BY <1>1, <1>4, <1>5, <1>6 DEF WalkInv
<1>8. Order' = Order /\ Turn' = Turn
  BY <1>1 DEF Order, Armed, Turn
<1>9. Holder' = Holder /\ Held' = Held
  BY <1>1, <1>6 DEF Holder, Held, h
<1> QED BY <1>7, <1>8, <1>9, MappedSame

(* What the refinement reads of a statement of the handler. *)
LEMMA HandlerStatementFacts ==
  ASSUME IInv, IInv', Safe, HandlerStatement
  PROVE  /\ handler.call \in {"remove", "add_back"}
         /\ queue' \in List /\ main' = main /\ iter' = iter
         /\ queue' = Statement(HandlerFunction, handler.at, queue, handler.node)
         /\ handler' = IF handler.at < 4 THEN [handler EXCEPT !.at = @ + 1]
                                         ELSE HandlerAfterCall
<1>1. /\ handler.call \in {"remove", "add_back"} /\ queue' \in List /\ main' = main
      /\ iter' = iter /\ status' = "running"
  BY HandlerFacts, MainOutside DEF IInv, TypeOK, ListInv, HandlerStatement
<1>2. /\ HandlerFunction # "list_remove_unchecked" /\ Length(HandlerFunction) = 4
      /\ HandlerNode = handler.node
  BY <1>1 DEF HandlerFunction, Length, HandlerNode
<1> QED BY <1>1, <1>2 DEF HandlerStatement, DerefsNull

(* The handler's list_remove: it takes the head. *)
LEMMA RefineHandlerRemove ==
  ASSUME IInv, IInv', WalkInv, Safe, HandlerStatement, handler.call = "remove"
  PROVE  WalkInv' /\ (RQ!TakeHead \/ UNCHANGED RQ!vars)
<1> DEFINE h == handler.node
           k == handler.at
<1>1. /\ k \in 1 .. 4 /\ queue \in List /\ queue' \in List /\ h \in Nodes
      /\ handler \in HandlerFrame /\ main.call \in {"block", "advance"}
      /\ main' = main /\ iter' = iter /\ ~MainHolds
      /\ queue' = Statement("list_remove", k, queue, h)
      /\ handler' = IF k < 4 THEN [handler EXCEPT !.at = @ + 1] ELSE HandlerCall("flip")
  BY HandlerFacts, HandlerStatementFacts
     DEF HandlerStatement, HandlerFunction, HandlerAfterCall
<1>2. /\ handler'.call = (IF k < 4 THEN "remove" ELSE "flip")
      /\ k < 4 => handler'.at = k + 1
      /\ handler'.node = h
  BY <1>1 DEF HandlerFrame, HandlerCall
<1> HIDE DEF h, k
<1>3. ~MainHolds' /\ HandlerHolds' /\ (HandlerHolds <=> k > 1)
  BY <1>1, <1>2 DEF MainHolds, HandlerHolds, k
<1>4. Turn' = Turn /\ Order = Walk(queue) /\ Order' = Walk(queue')
  BY <1>1 DEF Turn, Order, Armed
<1>5. ASSUME Meets(queue', Nodes \ {h}, N - 1) PROVE WalkInv'
  <2>1. ~(handler'.call = "remove" /\ handler'.at = 1)
    BY <1>1, <1>2
  <2> QED BY <1>1, <1>2, <1>3, <1>5, <2>1 DEF WalkInv
<1>6. CASE k = 1
  <2>1. Queued(queue, Nodes, N) /\ queue.head = h
    BY <1>6 DEF WalkInv, k, h
  <2>2. /\ \E p \in 1 .. Len(Walk(queue)) :
             (queue.head = h => p = 1) /\ Taken(Walk(queue), Walk(queue'), h, p)
        /\ Meets(queue', Nodes \ {h}, N - 1)
    BY <1>1, <1>6, <2>1, RemoveFirstIs
  <2>3. h = Head(Walk(queue)) /\ Walk(queue') = Tail(Walk(queue))
    BY <2>1, <2>2 DEF Taken
  <2>4. Holder = "none" /\ Holder' = "handler" /\ Held' = h
    BY <1>1, <1>2, <1>3, <1>6 DEF Holder, Held
  <2>5. RQ!TakeHead
    BY <1>4, <2>3, <2>4 DEF RQ!TakeHead
  <2> QED BY <1>5, <2>2, <2>5
<1>7. CASE k # 1
  <2>1. HandlerHolds /\ k \in 2 .. 4
    BY <1>1, <1>3, <1>7
  <2>2. Meets(queue, Nodes \ {h}, N - 1)
    BY <2>1 DEF WalkInv, h, k
  <2>3. Walk(queue') = Walk(queue) /\ Meets(queue', Nodes \ {h}, N - 1)
    BY <1>1, <2>1, <2>2, RemoveRestIs
  <2>4. Holder' = Holder /\ Held' = Held
    BY <1>1, <1>2, <1>3, <2>1 DEF Holder, Held, h
  <2> QED BY <1>4, <1>5, <2>3, <2>4, MappedSame
<1> QED BY <1>6, <1>7

(* The handler's list_add_back: its third statement queues the node again. *)
LEMMA RefineHandlerAddBack ==
  ASSUME IInv, IInv', WalkInv, Safe, HandlerStatement, handler.call = "add_back"
  PROVE  WalkInv' /\ (RQ!PutBack \/ UNCHANGED RQ!vars)
<1> DEFINE h == handler.node
           k == handler.at
<1>1. /\ k \in 1 .. 4 /\ queue \in List /\ queue' \in List /\ h \in Nodes
      /\ handler \in HandlerFrame /\ main.call \in {"block", "advance"}
      /\ main' = main /\ iter' = iter /\ ~MainHolds
      /\ queue' = Statement("list_add_back", k, queue, h)
      /\ handler' = IF k < 4 THEN [handler EXCEPT !.at = @ + 1] ELSE Idle
  BY HandlerFacts, HandlerStatementFacts
     DEF HandlerStatement, HandlerFunction, HandlerAfterCall
<1>2. /\ handler'.call = (IF k < 4 THEN "add_back" ELSE "idle")
      /\ k < 4 => handler'.at = k + 1 /\ handler'.node = h
  BY <1>1 DEF HandlerFrame, Idle
<1>3. PICK s \in [1 .. N - 1 -> Nodes \ {h}] :
        /\ \A i, j \in 1 .. N - 1 : s[i] = s[j] => i = j
        /\ Appending(k, queue, s, N - 1, h)
  BY DEF WalkInv
<1> HIDE DEF h, k
<1>4. ~MainHolds' /\ (HandlerHolds <=> k <= 3) /\ (HandlerHolds' <=> k <= 2)
  BY <1>1, <1>2 DEF MainHolds, HandlerHolds, k
<1>5. Turn' = Turn /\ Order = Walk(queue) /\ Order' = Walk(queue')
  BY <1>1 DEF Turn, Order, Armed
<1>6. CASE k < 4
  <2>1. k \in 1 .. 3 /\ N - 1 \in 0 .. N - 1
    BY <1>1, <1>6, NAssumption
  <2>2. /\ Appending(k + 1, queue', s, N - 1, h)
        /\ Walk(queue) = s
        /\ Walk(queue') = IF k = 3 THEN Append(s, h) ELSE s
    BY <1>1, <1>3, <2>1, AppendingStep
  <2>3. WalkInv'
    BY <1>1, <1>2, <1>3, <1>4, <1>6, <2>2 DEF WalkInv
  <2>4. CASE k = 3
    <3>1. Holder = "handler" /\ Held = h /\ Holder' = "none" /\ Held' = -1
      BY <1>1, <1>4, <2>4 DEF Holder, Held, h
    <3>2. RQ!PutBack
      BY <1>5, <2>2, <2>4, <3>1 DEF RQ!PutBack
    <3> QED BY <2>3, <3>2
  <2>5. CASE k # 3
    <3>1. HandlerHolds /\ HandlerHolds'
      BY <1>4, <2>1, <2>5
    <3>2. Holder' = Holder /\ Held' = Held
      BY <1>1, <1>2, <1>4, <1>6, <3>1 DEF Holder, Held, h
    <3> QED BY <1>5, <2>2, <2>3, <2>5, <3>2, MappedSame
  <2> QED BY <2>4, <2>5
<1>7. CASE k = 4
  <2>1. Walk(queue') = Walk(queue)
    BY <1>1, <1>7, AppendingLast
  <2>2. Holder' = Holder /\ Held' = Held
    BY <1>1, <1>4, <1>7 DEF Holder, Held
  <2>3. WalkInv'
    BY <1>1, <1>2, <1>4, <1>7 DEF WalkInv
  <2> QED BY <1>5, <2>1, <2>2, <2>3, MappedSame
<1> QED BY <1>1, <1>6, <1>7

(* Every step is one of the abstract run queue or invisible. *)
LEMMA RefineNext ==
  ASSUME IInv, IInv', WalkInv, Safe, [Next]_vars
  PROVE  WalkInv' /\ [RQ!Next]_RQ!vars
<1>1. CASE UNCHANGED vars
  <2>1. WalkInv'
    BY <1>1 DEF WalkInv, MainHolds, MainNode, vars
  <2>2. Order' = Order /\ Holder' = Holder /\ Held' = Held /\ Turn' = Turn
    BY <1>1 DEF Order, Armed, Holder, Held, Turn, MainHolds, HandlerHolds, MainNode, vars
  <2> QED BY <2>1, <2>2, MappedSame
<1>2. CASE Main
  <2>1. CASE MainStatement
    <3>1. main.call \in {"seed_add", "remove", "add_front"}
      BY <2>1 DEF MainStatement
    <3> QED BY <2>1, <3>1, RefineSeedAdd, RefineMainRemove, RefineMainAddFront DEF RQ!Next
  <2> QED BY <1>2, <2>1, RefineSeed, RefineMain DEF Main
<1>3. CASE Expire \/ Deliver
  BY <1>3, RefineKernel
<1>4. CASE Handler
  <2>1. CASE HandlerStatement
    <3>1. handler.call \in {"remove", "add_back"}
      BY <2>1, HandlerStatementFacts
    <3> QED BY <2>1, <3>1, RefineHandlerRemove, RefineHandlerAddBack DEF RQ!Next
  <2> QED BY <1>4, <2>1, RefineTick, RefineFlip DEF Handler
<1> QED BY <1>1, <1>2, <1>3, <1>4 DEF Next

LEMMA RefineInit ==
  ASSUME Init, Safe
  PROVE  WalkInv /\ RQ!Init
<1>1. /\ main = [call |-> "seed", at |-> 1, cursor |-> 0] /\ handler = Idle
      /\ queue = EmptyList /\ iter = 0
  BY DEF Init
<1>2. ~MainHolds /\ ~HandlerHolds /\ ~Armed
  BY <1>1 DEF MainHolds, HandlerHolds, Armed, Idle
<1>3. Appending(1, queue, Seeded(0), 0, 0)
  BY <1>1 DEF Appending, Follows, EmptyList
<1>4. WalkInv
  BY <1>1, <1>2, <1>3 DEF WalkInv, Idle
<1>5. Turn = 0
  <2>1. N \in Nat \ {0} /\ Turn = 0 % N
    BY <1>1, NAssumption DEF Turn
  <2> QED BY <2>1
<1>6. Order = [i \in 1 .. N |-> i - 1] /\ Holder = "none" /\ Held = -1
  BY <1>2 DEF Order, Seeded, Holder, Held
<1> QED BY <1>4, <1>5, <1>6 DEF RQ!Init

----------------------------------------------------------------------------
(* The flips of the nodes' bits, counted against ticks and iterations.     *)

(* Flipping a node's bit changes the number of ones by one. *)
LEMMA OnesFlip ==
  ASSUME TypeOK, NEW m \in Nodes, value' = [value EXCEPT ![m] = 1 - @]
  PROVE  Ones' = Ones + 1 \/ Ones' = Ones - 1
<1> DEFINE A == {n \in Nodes : value[n] = 1}
           B == {n \in Nodes : value'[n] = 1}
<1>1. IsFiniteSet(A) /\ Cardinality(A) \in Nat
  <2>1. IsFiniteSet(Nodes)
    BY NAssumption, FS_Interval DEF Nodes
  <2> QED BY <2>1, FS_Subset, FS_CardinalityType
<1>2. value \in [Nodes -> {0, 1}]
  BY DEF TypeOK
<1>3. CASE value[m] = 0
  <2>1. B = A \cup {m} /\ m \notin A
    BY <1>2, <1>3
  <2> HIDE DEF A, B
  <2>2. Cardinality(B) = Cardinality(A) + 1
    BY <1>1, <2>1, FS_AddElement
  <2> QED BY <2>2 DEF Ones, A, B
<1>4. CASE value[m] = 1
  <2>1. B = A \ {m} /\ m \in A
    BY <1>2, <1>4
  <2> HIDE DEF A, B
  <2>2. Cardinality(B) = Cardinality(A) - 1
    BY <1>1, <2>1, FS_RemoveElement
  <2> QED BY <2>2 DEF Ones, A, B
<1> QED BY <1>2, <1>3, <1>4

LEMMA OnesType ==
  ASSUME TypeOK
  PROVE  /\ Ones \in Nat /\ SeedOnes \in Nat /\ g_ticks \in Int /\ iter \in Nat
         /\ iter * (N - 1) \in Int /\ N - 1 \in Nat
<1>1. IsFiniteSet(Nodes)
  BY NAssumption, FS_Interval DEF Nodes
<1>2. Ones \in Nat /\ SeedOnes \in Nat
  <2>1. ASSUME NEW T \in SUBSET Nodes PROVE Cardinality(T) \in Nat
    BY <1>1, FS_Subset, FS_CardinalityType
  <2> QED BY <2>1 DEF Ones, SeedOnes
<1>3. g_ticks \in Int /\ iter \in Nat /\ N - 1 \in Nat
  BY NAssumption, TickAssumption, WidthAssumption DEF TypeOK
<1> QED BY <1>2, <1>3

(* What touch_runqueue meets: the nodes of the walk, then NULL. *)
LEMMA TouchWalk ==
  ASSUME IInv, Safe, main.call \in {"scan", "touch"}
  PROVE  /\ queue.head = IF N - 1 = 0 THEN Null ELSE Walk(queue)[1]
         /\ \A i \in 1 .. N - 1 :
              /\ Walk(queue)[i] \in Nodes /\ Walk(queue)[i] # Null
              /\ queue.next[Walk(queue)[i]] = IF i = N - 1 THEN Null ELSE Walk(queue)[i + 1]
<1>1. Queued(queue, Nodes \ {MainNode}, N - 1)
  BY DEF IInv, ListInv
<1>2. N - 1 \in 0 .. N /\ Nodes \ {MainNode} \in SUBSET Nodes
  BY NAssumption
<1>3. /\ Walk(queue) \in [1 .. N - 1 -> Nodes \ {MainNode}]
      /\ Represents(queue, Walk(queue), N - 1)
  BY <1>1, <1>2, QueuedWalk
<1>4. \A i \in 1 .. N - 1 : Walk(queue)[i] \in Nodes /\ Walk(queue)[i] # Null
  BY <1>3 DEF Nodes, Null
<1> QED BY <1>3, <1>4 DEF Represents

(* A flip changes the parity, whichever way it goes. *)
LEMMA OtherParity ==
  ASSUME NEW a \in Int, NEW b \in Int, a % 2 = b % 2
  PROVE  (a + 1) % 2 = (b + 1) % 2 /\ (a - 1) % 2 = (b + 1) % 2
OBVIOUS

(* One iteration more, by N - 1 flips, also when iter wraps. *)
LEMMA IterationParity ==
  ASSUME TypeOK, NEW a \in Int, NEW b \in Int,
         (a + iter * (N - 1)) % 2 = (b + (N - 1)) % 2,
         iter' = (iter + 1) % IterWidth
  PROVE  (a + iter' * (N - 1)) % 2 = b % 2
<1> DEFINE n == N - 1
<1>1. /\ n \in Nat /\ iter \in Nat /\ iter \in 0 .. IterWidth - 1
      /\ IterWidth \in Nat \ {0} /\ IterWidth % 2 = 0
  BY OnesType, WidthAssumption DEF TypeOK
<1> HIDE DEF n
<1>2. iter * n \in Int /\ (iter + 1) * n = iter * n + n
  BY <1>1
<1>3. (a + iter * n + n) % 2 = b % 2
  <2>1. (a + iter * n) % 2 = (b + n) % 2
    BY DEF n
  <2> DEFINE x == iter * n
  <2>2. x \in Int /\ (a + x) % 2 = (b + n) % 2
    BY <1>2, <2>1
  <2> HIDE DEF x
  <2>3. (a + x + n) % 2 = b % 2
    BY <1>1, <2>2
  <2> QED BY <2>3 DEF x
<1>4. CASE iter + 1 < IterWidth
  <2>1. iter' = iter + 1
    BY <1>1, <1>4
  <2>2. a + iter' * n = a + iter * n + n
    <3>1. iter' * n = iter * n + n
      BY <1>2, <2>1
    <3> QED BY <1>1, <1>2, <3>1
  <2> QED BY <1>3, <2>2 DEF n
<1>5. CASE iter + 1 = IterWidth
  <2>1. iter' = 0
    BY <1>1, <1>5
  <2>2. PICK w \in Nat : IterWidth = 2 * w
    <3>1. IterWidth = 2 * (IterWidth \div 2) /\ IterWidth \div 2 \in Nat
      BY <1>1
    <3> QED BY <3>1
  <2>3. iter * n + n = 2 * (w * n) /\ w * n \in Int
    BY <1>1, <1>2, <1>5, <2>2
  <2> DEFINE y == w * n
  <2>4. (a + 2 * y) % 2 = b % 2 /\ y \in Int
    <3>1. a + iter * n + n = a + 2 * (w * n)
      BY <1>1, <1>2, <2>3
    <3> QED BY <1>3, <2>3, <3>1
  <2> HIDE DEF y
  <2>5. a % 2 = b % 2
    BY <2>4
  <2>6. a + iter' * n = a
    BY <1>1, <2>1
  <2> QED BY <2>5, <2>6 DEF n
<1> QED BY <1>1, <1>4, <1>5

(* The thread's steps outside the list functions. *)
LEMMA FlipMain ==
  ASSUME IInv, FlipInv, Safe, Block \/ Scan \/ Touch \/ TouchDone \/ Unblock \/ Advance
  PROVE  FlipInv'
<1>1. /\ queue' = queue /\ handler' = handler /\ g_ticks' = g_ticks /\ TypeOK
      /\ handler.call = "idle" /\ Armed
  BY DEF IInv, MainRuns, Armed, Block, Scan, Touch, TouchDone, Unblock, Advance
<1>2. PICK j \in 0 .. N - 1 :
        Touched(j) /\ (Ones + g_ticks + iter * (N - 1)) % 2 = (SeedOnes + j + FlipDue) % 2
  BY <1>1 DEF FlipInv
<1>3. /\ Ones \in Nat /\ SeedOnes \in Nat /\ g_ticks \in Int /\ iter \in Nat
      /\ iter * (N - 1) \in Int /\ N - 1 \in Nat
  BY <1>1, OnesType
<1>4. FlipDue = 0 /\ FlipDue' = 0 /\ SeedOnes' = SeedOnes
  BY <1>1 DEF FlipDue, SeedOnes
<1>5. CASE Block \/ Scan \/ TouchDone \/ Unblock
  <2>1. value' = value /\ iter' = iter
    BY <1>5 DEF Block, Scan, TouchDone, Unblock
  <2>2. Ones' = Ones
    BY <2>1 DEF Ones
  <2>3. Armed' /\ Touched(j)'
    <3>1. CASE Block
      BY <1>2, <3>1 DEF Block, MainGoto, MainCall, Touched, Armed
    <3>2. CASE Scan
      <4>1. main.call = "scan" /\ main'.call = "touch" /\ main'.cursor = queue.head
        BY <3>2 DEF Scan
      <4>2. queue.head = IF N - 1 = 0 THEN Null ELSE Walk(queue)[1]
        BY <4>1, TouchWalk
      <4>3. j = 0
        BY <1>2, <4>1 DEF Touched
      <4> QED BY <1>1, <1>3, <4>1, <4>2, <4>3 DEF Touched, Armed
    <3>3. CASE TouchDone
      <4>1. main.call = "touch" /\ main'.call = "add_front" /\ main.cursor = Null
        BY <3>3 DEF TouchDone, MainGoto, MainCall
      <4>2. main.cursor = IF j = N - 1 THEN Null ELSE Walk(queue)[j + 1]
        BY <1>2, <4>1 DEF Touched
      <4>3. j # N - 1 => Walk(queue)[j + 1] # Null
        <5>1. j # N - 1 => j + 1 \in 1 .. N - 1
          BY <1>3
        <5> QED BY <4>1, <5>1, TouchWalk
      <4> QED BY <4>1, <4>2, <4>3 DEF Touched, Armed
    <3>4. CASE Unblock
      BY <1>2, <3>4 DEF Unblock, MainGoto, MainCall, Touched, Armed
    <3> QED BY <1>5, <3>1, <3>2, <3>3, <3>4
  <2>4. (Ones + g_ticks + iter * (N - 1))' = Ones + g_ticks + iter * (N - 1)
    BY <1>1, <2>1, <2>2
  <2>5. Touched(j)' /\ (Ones' + g_ticks' + iter' * (N - 1)) % 2 = (SeedOnes' + j + FlipDue') % 2
    BY <1>2, <1>4, <2>3, <2>4
  <2> QED BY <2>3, <2>5 DEF FlipInv
<1>6. CASE Touch
  <2>1. /\ main.call = "touch" /\ main'.call = "touch" /\ main.cursor # Null /\ iter' = iter
        /\ main'.cursor = queue.next[main.cursor]
        /\ value' = [value EXCEPT ![main.cursor] = 1 - @]
        /\ main.cursor \in Nodes
    BY <1>1, <1>6 DEF Touch, TypeOK, Link
  <2>2. main.cursor = IF j = N - 1 THEN Null ELSE Walk(queue)[j + 1]
    BY <1>2, <2>1 DEF Touched
  <2>3. j + 1 \in 1 .. N - 1 /\ j + 1 \in 0 .. N - 1 /\ main.cursor = Walk(queue)[j + 1]
    BY <1>3, <2>1, <2>2
  <2>4. main'.cursor = IF j + 1 = N - 1 THEN Null ELSE Walk(queue)[(j + 1) + 1]
    BY <2>1, <2>3, TouchWalk
  <2>5. Touched(j + 1)' /\ Armed'
    BY <1>1, <2>1, <2>4 DEF Touched, Armed
  <2>6. Ones' = Ones + 1 \/ Ones' = Ones - 1
    BY <1>1, <2>1, OnesFlip
  <2>7. (Ones' + g_ticks' + iter' * (N - 1)) % 2 = (SeedOnes' + (j + 1) + FlipDue') % 2
    <3> DEFINE x == iter * (N - 1)
    <3>1. x \in Int /\ (Ones + g_ticks + x) % 2 = (SeedOnes + j) % 2
      BY <1>2, <1>3, <1>4
    <3>2. iter' * (N - 1) = x
      BY <2>1
    <3> HIDE DEF x
    <3>3. (Ones' + g_ticks + x) % 2 = (SeedOnes + j + 1) % 2
      <4>1. /\ Ones + g_ticks + x \in Int /\ SeedOnes + j \in Int
            /\ \/ Ones' + g_ticks + x = (Ones + g_ticks + x) + 1
               \/ Ones' + g_ticks + x = (Ones + g_ticks + x) - 1
        BY <1>3, <2>6, <3>1
      <4> QED BY <3>1, <4>1, OtherParity
    <3> QED BY <1>1, <1>3, <1>4, <2>3, <3>2, <3>3
  <2> QED BY <2>3, <2>5, <2>7 DEF FlipInv
<1>7. CASE Advance
  <2>1. /\ main.call = "advance" /\ main'.call = "block" /\ iter' = (iter + 1) % IterWidth
        /\ value' = value
    BY <1>7 DEF Advance, MainGoto, MainCall, LoopStart
  <2>2. Ones' = Ones
    BY <2>1 DEF Ones
  <2>3. j = N - 1 /\ Touched(0)' /\ Armed' /\ 0 \in 0 .. N - 1
    BY <1>2, <1>3, <2>1 DEF Touched, Armed
  <2>4. Ones + g_ticks \in Int /\ (Ones + g_ticks + iter * (N - 1)) % 2 = (SeedOnes + (N - 1)) % 2
    BY <1>2, <1>3, <1>4, <2>3
  <2>5. (Ones + g_ticks + iter' * (N - 1)) % 2 = SeedOnes % 2
    <3>1. PICK a \in Int : a = Ones + g_ticks
      BY <2>4
    <3>2. PICK b \in Int : b = SeedOnes
      BY <1>3
    <3>3. (a + iter' * (N - 1)) % 2 = b % 2
      <4>1. (a + iter * (N - 1)) % 2 = (b + (N - 1)) % 2
        BY <2>4, <3>1, <3>2
      <4> QED BY <1>1, <2>1, <4>1, IterationParity
    <3> QED BY <3>1, <3>2, <3>3
  <2>6. (Ones' + g_ticks' + iter' * (N - 1)) % 2 = (SeedOnes' + 0 + FlipDue') % 2
    BY <1>1, <1>3, <1>4, <2>2, <2>5
  <2> QED BY <2>3, <2>6 DEF FlipInv
<1> QED BY <1>5, <1>6, <1>7

(* The kernel's steps. *)
LEMMA FlipKernel ==
  ASSUME IInv, FlipInv, Safe, Expire \/ Deliver
  PROVE  FlipInv'
<1>1. /\ queue' = queue /\ main' = main /\ value' = value /\ g_ticks' = g_ticks /\ iter' = iter
      /\ handler' = handler \/ (handler.call = "idle" /\ handler'.call = "tick")
  BY DEF Expire, Deliver, HandlerCall
<1>2. Ones' = Ones /\ FlipDue' = FlipDue /\ SeedOnes' = SeedOnes /\ Armed' = Armed
  BY <1>1 DEF Ones, FlipDue, SeedOnes, Armed
<1>3. \A j : Touched(j)' = Touched(j)
  BY <1>1 DEF Touched
<1> QED BY <1>1, <1>2, <1>3 DEF FlipInv

(* The seed: value = i. *)
LEMMA FlipSeed ==
  ASSUME IInv, FlipInv, Safe, Seed
  PROVE  FlipInv'
<1>1. /\ main.call = "seed" /\ main'.call = "seed_add" /\ main'.cursor = main.cursor
      /\ main.cursor \in Nodes /\ iter' = iter /\ g_ticks' = g_ticks
      /\ value' = [value EXCEPT ![main.cursor] = main.cursor % 2]
      /\ value \in [Nodes -> {0, 1}]
  BY DEF Seed, MainGoto, MainCall, IInv, TypeOK, ControlInv
<1>2. ~Armed /\ ~Armed'
  BY <1>1 DEF Armed
<1>3. /\ iter = 0 /\ g_ticks = 0
      /\ \A n \in Nodes : value[n] = IF n < main.cursor THEN n % 2 ELSE 0
  BY <1>1, <1>2 DEF FlipInv
<1>4. ASSUME NEW n \in Nodes
      PROVE  value'[n] = IF n < main.cursor \/ n = main.cursor THEN n % 2 ELSE 0
  BY <1>1, <1>3 DEF Nodes
<1> QED BY <1>1, <1>2, <1>3, <1>4 DEF FlipInv

(* A list statement of the thread leaves the values alone. *)
LEMMA FlipMainStatement ==
  ASSUME IInv, IInv', FlipInv, Safe, MainStatement
  PROVE  FlipInv'
<1>1. /\ main.at \in 1 .. 4 /\ main \in Frame /\ MainNode \in Nodes
      /\ main.call \in {"seed_add", "remove", "add_front"}
      /\ handler' = handler /\ handler.call = "idle" /\ iter' = iter
      /\ value' = value /\ g_ticks' = g_ticks
      /\ main' = IF main.at < 4 THEN [main EXCEPT !.at = @ + 1] ELSE AfterMainCall
  BY MainStatementFacts DEF MainStatement
<1>2. Ones' = Ones /\ FlipDue' = 0 /\ FlipDue = 0 /\ SeedOnes' = SeedOnes
  BY <1>1 DEF Ones, FlipDue, SeedOnes
<1>3. main.at < 4 => main'.call = main.call /\ main'.cursor = main.cursor
  BY <1>1 DEF Frame
<1>4. CASE main.call = "seed_add"
  <2>1. /\ iter = 0 /\ g_ticks = 0 /\ main.cursor \in Nodes
        /\ \A n \in Nodes : value[n] = IF n < main.cursor \/ n = main.cursor THEN n % 2 ELSE 0
    BY <1>1, <1>4 DEF FlipInv, Armed, MainNode
  <2>2. CASE main.at < 4
    BY <1>1, <1>3, <1>4, <2>1, <2>2 DEF FlipInv, Armed
  <2>3. CASE ~(main.at < 4) /\ main.cursor + 1 < N
    <3>1. main'.call = "seed" /\ main'.cursor = main.cursor + 1
      BY <1>1, <1>4, <2>3 DEF AfterMainCall
    <3>2. \A n \in Nodes : value'[n] = IF n < main'.cursor THEN n % 2 ELSE 0
      BY <1>1, <2>1, <3>1 DEF Nodes
    <3> QED BY <1>1, <2>1, <3>1, <3>2 DEF FlipInv, Armed
  <2>4. CASE ~(main.at < 4) /\ ~(main.cursor + 1 < N)
    <3>1. main'.call = "block"
      BY <1>1, <1>4, <2>4 DEF AfterMainCall, LoopStart
    <3>2. \A n \in Nodes : value[n] = n % 2
      BY <2>1, <2>4, NAssumption DEF Nodes
    <3>3. Ones = SeedOnes
      <4>1. {n \in Nodes : value[n] = 1} = {n \in Nodes : n % 2 = 1}
        BY <3>2
      <4> QED BY <4>1 DEF Ones, SeedOnes
    <3>4. 0 \in 0 .. N - 1 /\ Touched(0)' /\ Armed'
      BY <3>1, NAssumption DEF Touched, Armed
    <3>5. (Ones' + g_ticks' + iter' * (N - 1)) % 2 = (SeedOnes' + 0 + FlipDue') % 2
      <4>1. iter' * (N - 1) = 0 /\ g_ticks' = 0 /\ SeedOnes \in Nat
        BY <1>1, <2>1, NAssumption, OnesType DEF IInv
      <4> QED BY <1>2, <3>3, <4>1
    <3> QED BY <3>4, <3>5 DEF FlipInv
  <2> QED BY <2>2, <2>3, <2>4
<1>5. CASE main.call = "remove"
  <2>1. Armed /\ Armed' /\ \A j \in 0 .. N - 1 : Touched(j) => j = 0
    BY <1>1, <1>3, <1>5 DEF Armed, Touched, AfterMainCall, MainCall
  <2>2. main'.call \in {"remove", "scan"}
    BY <1>1, <1>3, <1>5 DEF AfterMainCall, MainCall
  <2>3. Touched(0)'
    BY <2>2 DEF Touched
  <2> QED BY <1>1, <1>2, <2>1, <2>3 DEF FlipInv
<1>6. CASE main.call = "add_front"
  <2>1. main'.call \in {"add_front", "unblock"}
    BY <1>1, <1>3, <1>6 DEF AfterMainCall, MainCall
  <2>2. Armed /\ Armed' /\ \A j \in 0 .. N - 1 : Touched(j) => Touched(j)'
    BY <1>6, <2>1 DEF Armed, Touched
  <2> QED BY <1>1, <1>2, <2>2 DEF FlipInv
<1> QED BY <1>1, <1>4, <1>5, <1>6

(* The handler: a tick is counted, a node is flipped. *)
LEMMA FlipHandler ==
  ASSUME IInv, IInv', FlipInv, Safe, Handler
  PROVE  FlipInv'
<1>1. /\ main.call \in {"block", "advance"} /\ main' = main /\ iter' = iter /\ Armed /\ Armed'
      /\ TypeOK
  BY HandlerFacts DEF Handler, Tick, HandlerStatement, Flip, Armed, IInv
<1>2. PICK j \in 0 .. N - 1 :
        Touched(j) /\ (Ones + g_ticks + iter * (N - 1)) % 2 = (SeedOnes + j + FlipDue) % 2
  BY <1>1 DEF FlipInv
<1>3. /\ Ones \in Nat /\ SeedOnes \in Nat /\ g_ticks \in Int
      /\ iter * (N - 1) \in Int /\ N - 1 \in Nat /\ SeedOnes' = SeedOnes
  BY <1>1, OnesType DEF SeedOnes
<1>4. Touched(j)'
  BY <1>1, <1>2 DEF Touched
<1>5. SUFFICES (Ones' + g_ticks' + iter * (N - 1)) % 2 = (SeedOnes + j + FlipDue') % 2
  BY <1>1, <1>3, <1>4, <1>5 DEF FlipInv
<1> DEFINE x == iter * (N - 1)
<1>6. x \in Int /\ (Ones + g_ticks + x) % 2 = (SeedOnes + j + FlipDue) % 2
  BY <1>2, <1>3
<1>7. SUFFICES (Ones' + g_ticks' + x) % 2 = (SeedOnes + j + FlipDue') % 2
  OBVIOUS
<1> HIDE DEF x
<1>8. CASE HandlerStatement
  <2>1. value' = value /\ g_ticks' = g_ticks /\ handler.call \in {"remove", "add_back"}
        /\ handler \in HandlerFrame /\ handler.at \in 1 .. 4
        /\ handler' = IF handler.at < 4 THEN [handler EXCEPT !.at = @ + 1]
                                        ELSE HandlerAfterCall
    BY <1>8, HandlerStatementFacts, HandlerFacts DEF HandlerStatement
  <2>2. handler'.call \in (IF handler.call = "remove" THEN {"remove", "flip"}
                                                      ELSE {"add_back", "idle"})
    BY <2>1 DEF HandlerFrame, HandlerAfterCall, HandlerCall, Idle
  <2>3. Ones' = Ones /\ FlipDue' = FlipDue
    BY <2>1, <2>2 DEF Ones, FlipDue
  <2> QED BY <1>6, <2>1, <2>3
<1>9. CASE Tick
  <2>1. value' = value /\ handler.call = "tick" /\ handler' = SwitchFrom(queue)
        /\ g_ticks' = IF g_ticks = TickMax THEN -TickMax - 1 ELSE g_ticks + 1
    BY <1>9 DEF Tick
  <2>2. handler'.call = "remove"
    <3>1. Queued(queue, Nodes, N)
      BY <1>1, <2>1 DEF IInv, ListInv
    <3>2. queue.head # Null
      BY <3>1, NAssumption, HeadQueued
    <3> QED BY <2>1, <3>2 DEF SwitchFrom
  <2>3. Ones' = Ones /\ FlipDue = 0 /\ FlipDue' = 1
    BY <2>1, <2>2 DEF Ones, FlipDue
  <2>4. (Ones + (g_ticks + 1) + x) % 2 = (SeedOnes + j + 1) % 2
    <3>1. Ones + g_ticks + x \in Int /\ SeedOnes + j \in Int
          /\ Ones + (g_ticks + 1) + x = (Ones + g_ticks + x) + 1
          /\ (Ones + g_ticks + x) % 2 = (SeedOnes + j) % 2
      BY <1>3, <1>6, <2>3
    <3> QED BY <3>1, OtherParity
  <2>5. CASE g_ticks = TickMax
    <3>1. PICK m \in Nat : TickMax + 1 = 2 * m
      <4>1. TickMax + 1 = 2 * ((TickMax + 1) \div 2) /\ (TickMax + 1) \div 2 \in Nat
        BY TickAssumption
      <4> QED BY <4>1
    <3>2. g_ticks' = (g_ticks + 1) - 4 * m
      BY <1>3, <2>1, <2>5, <3>1, TickAssumption
    <3>3. PICK a \in Int : a = Ones + (g_ticks + 1) + x
      BY <1>3, <1>6
    <3>4. Ones' + g_ticks' + x = a - 4 * m
      BY <1>3, <1>6, <2>3, <3>2, <3>3
    <3>5. (a - 4 * m) % 2 = a % 2
      OBVIOUS
    <3> QED BY <2>3, <2>4, <3>3, <3>4, <3>5
  <2> QED BY <2>1, <2>3, <2>4, <2>5
<1>10. CASE Flip
  <2>1. /\ value' = [value EXCEPT ![handler.node] = 1 - @] /\ handler.node \in Nodes
        /\ g_ticks' = g_ticks /\ handler.call = "flip" /\ handler'.call = "add_back"
    BY <1>10, HandlerFacts DEF Flip, HandlerCall
  <2>2. Ones' = Ones + 1 \/ Ones' = Ones - 1
    BY <1>1, <2>1, OnesFlip
  <2>3. FlipDue = 1 /\ FlipDue' = 0
    BY <2>1 DEF FlipDue
  <2>4. PICK a \in Int : a = Ones + g_ticks + x
    BY <1>3, <1>6
  <2>5. PICK b \in Int : b = SeedOnes + j
    BY <1>3
  <2>6. a % 2 = (b + 1) % 2
    BY <1>6, <2>3, <2>4, <2>5
  <2>7. (a + 1) % 2 = b % 2 /\ (a - 1) % 2 = b % 2
    BY <2>6
  <2>8. Ones' + g_ticks' + x \in {a + 1, a - 1} /\ SeedOnes + j + FlipDue' = b
    BY <1>3, <1>6, <2>1, <2>2, <2>3, <2>4, <2>5
  <2> QED BY <2>7, <2>8
<1> QED BY <1>8, <1>9, <1>10 DEF Handler

LEMMA FlipInit ==
  ASSUME Init, Safe
  PROVE  FlipInv
<1>1. /\ main = [call |-> "seed", at |-> 1, cursor |-> 0] /\ iter = 0 /\ g_ticks = 0
      /\ \A n \in Nodes : value[n] = 0 /\ ~(n < 0)
  BY NAssumption DEF Init, Nodes
<1> QED BY <1>1 DEF FlipInv, Armed

----------------------------------------------------------------------------
(* The theorems.                                                           *)

(* Every pointer is NULL or a node of g_nodes, every counter stays in its  *)
(* width and each side is at a statement its code has, in both modes: no   *)
(* step of list.h or main.c reads or writes outside the array.             *)
THEOREM TypeCorrect == Spec => []TypeOK
<1>1. IInv => TypeOK
  BY DEF IInv
<1>2. QED
  BY <1>1, InitInv, InvNext, PTL DEF Spec

(* The handler never runs inside busy_mutate_safe's critical section. *)
THEOREM HandlerExcluded == Spec => []Exclusion
<1>1. IInv => Exclusion
  BY DEF IInv, ControlInv, Exclusion
<1>2. QED
  BY <1>1, InitInv, InvNext, PTL DEF Spec

(* In safe mode the run queue is one list of all the nodes whenever no     *)
(* update is in progress, and no statement has dereferenced NULL.          *)
THEOREM RunQueueWellFormed == Spec => []WellFormed
<1>1. IInv => WellFormed
  BY DEF IInv, ListInv, WellFormed, AtRest
<1>2. QED
  BY <1>1, InitInv, InvNext, PTL DEF Spec

(* In safe mode every execution of the two sides, statement by statement,  *)
(* is one of the abstract run queue: the thread takes the nodes in cyclic  *)
(* order, also across the wrap of iter, the handler takes the head, and    *)
(* neither takes a node while the other holds one.                         *)
THEOREM SafeImplementsRunQueue == Safe /\ Spec => RunQueueSpec
<1>1. IInv /\ WalkInv /\ Safe /\ [Next]_vars => WalkInv' /\ [RQ!Next]_RQ!vars
  BY InvNext, RefineNext
<1>2. Init /\ Safe => WalkInv /\ RQ!Init
  BY RefineInit
<1>3. CASE Safe
  <2>1. Init => IInv /\ WalkInv /\ RQ!Init
    BY <1>2, <1>3, InitInv
  <2>2. IInv /\ WalkInv /\ [Next]_vars => IInv' /\ WalkInv' /\ [RQ!Next]_RQ!vars
    BY <1>1, <1>3, InvNext
  <2> QED BY <2>1, <2>2, PTL DEF Spec, RunQueueSpec, RQ!Spec
<1> QED BY <1>3

(* The parity of the flipped bits in the thread's loop, when no handler is *)
(* running, is the parity of the ticks and of the iterations.              *)
THEOREM FlipsCounted == Spec => []FlipParity
<1>1. CASE ~Safe
  <2>1. FlipParity
    BY <1>1 DEF FlipParity
  <2> QED BY <2>1, PTL
<1>2. CASE Safe
  <2>1. Init => FlipInv
    BY <1>2, FlipInit
  <2>2. IInv /\ IInv' /\ FlipInv /\ [Next]_vars => FlipInv'
    <3> SUFFICES ASSUME IInv, IInv', FlipInv, [Next]_vars PROVE FlipInv'
      OBVIOUS
    <3>1. CASE UNCHANGED vars
      <4>1. /\ Ones' = Ones /\ SeedOnes' = SeedOnes /\ FlipDue' = FlipDue /\ Armed' = Armed
            /\ g_ticks' = g_ticks /\ iter' = iter /\ value' = value /\ main' = main
        BY <3>1 DEF vars, Ones, SeedOnes, FlipDue, Armed
      <4>2. \A j : Touched(j)' = Touched(j)
        BY <3>1 DEF Touched, vars
      <4> QED BY <4>1, <4>2 DEF FlipInv
    <3>2. CASE Next
      BY <1>2, <3>2, FlipMain, FlipSeed, FlipMainStatement, FlipKernel, FlipHandler
         DEF Next, Main
    <3> QED BY <3>1, <3>2
  <2>3. IInv /\ FlipInv => FlipParity
    <3> SUFFICES ASSUME IInv, FlipInv, main.call = "block", handler.call = "idle"
                 PROVE  (Ones + g_ticks + iter * (N - 1)) % 2 = SeedOnes % 2
      BY DEF FlipParity
    <3>1. PICK j \in 0 .. N - 1 :
            Touched(j) /\ (Ones + g_ticks + iter * (N - 1)) % 2 = (SeedOnes + j + FlipDue) % 2
      BY <1>2 DEF FlipInv, Armed
    <3>2. j = 0 /\ FlipDue = 0 /\ SeedOnes \in Nat
      BY <3>1, OnesType DEF Touched, FlipDue, IInv
    <3> QED BY <3>1, <3>2
  <2> QED BY <2>1, <2>2, <2>3, InitInv, InvNext, PTL DEF Spec
<1> QED BY <1>1, <1>2
=============================================================================
