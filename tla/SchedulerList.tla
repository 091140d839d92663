--------------------------- MODULE SchedulerList ---------------------------
(***************************************************************************)
(* The intrusive list of the scheduler lab (scheduler/list.h): a list_t is *)
(* a head and a tail pointer, a node carries prev and next.  Every list    *)
(* function is a table of its C statements: F(k, q, n) is the list after   *)
(* the k-th statement of F(list, node) runs on list q and node n.  A step  *)
(* is one statement because a signal handler may run between any two.      *)
(***************************************************************************)
EXTENDS Integers, Sequences

CONSTANT N                       \* NODE_COUNT

ASSUME NAssumption == N \in Nat \ {0}

Nodes == 0 .. N - 1              \* &g_nodes[i] is i
Null  == -1                      \* NULL
Link  == Nodes \cup {Null}

List == [head : Link, tail : Link, prev : [Nodes -> Link], next : [Nodes -> Link]]

SetPrev(q, n, m) == [q EXCEPT !.prev[n] = m]
SetNext(q, n, m) == [q EXCEPT !.next[n] = m]

(* list_init, on nodes of static storage: every pointer is NULL. *)
EmptyList == [head |-> Null, tail |-> Null,
              prev |-> [n \in Nodes |-> Null], next |-> [n \in Nodes |-> Null]]

list_add_front(k, q, n) ==
  CASE k = 1 -> SetPrev(q, n, Null)
    [] k = 2 -> SetNext(q, n, q.head)
    [] k = 3 -> IF q.head # Null THEN SetPrev(q, q.head, n)
                                 ELSE [q EXCEPT !.tail = n]
    [] OTHER -> [q EXCEPT !.head = n]

list_add_back(k, q, n) ==
  CASE k = 1 -> SetNext(q, n, Null)
    [] k = 2 -> SetPrev(q, n, q.tail)
    [] k = 3 -> IF q.tail # Null THEN SetNext(q, q.tail, n)
                                 ELSE [q EXCEPT !.head = n]
    [] OTHER -> [q EXCEPT !.tail = n]

(* Mutant of list_remove: unlinking the last node leaves the tail behind. *)
list_remove_stale_tail(k, q, n) ==
  CASE k = 1 -> IF q.prev[n] # Null THEN SetNext(q, q.prev[n], q.next[n])
                                    ELSE [q EXCEPT !.head = q.next[n]]
    [] k = 2 -> IF q.next[n] # Null THEN SetPrev(q, q.next[n], q.prev[n]) ELSE q
    [] k = 3 -> SetPrev(q, n, Null)
    [] OTHER -> SetNext(q, n, Null)

list_remove(k, q, n) ==
  CASE k = 1 -> IF q.prev[n] # Null THEN SetNext(q, q.prev[n], q.next[n])
                                    ELSE [q EXCEPT !.head = q.next[n]]
    [] k = 2 -> IF q.next[n] # Null THEN SetPrev(q, q.next[n], q.prev[n])
                                    ELSE [q EXCEPT !.tail = q.prev[n]]
    [] k = 3 -> SetPrev(q, n, Null)
    [] OTHER -> SetNext(q, n, Null)

(* The variant without NULL checks: its first two statements dereference   *)
(* node->prev and node->next whatever they are (see DerefsNull).           *)
list_remove_unchecked(k, q, n) ==
  CASE k = 1 -> SetNext(q, q.prev[n], q.next[n])
    [] k = 2 -> SetPrev(q, q.next[n], q.prev[n])
    [] k = 3 -> IF q.head = n THEN [q EXCEPT !.head = q.next[n]] ELSE q
    [] k = 4 -> IF q.tail = n THEN [q EXCEPT !.tail = q.prev[n]] ELSE q
    [] k = 5 -> SetPrev(q, n, Null)
    [] OTHER -> SetNext(q, n, Null)

Functions == {"list_add_front", "list_add_back", "list_remove", "list_remove_unchecked"}

(* The list after statement k of f(q, n), and how many statements f has. *)
Statement(f, k, q, n) ==
  CASE f = "list_add_front" -> list_add_front(k, q, n)
    [] f = "list_add_back"  -> list_add_back(k, q, n)
    [] f = "list_remove"    -> list_remove(k, q, n)
    [] OTHER -> list_remove_unchecked(k, q, n)

Length(f) == IF f = "list_remove_unchecked" THEN 6 ELSE 4

(* Statement k of f(q, n) stores through a NULL pointer. *)
DerefsNull(f, k, q, n) ==
  /\ f = "list_remove_unchecked"
  /\ \/ k = 1 /\ q.prev[n] = Null
     \/ k = 2 /\ q.next[n] = Null

----------------------------------------------------------------------------
(* What the pointers mean.  The list q holds the L nodes of S: some order  *)
(* of S is the one met from the head along next and from the tail along    *)
(* prev, ending in NULL on both sides.                                     *)

Represents(q, s, L) ==
  /\ q.head = IF L = 0 THEN Null ELSE s[1]
  /\ q.tail = IF L = 0 THEN Null ELSE s[L]
  /\ \A i \in 1 .. L :
       /\ q.prev[s[i]] = IF i = 1 THEN Null ELSE s[i - 1]
       /\ q.next[s[i]] = IF i = L THEN Null ELSE s[i + 1]

(* The half of it that a walk from the head sees. *)
Follows(q, s, L) ==
  /\ q.head = IF L = 0 THEN Null ELSE s[1]
  /\ \A i \in 1 .. L : q.next[s[i]] = IF i = L THEN Null ELSE s[i + 1]

Queued(q, S, L) ==
  \E s \in [1 .. L -> S] :
    /\ \A i, j \in 1 .. L : s[i] = s[j] => i = j
    /\ \A n \in S : \E i \in 1 .. L : s[i] = n
    /\ Represents(q, s, L)

(* The list a call of a four-statement function leaves when it returns, if *)
(* it is about to execute its k-th statement on list q and nothing         *)
(* interferes.                                                             *)
Rest(f, k, q, n) ==
  LET q1 == IF k <= 1 THEN Statement(f, 1, q, n) ELSE q
      q2 == IF k <= 2 THEN Statement(f, 2, q1, n) ELSE q1
      q3 == IF k <= 3 THEN Statement(f, 3, q2, n) ELSE q2
  IN  Statement(f, 4, q3, n)

(* The nodes met by a walk along next from the head, at most N of them.    *)
Walk(q) ==
  LET at[i \in 1 .. N] ==
        IF i = 1 THEN q.head
        ELSE IF at[i - 1] = Null THEN Null ELSE q.next[at[i - 1]]
  IN  [i \in {j \in 1 .. N : at[j] # Null} |-> at[i]]
============================================================================
