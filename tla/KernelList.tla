----------------------------- MODULE KernelList -----------------------------
(***************************************************************************)
(* The list and hlist lab (labs/bc_list_hlist/bc_list_hlist.c).  main runs *)
(* three functions one after the other, each on structures of its own      *)
(* stack frame: run_hlist_smoke adds to and deletes from an hlist,         *)
(* run_probe_delete_suite relinks a chain and deletes a target through a   *)
(* pointer to the pointer that points at it, write_iteration_artifact      *)
(* deletes from a circular list while it walks it, with and without a      *)
(* cached successor.                                                       *)
(*                                                                         *)
(* A pointer to a node is the node's number; 0 is the list head.  A slot,  *)
(* what pprev and pp point at, is named by the node whose next field it    *)
(* is, 0 for head.first.  Where the lab fixes which nodes it adds and      *)
(* deletes, the model lets any be: hlist calls in any order, any target,   *)
(* any set of values deleted in the loop.  Files are left out.             *)
(***************************************************************************)
EXTENDS Integers, Sequences, SequencesExt, FiniteSets

CONSTANT N           \* the nodes of each list: 3 in the suite, 4 in the loops

ASSUME NAssumption == N \in Nat \ {0}

Items == 1 .. N
Slots == 0 .. N

Null    == -1
Poison1 == -2        \* LIST_POISON1, in next
Poison2 == -3        \* LIST_POISON2, in prev and pprev
Wild    == -4        \* stack memory nobody initialised
Absent  == -5        \* the name of no node

Pointers == Slots \cup {Null, Poison1, Poison2, Wild}

VARIABLES
  pc,          \* the function and loop main is in
  next,        \* head.first or head.next at 0, node->next elsewhere
  back,        \* prev, or the slot pprev points at
  pos, cached, \* the cursor of a walk (pp in the suite) and n of the safe loop
  doomed,      \* the nodes the loops delete
  visited,     \* the nodes the loop visited
  target, test \* the node the suite deletes, and how many tests it ran

vars == <<pc, next, back, pos, cached, doomed, visited, target, test>>
walk == <<pos, cached, doomed, visited, target, test>>

Uninitialised == [k \in Slots |-> Wild]

(* The fields of one node, or of two, set one after the other. *)
Set(f, k, v) == [f EXCEPT ![k] = v]
Set2(f, j, v, k, w) == [f EXCEPT ![j] = v, ![k] = w]

Init ==
  /\ pc = "hlist" /\ pos = 0 /\ cached = 0
  /\ next = Set(Uninitialised, 0, Null) /\ back = Uninitialised   \* init_hlist_head
  /\ doomed \in SUBSET Items /\ visited = <<>> /\ target = Absent /\ test = 0

----------------------------------------------------------------------------
(* run_hlist_smoke: the hlist calls, on nodes in the state each expects.   *)

OnHlist(k) == back[k] \in Slots

init_hlist_node(k) ==
  /\ pc = "hlist" /\ ~OnHlist(k)
  /\ next' = Set(next, k, Null) /\ back' = Set(back, k, Null)
  /\ UNCHANGED <<pc, walk>>

hlist_add_head(k) ==
  /\ pc = "hlist" /\ back[k] = Null
  /\ LET first == next[0] IN
       /\ back' = [j \in Slots |-> CASE j = k -> 0
                                     [] j # k /\ j = first -> k
                                     [] OTHER -> back[j]]
       /\ next' = [j \in Slots |-> CASE j = k -> first [] j = 0 -> k [] OTHER -> next[j]]
  /\ UNCHANGED <<pc, walk>>

(* Mutant of hlist_del: the successor keeps its pprev. *)
hlist_del_forward(k) ==
  /\ pc = "hlist" /\ (OnHlist(k) \/ back[k] = Null)
  /\ IF back[k] = Null
     THEN UNCHANGED <<next, back>>
     ELSE /\ next' = Set2(next, back[k], next[k], k, Poison1)
          /\ back' = Set(back, k, Poison2)
  /\ UNCHANGED <<pc, walk>>

hlist_del(k) ==
  /\ pc = "hlist" /\ (OnHlist(k) \/ back[k] = Null)
  /\ IF back[k] = Null
     THEN UNCHANGED <<next, back>>
     ELSE /\ back' = [j \in Slots |-> CASE j = k -> Poison2
                                        [] j # k /\ j = next[k] -> back[k]
                                        [] OTHER -> back[j]]
          /\ next' = Set2(next, back[k], next[k], k, Poison1)
  /\ UNCHANGED <<pc, walk>>

----------------------------------------------------------------------------
(* run_probe_delete_suite: before each test the first N next pointers and  *)
(* all pprev pointers are stored again, the last node's next is not.       *)

Tests == 3

Linked(f) == [k \in Slots |-> IF k < N THEN k + 1 ELSE f[k]]
Linkback(f) == [k \in Slots |-> IF k = 0 THEN f[k] ELSE k - 1]

StartSuite ==
  /\ pc = "hlist" /\ pc' = "relink"
  /\ next' = Linked(Set(Uninitialised, N, Null)) /\ back' = Linkback(Uninitialised)
  /\ UNCHANGED walk

(* The last test deletes the tail, the ones before it any node but the tail. *)
Targets == IF test + 1 = Tests THEN {N, Absent} ELSE (Items \ {N}) \cup {Absent}

RelinkAny ==   \* Mutant of Relink: the tail may be deleted before the last test.
  /\ pc = "relink"
  /\ next' = Linked(next) /\ back' = Linkback(back)
  /\ \E t \in Items \cup {Absent} : target' = t
  /\ pos' = 0 /\ test' = test + 1 /\ pc' = "seek"
  /\ UNCHANGED <<cached, doomed, visited>>

Relink ==
  /\ pc = "relink"
  /\ next' = Linked(next) /\ back' = Linkback(back)
  /\ \E t \in Targets : target' = t
  /\ pos' = 0 /\ test' = test + 1 /\ pc' = "seek"
  /\ UNCHANGED <<cached, doomed, visited>>

(* write_probe_trace: pp walks from slot to slot until *pp is the target. *)
Seek ==
  /\ pc = "seek" /\ next[pos] \in Items \ {target}
  /\ pos' = next[pos]
  /\ UNCHANGED <<pc, next, back, cached, doomed, visited, target, test>>

Miss ==        \* die("target not found")
  /\ pc = "seek" /\ next[pos] = Null
  /\ pc' = "not_found"
  /\ UNCHANGED <<next, back, walk>>

(* The nodes the pointers f reach from the head, in order. *)
Reached(f) ==
  LET reached[j \in Slots] == IF j = 0 THEN f[0]
                              ELSE IF reached[j - 1] \in Items THEN f[reached[j - 1]]
                              ELSE reached[j - 1]
  IN [i \in {j \in 1 .. N + 1 : reached[j - 1] \in Items} |-> reached[i - 1]]

Walk == Reached(next)

(* The sequence s is the set S in list order. *)
InOrder(s, S) ==
  /\ ToSet(s) = S
  /\ \A i, j \in 1 .. Len(s) : i < j => s[i] < s[j]

(* What the suite checks of the pointers left: all of them, and that the last
   one is NULL only when the tail was deleted. *)
Remains(k) ==
  /\ InOrder(Walk, Items \ {k})
  /\ k = N => next[k - 1] = Null

(* *pp = next; next->pprev = pp; then the suite's check. *)
DeleteTarget ==
  /\ pc = "seek" /\ next[pos] = target /\ UNCHANGED walk
  /\ next' = Set2(next, pos, next[target], target, Poison1)
  /\ back' = IF next[target] = Null THEN Set(back, target, Poison2)
             ELSE Set2(back, next[target], pos, target, Poison2)
  /\ pc' = IF ~Remains(target)' THEN "check_failed"
           ELSE IF test = Tests THEN "fill" ELSE "relink"

----------------------------------------------------------------------------
(* write_iteration_artifact.                                               *)

init_list_head(f, k) == Set(f, k, k)

FirstFill ==   \* a new frame: the items are not initialised, the head is
  /\ pc = "fill" /\ pos' = 1 /\ pc' = "add"
  /\ next' = init_list_head(Uninitialised, 0) /\ back' = init_list_head(Uninitialised, 0)
  /\ UNCHANGED <<cached, doomed, visited, target, test>>

SecondFill ==  \* init_list_head on the head, and on each item before it is added
  /\ pc = "refill" /\ pos' = 1 /\ pc' = "readd"
  /\ next' = init_list_head(next, 0) /\ back' = init_list_head(back, 0)
  /\ UNCHANGED <<cached, doomed, visited, target, test>>

(* __list_add(node, head->prev, head); prev may be the head itself. *)
list_add_tail(k) ==
  /\ back' = Set2(back, 0, k, k, back[0])
  /\ next' = Set2(next, k, 0, back[0], k)

AddTail ==
  /\ pc \in {"add", "readd"} /\ pos \in Items
  /\ list_add_tail(pos) /\ pos' = pos + 1
  /\ UNCHANGED <<pc, cached, doomed, visited, target, test>>

(* pos = head.next, n = pos->next *)
StartLoop ==
  /\ pc \in {"add", "readd"} /\ pos = N + 1
  /\ pc' = (IF pc = "add" THEN "safe" ELSE "unsafe")
  /\ pos' = next[0] /\ cached' = next[next[0]] /\ visited' = <<>>
  /\ UNCHANGED <<next, back, doomed, target, test>>

list_del_forward(k) ==   \* Mutant of list_del: next->prev only.
  /\ back' = Set2(back, next[k], back[k], k, Poison2)
  /\ next' = Set(next, k, Poison1)

list_del(k) ==
  /\ back' = Set2(back, next[k], back[k], k, Poison2)
  /\ next' = Set2(next, back[k], next[k], k, Poison1)

VisitSafe ==
  /\ pc = "safe" /\ pos # 0
  /\ visited' = Append(visited, pos)
  /\ IF pos \in doomed THEN list_del(pos) ELSE UNCHANGED <<next, back>>
  /\ pc' = "advance"
  /\ UNCHANGED <<pos, cached, doomed, target, test>>

AdvanceUncached ==   \* Mutant of Advance: the successor is read after the deletion.
  /\ pc = "advance" /\ pos' = next[pos]
  /\ cached' = IF next[pos] \in Slots THEN next[next[pos]] ELSE Wild
  /\ pc' = "safe"
  /\ UNCHANGED <<next, back, doomed, visited, target, test>>

Advance ==           \* pos = n, n = pos->next
  /\ pc = "advance" /\ pos' = cached /\ cached' = next[cached]
  /\ pc' = "safe"
  /\ UNCHANGED <<next, back, doomed, visited, target, test>>

SafeDone ==
  /\ pc = "safe" /\ pos = 0 /\ pc' = "refill"
  /\ UNCHANGED <<next, back, walk>>

(* The unsafe loop breaks after its first deletion, before pos = pos->next. *)
VisitUnsafe ==
  /\ pc = "unsafe" /\ pos # 0
  /\ visited' = Append(visited, pos)
  /\ IF pos \in doomed
     THEN list_del(pos) /\ pc' = "broke" /\ UNCHANGED pos
     ELSE pos' = next[pos] /\ UNCHANGED <<pc, next, back>>
  /\ UNCHANGED <<cached, doomed, target, test>>

UnsafeDone ==
  /\ pc = "unsafe" /\ pos = 0 /\ pc' = "exit"
  /\ UNCHANGED <<next, back, walk>>

Next ==
  \/ \E k \in Items : init_hlist_node(k) \/ hlist_add_head(k) \/ hlist_del(k)
  \/ StartSuite \/ Relink \/ Seek \/ Miss \/ DeleteTarget
  \/ FirstFill \/ SecondFill \/ AddTail \/ StartLoop
  \/ VisitSafe \/ Advance \/ SafeDone \/ VisitUnsafe \/ UnsafeDone

Spec == Init /\ [][Next]_vars

----------------------------------------------------------------------------
(* Properties.                                                             *)

(* Every pprev points at the pointer that points at its node, and that pointer
   is the head's or belongs to a node of the list, in both structures that have
   a pprev: what lets hlist_del and the suite unlink a node in place.  Nodes off
   the list hold NULL, poison or what was there before, never a slot. *)
Holds(s) == s = 0 \/ OnHlist(s)

SlotsPointBack ==
  pc \in {"hlist", "relink", "seek"} =>
    /\ \A k \in Items : OnHlist(k) => next[back[k]] = k /\ Holds(back[k])
    /\ \A s \in Slots : Holds(s) /\ next[s] # Null => next[s] \in Items /\ back[next[s]] = s

(* The circular list is a ring both ways between any two calls, deletions
   during a walk included: prev undoes next on the head and every member. *)
RingBothWays ==
  pc \in {"add", "safe", "advance", "refill", "readd", "unsafe", "broke", "exit"} =>
    \A k \in ToSet(Walk) \cup {0} :
      next[k] \in Slots /\ back[k] \in Slots /\ back[next[k]] = k /\ next[back[k]] = k

(* The safe loop visits every item once and in list order although it deletes
   some under its feet, its cursors are never poison, and what it leaves is the
   undeleted items in order. *)
SafeVisitsAll ==
  /\ pc \in {"safe", "advance"} => pos \in Slots /\ cached \in Slots
  /\ pc \in {"safe", "advance"} => visited = SubSeq([k \in Items |-> k], 1, Len(visited))
  /\ pc = "refill" =>
       /\ visited = [k \in Items |-> k]
       /\ InOrder(Walk, Items \ doomed)

(* The lists implement the sequence the pointers reach, whatever the calls. *)
Abstract == INSTANCE AbstractList WITH order <- Walk
ListSpec == Abstract!Spec
=============================================================================
