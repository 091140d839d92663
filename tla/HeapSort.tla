------------------------------ MODULE HeapSort ------------------------------
(***************************************************************************)
(* The heapsort benchmark (ch_sort_trace.c): bench_one sorts one shuffled  *)
(* array with heapsort_standard and then the same array with               *)
(* heapsort_bottom_up, each checked with is_sorted.  The two differ only   *)
(* in sift_down; a step is one round of a loop of theirs.  The comparison  *)
(* counter and the generator behind the shuffle are left out.              *)
(***************************************************************************)
EXTENDS Integers, FiniteSets

CONSTANT n                        \* the array's length

ASSUME LengthAssumption == n \in Nat \ {0}

VARIABLES
  base,        \* the shuffled array, kept for the second sort
  work,        \* the array being sorted
  sort,        \* "standard" or "bottom_up", then "done"; "failed" after a die()
  phase,       \* the loop of the sort: "heapify" or "extract"
  loop,        \* its variable: start, or end
  sift         \* sift_down: where it is, its arguments and its locals

sortVars == <<base, work, sort, phase, loop, sift>>

Index == 0 .. n - 1
NoSift == [at |-> "returned", start |-> 0, end |-> 0, root |-> 0, value |-> 0]

(* fill_permutation leaves a permutation of 0 .. n-1. *)
Shuffles == {f \in [Index -> Index] : \A i, j \in Index : f[i] = f[j] => i = j}

Swap(a, i, j) == [a EXCEPT ![i] = a[j], ![j] = a[i]]

is_sorted(a) == \A i \in 1 .. n - 1 : a[i - 1] <= a[i]

SortInit ==
  /\ base \in Shuffles /\ work = base
  /\ sort = "standard" /\ phase = "heapify" /\ loop = n \div 2
  /\ sift = NoSift

Sorting == sort \in {"standard", "bottom_up"}
Returned == sift.at = "returned"

SiftDown(start, end) ==
  [at |-> "down", start |-> start, end |-> end, root |-> start, value |-> 0]

(* The loop that builds the heap: sift_down(a, start - 1, n). *)
Heapify ==
  /\ Sorting /\ Returned /\ phase = "heapify" /\ n >= 2 /\ loop > 0
  /\ sift' = SiftDown(loop - 1, n)
  /\ loop' = loop - 1
  /\ UNCHANGED <<base, work, sort, phase>>

Heapified ==
  /\ Sorting /\ Returned /\ phase = "heapify" /\ (n < 2 \/ loop = 0)
  /\ phase' = "extract" /\ loop' = n
  /\ UNCHANGED <<base, work, sort, sift>>

(* The loop that empties it: the maximum goes to the end. *)
Extract ==
  /\ Sorting /\ Returned /\ phase = "extract" /\ loop > 1
  /\ work' = Swap(work, 0, loop - 1)
  /\ sift' = SiftDown(0, loop - 1)
  /\ loop' = loop - 1
  /\ UNCHANGED <<base, sort, phase>>

(* The sort returns: bench_one checks it and goes on from base, or dies. *)
Check ==
  /\ Sorting /\ Returned /\ phase = "extract" /\ loop <= 1
  /\ IF ~is_sorted(work)
     THEN sort' = "failed" /\ UNCHANGED <<work, phase, loop>>
     ELSE IF sort = "standard"
     THEN sort' = "bottom_up" /\ work' = base /\ phase' = "heapify" /\ loop' = n \div 2
     ELSE sort' = "done" /\ UNCHANGED <<work, phase, loop>>
  /\ UNCHANGED <<base, sift>>

----------------------------------------------------------------------------
(* sift_down_standard and sift_down_bottom_up.                             *)

Left == sift.root * 2 + 1

(* Mutant of Child: the right child is never looked at. *)
ChildLeft == Left

(* The child to compare with: the right one if it is there and larger. *)
Child == IF Left + 1 < sift.end /\ work[Left] < work[Left + 1] THEN Left + 1 ELSE Left

Down(s) == sift.at = "down" /\ sort = s

(* The root has a larger child to change places with. *)
Sinks == Left < sift.end /\ work[sift.root] < work[Child]

StandardStop ==
  /\ Down("standard") /\ ~Sinks
  /\ sift' = NoSift
  /\ UNCHANGED <<base, work, sort, phase, loop>>

(* Mutant of StandardSwap: the child is moved up as in the bottom-up variant. *)
StandardOverwrite ==
  /\ Down("standard") /\ Sinks
  /\ work' = [work EXCEPT ![sift.root] = work[Child]]
  /\ sift' = [sift EXCEPT !.root = Child]
  /\ UNCHANGED <<base, sort, phase, loop>>

StandardSwap ==
  /\ Down("standard") /\ Sinks
  /\ work' = Swap(work, sift.root, Child)
  /\ sift' = [sift EXCEPT !.root = Child]
  /\ UNCHANGED <<base, sort, phase, loop>>

(* Bottom-up: the larger children move up along a path to a leaf ... *)
BottomUpDescend ==
  /\ Down("bottom_up") /\ Left < sift.end
  /\ work' = [work EXCEPT ![sift.root] = work[Child]]
  /\ sift' = [sift EXCEPT !.root = Child]
  /\ UNCHANGED <<base, sort, phase, loop>>

(* ... where value = a[start] is read, after a[start] was written, ... *)
BottomUpLeaf ==
  /\ Down("bottom_up") /\ Left >= sift.end
  /\ sift' = [sift EXCEPT !.at = "up", !.value = work[sift.start]]
  /\ UNCHANGED <<base, work, sort, phase, loop>>

(* ... and climbs from the leaf to the place value belongs. *)
Parent == (sift.root - 1) \div 2

BottomUpClimb ==
  /\ sift.at = "up" /\ sift.root > sift.start /\ work[Parent] < sift.value
  /\ work' = [work EXCEPT ![sift.root] = work[Parent]]
  /\ sift' = [sift EXCEPT !.root = Parent]
  /\ UNCHANGED <<base, sort, phase, loop>>

BottomUpPlace ==
  /\ sift.at = "up" /\ ~(sift.root > sift.start /\ work[Parent] < sift.value)
  /\ work' = [work EXCEPT ![sift.root] = sift.value]
  /\ sift' = NoSift
  /\ UNCHANGED <<base, sort, phase, loop>>

SortNext ==
  \/ Heapify \/ Heapified \/ Extract \/ Check
  \/ StandardStop \/ StandardSwap
  \/ BottomUpDescend \/ BottomUpLeaf \/ BottomUpClimb \/ BottomUpPlace

SortSpec == SortInit /\ [][SortNext]_sortVars

----------------------------------------------------------------------------
(* The elements a sort may hold, and how often each does. *)
Count(a, v) == Cardinality({i \in Index : a[i] = v})
SameElements(a, b) == \A v \in Index : Count(a, v) = Count(b, v)

(* The loop invariant of a heapsort, at the head of either loop: the part  *)
(* heapified so far is a max-heap, and what was taken out is in order and  *)
(* not less than the heap.                                                 *)
HeapOrder ==
  Sorting /\ Returned =>
    LET end  == IF phase = "extract" THEN loop ELSE n
        from == IF phase = "extract" THEN 0 ELSE loop
    IN  /\ \A i \in 1 .. end - 1 : (i - 1) \div 2 >= from => work[(i - 1) \div 2] >= work[i]
        /\ \A i \in end .. n - 1, j \in Index : j <= i => work[j] <= work[i]

(* Whatever permutation fill_permutation produced, neither of bench_one's  *)
(* two die() calls is reached, both outputs being sorted, and              *)
(* heapsort_standard loses and duplicates no element at any step.          *)
SortsRight == sort # "failed" /\ (sort = "standard" => SameElements(work, base))

(* A heapsort returns the elements it was given: what the lab means by     *)
(* comparing the two heapsorts' comparison counts on one array.            *)
BottomUpPermutes == sort = "done" => SameElements(work, base)
=============================================================================
