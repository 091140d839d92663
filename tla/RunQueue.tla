------------------------------ MODULE RunQueue ------------------------------
(***************************************************************************)
(* What the run queue of the scheduler lab promises in safe mode, without  *)
(* pointers, signals or statements: a sequence of all the nodes but the    *)
(* one a party holds.  The main loop takes the nodes in cyclic order and   *)
(* puts each back in front; the timer handler takes the head and puts it   *)
(* at the back; neither ever takes a node while the other holds one.       *)
(***************************************************************************)
EXTENDS Integers, Sequences, SequencesExt

CONSTANT N

Nodes == 0 .. N - 1

VARIABLES order,    \* the queued nodes, head first
          holder,   \* who holds a node: "none", "main" or "handler"
          held,     \* the node held, -1 when none is
          turn      \* the node the main loop takes next

vars == <<order, holder, held, turn>>

Init ==
  /\ order = [i \in 1 .. N |-> i - 1]
  /\ holder = "none" /\ held = -1
  /\ turn = 0

(* The main loop takes the node whose turn it is, wherever it is queued. *)
Take ==
  /\ holder = "none"
  /\ \E i \in 1 .. Len(order) : order[i] = turn /\ order' = RemoveAt(order, i)
  /\ holder' = "main" /\ held' = turn
  /\ UNCHANGED turn

PutFront ==
  /\ holder = "main"
  /\ order' = <<held>> \o order
  /\ holder' = "none" /\ held' = -1
  /\ turn' = (turn + 1) % N

(* A context switch: the head is taken and put at the back. *)
TakeHead ==
  /\ holder = "none"
  /\ order' = Tail(order)
  /\ holder' = "handler" /\ held' = Head(order)
  /\ UNCHANGED turn

PutBack ==
  /\ holder = "handler"
  /\ order' = Append(order, held)
  /\ holder' = "none" /\ held' = -1
  /\ UNCHANGED turn

Next == Take \/ PutFront \/ TakeHead \/ PutBack

Spec == Init /\ [][Next]_vars
============================================================================
