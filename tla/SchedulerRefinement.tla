------------------------ MODULE SchedulerRefinement ------------------------
(***************************************************************************)
(* In safe mode the statement-by-statement scheduler implements RunQueue.  *)
(* The abstract queue is what a walk along next from the head meets.  Each *)
(* list function changes that walk in exactly one of its statements: the   *)
(* first one of list_remove, the last one of list_add_front, the third one *)
(* of list_add_back.  A node is held between the first of these and the    *)
(* other two.                                                              *)
(***************************************************************************)
EXTENDS Scheduler

MainHolds == \/ main.call = "remove" /\ main.at > 1
             \/ main.call \in {"scan", "touch", "add_front"}

HandlerHolds == \/ handler.call = "remove" /\ handler.at > 1
                \/ handler.call = "flip"
                \/ handler.call = "add_back" /\ handler.at <= 3

Seeded(c) == [i \in 1 .. c |-> i - 1]      \* the first c nodes, as they are seeded

Order  == IF Armed THEN Walk(queue) ELSE Seeded(N)
Holder == CASE MainHolds -> "main" [] HandlerHolds -> "handler" [] OTHER -> "none"
Held   == CASE MainHolds -> MainNode [] HandlerHolds -> handler.node [] OTHER -> -1
Turn   == (IF main.call \in {"unblock", "advance"} THEN iter + 1 ELSE iter) % N

RQ == INSTANCE RunQueue WITH order <- Order, holder <- Holder, held <- Held, turn <- Turn

(* Every execution in safe mode is one of the abstract run queue: the      *)
(* handler never meets a queue from which the thread has taken a node, and *)
(* the walk of touch_runqueue never meets one the handler is rotating.     *)
RunQueueSpec == RQ!Spec

----------------------------------------------------------------------------
(* What the refinement needs beside IInv: the list a walk meets now, where *)
(* IInv describes the one the call in progress will leave.                 *)

(* A walk of q meets L nodes, all of them in S. *)
Meets(q, S, L) == \E s \in [1 .. L -> S] : Follows(q, s, L)

(* list_add_back is at its statement k, putting n behind the L nodes of s. *)
Appending(k, q, s, L, n) ==
  /\ k <= 3 => Follows(q, s, L) /\ q.tail = IF L = 0 THEN Null ELSE s[L]
  /\ k \in 2 .. 3 => q.next[n] = Null
  /\ k = 4 => Follows(q, Append(s, n), L + 1)

WalkInv ==
  Safe =>
    /\ main.call = "seed" =>
         Appending(1, queue, Seeded(main.cursor), main.cursor, main.cursor)
    /\ main.call = "seed_add" =>
         Appending(main.at, queue, Seeded(main.cursor), main.cursor, main.cursor)
    /\ main.call = "remove" /\ main.at = 1 => Queued(queue, Nodes, N)
    /\ MainHolds => Meets(queue, Nodes \ {MainNode}, N - 1)
    /\ main.call = "add_front" /\ main.at > 2 => queue.next[MainNode] = queue.head
    /\ handler.call = "remove" /\ handler.at = 1 =>
         Queued(queue, Nodes, N) /\ queue.head = handler.node
    /\ handler.call = "remove" /\ handler.at > 1 =>
         Meets(queue, Nodes \ {handler.node}, N - 1)
    /\ handler.call = "add_back" =>
         \E s \in [1 .. N - 1 -> Nodes \ {handler.node}] :
           /\ \A i, j \in 1 .. N - 1 : s[i] = s[j] => i = j
           /\ Appending(handler.at, queue, s, N - 1, handler.node)
============================================================================
