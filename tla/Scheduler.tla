----------------------------- MODULE Scheduler -----------------------------
(***************************************************************************)
(* The scheduler lab (scheduler/main.c): one thread that keeps moving a    *)
(* node of the run queue to its front, and a SIGALRM handler, run on top   *)
(* of that thread by a 1 ms interval timer, that rotates the same queue.   *)
(* In safe mode the thread blocks SIGALRM around its update; in unsafe     *)
(* mode it does not, and both sides unlink with list_remove_unchecked.     *)
(*                                                                         *)
(* A step of either side is one C statement on the queue.  spin_delay and  *)
(* the progress messages change no state and are left out.  Of a node's    *)
(* value only its lowest bit is kept: every write after the seed is ^= 1.  *)
(***************************************************************************)
EXTENDS SchedulerList, FiniteSets

CONSTANTS
  Mode,        \* the command line's mode
  IterWidth,   \* iter is an unsigned long: it counts modulo IterWidth (2^64)
  TickMax      \* the largest sig_atomic_t (2^31 - 1), where ++g_ticks wraps

ASSUME ModeAssumption == Mode \in {"safe", "unsafe"}
ASSUME WidthAssumption ==        \* NODE_COUNT divides 2^64, which is even
  IterWidth \in Nat \ {0} /\ IterWidth % N = 0 /\ IterWidth % 2 = 0
ASSUME TickAssumption == TickMax \in Nat /\ TickMax % 2 = 1

VARIABLES
  queue,       \* g_runqueue and the links of g_nodes
  value,       \* lowest bit of the value of each node
  iter,        \* the main loop's counter
  g_ticks,
  blocked,     \* the thread's signal mask, as sigprocmask sets it
  pending,     \* the pending signals: standard ones, so a set of them
  main,        \* where the thread is: the call it is in, its statement, its cursor
  handler,     \* where the handler is, and its local pointers
  status       \* "running", or "fault" once a statement dereferenced NULL

vars == <<queue, value, iter, g_ticks, blocked, pending, main, handler, status>>

Safe    == Mode = "safe"        \* g_mode_safe
SIGALRM == "SIGALRM"
g_mask  == {SIGALRM}
Signals == {SIGALRM}

----------------------------------------------------------------------------
(* The thread's calls, and the list function and node of each.             *)

MainCalls == {"seed", "seed_add", "block", "remove", "scan", "touch",
              "add_front", "unblock", "advance"}

LoopStart == IF Safe THEN "block" ELSE "remove"

(* &g_nodes[i] while seeding, &g_nodes[iter % NODE_COUNT] in the loop. *)
MainNode == IF main.call \in {"seed", "seed_add"} THEN main.cursor ELSE iter % N

(* Mutant of MainFunction: unsafe mode unlinks with the checked list_remove. *)
MainFunctionChecked ==
  CASE main.call = "seed_add"  -> "list_add_back"
    [] main.call = "add_front" -> "list_add_front"
    [] OTHER                   -> "list_remove"

MainFunction ==
  CASE main.call = "seed_add"  -> "list_add_back"
    [] main.call = "add_front" -> "list_add_front"
    [] OTHER                   -> IF Safe THEN "list_remove" ELSE "list_remove_unchecked"

MainCall(c) == [call |-> c, at |-> 1, cursor |-> main.cursor]
MainGoto(c) == main' = MainCall(c)

(* The handler's calls.  Safe: simulate_context_switch on the head.        *)
(* Unsafe: the last two nodes change places with the rest of the queue.    *)
HandlerCalls == {"idle", "tick", "remove", "flip", "add_back",
                 "drop_tail", "drop_prev", "front_tail", "back_prev"}

HandlerNode ==
  IF handler.call \in {"drop_prev", "back_prev"} THEN handler.prev ELSE handler.node

HandlerFunction ==
  CASE handler.call = "remove"                   -> "list_remove"
    [] handler.call \in {"add_back", "back_prev"} -> "list_add_back"
    [] handler.call = "front_tail"                -> "list_add_front"
    [] OTHER                                      -> "list_remove_unchecked"

Idle == [call |-> "idle", at |-> 1, node |-> Null, prev |-> Null]

HandlerCall(c) == [call |-> c, at |-> 1, node |-> handler.node, prev |-> handler.prev]

(* Where the handler goes when the list call it is in has returned. *)
HandlerAfterCall ==
  CASE handler.call = "remove"     -> HandlerCall("flip")
    [] handler.call = "drop_tail"  -> HandlerCall("drop_prev")
    [] handler.call = "drop_prev"  -> HandlerCall("front_tail")
    [] handler.call = "front_tail" -> HandlerCall("back_prev")
    [] OTHER                       -> Idle

Init ==
  /\ queue = EmptyList
  /\ value = [n \in Nodes |-> 0]
  /\ iter = 0 /\ g_ticks = 0
  /\ blocked = {} /\ pending = {}
  /\ main = [call |-> "seed", at |-> 1, cursor |-> 0]
  /\ handler = Idle
  /\ status = "running"

Armed == main.call \notin {"seed", "seed_add"}     \* after set_timer_1ms

(* The thread runs only when no handler does, and never past a deliverable *)
(* signal: the kernel delivers one on every return to user code.           *)
MainRuns == status = "running" /\ handler.call = "idle" /\ SIGALRM \notin pending \ blocked
HandlerRuns == status = "running" /\ handler.call # "idle"

----------------------------------------------------------------------------
(* The thread.                                                             *)

(* runqueue_seed: value = i, the links are NULL already; then list_add_back. *)
Seed ==
  /\ MainRuns /\ main.call = "seed"
  /\ value' = [value EXCEPT ![main.cursor] = main.cursor % 2]
  /\ queue' = SetNext(SetPrev(queue, main.cursor, Null), main.cursor, Null)
  /\ MainGoto("seed_add")
  /\ UNCHANGED <<iter, g_ticks, blocked, pending, handler, status>>

(* Where the thread goes when the list call it is in has returned. *)
AfterMainCall ==
  CASE main.call = "seed_add" -> IF main.cursor + 1 < N
                                 THEN [call |-> "seed", at |-> 1, cursor |-> main.cursor + 1]
                                 ELSE [call |-> LoopStart, at |-> 1, cursor |-> Null]
    [] main.call = "remove"   -> MainCall("scan")
    [] OTHER                  -> MainCall(IF Safe THEN "unblock" ELSE "advance")

MainStatement ==
  /\ MainRuns /\ main.call \in {"seed_add", "remove", "add_front"}
  /\ IF DerefsNull(MainFunction, main.at, queue, MainNode)
     THEN status' = "fault" /\ UNCHANGED <<queue, main>>
     ELSE /\ queue' = Statement(MainFunction, main.at, queue, MainNode)
          /\ main' = IF main.at < Length(MainFunction)
                     THEN [main EXCEPT !.at = @ + 1]
                     ELSE AfterMainCall
          /\ UNCHANGED status
  /\ UNCHANGED <<value, iter, g_ticks, blocked, pending, handler>>

(* Mutant of Block: the sigprocmask call is dropped. *)
BlockNothing ==
  /\ MainRuns /\ main.call = "block"
  /\ MainGoto("remove")
  /\ UNCHANGED <<queue, value, iter, g_ticks, blocked, pending, handler, status>>

Block ==
  /\ MainRuns /\ main.call = "block"
  /\ blocked' = blocked \cup g_mask
  /\ MainGoto("remove")
  /\ UNCHANGED <<queue, value, iter, g_ticks, pending, handler, status>>

(* Mutant of Scan: the walk starts at the node just unlinked. *)
ScanFromNode ==
  /\ MainRuns /\ main.call = "scan"
  /\ main' = [call |-> "touch", at |-> 1, cursor |-> MainNode]
  /\ UNCHANGED <<queue, value, iter, g_ticks, blocked, pending, handler, status>>

(* touch_runqueue: the loop reads head, then flips and follows next. *)
Scan ==
  /\ MainRuns /\ main.call = "scan"
  /\ main' = [call |-> "touch", at |-> 1, cursor |-> queue.head]
  /\ UNCHANGED <<queue, value, iter, g_ticks, blocked, pending, handler, status>>

Touch ==
  /\ MainRuns /\ main.call = "touch" /\ main.cursor # Null
  /\ value' = [value EXCEPT ![main.cursor] = 1 - @]
  /\ main' = [main EXCEPT !.cursor = queue.next[main.cursor]]
  /\ UNCHANGED <<queue, iter, g_ticks, blocked, pending, handler, status>>

TouchDone ==
  /\ MainRuns /\ main.call = "touch" /\ main.cursor = Null
  /\ MainGoto("add_front")
  /\ UNCHANGED <<queue, value, iter, g_ticks, blocked, pending, handler, status>>

(* Mutant of Unblock: SIG_BLOCK where the code says SIG_UNBLOCK. *)
UnblockNothing ==
  /\ MainRuns /\ main.call = "unblock"
  /\ MainGoto("advance")
  /\ UNCHANGED <<queue, value, iter, g_ticks, blocked, pending, handler, status>>

Unblock ==
  /\ MainRuns /\ main.call = "unblock"
  /\ blocked' = blocked \ g_mask
  /\ MainGoto("advance")
  /\ UNCHANGED <<queue, value, iter, g_ticks, pending, handler, status>>

(* Mutant of Advance: the loop forgets ++iter. *)
AdvanceNothing ==
  /\ MainRuns /\ main.call = "advance"
  /\ MainGoto(LoopStart)
  /\ UNCHANGED <<queue, value, iter, g_ticks, blocked, pending, handler, status>>

Advance ==
  /\ MainRuns /\ main.call = "advance"
  /\ iter' = (iter + 1) % IterWidth
  /\ MainGoto(LoopStart)
  /\ UNCHANGED <<queue, value, g_ticks, blocked, pending, handler, status>>

Main == Seed \/ MainStatement \/ Block \/ Scan \/ Touch \/ TouchDone \/ Unblock \/ Advance

----------------------------------------------------------------------------
(* The kernel.                                                             *)

(* The interval timer expires; a signal already pending absorbs it. *)
Expire ==
  /\ status = "running" /\ Armed /\ SIGALRM \notin pending
  /\ pending' = pending \cup {SIGALRM}
  /\ UNCHANGED <<queue, value, iter, g_ticks, blocked, main, handler, status>>

(* Mutant of Deliver: g_mask does not contain SIGALRM. *)
DeliverAnyway ==
  /\ status = "running" /\ SIGALRM \in pending /\ handler.call = "idle"
  /\ pending' = pending \ {SIGALRM}
  /\ handler' = HandlerCall("tick")
  /\ UNCHANGED <<queue, value, iter, g_ticks, blocked, main, status>>

(* The handler starts.  Until it returns SIGALRM is masked (no SA_NODEFER). *)
Deliver ==
  /\ status = "running" /\ SIGALRM \in pending \ blocked /\ handler.call = "idle"
  /\ pending' = pending \ {SIGALRM}
  /\ handler' = HandlerCall("tick")
  /\ UNCHANGED <<queue, value, iter, g_ticks, blocked, main, status>>

----------------------------------------------------------------------------
(* alarm_handler.                                                          *)

(* What it goes on to do: nothing on a queue too short for its mode. *)
SwitchFrom(q) ==
  CASE Safe /\ q.head # Null ->
         [call |-> "remove", at |-> 1, node |-> q.head, prev |-> Null]
    [] ~Safe /\ q.tail # Null /\ q.prev[q.tail] # Null ->
         [call |-> "drop_tail", at |-> 1, node |-> q.tail, prev |-> q.prev[q.tail]]
    [] OTHER -> Idle

(* Mutant of Tick: the counter does not wrap at the width of sig_atomic_t. *)
TickUnbounded ==
  /\ HandlerRuns /\ handler.call = "tick" /\ g_ticks < TickMax + 2
  /\ g_ticks' = g_ticks + 1
  /\ handler' = SwitchFrom(queue)
  /\ UNCHANGED <<queue, value, iter, blocked, pending, main, status>>

(* ++g_ticks, and the pointers the rest of the handler works on are read. *)
Tick ==
  /\ HandlerRuns /\ handler.call = "tick"
  /\ g_ticks' = IF g_ticks = TickMax THEN -TickMax - 1 ELSE g_ticks + 1
  /\ handler' = SwitchFrom(queue)
  /\ UNCHANGED <<queue, value, iter, blocked, pending, main, status>>

HandlerStatement ==
  /\ HandlerRuns /\ handler.call \notin {"tick", "flip"}
  /\ IF DerefsNull(HandlerFunction, handler.at, queue, HandlerNode)
     THEN status' = "fault" /\ UNCHANGED <<queue, handler>>
     ELSE /\ queue' = Statement(HandlerFunction, handler.at, queue, HandlerNode)
          /\ handler' = IF handler.at < Length(HandlerFunction)
                        THEN [handler EXCEPT !.at = @ + 1]
                        ELSE HandlerAfterCall
          /\ UNCHANGED status
  /\ UNCHANGED <<value, iter, g_ticks, blocked, pending, main>>

(* head->value ^= 1, between list_remove and list_add_back. *)
Flip ==
  /\ HandlerRuns /\ handler.call = "flip"
  /\ value' = [value EXCEPT ![handler.node] = 1 - @]
  /\ handler' = HandlerCall("add_back")
  /\ UNCHANGED <<queue, iter, g_ticks, blocked, pending, main, status>>

Handler == Tick \/ HandlerStatement \/ Flip

----------------------------------------------------------------------------
Next == Main \/ Expire \/ Deliver \/ Handler

(* A deliverable signal is delivered, a running handler runs on, and the   *)
(* thread is strongly fair: it is interrupted again and again, but makes a *)
(* step in the end if it gets the processor again and again.  That it does *)
(* is the timer's doing: 1 ms is longer than one run of the handler, so    *)
(* not every run of the handler ends with the next signal pending.         *)
SlowTimer == []<>(status = "fault" \/ MainRuns)
Fairness == SF_vars(Main) /\ WF_vars(Deliver) /\ WF_vars(Handler) /\ SlowTimer

Spec == Init /\ [][Next]_vars
FairSpec == Spec /\ Fairness

----------------------------------------------------------------------------
TypeOK ==
  /\ queue \in List
  /\ value \in [Nodes -> {0, 1}]
  /\ iter \in 0 .. IterWidth - 1
  /\ g_ticks \in -TickMax - 1 .. TickMax
  /\ blocked \in SUBSET Signals /\ pending \in SUBSET Signals
  /\ status \in {"running", "fault"}
  /\ main \in [call : MainCalls, at : 1 .. 6, cursor : Link]
  /\ handler \in [call : HandlerCalls, at : 1 .. 6, node : Link, prev : Link]

(* The thread is between the two sigprocmask calls of busy_mutate_safe. *)
Critical == main.call \in {"remove", "scan", "touch", "add_front", "unblock"}

(* In safe mode alarm_handler never runs while busy_mutate_safe is between *)
(* its SIG_BLOCK and its SIG_UNBLOCK, whatever expires meanwhile.          *)
Exclusion == Safe => ~(Critical /\ handler.call # "idle")

(* No list function is in progress, on either side. *)
AtRest == /\ main.call \in {"block", "advance"}
          /\ handler.call \in {"idle", "tick"}

(* In safe mode, whenever neither side is inside its update, the pointers  *)
(* form one list of all the nodes, the same read from either end, and no   *)
(* statement has dereferenced NULL: no interrupted list_remove or          *)
(* list_add_* ever loses a node, leaves a cycle or a stale tail.           *)
WellFormed == Safe /\ AtRest => status = "running" /\ Queued(queue, Nodes, N)

(* In safe mode an iteration flips every node but the one it moves         *)
(* (touch_runqueue runs between its list_remove and its list_add_front)    *)
(* and a tick flips one: the parity of the flipped bits is the parity of   *)
(* what ran, across the wrap of both counters.  A touch that misses a node *)
(* of a half-updated list, or meets one twice, breaks it.                  *)
Ones == Cardinality({n \in Nodes : value[n] = 1})
SeedOnes == Cardinality({n \in Nodes : n % 2 = 1})

FlipParity ==
  Safe /\ main.call = "block" /\ handler.call = "idle" =>
    (Ones + g_ticks + iter * (N - 1)) % 2 = SeedOnes % 2

(* Every node is moved to the front again and again, although the timer    *)
(* may interrupt the loop at every unblocked statement.                    *)
EveryNodeMoved ==
  \A n \in Nodes : []<>(main.call = "add_front" /\ MainNode = n)

(* A SIGALRM that became pending inside the critical section is not lost:  *)
(* the handler runs after the section.                                     *)
TickHandled == SIGALRM \in pending ~> handler.call = "tick"

(* Unsafe mode: the NULL checks the unchecked unlink leaves out are hit at *)
(* once, by the thread (node 0 has no prev) or by the handler (the tail    *)
(* has no next): the program faults without completing an iteration.       *)
UnsafeFaults == /\ <>(status = "fault")
                /\ [](Armed => main.call = "remove" /\ iter = 0)

----------------------------------------------------------------------------
(* The inductive invariant behind Exclusion and WellFormed.                *)

(* Each side is where its mode lets it be, on nodes that exist. *)
ControlInv ==
  /\ main.call \in {"seed", "seed_add"} => main.cursor \in Nodes
  /\ ~Armed => handler.call = "idle" /\ pending = {} /\ blocked = {}
  /\ handler.call \notin {"idle", "tick"} => handler.node \in Nodes
  /\ handler.call \in {"drop_prev", "back_prev", "drop_tail", "front_tail"} =>
       handler.prev \in Nodes /\ ~Safe
  /\ Safe => main.at <= 4 /\ handler.at <= 4
  /\ Safe /\ Critical => SIGALRM \in blocked /\ handler.call = "idle"
  /\ Safe /\ ~Critical => blocked = {}

(* In safe mode the pointers form the list of the nodes that are queued,   *)
(* or will form it when the call in progress returns.                      *)
ListInv ==
  Safe =>
    /\ status = "running"
    /\ main.call = "seed" => Queued(queue, 0 .. main.cursor - 1, main.cursor)
    /\ main.call = "seed_add" =>
         Queued(Rest("list_add_back", main.at, queue, main.cursor),
                0 .. main.cursor, main.cursor + 1)
    /\ main.call \in {"block", "unblock", "advance"} /\ handler.call \in {"idle", "tick"} =>
         Queued(queue, Nodes, N)
    /\ main.call = "remove" =>
         Queued(Rest("list_remove", main.at, queue, MainNode), Nodes \ {MainNode}, N - 1)
    /\ main.call \in {"scan", "touch"} => Queued(queue, Nodes \ {MainNode}, N - 1)
    /\ main.call = "add_front" =>
         Queued(Rest("list_add_front", main.at, queue, MainNode), Nodes, N)
    /\ handler.call = "remove" =>
         Queued(Rest("list_remove", handler.at, queue, handler.node),
                Nodes \ {handler.node}, N - 1)
    /\ handler.call = "flip" => Queued(queue, Nodes \ {handler.node}, N - 1)
    /\ handler.call = "add_back" =>
         Queued(Rest("list_add_back", handler.at, queue, handler.node), Nodes, N)

IInv == TypeOK /\ ControlInv /\ ListInv

(* What FlipParity needs beside it: how far the flips are ahead of the     *)
(* counters.  Of the nodes a walk meets, touch_runqueue has flipped the    *)
(* first j; a tick is counted before the handler flips its node.           *)
Touched(j) ==
  CASE main.call = "touch" -> main.cursor = IF j = N - 1 THEN Null ELSE Walk(queue)[j + 1]
    [] main.call \in {"add_front", "unblock", "advance"} -> j = N - 1
    [] OTHER -> j = 0

FlipDue == IF handler.call \in {"remove", "flip"} THEN 1 ELSE 0

FlipInv ==
  Safe =>
    /\ ~Armed =>
         /\ iter = 0 /\ g_ticks = 0
         /\ \A n \in Nodes :
              value[n] = IF n < main.cursor \/ (n = main.cursor /\ main.call = "seed_add")
                         THEN n % 2 ELSE 0
    /\ Armed =>
         \E j \in 0 .. N - 1 :
           Touched(j) /\ (Ones + g_ticks + iter * (N - 1)) % 2 = (SeedOnes + j + FlipDue) % 2
============================================================================
