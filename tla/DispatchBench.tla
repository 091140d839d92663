---------------------------- MODULE DispatchBench ----------------------------
(***************************************************************************)
(* The two drivers of the dispatch benchmark: bench.c, which collects a    *)
(* list of patterns and one of dispatches from its arguments and runs each *)
(* pair on a program of its own, and bench_mode_common.c, which runs one.  *)
(* They share program_init and program_destroy.                            *)
(*                                                                         *)
(* What a program computes is SwitchInterpreter's and ComputedGoto's       *)
(* matter; parsing of numbers, printing and timing are left out.           *)
(***************************************************************************)
EXTENDS Heap

CONSTANTS
  Arguments,   \* sequences of pairs of an option and its value
  ProgramLengths,     \* values of --program-len or PROGRAM_LEN
  RepCounts    \* values of --reps or REPS

ASSUME CountsAssumption == ProgramLengths \subseteq Nat /\ RepCounts \subseteq Nat

VARIABLES
  todo,              \* the arguments still to be handled
  patterns,          \* pattern_list_t and dispatch_list_t: where the items
  dispatches,        \* are, and the items
  program_len, reps,
  code,              \* program.code
  program_ready,
  pi, di, rep,       \* the loops of main
  status             \* the exit status, or -1

driverVars == <<pc, live, todo, patterns, dispatches, program_len, reps, code, program_ready,
          pi, di, rep, status>>
options == <<todo, patterns, dispatches, program_len, reps>>
loops == <<pi, di, rep>>

Empty == [items |-> Null, list |-> <<>>]
Code == <<"code", 0>>

DriverInit ==
  /\ pc \in {"arguments", "single"} /\ live = {}
  /\ todo \in Arguments
  /\ patterns = Empty /\ dispatches = Empty
  /\ program_len \in ProgramLengths /\ reps \in RepCounts
  /\ code = Null /\ program_ready = FALSE
  /\ pi = 0 /\ di = 0 /\ rep = 0 /\ status = -1

Leave(s) == pc' = "exit" /\ status' = s
Jump(then) == pc' = then /\ UNCHANGED <<live, status>>
-----------------------------------------------------------------------------
(* realloc moves the items to a larger block, or leaves them where they    *)
(* are and returns NULL; the list is changed only when it did not.         *)
ItemsBlock(name, old) == <<name, Len(old.list) + 1>>

(* Mutant of Grown: the result of realloc is stored before it is tested.   *)
GrownUntested(name, old, item) ==
  {[items |-> ItemsBlock(name, old), list |-> Append(old.list, item)], [old EXCEPT !.items = Null]}

(* The list after the call, for each of its two outcomes.                  *)
Grown(name, old, item) ==
  {[items |-> ItemsBlock(name, old), list |-> Append(old.list, item)], old}

(* append_pattern and append_dispatch, then or the way to the fail label.  *)
AppendItem(name, old, item, then) ==
  \E after \in Grown(name, old, item) :
    /\ IF after.list # old.list
       THEN live' = (live \ {old.items}) \cup {after.items} /\ pc' = then
       ELSE pc' = "fail" /\ UNCHANGED live
    /\ IF name = "patterns" THEN patterns' = after /\ UNCHANGED dispatches
                            ELSE dispatches' = after /\ UNCHANGED patterns

(* One append or one other option; "all" stands for two in Arguments.      *)
Argument ==
  /\ pc = "arguments" /\ todo # <<>> /\ todo' = Tail(todo)
  /\ LET option == Head(todo)[1]
         value == Head(todo)[2]
     IN  \/ /\ option \in {"patterns", "dispatches"} /\ value # "wrong"
            /\ AppendItem(option, IF option = "patterns" THEN patterns ELSE dispatches,
                          value, "arguments")
            /\ UNCHANGED status
         \/ /\ option # "help" /\ value = "wrong"
            /\ Jump("fail") /\ UNCHANGED <<patterns, dispatches>>
         \/ /\ option = "help"
            /\ Free(<<patterns.items, dispatches.items>>, "exit") /\ status' = 0
            /\ UNCHANGED <<patterns, dispatches>>
  /\ UNCHANGED <<program_len, reps, code, program_ready, loops>>

(* --reps 0 is refused where it is met.                                    *)
NoReps ==
  /\ pc = "arguments" /\ reps = 0 /\ Jump("fail")
  /\ UNCHANGED <<options, code, program_ready, loops>>

DefaultPattern ==
  /\ pc = "arguments" /\ todo = <<>> /\ reps > 0 /\ patterns.list = <<>>
  /\ AppendItem("patterns", patterns, "predictable", "arguments")
  /\ UNCHANGED <<todo, program_len, reps, code, program_ready, loops, status>>

DefaultDispatch ==
  /\ pc = "arguments" /\ todo = <<>> /\ reps > 0 /\ patterns.list # <<>>
  /\ IF dispatches.list = <<>>
     THEN AppendItem("dispatches", dispatches, "switch", "patterns") /\ UNCHANGED status
     ELSE Jump("patterns") /\ UNCHANGED <<patterns, dispatches>>
  /\ UNCHANGED <<todo, program_len, reps, code, program_ready, loops>>
-----------------------------------------------------------------------------
(* program_init clears the program first, so a code it still held would be *)
(* lost.                                                                   *)
program_init(then, otherwise) ==
  \/ program_len > 0 /\ Allocate(Code, then) /\ code' = Code
  \/ pc' = otherwise /\ code' = Null /\ UNCHANGED live

program_destroy(then) == Free(<<code>>, then) /\ code' = Null

Pattern ==
  /\ pc = "patterns" /\ pi < Len(patterns.list)
  /\ program_init("dispatches", "fail")
  /\ program_ready' = (program_ready \/ pc' = "dispatches")
  /\ di' = 0 /\ rep' = 0
  /\ UNCHANGED <<options, pi, status>>

(* One repetition of run_interpreter, or the next dispatch. *)
Measure ==
  /\ pc = "dispatches" /\ di < Len(dispatches.list)
  /\ IF rep < reps THEN rep' = rep + 1 /\ UNCHANGED di
                   ELSE rep' = 0 /\ di' = di + 1
  /\ UNCHANGED <<pc, live, options, code, program_ready, pi, status>>

PatternDone ==
  /\ pc = "dispatches" /\ di = Len(dispatches.list)
  /\ program_destroy("patterns") /\ program_ready' = FALSE
  /\ pi' = pi + 1
  /\ UNCHANGED <<options, di, rep, status>>

Done ==
  /\ pc = "patterns" /\ pi = Len(patterns.list)
  /\ Free(<<patterns.items, dispatches.items>>, "exit") /\ status' = 0
  /\ UNCHANGED <<options, code, program_ready, loops>>

(* The fail label.  (No path leads here from inside the dispatch loop, so   *)
(* program_ready is FALSE whenever it is tested.)                          *)
Fail ==
  /\ pc = "fail"
  /\ IF program_ready
     THEN Free(<<code, patterns.items, dispatches.items>>, "exit") /\ code' = Null
     ELSE Free(<<patterns.items, dispatches.items>>, "exit") /\ UNCHANGED code
  /\ status' = 1
  /\ UNCHANGED <<options, program_ready, loops>>
-----------------------------------------------------------------------------
(* run_single_dispatch_main: everything is refused before it allocates.    *)
Refused == reps = 0 \/ program_len = 0 \/ Len(todo) > 1
           \/ \E k \in DOMAIN todo : todo[k][1] # "patterns" \/ todo[k][2] = "wrong"

Single ==
  /\ pc = "single"
  /\ \/ /\ Refused
        /\ Leave(IF Len(todo) = 1 /\ todo[1][1] = "help" THEN 0 ELSE 1)
        /\ UNCHANGED <<live, code>>
     \/ /\ ~Refused
        /\ program_init("single_runs", "exit")
        /\ status' = IF pc' = "exit" THEN 1 ELSE -1
  /\ UNCHANGED <<options, program_ready, loops>>

SingleRuns ==
  /\ pc = "single_runs"
  /\ IF rep < reps
     THEN rep' = rep + 1 /\ UNCHANGED <<pc, live, code, status>>
     ELSE program_destroy("exit") /\ status' = 0 /\ UNCHANGED rep
  /\ UNCHANGED <<options, program_ready, pi, di>>

DriverNext ==
  \/ Argument \/ NoReps \/ DefaultPattern \/ DefaultDispatch
  \/ Pattern \/ Measure \/ PatternDone \/ Done \/ Fail
  \/ Single \/ SingleRuns

DriverSpec == DriverInit /\ [][DriverNext]_driverVars
-----------------------------------------------------------------------------
(* Whichever realloc or calloc fails, and wherever an argument is refused, *)
(* both drivers free each block once and exit with none left; a program    *)
(* that main has not destroyed is always one the fail label would free.    *)
DriverFreesAll ==
  /\ pc # "bad_free"
  /\ pc = "exit" => live = {}
  /\ pc \in {"arguments", "patterns", "dispatches", "fail"} =>
       (program_ready <=> Code \in live)
=============================================================================
