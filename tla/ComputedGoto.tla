---------------------------- MODULE ComputedGoto ----------------------------
(***************************************************************************)
(* run_computed_goto: the same machine driven by a table of labels.  Each  *)
(* opcode's code runs and then the ADVANCE macro, which moves pc, counts,  *)
(* and jumps to done or back to dispatch_entry.                            *)
(***************************************************************************)
EXTENDS Interpreter

CONSTANTS
  Lengths,     \* program lengths; program_init refuses 0
  StepCounts,  \* values of --steps
  Seeds

ASSUME InputAssumption ==
  Lengths \subseteq Nat \ {0} /\ StepCounts \subseteq Nat /\ Seeds \subseteq Words

VARIABLES
  code, len, steps, vm, pc, executed, result,   \* as in SwitchInterpreter
  label,       \* where control is: a C label, "advance" inside the macro, "start" before
  insn         \* &program->code[pc], read at dispatch_entry

vars == <<code, len, steps, vm, pc, executed, result, label, insn>>

(* dispatch[]: the label of each opcode. *)
dispatch == [op \in Ops |-> op]

Init ==
  /\ len \in Lengths /\ code \in [0 .. len - 1 -> Insns]
  /\ steps \in StepCounts
  /\ \E seed \in Seeds : vm = Start(seed)
  /\ pc = 0 /\ executed = 0 /\ result = <<>>
  /\ label = "start" /\ insn = code[0]

(* steps == 0 returns before anything is dispatched. *)
Enter ==
  /\ label = "start"
  /\ label' = IF steps = 0 THEN "done" ELSE "dispatch_entry"
  /\ UNCHANGED <<code, len, steps, vm, pc, executed, result, insn>>

Dispatch ==
  /\ label = "dispatch_entry"
  /\ insn' = code[pc] /\ label' = dispatch[code[pc].op]
  /\ UNCHANGED <<code, len, steps, vm, pc, executed, result>>

(* The code at op_add, ..., op_nop. *)
Operation ==
  /\ label \in Ops
  /\ vm' = Execute([insn EXCEPT !.op = label], vm, pc)
  /\ label' = "advance"
  /\ UNCHANGED <<code, len, steps, pc, executed, result, insn>>

(* Mutant of Advance: the count is tested before it is incremented. *)
AdvanceLate ==
  /\ label = "advance"
  /\ pc' = vm_next_pc(len, vm, pc, insn)
  /\ executed' = executed + 1
  /\ label' = IF executed >= steps THEN "done" ELSE "dispatch_entry"
  /\ UNCHANGED <<code, len, steps, vm, result, insn>>

(* Mutant of Advance: a taken jump to itself is not counted. *)
AdvanceUncounted ==
  /\ label = "advance"
  /\ pc' = vm_next_pc(len, vm, pc, insn)
  /\ executed' = IF pc' = pc THEN executed ELSE executed + 1
  /\ label' = IF executed' >= steps THEN "done" ELSE "dispatch_entry"
  /\ UNCHANGED <<code, len, steps, vm, result, insn>>

Advance ==
  /\ label = "advance"
  /\ pc' = vm_next_pc(len, vm, pc, insn)
  /\ executed' = executed + 1
  /\ label' = IF executed' >= steps THEN "done" ELSE "dispatch_entry"
  /\ UNCHANGED <<code, len, steps, vm, result, insn>>

Done ==
  /\ label = "done"
  /\ result' = <<vm, pc, executed>> /\ label' = "returned"
  /\ UNCHANGED <<code, len, steps, vm, pc, executed, insn>>

Next == Enter \/ Dispatch \/ Operation \/ Advance \/ Done

Spec == Init /\ [][Next]_vars
FairSpec == Spec /\ WF_vars(Next)        \* a running thread runs on

----------------------------------------------------------------------------
(* Whatever jumps a program takes, code[pc] stays inside the program.      *)
PcInRange == pc \in DOMAIN code

(* The two dispatchers return the same checksum: with an instruction that  *)
(* has been executed but not yet advanced over taken as finished, every    *)
(* step of the computed-goto interpreter is a round of run_switch, its     *)
(* return, or no step, and it returns with the same registers, pc and      *)
(* count on the same input.                                                *)
Switch == INSTANCE SwitchInterpreter WITH
  pc       <- IF label = "advance" THEN vm_next_pc(len, vm, pc, insn) ELSE pc,
  executed <- IF label = "advance" THEN executed + 1 ELSE executed

SwitchSpec == Switch!Spec

(* It returns although a program may jump to itself for ever: the count    *)
(* of instructions, not the program, ends the loop.                        *)
Returns == <>(label = "returned")
=============================================================================
