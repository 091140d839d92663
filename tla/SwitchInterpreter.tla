------------------------- MODULE SwitchInterpreter -------------------------
(***************************************************************************)
(* run_switch: a loop that executes one instruction a round.  It is the    *)
(* reference the computed-goto interpreter is compared with.               *)
(***************************************************************************)
EXTENDS Interpreter

CONSTANTS Lengths, StepCounts, Seeds

VARIABLES
  code, len,   \* program->code, a function on 0 .. len-1, and program->len
  steps,       \* how many instructions to execute
  vm, pc, executed,
  result       \* what finish_checksum mixes, once it ran

vars == <<code, len, steps, vm, pc, executed, result>>

Mixed(count) == <<vm, pc, count>>

Init ==
  /\ len \in Lengths /\ code \in [0 .. len - 1 -> Insns]
  /\ steps \in StepCounts
  /\ \E seed \in Seeds : vm = Start(seed)
  /\ pc = 0 /\ executed = 0 /\ result = <<>>

Round ==
  /\ result = <<>> /\ executed < steps
  /\ vm' = Execute(code[pc], vm, pc)
  /\ pc' = vm_next_pc(len, vm', pc, code[pc])
  /\ executed' = executed + 1
  /\ UNCHANGED <<code, len, steps, result>>

Finish ==
  /\ result = <<>> /\ executed >= steps
  /\ result' = Mixed(steps)
  /\ UNCHANGED <<code, len, steps, vm, pc, executed>>

Next == Round \/ Finish

Spec == Init /\ [][Next]_vars /\ WF_vars(Next)
============================================================================
