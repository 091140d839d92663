--------------------------- MODULE DispatchProofs ---------------------------
(***************************************************************************)
(* Theorems about the computed-goto interpreter, for every program length, *)
(* set of instructions, word size and number of steps: it never leaves its *)
(* program, and every step of it is a round of run_switch, its return, or  *)
(* no step of it.                                                          *)
(***************************************************************************)
EXTENDS ComputedGoto, Sequences, TLAPS

(* Where control can be, and what is known there: between its dispatch and *)
(* its ADVANCE the instruction read is still the one at pc.                *)
Labels == Ops \cup {"start", "dispatch_entry", "advance", "done", "returned"}

IInv ==
  /\ len \in Nat \ {0} /\ code \in [0 .. len - 1 -> Insns] /\ steps \in Nat
  /\ pc \in 0 .. len - 1 /\ executed \in Nat
  /\ label \in Labels
  /\ label # "returned" => result = <<>>
  /\ label \in Ops => insn = code[pc] /\ label = insn.op
  /\ label = "advance" => insn = code[pc]
  /\ label = "start" => executed = 0
  /\ label \in Ops \cup {"dispatch_entry", "advance"} => executed < steps
  /\ label = "done" => executed = steps

(* vm_next_pc never leaves the program, for a jump of any length. *)
LEMMA NextPcInRange ==
  ASSUME NEW l \in Nat \ {0}, NEW v, NEW p \in 0 .. l - 1, NEW i \in Insns
  PROVE  vm_next_pc(l, v, p, i) \in 0 .. l - 1
<1>1. i.imm \in Int
  BY InsnAssumption DEF Insn
<1>2. normalize_offset(i.imm, l) \in Int
  BY <1>1 DEF normalize_offset
<1>3. \A x \in Int : x % l \in 0 .. l - 1
  OBVIOUS
<1>4. p + 1 \in Int /\ p + 1 + normalize_offset(i.imm, l) \in Int
  BY <1>2
<1>5. QED
  BY <1>3, <1>4 DEF vm_next_pc

(* The loop starts with no instruction fetched and nothing executed. *)
LEMMA InitIInv == Init => IInv
BY InputAssumption DEF Init, IInv, Labels, Ops

(* Every label keeps the fetched instruction that of pc, and the count below steps. *)
LEMMA NextIInv == IInv /\ [Next]_vars => IInv'
<1> SUFFICES ASSUME IInv, [Next]_vars  PROVE IInv'
  OBVIOUS
<1>1. CASE Enter
  BY <1>1 DEF Enter, IInv, Labels, Ops
<1>2. CASE Dispatch
  <2>1. code[pc] \in Insns /\ code[pc].op \in Ops
    BY InsnAssumption DEF IInv, Insn
  <2>2. insn' = code[pc] /\ label' = code[pc].op
    BY <1>2, <2>1 DEF Dispatch, dispatch
  <2>3. QED
    BY <1>2, <2>1, <2>2 DEF Dispatch, IInv, Labels, Ops
<1>3. CASE Operation
  BY <1>3 DEF Operation, IInv, Labels, Ops
<1>4. CASE Advance
  <2>1. code[pc] \in Insns /\ insn = code[pc]
    BY <1>4 DEF IInv, Advance
  <2>2. pc' \in 0 .. len - 1
    BY <1>4, <2>1, NextPcInRange DEF IInv, Advance
  <2>3. executed' = executed + 1 /\ executed < steps
    BY <1>4 DEF IInv, Advance
  <2>4. QED
    BY <1>4, <2>2, <2>3 DEF Advance, IInv, Labels, Ops
<1>5. CASE Done
  BY <1>5 DEF Done, IInv, Labels, Ops
<1>6. CASE UNCHANGED vars
  BY <1>6 DEF vars, IInv
<1>7. QED
  BY <1>1, <1>2, <1>3, <1>4, <1>5, <1>6 DEF Next

(* The invariant holds in every reachable state. *)
LEMMA Inductive == Spec => []IInv
BY InitIInv, NextIInv, PTL DEF Spec

(* code[pc] is inside the program in every reachable state, whatever the   *)
(* jump distances.                                                         *)
THEOREM StaysInProgram == Spec => []PcInRange
<1>1. IInv => PcInRange
  BY DEF IInv, PcInRange
<1>2. QED
  BY <1>1, Inductive, PTL

(* Both interpreters are built from the same functions. *)
LEMMA SameMachine ==
  /\ \A i, v, p : Switch!Execute(i, v, p) = Execute(i, v, p)
  /\ \A l, v, p, i : Switch!vm_next_pc(l, v, p, i) = vm_next_pc(l, v, p, i)
<1>1. \A i : Switch!Abs(i) = Abs(i)
  BY DEF Abs, Switch!Abs
<1>2. \A i, v, p : Switch!Execute(i, v, p) = Execute(i, v, p)
  BY <1>1 DEF Execute, Switch!Execute
<1>3. \A i, l : Switch!normalize_offset(i, l) = normalize_offset(i, l)
  BY DEF normalize_offset, Switch!normalize_offset
<1>4. \A l, v, p, i : Switch!vm_next_pc(l, v, p, i) = vm_next_pc(l, v, p, i)
  BY <1>3 DEF vm_next_pc, Switch!vm_next_pc
<1>5. QED
  BY <1>2, <1>4

(* Every step of run_computed_goto is a step of run_switch or a stutter.   *)
LEMMA StepRefines == IInv /\ [Next]_vars => [Switch!Next]_(Switch!vars)
<1> SUFFICES ASSUME IInv, [Next]_vars  PROVE [Switch!Next]_(Switch!vars)
  OBVIOUS
<1>1. CASE Enter
  BY <1>1 DEF Enter, Switch!vars
<1>2. CASE Dispatch
  <2>1. code[pc].op \in Ops
    BY InsnAssumption DEF IInv, Insn
  <2>2. label' # "advance" /\ label # "advance"
    BY <1>2, <2>1 DEF Dispatch, dispatch, Ops
  <2>3. QED
    BY <1>2, <2>2 DEF Dispatch, Switch!vars
<1>3. CASE Operation
  <2>1. insn = code[pc] /\ label = insn.op /\ label # "advance" /\ label' = "advance"
    BY <1>3 DEF Operation, IInv, Ops
  <2>2. code[pc] \in Insn
    BY InsnAssumption DEF IInv
  <2>3. [insn EXCEPT !.op = label] = code[pc]
    BY <2>1, <2>2 DEF Insn
  <2>4. vm' = Execute(code[pc], vm, pc)
    BY <1>3, <2>3 DEF Operation
  <2>5. /\ executed < steps /\ result = <<>> /\ executed' = executed /\ pc' = pc
        /\ insn' = insn /\ code' = code /\ len' = len /\ steps' = steps /\ result' = result
    BY <1>3 DEF Operation, IInv, Ops
  <2>6. vm' = Switch!Execute(code[pc], vm, pc)
    BY <2>4, SameMachine
  <2>7. vm_next_pc(len, vm, pc, insn)' = Switch!vm_next_pc(len, vm', pc, code[pc])
    BY <2>1, <2>5, SameMachine
  <2>8. Switch!Round
    <3> DEFINE next == vm_next_pc(len, vm, pc, insn)
               jump == Switch!vm_next_pc(len, vm', pc, code[pc])
               step == Switch!Execute(code[pc], vm, pc)
    <3>1. next' = jump /\ vm' = step
      BY <2>6, <2>7
    <3> HIDE DEF next, jump, step
    <3> QED  BY <2>1, <2>5, <3>1 DEF Switch!Round, next, jump, step
  <2>9. QED
    BY <2>8 DEF Switch!Next
<1>4. CASE Advance
  <2>1. label' # "advance" /\ label = "advance"
    BY <1>4 DEF Advance
  <2>2. QED
    BY <1>4, <2>1 DEF Advance, Switch!vars
<1>5. CASE Done
  <2>1. Switch!Finish
    BY <1>5 DEF Done, IInv, Switch!Finish, Switch!Mixed
  <2>2. QED
    BY <2>1 DEF Switch!Next
<1>6. CASE UNCHANGED vars
  BY <1>6 DEF vars, Switch!vars
<1>7. QED
  BY <1>1, <1>2, <1>3, <1>4, <1>5, <1>6 DEF Next

(* The computed-goto interpreter implements the switch interpreter (their  *)
(* initial states and steps; SwitchSpec adds fairness, left to TLC).       *)
THEOREM GotoImplementsSwitch == Spec => Switch!Init /\ [][Switch!Next]_(Switch!vars)
<1>1. Init => Switch!Init
  BY DEF Init, Switch!Init, Switch!Start, Start
<1>2. QED
  BY <1>1, StepRefines, Inductive, PTL DEF Spec
=============================================================================
