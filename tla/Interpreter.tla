---------------------------- MODULE Interpreter ----------------------------
(***************************************************************************)
(* The bytecode machine of the dispatch benchmark (interpreter.c): its     *)
(* registers, what each opcode does to them, and where execution goes      *)
(* next.  Both interpreters are built from these functions.  Registers are *)
(* words modulo Word; the int64_t cmp is kept as the word it has the bits  *)
(* of, of which only "zero or not" is ever read.                           *)
(***************************************************************************)
EXTENDS Integers

CONSTANTS
  Word,        \* 2^64
  ImmWord,     \* 2^32: imm is an int32_t
  MulWord,     \* 2^5: vm_mul masks its factor with 0x1f
  SeedAcc, SeedAux, SeedShift,  \* how the registers start: two words and 2^7
  BitXor(_, _),   \* exclusive or of two words
  Insns        \* the instructions program_init writes

ASSUME WordAssumption ==
  /\ Word \in Nat \ {0} /\ ImmWord \in 1 .. Word /\ MulWord \in 1 .. ImmWord
  /\ SeedAcc \in 0 .. Word - 1 /\ SeedAux \in 0 .. Word - 1 /\ SeedShift \in Nat \ {0}
ASSUME XorAssumption ==
  \A a, b \in 0 .. Word - 1 : BitXor(a, b) \in 0 .. Word - 1

Words == 0 .. Word - 1
Ops   == {"ADD", "SUB", "XOR", "MUL", "LOAD_IMM", "CMP", "JNZ", "NOP"}
Insn  == [op : Ops, imm : Int]

ASSUME InsnAssumption == Insns \subseteq Insn

Machine == [acc : Words, aux : Words, cmp : Words]

Start(seed) ==
  [acc |-> BitXor(seed, SeedAcc), aux |-> (seed + SeedAux) % Word,
   cmp |-> BitXor(seed, seed \div SeedShift)]

Abs(i) == IF i < 0 THEN -i ELSE i

(* The registers after an instruction at address pc: vm_add to vm_nop. *)
Execute(insn, vm, pc) ==
  LET imm == insn.imm
      acc(a) == [vm EXCEPT !.acc = a % Word]
  IN CASE insn.op = "ADD"      -> acc(vm.acc + vm.aux + imm)
       [] insn.op = "SUB"      -> acc(vm.acc - Abs(imm))
       [] insn.op = "XOR"      -> acc(BitXor(vm.acc, imm % Word))
       [] insn.op = "MUL"      -> acc(vm.acc * ((imm % MulWord) + 1) + vm.aux)
       [] insn.op = "LOAD_IMM" -> [vm EXCEPT !.aux = imm % ImmWord]
       [] insn.op = "CMP"      -> [vm EXCEPT !.cmp = (vm.acc - imm) % Word]
       [] OTHER                -> acc(BitXor(vm.acc, pc % Word))

(* int64_t off = imm % len rounds to zero in C; the code adds len back. *)
normalize_offset(imm, len) ==
  LET off == IF imm < 0 THEN -((-imm) % len) ELSE imm % len
  IN  IF off < 0 THEN off + len ELSE off

(* Mutant of vm_next_pc: the jump is not reduced modulo the length. *)
next_pc_beyond(len, vm, pc, insn) ==
  IF insn.op = "JNZ" /\ vm.cmp # 0
  THEN pc + 1 + normalize_offset(insn.imm, len)
  ELSE (pc + 1) % len

vm_next_pc(len, vm, pc, insn) ==
  IF insn.op = "JNZ" /\ vm.cmp # 0
  THEN (pc + 1 + normalize_offset(insn.imm, len)) % len
  ELSE (pc + 1) % len
============================================================================
