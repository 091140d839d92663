--------------------------- MODULE MCComputedGoto ---------------------------
EXTENDS ComputedGoto, Bitwise

(* Opcodes with immediates program_init gives them: JNZ and the arithmetic *)
(* get positive ones, LOAD_IMM and XOR any int32_t.                        *)
MCInsns ==
  {[op |-> o, imm |-> 1] : o \in {"ADD", "SUB", "MUL", "NOP"}}
    \cup {[op |-> "LOAD_IMM", imm |-> -1], [op |-> "XOR", imm |-> -2]}
    \cup {[op |-> "CMP", imm |-> i] : i \in {0, 3}}
    \cup {[op |-> "JNZ", imm |-> i] : i \in {1, 2, 9}}

MCXor(a, b) == a ^^ b
=============================================================================
