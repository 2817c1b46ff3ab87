---------------------------- MODULE Instructions ----------------------------
(***************************************************************************)
(* The instructions of the rrisc CPU: their fields in a word               *)
(* (rrvm/include/cpu/rrisc.h) and what they compute                        *)
(* (rrvm/src/cpu/rrisc.c).                                                 *)
(***************************************************************************)
EXTENDS Words

\* Instructions of three registers, and those whose last operand is an
\* immediate with the operation they share.
RegisterForms == {"add", "sub", "and", "or", "xor", "shl", "shr", "mull", "mulh"}
ImmediateForm == [addi |-> "add", subi |-> "sub", andi |-> "and", ori |-> "or",
                  xori |-> "xor", shli |-> "shl", shri |-> "shr"]
ComputeOps    == RegisterForms \cup DOMAIN ImmediateForm
Operation(op) == IF op \in RegisterForms THEN op ELSE ImmediateForm[op]

\* What an operation may leave in the destination register.
Results(operation, x, y) ==
  CASE operation = "add"  -> {Wrap(x + y)}
    [] operation = "sub"  -> {Wrap(x - y)}
    [] operation = "and"  -> Bitwise(And, x, y)
    [] operation = "or"   -> Bitwise(Or, x, y)
    [] operation = "xor"  -> Bitwise(Xor, x, y)
    [] operation = "shl"  -> ShiftLeft(x, y)
    [] operation = "shr"  -> ShiftRight(x, y)
    [] operation = "mull" -> {Wrap(x * y)}
    [] operation = "mulh" -> {(x * y) \div WordValues}

\* When a branch is taken, of Rd and Ra.  blt and bgt compare Ra with Rd.
Taken == [beq  |-> {"equal"}, bneq |-> {"less", "greater"},
          blt  |-> {"greater"}, bgt  |-> {"less"}]
Compare(d, a) == IF d = a THEN "equal" ELSE IF d < a THEN "less" ELSE "greater"

MemoryOps == {"ld", "st", "push", "pop", "call", "ret", "iret", "ldio", "stio"}
JumpOps   == {"jmp", "jal", "jrel", "jreg"}
OtherOps  == {"nop", "ldi", "lds", "sts", "halt", "invalid"}
Ops       == ComputeOps \cup DOMAIN Taken \cup MemoryOps \cup JumpOps \cup OtherOps

CONSTANT Opcode    \* the enum of opcodes

ASSUME OpcodeAssumption ==
  /\ Opcode \in [Ops \ {"invalid"} -> Byte]
  /\ \A p, q \in DOMAIN Opcode : Opcode[p] = Opcode[q] => p = q

Regs == 0..(NibbleValues - 1)

OpOf(byte) ==
  IF \E op \in DOMAIN Opcode : Opcode[op] = byte
  THEN CHOOSE op \in DOMAIN Opcode : Opcode[op] = byte
  ELSE "invalid"

\* rrisc_instruction_t.  reg_b overlays the first byte of the immediate.
Fields(b) ==
  [op |-> OpOf(b[1]), dest |-> b[2] \div NibbleValues, reg_a |-> b[2] % NibbleValues,
   reg_b |-> b[3] \div NibbleValues, imm |-> <<b[3], b[4]>>]
=============================================================================
