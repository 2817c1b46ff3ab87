------------------------------- MODULE MCHlvi -------------------------------
(* Hlvi with 6-bit bytes and eight registers. *)
EXTENDS Hlvi

\* The opcodes of rrisc.h; those too large for six bits are renumbered.
MCOpcode ==
  [nop |-> 0, add |-> 2, addi |-> 3, sub |-> 4, subi |-> 5, and |-> 6, andi |-> 7,
   or |-> 8, ori |-> 9, xor |-> 10, xori |-> 11, shl |-> 12, shli |-> 13, shr |-> 14,
   shri |-> 15, ld |-> 16, st |-> 17, beq |-> 18, blt |-> 19, jmp |-> 20, jal |-> 21,
   jrel |-> 22, ldi |-> 23, bneq |-> 24, bgt |-> 25, lds |-> 26, sts |-> 27, push |-> 28,
   pop |-> 29, call |-> 30, ret |-> 31, iret |-> 34, ldio |-> 35, stio |-> 36,
   jreg |-> 37, mulh |-> 51, mull |-> 52, halt |-> 63]

MCCells    == 0..40
MCCpuWords == [a \in {HalfValues - 1, HalfValues - 2} |-> a + 1]
MCPlaces ==
  {[vmembase |-> v, rroff |-> o, future |-> FALSE] : v \in {0, 3}, o \in {0, 2}}
    \cup {[vmembase |-> 3, rroff |-> 2, future |-> TRUE]}

\* r3 and sp point into memory, r4 at a routine.
MCStarts ==
  {[sp |-> 36, regs |-> [r \in Regs |-> IF r = 0 THEN 0 ELSE v[r]]] :
     v \in {<<5, 4098, 20, 30, 8192, 9, 23>>, <<7, 5, 18, 31, 4096, 0, 24>>}}

L(name, operands) == [name |-> name, operands |-> operands]
Some     == {Reg(1), Reg(2), Reg(5)}
Numbers  == {0, 1, 24, 4095, 4096, 100000, -1, WordValues - 1}
Pairs    == Some \X Some
Triples  == Some \X Some \X Some

\* References with their components in any order, with integers that cancel, and
\* those that no instruction has place for.
At3(n) == Mem(<<Reg(3), Imm(n)>>)
Written ==
  {At3(n) : n \in {0, 2, -1, 4096}}
  \cup {Mem(<<Reg(3)>>), Mem(<<Imm(2), Reg(3)>>), Mem(<<Imm(5), Reg(3), Imm(-3)>>),
        Mem(<<Reg(3), Imm(1), Imm(-1)>>), Mem(<<Sym(2), Reg(3)>>), Mem(<<Reg(3), Sym(4096)>>),
        Mem(<<Imm(-1), Sym(2), Imm(1), Reg(3)>>), Mem(<<Reg(3), Sym(2), Imm(1)>>),
        Mem(<<Imm(2), Imm(4)>>), Mem(<<Reg(3), Reg(1)>>), Mem(<<Sym(2), Sym(4)>>),
        Mem(<<Reg(3), Mem(<<Reg(1)>>)>>), Mem(<<Sp, Imm(1)>>)}

Moves_ ==
  {L("mov", p) : p \in Pairs}
  \cup {L("mov", <<r, Imm(n)>>) : r \in Some, n \in Numbers}
  \cup {L("mov", <<r, Sym(n)>>) : r \in Some, n \in {0, 4095, 4096, 70000}}
  \cup {L("mov", <<m, r>>) : r \in Some \cup {Reg(3)}, m \in Written}
  \cup {L("mov", <<r, m>>) : r \in Some \cup {Reg(3)}, m \in Written}
  \cup {L("mov", <<Sp, Reg(3)>>), L("mov", <<Reg(1), Sp>>), L("mov", <<Pc, Reg(4)>>),
         L("mov", <<Reg(1), Pc>>)}

Arithmetics ==
  {L(n, p) : n \in ArithmeticNames \cup {"mul"}, p \in Pairs \cup Triples}
  \cup {L(n, <<p[1], p[2], Imm(k)>>) :
           n \in ArithmeticNames \cup DOMAIN ImmediateForm, p \in Pairs, k \in {0, 3, 4095, 4096, -1}}
  \cup {L(n, <<r, Sym(k)>>) : n \in {"add", "addi"}, r \in Some, k \in {3, 4096}}
  \cup {L(n, <<Reg(1), o>>) : n \in {"sub", "shri"}, o \in {At3(0), Sp}}
  \cup {L("addi", p) : p \in Pairs} \cup {L("xor", <<Sp, Pc, Reg(1)>>)}
  \cup {L(n, p) : n \in {"mull", "mulh"}, p \in Pairs}
  \cup {L("mul", <<Reg(6), Reg(7), r, q>>) : r \in Some, q \in Some}
  \cup {L("mul", <<r, Reg(7), r, q>>) : r \in Some, q \in Some}

Flows ==
  {L(n, <<a>>) : n \in {"jmp", "call"}, a \in {Reg(4), Imm(30), Sym(30), Imm(4090), Imm(-1)}}
  \cup {L("bgt", <<a, b, Imm(n)>>) : a \in Some, b \in Some, n \in {30, 4090}}

\* Every instruction of the table, with and without an address out of reach, and
\* words that are no instruction of the assembler.
Raw(op) == L("dd", <<Imm(Opcode[op] * ByteValues * HalfValues + 8 * HalfValues + 2)>>)
MCTable ==
  {L(n, <<Reg(1), Reg(2), r>>) : n \in RegisterForms \cup {"mulu"}, r \in Some}
  \cup {L(n, <<Reg(1), Reg(5), Imm(k)>>) : n \in DOMAIN ImmediateForm, k \in {0, 70, 4095, 4096}}
  \cup {L("ld", <<Reg(2), At3(k)>>) : k \in {0, 2, 4096}}
  \cup {L("ld", <<Reg(2), Mem(<<Imm(k), Reg(0)>>)>>) : k \in {4094, 4095}}
  \cup {L("st", <<At3(k), Reg(2)>>) : k \in {0, 2, 4096}}
  \cup {L(n, <<Reg(1), Reg(2), Imm(k)>>) : n \in {"beq", "bneq", "blt"}, k \in {1, 30, 2047, 4090}}
  \cup {L(n, <<Imm(k)>>) : n \in {"jmpabs", "jrel", "call"}, k \in {1, 30, 2047, 4090}}
  \cup {L(n, <<Reg(1), Imm(k)>>) : n \in {"jal", "ldi"}, k \in {1, 30, 4095, 4096}}
  \cup {L(n, <<Reg(6)>>) : n \in {"lds", "pop", "jreg", "sts", "push"}}
  \cup {L(n, <<Reg(1), Reg(2)>>) : n \in {"in", "out"}}
  \cup {L(n, <<>>) : n \in {"nop", "ret", "halt", "iret", "mulu"}}
  \cup {Raw(op) : op \in {"ldio", "stio", "bgt", "iret", "mulh"}}
  \cup {L("dd", <<Imm(HalfValues * ByteValues)>>)}

\* With more operands than there is place for, or fewer.
Miscounted ==
  {L(n, <<Reg(1), Reg(4)>>) : n \in {"call", "jmp", "push", "bgt"}}
  \cup {L(n, <<Reg(1)>>) : n \in {"add", "addi", "mull", "ld"}}
  \cup {L(n, <<Reg(1), Reg(2), Reg(5), Reg(6), Reg(7)>>) : n \in {"mul", "mov", "shr"}}

MCLines == Miscounted \cup Moves_ \cup Arithmetics \cup Flows \cup MCTable
=============================================================================
