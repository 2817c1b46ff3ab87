----------------------------- MODULE MCMachine -----------------------------
(* Machine with 6-bit bytes, which makes eight registers, on short programs. *)
EXTENDS Machine

\* The opcodes of rrisc.h; those too large for six bits are renumbered.
MCOpcode ==
  [nop |-> 0, add |-> 2, addi |-> 3, sub |-> 4, subi |-> 5, and |-> 6, andi |-> 7,
   or |-> 8, ori |-> 9, xor |-> 10, xori |-> 11, shl |-> 12, shli |-> 13, shr |-> 14,
   shri |-> 15, ld |-> 16, st |-> 17, beq |-> 18, blt |-> 19, jmp |-> 20, jal |-> 21,
   jrel |-> 22, ldi |-> 23, bneq |-> 24, bgt |-> 25, lds |-> 26, sts |-> 27, push |-> 28,
   pop |-> 29, call |-> 30, ret |-> 31, iret |-> 34, ldio |-> 35, stio |-> 36,
   jreg |-> 37, mulh |-> 51, mull |-> 52, halt |-> 63]

\* The bytes of an instruction with registers d, a and immediate h, or register b.
Code(op, d, a, h) ==
  LET n == h % HalfValues
  IN  <<Opcode[op], d * NibbleValues + a, n \div ByteValues, n % ByteValues>>
R3(op) == Code(op, 3, 1, 2 * NibbleValues * ByteValues)
Plain(op) == Code(op, 0, 0, 0)

\* A register gets any word, as the assembler's mov does it.
Mov(r, w) ==
  <<Code("ldi", r, 0, w \div HalfValues), Code("shli", r, r, HalfBits),
    Code("ori", r, r, w % HalfValues)>>

Halting == <<Plain("halt")>>
Keep    == <<Code("st", 0, 3, 14)>>     \* [r0 + 14] := r3

Values    == {0, 1, 13, 4098, WordValues - 1}
Factors   == {0, 1, 13, 4098, 40001}
Addresses == {13, 16, 30, VersionAddr - 1, CellCount + 13, WordValues - 1}

Computing ==
  {Mov(1, x) \o Mov(2, y) \o <<R3(op)>> \o Keep \o Halting :
     x \in Values, y \in Values, op \in RegisterForms \ {"mull", "mulh"}}
  \cup {Mov(1, x) \o Mov(2, y) \o <<R3(op)>> \o Keep \o Halting :
          x \in Factors, y \in Factors, op \in {"mull", "mulh"}}
  \cup {Mov(1, x) \o <<Code(op, 3, 1, h)>> \o Keep \o Halting :
          x \in Values, h \in {0, 1, 23, 24, HalfValues - 1}, op \in DOMAIN ImmediateForm}

Branching ==
  {Mov(1, x) \o Mov(2, y) \o <<Code(op, 1, 2, 2)>> \o Halting \o Keep \o Halting :
     x \in {1, 4098}, y \in {0, 1, WordValues - 1}, op \in DOMAIN Taken}
  \cup {Mov(1, 3) \o <<Code("addi", 2, 2, 1), Code("bneq", 1, 2, -1)>> \o Halting}
  \cup {<<Code(op, 3, 0, h), Plain("halt"), Plain("nop"), Plain("halt")>> :
          op \in {"jmp", "jal", "jrel"}, h \in {0, 2}}

Accessing ==
  {Mov(1, a) \o <<Code("ldi", 2, 0, 37), Code("st", 1, 2, h), Code("ld", 3, 1, h),
                  Code("ld", 1, 1, h)>> \o Halting :
     a \in Addresses, h \in {0, 1}}
  \cup {<<Code("stio", 1, 2, 0), Code("ldio", 3, 1, 0), <<1, 0, 0, 0>>>> \o Halting}

Stacking ==
  {Mov(1, s) \o <<Code("sts", 0, 1, 0), Code("push", 0, 1, 0), Code("lds", 3, 0, 0),
                  Code("pop", 3, 0, 0)>> \o Halting :
     s \in Addresses \cup {0}}
  \cup {Mov(1, s) \o <<Code("sts", 0, 1, 0), Code("call", 0, 0, 2)>> \o Halting
          \o <<Code("push", 0, 1, 0), Code("push", 0, 2, 0), Code("pop", 1, 0, 0),
               Code("pop", 3, 0, 0), Plain("ret")>> :
          s \in {15, CellCount + 15}}

\* Returns from an interrupt to word 0, whose bytes are the same in any order.
Returning ==
  {<<Code("bneq", 2, 0, 8), Code("ldi", 2, 0, 1)>> \o Mov(1, s)
     \o <<Code("sts", 0, 1, 0), Code("push", 0, 0, 0), Plain("iret")>>
     \o Halting : s \in {15, 16}}

MCRamSize == 72

Image(program, junk) ==
  [a \in 0..(MCRamSize - 1) |->
     IF a \div 4 < Len(program) THEN program[(a \div 4) + 1][(a % 4) + 1] ELSE junk]

MCImages == {Image(p, 6) : p \in Computing \cup Branching \cup Accessing \cup Stacking \cup Returning}

\* Words 16 and 17 are a device's, but that RAM takes the first byte of a write.
MCReadClaims  == 64..71
MCWriteClaims == {65, 66, 67, 69, 70, 71}
=============================================================================
