------------------------------ MODULE Encoding ------------------------------
(***************************************************************************)
(* How rrasm encodes an instruction and rrdis disassembles it              *)
(* (rrasm/arch/rrisc.py).  An operand is a register, an integer, a symbol, *)
(* a virtual register or a memory reference, [component + component ...];  *)
(* an instruction has place for a register and an offset.  A symbol stands *)
(* for its value (Assembler has when it is known).                         *)
(***************************************************************************)
EXTENDS Instructions, SequencesExt

Reg(r)    == [type |-> "reg", value |-> r]
Imm(n)    == [type |-> "int", value |-> n]
Sym(n)    == [type |-> "sym", value |-> n]
Sp        == [type |-> "vreg", value |-> "sp"]
Pc        == [type |-> "vreg", value |-> "pc"]
Mem(components) == [type |-> "mem", value |-> components]
At(r, n)  == [type |-> "mem", value |-> r, imm |-> n]
Error     == [type |-> "error", value |-> 0]
Crash     == [type |-> "crash"]     \* an exception of rrdis, which catches none

\* precompute_mem_operand_components: the integers of a reference come to one,
\* its last component, or to none if they are 0 together.
Precomputed(components) ==
  LET sums[i \in 0..Len(components)] ==
        IF i = 0 THEN [summed |-> 0, computed |-> <<>>]
        ELSE LET c == components[i]  s == sums[i - 1] IN
             IF c.type = "int" THEN [summed |-> s.summed + c.value, computed |-> s.computed]
             ELSE [summed |-> s.summed, computed |-> Append(s.computed, c)]
      last == sums[Len(components)]
  IN  IF last.summed = 0 THEN last.computed ELSE Append(last.computed, Imm(last.summed))

\* decode_mem_operand: what an operand is once it is decoded.
Decoded(operand) ==
  CASE operand.type # "mem" -> operand
    [] operand.type = "mem" /\ \A c \in Range(operand.value) :
         c.type \in {"sym", "reg", "int", "mem"} -> Mem(Precomputed(operand.value))
    [] OTHER -> Error

\* What an operand is for the encoder: a symbol is its value, a memory reference
\* one register and at most one offset (map_mem_to_rrisc_offset).
Mapped(operand) ==
  LET c    == operand.value
      base == CHOOSE b \in DOMAIN c : c[b].type = "reg"
  IN  CASE operand.type = "sym"              -> Imm(operand.value)
        [] operand.type \notin {"sym", "mem"} -> operand
        [] operand.type = "mem" ->
             IF /\ Len(c) \in {1, 2} /\ \E b \in DOMAIN c : c[b].type = "reg"
                /\ \A k \in DOMAIN c \ {base} : c[k].type \in {"sym", "int"}
             THEN At(c[base].value, IF Len(c) = 1 THEN 0 ELSE c[3 - base].value)
             ELSE Error

\* The letters of an encoding: d, a, b are registers, i an immediate, r an
\* address relative to the instruction, m and M memory at Ra and Rd.
Letters(name) ==
  CASE name \in {"nop", "ret", "halt", "iret"}                    -> <<>>
    [] name \in RegisterForms \cup {"mulu"}                       -> <<"d", "a", "b">>
    [] name \in DOMAIN ImmediateForm                              -> <<"d", "a", "i">>
    [] name = "ld"                                                -> <<"d", "m">>
    [] name = "st"                                                -> <<"M", "a">>
    [] name \in {"beq", "bneq", "blt"}                            -> <<"d", "a", "r">>
    [] name = "jmpabs"                                            -> <<"i">>
    [] name \in {"jal", "ldi"}                                    -> <<"d", "i">>
    [] name \in {"jrel", "call"}                                  -> <<"r">>
    [] name \in {"lds", "pop", "jreg"}                            -> <<"d">>
    [] name \in {"sts", "push"}                                   -> <<"a">>

\* The table of encodings of a CPU: the mnemonics, and the CPU's name for each.
BaseMnemonics ==
  (RegisterForms \ {"mulh"}) \cup DOMAIN ImmediateForm
    \cup {"nop", "ld", "st", "beq", "bneq", "blt", "jmpabs", "jal", "jrel", "ldi", "lds",
          "sts", "push", "pop", "call", "ret", "mulu", "halt"}
Mnemonics(future) == BaseMnemonics \cup IF future THEN {"iret", "jreg"} ELSE {}
OpNamed(name) == CASE name = "mulu"   -> "mulh"
                   [] name = "jmpabs" -> "jmp"
                   [] OTHER           -> name

\* The future CPU's entry for jal is a tuple, by a trailing comma: looking into
\* it raises an exception, which assemble_lines makes an error of the line and rrdis
\* ends with.  These entries of the table come before it.
BeforeJal ==
  (RegisterForms \ {"mull", "mulh"}) \cup DOMAIN ImmediateForm
    \cup {"nop", "ld", "st", "beq", "blt", "jmpabs"}

\* int_bound_check, for 16 bits without and with a sign.
FitsHalf(n)   == n \in 0..(HalfValues - 1)
FitsSigned(n) == 2 * n \in (-HalfValues)..(HalfValues - 1)

\* What encode_instruction demands of an operand; here is the address of the
\* instruction, vmembase + (offset >> 2).
Accepts(letter, operand, here) ==
  CASE letter \in {"d", "a", "b"} -> operand.type = "reg"
    [] letter \in {"m", "M"}      -> operand.type = "mem" /\ FitsHalf(operand.imm)
    [] letter = "i"               -> operand.type = "int" /\ FitsHalf(operand.value)
    [] letter = "r"               -> operand.type = "int" /\ FitsSigned(operand.value - here)

\* Mutant of Contribution: the offset of a relative operand is not taken off.
ContributionAbsolute(letter, operand, here) ==
  CASE letter = "d" -> operand.value * NibbleValues * HalfValues
    [] letter = "a" -> operand.value * HalfValues
    [] letter = "b" -> operand.value * NibbleValues * ByteValues
    [] letter \in {"i", "r"} -> operand.value % HalfValues
    [] letter = "m" -> operand.value * HalfValues + operand.imm
    [] letter = "M" -> operand.value * NibbleValues * HalfValues + operand.imm

\* What an operand adds to the instruction's last three bytes.
Contribution(letter, operand, here) ==
  CASE letter = "d" -> operand.value * NibbleValues * HalfValues
    [] letter = "a" -> operand.value * HalfValues
    [] letter = "b" -> operand.value * NibbleValues * ByteValues
    [] letter = "i" -> operand.value
    [] letter = "r" -> (operand.value - here) % HalfValues
    [] letter = "m" -> operand.value * HalfValues + operand.imm
    [] letter = "M" -> operand.value * NibbleValues * HalfValues + operand.imm

\* serialise_instruction and encode_instruction: a word or an error.
Encode(future, name, decoded, here) ==
  LET letters  == Letters(name)
      operands == [k \in DOMAIN decoded |-> Mapped(decoded[k])]
      added[k \in 0..Len(operands)] ==
        IF k = 0 THEN Opcode[OpNamed(name)] * ByteValues * HalfValues
        ELSE added[k - 1] + Contribution(letters[k], operands[k], here)
  IN  IF /\ name \in Mnemonics(future)
         /\ ~(future /\ name = "jal")
         /\ Len(operands) = Len(letters)
         /\ \A k \in DOMAIN operands : Accepts(letters[k], operands[k], here)
      THEN Imm(added[Len(operands)])
      ELSE Error

\* disassemble_letter: a relative operand comes out as its distance.
DisassembleLetter(letter, word) ==
  LET f   == Fields(htonl(word))
      imm == ntohs(f.imm)
  IN  CASE letter = "d" -> Reg(f.dest)
        [] letter = "a" -> Reg(f.reg_a)
        [] letter = "b" -> Reg(f.reg_b)
        [] letter = "i" -> Imm(imm)
        [] letter = "r" -> Imm(Signed(imm))
        [] letter = "m" -> At(f.reg_a, imm)
        [] letter = "M" -> At(f.dest, imm)

\* disassemble: the mnemonic with the word's opcode and its operands; a word
\* without one is printed as data.  The table is searched from its start.
Disassemble(future, word) ==
  LET op    == Fields(htonl(word)).op
      names == {n \in Mnemonics(future) : OpNamed(n) = op}
  IN  IF future /\ names \cap BeforeJal = {} THEN Crash
      ELSE IF names = {} THEN [name |-> "dd", operands |-> <<Imm(word)>>]
      ELSE LET name == CHOOSE n \in names : TRUE
               l    == Letters(name)
           IN  [name |-> name,
                operands |-> [k \in DOMAIN l |-> DisassembleLetter(l[k], word)]]
=============================================================================
