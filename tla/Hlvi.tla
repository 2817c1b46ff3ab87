-------------------------------- MODULE Hlvi --------------------------------
(***************************************************************************)
(* The virtual instructions of rrasm (rrasm/arch/rrisc.py): what each is   *)
(* resolved to, encoded at its place and executed by the instruction set.  *)
(* A routine that is called runs in one step, and leaves of the words      *)
(* below its stack what it likes.                                          *)
(***************************************************************************)
EXTENDS Encoding, Isa

CONSTANTS
  Lines,      \* the virtual instructions tried: name and operands
  Places,     \* vmembase, rroff (the word offset in the assembly), and whether
              \* the CPU is rrisc32-future
  Starts,     \* registers and sp when the instruction is reached
  Pic         \* whether code is to be position independent

\* Registers have a number; symbols, the numbers written and places are numbers.
IsReference(c) ==
  /\ Len(c) \in Nat /\ DOMAIN c = 1..Len(c)
  /\ \A k \in DOMAIN c : c[k].type = "reg" => c[k].value \in Regs
IsOperand(o) ==
  /\ o.type = "reg" => o \in {Reg(r) : r \in Regs}
  /\ o.type \in {"int", "sym"} => o.value \in Int
  /\ o.type = "mem" => IsReference(o.value)

ASSUME LinesAssumption ==
  \A l \in Lines : /\ Len(l.operands) \in Nat /\ DOMAIN l.operands = 1..Len(l.operands)
                   /\ \A k \in DOMAIN l.operands : IsOperand(l.operands[k])

ASSUME PlacesAssumption ==
  Places \subseteq [vmembase : Nat, rroff : Nat, future : BOOLEAN]

VARIABLES
  line,       \* the virtual instruction
  place,      \* where it is assembled
  start,      \* the machine's state before it
  phase       \* "run", "callee": a called routine runs, "done", "rejected"

hlviVars == <<isaVars, line, place, start, phase>>

IsV(operand, name) == operand.type = "vreg" /\ operand.value = name

High(n) == Imm((n \div HalfValues) % HalfValues)
Low(n)  == Imm(n % HalfValues)
Ins(name, operands) == <<name, operands>>
Unsupported == <<Ins("error", <<>>)>>     \* an operand that is not supported

-----------------------------------------------------------------------------
(* The resolvers *)

Jmp(a, p) ==
  IF a.type = "reg" THEN
    IF p.future THEN <<Ins("jreg", <<a>>)>> ELSE <<Ins("push", <<a>>), Ins("ret", <<>>)>>
  ELSE <<Ins(IF Pic THEN "jrel" ELSE "jmpabs", <<a>>)>>

\* Mutant of Wide: the shift takes the place of the low half.
WideUnshifted(a, n) ==
  <<Ins("ldi", <<a, High(n)>>), Ins("shli", <<a, a, Low(n)>>), Ins("ori", <<a, a, Imm(0)>>)>>

\* The sequence for a 32-bit value.
Wide(a, n) ==
  <<Ins("ldi", <<a, High(n)>>), Ins("shli", <<a, a, Imm(HalfBits)>>), Ins("ori", <<a, a, Low(n)>>)>>

Mov(a, b, p) ==
  CASE a.type = "reg" /\ b.type = "reg" -> <<Ins("ori", <<a, b, Imm(0)>>)>>
    [] a.type = "mem" /\ b.type = "reg" -> <<Ins("st", <<a, b>>)>>
    [] a.type = "reg" /\ b.type = "mem" -> <<Ins("ld", <<a, b>>)>>
    [] a.type = "reg" /\ b.type = "int" ->
         IF FitsHalf(b.value) THEN <<Ins("ldi", <<a, b>>)>> ELSE Wide(a, b.value)
    [] a.type = "reg" /\ b.type = "sym" -> Wide(a, b.value)
    [] IsV(a, "sp") /\ b.type = "reg" -> <<Ins("sts", <<b>>)>>
    [] a.type = "reg" /\ IsV(b, "sp") -> <<Ins("lds", <<a>>)>>
    [] IsV(a, "pc") /\ b.type = "reg" ->
         \* jreg comes without operands and is given both of the line.
         IF p.future THEN <<Ins("jreg", <<a, b>>)>> ELSE Jmp(b, p)
    [] a.type = "reg" /\ IsV(b, "pc") ->
         <<Ins("call", <<Imm(p.rroff + 1)>>), Ins("pop", <<a>>)>>
    [] OTHER -> Unsupported

\* Mutant of Call: the way back leads to itself.
CallLoops(a, p) ==
  IF a.type # "reg" THEN <<Ins("call", <<a>>)>>
  ELSE <<Ins("call", <<Imm(p.rroff + 2)>>), Ins("jrel", <<Imm(p.rroff + 1)>>), Ins("push", <<a>>),
         Ins("ret", <<>>)>>

Call(a, p) ==
  IF a.type # "reg" THEN <<Ins("call", <<a>>)>>
  ELSE IF ~p.future THEN
    <<Ins("call", <<Imm(p.rroff + 2)>>), Ins("jrel", <<Imm(p.rroff + 4)>>), Ins("push", <<a>>),
      Ins("ret", <<>>)>>
  ELSE
    <<Ins("call", <<Imm(p.rroff + 2)>>), Ins("jrel", <<Imm(p.rroff + 2)>>), Ins("jreg", <<a>>)>>

Bgt(a, b, c) == <<Ins("blt", <<b, a, c>>)>>

\* Two operands stand for three, of which the first two are the same.
Three(operands) ==
  IF Len(operands) = 2 THEN <<operands[1], operands[1], operands[2]>> ELSE operands

\* The instruction with an immediate, of operands that are a register and one.
WithImmediate(name, operands) ==
  LET o == Three(operands) IN
  IF o[3].type \in {"int", "sym"} /\ "reg" \in {o[1].type, o[2].type}
  THEN <<Ins(name, o)>> ELSE Unsupported

\* Arithmetic on registers, or on a register and a number.
Arithmetic(name, operands) ==
  LET o == Three(operands) IN
  IF o[3].type = "reg" /\ "reg" \in {o[1].type, o[2].type} THEN <<Ins(name, o)>>
  ELSE WithImmediate(CHOOSE m \in DOMAIN ImmediateForm : ImmediateForm[m] = name, o)

Mul(which, operands) ==
  IF Len(operands) = 4
  THEN <<Ins("mull", <<operands[1], operands[3], operands[4]>>),
         Ins("mulu", <<operands[2], operands[3], operands[4]>>)>>
  ELSE <<Ins(which, Three(operands))>>

ArithmeticNames == {ImmediateForm[m] : m \in DOMAIN ImmediateForm}

\* How many operands a virtual instruction has.
Counts(name) ==
  CASE name \in {"jmp", "call"}      -> {1}
    [] name \in {"mov", "in", "out"} -> {2}
    [] name = "bgt"                  -> {3}
    [] name = "mul"                  -> {2, 3, 4}
    [] name \in {"mull", "mulh"} \cup ArithmeticNames \cup DOMAIN ImmediateForm -> {2, 3}
    [] OTHER                         -> {}

\* Those of a virtual instruction that has as many operands as it should.
Resolved(name, o, p) ==
  CASE name = "mov"                      -> Mov(o[1], o[2], p)
    [] name = "jmp"                      -> Jmp(o[1], p)
    [] name = "call"                     -> Call(o[1], p)
    [] name = "bgt"                      -> Bgt(o[1], o[2], o[3])
    [] name = "mul"                      -> Mul("mull", o)
    [] name \in {"mull", "mulh"}         -> Mul(name, o)
    [] name = "out"                      -> <<Ins("stio", o)>>
    [] name = "in"                       -> <<Ins("ldio", o)>>
    [] name \in ArithmeticNames          -> Arithmetic(name, o)
    [] name \in DOMAIN ImmediateForm     -> WithImmediate(name, o)

\* resolve_final_instruction: the instructions a line stands for.
Resolve(l, p) ==
  LET o == [k \in DOMAIN l.operands |-> Decoded(l.operands[k])]
  IN  IF Contains(o, Error) THEN Unsupported
      ELSE IF Len(o) \in Counts(l.name) THEN Resolved(l.name, o, p) ELSE <<Ins(l.name, o)>>

\* The words of a line, encoded one after the other; dd gives a word itself.
Assembled(l, p) ==
  LET code == Resolve(l, p)
  IN  [k \in DOMAIN code |->
         IF code[k][1] = "dd" THEN code[k][2][1]
         ELSE Encode(p.future, code[k][1], code[k][2], p.vmembase + p.rroff + k - 1)]

-----------------------------------------------------------------------------
(* Executing them *)

Words     == Assembled(line, place)
FirstWord == place.vmembase + place.rroff
Past      == FirstWord + Len(Words)
InCode(address) == address \in FirstWord..(Past - 1)

\* The address a memory reference names: its components, in whatever order.
Address(operand) ==
  LET c == operand.value
  IN  Cell(MapThenSumSet(LAMBDA k : IF c[k].type = "reg" THEN start.regs[c[k].value]
                                    ELSE c[k].value, DOMAIN c))

\* The value an operand names when the line is reached; pc is the address after
\* the instruction that reads it.
Value(operand) ==
  CASE operand.type = "reg"          -> start.regs[operand.value]
    [] operand.type = "mem"          -> start.mem[Address(operand)]
    [] operand.type \in {"int", "sym"} -> Wrap(operand.value)
    [] IsV(operand, "sp")            -> start.sp
    [] IsV(operand, "pc")            -> FirstWord + 1

IsCall == line.name = "call"
Target == Value(line.operands[1])

HlviInit ==
  /\ line \in Lines
  /\ place \in Places
  /\ \E s \in Starts : regs = s.regs /\ sp = s.sp
  /\ pc = FirstWord
  /\ halted = FALSE
  /\ mem = [c \in Cells |->
              IF InCode(c) /\ Words[c - FirstWord + 1] # Error
              THEN Words[c - FirstWord + 1].value ELSE c]
  /\ start = [regs |-> regs, sp |-> sp, mem |-> mem]
  /\ phase = IF \E k \in DOMAIN Words : Words[k] = Error THEN "rejected" ELSE "run"

\* The CPU executes an instruction of the line.
RunLine ==
  /\ phase = "run"
  /\ Next
  /\ phase' = IF InCode(pc') THEN "run"
              ELSE IF IsCall /\ pc' = Target THEN "callee" ELSE "done"
  /\ UNCHANGED <<line, place, start>>

\* The routine returns to the address on the stack, having used what is below.
CalleeReturns ==
  /\ phase = "callee"
  /\ IsCell(sp) /\ pc' = mem[Cell(sp)]
  /\ sp' = Wrap(sp + 1)
  /\ Write(sp - 1, 0)
  /\ phase' = IF InCode(pc') THEN "run" ELSE "done"
  /\ UNCHANGED <<regs, halted, line, place, start>>

HlviNext == RunLine \/ CalleeReturns

HlviSpec == HlviInit /\ [][HlviNext]_hlviVars /\ WF_hlviVars(HlviNext)

-----------------------------------------------------------------------------
(* Properties *)

With(r, v) == [start.regs EXCEPT ![r] = v]

\* What a line that is no jump, branch or call leaves in the registers.
Meant ==
  LET o == line.operands
      t == Three(o)
      Computed(operation) == Results(operation, Value(t[2]), Value(t[3])) IN
  CASE line.name = "mov" /\ o[1].type = "reg" -> {With(o[1].value, Value(o[2]))}
    [] line.name = "mul" /\ Len(o) = 4 ->
         {[start.regs EXCEPT ![o[1].value] = lo, ![o[2].value] = hi] :
            lo \in Results("mull", Value(o[3]), Value(o[4])),
            hi \in Results("mulh", Value(o[3]), Value(o[4]))}
    [] line.name \in {"mul", "mull"} -> {With(t[1].value, w) : w \in Computed("mull")}
    [] line.name \in ArithmeticNames -> {With(t[1].value, w) : w \in Computed(line.name)}
    [] line.name \in DOMAIN ImmediateForm ->
         {With(t[1].value, w) : w \in Computed(ImmediateForm[line.name])}
    [] OTHER -> {start.regs}

MeantPc ==
  CASE line.name = "jmp" -> Target
    [] line.name = "mov" /\ IsV(line.operands[1], "pc") -> Value(line.operands[2])
    [] line.name = "bgt" /\ Value(line.operands[1]) < Value(line.operands[2]) ->
         line.operands[3].value
    [] OTHER -> Past

MeantSp ==
  IF line.name = "mov" /\ IsV(line.operands[1], "sp") THEN Value(line.operands[2]) ELSE start.sp

\* Memory is as before but for the cell a line stores to and for the words
\* below the stack, which any push uses.
MemoryKept ==
  \A c \in Cells :
    \/ mem[c] = start.mem[c]
    \/ c \in {Cell(start.sp - 1), Cell(start.sp - 2)}
    \/ /\ line.name = "mov" /\ line.operands[1].type = "mem"
       /\ c = Address(line.operands[1])
       /\ mem[c] = Value(line.operands[2])

Works == regs \in Meant /\ pc = MeantPc /\ sp = MeantSp /\ MemoryKept

\* The virtual instructions; a line may also be any instruction of the table.
Virtual == {"mov", "jmp", "call", "bgt", "mul", "mull"} \cup ArithmeticNames \cup DOMAIN ImmediateForm

\* Lines that are resolved to addresses counted from the start of the assembly.
CountsFromStart ==
  \/ IsCall /\ line.operands[1].type = "reg"
  \/ line.name = "mov" /\ IsV(line.operands[2], "pc")

\* A product whose low half goes to a register that the high half still needs.
OverwritesFactor ==
  /\ line.name = "mul" /\ Len(line.operands) = 4
  /\ line.operands[1] \in {line.operands[k] : k \in 2..4}

\* Calls through a register on the future CPU, which come back to the call.
CallsAgain == place.future /\ IsCall /\ line.operands[1].type = "reg"

Excepted ==
  CallsAgain \/ OverwritesFactor \/ (CountsFromStart /\ place.vmembase # 0)

\* A routine is entered with the stack one word deeper, and that word leads back.
Entered ==
  /\ pc = Target
  /\ sp = Wrap(start.sp - 1)
  /\ InCode(mem[Cell(sp)]) \/ mem[Cell(sp)] = Past

\* However many instructions a virtual instruction is resolved to, and whichever
\* registers they share: run at its place it does what it says, and nothing
\* else, and on the way enters the routine it calls as a call does.  Not said of
\* the lines that count addresses from the start, elsewhere than there, of
\* products that overwrite a factor, nor of calls through a register on the
\* future CPU.
DoesWhatItSays ==
  ~Excepted =>
    /\ phase = "done" /\ line.name \in Virtual => Works
    /\ phase = "callee" => Entered

\* Each line that was accepted comes to its end.
Completes == <>(phase \in {"done", "rejected"} \/ CallsAgain)

\* A memory reference's register, and all else in it as an offset.
Total(c, S) == MapThenSumSet(LAMBDA k : c[k].value, S)
Referred(c) ==
  LET others == {k \in DOMAIN c : c[k].type # "reg"}
  IN  At(c[CHOOSE k \in DOMAIN c : k \notin others].value, Total(c, others))

\* What is disassembled is what was encoded, but that addresses have become
\* distances; the machine's fields are the assembler's.  On the future CPU this
\* is said of the entries before jal's.
DisassemblesBack ==
  \A k \in DOMAIN Words :
    LET code    == Resolve(line, place)[k]
        letters == Letters(code[1])
        Printed(n) ==
          LET o == code[2][n] IN
          CASE letters[n] = "r"         -> Imm(o.value - (FirstWord + k - 1))
            [] letters[n] \in {"m", "M"} -> Referred(o.value)
            [] letters[n] = "i"         -> Imm(o.value)
            [] OTHER                    -> o
    IN  /\ Words[k] # Error /\ line.name # "dd"
        /\ place.future => code[1] \in BeforeJal
        =>
          Disassemble(place.future, Words[k].value) =
            [name |-> code[1], operands |-> [n \in DOMAIN letters |-> Printed(n)]]

=============================================================================
