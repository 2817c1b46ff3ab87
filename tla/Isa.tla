-------------------------------- MODULE Isa --------------------------------
(***************************************************************************)
(* What the rrisc instruction set promises a program: registers and memory *)
(* hold words and each instruction takes one step.  Byte order, buses,     *)
(* stall cycles and devices are the business of the implementation, which  *)
(* is Machine.                                                             *)
(***************************************************************************)
EXTENDS Instructions

CONSTANTS
  Cells,       \* the word addresses that are memory: in RAM, of no device
  CpuWords     \* what loads from the CPU's own addresses give, by address

VARIABLES regs, pc, sp, mem, halted

isaVars == <<regs, pc, sp, mem, halted>>

Cell(address) == address % CellCount

Decode(w) == LET i == Fields(htonl(w)) IN [i EXCEPT !.imm = ntohs(@)]

IsCell(address) == Cell(address) \in Cells

Write(address, w) ==
  mem' = [c \in Cells |-> IF c = Cell(address) THEN w ELSE mem[c]]

SetReg(r, w) == regs' = [regs EXCEPT ![r] = w]

\* A register receives what is read: anything, from where there is no memory.
Receive(r, address) ==
  IF IsCell(address) THEN SetReg(r, mem[Cell(address)])
  ELSE regs' \in [Regs -> Word] /\ \A q \in Regs \ {r} : regs'[q] = regs[q]

Next1      == Wrap(pc + 1)
Reached(i) == Wrap(pc + Signed(i.imm))

Init ==
  /\ regs = [r \in Regs |-> 0]
  /\ pc = 0
  /\ sp = 0
  /\ mem \in [Cells -> Word]
  /\ halted = FALSE

Computes(i) ==
  /\ i.op \in ComputeOps
  /\ \E w \in Results(Operation(i.op), regs[i.reg_a],
                      IF i.op \in RegisterForms THEN regs[i.reg_b] ELSE i.imm) :
       SetReg(i.dest, w)
  /\ pc' = Next1
  /\ UNCHANGED <<sp, mem, halted>>

Loads(i) ==
  LET address == Wrap(regs[i.reg_a] + i.imm) IN
  /\ i.op = "ld"
  /\ IF address \in DOMAIN CpuWords THEN SetReg(i.dest, CpuWords[address])
     ELSE Receive(i.dest, address)
  /\ pc' = Next1
  /\ UNCHANGED <<sp, mem, halted>>

Stores(i) ==
  /\ i.op = "st"
  /\ Write(Wrap(regs[i.dest] + i.imm), regs[i.reg_a])
  /\ pc' = Next1
  /\ UNCHANGED <<regs, sp, halted>>

Branches(i) ==
  /\ i.op \in DOMAIN Taken
  /\ pc' = IF Compare(regs[i.dest], regs[i.reg_a]) \in Taken[i.op] THEN Reached(i) ELSE Next1
  /\ UNCHANGED <<regs, sp, mem, halted>>

Jumps(i) ==
  /\ i.op \in JumpOps
  /\ pc' = CASE i.op \in {"jmp", "jal"} -> i.imm
             [] i.op = "jrel"           -> Reached(i)
             [] i.op = "jreg"           -> regs[i.dest]
  /\ IF i.op = "jal" THEN SetReg(i.dest, Next1) ELSE UNCHANGED regs
  /\ UNCHANGED <<sp, mem, halted>>

\* Loading an immediate, and moving to and from the stack pointer.
Moves(i) ==
  /\ \/ i.op = "ldi" /\ SetReg(i.dest, i.imm) /\ UNCHANGED sp
     \/ i.op = "lds" /\ SetReg(i.dest, sp) /\ UNCHANGED sp
     \/ i.op = "sts" /\ sp' = regs[i.reg_a] /\ UNCHANGED regs
  /\ pc' = Next1
  /\ UNCHANGED <<mem, halted>>

Pushes(i) ==
  /\ i.op = "push"
  /\ sp' = Wrap(sp - 1)
  /\ Write(sp', regs[i.reg_a])
  /\ pc' = Next1
  /\ UNCHANGED <<regs, halted>>

Pops(i) ==
  /\ i.op = "pop"
  /\ Receive(i.dest, sp)
  /\ sp' = Wrap(sp + 1)
  /\ pc' = Next1
  /\ UNCHANGED <<mem, halted>>

Calls(i) ==
  /\ i.op = "call"
  /\ sp' = Wrap(sp - 1)
  /\ Write(sp', Next1)
  /\ pc' = Reached(i)
  /\ UNCHANGED <<regs, halted>>

\* A return from a call; a return from an interrupt also drops its cause.
Returns(i) ==
  /\ i.op \in {"ret", "iret"}
  /\ IF IsCell(sp) THEN pc' = mem[Cell(sp)] ELSE pc' \in Word
  /\ sp' = Wrap(sp + IF i.op = "ret" THEN 1 ELSE 2)
  /\ UNCHANGED <<regs, mem, halted>>

\* Nothing answers on the I/O bus; without a bus a load gives 0.
DoesIo(i) ==
  /\ \/ i.op = "ldio" /\ (SetReg(i.dest, 0) \/ UNCHANGED regs)
     \/ i.op = "stio" /\ UNCHANGED regs
  /\ pc' = Next1
  /\ UNCHANGED <<sp, mem, halted>>

\* An unknown instruction does nothing.
Idles(i) ==
  /\ i.op \in {"nop", "invalid"}
  /\ pc' = Next1
  /\ UNCHANGED <<regs, sp, mem, halted>>

Halts(i) ==
  /\ i.op = "halt"
  /\ halted' = TRUE
  /\ pc' = Next1
  /\ UNCHANGED <<regs, sp, mem>>

Instruction(i) ==
  \/ Computes(i) \/ Loads(i) \/ Stores(i) \/ Branches(i) \/ Jumps(i) \/ Moves(i)
  \/ Pushes(i) \/ Pops(i) \/ Calls(i) \/ Returns(i) \/ DoesIo(i) \/ Idles(i) \/ Halts(i)

Next ==
  /\ ~halted
  /\ \E w \in IF IsCell(pc) THEN {mem[Cell(pc)]} ELSE Word : Instruction(Decode(w))

Spec == Init /\ [][Next]_isaVars
=============================================================================
