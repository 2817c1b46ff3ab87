------------------------------ MODULE Machine ------------------------------
(***************************************************************************)
(* The rrisc CPU of the virtual machine (rrvm/src/cpu/rrisc.c) on its      *)
(* memory bus (rrvm/src/bus/mem.c) and I/O bus (rrvm/src/bus/io.c).        *)
(* Registers hold big-endian bytes, as memory does; pc and sp are in the   *)
(* host's order.  A bus access goes byte by byte and a device may answer   *)
(* for each byte.  An instruction is executed in one clock and stalls the  *)
(* CPU for the next ones.  tsc only counts and is left out.                *)
(***************************************************************************)
EXTENDS Instructions

CONSTANTS
  RamSize,       \* mem_bus->size, in bytes
  Images,        \* what RAM may hold when the machine starts
  ReadClaims,    \* byte addresses whose reads a device answers
  WriteClaims,   \* byte addresses whose writes a device takes
  Foreign,       \* bytes a device gives, or a read beyond RAM
  IoBus,         \* whether the system has an I/O bus
  VersionWord,   \* RRISC_VERSION
  IdentWord      \* RRISC_IDENTIFIER

ASSUME RamAssumption == RamSize \in Nat /\ Images \subseteq [0..(RamSize - 1) -> Byte]
ASSUME CpuWordsAssumption == VersionWord \in Word /\ IdentWord \in Word
ASSUME ForeignAssumption == Foreign \subseteq Byte /\ Foreign # {}

VARIABLES
  regs,     \* registers.regs, four bytes each
  pc, sp,   \* registers.pc and registers.sp
  stall,    \* stall_cycles
  halt,     \* halt
  ram       \* mem_bus->ram

vars == <<regs, pc, sp, stall, halt, ram>>

TypeOK ==
  /\ regs \in [Regs -> WordBytes]
  /\ pc \in Word
  /\ sp \in Word
  /\ stall \in 0..5
  /\ halt \in BOOLEAN
  /\ ram \in [0..(RamSize - 1) -> Byte]

-----------------------------------------------------------------------------
(* The memory bus *)

ByteAddress(address, b) == 4 * (address % CellCount) + b

\* mem_bus_read_handler for a byte.  Its check of the size decides nothing: a
\* byte beyond RAM is read all the same, and may be anything.
ReadByte(a) ==
  IF a \in ReadClaims \/ a >= RamSize THEN Foreign ELSE {ram[a]}

MemRead(address) ==
  {<<b0, b1, b2, b3>> : b0 \in ReadByte(ByteAddress(address, 0)),
                        b1 \in ReadByte(ByteAddress(address, 1)),
                        b2 \in ReadByte(ByteAddress(address, 2)),
                        b3 \in ReadByte(ByteAddress(address, 3))}

\* Mutant of MemWrite: RAM keeps what a device has taken.
MemWriteThrough(address, bytes) ==
  ram' = [a \in DOMAIN ram |->
            IF a \div 4 = address % CellCount THEN bytes[(a % 4) + 1] ELSE ram[a]]

\* mem_bus_write_handler for four bytes: what no device takes goes to RAM.
MemWrite(address, bytes) ==
  ram' = [a \in DOMAIN ram |->
            IF a \div 4 = address % CellCount /\ a \notin WriteClaims
            THEN bytes[(a % 4) + 1] ELSE ram[a]]

-----------------------------------------------------------------------------
(* The CPU *)

VersionAddr == HalfValues - 1
IdentAddr   == HalfValues - 2

Init ==
  /\ regs = [r \in Regs |-> <<0, 0, 0, 0>>]
  /\ pc = 0
  /\ sp = 0
  /\ stall = 5
  /\ halt = FALSE
  /\ ram \in Images

StallCycles(op) == IF op \in MemoryOps THEN 4 ELSE 3

\* Mutant of RREGISTER: the bytes of a register taken in the host's order.
RegisterUnswapped(r) == ntohl(<<regs[r][4], regs[r][3], regs[r][2], regs[r][1]>>)

RREGISTER(r) == ntohl(regs[r])
IMM(i)       == ntohs(i.imm)
SetReg(r, bytes) == regs' = [regs EXCEPT ![r] = bytes]

PcNext   == Wrap(pc + 1)
Displaced(i) == Wrap(pc + Signed(IMM(i)))

Compute(i) ==
  /\ i.op \in ComputeOps
  /\ \E w \in Results(Operation(i.op), RREGISTER(i.reg_a),
                      IF i.op \in RegisterForms THEN RREGISTER(i.reg_b) ELSE IMM(i)) :
       SetReg(i.dest, htonl(w))
  /\ pc' = PcNext
  /\ UNCHANGED <<sp, halt, ram>>

Load(i) ==
  LET address == Wrap(RREGISTER(i.reg_a) + IMM(i)) IN
  /\ i.op = "ld"
  /\ \/ address = VersionAddr /\ SetReg(i.dest, htonl(VersionWord))
     \/ address = IdentAddr /\ SetReg(i.dest, htonl(IdentWord))
     \/ /\ address \notin {VersionAddr, IdentAddr}
        /\ \E bytes \in MemRead(address) : SetReg(i.dest, bytes)
  /\ pc' = PcNext
  /\ UNCHANGED <<sp, halt, ram>>

Store(i) ==
  /\ i.op = "st"
  /\ MemWrite(Wrap(RREGISTER(i.dest) + IMM(i)), regs[i.reg_a])
  /\ pc' = PcNext
  /\ UNCHANGED <<regs, sp, halt>>

Branch(i) ==
  /\ i.op \in DOMAIN Taken
  /\ pc' = IF Compare(RREGISTER(i.dest), RREGISTER(i.reg_a)) \in Taken[i.op]
           THEN Displaced(i) ELSE PcNext
  /\ UNCHANGED <<regs, sp, halt, ram>>

\* jal falls through to jmp; jreg falls through to halt.
Jump(i) ==
  /\ i.op \in JumpOps
  /\ pc' = CASE i.op \in {"jal", "jmp"} -> IMM(i)
             [] i.op = "jrel"           -> Displaced(i)
             [] i.op = "jreg"           -> RREGISTER(i.dest)
  /\ halt' = (i.op = "jreg")
  /\ IF i.op = "jal" THEN SetReg(i.dest, htonl(PcNext)) ELSE UNCHANGED regs
  /\ UNCHANGED <<sp, ram>>

Move(i) ==
  /\ \/ i.op = "ldi" /\ SetReg(i.dest, htonl(IMM(i))) /\ UNCHANGED sp
     \/ i.op = "lds" /\ SetReg(i.dest, htonl(sp)) /\ UNCHANGED sp
     \/ i.op = "sts" /\ sp' = RREGISTER(i.reg_a) /\ UNCHANGED regs
  /\ pc' = PcNext
  /\ UNCHANGED <<halt, ram>>

Push(i) ==
  /\ i.op = "push"
  /\ sp' = Wrap(sp - 1)
  /\ MemWrite(sp', regs[i.reg_a])
  /\ pc' = PcNext
  /\ UNCHANGED <<regs, halt>>

Pop(i) ==
  /\ i.op = "pop"
  /\ \E bytes \in MemRead(sp) : SetReg(i.dest, bytes)
  /\ sp' = Wrap(sp + 1)
  /\ pc' = PcNext
  /\ UNCHANGED <<halt, ram>>

Call(i) ==
  /\ i.op = "call"
  /\ sp' = Wrap(sp - 1)
  /\ MemWrite(sp', htonl(PcNext))
  /\ pc' = Displaced(i)
  /\ UNCHANGED <<regs, halt>>

Ret(i) ==
  /\ i.op = "ret"
  /\ \E bytes \in MemRead(sp) : pc' = ntohl(bytes)
  /\ sp' = Wrap(sp + 1)
  /\ UNCHANGED <<regs, halt, ram>>

\* The address is taken as it lies in memory, with no ntohl.
Iret(i) ==
  /\ i.op = "iret"
  /\ \E bytes \in MemRead(sp) :
       pc' = ntohl(<<bytes[4], bytes[3], bytes[2], bytes[1]>>)
  /\ sp' = Wrap(sp + 2)
  /\ UNCHANGED <<regs, halt, ram>>

\* Without an I/O bus a read gives zeros; an I/O bus without devices leaves
\* the buffer, which is the register, as it is.
Io(i) ==
  /\ i.op \in {"ldio", "stio"}
  /\ IF i.op = "ldio" /\ ~IoBus THEN SetReg(i.dest, <<0, 0, 0, 0>>) ELSE UNCHANGED regs
  /\ pc' = PcNext
  /\ UNCHANGED <<sp, halt, ram>>

Idle(i) ==
  /\ i.op \in {"nop", "invalid"}
  /\ pc' = PcNext
  /\ UNCHANGED <<regs, sp, halt, ram>>

Halt(i) ==
  /\ i.op = "halt"
  /\ halt' = TRUE
  /\ pc' = PcNext
  /\ UNCHANGED <<regs, sp, ram>>

Execute(i) ==
  /\ \/ Compute(i) \/ Load(i) \/ Store(i) \/ Branch(i) \/ Jump(i) \/ Move(i) \/ Push(i)
     \/ Pop(i) \/ Call(i) \/ Ret(i) \/ Iret(i) \/ Io(i) \/ Idle(i) \/ Halt(i)
  /\ stall' = StallCycles(i.op)

\* The clocks of rrisc_cpu_clock while the CPU runs.
Fetch == ~halt /\ stall = 0 /\ \E bytes \in MemRead(pc) : Execute(Fields(bytes))

\* Mutant of Stall: the cycles of a stall are not counted down.
StallsForGood ==
  /\ ~halt
  /\ stall > 0
  /\ UNCHANGED vars

Stall ==
  /\ ~halt
  /\ stall > 0
  /\ stall' = stall - 1
  /\ UNCHANGED <<regs, pc, sp, halt, ram>>

Next == Fetch \/ Stall

Spec == Init /\ [][Next]_vars

\* system_clock is called for ever; a CPU that halted does nothing.
FairSpec == Spec /\ WF_vars(Next)

-----------------------------------------------------------------------------
(* Properties *)

\* The words of memory: in RAM, and of no device.
Cells ==
  {c \in 0..(CellCount - 1) :
     \A b \in 0..3 : /\ ByteAddress(c, b) < RamSize
                     /\ ByteAddress(c, b) \notin ReadClaims \cup WriteClaims}

WordOf(c) == ntohl([k \in 1..4 |-> ram[ByteAddress(c, k - 1)]])

CpuWords == [a \in {VersionAddr, IdentAddr} |-> IF a = VersionAddr THEN VersionWord ELSE IdentWord]

ISA == INSTANCE Isa WITH
         regs <- [r \in Regs |-> RREGISTER(r)], halted <- halt,
         mem <- [c \in Cells |-> WordOf(c)]

\* JREG halts, and IRET takes the address with its bytes reversed: what the
\* instruction set says is not said of a program that reaches the one, nor of
\* one that reaches the other for an address that reads differently reversed.
Conforming ==
  \A b \in MemRead(pc) :
    /\ Fields(b).op # "jreg"
    /\ Fields(b).op = "iret" =>
         \A d \in MemRead(sp) : <<d[4], d[3], d[2], d[1]>> = d

\* Whatever the byte order of registers and memory, the bytes a bus access is
\* split into, the devices and the stalls: every program that stays Conforming
\* runs as the instruction set says.
ImplementsIsa == ISA!Spec

\* What a device takes never reaches the RAM that lies under it, whichever
\* instruction writes it and however much of the word the device takes.
Shadowed == [][\A a \in WriteClaims \cap DOMAIN ram : ram'[a] = ram[a]]_vars

\* The CPU comes to its next instruction, or has halted, over and over: no
\* instruction leaves it stalled for good.
KeepsExecuting == []<>(halt \/ stall = 0)
=============================================================================
