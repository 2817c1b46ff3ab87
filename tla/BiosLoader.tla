----------------------------- MODULE BiosLoader -----------------------------
(***************************************************************************)
(* The path by which a program reaches the machine: the host's             *)
(* uart_transmit_packet.py writes a packet for each program into the pipe, *)
(* the UART turns bytes into words, and the BIOS (bios.asm, bios_entry)    *)
(* polls RX_READY, reads the word count and the words, stores them from    *)
(* address 0 on and enters the program.  A program that returns re-enters  *)
(* bios_entry, which then waits for the next packet.                       *)
(*                                                                         *)
(* An action of the loader is the run of BIOS instructions between two     *)
(* accesses to the UART or to memory.  The clock cycles in between (stall  *)
(* cycles, register instructions, drawing) are a number from Stalls.       *)
(***************************************************************************)
EXTENDS Uart, SequencesExt

CONSTANTS Programs,    \* the blobs the host transmits, one after the other
          StackTop,    \* STACK_TOP: the first word of the BIOS
          StackDepth,  \* words of stack the BIOS uses while it loads
          StackWord,   \* what it leaves in them
          Stalls       \* clocks between two accesses

\* uart_transmit_packet.py: the blob is padded with one to four zero bytes, and
\* the count of its words goes first, as a big-endian word.
Padded(blob) == blob \o [i \in 1..(4 - (Len(blob) % 4)) |-> 0]
Header(n)    == <<0, 0, n \div 256, n % 256>>   \* programs below 2^16 words
Packet(blob) == Header(Len(Padded(blob)) \div 4) \o Padded(blob)

Words(blob)  == [k \in 0..(Len(Padded(blob)) \div 4 - 1) |->
                   BigEndian([i \in 0..3 |-> Padded(blob)[4 * k + i + 1]])]

ASSUME ProgramsAssumption ==
  /\ Programs \in Seq(Seq(Byte))
  /\ Stream = FlattenSeq([p \in DOMAIN Programs |-> Packet(Programs[p])])
  /\ Len(Stream) % 4 = 0
ASSUME StackAssumption ==
  /\ StackTop \in Nat
  /\ StackDepth \in 1..StackTop
  /\ StackWord \in Nat
ASSUME StallsAssumption == Stalls \subseteq Nat /\ Stalls # {}
\* A longer program would grow into the stack the loader uses.
ASSUME FitsAssumption ==
  \A p \in DOMAIN Programs :
     Len(Padded(Programs[p])) \div 4 =< StackTop - StackDepth

VARIABLES
  pc,      \* the BIOS label the CPU is at
  stall,   \* clocks until it executes again
  r3,      \* where the next word is stored
  r4,      \* the status word's RX_READY bit as last read
  r5,      \* the packet's word count
  r6,      \* words received so far
  r7,      \* the word read last
  rn_cnt,  \* the BIOS's run count: packets begun
  mem,     \* memory below STACK_TOP, by word address
  got      \* history: every word read from RX by the BIOS

regs       == <<r3, r4, r5, r6, r7>>
loaderVars == <<pc, stall, regs, rn_cnt, mem, got>>
allVars    == <<vars, loaderVars>>

Addr   == 0..(StackTop - 1)
Labels == {"bios_entry", "poll_uart", "test_uart", "load_program", "status",
           "poll_word", "test_word", "read_word", "store_word",
           "update_uart_status", "more_words", "enter", "program"}

LoaderInit ==
  /\ Init
  /\ pc = "bios_entry"
  /\ stall = 5
  /\ r3 = 0 /\ r4 = FALSE /\ r5 = 0 /\ r6 = 0 /\ r7 = 0
  /\ rn_cnt = 0
  /\ mem \in [Addr -> {0, StackWord}]   \* malloc'ed, not cleared
  /\ got = <<>>

\* The CPU's half of system_clock executes at label `from` and goes to `to`.
Exec(from, to) ==
  /\ turn = "cpu" /\ stall = 0 /\ pc = from
  /\ turn' = "uart" /\ stall' \in Stalls /\ pc' = to

\* What a push, a call or a print leaves below STACK_TOP.
StackScribbled ==
  [a \in Addr |-> IF a >= StackTop - StackDepth THEN StackWord ELSE mem[a]]

Stall ==
  /\ turn = "cpu" /\ stall > 0
  /\ turn' = "uart" /\ stall' = stall - 1
  /\ UNCHANGED <<uartVars, pc, regs, rn_cnt, mem, got>>

\* Mutant of BiosEntry: the count of the last program's words is kept.
BiosEntryKeepsCount ==
  /\ Exec("bios_entry", "poll_uart")
  /\ r3' = 0
  /\ mem' = StackScribbled
  /\ UNCHANGED <<uartVars, r4, r5, r6, r7, rn_cnt, got>>

BiosEntry ==
  /\ Exec("bios_entry", "poll_uart")
  /\ r3' = 0 /\ r6' = 0
  /\ mem' = StackScribbled
  /\ UNCHANGED <<uartVars, r4, r5, r7, rn_cnt, got>>

\* mov r4, [r0]: the status as it is now; it is tested some clocks later.
PollUart(from, to) ==
  /\ Exec(from, to)
  /\ r4' = ready
  /\ UNCHANGED <<uartVars, r3, r5, r6, r7, rn_cnt, mem, got>>

TestUart(from, again, to) ==
  /\ Exec(from, IF r4 THEN to ELSE again)
  /\ UNCHANGED <<uartVars, regs, rn_cnt, mem, got>>

\* mov r5, [r1]: the first word of a packet is its count.
LoadProgram ==
  /\ Exec("load_program", "status")
  /\ ReadRx
  /\ r5' = BigEndian(rx)
  /\ got' = Append(got, BigEndian(rx))
  /\ UNCHANGED <<r3, r4, r6, r7, rn_cnt, mem>>

\* Count the run, show what is expected; r0-r2 are saved on the stack.
Status ==
  /\ Exec("status", "poll_word")
  /\ rn_cnt' = rn_cnt + 1
  /\ mem' = StackScribbled
  /\ UNCHANGED <<uartVars, regs, got>>

ReadWord ==
  /\ Exec("read_word", "store_word")
  /\ ReadRx
  /\ r7' = BigEndian(rx)
  /\ got' = Append(got, BigEndian(rx))
  /\ UNCHANGED <<r3, r4, r5, r6, rn_cnt, mem>>

\* Mutants of StoreWord: the address, or the count, is not advanced.
StoreWordInPlace ==
  /\ Exec("store_word", "update_uart_status")
  /\ mem' = [mem EXCEPT ![r3] = r7]
  /\ r6' = r6 + 1
  /\ UNCHANGED <<uartVars, r3, r4, r5, r7, rn_cnt, got>>

StoreWordUncounted ==
  /\ Exec("store_word", "update_uart_status")
  /\ mem' = [mem EXCEPT ![r3] = r7]
  /\ r3' = r3 + 1
  /\ UNCHANGED <<uartVars, r4, r5, r6, r7, rn_cnt, got>>

StoreWord ==
  /\ Exec("store_word", "update_uart_status")
  /\ mem' = [mem EXCEPT ![r3] = r7]
  /\ r3' = r3 + 1
  /\ r6' = r6 + 1
  /\ UNCHANGED <<uartVars, r4, r5, r7, rn_cnt, got>>

UpdateUartStatus ==
  /\ Exec("update_uart_status", "more_words")
  /\ mem' = StackScribbled
  /\ UNCHANGED <<uartVars, regs, rn_cnt, got>>

MoreWords ==
  /\ Exec("more_words", IF r5 # r6 THEN "poll_word" ELSE "enter")
  /\ UNCHANGED <<uartVars, regs, rn_cnt, mem, got>>

\* detect and enter: bios_entry is pushed as the program's return address.
Enter ==
  /\ Exec("enter", "program")
  /\ mem' = StackScribbled
  /\ UNCHANGED <<uartVars, regs, rn_cnt, got>>

\* The program runs, or returns to the BIOS; it leaves the UART alone.
Program ==
  /\ Exec("program", "program") \/ Exec("program", "bios_entry")
  /\ UNCHANGED <<uartVars, regs, rn_cnt, mem, got>>

CpuClock ==
  \/ Stall \/ BiosEntry
  \/ PollUart("poll_uart", "test_uart")
  \/ TestUart("test_uart", "poll_uart", "load_program")
  \/ LoadProgram \/ Status
  \/ PollUart("poll_word", "test_word")
  \/ TestUart("test_word", "poll_word", "read_word")
  \/ ReadWord \/ StoreWord \/ UpdateUartStatus \/ MoreWords
  \/ Enter \/ Program

SystemClock == CpuClock \/ (UartClock /\ UNCHANGED loaderVars)

LoaderNext == SystemClock \/ (HostWrite /\ UNCHANGED loaderVars)

LoaderSpec == LoaderInit /\ [][LoaderNext]_allVars

\* The main loop never stops clocking the system and the host keeps writing.
FairLoaderSpec ==
  /\ LoaderSpec
  /\ WF_allVars(SystemClock)
  /\ WF_allVars(HostWrite /\ UNCHANGED loaderVars)

-----------------------------------------------------------------------------
\* The labels at which a program is being received.
Loading == {"poll_word", "test_word", "read_word", "store_word",
            "update_uart_status", "more_words", "enter"}

\* 1 between reading a word of the program and counting it.
Pending == IF pc = "store_word" THEN 1 ELSE 0

\* The BIOS reads every word of the stream once and in order: no word is lost
\* between the moment RX_READY is polled and the moment RX is read, and none
\* is read twice (bios.asm:238-245, 277-282 against uart.c:63-77).
InOrder == \A k \in 1..Len(got) : got[k] = WordAt(k - 1)

\* RX_FINISHED is never left latched when the BIOS runs, so uart_clock cannot
\* discard a word the BIOS has not read.
NoStaleFinish == turn = "cpu" => ~finished

\* A status word is tested, and acted upon, clocks after it was read: an
\* RX_READY seen is still set, and unacknowledged, when RX is read for it.
SeenReadyHolds ==
  \/ pc \in {"load_program", "read_word"}
  \/ pc \in {"test_uart", "test_word"} /\ r4
  => ready /\ ~finished

\* Words are taken from the pipe no faster than the BIOS reads them: before the
\* byte being received lie exactly the words read, and while a read is not yet
\* acknowledged rx_data still holds the last of them.
WordsAccounted ==
  IF finished THEN ready /\ taken - offset = 4 * (Len(got) - 1)
              ELSE taken - offset = 4 * Len(got)

\* The host, the pipe, the UART and the BIOS together are a channel of words.
Channel == INSTANCE WordChannel
             WITH WordOf <- WordAt, sent <- written \div 4, received <- got
DeliversWords == Channel!Spec

\* While a packet is loaded, the words received so far are in memory from 0 on,
\* whatever the calls made for each word push on the stack.  (A program longer
\* than this grows into that stack: bios.asm has no check for it.)
LoadedPrefix ==
  /\ pc \in Loading
  /\ r6 =< StackTop - StackDepth
  => \A a \in 0..(r6 - 1) : mem[a] = got[Len(got) - Pending - r6 + a + 1]

\* When the BIOS enters the program it was sent, memory holds that program and
\* nothing of the packet is left to be taken for the next one.
EntersIntact ==
  pc = "program" =>
    /\ r6 = Len(Padded(Programs[rn_cnt])) \div 4
    /\ \A a \in DOMAIN Words(Programs[rn_cnt]) :
          mem[a] = Words(Programs[rn_cnt])[a]

\* A BIOS that waits while programs are still to come enters the next one.
EveryProgramEntered ==
  \A n \in 0..(Len(Programs) - 1) :
    (pc = "poll_uart" /\ rn_cnt = n) ~> (pc = "program" /\ rn_cnt = n + 1)
=============================================================================
