-------------------------------- MODULE Uart --------------------------------
(***************************************************************************)
(* The virtual machine's UART receiver (rrvm/src/device/uart.c), the named *)
(* pipe it reads (./uart-fifo) and the order in which system_clock() lets  *)
(* the CPU and the device run.  The guest is arbitrary here: in its turn   *)
(* it may read the RX register whether or not a word is ready.             *)
(*                                                                         *)
(* The pipe carries one fixed stream of bytes, so its content is given by  *)
(* how many bytes of the stream were written and how many were taken.      *)
(***************************************************************************)
EXTENDS Integers, Sequences

CONSTANTS Stream,    \* the bytes the host writes to the pipe, in order
          PipeCap    \* the pipe's capacity in bytes

Byte == 0..255

ASSUME StreamAssumption == Stream \in Seq(Byte)
ASSUME PipeAssumption   == PipeCap \in Nat \ {0}

VARIABLES
  written,    \* bytes of Stream the host has written
  taken,      \* bytes of Stream uart_clock has read
  rx,         \* mmio_buffer.rx_data, byte by byte
  offset,     \* uart->offset: where the next byte goes
  ready,      \* UART_STAT_RX_READY in mmio_buffer.status
  finished,   \* UART_STAT_RX_FINISHED in mmio_buffer.status
  turn        \* whose clock handler system_clock calls next

uartVars == <<written, taken, rx, offset, ready, finished>>
vars     == <<uartVars, turn>>

\* The value a big-endian CPU sees in the four bytes b[0..3].
BigEndian(b) == b[0] * 16777216 + b[1] * 65536 + b[2] * 256 + b[3]

\* Word k (from 0) of the stream.
WordAt(k) == BigEndian([i \in 0..3 |-> Stream[4 * k + i + 1]])

Init ==
  /\ written = 0
  /\ taken = 0
  /\ rx = [i \in 0..3 |-> 0]
  /\ offset = 0
  /\ ready = FALSE
  /\ finished = FALSE
  /\ turn = "cpu"

\* The host's blocking write: one more byte, once the pipe has room.
HostWrite ==
  /\ written < Len(Stream)
  /\ written - taken < PipeCap
  /\ written' = written + 1
  /\ UNCHANGED <<taken, rx, offset, ready, finished, turn>>

\* Mutant of ReadRx: the load leaves no trace.
ReadRxUnlatched ==
  /\ finished' = finished
  /\ UNCHANGED <<written, taken, rx, offset, ready>>

\* The four byte reads of a load from the RX register; the last one latches
\* RX_FINISHED, whether or not a word is ready.
ReadRx ==
  /\ finished' = TRUE
  /\ UNCHANGED <<written, taken, rx, offset, ready>>

\* Mutants of ReceiveByte: a word not yet read is not waited for; a word is
\* announced a byte too early.
ReceiveByteAnyway ==
  /\ taken < written
  /\ rx' = [rx EXCEPT ![offset] = Stream[taken + 1]]
  /\ taken' = taken + 1
  /\ offset' = offset + 1
  /\ ready' = (offset + 1 = 4)
  /\ UNCHANGED <<written, finished>>

ReceiveByteEarly ==
  /\ ~ready
  /\ taken < written
  /\ rx' = [rx EXCEPT ![offset] = Stream[taken + 1]]
  /\ taken' = taken + 1
  /\ offset' = offset + 1
  /\ ready' = (offset + 1 >= 3)
  /\ UNCHANGED <<written, finished>>

\* uart_clock with room in rx_data and a byte in the pipe.
ReceiveByte ==
  /\ ~ready
  /\ taken < written
  /\ rx' = [rx EXCEPT ![offset] = Stream[taken + 1]]
  /\ taken' = taken + 1
  /\ offset' = offset + 1
  /\ ready' = (offset + 1 = 4)
  /\ UNCHANGED <<written, finished>>


ReleaseWordStaysFinished ==
  /\ ready /\ finished
  /\ offset' = 0 /\ ready' = FALSE
  /\ UNCHANGED <<written, taken, rx, finished>>

ReleaseWordUnread ==
  /\ ready
  /\ offset' = 0 /\ ready' = FALSE /\ finished' = FALSE
  /\ UNCHANGED <<written, taken, rx>>

\* uart_clock once the guest has read the word: the next word may come in.
ReleaseWord ==
  /\ ready
  /\ finished
  /\ offset' = 0
  /\ ready' = FALSE
  /\ finished' = FALSE
  /\ UNCHANGED <<written, taken, rx>>

\* uart_clock with nothing to do: an empty pipe, or a word not read yet.
UartIdle ==
  /\ IF ready THEN ~finished ELSE taken = written
  /\ UNCHANGED uartVars

UartClock ==
  /\ turn = "uart"
  /\ turn' = "cpu"
  /\ ReceiveByte \/ ReleaseWord \/ UartIdle

\* The CPU's half of system_clock, for a guest that reads RX when it pleases.
GuestReadsRx == turn = "cpu" /\ turn' = "uart" /\ ReadRx
GuestElse    == turn = "cpu" /\ turn' = "uart" /\ UNCHANGED uartVars

Next == HostWrite \/ GuestReadsRx \/ GuestElse \/ UartClock

Spec == Init /\ [][Next]_vars

-----------------------------------------------------------------------------
\* Every variable has its type.
TypeOK ==
  /\ written \in 0..Len(Stream)
  /\ taken \in 0..written
  /\ rx \in [0..3 -> Byte]
  /\ offset \in 0..4
  /\ ready \in BOOLEAN
  /\ finished \in BOOLEAN
  /\ turn \in {"cpu", "uart"}

\* Whatever the guest does, rx_data never mixes the bytes of two words: it
\* starts at a word boundary of the stream and holds the bytes from there on
\* (uart.c:63-77, where offset is reset only together with RX_READY).
Framed ==
  /\ (taken - offset) % 4 = 0
  /\ \A i \in 0..3 : i < offset => rx[i] = Stream[taken - offset + i + 1]

\* RX_READY is set exactly while all four bytes are there, so a guest that sees
\* it reads a whole word, and uart_clock never stores past rx_data[3].
ReadyIsWhole ==
  /\ ready <=> (offset = 4)
  /\ ready => BigEndian(rx) = WordAt((taken - 4) \div 4)

=============================================================================
