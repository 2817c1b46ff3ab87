-------------------------- MODULE BiosLoaderProofs --------------------------
(***************************************************************************)
(* Proofs about the UART receiver, whatever guest reads from it, and about *)
(* the loading of programs through it, for every stream, pipe, stack and   *)
(* pace of the BIOS.  DeliveryInv relates the device to the words read and *)
(* gives that no word is lost, repeated or reordered; LoadInv adds memory. *)
(***************************************************************************)
EXTENDS BiosLoader, SequenceTheorems, WellFoundedInduction, TLAPS

-----------------------------------------------------------------------------
(* The UART receiver, for every stream, every pipe and any guest.             *)

\* What the device promises is inductive as it stands.
DeviceInv == TypeOK /\ Framed /\ (ready <=> (offset = 4))

LEMMA StreamByte ==
  ASSUME NEW i \in 1..Len(Stream)
  PROVE  Stream[i] \in Byte
BY StreamAssumption

LEMMA StreamLength == Len(Stream) \in Nat
BY StreamAssumption

\* uart_clock keeps the invariant, whoever ran before it.
LEMMA ReceiveKeepsInv ==
  ASSUME DeviceInv, ReceiveByte, turn' \in {"cpu", "uart"}
  PROVE  DeviceInv'
<1> USE DEF DeviceInv, TypeOK
<1>1. /\ offset \in 0..3
      /\ taken + 1 \in 1..Len(Stream)
      /\ rx' = [rx EXCEPT ![offset] = Stream[taken + 1]]
      /\ taken' = taken + 1 /\ offset' = offset + 1
      /\ ready' = (offset + 1 = 4)
      /\ written' = written /\ finished' = finished
  BY StreamLength DEF ReceiveByte
<1>2. TypeOK'
  BY <1>1, StreamByte, StreamLength DEF ReceiveByte
<1>3. Framed'
  <2>1. (taken' - offset') % 4 = 0
    BY <1>1 DEF Framed
  <2>2. ASSUME NEW i \in 0..3, i < offset'
        PROVE  rx'[i] = Stream[taken' - offset' + i + 1]
    <3>1. CASE i = offset
      BY <1>1, <3>1
    <3>2. CASE i < offset
      BY <1>1, <3>2 DEF Framed
    <3> QED BY <1>1, <2>2, <3>1, <3>2
  <2> QED BY <2>1, <2>2 DEF Framed
<1> QED BY <1>1, <1>2, <1>3

LEMMA ReleaseKeepsInv ==
  ASSUME DeviceInv, ReleaseWord, turn' \in {"cpu", "uart"}
  PROVE  DeviceInv'
<1>1. /\ offset = 4 /\ offset' = 0
      /\ taken' = taken /\ taken \in Int
      /\ written' = written /\ rx' = rx
      /\ ready' = FALSE /\ finished' = FALSE
  BY StreamLength DEF DeviceInv, TypeOK, ReleaseWord
<1>2. TypeOK'
  <2>1. offset' \in 0..4
    BY <1>1
  <2>2. ready' \in BOOLEAN /\ finished' \in BOOLEAN
    BY <1>1, Zenon
  <2> QED BY <1>1, <2>1, <2>2 DEF DeviceInv, TypeOK
<1>3. (taken' - offset') % 4 = 0
  BY <1>1 DEF DeviceInv, Framed
<1>4. Framed'
  BY <1>1, <1>3 DEF Framed
<1>5. (ready <=> (offset = 4))'
  BY <1>1
<1> QED BY <1>2, <1>4, <1>5 DEF DeviceInv

LEMMA UartClockKeepsInv == DeviceInv /\ UartClock => DeviceInv'
<1> SUFFICES ASSUME DeviceInv, UartClock PROVE DeviceInv'
  OBVIOUS
<1>1. turn' \in {"cpu", "uart"}
  BY DEF UartClock
<1>2. CASE ReceiveByte
  BY <1>1, <1>2, ReceiveKeepsInv
<1>3. CASE ReleaseWord
  BY <1>1, <1>3, ReleaseKeepsInv
<1>4. CASE UartIdle
  BY <1>1, <1>4 DEF UartIdle, uartVars, DeviceInv, TypeOK, Framed
<1> QED BY <1>2, <1>3, <1>4 DEF UartClock

LEMMA HostWriteKeepsInv == DeviceInv /\ HostWrite => DeviceInv'
BY StreamLength DEF DeviceInv, TypeOK, Framed, HostWrite

\* The CPU's half of system_clock, whatever it reads.
LEMMA GuestKeepsInv ==
  ASSUME DeviceInv, turn' \in {"cpu", "uart"}, ReadRx \/ UNCHANGED uartVars
  PROVE  DeviceInv'
<1>1. /\ UNCHANGED <<written, taken, rx, offset, ready>>
      /\ finished' \in BOOLEAN
  BY DEF ReadRx, uartVars, DeviceInv, TypeOK
<1>2. TypeOK'
  BY <1>1 DEF DeviceInv, TypeOK
<1>3. Framed'
  BY <1>1 DEF DeviceInv, Framed
<1> QED BY <1>1, <1>2, <1>3 DEF DeviceInv

LEMMA InitInv == Init => DeviceInv
BY StreamLength DEF Init, DeviceInv, TypeOK, Framed, Byte

\* Under an arbitrary guest the receiver never mixes the bytes of two words,
\* never stores past rx_data, and has the right type throughout.
THEOREM DeviceInvariant == Spec => []DeviceInv
<1>1. DeviceInv /\ [Next]_vars => DeviceInv'
  <2> SUFFICES ASSUME DeviceInv, [Next]_vars PROVE DeviceInv'
    OBVIOUS
  <2>1. CASE HostWrite
    BY <2>1, HostWriteKeepsInv
  <2>2. CASE GuestReadsRx
    BY <2>2, GuestKeepsInv DEF GuestReadsRx
  <2>3. CASE GuestElse
    BY <2>3, GuestKeepsInv DEF GuestElse
  <2>4. CASE UartClock
    BY <2>4, UartClockKeepsInv
  <2>5. CASE UNCHANGED vars
    BY <2>5 DEF vars, uartVars, DeviceInv, TypeOK, Framed
  <2> QED BY <2>1, <2>2, <2>3, <2>4, <2>5 DEF Next
<1> QED BY <1>1, InitInv, PTL DEF Spec

THEOREM TypeCorrect == Spec => []TypeOK
BY DeviceInvariant, PTL DEF DeviceInv

\* uart.c:63-77 keeps rx_data aligned with the stream's words.
THEOREM FramingHolds == Spec => []Framed
BY DeviceInvariant, PTL DEF DeviceInv

\* Four framed bytes are the stream's word, read big-endian.
LEMMA FramedWord ==
  ASSUME DeviceInv, ready
  PROVE  BigEndian(rx) = WordAt((taken - 4) \div 4)
<1>1. offset = 4 /\ taken \in Nat
  BY StreamLength DEF DeviceInv, TypeOK
<1>2. (taken - 4) % 4 = 0
  BY <1>1 DEF DeviceInv, Framed
<1>3. 4 * ((taken - 4) \div 4) = taken - 4
  BY <1>1, <1>2
<1>4. \A i \in 0..3 : rx[i] = Stream[(taken - 4) + i + 1]
  BY <1>1 DEF DeviceInv, Framed
<1>5. WordAt((taken - 4) \div 4)
        = BigEndian([i \in 0..3 |-> Stream[(taken - 4) + i + 1]])
  BY <1>3 DEF WordAt
<1> QED BY <1>4, <1>5 DEF BigEndian

\* RX_READY means a whole, correct word for whoever reads RX next.
THEOREM ReadyWordHolds == Spec => []ReadyIsWhole
<1>1. DeviceInv => ReadyIsWhole
  BY FramedWord DEF DeviceInv, ReadyIsWhole
<1> QED BY <1>1, DeviceInvariant, PTL

-----------------------------------------------------------------------------
(* The BIOS and the receiver together.                                        *)

\* Whoever runs a system clock hands the turn over; a host write does not.
LoaderDevice == DeviceInv /\ pc \in Labels /\ r4 \in BOOLEAN /\ got \in Seq(Nat)

\* The BIOS acknowledges at "load_program" and "read_word", in its own turn.
FinishedOnlyAfterRead ==
  finished => turn = "uart" /\ pc \in {"status", "store_word"}

DeliveryInv ==
  /\ LoaderDevice
  /\ FinishedOnlyAfterRead
  /\ SeenReadyHolds
  /\ WordsAccounted
  /\ InOrder

LEMMA BigEndianNat ==
  ASSUME NEW b \in [0..3 -> Byte] PROVE BigEndian(b) \in Nat
<1>1. b[0] \in Nat /\ b[1] \in Nat /\ b[2] \in Nat /\ b[3] \in Nat
  BY DEF Byte
<1> QED BY <1>1 DEF BigEndian

\* The word in rx_data is the next one the BIOS has not read.
LEMMA NextWord ==
  ASSUME DeliveryInv, ready, ~finished
  PROVE  BigEndian(rx) = WordAt(Len(got)) /\ BigEndian(rx) \in Nat
<1>1. offset = 4 /\ taken - 4 = 4 * Len(got) /\ Len(got) \in Nat /\ taken \in Int
  BY StreamLength
     DEF DeliveryInv, LoaderDevice, DeviceInv, TypeOK, WordsAccounted
<1>2. (taken - 4) \div 4 = Len(got)
  BY <1>1
<1> QED BY <1>2, FramedWord, BigEndianNat
        DEF DeliveryInv, LoaderDevice, DeviceInv, TypeOK

\* A step of the BIOS that reads RX, from a label where a ready word was seen.
LEMMA ReadKeepsDelivery ==
  ASSUME DeliveryInv, ReadRx, turn' = "uart", r4' = r4,
         pc \in {"load_program", "read_word"},
         pc' \in {"status", "store_word"},
         got' = Append(got, BigEndian(rx))
  PROVE  DeliveryInv'
<1>1. ready /\ ~finished
  BY DEF DeliveryInv, SeenReadyHolds
<1>2. BigEndian(rx) = WordAt(Len(got)) /\ BigEndian(rx) \in Nat
  BY <1>1, NextWord
<1>3. got \in Seq(Nat) /\ got' \in Seq(Nat) /\ Len(got') = Len(got) + 1
  BY <1>2 DEF DeliveryInv, LoaderDevice
<1>4. LoaderDevice'
  <2>1. DeviceInv'
    BY GuestKeepsInv DEF DeliveryInv, LoaderDevice
  <2> QED BY <1>3, <2>1 DEF DeliveryInv, LoaderDevice, Labels
<1>5. FinishedOnlyAfterRead'
  BY DEF FinishedOnlyAfterRead
<1>6. SeenReadyHolds'
  BY DEF SeenReadyHolds
<1>7. WordsAccounted'
  <2>1. ready' /\ taken' = taken /\ offset' = offset /\ finished'
    BY <1>1 DEF ReadRx
  <2>2. taken - offset = 4 * Len(got)
    BY <1>1 DEF DeliveryInv, WordsAccounted
  <2> QED BY <1>3, <2>1, <2>2 DEF WordsAccounted
<1>8. InOrder'
  <2>1. ASSUME NEW k \in 1..Len(got') PROVE got'[k] = WordAt(k - 1)
    <3>1. CASE k = Len(got) + 1
      BY <1>2, <1>3, <3>1
    <3>2. CASE k \in 1..Len(got)
      BY <1>3, <3>2 DEF DeliveryInv, InOrder
    <3> QED BY <1>3, <3>1, <3>2
  <2> QED BY <2>1 DEF InOrder
<1> QED BY <1>4, <1>5, <1>6, <1>7, <1>8 DEF DeliveryInv

\* A step of the BIOS that leaves the device alone, and acts on a status word
\* only if it has just read it or has seen RX_READY in it.
LEMMA QuietKeepsDelivery ==
  ASSUME DeliveryInv, UNCHANGED <<uartVars, got>>, turn = "cpu", turn' = "uart",
         pc' \in Labels, r4' \in BOOLEAN,
         \/ pc' \in {"load_program", "read_word"}
         \/ pc' \in {"test_uart", "test_word"} /\ r4'
         => ready
  PROVE  DeliveryInv'
<1>1. ~finished
  BY DEF DeliveryInv, FinishedOnlyAfterRead
<1>2. LoaderDevice'
  BY GuestKeepsInv DEF DeliveryInv, LoaderDevice, uartVars
<1>3. FinishedOnlyAfterRead' /\ SeenReadyHolds'
  BY <1>1 DEF uartVars, FinishedOnlyAfterRead, SeenReadyHolds
<1>4. WordsAccounted' /\ InOrder'
  BY DEF uartVars, DeliveryInv, WordsAccounted, InOrder
<1> QED BY <1>2, <1>3, <1>4 DEF DeliveryInv

LEMMA CpuKeepsDelivery == DeliveryInv /\ CpuClock => DeliveryInv'
<1> SUFFICES ASSUME DeliveryInv, CpuClock PROVE DeliveryInv'
  OBVIOUS
<1> USE DEF Exec, regs
<1>0. r4 \in BOOLEAN /\ ready \in BOOLEAN /\ pc \in Labels
  BY DEF DeliveryInv, LoaderDevice, DeviceInv, TypeOK
<1>1. CASE Stall
  BY <1>0, <1>1, QuietKeepsDelivery DEF Stall, DeliveryInv, SeenReadyHolds
<1>2. CASE BiosEntry
  BY <1>0, <1>2, QuietKeepsDelivery DEF BiosEntry, Labels
<1>3. CASE PollUart("poll_uart", "test_uart")
  BY <1>0, <1>3, QuietKeepsDelivery DEF PollUart, Labels
<1>4. CASE TestUart("test_uart", "poll_uart", "load_program")
  BY <1>0, <1>4, QuietKeepsDelivery
     DEF TestUart, Labels, DeliveryInv, SeenReadyHolds
<1>5. CASE LoadProgram
  BY <1>5, ReadKeepsDelivery DEF LoadProgram
<1>6. CASE Status
  BY <1>0, <1>6, QuietKeepsDelivery DEF Status, Labels
<1>7. CASE PollUart("poll_word", "test_word")
  BY <1>0, <1>7, QuietKeepsDelivery DEF PollUart, Labels
<1>8. CASE TestUart("test_word", "poll_word", "read_word")
  BY <1>0, <1>8, QuietKeepsDelivery
     DEF TestUart, Labels, DeliveryInv, SeenReadyHolds
<1>9. CASE ReadWord
  BY <1>9, ReadKeepsDelivery DEF ReadWord
<1>10. CASE StoreWord
  BY <1>0, <1>10, QuietKeepsDelivery DEF StoreWord, Labels
<1>11. CASE UpdateUartStatus
  BY <1>0, <1>11, QuietKeepsDelivery DEF UpdateUartStatus, Labels
<1>12. CASE MoreWords
  BY <1>0, <1>12, QuietKeepsDelivery DEF MoreWords, Labels
<1>13. CASE Enter
  BY <1>0, <1>13, QuietKeepsDelivery DEF Enter, Labels
<1>14. CASE Program
  BY <1>0, <1>14, QuietKeepsDelivery DEF Program, Labels
<1> QED BY <1>1, <1>2, <1>3, <1>4, <1>5, <1>6, <1>7, <1>8, <1>9, <1>10,
           <1>11, <1>12, <1>13, <1>14 DEF CpuClock

LEMMA UartKeepsDelivery ==
  DeliveryInv /\ UartClock /\ UNCHANGED loaderVars => DeliveryInv'
<1> SUFFICES ASSUME DeliveryInv, UartClock, UNCHANGED loaderVars
             PROVE  DeliveryInv'
  OBVIOUS
<1>1. UNCHANGED <<pc, r4, got>>
  BY DEF loaderVars, regs
<1>2. LoaderDevice'
  BY <1>1, UartClockKeepsInv DEF DeliveryInv, LoaderDevice
<1>3. InOrder'
  BY <1>1 DEF DeliveryInv, InOrder
<1>4. Len(got) \in Nat /\ offset \in Nat /\ taken \in Int /\ (ready <=> offset = 4)
  BY StreamLength DEF DeliveryInv, LoaderDevice, DeviceInv, TypeOK
<1>5. CASE ReceiveByte
  <2>1. ~ready /\ ~finished /\ ~finished'
    BY <1>5 DEF ReceiveByte, DeliveryInv, WordsAccounted
  <2>2. FinishedOnlyAfterRead' /\ SeenReadyHolds'
    BY <1>1, <2>1 DEF FinishedOnlyAfterRead, SeenReadyHolds, DeliveryInv
  <2>3. WordsAccounted'
    BY <1>1, <1>4, <1>5, <2>1 DEF ReceiveByte, WordsAccounted, DeliveryInv
  <2> QED BY <1>2, <1>3, <2>2, <2>3 DEF DeliveryInv
<1>6. CASE ReleaseWord
  <2>1. finished /\ ~finished' /\ offset = 4 /\ offset' = 0 /\ taken' = taken
    BY <1>4, <1>6 DEF ReleaseWord
  <2>2. pc' \in {"status", "store_word"}
    BY <1>1, <2>1 DEF DeliveryInv, FinishedOnlyAfterRead
  <2>3. FinishedOnlyAfterRead' /\ SeenReadyHolds'
    BY <2>1, <2>2 DEF FinishedOnlyAfterRead, SeenReadyHolds
  <2>4. WordsAccounted'
    BY <1>1, <1>4, <2>1 DEF WordsAccounted, DeliveryInv
  <2> QED BY <1>2, <1>3, <2>3, <2>4 DEF DeliveryInv
<1>7. CASE UartIdle
  <2>1. UNCHANGED uartVars /\ ~finished
    BY <1>7 DEF UartIdle, DeliveryInv, WordsAccounted
  <2>2. FinishedOnlyAfterRead' /\ SeenReadyHolds' /\ WordsAccounted'
    BY <1>1, <2>1 DEF uartVars, FinishedOnlyAfterRead, SeenReadyHolds,
                      WordsAccounted, DeliveryInv
  <2> QED BY <1>2, <1>3, <2>2 DEF DeliveryInv
<1> QED BY <1>5, <1>6, <1>7 DEF UartClock

LEMMA HostKeepsDelivery ==
  DeliveryInv /\ HostWrite /\ UNCHANGED loaderVars => DeliveryInv'
<1> SUFFICES ASSUME DeliveryInv, HostWrite, UNCHANGED loaderVars
             PROVE  DeliveryInv'
  OBVIOUS
<1>1. UNCHANGED <<pc, r4, got, taken, rx, offset, ready, finished, turn>>
  BY DEF loaderVars, regs, HostWrite
<1>2. LoaderDevice'
  BY <1>1, HostWriteKeepsInv DEF DeliveryInv, LoaderDevice
<1> QED BY <1>1, <1>2 DEF DeliveryInv, FinishedOnlyAfterRead, SeenReadyHolds,
                          WordsAccounted, InOrder

LEMMA StutterKeepsDelivery == DeliveryInv /\ UNCHANGED allVars => DeliveryInv'
BY DEF allVars, vars, uartVars, loaderVars, regs, DeliveryInv, LoaderDevice,
       DeviceInv, TypeOK, Framed, FinishedOnlyAfterRead, SeenReadyHolds,
       WordsAccounted, InOrder

LEMMA LoaderInitDelivery == LoaderInit => DeliveryInv
<1> SUFFICES ASSUME LoaderInit PROVE DeliveryInv
  OBVIOUS
<1>1. DeviceInv
  BY InitInv DEF LoaderInit
<1>2. LoaderDevice /\ Len(got) = 0
  <2>1. r4 \in BOOLEAN
    BY Zenon DEF LoaderInit
  <2>2. pc \in Labels /\ got \in Seq(Nat) /\ Len(got) = 0
    BY DEF LoaderInit, Labels
  <2> QED BY <1>1, <2>1, <2>2 DEF LoaderDevice
<1> QED BY <1>2 DEF LoaderInit, Init, DeliveryInv, FinishedOnlyAfterRead,
                    SeenReadyHolds, WordsAccounted, InOrder

\* Between host and BIOS no word is lost, repeated or reordered, and a status
\* word that said RX_READY never misleads.
THEOREM DeliveryInvariant == LoaderSpec => []DeliveryInv
<1>1. DeliveryInv /\ [LoaderNext]_allVars => DeliveryInv'
  BY CpuKeepsDelivery, UartKeepsDelivery, HostKeepsDelivery,
     StutterKeepsDelivery DEF LoaderNext, SystemClock
<1> QED BY <1>1, LoaderInitDelivery, PTL DEF LoaderSpec

\* The BIOS reads the stream's words in order, each once.
THEOREM WordsInOrder == LoaderSpec => []InOrder
BY DeliveryInvariant, PTL DEF DeliveryInv

\* An RX_READY the BIOS has seen is still good when it reads RX.
THEOREM SeenReadyIsGood == LoaderSpec => []SeenReadyHolds
BY DeliveryInvariant, PTL DEF DeliveryInv

\* uart_clock never finds RX_FINISHED latched for a word nobody read.
THEOREM NeverStale == LoaderSpec => []NoStaleFinish
<1>1. DeliveryInv => NoStaleFinish
  BY DEF DeliveryInv, FinishedOnlyAfterRead, NoStaleFinish
<1> QED BY <1>1, DeliveryInvariant, PTL
-----------------------------------------------------------------------------
\* The labels between bios_entry and the first word of the program.
Starting == {"poll_uart", "test_uart", "load_program", "status"}

\* r3 and r6 advance together, and what was read is what memory holds.
LoadInv ==
  /\ r3 \in Nat /\ r6 \in Nat /\ r7 \in Nat
  /\ mem \in [Addr -> Nat]
  /\ pc \in Starting => r6 = 0
  /\ pc \in Starting \cup Loading => r3 = r6
  /\ pc \in Loading => r6 + Pending =< Len(got)
  /\ pc = "store_word" => r7 = got[Len(got)]
  /\ LoadedPrefix

LEMMA ScribbleType ==
  ASSUME mem \in [Addr -> Nat]
  PROVE  /\ StackScribbled \in [Addr -> Nat]
         /\ \A a \in 0..(StackTop - StackDepth - 1) : StackScribbled[a] = mem[a]
BY StackAssumption DEF StackScribbled, Addr

\* A step that keeps what was read and counted, and scribbles on the stack at
\* most, keeps the prefix.
LEMMA SameWordsKeepLoad ==
  ASSUME LoadInv, got \in Seq(Nat), UNCHANGED <<r3, r6, r7, got>>,
         mem' = mem \/ mem' = StackScribbled,
         pc \in Loading, pc' \in Loading, pc # "store_word", pc' # "store_word"
  PROVE  LoadInv'
<1>1. /\ mem' \in [Addr -> Nat]
      /\ \A a \in 0..(StackTop - StackDepth - 1) : mem'[a] = mem[a]
  BY ScribbleType DEF LoadInv
<1>2. Pending = 0 /\ Pending' = 0 /\ Len(got) \in Nat /\ r6 \in Nat
  BY DEF Pending, LoadInv
<1>3. LoadedPrefix'
  <2> SUFFICES ASSUME r6' =< StackTop - StackDepth, NEW a \in 0..(r6' - 1)
               PROVE  mem'[a] = got'[Len(got') - Pending' - r6' + a + 1]
    BY DEF LoadedPrefix
  <2>1. a \in 0..(StackTop - StackDepth - 1) /\ r6 =< StackTop - StackDepth
    BY <1>2, StackAssumption
  <2>2. mem[a] = got[Len(got) - Pending - r6 + a + 1]
    BY <2>1 DEF LoadInv, LoadedPrefix
  <2> QED BY <1>1, <1>2, <2>1, <2>2
<1> QED BY <1>1, <1>2, <1>3 DEF LoadInv, Starting, Loading

\* A step outside the loop, where no word has been counted.
LEMMA EmptyLoad ==
  ASSUME r3' = 0, r6' = 0, r7' \in Nat, mem' \in [Addr -> Nat],
         got' \in Seq(Nat), pc' # "store_word"
  PROVE  LoadInv'
<1>1. Pending' = 0 /\ Len(got') \in Nat
  BY DEF Pending
<1> QED BY <1>1 DEF LoadInv, LoadedPrefix

LEMMA ProgramKeepsLoad ==
  ASSUME LoadInv, UNCHANGED <<r3, r6, r7, mem>>, pc' \in {"program", "bios_entry"}
  PROVE  LoadInv'
BY DEF LoadInv, LoadedPrefix, Starting, Loading

LEMMA UnchangedKeepsLoad ==
  ASSUME LoadInv, UNCHANGED <<pc, r3, r6, r7, mem, got>>
  PROVE  LoadInv'
BY DEF LoadInv, LoadedPrefix, Pending

LEMMA ReadWordKeepsLoad ==
  ASSUME LoadInv, DeliveryInv, ReadWord
  PROVE  LoadInv'
<1>1. BigEndian(rx) \in Nat /\ got \in Seq(Nat)
  BY BigEndianNat DEF DeliveryInv, LoaderDevice, DeviceInv, TypeOK
<1>2. /\ got' = Append(got, BigEndian(rx)) /\ r7' = BigEndian(rx)
      /\ UNCHANGED <<r3, r6, mem>> /\ pc = "read_word" /\ pc' = "store_word"
  BY DEF ReadWord, Exec
<1>3. Pending = 0 /\ Pending' = 1 /\ r6 \in Nat /\ Len(got) \in Nat
      /\ Len(got') = Len(got) + 1 /\ got'[Len(got')] = BigEndian(rx)
      /\ \A k \in 1..Len(got) : got'[k] = got[k]
  BY <1>1, <1>2 DEF Pending, LoadInv
<1>4. r6 =< Len(got)
  BY <1>2, <1>3 DEF LoadInv, Loading
<1>5. LoadedPrefix'
  <2> SUFFICES ASSUME r6' =< StackTop - StackDepth, NEW a \in 0..(r6' - 1)
               PROVE  mem'[a] = got'[Len(got') - Pending' - r6' + a + 1]
    BY DEF LoadedPrefix
  <2>1. /\ Len(got) - Pending - r6 + a + 1 \in 1..Len(got)
        /\ Len(got') - Pending' - r6' + a + 1 = Len(got) - Pending - r6 + a + 1
    BY <1>2, <1>3, <1>4
  <2>2. mem[a] = got[Len(got) - Pending - r6 + a + 1]
    BY <1>2 DEF LoadInv, LoadedPrefix, Loading
  <2> QED BY <1>2, <1>3, <2>1, <2>2
<1> QED BY <1>1, <1>2, <1>3, <1>4, <1>5 DEF LoadInv, Starting, Loading

LEMMA StoreWordKeepsLoad ==
  ASSUME LoadInv, got \in Seq(Nat), StoreWord
  PROVE  LoadInv'
<1>1. /\ mem' = [mem EXCEPT ![r3] = r7] /\ r3' = r3 + 1 /\ r6' = r6 + 1
      /\ UNCHANGED <<r7, got>> /\ pc = "store_word" /\ pc' = "update_uart_status"
  BY DEF StoreWord, Exec
<1>2. /\ Pending = 1 /\ Pending' = 0 /\ r6 \in Nat /\ r3 = r6 /\ r7 \in Nat
      /\ Len(got) \in Nat /\ r6 + 1 =< Len(got) /\ r7 = got[Len(got)]
      /\ mem \in [Addr -> Nat]
  BY <1>1 DEF Pending, LoadInv, Loading
<1>3. mem' \in [Addr -> Nat]
  BY <1>1, <1>2
<1>4. LoadedPrefix'
  <2> SUFFICES ASSUME r6' =< StackTop - StackDepth, NEW a \in 0..(r6' - 1)
               PROVE  mem'[a] = got'[Len(got') - Pending' - r6' + a + 1]
    BY DEF LoadedPrefix
  <2>0. Len(got') - Pending' - r6' + a + 1 = Len(got) - Pending - r6 + a + 1
    BY <1>1, <1>2
  <2>1. a \in Addr /\ r6 \in Addr
    BY <1>1, <1>2, StackAssumption DEF Addr
  <2>2. CASE a = r6
    <3>1. Len(got) - Pending - r6 + a + 1 = Len(got)
      BY <1>2, <2>2
    <3> QED BY <1>1, <1>2, <2>0, <2>1, <2>2, <3>1
  <2>3. CASE a # r6
    <3>1. a \in 0..(r6 - 1) /\ r6 =< StackTop - StackDepth
      BY <1>1, <1>2, <2>3, StackAssumption
    <3>2. mem[a] = got[Len(got) - Pending - r6 + a + 1]
      BY <1>1, <3>1 DEF LoadInv, LoadedPrefix, Loading
    <3> QED BY <1>1, <1>2, <2>0, <2>1, <2>3, <3>2
  <2> QED BY <2>2, <2>3
<1> QED BY <1>1, <1>2, <1>3, <1>4 DEF LoadInv, Starting, Loading

LEMMA CpuKeepsLoad == LoadInv /\ DeliveryInv /\ CpuClock => LoadInv'
<1> SUFFICES ASSUME LoadInv, DeliveryInv, CpuClock PROVE LoadInv'
  OBVIOUS
<1> USE DEF Exec, regs
<1>0. /\ got \in Seq(Nat) /\ mem \in [Addr -> Nat] /\ r7 \in Nat
      /\ StackScribbled \in [Addr -> Nat] /\ BigEndian(rx) \in Nat
  BY ScribbleType, BigEndianNat
     DEF LoadInv, DeliveryInv, LoaderDevice, DeviceInv, TypeOK
<1>a. pc \in Starting => r3 = 0 /\ r6 = 0
  BY DEF LoadInv
<1>1. CASE Stall
  BY <1>1, UnchangedKeepsLoad DEF Stall
<1>2. CASE BiosEntry
  BY <1>0, <1>2, EmptyLoad DEF BiosEntry
<1>3. CASE PollUart("poll_uart", "test_uart")
  BY <1>0, <1>a, <1>3, EmptyLoad DEF PollUart, Starting
<1>4. CASE TestUart("test_uart", "poll_uart", "load_program")
  BY <1>0, <1>a, <1>4, EmptyLoad DEF TestUart, Starting
<1>5. CASE LoadProgram
  BY <1>0, <1>a, <1>5, EmptyLoad DEF LoadProgram, Starting
<1>6. CASE Status
  BY <1>0, <1>a, <1>6, EmptyLoad DEF Status, Starting
<1>7. CASE PollUart("poll_word", "test_word")
  BY <1>0, <1>7, SameWordsKeepLoad DEF PollUart, Loading
<1>8. CASE TestUart("test_word", "poll_word", "read_word")
  BY <1>0, <1>8, SameWordsKeepLoad DEF TestUart, Loading
<1>9. CASE ReadWord
  BY <1>9, ReadWordKeepsLoad
<1>10. CASE StoreWord
  BY <1>0, <1>10, StoreWordKeepsLoad
<1>11. CASE UpdateUartStatus
  BY <1>0, <1>11, SameWordsKeepLoad DEF UpdateUartStatus, Loading
<1>12. CASE MoreWords
  BY <1>0, <1>12, SameWordsKeepLoad DEF MoreWords, Loading
<1>13. CASE Enter
  <2>1. /\ pc = "enter" /\ pc' = "program" /\ mem' = StackScribbled
        /\ UNCHANGED <<r3, r6, r7>>
    BY <1>13 DEF Enter
  <2> QED BY <1>0, <2>1 DEF LoadInv, LoadedPrefix, Starting, Loading
<1>14. CASE Program
  BY <1>14, ProgramKeepsLoad DEF Program
<1> QED BY <1>1, <1>2, <1>3, <1>4, <1>5, <1>6, <1>7, <1>8, <1>9, <1>10,
           <1>11, <1>12, <1>13, <1>14 DEF CpuClock

\* What LoadedPrefix needs of the registers holds throughout.
THEOREM LoadInvariant == LoaderSpec => []LoadInv
<1>1. LoaderInit => LoadInv
  BY StackAssumption
     DEF LoaderInit, LoadInv, LoadedPrefix, Starting, Loading, Pending
<1>2. DeliveryInv /\ LoadInv /\ [LoaderNext]_allVars => LoadInv'
  <2> SUFFICES ASSUME DeliveryInv, LoadInv, [LoaderNext]_allVars PROVE LoadInv'
    OBVIOUS
  <2>1. CASE CpuClock
    BY <2>1, CpuKeepsLoad
  <2>2. CASE UNCHANGED loaderVars
    BY <2>2, UnchangedKeepsLoad DEF loaderVars, regs
  <2>3. UNCHANGED allVars => UNCHANGED loaderVars
    BY DEF allVars
  <2> QED BY <2>1, <2>2, <2>3 DEF LoaderNext, SystemClock
<1> QED BY <1>1, <1>2, DeliveryInvariant, PTL DEF LoaderSpec

\* What the BIOS has received of a program is in memory, in order from 0, for
\* every program short of the stack the loader itself uses.
THEOREM LoadedPrefixHolds == LoaderSpec => []LoadedPrefix
<1>1. LoadInv => LoadedPrefix
  BY DEF LoadInv
<1> QED BY <1>1, LoadInvariant, PTL

-----------------------------------------------------------------------------
\* Every step of the loader is a step of the word channel or a stutter of it.
LEMMA StepRefines ==
  ASSUME DeliveryInv, [LoaderNext]_allVars
  PROVE  [Channel!Next]_<<written \div 4, got>>
<1> USE DEF Exec
<1>0. /\ Len(got) \in Nat /\ written \in Int /\ taken \in Int /\ taken =< written
      /\ (ready <=> offset = 4) /\ offset \in Int
  BY StreamLength DEF DeliveryInv, LoaderDevice, DeviceInv, TypeOK
<1>1. CASE HostWrite /\ UNCHANGED loaderVars
  <2>1. written' = written + 1 /\ got' = got
    BY <1>1 DEF HostWrite, loaderVars
  <2>2. written' \div 4 = written \div 4 \/ written' \div 4 = (written \div 4) + 1
    BY <1>0, <2>1
  <2> QED BY <2>1, <2>2 DEF Channel!Next, Channel!Send
<1>2. ASSUME pc \in {"load_program", "read_word"},
             got' = Append(got, BigEndian(rx)), written' = written
      PROVE  Channel!Next
  <2>1. ready /\ ~finished
    BY <1>2 DEF DeliveryInv, SeenReadyHolds
  <2>2. BigEndian(rx) = WordAt(Len(got))
    BY <2>1, NextWord
  <2>3. taken = 4 * Len(got) + 4
    BY <1>0, <2>1 DEF DeliveryInv, WordsAccounted
  <2>4. Len(got) < written \div 4
    BY <1>0, <2>3
  <2> QED BY <1>2, <2>2, <2>4 DEF Channel!Next, Channel!Receive
<1>3. CASE LoadProgram \/ ReadWord
  BY <1>2, <1>3 DEF LoadProgram, ReadWord, ReadRx
<1>4. ASSUME written' = written, got' = got
      PROVE  UNCHANGED <<written \div 4, got>>
  BY <1>4
<1>5. CASE CpuClock /\ ~(LoadProgram \/ ReadWord)
  BY <1>4, <1>5
     DEF CpuClock, Stall, BiosEntry, PollUart, TestUart, Status, StoreWord,
         UpdateUartStatus, MoreWords, Enter, Program, uartVars
<1>6. CASE UartClock /\ UNCHANGED loaderVars
  BY <1>4, <1>6 DEF UartClock, ReceiveByte, ReleaseWord, UartIdle, uartVars,
                    loaderVars
<1>7. CASE UNCHANGED allVars
  BY <1>4, <1>7 DEF allVars, vars, uartVars, loaderVars
<1> QED BY <1>1, <1>3, <1>5, <1>6, <1>7 DEF LoaderNext, SystemClock

\* Host, pipe, UART and BIOS implement the channel of words.
THEOREM ImplementsWordChannel == LoaderSpec => DeliversWords
<1>1. LoaderInit => Channel!Init
  BY DEF LoaderInit, Init, Channel!Init
<1> QED BY <1>1, StepRefines, DeliveryInvariant, PTL
        DEF LoaderSpec, DeliversWords, Channel!Spec

-----------------------------------------------------------------------------
(***************************************************************************)
(* Where the packets are in the stream.  FlattenSeq is recursive: what it  *)
(* returns is proved by induction over a set of numbers.                   *)
(***************************************************************************)
LEMMA LessIsWellFounded == IsWellFoundedOn({p \in Nat \X Nat : p[1] < p[2]}, Nat)
BY NatLessThanWellFounded DEF OpToRel

LEMMA NatSetInduction ==
  ASSUME NEW S, 0 \in S, \A n \in Nat : n \in S => n + 1 \in S
  PROVE  Nat \subseteq S
<1> DEFINE R == {p \in Nat \X Nat : p[1] < p[2]}
           T == Nat \ S
<1>1. IsWellFoundedOn(R, Nat)
  BY LessIsWellFounded
<1> HIDE DEF R
<1>2. ASSUME T # {} PROVE FALSE
  <2>1. PICK x \in T : \A y \in T : ~(<<y, x>> \in R)
    BY <1>1, <1>2, WFMin
  <2>2. x \in Nat /\ x # 0 /\ x - 1 \in Nat
    BY <2>1
  <2>3. <<x - 1, x>> \in R
    BY <2>2 DEF R
  <2>4. x - 1 \notin T
    BY <2>1, <2>3
  <2> QED BY <2>1, <2>2, <2>4
<1> QED BY <1>2

\* What the first sequences of seqs are together: f[i] is the first i of them.
Joins(f, seqs, n) ==
  f = [i \in 1..n |-> IF i = 1 THEN seqs[i] ELSE f[i - 1] \o seqs[i]]

LEMMA JoinsExist ==
  ASSUME NEW seqs
  PROVE  \A n \in Nat : \E f : Joins(f, seqs, n)
<1> DEFINE S == {n \in Nat : \E f : Joins(f, seqs, n)}
<1>1. 0 \in S
  <2> DEFINE f == [i \in 1..0 |-> 0]
  <2>1. Joins(f, seqs, 0)
    BY DEF Joins
  <2> QED BY <2>1
<1>2. ASSUME NEW n \in Nat, n \in S PROVE n + 1 \in S
  <2>1. PICK f : Joins(f, seqs, n)
    BY <1>2
  <2> DEFINE g == [i \in 1..(n + 1) |-> IF i \in 1..n THEN f[i]
                     ELSE IF i = 1 THEN seqs[i] ELSE f[i - 1] \o seqs[i]]
             h == [i \in 1..(n + 1) |-> IF i = 1 THEN seqs[i] ELSE g[i - 1] \o seqs[i]]
  <2>2. ASSUME NEW i \in 1..(n + 1) PROVE g[i] = h[i]
    <3>1. i # 1 => i - 1 \in 1..n
      OBVIOUS
    <3>2. i # 1 => g[i - 1] = f[i - 1]
      BY <3>1
    <3>3. h[i] = IF i = 1 THEN seqs[i] ELSE f[i - 1] \o seqs[i]
      BY <3>2
    <3>4. CASE i \in 1..n
      <4>1. f[i] = IF i = 1 THEN seqs[i] ELSE f[i - 1] \o seqs[i]
        BY <2>1, <3>4 DEF Joins
      <4> QED BY <3>3, <3>4, <4>1
    <3>5. CASE i \notin 1..n
      BY <3>3, <3>5
    <3> QED BY <3>4, <3>5
  <2>3. g = h
    BY <2>2
  <2>4. Joins(g, seqs, n + 1)
    <3> HIDE DEF g
    <3> QED BY <2>3 DEF Joins
  <2> QED BY <2>4
<1> HIDE DEF S
<1>3. Nat \subseteq S
  BY <1>1, <1>2, NatSetInduction
<1> QED BY <1>3 DEF S

LEMMA FlattenIsJoin ==
  ASSUME NEW seqs, Len(seqs) \in Nat \ {0}
  PROVE  \E f : Joins(f, seqs, Len(seqs)) /\ FlattenSeq(seqs) = f[Len(seqs)]
<1> DEFINE F == CHOOSE f : f = [i \in 1..Len(seqs) |-> IF i = 1 THEN seqs[i]
                                                       ELSE f[i - 1] \o seqs[i]]
<1>1. Joins(F, seqs, Len(seqs))
  <2>1. \E f : f = [i \in 1..Len(seqs) |-> IF i = 1 THEN seqs[i] ELSE f[i - 1] \o seqs[i]]
    BY JoinsExist DEF Joins
  <2> QED BY <2>1 DEF Joins
<1>2. FlattenSeq(seqs) = F[Len(seqs)]
  BY DEF FlattenSeq
<1> QED BY <1>1, <1>2

-----------------------------------------------------------------------------
Packets  == [p \in DOMAIN Programs |-> Packet(Programs[p])]
Count(p) == Len(Padded(Programs[p])) \div 4

LEMMA PaddedWords ==
  ASSUME NEW blob \in Seq(Byte)
  PROVE  /\ Padded(blob) \in Seq(Byte)
         /\ Len(Padded(blob)) \div 4 \in Nat \ {0}
         /\ 4 * (Len(Padded(blob)) \div 4) = Len(Padded(blob))
<1> DEFINE zeros == [i \in 1..(4 - (Len(blob) % 4)) |-> 0]
           short == 4 - (Len(blob) % 4)
<1>1. Len(blob) \in Nat /\ short \in Nat /\ short > 0 /\ (Len(blob) + short) % 4 = 0
  OBVIOUS
<1>2. zeros \in Seq(Byte) /\ Len(zeros) = short
  <2> HIDE DEF short
  <2>1. zeros = [i \in 1..short |-> 0]
    BY DEF short
  <2> QED BY <1>1, <2>1 DEF Byte
<1>3. Padded(blob) \in Seq(Byte) /\ Len(Padded(blob)) = Len(blob) + short
  <2> HIDE DEF zeros, short
  <2>1. Padded(blob) = blob \o zeros
    BY DEF Padded, zeros
  <2> QED BY <1>2, <2>1, ConcatProperties
<1> HIDE DEF short
<1> QED BY <1>1, <1>3

LEMMA BytesAreInts ==
  ASSUME NEW s \in Seq(Byte) PROVE s \in Seq(Int)
<1>1. Byte \subseteq Int
  BY DEF Byte
<1> QED BY <1>1, SeqMonotonic

\* Concatenation as the two places an element can come from.
LEMMA JoinedAt ==
  ASSUME NEW s \in Seq(Int), NEW t \in Seq(Int)
  PROVE  /\ s \o t \in Seq(Int)
         /\ Len(s \o t) = Len(s) + Len(t)
         /\ \A j \in 1..Len(s) : (s \o t)[j] = s[j]
         /\ \A j \in 1..Len(t) : (s \o t)[Len(s) + j] = t[j]
<1>1. /\ s \o t \in Seq(Int) /\ Len(s \o t) = Len(s) + Len(t)
      /\ \A i \in 1..(Len(s) + Len(t)) :
            (s \o t)[i] = IF i =< Len(s) THEN s[i] ELSE t[i - Len(s)]
  BY ConcatProperties
<1>2. Len(s) \in Nat /\ Len(t) \in Nat
  OBVIOUS
<1>3. ASSUME NEW j \in 1..Len(s) PROVE (s \o t)[j] = s[j]
  BY <1>1, <1>2, <1>3
<1>4. ASSUME NEW j \in 1..Len(t) PROVE (s \o t)[Len(s) + j] = t[j]
  <2>1. Len(s) + j \in 1..(Len(s) + Len(t)) /\ ~(Len(s) + j =< Len(s))
    BY <1>2
  <2>2. (Len(s) + j) - Len(s) = j
    BY <1>2
  <2> QED BY <1>1, <2>1, <2>2
<1> QED BY <1>1, <1>3, <1>4

LEMMA PacketWords ==
  ASSUME NEW p \in DOMAIN Programs
  PROVE  /\ Packet(Programs[p]) \in Seq(Int)
         /\ Count(p) \in Nat \ {0}
         /\ Len(Packet(Programs[p])) = 4 * (Count(p) + 1)
         /\ \A j \in 1..4 : Packet(Programs[p])[j] = Header(Count(p))[j]
         /\ \A j \in 1..(4 * Count(p)) :
               Packet(Programs[p])[4 + j] = Padded(Programs[p])[j]
<1> DEFINE padded == Padded(Programs[p])
           header == Header(Count(p))
<1>1. Programs[p] \in Seq(Byte)
  BY ProgramsAssumption
<1>2. /\ padded \in Seq(Byte) /\ Count(p) \in Nat \ {0} /\ 4 * Count(p) = Len(padded)
  BY <1>1, PaddedWords DEF Count
<1>3. padded \in Seq(Int)
  BY <1>2, BytesAreInts
<1>4. header \in Seq(Int) /\ Len(header) = 4
  BY <1>2 DEF Header
<1>5. Packet(Programs[p]) = header \o padded
  BY DEF Packet, Count
<1> HIDE DEF padded, header
<1>6. /\ header \o padded \in Seq(Int)
      /\ Len(header \o padded) = 4 * (Count(p) + 1)
      /\ \A j \in 1..4 : (header \o padded)[j] = header[j]
      /\ \A j \in 1..(4 * Count(p)) : (header \o padded)[4 + j] = padded[j]
  <2>1. /\ header \o padded \in Seq(Int)
        /\ Len(header \o padded) = 4 + 4 * Count(p)
        /\ \A j \in 1..4 : (header \o padded)[j] = header[j]
        /\ \A j \in 1..Len(padded) : (header \o padded)[4 + j] = padded[j]
    <3>1. /\ header \o padded \in Seq(Int)
          /\ Len(header \o padded) = Len(header) + Len(padded)
          /\ \A j \in 1..Len(header) : (header \o padded)[j] = header[j]
          /\ \A j \in 1..Len(padded) :
                (header \o padded)[Len(header) + j] = padded[j]
      BY <1>3, <1>4, JoinedAt
    <3> QED BY <1>2, <1>4, <3>1
  <2>2. 4 + 4 * Count(p) = 4 * (Count(p) + 1)
    BY <1>2
  <2> QED BY <1>2, <2>1, <2>2
<1> QED BY <1>2, <1>5, <1>6 DEF padded, header

\* at[p] is the word of s at which packet p begins, for the first m packets.
Placed(at, m, s) ==
  /\ s \in Seq(Int)
  /\ at \in [1..(m + 1) -> Nat]
  /\ at[1] = 0
  /\ 4 * at[m + 1] = Len(s)
  /\ \A p \in 1..m :
       /\ at[p + 1] = at[p] + Count(p) + 1
       /\ 4 * at[p + 1] =< Len(s)
       /\ \A j \in 1..(4 * (Count(p) + 1)) :
             s[4 * at[p] + j] = Packet(Programs[p])[j]

LEMMA PlaceNext ==
  ASSUME NEW m \in Nat, m + 1 \in DOMAIN Programs, NEW s, NEW at, Placed(at, m, s)
  PROVE  \E next : Placed(next, m + 1, s \o Packet(Programs[m + 1]))
<1> DEFINE packet == Packet(Programs[m + 1])
           n      == Count(m + 1)
           next   == [p \in 1..(m + 2) |-> IF p = m + 2 THEN at[m + 1] + n + 1
                                                        ELSE at[p]]
           t      == s \o packet
<1>1. packet \in Seq(Int) /\ n \in Nat /\ Len(packet) = 4 * (n + 1)
  BY PacketWords
<1>2. /\ s \in Seq(Int) /\ at \in [1..(m + 1) -> Nat] /\ 4 * at[m + 1] = Len(s)
      /\ at[m + 1] \in Nat /\ Len(s) \in Nat
  BY DEF Placed
<1> HIDE DEF n, packet
<1>3. /\ t \in Seq(Int) /\ Len(t) = Len(s) + Len(packet)
      /\ \A j \in 1..Len(s) : t[j] = s[j]
      /\ \A j \in 1..Len(packet) : t[Len(s) + j] = packet[j]
  BY <1>1, <1>2, JoinedAt
<1> HIDE DEF t
<1>4. next \in [1..(m + 2) -> Nat] /\ next[m + 2] = at[m + 1] + n + 1
      /\ \A p \in 1..(m + 1) : next[p] = at[p]
  BY <1>1, <1>2
<1> HIDE DEF next
<1>5. 4 * next[m + 2] = Len(t)
  <2>1. Len(t) = 4 * at[m + 1] + 4 * (n + 1)
    BY <1>1, <1>2, <1>3
  <2> QED BY <1>1, <1>2, <1>4, <2>1
<1>6. ASSUME NEW p \in 1..(m + 1)
      PROVE  /\ next[p + 1] = next[p] + Count(p) + 1
             /\ 4 * next[p + 1] =< Len(t)
             /\ \A j \in 1..(4 * (Count(p) + 1)) :
                   t[4 * next[p] + j] = Packet(Programs[p])[j]
  <2>1. CASE p = m + 1
    <3>1. next[p] = at[m + 1] /\ Count(p) = n /\ Packet(Programs[p]) = packet
      BY <1>4, <2>1 DEF n, packet
    <3>2. next[p + 1] = next[p] + n + 1 /\ 4 * next[p] = Len(s)
      BY <1>2, <1>4, <2>1, <3>1
    <3>3. 4 * next[p + 1] =< Len(t)
      BY <1>5, <1>2, <1>4, <2>1, <1>1
    <3>4. \A j \in 1..(4 * (n + 1)) : t[4 * next[p] + j] = packet[j]
      BY <1>1, <1>3, <3>2
    <3> QED BY <3>1, <3>2, <3>3, <3>4
  <2>2. CASE p \in 1..m
    <3>1. /\ at[p + 1] = at[p] + Count(p) + 1 /\ 4 * at[p + 1] =< Len(s)
          /\ \A j \in 1..(4 * (Count(p) + 1)) :
                s[4 * at[p] + j] = Packet(Programs[p])[j]
      BY <2>2 DEF Placed
    <3>2. next[p] = at[p] /\ next[p + 1] = at[p + 1] /\ at[p] \in Nat
      BY <1>2, <1>4, <2>2
    <3>3. p \in DOMAIN Programs
      BY <2>2, ProgramsAssumption
    <3>4. Count(p) \in Nat
      BY <3>3, PacketWords
    <3>5. 4 * next[p + 1] =< Len(t)
      <4>1. Len(s) =< Len(t)
        BY <1>1, <1>2, <1>3
      <4>2. next[p + 1] \in Nat
        BY <1>4
      <4> QED BY <1>2, <1>3, <3>1, <3>2, <4>1, <4>2
    <3>6. ASSUME NEW j \in 1..(4 * (Count(p) + 1))
          PROVE  t[4 * next[p] + j] = Packet(Programs[p])[j]
      <4>1. 4 * at[p] + j \in 1..Len(s)
        <5>1. 4 * at[p] + j \in Nat \ {0} /\ 4 * at[p] + j =< 4 * (at[p] + Count(p) + 1)
          BY <3>2, <3>4
        <5>2. 4 * (at[p] + Count(p) + 1) =< Len(s)
          BY <3>1
        <5>3. Len(s) \in Nat
          BY <1>2
        <5> HIDE DEF Count
        <5> QED BY <3>2, <3>4, <5>1, <5>2, <5>3
      <4> QED BY <1>3, <3>1, <3>2, <4>1
    <3> QED BY <3>1, <3>2, <3>5, <3>6
  <2> QED BY <2>1, <2>2
<1>7. next[1] = 0
  BY <1>4 DEF Placed
<1>8. (m + 1) + 1 = m + 2
  OBVIOUS
<1>9. Placed(next, m + 1, t)
  BY <1>3, <1>4, <1>5, <1>6, <1>7, <1>8 DEF Placed
<1> QED BY <1>9 DEF t, packet

LEMMA FlattenEmpty == FlattenSeq(<<>>) = <<>>
BY SMT DEF FlattenSeq

LEMMA ProgramsPlaced == \E at : Placed(at, Len(Programs), Stream)
<1> DEFINE n == Len(Programs)
<1>1. n \in Nat /\ DOMAIN Programs = 1..n
  BY ProgramsAssumption
<1>2. Stream = FlattenSeq(Packets) /\ Len(Packets) = n
  <2>1. Packets \in [1..n -> {Packet(Programs[p]) : p \in 1..n}]
    BY <1>1 DEF Packets
  <2>2. DOMAIN Packets = 1..n
    BY <2>1
  <2> HIDE DEF Packets, n
  <2>3. Packets \in Seq({Packet(Programs[p]) : p \in 1..n})
    BY <1>1, <2>1, SeqDef, Zenon
  <2>4. Len(Packets) = n
    BY <1>1, <2>2, <2>3
  <2> QED BY <2>4, ProgramsAssumption DEF Packets
<1> HIDE DEF n
<1>3. Placed([p \in 1..1 |-> 0], 0, <<>>)
  BY DEF Placed
<1>4. CASE n = 0
  <2>1. Stream = <<>>
    <3>1. Packets = <<>>
      BY <1>1, <1>4 DEF Packets
    <3> QED BY <1>2, <1>4, <3>1, FlattenEmpty
  <2> QED BY <1>3, <1>4, <2>1 DEF n
<1>5. CASE n # 0
  <2>1. PICK f : Joins(f, Packets, n) /\ Stream = f[n]
    BY <1>1, <1>2, <1>5, FlattenIsJoin
  <2> DEFINE front == [m \in 0..n |-> IF m = 0 THEN <<>> ELSE f[m]]
             S == {m \in Nat : m =< n => \E at : Placed(at, m, front[m])}
  <2>0. front[0] = <<>> /\ \A m \in 1..n : front[m] = f[m]
    BY <1>1
  <2> HIDE DEF front
  <2>2. 0 \in S
    BY <1>3, <2>0
  <2>3. ASSUME NEW m \in Nat, m \in S PROVE m + 1 \in S
    <3> SUFFICES ASSUME m + 1 =< n PROVE \E at : Placed(at, m + 1, front[m + 1])
      OBVIOUS
    <3>1. PICK at : Placed(at, m, front[m])
      <4>1. m =< n
        BY <1>1
      <4> QED BY <2>3, <4>1
    <3>2. m + 1 \in DOMAIN Programs
      BY <1>1
    <3>3. PICK next : Placed(next, m + 1, front[m] \o Packet(Programs[m + 1]))
      BY <3>1, <3>2, PlaceNext
    <3>4. front[m + 1] = f[m + 1]
      BY <1>1, <2>0
    <3>5. f[m + 1] = front[m] \o Packet(Programs[m + 1])
      <4>1. Packets[m + 1] = Packet(Programs[m + 1])
        BY <3>2 DEF Packets
      <4>2. f[m + 1] = IF m + 1 = 1 THEN Packets[m + 1]
                                    ELSE f[m + 1 - 1] \o Packets[m + 1]
        <5> DEFINE F == [i \in 1..n |-> IF i = 1 THEN Packets[i]
                                               ELSE f[i - 1] \o Packets[i]]
        <5>1. f = F
          BY <2>1 DEF Joins
        <5>2. m + 1 \in 1..n
          BY <1>1
        <5>3. F[m + 1] = IF m + 1 = 1 THEN Packets[m + 1]
                                      ELSE f[m + 1 - 1] \o Packets[m + 1]
          BY <5>2
        <5> HIDE DEF F
        <5> QED BY <5>1, <5>3
      <4>3. CASE m = 0
        <5>1. Packet(Programs[m + 1]) \in Seq(Int)
          BY <3>2, PacketWords
        <5>2. <<>> \o Packet(Programs[m + 1]) = Packet(Programs[m + 1])
          BY <5>1, ConcatEmptySeq
        <5>3. m + 1 = 1
          BY <4>3
        <5>4. f[m + 1] = Packet(Programs[m + 1])
          BY <4>1, <4>2, <5>3
        <5>5. front[m] = <<>>
          BY <2>0, <4>3
        <5> QED BY <5>2, <5>4, <5>5
      <4>4. CASE m # 0
        <5>1. m + 1 # 1 /\ m + 1 - 1 = m
          BY <4>4
        <5>2. front[m] = f[m]
          BY <1>1, <2>0, <4>4
        <5> QED BY <4>1, <4>2, <5>1, <5>2
      <4> QED BY <4>3, <4>4
    <3> QED BY <3>3, <3>4, <3>5
  <2> HIDE DEF S
  <2>4. Nat \subseteq S
    BY <2>2, <2>3, NatSetInduction
  <2>5. \E at : Placed(at, n, front[n])
    <3>1. n \in S
      BY <1>1, <2>4
    <3> QED BY <1>1, <3>1 DEF S
  <2>6. front[n] = f[n]
    BY <1>1, <1>5, <2>0
  <2> QED BY <2>1, <2>5, <2>6 DEF n
<1> QED BY <1>4, <1>5

\* The word of the stream at which each packet begins, and where the last ends.
Start == CHOOSE at : Placed(at, Len(Programs), Stream)

LEMMA StartPlaced ==
  /\ Len(Programs) \in Nat /\ DOMAIN Programs = 1..Len(Programs)
  /\ Start \in [1..(Len(Programs) + 1) -> Nat]
  /\ Start[1] = 0
  /\ 4 * Start[Len(Programs) + 1] = Len(Stream)
  /\ \A p \in 1..Len(Programs) :
       /\ Count(p) \in Nat \ {0}
       /\ Start[p] \in Nat
       /\ Start[p + 1] = Start[p] + Count(p) + 1
       /\ \A j \in 1..(4 * (Count(p) + 1)) :
             Stream[4 * Start[p] + j] = Packet(Programs[p])[j]
<1>1. Len(Programs) \in Nat /\ DOMAIN Programs = 1..Len(Programs)
  BY ProgramsAssumption
<1>2. Placed(Start, Len(Programs), Stream)
  BY ProgramsPlaced DEF Start
<1>3. \A p \in 1..Len(Programs) : Count(p) \in Nat \ {0}
  BY <1>1, PacketWords
<1>4. Start \in [1..(Len(Programs) + 1) -> Nat]
  BY <1>2 DEF Placed
<1>5. \A p \in 1..Len(Programs) : Start[p] \in Nat
  BY <1>1, <1>4
<1>6. Start[1] = 0 /\ 4 * Start[Len(Programs) + 1] = Len(Stream)
  BY <1>2 DEF Placed
<1>7. \A p \in 1..Len(Programs) :
       /\ Start[p + 1] = Start[p] + Count(p) + 1
       /\ \A j \in 1..(4 * (Count(p) + 1)) :
             Stream[4 * Start[p] + j] = Packet(Programs[p])[j]
  BY <1>2, Zenon DEF Placed
<1> QED BY <1>1, <1>3, <1>4, <1>5, <1>6, <1>7

LEMMA PacketPlaces ==
  ASSUME NEW n \in Nat, NEW s \in Nat, NEW a \in 0..(n - 1), NEW i \in 0..3
  PROVE  /\ 4 * a + i + 1 \in 1..(4 * n)
         /\ 4 + (4 * a + i + 1) \in 1..(4 * (n + 1))
         /\ 4 * (s + 1 + a) + i + 1 = 4 * s + (4 + (4 * a + i + 1))
OBVIOUS

LEMMA HeaderValue ==
  ASSUME NEW n \in Nat
  PROVE  \E d \in Nat, m \in Nat : d = n \div 256 /\ m = n % 256 /\ d * 256 + m = n
<1>1. PICK d \in Int, m \in Int : d = n \div 256 /\ m = n % 256
  OBVIOUS
<1>2. d * 256 + m = n /\ m \in 0..255
  BY <1>1
<1>3. d \in Nat /\ m \in Nat
  BY <1>2
<1> QED BY <1>1, <1>2, <1>3

\* A packet's first word is the count of the others, and those are the program.
LEMMA StreamIsPrograms ==
  ASSUME NEW p \in 1..Len(Programs)
  PROVE  /\ WordAt(Start[p]) = Count(p)
         /\ \A a \in 0..(Count(p) - 1) :
               WordAt(Start[p] + 1 + a) = Words(Programs[p])[a]
<1>1. p \in DOMAIN Programs /\ Count(p) \in Nat /\ Start[p] \in Nat
  BY StartPlaced
<1>2. \A j \in 1..(4 * (Count(p) + 1)) :
        Stream[4 * Start[p] + j] = Packet(Programs[p])[j]
  BY StartPlaced
<1>3. /\ \A j \in 1..4 : Packet(Programs[p])[j] = Header(Count(p))[j]
      /\ \A j \in 1..(4 * Count(p)) :
            Packet(Programs[p])[4 + j] = Padded(Programs[p])[j]
  BY <1>1, PacketWords
<1>4. DOMAIN Words(Programs[p]) = 0..(Count(p) - 1)
  BY DEF Words, Count
<1>5. \A a \in 0..(Count(p) - 1) : Words(Programs[p])[a] =
         BigEndian([i \in 0..3 |-> Padded(Programs[p])[4 * a + i + 1]])
  BY DEF Words, Count
<1> HIDE DEF Count
<1>6. WordAt(Start[p]) = Count(p)
  <2> DEFINE n == Count(p)
             s == Start[p]
             b == [i \in 0..3 |-> Stream[4 * s + i + 1]]
  <2>1. n \in Nat /\ s \in Nat
    BY <1>1
  <2>2. \A j \in 1..4 : Stream[4 * s + j] = Header(n)[j]
    <3>1. 1..4 \subseteq 1..(4 * (Count(p) + 1))
      <4> HIDE DEF n
      <4>1. 1..4 \subseteq 1..(4 * (n + 1))
        BY <2>1
      <4> QED BY <4>1 DEF n
    <3> QED BY <1>2, <1>3, <3>1
  <2> HIDE DEF n, s
  <2>3. /\ b[0] = 0 /\ b[1] = 0 /\ b[2] = n \div 256 /\ b[3] = n % 256
    <3>1. \A i \in 0..3 : b[i] = Header(n)[i + 1]
      <4> SUFFICES ASSUME NEW i \in 0..3 PROVE b[i] = Header(n)[i + 1]
        BY Zenon
      <4>1. 4 * s + i + 1 = 4 * s + (i + 1) /\ i + 1 \in 1..4
        BY <2>1
      <4> QED BY <2>2, <4>1
    <3> HIDE DEF b
    <3> QED BY <3>1 DEF Header
  <2>4. WordAt(Start[p]) = BigEndian(b)
    BY DEF WordAt, s
  <2> HIDE DEF b
  <2>5. PICK d \in Nat, m \in Nat : d = n \div 256 /\ m = n % 256 /\ d * 256 + m = n
    BY <2>1, HeaderValue
  <2>6. BigEndian(b) = n
    BY <2>3, <2>5 DEF BigEndian
  <2> QED BY <2>4, <2>6 DEF n
<1>7. ASSUME NEW a \in 0..(Count(p) - 1)
      PROVE  WordAt(Start[p] + 1 + a) = Words(Programs[p])[a]
  <2>1. ASSUME NEW i \in 0..3
        PROVE  Stream[4 * (Start[p] + 1 + a) + i + 1]
                 = Padded(Programs[p])[4 * a + i + 1]
    <3>1. /\ 4 * a + i + 1 \in 1..(4 * Count(p))
          /\ 4 + (4 * a + i + 1) \in 1..(4 * (Count(p) + 1))
          /\ 4 * (Start[p] + 1 + a) + i + 1 = 4 * Start[p] + (4 + (4 * a + i + 1))
      BY <1>1, PacketPlaces
    <3> QED BY <1>2, <1>3, <3>1
  <2> QED BY <1>5, <2>1 DEF WordAt, BigEndian
<1> QED BY <1>6, <1>7

-----------------------------------------------------------------------------
(***************************************************************************)
(* Where the BIOS is in the stream.  Before a packet it has read exactly   *)
(* the packets it has counted; within one, the header and the words it has *)
(* counted in r6 and one more between reading a word and storing it.       *)
(***************************************************************************)
BeforePacket == {"bios_entry", "poll_uart", "test_uart", "load_program"}
Expecting    == {"poll_word", "test_word", "read_word", "store_word"}

ProgramStored ==
  \A a \in 0..(r6 - 1) : mem[a] = Words(Programs[rn_cnt])[a]

PacketInv ==
  /\ rn_cnt \in 0..Len(Programs)
  /\ pc \in BeforePacket \cup {"program"} => Len(got) = Start[rn_cnt + 1]
  /\ pc = "status" => /\ rn_cnt < Len(Programs)
                      /\ Len(got) = Start[rn_cnt + 1] + 1
                      /\ r5 = Count(rn_cnt + 1)
  /\ pc \in Loading \cup {"program"} =>
       rn_cnt # 0 /\ r5 = Count(rn_cnt) /\ r6 =< r5
  /\ pc \in Loading => Len(got) = Start[rn_cnt] + 1 + r6 + Pending
  /\ pc \in Expecting => r6 < r5
  /\ pc \in {"enter", "program"} => r6 = r5
  /\ pc = "program" => ProgramStored

LEMMA UnchangedKeepsPacket ==
  ASSUME PacketInv, UNCHANGED <<pc, r5, r6, rn_cnt, mem, got>>
  PROVE  PacketInv'
BY DEF PacketInv, ProgramStored, Pending

\* A step from one label before a packet to another.
LEMMA WaitingKeepsPacket ==
  ASSUME PacketInv, UNCHANGED <<rn_cnt, got>>,
         pc \in BeforePacket \cup {"program"}, pc' \in BeforePacket
  PROVE  PacketInv'
BY DEF PacketInv, BeforePacket, Loading, Expecting

\* A step within a packet that reads and counts nothing.
LEMMA SameWordsKeepPacket ==
  ASSUME PacketInv, UNCHANGED <<r5, r6, rn_cnt, got>>,
         pc \in Loading, pc' \in Loading, pc # "store_word", pc' # "store_word",
         pc' \in Expecting => r6 < r5,
         pc' = "enter" => r6 = r5
  PROVE  PacketInv'
BY DEF PacketInv, BeforePacket, Loading, Pending

LEMMA LoadProgramKeepsPacket ==
  ASSUME PacketInv, DeliveryInv, LoadProgram
  PROVE  PacketInv'
<1>1. /\ pc = "load_program" /\ pc' = "status" /\ rn_cnt' = rn_cnt
      /\ got' = Append(got, BigEndian(rx)) /\ r5' = BigEndian(rx)
  BY DEF LoadProgram, Exec
<1>2. ready /\ ~finished
  BY <1>1 DEF DeliveryInv, SeenReadyHolds
<1>3. BigEndian(rx) = WordAt(Len(got)) /\ BigEndian(rx) \in Nat
  BY <1>2, NextWord
<1>4. got \in Seq(Nat) /\ Len(got') = Len(got) + 1
  BY <1>1, <1>3 DEF DeliveryInv, LoaderDevice
<1>5. Len(got) = Start[rn_cnt + 1] /\ rn_cnt \in 0..Len(Programs)
  BY <1>1 DEF PacketInv, BeforePacket
<1>6. rn_cnt < Len(Programs)
  <2>1. offset = 4 /\ taken - offset = 4 * Len(got) /\ taken =< Len(Stream)
        /\ taken \in Int /\ Len(Stream) \in Nat
    BY <1>2, StreamLength
       DEF DeliveryInv, LoaderDevice, DeviceInv, TypeOK, WordsAccounted
  <2>2. 4 * Len(got) < Len(Stream)
    BY <1>4, <2>1
  <2>3. ASSUME rn_cnt = Len(Programs) PROVE FALSE
    <3>1. 4 * Start[Len(Programs) + 1] = Len(Stream)
      BY StartPlaced
    <3>2. 4 * Len(got) = Len(Stream)
      BY <1>5, <2>3, <3>1
    <3> QED BY <2>1, <2>2, <3>2
  <2>4. Len(Programs) \in Nat
    BY StartPlaced
  <2> QED BY <1>5, <2>3, <2>4
<1>7. rn_cnt + 1 \in 1..Len(Programs)
  BY <1>5, <1>6, StartPlaced
<1>8. BigEndian(rx) = Count(rn_cnt + 1)
  BY <1>3, <1>5, <1>7, StreamIsPrograms
<1> QED BY <1>1, <1>4, <1>5, <1>6, <1>8
        DEF PacketInv, BeforePacket, Loading, Expecting

LEMMA StatusKeepsPacket ==
  ASSUME PacketInv, LoadInv, Status
  PROVE  PacketInv'
<1>1. /\ pc = "status" /\ pc' = "poll_word" /\ rn_cnt' = rn_cnt + 1
      /\ UNCHANGED <<r5, r6, got>>
  BY DEF Status, Exec, regs
<1>2. /\ rn_cnt \in 0..Len(Programs) /\ rn_cnt < Len(Programs)
      /\ Len(got) = Start[rn_cnt + 1] + 1 /\ r5 = Count(rn_cnt + 1)
  BY <1>1 DEF PacketInv
<1>3. r6 = 0
  BY <1>1 DEF LoadInv, Starting
<1>4. rn_cnt + 1 \in 1..Len(Programs)
  BY <1>2, StartPlaced
<1>5. Count(rn_cnt + 1) \in Nat \ {0} /\ Start[rn_cnt + 1] \in Nat
  BY <1>4, StartPlaced
<1>6. Pending' = 0 /\ rn_cnt' # 0 /\ rn_cnt' \in 0..Len(Programs)
  BY <1>1, <1>2, <1>4 DEF Pending
<1> QED BY <1>1, <1>2, <1>3, <1>5, <1>6
        DEF PacketInv, BeforePacket, Loading, Expecting

LEMMA ReadWordKeepsPacket ==
  ASSUME PacketInv, LoadInv, DeliveryInv, ReadWord
  PROVE  PacketInv'
<1>1. /\ pc = "read_word" /\ pc' = "store_word"
      /\ got' = Append(got, BigEndian(rx)) /\ UNCHANGED <<r5, r6, rn_cnt>>
  BY DEF ReadWord, Exec
<1>2. got \in Seq(Nat) /\ BigEndian(rx) \in Nat /\ Len(got') = Len(got) + 1
  BY <1>1, BigEndianNat DEF DeliveryInv, LoaderDevice, DeviceInv, TypeOK
<1>3. Pending = 0 /\ Pending' = 1
  BY <1>1 DEF Pending
<1>4. /\ rn_cnt \in 1..Len(Programs) /\ r5 = Count(rn_cnt) /\ r6 =< r5 /\ r6 < r5
      /\ Len(got) = Start[rn_cnt] + 1 + r6 + Pending
  BY <1>1, StartPlaced DEF PacketInv, Loading, Expecting
<1>5. Start[rn_cnt] \in Nat /\ r6 \in Nat
  BY <1>4, StartPlaced DEF LoadInv
<1>6. Len(got') = Start[rn_cnt] + 1 + r6 + Pending'
  BY <1>2, <1>3, <1>4, <1>5
<1> QED BY <1>1, <1>4, <1>6 DEF PacketInv, BeforePacket, Loading, Expecting

LEMMA StoreWordKeepsPacket ==
  ASSUME PacketInv, LoadInv, StoreWord
  PROVE  PacketInv'
<1>1. /\ pc = "store_word" /\ pc' = "update_uart_status" /\ r6' = r6 + 1
      /\ UNCHANGED <<r5, rn_cnt, got>>
  BY DEF StoreWord, Exec
<1>2. Pending = 1 /\ Pending' = 0
  BY <1>1 DEF Pending
<1>3. /\ rn_cnt \in 1..Len(Programs) /\ r5 = Count(rn_cnt) /\ r6 < r5
      /\ Len(got) = Start[rn_cnt] + 1 + r6 + Pending
  BY <1>1, StartPlaced DEF PacketInv, Loading, Expecting
<1>4. Start[rn_cnt] \in Nat /\ r6 \in Nat /\ r5 \in Nat
  BY <1>3, StartPlaced DEF LoadInv
<1>5. Len(got') = Start[rn_cnt] + 1 + r6' + Pending' /\ r6' =< r5
  BY <1>1, <1>2, <1>3, <1>4
<1> QED BY <1>1, <1>3, <1>5 DEF PacketInv, BeforePacket, Loading, Expecting

\* The last of the program's words is in memory when it is entered.
LEMMA EnterKeepsPacket ==
  ASSUME PacketInv, LoadInv, DeliveryInv, Enter
  PROVE  PacketInv'
<1>1. /\ pc = "enter" /\ pc' = "program" /\ mem' = StackScribbled
      /\ UNCHANGED <<r5, r6, rn_cnt, got>>
  BY DEF Enter, Exec, regs
<1>2. Pending = 0
  BY <1>1 DEF Pending
<1>3. /\ rn_cnt \in 1..Len(Programs) /\ r5 = Count(rn_cnt) /\ r6 = r5
      /\ Len(got) = Start[rn_cnt] + 1 + r6
  BY <1>1, <1>2, StartPlaced DEF PacketInv, Loading
<1>4. Start[rn_cnt] \in Nat /\ r6 \in Nat /\ Start[rn_cnt + 1] = Len(got)
  BY <1>3, StartPlaced
<1>5. r6 =< StackTop - StackDepth
  BY <1>3, StartPlaced, FitsAssumption DEF Count
<1>6. ProgramStored'
  <2> SUFFICES ASSUME NEW a \in 0..(r6' - 1)
               PROVE  mem'[a] = Words(Programs[rn_cnt'])[a]
    BY DEF ProgramStored
  <2>1. a \in 0..(r6 - 1) /\ a \in 0..(StackTop - StackDepth - 1)
    BY <1>1, <1>4, <1>5, StackAssumption
  <2>2. mem'[a] = mem[a]
    BY <1>1, <2>1, ScribbleType DEF LoadInv
  <2>3. mem[a] = got[Len(got) - Pending - r6 + a + 1]
    BY <1>1, <1>5, <2>1 DEF LoadInv, LoadedPrefix, Loading
  <2>4. /\ Len(got) - Pending - r6 + a + 1 = Start[rn_cnt] + 1 + a + 1
        /\ Start[rn_cnt] + 1 + a + 1 \in 1..Len(got)
        /\ (Start[rn_cnt] + 1 + a + 1) - 1 = Start[rn_cnt] + 1 + a
    <3>1. a \in Nat /\ a + 1 =< r6
      BY <1>4, <2>1
    <3> QED BY <1>2, <1>3, <1>4, <3>1
  <2>5. got[Start[rn_cnt] + 1 + a + 1] = WordAt(Start[rn_cnt] + 1 + a)
    BY <2>4 DEF DeliveryInv, InOrder
  <2>6. WordAt(Start[rn_cnt] + 1 + a) = Words(Programs[rn_cnt])[a]
    BY <1>3, <2>1, StreamIsPrograms
  <2> QED BY <1>1, <2>2, <2>3, <2>4, <2>5, <2>6
<1> QED BY <1>1, <1>3, <1>4, <1>6
        DEF PacketInv, BeforePacket, Loading, Expecting

LEMMA CpuKeepsPacket ==
  ASSUME PacketInv, LoadInv, DeliveryInv, CpuClock
  PROVE  PacketInv'
<1> USE DEF Exec, regs
<1>1. CASE Stall
  BY <1>1, UnchangedKeepsPacket DEF Stall
<1>2. CASE BiosEntry
  BY <1>2, WaitingKeepsPacket DEF BiosEntry, BeforePacket
<1>3. CASE PollUart("poll_uart", "test_uart")
  BY <1>3, WaitingKeepsPacket DEF PollUart, BeforePacket
<1>4. CASE TestUart("test_uart", "poll_uart", "load_program")
  BY <1>4, WaitingKeepsPacket DEF TestUart, BeforePacket
<1>5. CASE LoadProgram
  BY <1>5, LoadProgramKeepsPacket
<1>6. CASE Status
  BY <1>6, StatusKeepsPacket
<1>7. CASE PollUart("poll_word", "test_word")
  BY <1>7, SameWordsKeepPacket DEF PollUart, Loading, Expecting, PacketInv
<1>8. CASE TestUart("test_word", "poll_word", "read_word")
  BY <1>8, SameWordsKeepPacket DEF TestUart, Loading, Expecting, PacketInv
<1>9. CASE ReadWord
  BY <1>9, ReadWordKeepsPacket
<1>10. CASE StoreWord
  BY <1>10, StoreWordKeepsPacket
<1>11. CASE UpdateUartStatus
  BY <1>11, SameWordsKeepPacket DEF UpdateUartStatus, Loading, Expecting
<1>12. CASE MoreWords
  <2>1. /\ pc = "more_words" /\ pc' = IF r5 # r6 THEN "poll_word" ELSE "enter"
        /\ UNCHANGED <<r5, r6, rn_cnt, got>>
    BY <1>12 DEF MoreWords
  <2>2. r6 =< r5 /\ rn_cnt \in 1..Len(Programs) /\ r5 = Count(rn_cnt) /\ r6 \in Nat
    BY <2>1, StartPlaced DEF PacketInv, LoadInv, Loading
  <2>3. r5 # r6 => r6 < r5
    BY <2>2, StartPlaced
  <2> QED BY <2>1, <2>3, SameWordsKeepPacket DEF Loading, Expecting
<1>13. CASE Enter
  BY <1>13, EnterKeepsPacket
<1>14. CASE Program
  <2>1. /\ pc = "program" /\ pc' \in {"program", "bios_entry"}
        /\ UNCHANGED <<r5, r6, rn_cnt, mem, got>>
    BY <1>14 DEF Program
  <2>2. CASE pc' = "program"
    BY <2>1, <2>2, UnchangedKeepsPacket
  <2>3. CASE pc' = "bios_entry"
    BY <2>1, <2>3, WaitingKeepsPacket DEF BeforePacket
  <2> QED BY <2>1, <2>2, <2>3
<1> QED BY <1>1, <1>2, <1>3, <1>4, <1>5, <1>6, <1>7, <1>8, <1>9, <1>10,
           <1>11, <1>12, <1>13, <1>14 DEF CpuClock

\* The BIOS always knows where it is: it never begins a packet it was not sent,
\* and what it has read is a whole number of packets whenever it waits for one.
THEOREM PacketInvariant == LoaderSpec => []PacketInv
<1>1. LoaderInit => PacketInv
  BY StartPlaced DEF LoaderInit, PacketInv, BeforePacket, Loading, Expecting
<1>2. DeliveryInv /\ LoadInv /\ PacketInv /\ [LoaderNext]_allVars => PacketInv'
  <2> SUFFICES ASSUME DeliveryInv, LoadInv, PacketInv, [LoaderNext]_allVars
               PROVE  PacketInv'
    OBVIOUS
  <2>1. CASE CpuClock
    BY <2>1, CpuKeepsPacket
  <2>2. CASE UNCHANGED loaderVars
    BY <2>2, UnchangedKeepsPacket DEF loaderVars, regs
  <2>3. UNCHANGED allVars => UNCHANGED loaderVars
    BY DEF allVars
  <2> QED BY <2>1, <2>2, <2>3 DEF LoaderNext, SystemClock
<1> QED BY <1>1, <1>2, DeliveryInvariant, LoadInvariant, PTL DEF LoaderSpec

\* Every program is entered exactly as the host sent it, wherever it stands in
\* the stream and however the words were delayed (bios.asm:236-282 against
\* uart_transmit_packet.py and uart.c).
THEOREM EntersWhole == LoaderSpec => []EntersIntact
<1>1. PacketInv => EntersIntact
  <2> SUFFICES ASSUME PacketInv, pc = "program"
               PROVE  /\ r6 = Len(Padded(Programs[rn_cnt])) \div 4
                      /\ \A a \in DOMAIN Words(Programs[rn_cnt]) :
                            mem[a] = Words(Programs[rn_cnt])[a]
    BY DEF EntersIntact
  <2>1. r6 = Count(rn_cnt) /\ ProgramStored
    BY DEF PacketInv
  <2>2. DOMAIN Words(Programs[rn_cnt]) = 0..(Count(rn_cnt) - 1)
    BY DEF Words, Count
  <2> QED BY <2>1, <2>2 DEF ProgramStored, Count
<1> QED BY <1>1, PacketInvariant, PTL
=============================================================================
