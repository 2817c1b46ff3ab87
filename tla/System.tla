------------------------------- MODULE System -------------------------------
(***************************************************************************)
(* The devices of the virtual machine as system_create puts them on its    *)
(* memory bus (rrvm/src/system.c), the M3P and the UART, and one program   *)
(* that uses both: at each turn of system_clock the CPU makes an access at *)
(* most, and then the UART has its clock.  m3p_clock only shows the frame. *)
(***************************************************************************)
EXTENDS Displays

CONSTANTS Stream, PipeCap

VARIABLES written, taken, rx, offset, ready, finished, turn

U == INSTANCE Uart

systemVars == <<vars, U!vars>>

SystemInit == DisplaysInit /\ U!Init

\* The CPU's half of system_clock: a read of RX, a store to a display, or
\* something that concerns no device.
ProgramReadsRx == U!GuestReadsRx /\ UNCHANGED vars
ProgramElse    == U!GuestElse /\ UNCHANGED vars
ProgramStores  == U!GuestElse /\ DisplaysNext
Cpu            == ProgramReadsRx \/ ProgramElse \/ ProgramStores

\* The devices' half.
Devices == U!UartClock /\ UNCHANGED vars

Host == U!HostWrite /\ UNCHANGED vars

SystemNext == Host \/ Cpu \/ Devices

\* The main loop keeps clocking the system (the CPU's turn ends with any of its steps,
\* so that it can be said of two of them), the host keeps writing while there is room,
\* and the program reads RX again and again.
SystemSpec ==
  /\ SystemInit /\ [][SystemNext]_systemVars
  /\ WF_systemVars(Host)
  /\ WF_systemVars(Devices)
  /\ WF_systemVars(ProgramReadsRx \/ ProgramElse)
  /\ SF_systemVars(ProgramReadsRx)

-----------------------------------------------------------------------------
(* Properties *)

\* Every variable of the two devices has its type: the receiver's offset never
\* exceeds four (uart.c:65), whatever the program stores to the M3P beside it.
DevicesTypeOK == TypeOK /\ U!TypeOK

\* RX_READY is set exactly while rx_data holds a whole, aligned word of the stream
\* (uart.c:63-77), whenever the program reads it.
ReadyIsWhole == U!ReadyIsWhole

=============================================================================
