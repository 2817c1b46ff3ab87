---------------------------- MODULE BiosRelocate ----------------------------
(***************************************************************************)
(* How the BIOS enters a program it has received (bios.asm:289-366).  The  *)
(* program lies in memory from address 0 on.  A raw binary is entered      *)
(* there.  A ROADRUN image begins with a header of four words, two words   *)
(* of magic, the byte address it was linked for and that of its entry      *)
(* point: the words after the header are moved to the former, by a loop    *)
(* from the end or from the start since source and destination may         *)
(* overlap, and the program is entered at the latter.  Both addresses and  *)
(* the way back to the BIOS are kept on the stack meanwhile.               *)
(*                                                                         *)
(* One action is one turn of a copy loop, or the code between two labels.  *)
(* Only the memory below STACK_TOP is modelled: the screen lies above it.  *)
(***************************************************************************)
EXTENDS Integers

CONSTANTS StackTop,    \* STACK_TOP
          Loaded,      \* what may have been received: memory and word count
          BiosEntry,   \* the address of bios_entry
          Handlers,    \* enter.jmptable: the address of the code for each kind
          FillReturn   \* where fill_screen returns to

Addr  == 0..(StackTop - 1)
Kinds == {"bin", "roadrun"}

\* EXECUTABLE_ROADRUN's magic, "\x7fROADRUN".
Magic == <<2136100673, 1146246478>>

IsRoadrun(m) == m[0] = Magic[1] /\ m[1] = Magic[2]

\* The header's addresses, shifted right by two.
Destination(m) == m[2] \div 4
EntryPoint(m)  == m[3] \div 4

ASSUME CodeAssumption ==
  BiosEntry \in Nat /\ Handlers \in [Kinds -> Nat] /\ FillReturn \in Nat

\* The program and the place it was linked for end below the stack's two words.
\* An image has a header, and the host pads it by at least one byte; the forward
\* loop may read four words beyond it.
ASSUME LoadedAssumption ==
  /\ StackTop \in Nat /\ StackTop >= 4
  /\ \A l \in Loaded :
       /\ l.mem \in [Addr -> Nat]
       /\ l.size \in 1..(StackTop - 2)
       /\ IsRoadrun(l.mem) =>
            /\ l.size \in 5..(StackTop - 4)
            /\ Destination(l.mem) + l.size - 4 =< StackTop - 2

VARIABLES
  pc,      \* the BIOS label the CPU is at
  target,  \* where the program is entered, then where it returns to
  sp,
  r0, r1,  \* backward: the next word's destination and source
  r3, r4,  \* forward: the next word's destination and source
  r6,      \* the number of words received
  r8,      \* the kind detected
  mem,     \* memory below STACK_TOP
  start    \* history: memory when the last word had been received

regs == <<r0, r1, r3, r4, r6, r8>>
vars == <<pc, target, sp, regs, mem, start>>

Init ==
  /\ \E l \in Loaded : mem = l.mem /\ start = l.mem /\ r6 = l.size
  /\ pc = "detect"
  /\ target = 0
  /\ sp = StackTop
  /\ r0 = 0 /\ r1 = 0 /\ r3 = 0 /\ r4 = 0 /\ r8 = "bin"

Detect ==
  /\ pc = "detect"
  /\ pc' = "enter"
  /\ r3' = 0
  /\ r8' = IF IsRoadrun(mem) THEN "roadrun" ELSE "bin"
  /\ UNCHANGED <<target, sp, r0, r1, r4, r6, mem, start>>

\* Mutant of Enter: the handler is pushed in the place of bios_entry too.
EnterTwice ==
  /\ pc = "enter"
  /\ pc' = r8
  /\ sp' = sp - 1
  /\ mem' = [mem EXCEPT ![sp - 1] = Handlers[r8], ![sp - 2] = Handlers[r8]]
  /\ UNCHANGED <<target, regs, start>>

\* push bios_entry, then push the handler and return to it.
Enter ==
  /\ pc = "enter"
  /\ pc' = r8
  /\ sp' = sp - 1
  /\ mem' = [mem EXCEPT ![sp - 1] = BiosEntry, ![sp - 2] = Handlers[r8]]
  /\ UNCHANGED <<target, regs, start>>

\* Clear the screen by a call, and jump to 0.
EnterBin ==
  /\ pc = "bin"
  /\ pc' = "program"
  /\ target' = 0
  /\ r0' = 0
  /\ mem' = [mem EXCEPT ![sp - 1] = FillReturn]
  /\ UNCHANGED <<sp, r1, r3, r4, r6, r8, start>>

\* Clear the screen, push the entry point, and set up both loops.  This CPU's
\* blt r1, r0 is taken when r1 > r0: then the image moves down.
EnterRoadrun ==
  /\ pc = "roadrun"
  /\ sp' = sp - 1
  /\ mem' = [mem EXCEPT ![sp - 1] = EntryPoint(mem)]
  /\ r3' = Destination(mem)
  /\ r0' = r3' + r6 - 5
  /\ r4' = 4
  /\ r1' = r6 - 1
  /\ pc' = IF r1' > r0' THEN "relocate_forward" ELSE "relocate_backward"
  /\ UNCHANGED <<target, r6, r8, start>>

\* Mutant of RelocateBackward: it goes on to the header's first word.
RelocateBackwardOnce ==
  /\ pc = "relocate_backward"
  /\ mem' = [mem EXCEPT ![r0] = mem[r1]]
  /\ r0' = r0 - 1
  /\ r1' = r1 - 1
  /\ pc' = IF r1 > 0 THEN "relocate_backward" ELSE "ret"
  /\ UNCHANGED <<target, sp, r3, r4, r6, r8, start>>

\* The loop ends when the source reaches 0: the words of the header but the
\* first are moved too, to the three words below the image.
RelocateBackward ==
  /\ pc = "relocate_backward"
  /\ mem' = [mem EXCEPT ![r0] = mem[r1]]
  /\ r0' = r0 - 1
  /\ r1' = r1 - 1
  /\ pc' = IF r1' # 0 THEN "relocate_backward" ELSE "ret"
  /\ UNCHANGED <<target, sp, r3, r4, r6, r8, start>>

\* Mutants of RelocateForward: the loop ends after a word, as with a blt that
\* compares in the order it is written in; or it never ends.
RelocateForwardWord ==
  /\ pc = "relocate_forward"
  /\ mem' = [mem EXCEPT ![r3] = mem[r4]]
  /\ r3' = r3 + 1
  /\ r4' = r4 + 1
  /\ pc' = IF r6 < r3' THEN "relocate_forward" ELSE "ret"
  /\ UNCHANGED <<target, sp, r0, r1, r6, r8, start>>

RelocateForwardStuck ==
  /\ pc = "relocate_forward"
  /\ mem' = [mem EXCEPT ![r3] = mem[r4]]
  /\ UNCHANGED <<pc, target, sp, regs, start>>

\* The loop ends when the destination reaches the word count (blt r6, r3 is
\* taken when r6 > r3): words that follow the image are moved too.
RelocateForward ==
  /\ pc = "relocate_forward"
  /\ mem' = [mem EXCEPT ![r3] = mem[r4]]
  /\ r3' = r3 + 1
  /\ r4' = r4 + 1
  /\ pc' = IF r6 > r3' THEN "relocate_forward" ELSE "ret"
  /\ UNCHANGED <<target, sp, r0, r1, r6, r8, start>>

\* The entry point is on the stack.
Ret ==
  /\ pc = "ret"
  /\ pc' = "program"
  /\ target' = mem[sp]
  /\ sp' = sp + 1
  /\ UNCHANGED <<regs, mem, start>>

\* A program that restores the stack returns.
ProgramReturns ==
  /\ pc = "program"
  /\ pc' = "returned"
  /\ target' = mem[sp]
  /\ sp' = sp + 1
  /\ UNCHANGED <<regs, mem, start>>

Next ==
  \/ Detect \/ Enter \/ EnterBin \/ EnterRoadrun
  \/ RelocateBackward \/ RelocateForward \/ Ret \/ ProgramReturns

Spec == Init /\ [][Next]_vars

\* The CPU never stops, and the program is taken to return.
FairSpec == Spec /\ WF_vars(Next)

-----------------------------------------------------------------------------
Labels == {"detect", "enter", "relocate_backward", "relocate_forward", "ret",
           "program", "returned"} \cup Kinds

\* The words of the image, where they are when it has been loaded.
Payload == 4..(r6 - 1)

\* Every variable has its type; in particular no address leaves the memory.
TypeOK ==
  /\ pc \in Labels
  /\ target \in Nat
  /\ sp \in (StackTop - 2)..StackTop
  /\ r0 \in Nat /\ r1 \in Nat /\ r3 \in Nat /\ r4 \in Nat /\ r6 \in Nat
  /\ r8 \in Kinds
  /\ mem \in [Addr -> Nat] /\ start \in [Addr -> Nat]

\* A raw binary is entered as it was received, and every word after an image's
\* header is where the image was linked for, wherever that is.
EntersMoved ==
  pc = "program" =>
    IF IsRoadrun(start)
    THEN \A a \in Payload : mem[Destination(start) + a - 4] = start[a]
    ELSE \A a \in 0..(r6 - 1) : mem[a] = start[a]

\* The program is entered at its entry point: the stack survives the copy.
EntersAtTarget ==
  pc = "program" => target = IF IsRoadrun(start) THEN EntryPoint(start) ELSE 0

\* A program that returns comes back to the BIOS, which can load the next one.
ReturnsToBios == pc = "returned" => target = BiosEntry

\* Both words wait on the stack while the image is moved, perhaps next to them.
StackSurvives == EntersAtTarget /\ ReturnsToBios

\* What else is in memory survives, but for the two words of the stack: when an
\* image moves up the three words below its place are lost, when it moves down
\* only words of the program received.
LeavesTheRest ==
  \A a \in 0..(StackTop - 3) : mem[a] # start[a] =>
    /\ IsRoadrun(start)
    /\ LET d == Destination(start) IN
       IF d < 4 THEN d =< a /\ a < r6
                ELSE d - 3 =< a /\ a < d + r6 - 4

\* The loops end: every program is entered, and may return.
IsEntered == <>(pc = "returned")
=============================================================================
