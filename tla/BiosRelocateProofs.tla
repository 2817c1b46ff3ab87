------------------------- MODULE BiosRelocateProofs -------------------------
(***************************************************************************)
(* The BIOS moves every image intact, for all sizes and addresses that     *)
(* fit, enters it at its entry point with a way back, and overwrites       *)
(* nothing but the image's place and the three words below it.             *)
(*                                                                         *)
(* RelocInv describes both loops.  Backward, the destination is not below  *)
(* the source, so the words up to r1 are unmoved and those above it are in *)
(* place; forward, it is below, so the words from r4 on are unmoved and    *)
(* those before it are in place.                                           *)
(***************************************************************************)
EXTENDS BiosRelocate, TLAPS

D == Destination(start)

KindOf(m) == IF IsRoadrun(m) THEN "roadrun" ELSE "bin"

Fits ==
  /\ r6 \in 1..(StackTop - 2)
  /\ IsRoadrun(start) =>
       r6 \in 5..(StackTop - 4) /\ D + r6 - 4 =< StackTop - 2

BelowStack == 0..(StackTop - 3)

WayBack == mem[StackTop - 1] = BiosEntry

BeforeInv ==
  /\ pc \in {"detect", "enter"} => sp = StackTop /\ mem = start
  /\ pc = "enter" => r8 = KindOf(start)
  /\ pc \in Kinds =>
       /\ sp = StackTop - 1 /\ WayBack
       /\ pc = KindOf(start)
       /\ \A a \in BelowStack : mem[a] = start[a]

Copying ==
  /\ sp = StackTop - 2 /\ WayBack
  /\ mem[StackTop - 2] = EntryPoint(start)
  /\ IsRoadrun(start)

BackwardInv ==
  pc = "relocate_backward" =>
    /\ Copying
    /\ D >= 4
    /\ r1 \in 1..(r6 - 1) /\ r0 = r1 + D - 4
    /\ \A a \in 1..r1 : mem[a] = start[a]
    /\ \A a \in Payload : a > r1 => mem[D + a - 4] = start[a]

ForwardInv ==
  pc = "relocate_forward" =>
    /\ Copying
    /\ D < 4
    /\ r4 >= 4 /\ r3 = D + r4 - 4 /\ r3 < r6
    /\ \A a \in Payload : a >= r4 => mem[a] = start[a]
    /\ \A a \in Payload : a < r4 => mem[D + a - 4] = start[a]

AfterInv ==
  /\ pc = "ret" =>
       /\ Copying
       /\ \A a \in Payload : mem[D + a - 4] = start[a]
  /\ pc = "program" => sp = StackTop - 1 /\ WayBack
  /\ EntersMoved /\ EntersAtTarget /\ ReturnsToBios

RelocInv ==
  /\ TypeOK /\ Fits
  /\ BeforeInv /\ BackwardInv /\ ForwardInv /\ AfterInv
  /\ LeavesTheRest

-----------------------------------------------------------------------------
LEMMA DestinationNat ==
  ASSUME NEW m \in [Addr -> Nat]
  PROVE  Destination(m) \in Nat /\ EntryPoint(m) \in Nat
<1>1. m[2] \in Nat /\ m[3] \in Nat
  BY LoadedAssumption DEF Addr
<1> QED
  BY <1>1 DEF Destination, EntryPoint

LEMMA InitReloc == Init => RelocInv
<1> SUFFICES ASSUME Init PROVE RelocInv
  OBVIOUS
<1>1. PICK l \in Loaded : mem = l.mem /\ start = l.mem /\ r6 = l.size
  BY DEF Init
<1>2. TypeOK
  BY <1>1, LoadedAssumption DEF Init, TypeOK, Labels, Kinds
<1>3. Fits
  BY <1>1, LoadedAssumption DEF Fits, D
<1>4. BeforeInv /\ BackwardInv /\ ForwardInv /\ AfterInv
  BY DEF Init, BeforeInv, BackwardInv, ForwardInv, AfterInv, EntersMoved,
         EntersAtTarget, ReturnsToBios, Kinds
<1>5. LeavesTheRest
  BY DEF Init, LeavesTheRest
<1> QED
  BY <1>2, <1>3, <1>4, <1>5 DEF RelocInv

LEMMA DetectReloc == RelocInv /\ Detect => RelocInv'
<1> SUFFICES ASSUME RelocInv, Detect PROVE RelocInv'
  OBVIOUS
<1> USE DEF Detect
<1>1. TypeOK' /\ Fits' /\ LeavesTheRest'
  BY DEF RelocInv, TypeOK, Labels, Kinds, Fits, D, LeavesTheRest
<1>2. BeforeInv'
  BY DEF RelocInv, BeforeInv, KindOf, Kinds
<1>3. BackwardInv' /\ ForwardInv' /\ AfterInv'
  BY DEF BackwardInv, ForwardInv, AfterInv, EntersMoved, EntersAtTarget,
         ReturnsToBios
<1> QED
  BY <1>1, <1>2, <1>3 DEF RelocInv

LEMMA EnterReloc == RelocInv /\ Enter => RelocInv'
<1> SUFFICES ASSUME RelocInv, Enter PROVE RelocInv'
  OBVIOUS
<1> USE DEF Enter, regs
<1>1. sp = StackTop /\ mem = start /\ r8 = KindOf(start) /\ r8 \in Kinds
      /\ StackTop \in Nat /\ StackTop >= 4 /\ mem \in [Addr -> Nat]
  BY LoadedAssumption DEF RelocInv, BeforeInv, TypeOK
<1>2. BiosEntry \in Nat /\ Handlers[r8] \in Nat
  BY <1>1, CodeAssumption
<1>3. /\ mem' \in [Addr -> Nat]
      /\ mem'[StackTop - 1] = BiosEntry
      /\ \A a \in BelowStack : mem'[a] = start[a]
  BY <1>1, <1>2 DEF Addr, BelowStack
<1>4. TypeOK'
  BY <1>1, <1>3 DEF RelocInv, TypeOK, Labels
<1>5. Fits' /\ LeavesTheRest'
  BY <1>3 DEF RelocInv, Fits, D, LeavesTheRest, BelowStack
<1>6. BeforeInv'
  BY <1>1, <1>3 DEF BeforeInv, WayBack, Kinds
<1>7. BackwardInv' /\ ForwardInv' /\ AfterInv'
  BY <1>1 DEF BackwardInv, ForwardInv, AfterInv, EntersMoved, EntersAtTarget,
              ReturnsToBios, Kinds
<1> QED
  BY <1>4, <1>5, <1>6, <1>7 DEF RelocInv

LEMMA EnterBinReloc == RelocInv /\ EnterBin => RelocInv'
<1> SUFFICES ASSUME RelocInv, EnterBin PROVE RelocInv'
  OBVIOUS
<1> USE DEF EnterBin
<1>1. /\ sp = StackTop - 1 /\ WayBack /\ ~IsRoadrun(start)
      /\ \A a \in BelowStack : mem[a] = start[a]
      /\ StackTop \in Nat /\ StackTop >= 4 /\ mem \in [Addr -> Nat]
      /\ r6 \in 1..(StackTop - 2)
  BY LoadedAssumption DEF RelocInv, BeforeInv, TypeOK, Kinds, KindOf, Fits
<1>2. /\ mem' \in [Addr -> Nat]
      /\ mem'[StackTop - 1] = mem[StackTop - 1]
      /\ \A a \in BelowStack : mem'[a] = start[a]
  BY <1>1, CodeAssumption DEF Addr, BelowStack
<1>3. TypeOK'
  BY <1>1, <1>2 DEF RelocInv, TypeOK, Labels
<1>4. Fits' /\ LeavesTheRest'
  BY <1>2 DEF RelocInv, Fits, D, LeavesTheRest, BelowStack
<1>5. BeforeInv' /\ BackwardInv' /\ ForwardInv'
  BY DEF BeforeInv, BackwardInv, ForwardInv, Kinds
<1>6. AfterInv'
  BY <1>1, <1>2 DEF AfterInv, EntersMoved, EntersAtTarget, ReturnsToBios,
                    WayBack, BelowStack
<1> QED
  BY <1>3, <1>4, <1>5, <1>6 DEF RelocInv

LEMMA EnterRoadrunReloc == RelocInv /\ EnterRoadrun => RelocInv'
<1> SUFFICES ASSUME RelocInv, EnterRoadrun PROVE RelocInv'
  OBVIOUS
<1> USE DEF EnterRoadrun
<1>1. /\ sp = StackTop - 1 /\ WayBack /\ IsRoadrun(start)
      /\ \A a \in BelowStack : mem[a] = start[a]
      /\ StackTop \in Nat /\ StackTop >= 4 /\ mem \in [Addr -> Nat]
      /\ r6 \in 5..(StackTop - 4) /\ D + r6 - 4 =< StackTop - 2
      /\ start \in [Addr -> Nat]
  BY LoadedAssumption DEF RelocInv, BeforeInv, TypeOK, Kinds, KindOf, Fits
<1>2. D \in Nat /\ EntryPoint(start) \in Nat
  BY <1>1, DestinationNat DEF D
<1>3. mem[2] = start[2] /\ mem[3] = start[3]
  BY <1>1 DEF BelowStack
<1>4. Destination(mem) = D /\ EntryPoint(mem) = EntryPoint(start)
  BY <1>3 DEF D, Destination, EntryPoint
<1>5. /\ mem' \in [Addr -> Nat]
      /\ mem'[StackTop - 1] = mem[StackTop - 1]
      /\ mem'[StackTop - 2] = EntryPoint(start)
      /\ \A a \in BelowStack : mem'[a] = start[a]
  BY <1>1, <1>2, <1>4 DEF Addr, BelowStack
<1>6. r3' = D /\ r0' = D + r6 - 5 /\ r4' = 4 /\ r1' = r6 - 1
  BY <1>4
<1>7. TypeOK'
  BY <1>1, <1>2, <1>5, <1>6 DEF RelocInv, TypeOK, Labels
<1>8. Fits' /\ LeavesTheRest'
  BY <1>5 DEF RelocInv, Fits, D, LeavesTheRest, BelowStack
<1>9. Copying' /\ D' = D
  BY <1>1, <1>5 DEF Copying, WayBack, D
<1>10. \A a \in BelowStack : a < r6 => mem'[a] = start'[a]
  BY <1>5
<1>11. BackwardInv'
  BY <1>1, <1>2, <1>6, <1>9, <1>10 DEF BackwardInv, Payload, BelowStack
<1>12. ForwardInv'
  BY <1>1, <1>2, <1>6, <1>9, <1>10 DEF ForwardInv, Payload, BelowStack
<1>13. BeforeInv' /\ AfterInv'
  BY DEF BeforeInv, AfterInv, EntersMoved, EntersAtTarget, ReturnsToBios, Kinds
<1> QED
  BY <1>7, <1>8, <1>11, <1>12, <1>13 DEF RelocInv

LEMMA BackwardReloc == RelocInv /\ RelocateBackward => RelocInv'
<1> SUFFICES ASSUME RelocInv, RelocateBackward PROVE RelocInv'
  OBVIOUS
<1> USE DEF RelocateBackward
<1>1. /\ Copying /\ D >= 4
      /\ r1 \in 1..(r6 - 1) /\ r0 = r1 + D - 4
      /\ \A a \in 1..r1 : mem[a] = start[a]
      /\ \A a \in Payload : a > r1 => mem[D + a - 4] = start[a]
  BY DEF RelocInv, BackwardInv
<1>2. /\ StackTop \in Nat /\ mem \in [Addr -> Nat] /\ start \in [Addr -> Nat]
      /\ r6 \in 5..(StackTop - 4) /\ D + r6 - 4 =< StackTop - 2
  BY <1>1, LoadedAssumption DEF RelocInv, TypeOK, Fits, Copying
<1>3. D \in Nat /\ EntryPoint(start) \in Nat
  BY <1>2, DestinationNat DEF D
<1>4. r0 \in D - 3..StackTop - 3 /\ r0 \in Addr /\ r1 \in Addr /\ r0 >= r1
      /\ r0 < D + r6 - 4
  BY <1>1, <1>2, <1>3 DEF Addr
<1>5. /\ mem' \in [Addr -> Nat]
      /\ mem'[r0] = start[r1]
      /\ \A a \in Addr : a # r0 => mem'[a] = mem[a]
  BY <1>1, <1>2, <1>4
<1>6. TypeOK'
  BY <1>1, <1>2, <1>3, <1>4, <1>5 DEF RelocInv, TypeOK, Labels
<1>7. Fits' /\ D' = D
  BY DEF RelocInv, Fits, D
<1>8. Copying'
  <2>1. StackTop - 1 \in Addr /\ StackTop - 2 \in Addr
    BY <1>2 DEF Addr
  <2>2. mem'[StackTop - 1] = mem[StackTop - 1] /\ mem'[StackTop - 2] = mem[StackTop - 2]
    BY <2>1, <1>2, <1>4, <1>5
  <2> QED
    BY <2>2, <1>1 DEF Copying, WayBack
<1>9. \A a \in Payload : a >= r1 => mem'[D + a - 4] = start[a]
  <2> SUFFICES ASSUME NEW a \in Payload, a >= r1 PROVE mem'[D + a - 4] = start[a]
    OBVIOUS
  <2>1. CASE a = r1
    BY <2>1, <1>1, <1>2, <1>3, <1>5
  <2>2. CASE a > r1
    <3>1. D + a - 4 \in Addr /\ D + a - 4 # r0
      BY <2>2, <1>1, <1>2, <1>3 DEF Payload, Addr
    <3> QED
      BY <3>1, <2>2, <1>1, <1>5
  <2> QED
    BY <2>1, <2>2, <1>1 DEF Payload
<1>10. \A a \in 1..(r1 - 1) : mem'[a] = start[a]
  <2> SUFFICES ASSUME NEW a \in 1..(r1 - 1) PROVE mem'[a] = start[a]
    OBVIOUS
  <2>1. a \in Addr /\ a # r0 /\ a \in 1..r1
    BY <1>1, <1>2, <1>3, <1>4 DEF Addr
  <2> QED
    BY <2>1, <1>1, <1>5
<1>11. BackwardInv'
  <2> SUFFICES ASSUME pc' = "relocate_backward" PROVE BackwardInv'
    BY DEF BackwardInv
  <2>1. r1' \in 1..(r6' - 1) /\ r0' = r1' + D' - 4 /\ D' >= 4
    BY <1>1, <1>2, <1>3, <1>7
  <2>2. \A a \in Payload' : a > r1' => mem'[D' + a - 4] = start'[a]
    BY <1>1, <1>2, <1>7, <1>9 DEF Payload
  <2> QED
    BY <2>1, <2>2, <1>8, <1>10 DEF BackwardInv
<1>12. AfterInv'
  <2> SUFFICES ASSUME pc' = "ret" PROVE AfterInv'
    BY DEF AfterInv, EntersMoved, EntersAtTarget, ReturnsToBios
  <2>1. r1 = 1
    BY <1>1, <1>2
  <2>2. \A a \in Payload' : mem'[D' + a - 4] = start'[a]
    BY <2>1, <1>2, <1>7, <1>9 DEF Payload
  <2> QED
    BY <2>2, <1>8 DEF AfterInv, EntersMoved, EntersAtTarget, ReturnsToBios
<1>13. BeforeInv' /\ ForwardInv'
  BY DEF BeforeInv, ForwardInv, Kinds
<1>14. LeavesTheRest'
  <2> SUFFICES ASSUME NEW a \in BelowStack, mem'[a] # start[a]
               PROVE  D - 3 =< a /\ a < D + r6 - 4
    BY <1>1, <1>3, <1>7 DEF LeavesTheRest, BelowStack, Copying, D
  <2>1. CASE a = r0
    BY <2>1, <1>4
  <2>2. CASE a # r0
    <3>1. mem[a] # start[a] /\ ~(D < 4)
      BY <2>2, <1>1, <1>2, <1>3, <1>5 DEF BelowStack, Addr
    <3> QED
      BY <3>1 DEF RelocInv, LeavesTheRest, BelowStack, D
  <2> QED
    BY <2>1, <2>2
<1> QED
  BY <1>6, <1>7, <1>11, <1>12, <1>13, <1>14 DEF RelocInv

LEMMA ForwardReloc == RelocInv /\ RelocateForward => RelocInv'
<1> SUFFICES ASSUME RelocInv, RelocateForward PROVE RelocInv'
  OBVIOUS
<1> USE DEF RelocateForward
<1>1. /\ Copying /\ D < 4
      /\ r4 >= 4 /\ r3 = D + r4 - 4 /\ r3 < r6
      /\ \A a \in Payload : a >= r4 => mem[a] = start[a]
      /\ \A a \in Payload : a < r4 => mem[D + a - 4] = start[a]
  BY DEF RelocInv, ForwardInv
<1>2. /\ StackTop \in Nat /\ mem \in [Addr -> Nat] /\ start \in [Addr -> Nat]
      /\ r6 \in 5..(StackTop - 4) /\ D + r6 - 4 =< StackTop - 2 /\ r4 \in Nat
  BY <1>1, LoadedAssumption DEF RelocInv, TypeOK, Fits, Copying
<1>3. D \in Nat /\ EntryPoint(start) \in Nat
  BY <1>2, DestinationNat DEF D
<1>4. r3 \in D..(r6 - 1) /\ r3 \in Addr /\ r4 \in Addr /\ r3 < r4
  BY <1>1, <1>2, <1>3 DEF Addr
<1>5. /\ mem' \in [Addr -> Nat]
      /\ mem'[r3] = mem[r4]
      /\ \A a \in Addr : a # r3 => mem'[a] = mem[a]
  BY <1>1, <1>2, <1>4
<1>6. TypeOK'
  BY <1>1, <1>2, <1>3, <1>4, <1>5 DEF RelocInv, TypeOK, Labels
<1>7. Fits' /\ D' = D
  BY DEF RelocInv, Fits, D
<1>8. Copying'
  <2>1. /\ StackTop - 1 \in Addr /\ StackTop - 1 # r3
        /\ StackTop - 2 \in Addr /\ StackTop - 2 # r3
    BY <1>2, <1>3, <1>4 DEF Addr
  <2>2. mem'[StackTop - 1] = mem[StackTop - 1] /\ mem'[StackTop - 2] = mem[StackTop - 2]
    BY <2>1, <1>5
  <2> QED
    BY <2>2, <1>1 DEF Copying, WayBack
<1>9. \A a \in Payload : a < r4 + 1 => mem'[D + a - 4] = start[a]
  <2> SUFFICES ASSUME NEW a \in Payload, a < r4 + 1 PROVE mem'[D + a - 4] = start[a]
    OBVIOUS
  <2>1. CASE a = r4
    BY <2>1, <1>1, <1>2, <1>3, <1>5
  <2>2. CASE a < r4
    <3>1. D + a - 4 \in Addr /\ D + a - 4 # r3
      BY <2>2, <1>1, <1>2, <1>3 DEF Payload, Addr
    <3> QED
      BY <3>1, <2>2, <1>1, <1>5
  <2> QED
    BY <2>1, <2>2, <1>2 DEF Payload
<1>10. \A a \in Payload : a >= r4 + 1 => mem'[a] = start[a]
  <2> SUFFICES ASSUME NEW a \in Payload, a >= r4 + 1 PROVE mem'[a] = start[a]
    OBVIOUS
  <2>1. a \in Addr /\ a # r3 /\ a >= r4
    BY <1>1, <1>2, <1>3, <1>4 DEF Addr, Payload
  <2> QED
    BY <2>1, <1>1, <1>5
<1>11. ForwardInv'
  <2> SUFFICES ASSUME pc' = "relocate_forward" PROVE ForwardInv'
    BY DEF ForwardInv
  <2>1. r4' >= 4 /\ r3' = D' + r4' - 4 /\ r3' < r6' /\ D' < 4
    BY <1>1, <1>2, <1>3, <1>4, <1>7
  <2>2. /\ \A a \in Payload' : a >= r4' => mem'[a] = start'[a]
        /\ \A a \in Payload' : a < r4' => mem'[D' + a - 4] = start'[a]
    BY <1>7, <1>9, <1>10 DEF Payload
  <2> QED
    BY <2>1, <2>2, <1>8 DEF ForwardInv
<1>12. AfterInv'
  <2> SUFFICES ASSUME pc' = "ret" PROVE AfterInv'
    BY DEF AfterInv, EntersMoved, EntersAtTarget, ReturnsToBios
  <2>1. r4 + 1 >= r6
    BY <1>1, <1>2, <1>3, <1>4
  <2>2. \A a \in Payload' : mem'[D' + a - 4] = start'[a]
    BY <2>1, <1>2, <1>7, <1>9 DEF Payload
  <2> QED
    BY <2>2, <1>8 DEF AfterInv, EntersMoved, EntersAtTarget, ReturnsToBios
<1>13. BeforeInv' /\ BackwardInv'
  BY DEF BeforeInv, BackwardInv, Kinds
<1>14. LeavesTheRest'
  <2> SUFFICES ASSUME NEW a \in BelowStack, mem'[a] # start[a]
               PROVE  D =< a /\ a < r6
    BY <1>1, <1>3, <1>7 DEF LeavesTheRest, BelowStack, Copying, D
  <2>1. CASE a = r3
    BY <2>1, <1>2, <1>3, <1>4
  <2>2. CASE a # r3
    <3>1. mem[a] # start[a] /\ D < 4
      BY <2>2, <1>1, <1>2, <1>3, <1>5 DEF BelowStack, Addr
    <3> QED
      BY <3>1 DEF RelocInv, LeavesTheRest, BelowStack, D
  <2> QED
    BY <2>1, <2>2
<1> QED
  BY <1>6, <1>7, <1>11, <1>12, <1>13, <1>14 DEF RelocInv

LEMMA RetReloc == RelocInv /\ Ret => RelocInv'
<1> SUFFICES ASSUME RelocInv, Ret PROVE RelocInv'
  OBVIOUS
<1> USE DEF Ret, regs
<1>1. /\ Copying
      /\ \A a \in Payload : mem[D + a - 4] = start[a]
  BY DEF RelocInv, AfterInv
<1>2. StackTop \in Nat /\ StackTop >= 4 /\ start \in [Addr -> Nat]
  BY LoadedAssumption DEF RelocInv, TypeOK
<1>3. EntryPoint(start) \in Nat
  BY <1>2, DestinationNat
<1>4. target' = EntryPoint(start) /\ sp' = StackTop - 1
  BY <1>1, <1>2 DEF Copying
<1>5. TypeOK'
  BY <1>2, <1>3, <1>4 DEF RelocInv, TypeOK, Labels
<1>6. Fits' /\ LeavesTheRest'
  BY DEF RelocInv, Fits, D, LeavesTheRest
<1>7. BeforeInv' /\ BackwardInv' /\ ForwardInv'
  BY DEF BeforeInv, BackwardInv, ForwardInv, Kinds
<1>8. AfterInv'
  BY <1>1, <1>4 DEF AfterInv, EntersMoved, EntersAtTarget, ReturnsToBios,
                    Copying, WayBack, Payload, D
<1> QED
  BY <1>5, <1>6, <1>7, <1>8 DEF RelocInv

LEMMA ReturnReloc == RelocInv /\ ProgramReturns => RelocInv'
<1> SUFFICES ASSUME RelocInv, ProgramReturns PROVE RelocInv'
  OBVIOUS
<1> USE DEF ProgramReturns, regs
<1>1. sp = StackTop - 1 /\ WayBack /\ StackTop \in Nat
  BY LoadedAssumption DEF RelocInv, AfterInv
<1>2. target' = BiosEntry /\ sp' = StackTop
  BY <1>1 DEF WayBack
<1>3. TypeOK'
  BY <1>1, <1>2, CodeAssumption, LoadedAssumption DEF RelocInv, TypeOK, Labels
<1>4. Fits' /\ LeavesTheRest'
  BY DEF RelocInv, Fits, D, LeavesTheRest
<1>5. BeforeInv' /\ BackwardInv' /\ ForwardInv'
  BY DEF BeforeInv, BackwardInv, ForwardInv, Kinds
<1>6. AfterInv'
  BY <1>2 DEF AfterInv, EntersMoved, EntersAtTarget, ReturnsToBios
<1> QED
  BY <1>3, <1>4, <1>5, <1>6 DEF RelocInv

LEMMA NextReloc == RelocInv /\ [Next]_vars => RelocInv'
<1> SUFFICES ASSUME RelocInv, [Next]_vars PROVE RelocInv'
  OBVIOUS
<1>1. CASE UNCHANGED vars
  BY <1>1 DEF vars, regs, RelocInv, TypeOK, Fits, BeforeInv, BackwardInv,
              ForwardInv, AfterInv, LeavesTheRest, D, Copying, WayBack, Payload,
              EntersMoved, EntersAtTarget, ReturnsToBios
<1>2. CASE Next
  BY <1>2, DetectReloc, EnterReloc, EnterBinReloc, EnterRoadrunReloc,
     BackwardReloc, ForwardReloc, RetReloc, ReturnReloc DEF Next
<1> QED
  BY <1>1, <1>2

THEOREM Relocates == Spec => []RelocInv
BY InitReloc, NextReloc, PTL DEF Spec

\* Every program is entered with all its words where they belong: the copy
\* loops of bios.asm:350-366 move an image of any size to any place that fits.
THEOREM MovesImages == Spec => []EntersMoved
<1>1. RelocInv => EntersMoved
  BY DEF RelocInv, AfterInv
<1> QED
  BY <1>1, Relocates, PTL

\* The entry point and the way back to bios_entry, pushed before the copy, are the
\* ones used after it.
THEOREM ReachesAndReturns == Spec => []StackSurvives
<1>1. RelocInv => StackSurvives
  BY DEF RelocInv, AfterInv, StackSurvives
<1> QED
  BY <1>1, Relocates, PTL

\* No word is lost but those of the image's place and the three below it.
THEOREM OverwritesItsPlace == Spec => []LeavesTheRest
<1>1. RelocInv => LeavesTheRest
  BY DEF RelocInv
<1> QED
  BY <1>1, Relocates, PTL
=============================================================================
