--------------------------- MODULE AssemblerProofs ---------------------------
(***************************************************************************)
(* Proofs about the assembler, for every source and every setting of the   *)
(* arguments: the fields of the output hold what their symbols mean, the   *)
(* rest is listed for the linker, and a source is rejected only for a      *)
(* reason.                                                                 *)
(***************************************************************************)
EXTENDS Assembler, FiniteSetTheorems, SequenceTheorems, WellFoundedInduction, TLAPS

LEMMA LessIsWellFounded == IsWellFoundedOn({p \in Nat \X Nat : p[1] < p[2]}, Nat)
BY NatLessThanWellFounded DEF OpToRel

LEMMA NatSetInduction ==
  ASSUME NEW S, 0 \in S, \A n \in Nat : n \in S => n + 1 \in S
  PROVE  Nat \subseteq S
<1> DEFINE R == {p \in Nat \X Nat : p[1] < p[2]}
           T == Nat \ S
<1>1. IsWellFoundedOn(R, Nat)
  BY LessIsWellFounded
<1> HIDE DEF R
<1>2. ASSUME T # {} PROVE FALSE
  <2>1. PICK x \in T : \A y \in T : ~(<<y, x>> \in R)
    BY <1>1, <1>2, WFMin
  <2>2. x \in Nat /\ x # 0 /\ x - 1 \in Nat
    BY <2>1
  <2>3. <<x - 1, x>> \in R
    BY <2>2 DEF R
  <2>4. x - 1 \notin T
    BY <2>1, <2>3
  <2> QED BY <2>1, <2>2, <2>4
<1> QED BY <1>2

-----------------------------------------------------------------------------
(* Where the lines of a source are                                            *)

IsText(lines) ==
  /\ Len(lines) \in Nat /\ DOMAIN lines = 1..Len(lines)
  /\ \A k \in DOMAIN lines : IsLine(lines[k])

LEMMA SizeOfLine ==
  ASSUME NEW l, IsLine(l), NEW p \in Nat
  PROVE  LineSize(l, p) \in Nat
<1>1. CASE l.op \in {"abs", "rel"}
  BY <1>1 DEF LineSize
<1>2. CASE l.op = "mov"
  BY <1>2 DEF LineSize
<1>3. CASE l.op \in {"bytes", "data"}
  BY <1>3 DEF LineSize, IsLine
<1>4. CASE l.op = "align"
  <2>1. l.size \in Nat \ {0} /\ LineSize(l, p) = l.size - (p % l.size)
    BY <1>4 DEF LineSize, IsLine
  <2>2. p % l.size \in 0..(l.size - 1)
    BY <2>1
  <2> QED BY <2>1, <2>2
<1>5. CASE l.op \notin {"abs", "rel", "mov", "bytes", "data", "align"}
  BY <1>5 DEF LineSize
<1> QED BY <1>1, <1>2, <1>3, <1>4, <1>5

\* p places the lines up to the first n.
LaidOut(p, lines, n) ==
  p = [i \in 1..(n + 1) |-> IF i = 1 THEN 0 ELSE p[i - 1] + LineSize(lines[i - 1], p[i - 1])]

LEMMA PlacesExist ==
  ASSUME NEW lines, NEW n \in Nat
  PROVE  \E p : LaidOut(p, lines, n)
<1> DEFINE S == {m \in Nat : \E p : LaidOut(p, lines, m)}
<1>1. 0 \in S
  <2> DEFINE p == [i \in 1..1 |-> 0]
  <2>1. LaidOut(p, lines, 0)
    BY DEF LaidOut
  <2> QED BY <2>1
<1>2. ASSUME NEW m \in Nat, m \in S
      PROVE  m + 1 \in S
  <2>1. PICK p : LaidOut(p, lines, m)
    BY <1>2
  <2> DEFINE last == p[m + 1] + LineSize(lines[m + 1], p[m + 1])
             q == [i \in 1..(m + 2) |-> IF i = m + 2 THEN last ELSE p[i]]
  <2>2. DOMAIN p = 1..(m + 1) /\ DOMAIN q = 1..(m + 2)
    BY <2>1 DEF LaidOut
  <2>3. ASSUME NEW i \in 1..(m + 2)
        PROVE  q[i] = IF i = 1 THEN 0 ELSE q[i - 1] + LineSize(lines[i - 1], q[i - 1])
    <3>1. CASE i = m + 2
      <4>1. q[i] = last /\ q[i - 1] = p[m + 1] /\ i - 1 = m + 1 /\ i # 1
        BY <3>1
      <4> QED BY <4>1
    <3>2. CASE i # m + 2
      <4>1. i \in 1..(m + 1) /\ q[i] = p[i]
        BY <3>2
      <4>2. i # 1 => q[i - 1] = p[i - 1]
        BY <4>1
      <4>3. p[i] = IF i = 1 THEN 0 ELSE p[i - 1] + LineSize(lines[i - 1], p[i - 1])
        BY <2>1, <4>1 DEF LaidOut
      <4> QED BY <4>1, <4>2, <4>3
    <3> QED BY <3>1, <3>2
  <2> HIDE DEF last
  <2>4. LaidOut(q, lines, m + 1)
    <3>1. m + 1 + 1 = m + 2
      OBVIOUS
    <3> QED BY <2>3, <3>1 DEF LaidOut
  <2> QED BY <2>4
<1> HIDE DEF S
<1>3. Nat \subseteq S
  BY <1>1, <1>2, NatSetInduction
<1> QED BY <1>3 DEF S

LEMMA PositionsPlace ==
  ASSUME NEW lines, Len(lines) \in Nat
  PROVE  LaidOut(Positions(lines), lines, Len(lines))
<1>1. \E p : p = [i \in 1..(Len(lines) + 1) |->
                    IF i = 1 THEN 0 ELSE p[i - 1] + LineSize(lines[i - 1], p[i - 1])]
  BY PlacesExist DEF LaidOut
<1> QED BY <1>1 DEF Positions, LaidOut

LEMMA PositionFacts ==
  ASSUME NEW lines, IsText(lines)
  PROVE  /\ Positions(lines)[1] = 0
         /\ \A i \in 1..(Len(lines) + 1) : Positions(lines)[i] \in Nat
         /\ \A i \in 1..Len(lines) :
              Positions(lines)[i + 1] =
                Positions(lines)[i] + LineSize(lines[i], Positions(lines)[i])
<1> DEFINE p == Positions(lines)
<1>1. /\ Len(lines) \in Nat
      /\ p = [i \in 1..(Len(lines) + 1) |->
                IF i = 1 THEN 0 ELSE p[i - 1] + LineSize(lines[i - 1], p[i - 1])]
  BY PositionsPlace DEF LaidOut, IsText
<1> HIDE DEF p
<1>2. p[1] = 0
  BY <1>1
<1>3. ASSUME NEW i \in 1..Len(lines)
      PROVE  p[i + 1] = p[i] + LineSize(lines[i], p[i])
  <2>1. i + 1 \in 1..(Len(lines) + 1) /\ i + 1 # 1 /\ (i + 1) - 1 = i
    BY <1>1
  <2> QED BY <1>1, <2>1
<1> DEFINE S == {m \in Nat : m < Len(lines) + 1 => p[m + 1] \in Nat}
<1>4. 0 \in S
  BY <1>2
<1>5. ASSUME NEW m \in Nat, m \in S
      PROVE  m + 1 \in S
  <2>1. CASE m + 1 < Len(lines) + 1
    <3>1. m + 1 \in 1..Len(lines) /\ p[m + 1] \in Nat
      BY <1>1, <1>5, <2>1
    <3>2. LineSize(lines[m + 1], p[m + 1]) \in Nat
      BY <3>1, SizeOfLine DEF IsText
    <3>3. p[(m + 1) + 1] \in Nat
      BY <1>3, <3>1, <3>2
    <3> QED BY <3>3
  <2>2. CASE ~(m + 1 < Len(lines) + 1)
    BY <2>2
  <2> QED BY <2>1, <2>2
<1> HIDE DEF S
<1>6. Nat \subseteq S
  BY <1>4, <1>5, NatSetInduction
<1>7. ASSUME NEW i \in 1..(Len(lines) + 1)
      PROVE  p[i] \in Nat
  <2>1. i - 1 \in S /\ i - 1 \in Nat /\ i - 1 < Len(lines) + 1 /\ (i - 1) + 1 = i
    BY <1>1, <1>6
  <2> QED BY <2>1 DEF S
<1> QED BY <1>2, <1>3, <1>7 DEF p

\* Later lines are further on.
LEMMA PositionsGrow ==
  ASSUME NEW lines, IsText(lines), NEW i \in 1..(Len(lines) + 1)
  PROVE  \A j \in i..(Len(lines) + 1) : Positions(lines)[i] =< Positions(lines)[j]
<1> DEFINE p == Positions(lines)
           S == {m \in Nat : i + m =< Len(lines) + 1 => p[i] =< p[i + m]}
<1>1. /\ Len(lines) \in Nat
      /\ \A k \in 1..(Len(lines) + 1) : p[k] \in Nat
      /\ \A k \in 1..Len(lines) : p[k + 1] = p[k] + LineSize(lines[k], p[k])
  BY PositionFacts DEF IsText
<1>2. \A k \in 1..Len(lines) : p[k] =< p[k + 1]
  <2> TAKE k \in 1..Len(lines)
  <2>1. p[k] \in Nat /\ IsLine(lines[k])
    BY <1>1 DEF IsText
  <2>2. LineSize(lines[k], p[k]) \in Nat
    BY <2>1, SizeOfLine
  <2> QED BY <1>1, <2>1, <2>2
<1> HIDE DEF p
<1>3. 0 \in S
  BY <1>1
<1>4. ASSUME NEW m \in Nat, m \in S
      PROVE  m + 1 \in S
  <2>1. CASE i + (m + 1) =< Len(lines) + 1
    <3>1. i + m \in 1..Len(lines) /\ i + (m + 1) = (i + m) + 1 /\ p[i] =< p[i + m]
      BY <1>1, <1>4, <2>1
    <3>2. p[i + m] =< p[(i + m) + 1]
      BY <1>2, <3>1
    <3>3. p[i] \in Nat /\ p[i + m] \in Nat /\ p[(i + m) + 1] \in Nat
      BY <1>1, <3>1
    <3> QED BY <3>1, <3>2, <3>3
  <2>2. CASE ~(i + (m + 1) =< Len(lines) + 1)
    BY <2>2
  <2> QED BY <2>1, <2>2
<1> HIDE DEF S
<1>5. Nat \subseteq S
  BY <1>3, <1>4, NatSetInduction
<1>6. ASSUME NEW j \in i..(Len(lines) + 1)
      PROVE  p[i] =< p[j]
  <2>1. j - i \in S /\ j - i \in Nat /\ i + (j - i) = j /\ j =< Len(lines) + 1
    BY <1>1, <1>5
  <2> QED BY <2>1 DEF S
<1> QED BY <1>6 DEF p

-----------------------------------------------------------------------------
(* Where the fields of a source are                                           *)

LEMMA TextFacts ==
  ASSUME input \in Inputs
  PROVE  /\ IsText(Lines)
         /\ Len(Lines) \in Nat /\ DOMAIN Lines = 1..Len(Lines)
         /\ \A k \in DOMAIN Lines : IsLine(Lines[k])
         /\ input.base \in Nat /\ input.pad \in Nat /\ input.pie \in BOOLEAN
BY InputsAssumption DEF Lines, IsText

LEMMA PosFacts ==
  ASSUME input \in Inputs
  PROVE  /\ Pos[1] = 0
         /\ \A i \in 1..(Len(Lines) + 1) : Pos[i] \in Nat
         /\ \A i \in DOMAIN Lines : Pos[i + 1] = Pos[i] + LineSize(Lines[i], Pos[i])
         /\ \A i, j \in 1..(Len(Lines) + 1) : i =< j => Pos[i] =< Pos[j]
<1>1. IsText(Lines) /\ DOMAIN Lines = 1..Len(Lines)
  BY TextFacts
<1>2. ASSUME NEW i \in 1..(Len(Lines) + 1), NEW j \in 1..(Len(Lines) + 1), i =< j
      PROVE  Pos[i] =< Pos[j]
  <2>1. j \in i..(Len(Lines) + 1)
    BY <1>1, <1>2 DEF IsText
  <2> QED BY <1>1, <2>1, PositionsGrow DEF Pos
<1> QED BY <1>1, <1>2, PositionFacts DEF Pos

\* The fields of a line, one kind of line at a time.
LEMMA FieldsByKind ==
  ASSUME NEW i \in References
  PROVE  /\ Lines[i].op = "abs" => FieldsOf(i) =
              {[type |-> "abs16", name |-> Lines[i].name, at |-> Pos[i] + 2, relbase |-> 0]}
         /\ Lines[i].op = "rel" => FieldsOf(i) =
              {[type |-> "rel16", name |-> Lines[i].name, at |-> Pos[i] + 2,
                relbase |-> Word(i)]}
         /\ Lines[i].op = "mov" => FieldsOf(i) =
              {[type |-> "abs16_h", name |-> Lines[i].name, at |-> Pos[i] + 2, relbase |-> 0],
               [type |-> "abs16_l", name |-> Lines[i].name, at |-> Pos[i] + 10, relbase |-> 0]}
         /\ Lines[i].op = "data" => FieldsOf(i) =
              {[type |-> DataType(Lines[i].size), name |-> Lines[i].name, at |-> Pos[i] + 0,
                relbase |-> 0]}
<1>1. CASE Lines[i].op = "abs"
  BY <1>1 DEF FieldsOf
<1>2. CASE Lines[i].op = "rel"
  BY <1>2 DEF FieldsOf
<1>3. CASE Lines[i].op = "mov"
  BY <1>3 DEF FieldsOf
<1>4. CASE Lines[i].op = "data"
  BY <1>4 DEF FieldsOf
<1> QED BY <1>1, <1>2, <1>3, <1>4 DEF References

LEMMA ReferenceKinds ==
  ASSUME input \in Inputs, NEW i \in References
  PROVE  /\ i \in DOMAIN Lines /\ i \in 1..Len(Lines) /\ i + 1 \in 1..(Len(Lines) + 1)
         /\ i \in 1..(Len(Lines) + 1)
         /\ Lines[i].op \in {"abs", "rel", "mov", "data"}
         /\ Pos[i] \in Nat /\ Pos[i + 1] \in Nat
         /\ Pos[i + 1] = Pos[i] + (CASE Lines[i].op \in {"abs", "rel"} -> 4
                                     [] Lines[i].op = "mov" -> 12
                                     [] Lines[i].op = "data" -> Lines[i].size)
         /\ Lines[i].op = "data" => Lines[i].size \in {1, 2, 4, 8}
<1>1. /\ Lines[i].op \in {"abs", "rel", "mov", "data"} /\ i \in DOMAIN Lines
      /\ i \in 1..Len(Lines) /\ IsLine(Lines[i]) /\ Len(Lines) \in Nat
  BY TextFacts DEF References
<1>2. /\ i + 1 \in 1..(Len(Lines) + 1) /\ i \in 1..(Len(Lines) + 1)
      /\ Pos[i] \in Nat /\ Pos[i + 1] \in Nat
      /\ Pos[i + 1] = Pos[i] + LineSize(Lines[i], Pos[i])
  BY <1>1, PosFacts
<1>3. LineSize(Lines[i], Pos[i]) = CASE Lines[i].op \in {"abs", "rel"} -> 4
                                     [] Lines[i].op = "mov" -> 12
                                     [] Lines[i].op = "data" -> Lines[i].size
  BY <1>1 DEF LineSize
<1> QED BY <1>1, <1>2, <1>3 DEF IsLine

LEMMA FieldsInLine ==
  ASSUME input \in Inputs, NEW i \in References
  PROVE  /\ \A d \in FieldsOf(i) : /\ d.name = Lines[i].name
                                   /\ d.at \in Nat /\ Pos[i] =< d.at /\ d.at < Pos[i + 1]
         /\ \A d, e \in FieldsOf(i) : d.at = e.at => d = e
<1>0. /\ Pos[i] \in Nat /\ Pos[i + 1] \in Nat
      /\ Lines[i].op \in {"abs", "rel"} => Pos[i + 1] = Pos[i] + 4
      /\ Lines[i].op = "mov" => Pos[i + 1] = Pos[i] + 12
      /\ Lines[i].op = "data" => /\ Pos[i + 1] = Pos[i] + Lines[i].size
                                 /\ Lines[i].size \in {1, 2, 4, 8}
  BY ReferenceKinds
<1>1. CASE Lines[i].op = "abs"
  BY <1>0, <1>1, FieldsByKind
<1>2. CASE Lines[i].op = "rel"
  <2>1. FieldsOf(i) = {[type |-> "rel16", name |-> Lines[i].name, at |-> Pos[i] + 2,
                        relbase |-> Word(i)]}
    BY <1>2, FieldsByKind
  <2> QED BY <1>0, <1>2, <2>1
<1>3. CASE Lines[i].op = "mov"
  BY <1>0, <1>3, FieldsByKind
<1>4. CASE Lines[i].op = "data"
  BY <1>0, <1>4, FieldsByKind
<1> QED BY <1>1, <1>2, <1>3, <1>4, ReferenceKinds

\* The fields of different lines are in different places, in the lines' order.
LEMMA FieldsInOrder ==
  ASSUME input \in Inputs, NEW i \in References, NEW j \in References, i < j,
         NEW d \in FieldsOf(i), NEW e \in FieldsOf(j)
  PROVE  d.at < e.at
<1>1. /\ d.at \in Nat /\ d.at < Pos[i + 1] /\ e.at \in Nat /\ Pos[j] =< e.at
      /\ Pos[i + 1] \in Nat /\ Pos[j] \in Nat
      /\ i + 1 \in 1..(Len(Lines) + 1) /\ j \in 1..(Len(Lines) + 1) /\ i + 1 =< j
  <2>1. i \in 1..Len(Lines) /\ j \in 1..Len(Lines) /\ Len(Lines) \in Nat
    BY ReferenceKinds, TextFacts
  <2> QED BY <2>1, ReferenceKinds, FieldsInLine
<1>2. Pos[i + 1] =< Pos[j]
  BY <1>1, PosFacts
<1> QED BY <1>1, <1>2

LEMMA FieldsApart ==
  ASSUME input \in Inputs, NEW i \in References, NEW j \in References,
         NEW d \in FieldsOf(i), NEW e \in FieldsOf(j), d.at = e.at
  PROVE  i = j /\ d = e
<1>1. d.at \in Nat /\ e.at \in Nat /\ i \in Nat /\ j \in Nat
  BY FieldsInLine, ReferenceKinds
<1>2. ~(i < j) /\ ~(j < i)
  BY <1>1, FieldsInOrder
<1>3. i = j
  BY <1>1, <1>2
<1> QED BY <1>3, FieldsInLine

-----------------------------------------------------------------------------
(* What has been done so far                                                  *)

\* The lines before this one are assembled, and the deferred fields before that
\* one are dealt with.
Reached == IF phase = "prepass" THEN 1 ELSE IF phase = "assemble" THEN line ELSE Len(Lines) + 1
FixedTo == IF phase \in {"fixup", "done"} THEN line ELSE 1

Met == {i \in DOMAIN Lines :
          \/ Lines[i].op = "equ" /\ (phase = "prepass" => i < line)
          \/ Lines[i].op = "label" /\ i < Reached}
Assembled == {i \in References : i < Reached}
AllFields == UNION {FieldsOf(i) : i \in References}
Live      == phase \notin {"failed", "crashed"}

\* Where the assembler is.
PlaceInv ==
  /\ line \in Nat \ {0}
  /\ phase \in {"prepass", "assemble"} => line =< Len(Lines) + 1
  /\ phase \in {"fixup", "done"} => line =< Len(unresolved) + 1
  /\ offset = Pos[Reached] /\ vmembase = BaseAt(Reached)
  /\ \A n : n \in exports <=>
       \E i \in DOMAIN Lines : i < Reached /\ Lines[i].op = "extern" /\ Lines[i].name = n
  /\ \A i \in DOMAIN Lines : i < Reached /\ Lines[i].op = "org" => Fits(Lines[i].value, 4)

\* The symbols are those of the lines met, each met once, with their values.
SymbolInv ==
  /\ \A i, j \in Met : Lines[i].name = Lines[j].name => i = j
  /\ \A n : n \in DOMAIN symbols <=> \E i \in Met : Lines[i].name = n
  /\ \A i \in Met :
       LET s == symbols[Lines[i].name] IN
       /\ s.const <=> Lines[i].op = "equ"
       /\ s.value = ValueAt(i)

\* Every assembled line has its fields; those it could resolve have their values.
FieldInv ==
  /\ \A i \in Assembled : \A d \in FieldsOf(i) : d.at \in DOMAIN fields
  /\ Distinct =>
       \A i \in Assembled : KnownAt(i) =>
         \A d \in FieldsOf(i) : fields[d.at] = Meant(d) /\ Holds(d)
  /\ \A i \in Assembled : Lines[i].op = "abs" /\ ~KnownAt(i) => Fits(BaseAt(i), 2)

\* The others are deferred, in their order.
DeferInv ==
  /\ unresolved \in Seq(AllFields)
  /\ \A k \in DOMAIN unresolved :
       \E i \in Assembled : ~KnownAt(i) /\ unresolved[k] \in FieldsOf(i)
  /\ \A i \in Assembled : ~KnownAt(i) =>
       \A d \in FieldsOf(i) : \E k \in DOMAIN unresolved : unresolved[k] = d
  /\ \A k, m \in DOMAIN unresolved : k < m => unresolved[k].at < unresolved[m].at

\* A deferred field that was dealt with is either kept, in its order, or filled.
KeptInv ==
  /\ kept \in Seq(AllFields)
  /\ \A k \in DOMAIN unresolved : k < FixedTo =>
       IF LeftToLinker(unresolved[k])
       THEN \E m \in DOMAIN kept : kept[m] = unresolved[k]
       ELSE /\ unresolved[k].name \in DOMAIN symbols
            /\ Packable(unresolved[k])
            /\ fields[unresolved[k].at] = Packed(unresolved[k])
  /\ \A m \in DOMAIN kept :
       \E k \in DOMAIN unresolved :
         k < FixedTo /\ LeftToLinker(unresolved[k]) /\ kept[m] = unresolved[k]
  /\ \A m, n \in DOMAIN kept : m < n => kept[m].at < kept[n].at

DoneInv ==
  phase = "done" =>
    /\ line > Len(unresolved) /\ offset =< Padded
    /\ input.format \in FormatNames /\ input.compressor \in CompressorNames
    /\ Encodable

IndInv ==
  /\ input \in Inputs
  /\ phase \in {"prepass", "assemble", "fixup"} \cup Final
  /\ Live => PlaceInv /\ SymbolInv /\ FieldInv /\ DeferInv /\ KeptInv /\ DoneInv
  /\ ~Live => ~Acceptable

-----------------------------------------------------------------------------
(* What a source means does not change while it is assembled.                 *)

LEMMA TextSame ==
  ASSUME input' = input
  PROVE  /\ Lines' = Lines /\ Pos' = Pos /\ References' = References
         /\ \A i : BaseAt(i)' = BaseAt(i)
         /\ \A n : Definitions(n)' = Definitions(n)
         /\ Distinct' <=> Distinct
<1>1. Lines' = Lines
  BY DEF Lines
<1>2. Pos' = Pos
  BY <1>1 DEF Pos
<1>3. References' = References
  BY <1>1 DEF References
<1>4. ASSUME NEW i PROVE BaseAt(i)' = BaseAt(i)
  BY <1>1 DEF BaseAt
<1>5. ASSUME NEW n PROVE Definitions(n)' = Definitions(n)
  BY <1>1 DEF Definitions
<1>6. Distinct' <=> Distinct
  BY <1>1 DEF Distinct
<1> QED BY <1>1, <1>2, <1>3, <1>4, <1>5, <1>6

Some(S) == CHOOSE i \in S : TRUE

LEMMA MeaningSame ==
  ASSUME input' = input
  PROVE  /\ \A i : /\ Word(i)' = Word(i) /\ FieldsOf(i)' = FieldsOf(i)
                   /\ KnownAt(i)' <=> KnownAt(i)
         /\ \A n : Value(n)' = Value(n)
         /\ \A d : Meant(d)' = Meant(d) /\ (Holds(d)' <=> Holds(d))
         /\ AllFields' = AllFields
<1>1. /\ Lines' = Lines /\ Pos' = Pos /\ References' = References
      /\ \A i : BaseAt(i)' = BaseAt(i)
      /\ \A n : Definitions(n)' = Definitions(n)
  BY TextSame
<1>2. ASSUME NEW i PROVE Word(i)' = Word(i)
  BY <1>1 DEF Word
<1>3. ASSUME NEW i PROVE FieldsOf(i)' = FieldsOf(i)
  BY <1>1, <1>2 DEF FieldsOf
<1>4. ASSUME NEW n PROVE Value(n)' = Value(n)
  <2>1. ASSUME NEW i PROVE ValueAt(i)' = ValueAt(i)
    BY <1>1, <1>2 DEF ValueAt
  <2>2. Definition(n) = Some(Definitions(n)) /\ Definition(n)' = Some(Definitions(n)')
    BY DEF Definition, Some
  <2>3. Definition(n)' = Definition(n)
    BY <1>1, <2>2
  <2> QED BY <2>1, <2>3 DEF Value
<1>5. ASSUME NEW i PROVE KnownAt(i)' <=> KnownAt(i)
  BY <1>1 DEF KnownAt, IsConst
<1>6. ASSUME NEW d PROVE Meant(d)' = Meant(d)
  BY <1>4 DEF Meant
<1>7. ASSUME NEW d PROVE Holds(d)' <=> Holds(d)
  BY <1>4, <1>6 DEF Holds
<1>8. AllFields' = AllFields
  BY <1>1, <1>3 DEF AllFields
<1> QED BY <1>2, <1>3, <1>4, <1>5, <1>6, <1>7, <1>8

LEMMA EncodableSame == ASSUME input' = input PROVE Encodable' <=> Encodable
<1>1. /\ Lines' = Lines /\ References' = References
      /\ \A i : BaseAt(i)' = BaseAt(i)
      /\ \A n : Definitions(n)' = Definitions(n)
  BY TextSame
<1>2. /\ \A i : FieldsOf(i)' = FieldsOf(i) /\ (KnownAt(i)' <=> KnownAt(i))
      /\ \A n : Value(n)' = Value(n)
  BY MeaningSame
<1>3. PICK ls, left : ls = Listings /\ left = LeftThere
  OBVIOUS
<1>4. Listings' = ls
  <2>1. \A n : Exported(n)' <=> Exported(n)
    BY <1>1 DEF Exported
  <2>2. \A l : Listing(l)' <=> Listing(l)
    BY <2>1 DEF Listing, ExportAll
  <2> HIDE DEF Lines
  <2> QED BY <1>1, <1>3, <2>2 DEF Listings
<1>5. LeftThere' = left
  <2>1. \A i : IsLeft(i)' <=> IsLeft(i)
    <3> HIDE DEF Lines
    <3> QED BY <1>1, <1>2 DEF IsLeft
  <2> QED BY <1>1, <1>2, <1>3, <2>1 DEF LeftThere
<1>6. InLines' = InLines /\ InPlaces' = InPlaces
  <2>1. InLines = Ranked(ls, [i \in ls |-> i]) /\ InPlaces = Ranked(left, [d \in left |-> d.at])
    BY <1>3 DEF InLines, InPlaces
  <2>2. /\ InLines' = Ranked(ls, [i \in ls |-> i])
        /\ InPlaces' = Ranked(left, [d \in left |-> d.at])
    BY <1>4, <1>5 DEF InLines, InPlaces
  <2> QED BY <2>1, <2>2
<1>7. Base' = Base /\ Written' = Written
  <2>1. Pos' = Pos
    BY TextSame
  <2> QED BY <1>1, <2>1 DEF Base, Written, Size
<1>8. PICK lines, places : lines = InLines /\ places = InPlaces
  OBVIOUS
<1>9. lines = InLines' /\ places = InPlaces'
  BY <1>6, <1>8
<1>10. PICK labels : labels = [i \in DOMAIN lines |-> [name  |-> Lines[lines[i]].name,
                                                     value |-> Value(Lines[lines[i]].name)]]
  OBVIOUS
<1>11. labels = [i \in DOMAIN lines |-> [name  |-> Lines[lines[i]].name,
                                        value |-> Value(Lines[lines[i]].name)]]'
  BY <1>1, <1>2, <1>9, <1>10
<1>12. PICK entry : entry = IF Definitions(input.entry) = {} THEN 0 ELSE Value(input.entry)
  OBVIOUS
<1>13. entry = (IF Definitions(input.entry) = {} THEN 0 ELSE Value(input.entry))'
  BY <1>1, <1>2, <1>12
<1>14. Encodable <=> Packs(input.format, Base, entry, labels, places, Written)
  BY <1>8, <1>10, <1>12 DEF Encodable
<1>15. Encodable' <=> Packs(input.format, Base, entry, labels, places, Written)
  BY <1>7, <1>9, <1>11, <1>13 DEF Encodable
<1> QED BY <1>14, <1>15

LEMMA AcceptableSame == ASSUME input' = input PROVE Acceptable' <=> Acceptable
<1>1. /\ Lines' = Lines /\ Pos' = Pos /\ References' = References
      /\ \A i : BaseAt(i)' = BaseAt(i)
      /\ \A n : Definitions(n)' = Definitions(n)
      /\ Distinct' <=> Distinct
  BY TextSame
<1>2. \A i : /\ FieldsOf(i)' = FieldsOf(i) /\ (KnownAt(i)' <=> KnownAt(i))
  BY MeaningSame
<1>3. \A d : Holds(d)' <=> Holds(d)
  BY MeaningSame
<1>4. ASSUME NEW i PROVE IsLeft(i)' <=> IsLeft(i)
  BY <1>1, <1>2 DEF IsLeft
<1>5. ASSUME NEW n PROVE Exported(n)' <=> Exported(n)
  BY <1>1 DEF Exported
<1>6. Size' = Size
  BY <1>1 DEF Size
<1>7. (IsElf' <=> IsElf) /\ (Encodable' <=> Encodable)
  BY EncodableSame DEF IsElf
<1> HIDE DEF Lines
<1> QED BY <1>1, <1>2, <1>3, <1>4, <1>5, <1>6, <1>7 DEF Acceptable

\* A step that stops with an error has to show that there is one.
LEMMA StopKeepsInd ==
  ASSUME IndInv, ~Acceptable, NEW how \in {"failed", "crashed"}, Stop(how)
  PROVE  IndInv'
<1>1. input' = input /\ phase' = how
  BY DEF Stop
<1>2. ~Acceptable'
  BY <1>1, AcceptableSame
<1> QED BY <1>1, <1>2 DEF IndInv, Live, Final

-----------------------------------------------------------------------------
(* What the tables say of a source                                            *)

LEMMA BaseAtNext ==
  ASSUME input \in Inputs, NEW i \in DOMAIN Lines
  PROVE  BaseAt(i + 1) = IF Lines[i].op = "org" THEN Lines[i].value ELSE BaseAt(i)
<1> DEFINE Orgs(k) == {j \in DOMAIN Lines : j < k /\ Lines[j].op = "org"}
<1>1. DOMAIN Lines \subseteq Nat
  BY TextFacts
<1>2. \A k : BaseAt(k) = IF Orgs(k) = {} THEN input.base ELSE Lines[Max(Orgs(k))].value
  BY DEF BaseAt
<1>3. CASE Lines[i].op = "org"
  <2>1. i \in Orgs(i + 1) /\ \A j \in Orgs(i + 1) : i >= j
    BY <1>1, <1>3
  <2>2. \A j \in Orgs(i + 1) : j \in Nat
    BY <1>1
  <2> HIDE DEF Orgs
  <2>3. Max(Orgs(i + 1)) = i
    <3>1. \A j \in Orgs(i + 1) : (\A k \in Orgs(i + 1) : j >= k) => j = i
      BY <1>1, <2>1, <2>2
    <3> QED BY <2>1, <3>1 DEF Max
  <2> QED BY <1>2, <1>3, <2>1, <2>3
<1>4. CASE Lines[i].op # "org"
  <2>1. Orgs(i + 1) = Orgs(i)
    BY <1>1, <1>4
  <2> HIDE DEF Orgs
  <2> QED BY <1>2, <1>4, <2>1
<1> QED BY <1>3, <1>4

\* The value that a symbol has is the one it means.
LEMMA SymbolMeans ==
  ASSUME input \in Inputs, SymbolInv, Distinct, NEW n \in DOMAIN symbols
  PROVE  symbols[n].value = Value(n)
<1>1. PICK i \in Met : Lines[i].name = n
  BY DEF SymbolInv
<1>2. /\ i \in DOMAIN Lines /\ Lines[i].op \in {"label", "equ"}
      /\ symbols[n].value = ValueAt(i)
  BY <1>1 DEF SymbolInv, Met
<1>3. Definitions(n) = {i}
  BY <1>1, <1>2 DEF Definitions, Distinct
<1>4. Definition(n) = i
  BY <1>3 DEF Definition
<1> QED BY <1>2, <1>4 DEF Value

\* After the last line every definition was met.
LEMMA AllMet ==
  ASSUME input \in Inputs, SymbolInv, phase \in {"fixup", "done"}
  PROVE  /\ Distinct
         /\ \A n : n \in DOMAIN symbols <=> Definitions(n) # {}
<1>1. Met = {i \in DOMAIN Lines : Lines[i].op \in {"label", "equ"}}
  <2>1. Reached = Len(Lines) + 1 /\ \A i \in DOMAIN Lines : i < Len(Lines) + 1
    BY TextFacts DEF Reached
  <2> QED BY <2>1 DEF Met
<1>2. Distinct
  BY <1>1 DEF SymbolInv, Distinct
<1>3. ASSUME NEW n PROVE n \in DOMAIN symbols <=> Definitions(n) # {}
  BY <1>1 DEF SymbolInv, Definitions
<1> QED BY <1>2, <1>3

\* What is known while a line is assembled is what should be.
LEMMA KnownIsKnownAt ==
  ASSUME input \in Inputs, SymbolInv, phase = "assemble", line \in References,
         Lines[line].op # "mov"
  PROVE  Known(Lines[line].name) <=> KnownAt(line)
<1> DEFINE n == Lines[line].name
<1>1. Met = {i \in DOMAIN Lines : Lines[i].op = "equ" \/ (Lines[i].op = "label" /\ i < line)}
  BY DEF Met, Reached
<1>2. ASSUME Known(n) PROVE KnownAt(line)
  <2>1. PICK i \in Met : Lines[i].name = n
    BY <1>2 DEF Known, SymbolInv
  <2>2. i \in Definitions(n) /\ (symbols[n].const <=> Lines[i].op = "equ")
    BY <1>1, <2>1 DEF Definitions, SymbolInv
  <2>3. CASE Lines[i].op = "equ"
    BY <2>2, <2>3 DEF KnownAt, IsConst
  <2>4. CASE Lines[i].op # "equ"
    <3>1. i < line /\ ~input.pie
      BY <1>1, <1>2, <2>1, <2>2, <2>4 DEF Known
    <3> QED BY <2>2, <3>1 DEF KnownAt
  <2> QED BY <2>3, <2>4
<1>3. ASSUME KnownAt(line) PROVE Known(n)
  <2>1. CASE IsConst(n)
    <3>1. PICK i \in Definitions(n) : Lines[i].op = "equ"
      BY <2>1 DEF IsConst
    <3>2. i \in Met /\ Lines[i].name = n
      BY <1>1, <3>1 DEF Definitions
    <3> QED BY <3>1, <3>2 DEF Known, SymbolInv
  <2>2. CASE ~input.pie /\ \E j \in Definitions(n) : j < line
    <3>1. PICK j \in Definitions(n) : j < line
      BY <2>2
    <3>2. j \in Met /\ Lines[j].name = n
      BY <1>1, <3>1 DEF Definitions
    <3> QED BY <2>2, <3>2 DEF Known, SymbolInv
  <2> QED BY <1>3, <2>1, <2>2 DEF KnownAt
<1> QED BY <1>2, <1>3

-----------------------------------------------------------------------------
(* One line further                                                           *)

LEMMA InitInd == Init => IndInv
<1> SUFFICES ASSUME Init PROVE IndInv
  OBVIOUS
<1>1. /\ input \in Inputs /\ phase = "prepass" /\ line = 1 /\ offset = 0
      /\ vmembase = input.base /\ exports = {} /\ unresolved = <<>> /\ kept = <<>>
      /\ DOMAIN symbols = {}
  BY DEF Init
<1>2. Reached = 1 /\ FixedTo = 1
  BY <1>1 DEF Reached, FixedTo
<1>3. \A i \in DOMAIN Lines : i \in Nat /\ ~(i < 1)
  BY <1>1, TextFacts
<1>4. Met = {} /\ Assembled = {}
  <2>1. \A i \in References : i \in DOMAIN Lines
    BY DEF References
  <2> QED BY <1>1, <1>2, <1>3, <2>1 DEF Met, Assembled
<1>5. PlaceInv
  <2>1. BaseAt(1) = input.base
    BY <1>3 DEF BaseAt
  <2>2. Pos[1] = 0 /\ Len(Lines) \in Nat
    BY <1>1, PosFacts, TextFacts
  <2> QED BY <1>1, <1>2, <1>3, <2>1, <2>2 DEF PlaceInv
<1>6. SymbolInv
  BY <1>1, <1>4 DEF SymbolInv
<1>7. FieldInv
  BY <1>4 DEF FieldInv
<1>8. DeferInv /\ KeptInv
  BY <1>1, <1>2, <1>4 DEF DeferInv, KeptInv
<1> QED BY <1>1, <1>5, <1>6, <1>7, <1>8 DEF IndInv, DoneInv, Live, Final

\* The step is one of the assembling pass over a line.
Over(n) ==
  /\ phase = "assemble" /\ line \in DOMAIN Lines
  /\ input' = input /\ phase' = phase /\ line' = line + 1
  /\ offset' = offset + n /\ kept' = kept

LEMMA ReachedNext ==
  ASSUME IndInv, NEW n, Over(n)
  PROVE  /\ Reached = line /\ Reached' = line + 1 /\ FixedTo = 1 /\ FixedTo' = 1
         /\ line \in Nat \ {0} /\ input \in Inputs /\ input' \in Inputs
         /\ PlaceInv /\ SymbolInv /\ FieldInv /\ DeferInv /\ KeptInv
         /\ \A i : i \in Assembled' <=> i \in Assembled \/ (i = line /\ line \in References)
         /\ \A i \in Assembled : i \in References /\ i < line
         /\ line \notin Assembled
         /\ \A i : i \in Met' <=> i \in Met \/ (i = line /\ Lines[line].op = "label")
         /\ line \in Met => Lines[line].op = "equ"
<1>1. phase = "assemble" /\ phase' = "assemble" /\ line' = line + 1 /\ input' = input
  BY DEF Over
<1>2. /\ Reached = line /\ Reached' = line + 1 /\ FixedTo = 1 /\ FixedTo' = 1
      /\ PlaceInv /\ SymbolInv /\ FieldInv /\ DeferInv /\ KeptInv
      /\ line \in Nat \ {0} /\ input \in Inputs
  BY <1>1 DEF Reached, FixedTo, IndInv, Live, PlaceInv
<1>3. Lines' = Lines /\ References' = References
  BY <1>1, TextSame
<1>4. References \subseteq DOMAIN Lines /\ DOMAIN Lines \subseteq Nat
  BY <1>2, TextFacts DEF References
<1>5. \A i \in Nat : i < line + 1 <=> i < line \/ i = line
  BY <1>2
<1>6. ASSUME NEW i
      PROVE  i \in Assembled' <=> i \in Assembled \/ (i = line /\ line \in References)
  BY <1>2, <1>3, <1>4, <1>5 DEF Assembled
<1>7. line \in DOMAIN Lines
  BY DEF Over
<1>8. ASSUME NEW i
      PROVE  i \in Met' <=> i \in Met \/ (i = line /\ Lines[line].op = "label")
  BY <1>1, <1>2, <1>3, <1>4, <1>5, <1>7 DEF Met
<1>9. /\ \A i \in Assembled : i \in References /\ i < line
      /\ line \notin Assembled
      /\ line \in Met => Lines[line].op = "equ"
  BY <1>2 DEF Assembled, Met
<1> QED BY <1>1, <1>2, <1>6, <1>8, <1>9

LEMMA PlaceStep ==
  ASSUME IndInv, Over(LineSize(Lines[line], offset)),
         vmembase' = IF Lines[line].op = "org" THEN Lines[line].value ELSE vmembase,
         exports' = IF Lines[line].op = "extern" THEN exports \cup {Lines[line].name}
                    ELSE exports,
         Lines[line].op = "org" => Fits(Lines[line].value, 4)
  PROVE  PlaceInv'
<1>1. /\ Reached = line /\ Reached' = line + 1 /\ line \in Nat \ {0} /\ input \in Inputs
      /\ PlaceInv /\ line \in DOMAIN Lines
      /\ input' = input /\ line' = line + 1 /\ phase' = "assemble"
      /\ offset' = offset + LineSize(Lines[line], offset)
  BY ReachedNext DEF Over
<1>2. Lines' = Lines /\ Pos' = Pos /\ \A i : BaseAt(i)' = BaseAt(i)
  BY <1>1, TextSame
<1>3. offset' = Pos[line + 1]
  BY <1>1, PosFacts DEF PlaceInv
<1>4. vmembase' = BaseAt(line + 1)
  BY <1>1, BaseAtNext DEF PlaceInv
<1>5. DOMAIN Lines = 1..Len(Lines) /\ Len(Lines) \in Nat
  BY <1>1, TextFacts
<1>6. ASSUME NEW n
      PROVE  n \in exports' <=>
               \E i \in DOMAIN Lines : /\ i < line + 1
                                       /\ Lines[i].op = "extern" /\ Lines[i].name = n
  <2>1. n \in exports <=>
          \E i \in DOMAIN Lines : i < line /\ Lines[i].op = "extern" /\ Lines[i].name = n
    BY <1>1 DEF PlaceInv
  <2>2. \A i \in DOMAIN Lines : i < line + 1 <=> i < line \/ i = line
    BY <1>1, <1>5
  <2> QED BY <1>1, <2>1, <2>2
<1>7. BaseAt(Reached)' = BaseAt(line + 1)
  BY <1>1, <1>2
<1>8. ASSUME NEW i \in DOMAIN Lines, i < line + 1, Lines[i].op = "org"
      PROVE  Fits(Lines[i].value, 4)
  <2>1. i < line \/ i = line
    BY <1>1, <1>5, <1>8
  <2> QED BY <1>1, <1>8, <2>1 DEF PlaceInv
<1> HIDE DEF Lines
<1> QED BY <1>1, <1>2, <1>3, <1>4, <1>5, <1>6, <1>7, <1>8 DEF PlaceInv

LEMMA SymbolStep ==
  ASSUME IndInv, NEW n, Over(n), symbols' = symbols, Lines[line].op # "label"
  PROVE  SymbolInv'
<1>1. input' = input /\ SymbolInv
  BY ReachedNext DEF Over
<1>2. Lines' = Lines /\ \A i : ValueAt(i)' = ValueAt(i)
  BY <1>1, TextSame, MeaningSame DEF ValueAt
<1>3. Met' = Met
  <2>1. \A i : i \in Met' <=> i \in Met
    BY ReachedNext
  <2>2. Met' \subseteq Met /\ Met \subseteq Met'
    BY <2>1
  <2> QED BY <2>2
<1> QED BY <1>1, <1>2, <1>3 DEF SymbolInv

\* A label's line was not met before, and no line with its name.
LEMMA LabelStep ==
  ASSUME IndInv, DefineLabel
  PROVE  SymbolInv'
<1> DEFINE name == Lines[line].name
<1>1. /\ Lines[line].op = "label" /\ name \notin DOMAIN symbols
      /\ Symbol(name, Here, FALSE) /\ line \in DOMAIN Lines
      /\ input' = input /\ Over(0)
  <2>1. offset \in Nat
    <3>1. /\ input \in Inputs /\ offset = Pos[line] /\ line \in 1..(Len(Lines) + 1)
      <4>1. PlaceInv /\ input \in Inputs /\ phase = "assemble" /\ line \in DOMAIN Lines
        BY DEF DefineLabel, At, IndInv, Live
      <4>2. Reached = line
        BY <4>1 DEF Reached
      <4> QED BY <4>1, <4>2, TextFacts DEF PlaceInv
    <3> QED BY <3>1, PosFacts
  <2>2. /\ phase = "assemble" /\ line \in DOMAIN Lines /\ Lines[line].op = "label"
        /\ name \notin DOMAIN symbols /\ Symbol(name, Here, FALSE)
        /\ line' = line + 1 /\ input' = input /\ phase' = phase
        /\ offset' = offset /\ kept' = kept
    BY DEF DefineLabel, At
  <2>3. offset' = offset + 0
    BY <2>1, <2>2
  <2>4. Over(0)
    BY <2>2, <2>3, Zenon DEF Over
  <2> HIDE DEF name
  <2> QED BY <2>2, <2>4, Zenon
<1>2. /\ SymbolInv /\ PlaceInv /\ Reached = line
      /\ \A i : i \in Met' <=> i \in Met \/ i = line
      /\ line \notin Met
  BY <1>1, ReachedNext
<1>3. Lines' = Lines /\ \A i : ValueAt(i)' = ValueAt(i)
  BY <1>1, TextSame, MeaningSame DEF ValueAt
<1>4. ValueAt(line) = Here
  BY <1>1, <1>2 DEF ValueAt, Word, Here, PlaceInv
<1> DEFINE new == [value |-> Here, const |-> FALSE, nth |-> Cardinality(DOMAIN symbols) + 1]
<1>5. /\ DOMAIN symbols' = DOMAIN symbols \cup {name}
      /\ symbols'[name] = new
      /\ \A x \in DOMAIN symbols : symbols'[x] = symbols[x]
  BY <1>1 DEF Symbol, Define
<1>6. \A i \in Met : Lines[i].name \in DOMAIN symbols /\ Lines[i].name # name
  BY <1>1, <1>2 DEF SymbolInv
<1>7. ASSUME NEW i \in Met', NEW j \in Met', Lines[i].name = Lines[j].name
      PROVE  i = j
  BY <1>2, <1>6, <1>7 DEF SymbolInv
<1>8. ASSUME NEW n
      PROVE  n \in DOMAIN symbols' <=> \E i \in Met' : Lines[i].name = n
  BY <1>2, <1>5 DEF SymbolInv
<1>9. ASSUME NEW i \in Met'
      PROVE  /\ symbols'[Lines[i].name].const <=> Lines[i].op = "equ"
             /\ symbols'[Lines[i].name].value = ValueAt(i)
  <2>1. CASE i = line
    <3>1. symbols'[Lines[i].name] = new
      BY <1>5, <2>1
    <3> QED BY <1>1, <1>4, <2>1, <3>1
  <2>2. CASE i \in Met
    <3>1. symbols'[Lines[i].name] = symbols[Lines[i].name]
      BY <1>5, <1>6, <2>2
    <3> QED BY <1>2, <2>2, <3>1 DEF SymbolInv
  <2> QED BY <1>2, <2>1, <2>2
<1> HIDE DEF Lines
<1> QED BY <1>3, <1>7, <1>8, <1>9 DEF SymbolInv

\* Nothing is kept before the last pass.
LEMMA KeptStep ==
  ASSUME IndInv, NEW n, Over(n), DeferInv'
  PROVE  KeptInv'
<1>1. /\ KeptInv /\ FixedTo = 1 /\ FixedTo' = 1 /\ kept' = kept /\ DeferInv
      /\ AllFields' = AllFields
  BY ReachedNext, MeaningSame DEF Over
<1>2. \A k \in DOMAIN unresolved : ~(k < 1)
  BY <1>1 DEF DeferInv
<1>3. DOMAIN kept = {} /\ kept \in Seq(AllFields)
  BY <1>1, <1>2 DEF KeptInv
<1>4. kept = <<>>
  BY <1>3
<1>5. \A k \in DOMAIN unresolved' : ~(k < 1)
  BY DEF DeferInv
<1>6. kept' = <<>> /\ kept' \in Seq(AllFields') /\ DOMAIN kept' = {}
  BY <1>1, <1>4
<1> QED BY <1>1, <1>5, <1>6 DEF KeptInv

\* A line without a symbol.
LEMMA NoFieldStep ==
  ASSUME IndInv, NEW n, Over(n), line \notin References,
         UNCHANGED <<fields, unresolved>>
  PROVE  FieldInv' /\ DeferInv'
<1>1. FieldInv /\ DeferInv /\ input' = input
  BY ReachedNext DEF Over
<1>2. Assembled' = Assembled
  <2>1. \A i : i \in Assembled' <=> i \in Assembled
    BY ReachedNext
  <2>2. Assembled' \subseteq Assembled /\ Assembled \subseteq Assembled'
    BY <2>1
  <2> QED BY <2>2
<1>3. /\ Lines' = Lines /\ (Distinct' <=> Distinct) /\ \A i : BaseAt(i)' = BaseAt(i)
      /\ \A i : FieldsOf(i)' = FieldsOf(i) /\ (KnownAt(i)' <=> KnownAt(i))
      /\ \A d : Meant(d)' = Meant(d) /\ (Holds(d)' <=> Holds(d))
      /\ AllFields' = AllFields
  BY <1>1, TextSame, MeaningSame
<1> HIDE DEF Lines
<1>4. FieldInv'
  BY <1>1, <1>2, <1>3 DEF FieldInv
<1>5. DeferInv'
  BY <1>1, <1>2, <1>3 DEF DeferInv
<1> QED BY <1>4, <1>5

\* A line with a symbol: what was in the assembly before stays as it was.
LEMMA FieldStep ==
  ASSUME IndInv, NEW n, Over(n), line \in References,
         DOMAIN fields \subseteq DOMAIN fields',
         \A a \in DOMAIN fields :
           (\A d \in FieldsOf(line) : d.at # a) => fields'[a] = fields[a],
         \A d \in FieldsOf(line) : d.at \in DOMAIN fields',
         Distinct /\ KnownAt(line) =>
           \A d \in FieldsOf(line) : fields'[d.at] = Meant(d) /\ Holds(d),
         Lines[line].op = "abs" /\ ~KnownAt(line) => Fits(BaseAt(line), 2)
  PROVE  FieldInv'
<1>1. FieldInv /\ input' = input /\ input \in Inputs
  BY ReachedNext DEF Over
<1>2. /\ \A i : i \in Assembled' <=> i \in Assembled \/ i = line
      /\ \A i \in Assembled : i \in References /\ i # line
  BY ReachedNext
<1>3. /\ Lines' = Lines /\ (Distinct' <=> Distinct) /\ \A i : BaseAt(i)' = BaseAt(i)
      /\ \A i : FieldsOf(i)' = FieldsOf(i) /\ (KnownAt(i)' <=> KnownAt(i))
      /\ \A d : Meant(d)' = Meant(d) /\ (Holds(d)' <=> Holds(d))
  BY <1>1, TextSame, MeaningSame
<1>4. \A i \in Assembled : \A d \in FieldsOf(i) :
        /\ d.at \in DOMAIN fields /\ fields'[d.at] = fields[d.at]
  <2> TAKE i \in Assembled
  <2> TAKE d \in FieldsOf(i)
  <2>1. d.at \in DOMAIN fields
    BY <1>1 DEF FieldInv
  <2>2. \A e \in FieldsOf(line) : e.at # d.at
    BY <1>1, <1>2, FieldsApart
  <2> QED BY <2>1, <2>2
<1> HIDE DEF Lines
<1>5. ASSUME NEW i \in Assembled', NEW d \in FieldsOf(i)
      PROVE  d.at \in DOMAIN fields'
  BY <1>2, <1>4
<1>6. ASSUME Distinct, NEW i \in Assembled', KnownAt(i), NEW d \in FieldsOf(i)
      PROVE  fields'[d.at] = Meant(d) /\ Holds(d)
  BY <1>1, <1>2, <1>4, <1>6 DEF FieldInv
<1>7. ASSUME NEW i \in Assembled', Lines[i].op = "abs", ~KnownAt(i)
      PROVE  Fits(BaseAt(i), 2)
  BY <1>1, <1>2, <1>7 DEF FieldInv
<1> QED BY <1>3, <1>5, <1>6, <1>7 DEF FieldInv

LEMMA ResolvedStep ==
  ASSUME IndInv, NEW n, Over(n), line \in References, KnownAt(line),
         unresolved' = unresolved
  PROVE  DeferInv'
<1>1. DeferInv /\ input' = input
  BY ReachedNext DEF Over
<1>2. \A i : i \in Assembled' <=> i \in Assembled \/ i = line
  BY ReachedNext
<1>3. /\ \A i : FieldsOf(i)' = FieldsOf(i) /\ (KnownAt(i)' <=> KnownAt(i))
      /\ AllFields' = AllFields
  BY <1>1, MeaningSame
<1> QED BY <1>1, <1>2, <1>3 DEF DeferInv

LEMMA DeferredStep ==
  ASSUME IndInv, NEW n, Over(n), line \in References, ~KnownAt(line),
         NEW new \in Seq(FieldsOf(line)),
         unresolved' = unresolved \o new,
         \A d \in FieldsOf(line) : \E k \in DOMAIN new : new[k] = d,
         \A k, m \in DOMAIN new : k < m => new[k].at < new[m].at
  PROVE  DeferInv'
<1>1. DeferInv /\ input' = input /\ input \in Inputs
  BY ReachedNext DEF Over
<1>2. /\ \A i : i \in Assembled' <=> i \in Assembled \/ i = line
      /\ \A i \in Assembled : i \in References /\ i < line
  BY ReachedNext
<1>3. /\ \A i : FieldsOf(i)' = FieldsOf(i) /\ (KnownAt(i)' <=> KnownAt(i))
      /\ AllFields' = AllFields
  BY <1>1, MeaningSame
<1>4. FieldsOf(line) \subseteq AllFields
  BY DEF AllFields
<1> DEFINE n1 == Len(unresolved)
           n2 == Len(new)
<1>5. /\ unresolved \in Seq(AllFields) /\ new \in Seq(AllFields)
      /\ n1 \in Nat /\ n2 \in Nat /\ DOMAIN unresolved = 1..n1 /\ DOMAIN new = 1..n2
  <2>1. new \in Seq(AllFields)
    BY <1>4, SeqMonotonic
  <2> QED BY <1>1, <2>1 DEF DeferInv
<1>6. /\ unresolved' \in Seq(AllFields)
      /\ Len(unresolved') = n1 + n2 /\ DOMAIN unresolved' = 1..(n1 + n2)
      /\ \A k \in 1..n1 : unresolved'[k] = unresolved[k]
      /\ \A k \in 1..n2 : unresolved'[n1 + k] = new[k]
  <2>1. unresolved' \in Seq(AllFields) /\ Len(unresolved') = n1 + n2
    BY <1>5, ConcatProperties
  <2>2. \A k \in 1..(n1 + n2) :
          unresolved'[k] = IF k =< n1 THEN unresolved[k] ELSE new[k - n1]
    BY <1>5, ConcatProperties
  <2>3. \A k \in 1..n1 : k \in 1..(n1 + n2) /\ k =< n1
    BY <1>5
  <2>4. \A k \in 1..n2 : n1 + k \in 1..(n1 + n2) /\ ~(n1 + k =< n1) /\ (n1 + k) - n1 = k
    BY <1>5
  <2>5. \A k \in 1..n2 : unresolved'[n1 + k] = new[k]
    BY <2>2, <2>4
  <2> QED BY <2>1, <2>2, <2>3, <2>5
<1> HIDE DEF n1, n2
\* A place in the new table is one in the old or one in the addition.
<1>7. \A k \in 1..(n1 + n2) : k \in 1..n1 \/ \E m \in 1..n2 : k = n1 + m
  <2> TAKE k \in 1..(n1 + n2)
  <2>1. ~(k \in 1..n1) => k - n1 \in 1..n2 /\ k = n1 + (k - n1)
    BY <1>5
  <2> QED BY <2>1
<1>8. \A m \in 1..n2 : new[m] \in FieldsOf(line)
  BY <1>5
<1>9. ASSUME NEW k \in DOMAIN unresolved'
      PROVE  \E i \in Assembled' : ~KnownAt(i) /\ unresolved'[k] \in FieldsOf(i)
  <2>1. CASE k \in 1..n1
    BY <1>1, <1>2, <1>5, <1>6, <2>1 DEF DeferInv
  <2>2. ASSUME NEW m \in 1..n2, k = n1 + m
        PROVE  \E i \in Assembled' : ~KnownAt(i) /\ unresolved'[k] \in FieldsOf(i)
    BY <1>2, <1>6, <1>8, <2>2
  <2> QED BY <1>6, <1>7, <2>1, <2>2
<1>10. ASSUME NEW i \in Assembled', ~KnownAt(i), NEW d \in FieldsOf(i)
       PROVE  \E k \in DOMAIN unresolved' : unresolved'[k] = d
  <2>1. CASE i \in Assembled
    <3>1. PICK k \in 1..n1 : unresolved[k] = d
      BY <1>1, <1>5, <1>10, <2>1 DEF DeferInv
    <3>2. k \in 1..(n1 + n2)
      BY <1>5
    <3> QED BY <1>6, <3>1, <3>2
  <2>2. CASE i = line
    <3>1. PICK m \in 1..n2 : new[m] = d
      BY <1>5, <1>10, <2>2
    <3>2. n1 + m \in 1..(n1 + n2)
      BY <1>5
    <3> QED BY <1>6, <3>1, <3>2
  <2> QED BY <1>2, <2>1, <2>2
<1>11. ASSUME NEW k \in DOMAIN unresolved', NEW m \in DOMAIN unresolved', k < m
       PROVE  unresolved'[k].at < unresolved'[m].at
  <2>1. CASE k \in 1..n1 /\ m \in 1..n1
    BY <1>1, <1>5, <1>6, <1>11, <2>1 DEF DeferInv
  <2>2. ASSUME k \in 1..n1, NEW b \in 1..n2, m = n1 + b
        PROVE  unresolved'[k].at < unresolved'[m].at
    <3>1. unresolved'[k] = unresolved[k] /\ unresolved'[m] = new[b]
      BY <1>6, <2>2
    <3>2. PICK i \in Assembled : unresolved[k] \in FieldsOf(i)
      BY <1>1, <1>5, <2>2 DEF DeferInv
    <3>3. i \in References /\ i < line /\ new[b] \in FieldsOf(line)
      BY <1>2, <1>8
    <3> QED BY <1>1, <3>1, <3>2, <3>3, FieldsInOrder
  <2>3. ASSUME NEW a \in 1..n2, NEW b \in 1..n2, k = n1 + a, m = n1 + b
        PROVE  unresolved'[k].at < unresolved'[m].at
    <3>1. a < b
      BY <1>5, <1>11, <2>3
    <3>2. new[a].at < new[b].at
      BY <1>5, <3>1
    <3>3. unresolved'[k] = new[a] /\ unresolved'[m] = new[b]
      BY <1>6, <2>3
    <3> QED BY <3>2, <3>3
  <2>4. ASSUME NEW a \in 1..n2, k = n1 + a, m \in 1..n1 PROVE FALSE
    BY <1>5, <1>11, <2>4
  <2> QED BY <1>6, <1>7, <2>1, <2>2, <2>3, <2>4
<1> QED BY <1>3, <1>6, <1>9, <1>10, <1>11 DEF DeferInv

LEMMA LineFacts ==
  ASSUME IndInv, phase = "assemble", line \in DOMAIN Lines
  PROVE  /\ input \in Inputs /\ PlaceInv /\ SymbolInv /\ DeferInv
         /\ offset = Pos[line] /\ offset \in Nat
         /\ vmembase = BaseAt(line) /\ Here = Word(line)
         /\ IsLine(Lines[line]) /\ line \in Nat
         /\ LineSize(Lines[line], offset) \in Nat
<1>1. /\ input \in Inputs /\ PlaceInv /\ SymbolInv /\ DeferInv /\ Reached = line
  BY DEF IndInv, Live, Reached
<1>2. /\ IsLine(Lines[line]) /\ line \in 1..(Len(Lines) + 1) /\ line \in Nat
  BY <1>1, TextFacts
<1>3. offset = Pos[line] /\ offset \in Nat /\ vmembase = BaseAt(line)
  BY <1>1, <1>2, PosFacts DEF PlaceInv
<1>4. Here = Word(line)
  BY <1>3 DEF Here, Word
<1> QED BY <1>1, <1>2, <1>3, <1>4, SizeOfLine

LEMMA OverKeepsInd ==
  ASSUME IndInv, NEW n, Over(n), PlaceInv', SymbolInv', FieldInv', DeferInv'
  PROVE  IndInv'
<1>1. KeptInv' /\ input' \in Inputs /\ phase' = "assemble"
  BY KeptStep, ReachedNext DEF Over
<1>2. phase' \notin {"done", "failed", "crashed"}
  BY <1>1
<1> QED BY <1>1, <1>2 DEF IndInv, Live, DoneInv

\* A line that is assembled to what its size says, and changes neither the
\* symbols nor what rrasm exports or where it is based.
LEMMA EmitOver ==
  ASSUME IndInv, phase = "assemble", line \in DOMAIN Lines,
         Lines[line].op \notin {"label", "extern", "org"},
         Emit(LineSize(Lines[line], offset))
  PROVE  /\ Over(LineSize(Lines[line], offset))
         /\ PlaceInv' /\ SymbolInv'
<1>1. Over(LineSize(Lines[line], offset))
  BY DEF Emit, Over
<1>2. vmembase' = vmembase /\ exports' = exports /\ symbols' = symbols
  BY DEF Emit
<1>3. PlaceInv'
  BY <1>1, <1>2, PlaceStep
<1>4. SymbolInv'
  BY <1>1, <1>2, SymbolStep
<1> QED BY <1>1, <1>3, <1>4

LEMMA PlainKeepsInd == ASSUME IndInv, Plain PROVE IndInv'
<1>1. /\ phase = "assemble" /\ line \in DOMAIN Lines
      /\ Lines[line].op \in {"equ", "bytes", "align"}
      /\ UNCHANGED <<fields, unresolved>>
  BY DEF Plain, At
<1>2. Emit(LineSize(Lines[line], offset))
  <2>1. CASE Lines[line].op = "equ"
    BY <2>1 DEF Plain, At, LineSize
  <2>2. CASE Lines[line].op = "bytes"
    BY <2>2 DEF Plain, At, LineSize
  <2>3. CASE Lines[line].op = "align"
    BY <2>3 DEF Plain, At, LineSize
  <2> QED BY <1>1, <2>1, <2>2, <2>3
<1>3. line \notin References
  BY <1>1 DEF References
<1>4. Over(LineSize(Lines[line], offset)) /\ PlaceInv' /\ SymbolInv'
  BY <1>1, <1>2, EmitOver
<1> QED BY <1>1, <1>3, <1>4, NoFieldStep, OverKeepsInd

LEMMA DirectiveKeepsInd == ASSUME IndInv, Extern \/ Org PROVE IndInv'
<1>1. /\ phase = "assemble" /\ line \in DOMAIN Lines
      /\ Lines[line].op \in {"extern", "org"}
      /\ UNCHANGED <<fields, unresolved, symbols>>
      /\ input' = input /\ phase' = phase /\ line' = line + 1 /\ offset' = offset
      /\ kept' = kept
      /\ vmembase' = (IF Lines[line].op = "org" THEN Lines[line].value ELSE vmembase)
      /\ exports' = (IF Lines[line].op = "extern" THEN exports \cup {Lines[line].name}
                     ELSE exports)
      /\ Lines[line].op = "org" => Fits(Lines[line].value, 4)
  BY DEF Extern, Org, At
<1>2. LineSize(Lines[line], offset) = 0 /\ offset \in Nat
  BY <1>1, LineFacts DEF LineSize
<1>3. Over(LineSize(Lines[line], offset))
  BY <1>1, <1>2 DEF Over
<1>4. PlaceInv'
  BY <1>1, <1>3, PlaceStep
<1>5. SymbolInv'
  BY <1>1, <1>3, SymbolStep
<1>6. line \notin References
  BY <1>1 DEF References
<1> QED BY <1>1, <1>3, <1>4, <1>5, <1>6, NoFieldStep, OverKeepsInd

LEMMA LabelKeepsInd == ASSUME IndInv, DefineLabel PROVE IndInv'
<1>1. /\ phase = "assemble" /\ line \in DOMAIN Lines /\ Lines[line].op = "label"
      /\ UNCHANGED <<fields, unresolved>>
      /\ input' = input /\ phase' = phase /\ line' = line + 1 /\ offset' = offset
      /\ kept' = kept /\ vmembase' = vmembase /\ exports' = exports
  BY DEF DefineLabel, At
<1>2. LineSize(Lines[line], offset) = 0 /\ offset \in Nat
  BY <1>1, LineFacts DEF LineSize
<1>3. Over(LineSize(Lines[line], offset))
  BY <1>1, <1>2 DEF Over
<1>4. PlaceInv'
  BY <1>1, <1>3, PlaceStep
<1>5. SymbolInv'
  BY LabelStep
<1>6. line \notin References
  BY <1>1 DEF References
<1> QED BY <1>1, <1>3, <1>4, <1>5, <1>6, NoFieldStep, OverKeepsInd

-----------------------------------------------------------------------------
(* The lines with a symbol                                                    *)

\* What a field means, by its type.
LEMMA MeantByType ==
  ASSUME NEW d
  PROVE  /\ d.type = "abs16" => /\ Meant(d) = Masked(Value(d.name), 2)
                                /\ Holds(d) <=> Fits(Value(d.name), 2)
         /\ d.type = "rel16" => /\ Meant(d) = Value(d.name) - d.relbase
                                /\ Holds(d) <=> InRange(Meant(d))
         /\ \A size \in {1, 2, 4, 8} : d.type = DataType(size) =>
              /\ Meant(d) = Masked(Value(d.name), size)
              /\ Holds(d) <=> Fits(Value(d.name), size)
<1>1. ASSUME d.type = "abs16"
      PROVE  Meant(d) = Masked(Value(d.name), 2) /\ (Holds(d) <=> Fits(Value(d.name), 2))
  BY <1>1 DEF Meant, Holds, FieldSize
<1>2. ASSUME d.type = "rel16"
      PROVE  Meant(d) = Value(d.name) - d.relbase /\ (Holds(d) <=> InRange(Meant(d)))
  BY <1>2 DEF Meant, Holds
<1>3. ASSUME NEW size \in {1, 2, 4, 8}, d.type = DataType(size)
      PROVE  /\ Meant(d) = Masked(Value(d.name), size)
             /\ Holds(d) <=> Fits(Value(d.name), size)
  <2>1. CASE size = 1
    <3>1. d.type = "abs8"
      BY <1>3, <2>1 DEF DataType
    <3> QED BY <2>1, <3>1 DEF Meant, Holds, FieldSize
  <2>2. CASE size = 2
    <3>1. d.type = "abs16"
      BY <1>3, <2>2 DEF DataType
    <3> QED BY <1>1, <2>2, <3>1
  <2>3. CASE size = 4
    <3>1. d.type = "abs32"
      BY <1>3, <2>3 DEF DataType
    <3> QED BY <2>3, <3>1 DEF Meant, Holds, FieldSize
  <2>4. CASE size = 8
    <3>1. d.type = "abs64"
      BY <1>3, <2>4 DEF DataType
    <3> QED BY <2>4, <3>1 DEF Meant, Holds, FieldSize
  <2> QED BY <2>1, <2>2, <2>3, <2>4
<1> QED BY <1>1, <1>2, <1>3

\* A line with one field that is resolved at once.
LEMMA ResolvedKeepsInd ==
  ASSUME IndInv, phase = "assemble", line \in References,
         Emit(LineSize(Lines[line], offset)), Lines[line].op # "mov",
         NEW d, FieldsOf(line) = {d}, KnownAt(line),
         NEW v, Resolved(d.at, v),
         Distinct => v = Meant(d) /\ Holds(d)
  PROVE  IndInv'
<1> DEFINE n == LineSize(Lines[line], offset)
<1>1. line \in DOMAIN Lines /\ Lines[line].op \notin {"label", "extern", "org"}
  BY DEF References
<1>2. Over(n) /\ PlaceInv' /\ SymbolInv'
  BY <1>1, EmitOver
<1>3. fields' = Define(fields, d.at, v) /\ unresolved' = unresolved
  BY DEF Resolved
<1>4. /\ DOMAIN fields \subseteq DOMAIN fields' /\ d.at \in DOMAIN fields'
      /\ fields'[d.at] = v
      /\ \A a \in DOMAIN fields : a # d.at => fields'[a] = fields[a]
  <2>1. DOMAIN fields' = DOMAIN fields \cup {d.at}
    BY <1>3 DEF Define
  <2>2. /\ fields'[d.at] = v
        /\ \A a \in DOMAIN fields : a # d.at => fields'[a] = fields[a]
    BY <1>3 DEF Define
  <2> QED BY <2>1, <2>2
<1> HIDE DEF n
<1>5. FieldInv'
  BY <1>2, <1>4, FieldStep
<1>6. DeferInv'
  BY <1>2, <1>3, ResolvedStep
<1> QED BY <1>2, <1>5, <1>6, OverKeepsInd

\* A line with one field that is deferred.
LEMMA DeferredKeepsInd ==
  ASSUME IndInv, phase = "assemble", line \in References,
         Emit(LineSize(Lines[line], offset)), Lines[line].op # "mov",
         NEW type, NEW at, NEW relbase, NEW v,
         FieldsOf(line) = {[type |-> type, name |-> Lines[line].name, at |-> at,
                            relbase |-> relbase]},
         ~KnownAt(line), Deferred(type, at, relbase, v),
         Lines[line].op = "abs" => Fits(BaseAt(line), 2)
  PROVE  IndInv'
<1> DEFINE n == LineSize(Lines[line], offset)
           d == [type |-> type, name |-> Lines[line].name, at |-> at, relbase |-> relbase]
<1>1. line \in DOMAIN Lines /\ Lines[line].op \notin {"label", "extern", "org"}
  BY DEF References
<1>2. Over(n) /\ PlaceInv' /\ SymbolInv'
  BY <1>1, EmitOver
<1>3. /\ fields' = Define(fields, at, v) /\ unresolved' = Append(unresolved, d)
      /\ d.at = at /\ FieldsOf(line) = {d}
  BY DEF Deferred
<1>4. /\ DOMAIN fields \subseteq DOMAIN fields' /\ at \in DOMAIN fields'
      /\ \A a \in DOMAIN fields : a # at => fields'[a] = fields[a]
  <2>1. DOMAIN fields' = DOMAIN fields \cup {at}
    BY <1>3 DEF Define
  <2>2. \A a \in DOMAIN fields : a # at => fields'[a] = fields[a]
    BY <1>3 DEF Define
  <2> QED BY <2>1, <2>2
<1> HIDE DEF n, d
<1>5. FieldInv'
  BY <1>2, <1>3, <1>4, FieldStep
<1>6. unresolved' = unresolved \o <<d>>
  <2>1. unresolved \in Seq(AllFields) /\ d \in AllFields
    BY <1>1, <1>3, LineFacts DEF DeferInv, AllFields
  <2> QED BY <1>3, <2>1, AppendIsConcat
<1> DEFINE new == <<d>>
<1>7. /\ new \in Seq(FieldsOf(line))
      /\ \A e \in FieldsOf(line) : \E k \in DOMAIN new : new[k] = e
      /\ \A k, m \in DOMAIN new : k < m => new[k].at < new[m].at
  <2>1. DOMAIN new = {1} /\ new[1] = d /\ 1 \in DOMAIN new
    OBVIOUS
  <2>2. new \in Seq(FieldsOf(line))
    BY <1>3
  <2> HIDE DEF new
  <2> QED BY <1>3, <2>1, <2>2
<1> HIDE DEF new
<1>8. DeferInv'
  <2>1. unresolved' = unresolved \o new
    BY <1>6 DEF new
  <2> QED BY <1>2, <1>7, <2>1, DeferredStep
<1> QED BY <1>2, <1>5, <1>8, OverKeepsInd

LEMMA AbsKeepsInd == ASSUME IndInv, EncodeAbs PROVE IndInv'
<1> DEFINE n == Lines[line].name
           d == [type |-> "abs16", name |-> n, at |-> offset + 2, relbase |-> 0]
<1>1. /\ phase = "assemble" /\ line \in DOMAIN Lines /\ Lines[line].op = "abs"
      /\ Fits(Immediate(n), 2) /\ Emit(4)
      /\ IF Known(n) THEN Resolved(offset + 2, Immediate(n))
                     ELSE Deferred("abs16", offset + 2, 0, Immediate(n))
  BY DEF EncodeAbs, At
<1>2. line \in References /\ LineSize(Lines[line], offset) = 4
  BY <1>1 DEF References, LineSize
<1>3. /\ input \in Inputs /\ SymbolInv /\ offset = Pos[line] /\ vmembase = BaseAt(line)
  BY <1>1, LineFacts
<1>4. FieldsOf(line) = {d}
  BY <1>1, <1>2, <1>3, FieldsByKind
<1>5. Known(n) <=> KnownAt(line)
  BY <1>1, <1>2, <1>3, KnownIsKnownAt
<1>6. CASE Known(n)
  <2>1. n \in DOMAIN symbols /\ Immediate(n) = symbols[n].value
    BY <1>6 DEF Known, Immediate
  <2>2. ASSUME Distinct PROVE Immediate(n) = Meant(d) /\ Holds(d)
    <3>1. Immediate(n) = Value(n)
      BY <1>3, <2>1, <2>2, SymbolMeans
    <3>2. Meant(d) = Masked(Value(n), 2) /\ (Holds(d) <=> Fits(Value(n), 2))
      <4>1. d.type = "abs16" /\ d.name = n
        OBVIOUS
      <4> HIDE DEF d
      <4> QED BY <4>1, MeantByType
    <3> QED BY <1>1, <3>1, <3>2 DEF Masked
  <2>3. Resolved(d.at, Immediate(n)) /\ Emit(LineSize(Lines[line], offset))
    BY <1>1, <1>2, <1>6
  <2> HIDE DEF d
  <2> QED BY <1>1, <1>2, <1>4, <1>5, <1>6, <2>2, <2>3, ResolvedKeepsInd
<1>7. CASE ~Known(n)
  <2>1. /\ Deferred("abs16", offset + 2, 0, Immediate(n))
        /\ Emit(LineSize(Lines[line], offset)) /\ Fits(BaseAt(line), 2)
    BY <1>1, <1>2, <1>3, <1>7 DEF Immediate
  <2> QED BY <1>1, <1>2, <1>4, <1>5, <1>7, <2>1, DeferredKeepsInd
<1> QED BY <1>6, <1>7

LEMMA RelKeepsInd == ASSUME IndInv, EncodeRel PROVE IndInv'
<1> DEFINE n == Lines[line].name
           d == [type |-> "rel16", name |-> n, at |-> offset + 2, relbase |-> Here]
           v == symbols[n].value - Here
<1>1. /\ phase = "assemble" /\ line \in DOMAIN Lines /\ Lines[line].op = "rel"
      /\ Emit(4)
      /\ Known(n) => InRange(v) /\ Resolved(offset + 2, v)
      /\ ~Known(n) => Deferred("rel16", offset + 2, Here, 0)
  BY DEF EncodeRel, At
<1>2. line \in References /\ LineSize(Lines[line], offset) = 4
  BY <1>1 DEF References, LineSize
<1>3. /\ input \in Inputs /\ SymbolInv /\ offset = Pos[line] /\ Here = Word(line)
  BY <1>1, LineFacts
<1>4. FieldsOf(line) = {d}
  BY <1>1, <1>2, <1>3, FieldsByKind
<1>5. Known(n) <=> KnownAt(line)
  BY <1>1, <1>2, <1>3, KnownIsKnownAt
<1>6. CASE Known(n)
  <2>1. n \in DOMAIN symbols
    BY <1>6 DEF Known
  <2>2. ASSUME Distinct PROVE v = Meant(d) /\ Holds(d)
    <3>1. symbols[n].value = Value(n)
      BY <1>3, <2>1, <2>2, SymbolMeans
    <3>2. Meant(d) = Value(n) - Here /\ (Holds(d) <=> InRange(Meant(d)))
      <4>1. d.type = "rel16" /\ d.name = n /\ d.relbase = Here
        OBVIOUS
      <4> HIDE DEF d
      <4> QED BY <4>1, MeantByType
    <3> QED BY <1>1, <1>6, <3>1, <3>2
  <2>3. Resolved(d.at, v) /\ Emit(LineSize(Lines[line], offset))
    BY <1>1, <1>2, <1>6
  <2> HIDE DEF d, v
  <2> QED BY <1>1, <1>2, <1>4, <1>5, <1>6, <2>2, <2>3, ResolvedKeepsInd
<1>7. CASE ~Known(n)
  <2>1. /\ Deferred("rel16", offset + 2, Here, 0)
        /\ Emit(LineSize(Lines[line], offset))
    BY <1>1, <1>2, <1>7
  <2> QED BY <1>1, <1>2, <1>4, <1>5, <1>7, <2>1, DeferredKeepsInd
<1> QED BY <1>6, <1>7

LEMMA DataKeepsInd == ASSUME IndInv, Data PROVE IndInv'
<1> DEFINE n == Lines[line].name
           size == Lines[line].size
           d == [type |-> DataType(size), name |-> n, at |-> offset, relbase |-> 0]
           v == symbols[n].value
<1>1. /\ phase = "assemble" /\ line \in DOMAIN Lines /\ Lines[line].op = "data"
      /\ Emit(size)
      /\ Known(n) => Fits(v, size) /\ Resolved(offset, v)
      /\ ~Known(n) => Deferred(DataType(size), offset, 0, 0)
  BY DEF Data, At
<1>2. line \in References /\ LineSize(Lines[line], offset) = size
  BY <1>1 DEF References, LineSize
<1>3. /\ input \in Inputs /\ SymbolInv /\ offset = Pos[line] /\ offset \in Nat
      /\ size \in {1, 2, 4, 8}
  BY <1>1, LineFacts DEF IsLine
<1>4. FieldsOf(line) = {d}
  <2>1. Pos[line] + 0 = offset
    BY <1>3
  <2> QED BY <1>1, <1>2, <2>1, FieldsByKind
<1>5. Known(n) <=> KnownAt(line)
  BY <1>1, <1>2, <1>3, KnownIsKnownAt
<1>6. CASE Known(n)
  <2>1. n \in DOMAIN symbols
    BY <1>6 DEF Known
  <2>2. ASSUME Distinct PROVE v = Meant(d) /\ Holds(d)
    <3>1. symbols[n].value = Value(n)
      BY <1>3, <2>1, <2>2, SymbolMeans
    <3>2. Meant(d) = Masked(Value(n), size) /\ (Fits(Value(n), size) => Holds(d))
      <4>1. d.type = DataType(size) /\ d.name = n
        OBVIOUS
      <4> HIDE DEF d, size
      <4> QED BY <1>3, <4>1, MeantByType
    <3> QED BY <1>1, <1>6, <3>1, <3>2 DEF Masked
  <2>3. Resolved(d.at, v) /\ Emit(LineSize(Lines[line], offset))
    BY <1>1, <1>2, <1>6
  <2> HIDE DEF d, v
  <2> QED BY <1>1, <1>2, <1>4, <1>5, <1>6, <2>2, <2>3, ResolvedKeepsInd
<1>7. CASE ~Known(n)
  <2>1. /\ Deferred(DataType(size), offset, 0, 0)
        /\ Emit(LineSize(Lines[line], offset))
    BY <1>1, <1>2, <1>7
  <2> QED BY <1>1, <1>2, <1>4, <1>5, <1>7, <2>1, DeferredKeepsInd
<1> QED BY <1>6, <1>7

LEMMA MovKeepsInd == ASSUME IndInv, ExpandMov PROVE IndInv'
<1> DEFINE n == Lines[line].name
           h == [type |-> "abs16_h", name |-> n, at |-> offset + 2, relbase |-> 0]
           l == [type |-> "abs16_l", name |-> n, at |-> offset + 10, relbase |-> 0]
           new == <<h, l>>
<1>1. /\ phase = "assemble" /\ line \in DOMAIN Lines /\ Lines[line].op = "mov"
      /\ Emit(12) /\ unresolved' = unresolved \o new
      /\ fields' = Define(Define(fields, offset + 2, 0), offset + 10, 0)
  BY DEF ExpandMov, At
<1>2. /\ line \in References /\ LineSize(Lines[line], offset) = 12
      /\ Lines[line].op \notin {"label", "extern", "org"}
  BY <1>1 DEF References, LineSize
<1>3. /\ offset = Pos[line] /\ offset \in Nat
  BY <1>1, LineFacts
<1>4. FieldsOf(line) = {h, l}
  BY <1>1, <1>2, <1>3, FieldsByKind
<1>5. ~KnownAt(line)
  BY <1>1 DEF KnownAt
<1>6. Over(12) /\ PlaceInv' /\ SymbolInv'
  BY <1>1, <1>2, EmitOver
<1>7. /\ DOMAIN fields' = DOMAIN fields \cup {h.at, l.at}
      /\ \A a \in DOMAIN fields : a # h.at /\ a # l.at => fields'[a] = fields[a]
  BY <1>1 DEF Define
<1>8. /\ h.at < l.at /\ new \in Seq(FieldsOf(line)) /\ DOMAIN new = {1, 2}
      /\ new[1] = h /\ new[2] = l
  BY <1>3, <1>4
<1> HIDE DEF h, l, new
<1>9. FieldInv'
  BY <1>1, <1>2, <1>4, <1>5, <1>6, <1>7, FieldStep
<1>10. /\ \A e \in FieldsOf(line) : \E k \in DOMAIN new : new[k] = e
       /\ \A k, m \in DOMAIN new : k < m => new[k].at < new[m].at
  BY <1>4, <1>8
<1>11. DeferInv'
  BY <1>1, <1>2, <1>5, <1>6, <1>8, <1>10, DeferredStep
<1> QED BY <1>6, <1>9, <1>11, OverKeepsInd

-----------------------------------------------------------------------------
(* The other passes                                                           *)

\* Before the first line nothing is assembled, deferred or kept.
LEMMA PrepassFacts ==
  ASSUME IndInv, phase = "prepass"
  PROVE  /\ input \in Inputs /\ PlaceInv /\ SymbolInv /\ FieldInv /\ DeferInv /\ KeptInv
         /\ Reached = 1 /\ FixedTo = 1 /\ line \in Nat \ {0} /\ line =< Len(Lines) + 1
         /\ Met = {i \in DOMAIN Lines : Lines[i].op = "equ" /\ i < line}
<1>1. /\ input \in Inputs /\ PlaceInv /\ SymbolInv /\ FieldInv /\ DeferInv /\ KeptInv
      /\ Reached = 1 /\ FixedTo = 1
  BY DEF IndInv, Live, Reached, FixedTo
<1>2. \A i \in DOMAIN Lines : ~(i < 1)
  BY <1>1, TextFacts
<1>3. Met = {i \in DOMAIN Lines : Lines[i].op = "equ" /\ i < line}
  BY <1>1, <1>2 DEF Met
<1> QED BY <1>1, <1>3 DEF PlaceInv

\* The tables of the later passes do not notice a step that leaves them alone.
LEMMA TablesSame ==
  ASSUME input' = input, Reached' = Reached, FixedTo' = FixedTo,
         UNCHANGED <<fields, unresolved, kept, exports, offset, vmembase>>
  PROVE  /\ FieldInv => FieldInv'
         /\ DeferInv => DeferInv'
         /\ (symbols' = symbols /\ KeptInv) => KeptInv'
<1>1. /\ Lines' = Lines /\ References' = References
      /\ (Distinct' <=> Distinct) /\ \A i : BaseAt(i)' = BaseAt(i)
      /\ \A i : FieldsOf(i)' = FieldsOf(i) /\ (KnownAt(i)' <=> KnownAt(i))
      /\ \A d : Meant(d)' = Meant(d) /\ (Holds(d)' <=> Holds(d))
      /\ AllFields' = AllFields
  BY TextSame, MeaningSame
<1>2. Assembled' = Assembled
  BY <1>1 DEF Assembled
<1> HIDE DEF Lines
<1>3. FieldInv => FieldInv'
  BY <1>1, <1>2 DEF FieldInv
<1>4. DeferInv => DeferInv'
  BY <1>1, <1>2 DEF DeferInv
<1>5. ASSUME symbols' = symbols, KeptInv
      PROVE  KeptInv'
  <2>1. /\ \A d : LeftToLinker(d)' <=> LeftToLinker(d)
        /\ \A d : Packed(d)' = Packed(d) /\ (Packable(d)' <=> Packable(d))
    BY <1>5 DEF LeftToLinker, Packed, Packable, IsElf
  <2> QED BY <1>1, <1>5, <2>1 DEF KeptInv
<1> QED BY <1>3, <1>4, <1>5

LEMMA PrepassKeepsInd == ASSUME IndInv, PrepassLine PROVE IndInv'
<1>1. /\ phase = "prepass" /\ line \in DOMAIN Lines /\ line' = line + 1
      /\ input' = input /\ phase' = "prepass"
      /\ UNCHANGED <<fields, unresolved, kept, exports, offset, vmembase>>
  BY DEF PrepassLine
<1>2. /\ input \in Inputs /\ PlaceInv /\ SymbolInv /\ FieldInv /\ DeferInv /\ KeptInv
      /\ Reached = 1 /\ FixedTo = 1 /\ line \in Nat \ {0} /\ line =< Len(Lines) + 1
      /\ Met = {i \in DOMAIN Lines : Lines[i].op = "equ" /\ i < line}
  BY <1>1, PrepassFacts
<1>3. Reached' = 1 /\ FixedTo' = 1
  BY <1>1 DEF Reached, FixedTo
<1>4. /\ Lines' = Lines /\ Pos' = Pos /\ \A i : BaseAt(i)' = BaseAt(i)
      /\ \A i : ValueAt(i)' = ValueAt(i)
  BY <1>1, TextSame, MeaningSame DEF ValueAt
<1>5. DOMAIN Lines = 1..Len(Lines) /\ Len(Lines) \in Nat
  BY <1>2, TextFacts
<1>6. ASSUME NEW i
      PROVE  i \in Met' <=> i \in Met \/ (i = line /\ Lines[line].op = "equ")
  <2>1. i \in Met' <=> i \in DOMAIN Lines /\ Lines[i].op = "equ" /\ i < line + 1
    <3>1. i \in DOMAIN Lines => ~(i < 1)
      BY <1>5
    <3> QED BY <1>1, <1>3, <1>4, <3>1 DEF Met
  <2>2. i \in DOMAIN Lines => (i < line + 1 <=> i < line \/ i = line)
    BY <1>2, <1>5
  <2> QED BY <1>1, <1>2, <2>1, <2>2
<1> HIDE DEF Lines
<1>7. PlaceInv'
  <2>1. line + 1 =< Len(Lines) + 1 /\ line + 1 \in Nat \ {0}
    BY <1>1, <1>2, <1>5
  <2> QED BY <1>1, <1>2, <1>3, <1>4, <2>1 DEF PlaceInv
<1>8. FieldInv' /\ DeferInv'
  BY <1>1, <1>2, <1>3, TablesSame
<1>9. SymbolInv' /\ KeptInv'
  <2>1. CASE Lines[line].op # "equ"
    <3>1. symbols' = symbols
      BY <2>1 DEF PrepassLine
    <3>2. Met' = Met
      <4>1. Met' \subseteq Met /\ Met \subseteq Met'
        BY <1>6, <2>1
      <4> QED BY <4>1
    <3>3. SymbolInv'
      BY <1>2, <1>4, <3>1, <3>2 DEF SymbolInv
    <3> QED BY <1>1, <1>2, <1>3, <3>1, <3>3, TablesSame
  <2>2. CASE Lines[line].op = "equ"
    <3> DEFINE l == Lines[line]
               new == [value |-> l.value, const |-> TRUE,
                       nth |-> Cardinality(DOMAIN symbols) + 1]
    <3>1. l.name \notin DOMAIN symbols /\ Symbol(l.name, l.value, TRUE)
      BY <2>2, Zenon DEF PrepassLine
    <3>2. /\ DOMAIN symbols' = DOMAIN symbols \cup {l.name}
          /\ symbols'[l.name] = new
          /\ \A x \in DOMAIN symbols : symbols'[x] = symbols[x]
      BY <3>1 DEF Symbol, Define
    <3>3. \A i \in Met : Lines[i].name \in DOMAIN symbols /\ Lines[i].name # l.name
      BY <1>2, <3>1 DEF SymbolInv
    <3>4. ValueAt(line) = l.value /\ line \notin Met
      BY <1>2, <2>2 DEF ValueAt
    <3>5. ASSUME NEW i \in Met', NEW j \in Met', Lines[i].name = Lines[j].name
          PROVE  i = j
      BY <1>2, <1>6, <3>3, <3>5 DEF SymbolInv
    <3>6. ASSUME NEW n
          PROVE  n \in DOMAIN symbols' <=> \E i \in Met' : Lines[i].name = n
      BY <1>2, <1>6, <2>2, <3>2 DEF SymbolInv
    <3>7. ASSUME NEW i \in Met'
          PROVE  /\ symbols'[Lines[i].name].const <=> Lines[i].op = "equ"
                 /\ symbols'[Lines[i].name].value = ValueAt(i)
      <4>1. CASE i = line
        <5>1. symbols'[Lines[i].name] = new
          BY <3>2, <4>1
        <5> QED BY <2>2, <3>4, <4>1, <5>1
      <4>2. CASE i \in Met
        <5>1. symbols'[Lines[i].name] = symbols[Lines[i].name]
          BY <3>2, <3>3, <4>2
        <5> QED BY <1>2, <4>2, <5>1 DEF SymbolInv
      <4> QED BY <1>6, <4>1, <4>2
    <3>8. SymbolInv'
      BY <1>4, <3>5, <3>6, <3>7 DEF SymbolInv
    <3>9. KeptInv'
      <4>1. /\ kept' = kept /\ unresolved' = unresolved /\ AllFields' = AllFields
        BY <1>1, MeaningSame
      <4>2. \A k \in DOMAIN unresolved : ~(k < 1)
        BY <1>2 DEF DeferInv
      <4>3. DOMAIN kept = {} /\ kept \in Seq(AllFields)
        BY <1>2, <4>2 DEF KeptInv
      <4> QED BY <1>3, <4>1, <4>2, <4>3 DEF KeptInv
    <3> QED BY <3>8, <3>9
  <2> QED BY <2>1, <2>2
<1> QED BY <1>1, <1>2, <1>7, <1>8, <1>9 DEF IndInv, Live, DoneInv

LEMMA PassEndsKeepsInd == ASSUME IndInv, PrepassEnds \/ AssembleEnds PROVE IndInv'
<1>1. /\ phase \in {"prepass", "assemble"} /\ line > Len(Lines) /\ line' = 1
      /\ phase' = IF phase = "prepass" THEN "assemble" ELSE "fixup"
      /\ UNCHANGED <<input, offset, vmembase, symbols, exports, unresolved, fields, kept>>
  BY DEF PrepassEnds, AssembleEnds
<1>2. /\ input \in Inputs /\ PlaceInv /\ SymbolInv /\ FieldInv /\ DeferInv /\ KeptInv
      /\ FixedTo = 1
  BY <1>1 DEF IndInv, Live, FixedTo
<1>3. DOMAIN Lines = 1..Len(Lines) /\ Len(Lines) \in Nat /\ line = Len(Lines) + 1
  BY <1>1, <1>2, TextFacts DEF PlaceInv
<1>4. /\ Lines' = Lines /\ Pos' = Pos /\ \A i : BaseAt(i)' = BaseAt(i)
      /\ \A i : ValueAt(i)' = ValueAt(i)
  BY <1>1, TextSame, MeaningSame DEF ValueAt
<1>5. Reached' = Reached /\ FixedTo' = 1
  BY <1>1, <1>3, <1>4 DEF Reached, FixedTo
<1>6. Met' = Met
  BY <1>1, <1>3, <1>4, <1>5 DEF Met
<1> HIDE DEF Lines
<1>7. PlaceInv'
  <2>1. Len(unresolved) \in Nat
    BY <1>2 DEF DeferInv
  <2> QED BY <1>1, <1>2, <1>3, <1>4, <1>5, <2>1 DEF PlaceInv
<1>8. SymbolInv'
  BY <1>1, <1>2, <1>4, <1>6 DEF SymbolInv
<1>9. FieldInv' /\ DeferInv' /\ KeptInv'
  BY <1>1, <1>2, <1>5, TablesSame
<1> QED BY <1>1, <1>2, <1>7, <1>8, <1>9 DEF IndInv, Live, DoneInv

\* A deferred field is one of a line whose symbol was not known, and what it
\* would be filled with is what it means.
LEMMA FixingFacts ==
  ASSUME IndInv, phase \in {"fixup", "done"}
  PROVE  /\ input \in Inputs /\ PlaceInv /\ SymbolInv /\ FieldInv /\ DeferInv /\ KeptInv
         /\ Distinct /\ FixedTo = line /\ line \in Nat \ {0} /\ line =< Len(unresolved) + 1
         /\ Reached = Len(Lines) + 1 /\ Assembled = References
         /\ Len(unresolved) \in Nat /\ DOMAIN unresolved = 1..Len(unresolved)
         /\ \A k \in DOMAIN unresolved : unresolved[k] \in AllFields
         /\ \A n : n \in DOMAIN symbols <=> Definitions(n) # {}
         /\ \A d : d.name \in DOMAIN symbols => Packed(d) = Meant(d)
<1>1. /\ input \in Inputs /\ PlaceInv /\ SymbolInv /\ FieldInv /\ DeferInv /\ KeptInv
      /\ FixedTo = line /\ Reached = Len(Lines) + 1
  BY DEF IndInv, Live, FixedTo, Reached
<1>2. Distinct /\ \A n : n \in DOMAIN symbols <=> Definitions(n) # {}
  BY <1>1, AllMet
<1>3. Assembled = References
  <2>1. \A i \in References : i < Len(Lines) + 1
    BY <1>1, TextFacts DEF References
  <2> QED BY <1>1, <2>1 DEF Assembled
<1>4. ASSUME NEW d, d.name \in DOMAIN symbols
      PROVE  Packed(d) = Meant(d)
  <2>1. symbols[d.name].value = Value(d.name)
    BY <1>1, <1>2, <1>4, SymbolMeans
  <2> QED BY <2>1 DEF Packed, Meant
<1>5. /\ Len(unresolved) \in Nat /\ DOMAIN unresolved = 1..Len(unresolved)
      /\ \A k \in DOMAIN unresolved : unresolved[k] \in AllFields
  BY <1>1 DEF DeferInv
<1> QED BY <1>1, <1>2, <1>3, <1>4, <1>5 DEF PlaceInv

\* A step of the last pass over a deferred field.
LEMMA FixStep ==
  ASSUME IndInv, phase = "fixup", line \in DOMAIN unresolved, line' = line + 1,
         UNCHANGED <<input, phase, offset, vmembase, symbols, exports, unresolved>>
  PROVE  PlaceInv' /\ SymbolInv' /\ FixedTo' = line + 1
<1>1. /\ input \in Inputs /\ PlaceInv /\ SymbolInv
      /\ line \in Nat \ {0} /\ Reached = Len(Lines) + 1
      /\ Len(unresolved) \in Nat /\ DOMAIN unresolved = 1..Len(unresolved)
  BY FixingFacts
<1>2. /\ Lines' = Lines /\ Pos' = Pos /\ \A i : BaseAt(i)' = BaseAt(i)
      /\ \A i : ValueAt(i)' = ValueAt(i)
  BY TextSame, MeaningSame DEF ValueAt
<1>3. phase' = "fixup" /\ Reached' = Reached /\ FixedTo' = line + 1
  BY <1>1, <1>2 DEF Reached, FixedTo
<1>4. Met' = Met
  BY <1>2, <1>3 DEF Met
<1> HIDE DEF Lines
<1>5. PlaceInv'
  BY <1>1, <1>2, <1>3 DEF PlaceInv
<1>6. SymbolInv'
  BY <1>1, <1>2, <1>4 DEF SymbolInv
<1> QED BY <1>3, <1>5, <1>6

LEMMA KeepKeepsInd == ASSUME IndInv, KeepField PROVE IndInv'
<1> DEFINE d == unresolved[line]
           N == Len(kept)
<1>1. /\ phase = "fixup" /\ line \in DOMAIN unresolved /\ LeftToLinker(d)
      /\ kept' = Append(kept, d) /\ line' = line + 1
      /\ UNCHANGED <<input, phase, offset, vmembase, symbols, exports, unresolved, fields>>
  BY DEF KeepField, Fixing
<1>2. /\ input \in Inputs /\ PlaceInv /\ SymbolInv /\ FieldInv /\ DeferInv /\ KeptInv
      /\ FixedTo = line /\ line \in Nat \ {0} /\ Reached = Len(Lines) + 1
      /\ Len(unresolved) \in Nat /\ DOMAIN unresolved = 1..Len(unresolved)
      /\ d \in AllFields
  BY <1>1, FixingFacts
<1>3. PlaceInv' /\ SymbolInv' /\ FixedTo' = line + 1
  BY <1>1, FixStep
<1>4. FieldInv' /\ DeferInv'
  <2>1. Lines' = Lines /\ References' = References
    BY <1>1, TextSame
  <2>2. Reached' = Reached
    BY <1>1, <2>1 DEF Reached
  <2>3. Assembled' = Assembled
    BY <2>1, <2>2 DEF Assembled
  <2>4. /\ (Distinct' <=> Distinct) /\ \A i : BaseAt(i)' = BaseAt(i)
        /\ \A i : FieldsOf(i)' = FieldsOf(i) /\ (KnownAt(i)' <=> KnownAt(i))
        /\ \A e : Meant(e)' = Meant(e) /\ (Holds(e)' <=> Holds(e))
        /\ AllFields' = AllFields
    BY <1>1, TextSame, MeaningSame
  <2> HIDE DEF Lines
  <2>5. FieldInv'
    BY <1>1, <1>2, <2>1, <2>3, <2>4 DEF FieldInv
  <2>6. DeferInv'
    BY <1>1, <1>2, <2>3, <2>4 DEF DeferInv
  <2> QED BY <2>5, <2>6
<1>5. KeptInv'
  <2>1. AllFields' = AllFields
    BY <1>1, MeaningSame
  <2>2. /\ \A e : LeftToLinker(e)' <=> LeftToLinker(e)
        /\ \A e : Packed(e)' = Packed(e) /\ (Packable(e)' <=> Packable(e))
    BY <1>1 DEF LeftToLinker, Packed, Packable, IsElf
  <2>3. kept \in Seq(AllFields) /\ N \in Nat /\ DOMAIN kept = 1..N
    BY <1>2 DEF KeptInv
  <2>4. /\ kept' \in Seq(AllFields) /\ DOMAIN kept' = 1..(N + 1)
        /\ \A m \in 1..N : kept'[m] = kept[m]
        /\ kept'[N + 1] = d
    BY <1>1, <1>2, <2>3
  <2> HIDE DEF d, N
  <2>5. \A k \in DOMAIN unresolved : k < line + 1 <=> k < line \/ k = line
    BY <1>2
  <2>6. \A m \in 1..(N + 1) : m \in 1..N \/ m = N + 1
    BY <2>3
  <2>7. ASSUME NEW k \in DOMAIN unresolved, k < line + 1
        PROVE  IF LeftToLinker(unresolved[k])
               THEN \E m \in DOMAIN kept' : kept'[m] = unresolved[k]
               ELSE /\ unresolved[k].name \in DOMAIN symbols
                    /\ Packable(unresolved[k])
                    /\ fields[unresolved[k].at] = Packed(unresolved[k])
    <3>1. CASE k = line
      <4>1. N + 1 \in DOMAIN kept'
        BY <2>3, <2>4
      <4> QED BY <1>1, <2>4, <3>1, <4>1 DEF d
    <3>2. CASE k < line
      <4>1. IF LeftToLinker(unresolved[k])
            THEN \E m \in DOMAIN kept : kept[m] = unresolved[k]
            ELSE /\ unresolved[k].name \in DOMAIN symbols
                 /\ Packable(unresolved[k])
                 /\ fields[unresolved[k].at] = Packed(unresolved[k])
        BY <1>2, <3>2 DEF KeptInv
      <4>2. \A m \in DOMAIN kept : m \in DOMAIN kept' /\ kept'[m] = kept[m]
        BY <2>3, <2>4
      <4> QED BY <4>1, <4>2
    <3> QED BY <2>5, <2>7, <3>1, <3>2
  <2>8. ASSUME NEW m \in DOMAIN kept'
        PROVE  \E k \in DOMAIN unresolved :
                 k < line + 1 /\ LeftToLinker(unresolved[k]) /\ kept'[m] = unresolved[k]
    <3>1. CASE m = N + 1
      BY <1>1, <2>4, <2>5, <3>1 DEF d
    <3>2. CASE m \in 1..N
      <4>1. PICK k \in DOMAIN unresolved :
              k < line /\ LeftToLinker(unresolved[k]) /\ kept[m] = unresolved[k]
        BY <1>2, <2>3, <3>2 DEF KeptInv
      <4> QED BY <2>4, <2>5, <3>2, <4>1
    <3> QED BY <2>4, <2>6, <3>1, <3>2
  <2>9. ASSUME NEW m \in DOMAIN kept', NEW n \in DOMAIN kept', m < n
        PROVE  kept'[m].at < kept'[n].at
    <3>1. CASE m \in 1..N /\ n \in 1..N
      BY <1>2, <2>3, <2>4, <2>9, <3>1 DEF KeptInv
    <3>2. CASE m \in 1..N /\ n = N + 1
      <4>1. PICK k \in DOMAIN unresolved : k < line /\ kept[m] = unresolved[k]
        BY <1>2, <2>3, <3>2 DEF KeptInv
      <4>2. unresolved[k].at < d.at
        BY <1>1, <1>2, <4>1 DEF DeferInv, d
      <4> QED BY <2>4, <3>2, <4>1, <4>2
    <3>3. CASE m = N + 1
      BY <2>3, <2>4, <2>9, <3>3
    <3> QED BY <2>4, <2>6, <3>1, <3>2, <3>3
  <2>10. /\ unresolved' = unresolved /\ symbols' = symbols /\ fields' = fields
         /\ kept' \in Seq(AllFields') /\ FixedTo' = line + 1
    BY <1>1, <1>3, <2>1, <2>4
  <2>11. ASSUME NEW k \in DOMAIN unresolved', k < FixedTo'
         PROVE  (IF LeftToLinker(unresolved[k])
                 THEN \E m \in DOMAIN kept : kept[m] = unresolved[k]
                 ELSE /\ unresolved[k].name \in DOMAIN symbols
                      /\ Packable(unresolved[k])
                      /\ fields[unresolved[k].at] = Packed(unresolved[k]))'
    BY <2>2, <2>7, <2>10, <2>11
  <2>12. ASSUME NEW m \in DOMAIN kept'
         PROVE  (\E k \in DOMAIN unresolved :
                  k < FixedTo /\ LeftToLinker(unresolved[k]) /\ kept[m] = unresolved[k])'
    BY <2>2, <2>8, <2>10
  <2> QED BY <2>9, <2>10, <2>11, <2>12 DEF KeptInv
<1> QED BY <1>1, <1>2, <1>3, <1>4, <1>5 DEF IndInv, Live, DoneInv

LEMMA FixKeepsInd == ASSUME IndInv, FixField PROVE IndInv'
<1> DEFINE d == unresolved[line]
<1>1. /\ phase = "fixup" /\ line \in DOMAIN unresolved /\ ~LeftToLinker(d)
      /\ d.name \in DOMAIN symbols /\ Packable(d)
      /\ fields' = [fields EXCEPT ![d.at] = Packed(d)] /\ line' = line + 1
      /\ UNCHANGED <<input, phase, offset, vmembase, symbols, exports, unresolved, kept>>
  BY DEF FixField, Fixing
<1>2. /\ input \in Inputs /\ PlaceInv /\ SymbolInv /\ FieldInv /\ DeferInv /\ KeptInv
      /\ FixedTo = line /\ line \in Nat \ {0} /\ Reached = Len(Lines) + 1
      /\ Len(unresolved) \in Nat /\ DOMAIN unresolved = 1..Len(unresolved)
      /\ \A k \in DOMAIN unresolved : unresolved[k] \in AllFields
  BY <1>1, FixingFacts
<1>3. PlaceInv' /\ SymbolInv' /\ FixedTo' = line + 1
  BY <1>1, FixStep
<1>4. \A k \in DOMAIN unresolved : unresolved[k].at \in DOMAIN fields
  <2> TAKE k \in DOMAIN unresolved
  <2>1. PICK i \in Assembled : unresolved[k] \in FieldsOf(i)
    BY <1>2 DEF DeferInv
  <2> QED BY <1>2, <2>1 DEF FieldInv
<1>5. PICK j \in Assembled : ~KnownAt(j) /\ d \in FieldsOf(j)
  BY <1>1, <1>2 DEF DeferInv
<1>6. /\ DOMAIN fields' = DOMAIN fields
      /\ fields'[d.at] = Packed(d)
      /\ \A a \in DOMAIN fields : a # d.at => fields'[a] = fields[a]
  BY <1>1, <1>4
<1> HIDE DEF d
<1>7. \A i \in Assembled : i \in References
  BY DEF Assembled
<1>8. FieldInv' /\ DeferInv'
  <2>1. Lines' = Lines /\ References' = References
    BY <1>1, TextSame
  <2>2. Reached' = Reached
    BY <1>1, <2>1 DEF Reached
  <2>3. Assembled' = Assembled
    BY <2>1, <2>2 DEF Assembled
  <2>4. /\ (Distinct' <=> Distinct) /\ \A i : BaseAt(i)' = BaseAt(i)
        /\ \A i : FieldsOf(i)' = FieldsOf(i) /\ (KnownAt(i)' <=> KnownAt(i))
        /\ \A e : Meant(e)' = Meant(e) /\ (Holds(e)' <=> Holds(e))
        /\ AllFields' = AllFields
    BY <1>1, TextSame, MeaningSame
  <2> HIDE DEF Lines
  <2>5. \A i \in Assembled : KnownAt(i) => \A e \in FieldsOf(i) : e.at # d.at
    BY <1>2, <1>5, <1>7, FieldsApart
  <2>6. ASSUME Distinct, NEW i \in Assembled, KnownAt(i), NEW e \in FieldsOf(i)
        PROVE  fields'[e.at] = Meant(e) /\ Holds(e)
    <3>1. fields[e.at] = Meant(e) /\ Holds(e) /\ e.at \in DOMAIN fields
      BY <1>2, <2>6 DEF FieldInv
    <3> QED BY <1>6, <2>5, <2>6, <3>1
  <2>7. FieldInv'
    BY <1>1, <1>2, <1>6, <2>1, <2>3, <2>4, <2>6 DEF FieldInv
  <2>8. DeferInv'
    BY <1>1, <1>2, <2>3, <2>4 DEF DeferInv
  <2> QED BY <2>7, <2>8
<1>9. KeptInv'
  <2>1. AllFields' = AllFields
    BY <1>1, MeaningSame
  <2>2. /\ \A e : LeftToLinker(e)' <=> LeftToLinker(e)
        /\ \A e : Packed(e)' = Packed(e) /\ (Packable(e)' <=> Packable(e))
    BY <1>1 DEF LeftToLinker, Packed, Packable, IsElf
  <2>3. \A k \in DOMAIN unresolved : k < line + 1 <=> k < line \/ k = line
    BY <1>2
  <2>4. ASSUME NEW k \in DOMAIN unresolved, k < line + 1
        PROVE  IF LeftToLinker(unresolved[k])
               THEN \E m \in DOMAIN kept : kept[m] = unresolved[k]
               ELSE /\ unresolved[k].name \in DOMAIN symbols
                    /\ Packable(unresolved[k])
                    /\ fields'[unresolved[k].at] = Packed(unresolved[k])
    <3>1. CASE k = line
      BY <1>1, <1>6, <3>1 DEF d
    <3>2. CASE k < line
      <4>1. unresolved[k].at < d.at /\ unresolved[k].at \in Nat /\ d.at \in Nat
        <5>1. unresolved[k].at < d.at
          BY <1>1, <1>2, <3>2 DEF DeferInv, d
        <5>2. unresolved[k] \in AllFields /\ d \in AllFields
          BY <1>1, <1>2 DEF d
        <5>3. \A e \in AllFields : e.at \in Nat
          BY <1>2, FieldsInLine DEF AllFields
        <5> QED BY <5>1, <5>2, <5>3
      <4>2. fields'[unresolved[k].at] = fields[unresolved[k].at]
        BY <1>4, <1>6, <4>1
      <4> QED BY <1>2, <3>2, <4>2 DEF KeptInv
    <3> QED BY <2>3, <2>4, <3>1, <3>2
  <2>5. /\ unresolved' = unresolved /\ symbols' = symbols /\ kept' = kept
        /\ FixedTo' = line + 1
    BY <1>1, <1>3
  <2>6. ASSUME NEW k \in DOMAIN unresolved', k < FixedTo'
        PROVE  (IF LeftToLinker(unresolved[k])
                THEN \E m \in DOMAIN kept : kept[m] = unresolved[k]
                ELSE /\ unresolved[k].name \in DOMAIN symbols
                     /\ Packable(unresolved[k])
                     /\ fields[unresolved[k].at] = Packed(unresolved[k]))'
    BY <2>2, <2>4, <2>5, <2>6
  <2>7. ASSUME NEW m \in DOMAIN kept'
        PROVE  (\E k \in DOMAIN unresolved :
                 k < FixedTo /\ LeftToLinker(unresolved[k]) /\ kept[m] = unresolved[k])'
    <3>1. PICK k \in DOMAIN unresolved :
            k < line /\ LeftToLinker(unresolved[k]) /\ kept[m] = unresolved[k]
      BY <1>2, <2>5 DEF KeptInv
    <3> QED BY <2>2, <2>3, <2>5, <3>1
  <2>8. kept' \in Seq(AllFields') /\ \A m, n \in DOMAIN kept' : m < n => kept'[m].at < kept'[n].at
    BY <1>2, <2>1, <2>5 DEF KeptInv
  <2> QED BY <2>6, <2>7, <2>8 DEF KeptInv
<1> QED BY <1>1, <1>2, <1>3, <1>8, <1>9 DEF IndInv, Live, DoneInv

\* Without a step, and when the file is written, the tables stay as they are.
LEMMA SameKeepsInd ==
  ASSUME IndInv,
         UNCHANGED <<input, line, offset, vmembase, symbols, exports, unresolved, fields,
                     kept>>,
         phase' = phase \/ (phase = "fixup" /\ phase' = "done" /\ DoneInv')
  PROVE  IndInv'
<1>1. CASE ~Live
  BY <1>1, AcceptableSame DEF IndInv, Live, Final
<1>2. CASE Live
  <2>1. /\ input \in Inputs /\ PlaceInv /\ SymbolInv /\ FieldInv /\ DeferInv /\ KeptInv
        /\ DoneInv
    BY <1>2 DEF IndInv
  <2>2. /\ Lines' = Lines /\ Pos' = Pos /\ \A i : BaseAt(i)' = BaseAt(i)
        /\ \A i : ValueAt(i)' = ValueAt(i)
    BY TextSame, MeaningSame DEF ValueAt
  <2>3. Reached' = Reached /\ FixedTo' = FixedTo
    BY <2>2 DEF Reached, FixedTo
  <2>4. Met' = Met
    BY <2>2, <2>3 DEF Met
  <2>5. FieldInv' /\ DeferInv' /\ KeptInv'
    BY <2>1, <2>3, TablesSame
  <2> HIDE DEF Lines
  <2>6. PlaceInv'
    BY <2>1, <2>2, <2>3 DEF PlaceInv
  <2>7. SymbolInv'
    BY <2>1, <2>2, <2>4 DEF SymbolInv
  <2>8. DoneInv'
    BY <2>1, EncodableSame DEF DoneInv, Padded
  <2>9. Live' /\ phase' \in {"prepass", "assemble", "fixup"} \cup Final
    BY <1>2 DEF IndInv, Live, Final
  <2> QED BY <2>1, <2>5, <2>6, <2>7, <2>8, <2>9 DEF IndInv
<1> QED BY <1>1, <1>2

-----------------------------------------------------------------------------
(* Every error has a reason                                                   *)

LEMMA RedefinedKeepsInd == ASSUME IndInv, RedefinedConst \/ RedefinedLabel PROVE IndInv'
<1>1. /\ phase \in {"prepass", "assemble"} /\ line \in DOMAIN Lines
      /\ Lines[line].op = (IF phase = "prepass" THEN "equ" ELSE "label")
      /\ Lines[line].name \in DOMAIN symbols /\ Stop("failed")
  BY DEF RedefinedConst, RedefinedLabel, At
<1>2. input \in Inputs /\ SymbolInv
  BY <1>1 DEF IndInv, Live
<1>3. line \notin Met
  <2>1. line \in Nat
    BY <1>1, <1>2, TextFacts
  <2> QED BY <1>1, <2>1 DEF Met, Reached
<1>4. PICK i \in Met : Lines[i].name = Lines[line].name
  BY <1>1, <1>2 DEF SymbolInv
<1>5. i \in DOMAIN Lines /\ Lines[i].op \in {"label", "equ"} /\ i # line
  BY <1>3, <1>4 DEF Met
<1>6. ~Distinct
  BY <1>1, <1>4, <1>5 DEF Distinct
<1> QED BY <1>1, <1>6, StopKeepsInd DEF Acceptable

LEMMA OversizedKeepsInd == ASSUME IndInv, Oversized PROVE IndInv'
<1> DEFINE n == Lines[line].name
<1>0. CASE At("org")
  <2>1. /\ line \in DOMAIN Lines /\ Lines[line].op = "org" /\ ~Fits(Lines[line].value, 4)
        /\ Stop("failed")
    BY <1>0 DEF Oversized, At
  <2>2. ~Acceptable
    BY <2>1 DEF Acceptable
  <2> QED BY <2>1, <2>2, StopKeepsInd
<1> SUFFICES ASSUME ~At("org") PROVE IndInv'
  BY <1>0
<1>1. /\ phase = "assemble" /\ line \in DOMAIN Lines /\ Stop("failed")
      /\ Lines[line].op \in {"abs", "rel", "data"}
      /\ Lines[line].op = "abs" => ~Fits(Immediate(n), 2)
      /\ Lines[line].op = "rel" => Known(n) /\ ~InRange(symbols[n].value - Here)
      /\ Lines[line].op = "data" => Known(n) /\ ~Fits(symbols[n].value, Lines[line].size)
  BY DEF Oversized, At
<1>2. line \in References
  BY <1>1 DEF References
<1>3. /\ input \in Inputs /\ SymbolInv /\ vmembase = BaseAt(line) /\ Here = Word(line)
      /\ IsLine(Lines[line])
  BY <1>1, LineFacts
<1>4. Known(n) <=> KnownAt(line)
  BY <1>1, <1>2, <1>3, KnownIsKnownAt
<1>5. ASSUME Acceptable PROVE FALSE
  <2>1. /\ Distinct
        /\ KnownAt(line) => \A d \in FieldsOf(line) : Holds(d)
        /\ Lines[line].op = "abs" /\ ~KnownAt(line) => Fits(BaseAt(line), 2)
    BY <1>2, <1>5 DEF Acceptable
  <2>2. CASE ~Known(n)
    <3>1. Lines[line].op = "abs" /\ Immediate(n) = BaseAt(line)
      BY <1>1, <1>3, <2>2 DEF Immediate
    <3> QED BY <1>1, <1>4, <2>1, <2>2, <3>1
  <2>3. CASE Known(n)
    <3>1. symbols[n].value = Value(n) /\ n \in DOMAIN symbols
      BY <1>3, <2>1, <2>3, SymbolMeans DEF Known
    <3>2. CASE Lines[line].op = "abs"
      <4> DEFINE d == [type |-> "abs16", name |-> n, at |-> Pos[line] + 2, relbase |-> 0]
      <4>1. d \in FieldsOf(line) /\ d.type = "abs16" /\ d.name = n
        BY <1>2, <3>2, FieldsByKind
      <4> HIDE DEF d
      <4>2. Fits(Value(n), 2)
        BY <1>4, <2>1, <2>3, <4>1, MeantByType
      <4> QED BY <1>1, <2>3, <3>1, <3>2, <4>2 DEF Immediate
    <3>3. CASE Lines[line].op = "rel"
      <4> DEFINE d == [type |-> "rel16", name |-> n, at |-> Pos[line] + 2,
                       relbase |-> Word(line)]
      <4>1. d \in FieldsOf(line) /\ d.type = "rel16" /\ d.name = n /\ d.relbase = Word(line)
        BY <1>2, <3>3, FieldsByKind
      <4> HIDE DEF d
      <4>2. InRange(Value(n) - Word(line))
        BY <1>4, <2>1, <2>3, <4>1, MeantByType
      <4> QED BY <1>1, <1>3, <3>1, <3>3, <4>2
    <3>4. CASE Lines[line].op = "data"
      <4> DEFINE size == Lines[line].size
                 d == [type |-> DataType(size), name |-> n, at |-> Pos[line] + 0, relbase |-> 0]
      <4>1. d \in FieldsOf(line) /\ d.type = DataType(size) /\ d.name = n
        BY <1>2, <3>4, FieldsByKind
      <4>2. size \in {1, 2, 4, 8} /\ Holds(d)
        BY <1>3, <1>4, <2>1, <2>3, <3>4, <4>1 DEF IsLine
      <4>3. ~Fits(Value(n), size)
        BY <1>1, <3>1, <3>4
      <4> HIDE DEF d, size
      <4> QED BY <4>1, <4>2, <4>3, MeantByType
    <3> QED BY <1>1, <3>2, <3>3, <3>4
  <2> QED BY <2>2, <2>3
<1> QED BY <1>1, <1>5, StopKeepsInd

LEMMA FieldErrorKeepsInd == ASSUME IndInv, UndefinedSymbol \/ CrashOnField PROVE IndInv'
<1> DEFINE d == unresolved[line]
<1>1. /\ phase = "fixup" /\ line \in DOMAIN unresolved /\ ~LeftToLinker(d)
      /\ \/ d.name \notin DOMAIN symbols /\ Stop("failed")
         \/ d.name \in DOMAIN symbols /\ ~Packable(d) /\ Stop("crashed")
  BY DEF UndefinedSymbol, CrashOnField, Fixing
<1>2. /\ input \in Inputs /\ PlaceInv /\ SymbolInv /\ DeferInv /\ Reached = Len(Lines) + 1
      /\ Distinct /\ Assembled = References
      /\ \A n : n \in DOMAIN symbols <=> Definitions(n) # {}
      /\ \A e : e.name \in DOMAIN symbols => Packed(e) = Meant(e)
  BY <1>1, FixingFacts
<1>3. PICK i \in References : ~KnownAt(i) /\ d \in FieldsOf(i)
  BY <1>1, <1>2 DEF DeferInv
<1>4. d.name = Lines[i].name
  BY <1>2, <1>3, FieldsInLine
<1>5. ~input.pie /\ ~(d.name \notin DOMAIN symbols /\ d.name \in exports /\ IsElf)
  BY <1>1 DEF LeftToLinker
<1>6. CASE d.name \notin DOMAIN symbols
  <2>1. IsLeft(i)
    BY <1>2, <1>4, <1>5, <1>6 DEF IsLeft
  <2>2. Exported(d.name) => d.name \in exports
    <3>1. \A k \in DOMAIN Lines : k < Reached
      BY <1>2, TextFacts
    <3> QED BY <1>2, <3>1 DEF Exported, PlaceInv
  <2>3. ~Acceptable
    BY <1>3, <1>4, <1>5, <1>6, <2>1, <2>2 DEF Acceptable
  <2> QED BY <1>1, <1>6, <2>3, StopKeepsInd
<1>7. CASE d.name \in DOMAIN symbols
  <2>1. ~IsLeft(i)
    BY <1>2, <1>4, <1>5, <1>7 DEF IsLeft
  <2>2. d.type = "rel16" /\ ~InRange(Meant(d))
    BY <1>1, <1>2, <1>7 DEF Packable
  <2>3. Lines[i].op = "rel"
    <3>1. CASE Lines[i].op = "abs"
      BY <1>3, <2>2, <3>1, FieldsByKind
    <3>2. CASE Lines[i].op = "mov"
      BY <1>3, <2>2, <3>2, FieldsByKind
    <3>3. CASE Lines[i].op = "data"
      <4>1. d.type = DataType(Lines[i].size)
        BY <1>3, <3>3, FieldsByKind
      <4>2. DataType(Lines[i].size) # "rel16"
        BY DEF DataType
      <4> QED BY <2>2, <4>1, <4>2
    <3> QED BY <3>1, <3>2, <3>3 DEF References
  <2>4. ~Holds(d)
    BY <2>2, MeantByType
  <2>5. ~Acceptable
    BY <1>3, <2>1, <2>3, <2>4 DEF Acceptable
  <2> QED BY <1>1, <1>7, <2>5, StopKeepsInd
<1> QED BY <1>6, <1>7

LEMMA OutputErrorKeepsInd ==
  ASSUME IndInv, CannotPad \/ UnknownCompressor \/ UnknownFormat
  PROVE  IndInv'
<1>1. /\ phase = "fixup"
      /\ \/ offset > Padded
         \/ input.compressor \notin CompressorNames
         \/ input.format \notin FormatNames
      /\ \E how \in {"failed", "crashed"} : Stop(how)
  BY DEF CannotPad, UnknownCompressor, UnknownFormat, Fixed
<1>2. input \in Inputs /\ PlaceInv /\ Reached = Len(Lines) + 1
  BY <1>1, FixingFacts
<1>3. ASSUME offset > Padded PROVE ~(input.pad # 0 => Size =< input.pad)
  <2>1. offset = Size /\ Size \in Nat /\ input.pad \in Nat
    <3>1. Len(Lines) + 1 \in 1..(Len(Lines) + 1)
      BY <1>2, TextFacts
    <3> QED BY <1>2, <3>1, PosFacts, TextFacts DEF PlaceInv, Size
  <2> QED BY <1>3, <2>1 DEF Padded
<1>4. ~Acceptable
  BY <1>1, <1>3 DEF Acceptable
<1> QED BY <1>1, <1>4, StopKeepsInd

-----------------------------------------------------------------------------
(* What the output is                                                         *)

\* At the end a field is kept if and only if its line is left to the linker.
Complete == phase = "done" \/ Fixed

LEMMA CompleteFacts ==
  ASSUME IndInv, Complete
  PROVE  /\ input \in Inputs /\ PlaceInv /\ FieldInv /\ DeferInv /\ KeptInv /\ DoneInv
         /\ Distinct /\ Assembled = References /\ offset = Size /\ vmembase = Base
         /\ \A k \in DOMAIN unresolved : k < FixedTo
         /\ \A n : n \in DOMAIN symbols <=> Definitions(n) # {}
         /\ \A n \in DOMAIN symbols : symbols[n].value = Value(n)
         /\ \A d : d.name \in DOMAIN symbols => Packed(d) = Meant(d)
         /\ \A i \in References : IsLeft(i) => ~KnownAt(i)
         /\ \A i \in References : ~KnownAt(i) =>
              \A d \in FieldsOf(i) : LeftToLinker(d) => IsLeft(i)
         /\ \A i \in References : IsLeft(i) =>
              \A d \in FieldsOf(i) : input.pie \/ d.name \notin DOMAIN symbols
<1>1. /\ input \in Inputs /\ PlaceInv /\ SymbolInv /\ FieldInv /\ DeferInv /\ KeptInv
      /\ DoneInv /\ Distinct /\ Assembled = References /\ FixedTo = line
      /\ Reached = Len(Lines) + 1
      /\ Len(unresolved) \in Nat /\ DOMAIN unresolved = 1..Len(unresolved)
      /\ line =< Len(unresolved) + 1 /\ line \in Nat
      /\ \A n : n \in DOMAIN symbols <=> Definitions(n) # {}
      /\ \A d : d.name \in DOMAIN symbols => Packed(d) = Meant(d)
  <2>1. DoneInv /\ phase \in {"fixup", "done"}
    BY DEF IndInv, Live, Complete, Fixed
  <2> QED BY <2>1, FixingFacts
<1>2. \A k \in DOMAIN unresolved : k < FixedTo
  <2>1. line > Len(unresolved)
    BY <1>1 DEF DoneInv, Complete, Fixed
  <2> QED BY <1>1, <2>1
<1>3. offset = Size /\ vmembase = Base
  BY <1>1 DEF PlaceInv, Size, Base
<1>4. \A n \in DOMAIN symbols : symbols[n].value = Value(n)
  BY <1>1, SymbolMeans
<1>5. ASSUME NEW i \in References, IsLeft(i)
      PROVE  ~KnownAt(i)
  BY <1>5 DEF IsLeft, KnownAt, IsConst
<1>6. ASSUME NEW i \in References, ~KnownAt(i), NEW d \in FieldsOf(i), LeftToLinker(d)
      PROVE  IsLeft(i)
  <2>1. d.name = Lines[i].name
    BY <1>1, FieldsInLine
  <2> QED BY <1>1, <1>6, <2>1 DEF LeftToLinker, IsLeft
<1>7. ASSUME NEW i \in References, IsLeft(i), NEW d \in FieldsOf(i)
      PROVE  input.pie \/ d.name \notin DOMAIN symbols
  <2>1. d.name = Lines[i].name
    BY <1>1, FieldsInLine
  <2> QED BY <1>1, <1>7, <2>1 DEF IsLeft
<1> QED BY <1>1, <1>2, <1>3, <1>4, <1>5, <1>6, <1>7

LEMMA DoneFacts ==
  ASSUME IndInv, phase = "done"
  PROVE  /\ input \in Inputs /\ PlaceInv /\ FieldInv /\ DeferInv /\ KeptInv /\ DoneInv
         /\ Distinct /\ Assembled = References /\ offset = Size /\ vmembase = Base
         /\ \A k \in DOMAIN unresolved : k < FixedTo
         /\ \A n : n \in DOMAIN symbols <=> Definitions(n) # {}
         /\ \A n \in DOMAIN symbols : symbols[n].value = Value(n)
         /\ \A d : d.name \in DOMAIN symbols => Packed(d) = Meant(d)
         /\ \A i \in References : IsLeft(i) => ~KnownAt(i)
         /\ \A i \in References : ~KnownAt(i) =>
              \A d \in FieldsOf(i) : LeftToLinker(d) => IsLeft(i)
         /\ \A i \in References : IsLeft(i) =>
              \A d \in FieldsOf(i) : input.pie \/ d.name \notin DOMAIN symbols
BY CompleteFacts DEF Complete

LEMMA FieldsMean == IndInv => FieldsMeanSymbols
<1> SUFFICES ASSUME IndInv, phase = "done", NEW i \in References, ~IsLeft(i),
                    NEW d \in FieldsOf(i)
             PROVE  fields[d.at] = Meant(d)
  BY DEF FieldsMeanSymbols
<1>1. CASE KnownAt(i)
  BY <1>1, DoneFacts DEF FieldInv
<1>2. CASE ~KnownAt(i)
  <2>1. PICK k \in DOMAIN unresolved : unresolved[k] = d
    BY <1>2, DoneFacts DEF DeferInv
  <2>2. ~LeftToLinker(d)
    BY <1>2, DoneFacts
  <2>3. d.name \in DOMAIN symbols /\ fields[d.at] = Packed(d)
    BY <2>1, <2>2, DoneFacts DEF KeptInv
  <2> QED BY <2>3, DoneFacts
<1> QED BY <1>1, <1>2

\* A table in strict order has as many members as places.
LEMMA OrderedCounts ==
  ASSUME NEW S, NEW seq \in Seq(S), \A d \in S : d.at \in Nat,
         \A m, n \in DOMAIN seq : m < n => seq[m].at < seq[n].at
  PROVE  Cardinality(Range(seq)) = Len(seq)
<1>1. Len(seq) \in Nat /\ DOMAIN seq = 1..Len(seq) /\ \A m \in DOMAIN seq : seq[m] \in S
  OBVIOUS
<1>2. ASSUME NEW m \in DOMAIN seq, NEW n \in DOMAIN seq, seq[m] = seq[n]
      PROVE  m = n
  <2>1. ~(m < n) /\ ~(n < m)
    BY <1>1, <1>2
  <2> QED BY <1>1, <2>1
<1>3. /\ seq \in [1..Len(seq) -> Range(seq)]
      /\ \A r \in Range(seq) : \E m \in 1..Len(seq) : seq[m] = r
  BY <1>1 DEF Range
<1>4. seq \in Bijection(1..Len(seq), Range(seq))
  BY <1>1, <1>2, <1>3 DEF Bijection, Injection, Surjection, IsInjective
<1>5. ExistsBijection(1..Len(seq), Range(seq))
  BY <1>4 DEF ExistsBijection
<1> QED BY <1>1, <1>5, FS_CountingElements

LEMMA KeptAtEnd ==
  ASSUME IndInv, Complete
  PROVE  /\ Range(kept) = UNION {FieldsOf(i) : i \in {j \in References : IsLeft(j)}}
         /\ Cardinality(Range(kept)) = Len(kept)
<1>1. /\ input \in Inputs /\ DeferInv /\ KeptInv /\ Assembled = References
      /\ \A k \in DOMAIN unresolved : k < FixedTo
  BY CompleteFacts
<1>2. Range(kept) = {kept[m] : m \in DOMAIN kept}
  BY DEF Range
<1>3. ASSUME NEW m \in DOMAIN kept
      PROVE  \E i \in References : IsLeft(i) /\ kept[m] \in FieldsOf(i)
  <2>1. PICK k \in DOMAIN unresolved : LeftToLinker(unresolved[k]) /\ kept[m] = unresolved[k]
    BY <1>1 DEF KeptInv
  <2>2. PICK i \in References : ~KnownAt(i) /\ unresolved[k] \in FieldsOf(i)
    BY <1>1 DEF DeferInv
  <2> QED BY <2>1, <2>2, CompleteFacts
<1>4. ASSUME NEW i \in References, IsLeft(i), NEW d \in FieldsOf(i)
      PROVE  \E m \in DOMAIN kept : kept[m] = d
  <2>1. ~KnownAt(i) /\ (input.pie \/ d.name \notin DOMAIN symbols)
    BY <1>4, CompleteFacts
  <2>2. PICK k \in DOMAIN unresolved : unresolved[k] = d
    BY <1>1, <2>1 DEF DeferInv
  <2>3. LeftToLinker(d)
    BY <1>1, <2>1, <2>2 DEF KeptInv, LeftToLinker
  <2> QED BY <1>1, <2>2, <2>3 DEF KeptInv
<1>5. Cardinality(Range(kept)) = Len(kept)
  <2>1. \A d \in AllFields : d.at \in Nat
    BY <1>1, FieldsInLine DEF AllFields
  <2> QED BY <1>1, <2>1, OrderedCounts DEF KeptInv
<1> QED BY <1>2, <1>3, <1>4, <1>5

LEMMA KeptIsLeft == IndInv => KeptIsTheRest
BY KeptAtEnd DEF KeptIsTheRest, Complete

LEMMA AcceptsAll == IndInv => AcceptsWhatItCan
<1> SUFFICES ASSUME IndInv, phase \in Final
             PROVE  phase = "done" <=> Acceptable
  BY DEF AcceptsWhatItCan
<1>1. CASE phase # "done"
  BY <1>1 DEF IndInv, Live, Final
<1>2. CASE phase = "done"
  <2>1. /\ input \in Inputs /\ PlaceInv /\ FieldInv /\ DeferInv /\ KeptInv /\ DoneInv
        /\ Distinct /\ Assembled = References /\ offset = Size
        /\ \A k \in DOMAIN unresolved : k < FixedTo
        /\ \A d : d.name \in DOMAIN symbols => Packed(d) = Meant(d)
    BY <1>2, DoneFacts
  <2>2. ASSUME NEW i \in References, IsLeft(i), ~input.pie
        PROVE  Exported(Lines[i].name) /\ IsElf
    <3>1. PICK d \in FieldsOf(i) : TRUE
      BY FieldsByKind DEF References
    <3>2. d.name = Lines[i].name /\ ~KnownAt(i) /\ d.name \notin DOMAIN symbols
      BY <1>2, <2>1, <2>2, DoneFacts, FieldsInLine
    <3>3. PICK k \in DOMAIN unresolved : unresolved[k] = d
      BY <2>1, <3>2 DEF DeferInv
    <3>4. d.name \in exports /\ IsElf
      BY <2>1, <2>2, <3>2, <3>3 DEF KeptInv, LeftToLinker
    <3> QED BY <2>1, <3>2, <3>4 DEF Exported, PlaceInv
  <2>3. ASSUME NEW i \in References, KnownAt(i), NEW d \in FieldsOf(i)
        PROVE  Holds(d)
    BY <2>1, <2>3 DEF FieldInv
  <2>4. ASSUME NEW i \in References, Lines[i].op = "abs", ~KnownAt(i)
        PROVE  Fits(BaseAt(i), 2)
    BY <2>1, <2>4 DEF FieldInv
  <2>5. ASSUME NEW i \in References, Lines[i].op = "rel", ~IsLeft(i), NEW d \in FieldsOf(i)
        PROVE  Holds(d)
    <3>1. CASE KnownAt(i)
      BY <2>3, <3>1
    <3>2. CASE ~KnownAt(i)
      <4>1. PICK k \in DOMAIN unresolved : unresolved[k] = d
        BY <2>1, <3>2 DEF DeferInv
      <4>2. ~LeftToLinker(d)
        BY <1>2, <2>5, <3>2, DoneFacts
      <4>3. d.name \in DOMAIN symbols /\ Packable(d)
        BY <2>1, <4>1, <4>2 DEF KeptInv
      <4>4. d.type = "rel16"
        BY <2>5, FieldsByKind
      <4>5. InRange(Meant(d))
        BY <2>1, <4>3, <4>4 DEF Packable
      <4> QED BY <4>4, <4>5, MeantByType
    <3> QED BY <3>1, <3>2
  <2>6. input.pad # 0 => Size =< input.pad
    BY <2>1, <1>2 DEF DoneInv, Padded
  <2>7. input.format \in FormatNames /\ input.compressor \in CompressorNames /\ Encodable
    BY <1>2, <2>1 DEF DoneInv
  <2>8. \A i \in DOMAIN Lines : Lines[i].op = "org" => Fits(Lines[i].value, 4)
    <3>1. \A i \in DOMAIN Lines : i < Reached
      BY <1>2, <2>1, TextFacts DEF Reached
    <3> QED BY <2>1, <3>1 DEF PlaceInv
  <2>9. Acceptable
    BY <2>1, <2>2, <2>3, <2>4, <2>5, <2>6, <2>7, <2>8 DEF Acceptable
  <2> QED BY <1>2, <2>9
<1> QED BY <1>1, <1>2

-----------------------------------------------------------------------------
(* What the readers of the other formats find                                 *)

\* The parts of a file begin where those before them end.
LEMMA StartsExist ==
  ASSUME NEW file, Len(file) \in Nat
  PROVE  \E p : p = [i \in 1..(Len(file) + 1) |->
                       IF i = 1 THEN 0 ELSE p[i - 1] + file[i - 1].size]
<1> DEFINE n == Len(file)
           lines == [i \in 1..n |-> [op |-> "bytes", size |-> file[i].size]]
<1>1. PICK p : LaidOut(p, lines, n)
  BY PlacesExist
<1>2. \A i \in 1..n : \A q : LineSize(lines[i], q) = file[i].size
  BY DEF LineSize
<1>3. p = [i \in 1..(n + 1) |-> IF i = 1 THEN 0 ELSE p[i - 1] + LineSize(lines[i - 1], p[i - 1])]
  BY <1>1 DEF LaidOut
<1> HIDE DEF lines
<1>4. ASSUME NEW i \in 1..(n + 1)
      PROVE  p[i] = IF i = 1 THEN 0 ELSE p[i - 1] + file[i - 1].size
  <2>1. i # 1 => i - 1 \in 1..n
    OBVIOUS
  <2>2. p[i] = IF i = 1 THEN 0 ELSE p[i - 1] + LineSize(lines[i - 1], p[i - 1])
    BY <1>3
  <2> QED BY <1>2, <2>1, <2>2
<1>5. p = [i \in 1..(n + 1) |-> p[i]]
  BY <1>3
<1>6. p = [i \in 1..(n + 1) |-> IF i = 1 THEN 0 ELSE p[i - 1] + file[i - 1].size]
  BY <1>4, <1>5
<1> QED BY <1>6

\* start says where the parts of file begin, and a part is found by where it begins
\* and its size.
Finds(file, start) ==
  /\ start[1] = 0
  /\ \A i \in DOMAIN file : start[i + 1] = start[i] + file[i].size
  /\ \A place, size : \A i \in DOMAIN file :
       (/\ start[i] = place /\ file[i].size = size /\ size # 0
        /\ \A j \in DOMAIN file : start[j] = place /\ file[j].size = size => j = i)
       => Blob(file, place, size) = file[i].content

LEMMA BlobFinds ==
  ASSUME NEW file, Len(file) \in Nat, DOMAIN file = 1..Len(file)
  PROVE  \E start : Finds(file, start)
<1> DEFINE n == Len(file)
           F == CHOOSE p : p = [i \in 1..(n + 1) |->
                                  IF i = 1 THEN 0 ELSE p[i - 1] + file[i - 1].size]
           there(o, s) == {i \in DOMAIN file : F[i] = o /\ file[i].size = s /\ s # 0}
<1>1. F = [i \in 1..(n + 1) |-> IF i = 1 THEN 0 ELSE F[i - 1] + file[i - 1].size]
  BY StartsExist
<1>2. \A o, s : Blob(file, o, s) = IF there(o, s) = {} THEN <<>>
                                   ELSE file[CHOOSE i \in there(o, s) : TRUE].content
  BY DEF Blob
<1> HIDE DEF F
<1>3. F[1] = 0
  BY <1>1
<1>4. ASSUME NEW i \in DOMAIN file
      PROVE  F[i + 1] = F[i] + file[i].size
  <2>1. i + 1 \in 1..(n + 1) /\ i + 1 # 1 /\ (i + 1) - 1 = i
    OBVIOUS
  <2> QED BY <1>1, <2>1
<1>5. ASSUME NEW o, NEW s, NEW i \in DOMAIN file,
             F[i] = o, file[i].size = s, s # 0,
             \A j \in DOMAIN file : F[j] = o /\ file[j].size = s => j = i
      PROVE  Blob(file, o, s) = file[i].content
  <2>1. there(o, s) = {i}
    BY <1>5
  <2>2. (CHOOSE k \in there(o, s) : TRUE) = i
    BY <2>1
  <2> HIDE DEF there
  <2> QED BY <1>2, <2>1, <2>2
<1>6. Finds(file, F)
  BY <1>3, <1>4, <1>5 DEF Finds
<1> QED BY <1>6

LEMMA RestIsBlob ==
  ASSUME NEW file, Len(file) \in Nat, DOMAIN file = 1..Len(file)
  PROVE  \E total :
           /\ total[0] = 0
           /\ \A i \in DOMAIN file : total[i] = total[i - 1] + file[i].size
           /\ \A k : Rest(file, k) = Blob(file, k, total[Len(file)] - k)
<1> DEFINE n == Len(file)
           F == CHOOSE q : q = [i \in 0..n |-> IF i = 0 THEN 0 ELSE q[i - 1] + file[i].size]
<1>1. PICK p : p = [i \in 1..(n + 1) |-> IF i = 1 THEN 0 ELSE p[i - 1] + file[i - 1].size]
  BY StartsExist
<1>2. \E q : q = [i \in 0..n |-> IF i = 0 THEN 0 ELSE q[i - 1] + file[i].size]
  <2> DEFINE q == [i \in 0..n |-> p[i + 1]]
  <2>1. ASSUME NEW i \in 0..n
        PROVE  q[i] = IF i = 0 THEN 0 ELSE q[i - 1] + file[i].size
    <3>1. i + 1 \in 1..(n + 1) /\ (i + 1 = 1 <=> i = 0) /\ (i + 1) - 1 = i
      OBVIOUS
    <3>2. p[i + 1] = IF i + 1 = 1 THEN 0 ELSE p[(i + 1) - 1] + file[(i + 1) - 1].size
      BY <1>1, <3>1
    <3>3. i # 0 => q[i - 1] = p[i]
      <4>1. i # 0 => i - 1 \in 0..n /\ (i - 1) + 1 = i
        OBVIOUS
      <4> QED BY <4>1
    <3>4. q[i] = p[i + 1]
      OBVIOUS
    <3> HIDE DEF q
    <3> QED BY <3>1, <3>2, <3>3, <3>4
  <2>2. q = [i \in 0..n |-> q[i]]
    OBVIOUS
  <2> HIDE DEF q
  <2>3. q = [i \in 0..n |-> IF i = 0 THEN 0 ELSE q[i - 1] + file[i].size]
    BY <2>1, <2>2
  <2> QED BY <2>3
<1>3. F = [i \in 0..n |-> IF i = 0 THEN 0 ELSE F[i - 1] + file[i].size]
  BY <1>2
<1>4. \A k : Rest(file, k) = Blob(file, k, F[n] - k)
  BY DEF Rest
<1> HIDE DEF F
<1>5. F[0] = 0
  BY <1>3
<1>6. \A i \in DOMAIN file : F[i] = F[i - 1] + file[i].size
  BY <1>3
<1> QED BY <1>4, <1>5, <1>6

\* The files of the three formats whose readers are modelled, read back.
LEMMA BinReads ==
  ASSUME NEW size \in Nat \ {0}, NEW text, NEW file, file = << Part(size, text) >>
  PROVE  Rest(file, 0) = text
<1>1. /\ Len(file) = 1 /\ Len(file) \in Nat /\ DOMAIN file = 1..1 /\ 1 \in DOMAIN file
      /\ file[1].size = size /\ file[1].content = text
  BY DEF Part
<1>2. PICK start : Finds(file, start)
  <2>1. Len(file) \in Nat /\ DOMAIN file = 1..Len(file)
    BY <1>1
  <2> QED BY <2>1, BlobFinds, Zenon
<1>3. PICK total : /\ total[0] = 0
                   /\ \A i \in DOMAIN file : total[i] = total[i - 1] + file[i].size
                   /\ \A k : Rest(file, k) = Blob(file, k, total[Len(file)] - k)
  BY <1>1, RestIsBlob
<1>4. total[1] - 0 = size
  <2>1. total[1] = total[1 - 1] + file[1].size
    BY <1>1, <1>3
  <2> QED BY <1>1, <1>3, <2>1
<1>5. Rest(file, 0) = Blob(file, 0, size)
  BY <1>1, <1>3, <1>4
<1>6. \A j \in DOMAIN file : j = 1
  BY <1>1
<1>7. Blob(file, 0, size) = file[1].content
  BY <1>1, <1>2, <1>6 DEF Finds
<1> QED BY <1>1, <1>5, <1>7

LEMMA VmdReads ==
  ASSUME NEW size \in Nat \ {0}, NEW text, NEW m, NEW c, NEW file,
         file = << Part(4, m), Part(4, c), Part(size, text) >>
  PROVE  Rest(file, 8) = text /\ Blob(file, 4, 4) = c
<1>1. /\ Len(file) = 3 /\ Len(file) \in Nat /\ DOMAIN file = 1..3
      /\ 1 \in DOMAIN file /\ 2 \in DOMAIN file /\ 3 \in DOMAIN file
      /\ file[1].size = 4 /\ file[2].size = 4 /\ file[3].size = size
      /\ file[2].content = c /\ file[3].content = text
  BY DEF Part
<1>2. PICK start : Finds(file, start)
  <2>1. Len(file) \in Nat /\ DOMAIN file = 1..Len(file)
    BY <1>1
  <2> QED BY <2>1, BlobFinds, Zenon
<1>3. PICK total : /\ total[0] = 0
                   /\ \A i \in DOMAIN file : total[i] = total[i - 1] + file[i].size
                   /\ \A k : Rest(file, k) = Blob(file, k, total[Len(file)] - k)
  <2>1. Len(file) \in Nat /\ DOMAIN file = 1..Len(file)
    BY <1>1
  <2> QED BY <2>1, RestIsBlob, Zenon
<1>4. start[1] = 0 /\ start[2] = 4 /\ start[3] = 8
  <2>1. start[1 + 1] = start[1] + file[1].size /\ start[2 + 1] = start[2] + file[2].size
    BY <1>1, <1>2 DEF Finds
  <2> QED BY <1>1, <1>2, <2>1 DEF Finds
<1>5. total[3] - 8 = size
  <2>1. /\ total[1] = total[1 - 1] + file[1].size /\ total[2] = total[2 - 1] + file[2].size
        /\ total[3] = total[3 - 1] + file[3].size
    BY <1>1, <1>3
  <2> QED BY <1>1, <1>3, <2>1
<1>6. /\ \A j \in DOMAIN file : start[j] = 8 => j = 3
      /\ \A j \in DOMAIN file : start[j] = 4 => j = 2
  BY <1>1, <1>4
<1>7. Rest(file, 8) = Blob(file, 8, size)
  BY <1>1, <1>3, <1>5
<1>8. Blob(file, 8, size) = file[3].content /\ Blob(file, 4, 4) = file[2].content
  BY <1>1, <1>2, <1>4, <1>6 DEF Finds
<1> QED BY <1>1, <1>7, <1>8

LEMMA RoadrunReads ==
  ASSUME NEW size \in Nat \ {0}, NEW text, NEW m, NEW c, NEW e, NEW file,
         file = << Part(8, m), Part(4, c), Part(4, e), Part(size, text) >>
  PROVE  Rest(file, 16) = text /\ Blob(file, 8, 4) = c /\ Blob(file, 12, 4) = e
<1>1. /\ Len(file) = 4 /\ Len(file) \in Nat /\ DOMAIN file = 1..4
      /\ 1 \in DOMAIN file /\ 2 \in DOMAIN file /\ 3 \in DOMAIN file /\ 4 \in DOMAIN file
      /\ file[1].size = 8 /\ file[2].size = 4 /\ file[3].size = 4 /\ file[4].size = size
      /\ file[2].content = c /\ file[3].content = e /\ file[4].content = text
  BY DEF Part
<1>2. PICK start : Finds(file, start)
  <2>1. Len(file) \in Nat /\ DOMAIN file = 1..Len(file)
    BY <1>1
  <2> QED BY <2>1, BlobFinds, Zenon
<1>3. PICK total : /\ total[0] = 0
                   /\ \A i \in DOMAIN file : total[i] = total[i - 1] + file[i].size
                   /\ \A k : Rest(file, k) = Blob(file, k, total[Len(file)] - k)
  <2>1. Len(file) \in Nat /\ DOMAIN file = 1..Len(file)
    BY <1>1
  <2> QED BY <2>1, RestIsBlob, Zenon
<1>4. start[1] = 0 /\ start[2] = 8 /\ start[3] = 12 /\ start[4] = 16
  <2>1. /\ start[1 + 1] = start[1] + file[1].size /\ start[2 + 1] = start[2] + file[2].size
        /\ start[3 + 1] = start[3] + file[3].size
    BY <1>1, <1>2 DEF Finds
  <2> QED BY <1>1, <1>2, <2>1 DEF Finds
<1>5. total[4] - 16 = size
  <2>1. /\ total[1] = total[1 - 1] + file[1].size /\ total[2] = total[2 - 1] + file[2].size
        /\ total[3] = total[3 - 1] + file[3].size /\ total[4] = total[4 - 1] + file[4].size
    BY <1>1, <1>3
  <2> QED BY <1>1, <1>3, <2>1
<1>6. /\ \A j \in DOMAIN file : start[j] = 16 => j = 4
      /\ \A j \in DOMAIN file : start[j] = 8 => j = 2
      /\ \A j \in DOMAIN file : start[j] = 12 => j = 3
  BY <1>1, <1>4
<1>7. Rest(file, 16) = Blob(file, 16, size)
  BY <1>1, <1>3, <1>5
<1>8. /\ Blob(file, 16, size) = file[4].content
      /\ Blob(file, 8, 4) = file[2].content /\ Blob(file, 12, 4) = file[3].content
  BY <1>1, <1>2, <1>4, <1>6 DEF Finds
<1> QED BY <1>1, <1>7, <1>8

\* What the assembler has written at the end.
WrittenInv ==
  phase = "done" =>
    /\ input.format = "bin" => written = << Part(Padded, Text) >>
    /\ input.format = "vmd" =>
         written = << Part(4, Magic("VmD")), Part(4, 4 * vmembase), Part(Padded, Text) >>
    /\ input.format = "roadrun" =>
         written = << Part(8, Magic("ROADRUN")), Part(4, 4 * vmembase), Part(4, 4 * Entry),
                      Part(Padded, Text) >>
    /\ input.format = "elf" =>
         written = ElfFile(vmembase, Entry, Listed, kept, Padded, Text)

LEMMA ListedSame ==
  ASSUME UNCHANGED <<input, symbols, exports>>
  PROVE  Listed' = Listed
<1>1. symbols' = symbols /\ exports' = exports /\ (ExportAll' <=> ExportAll)
  BY DEF ExportAll
<1>2. PICK names : names = {n \in DOMAIN symbols :
                             ~symbols[n].const /\ (n \in exports \/ ExportAll)}
  OBVIOUS
<1>3. PICK sorted : sorted = Ranked(names, [n \in names |-> symbols[n].nth])
  OBVIOUS
<1>4. {n \in DOMAIN symbols : ~symbols[n].const /\ (n \in exports \/ ExportAll)}' = names
  BY <1>1, <1>2
<1>5. Listed = [i \in DOMAIN sorted |-> [name |-> sorted[i], value |-> symbols[sorted[i]].value]]
  BY <1>2, <1>3 DEF Listed
<1>6. Listed' = [i \in DOMAIN sorted |-> [name |-> sorted[i], value |-> symbols[sorted[i]].value]]
  BY <1>1, <1>3, <1>4 DEF Listed
<1> QED BY <1>5, <1>6

LEMMA WrittenInvariant == Spec => []WrittenInv
<1>1. Init => WrittenInv
  BY DEF Init, WrittenInv
<1>2. WrittenInv /\ [Next]_vars => WrittenInv'
  <2> SUFFICES ASSUME WrittenInv, [Next]_vars PROVE WrittenInv'
    OBVIOUS
  <2>1. CASE phase' # "done"
    BY <2>1 DEF WrittenInv
  <2>2. CASE WriteOutput
    <3> DEFINE asm == [base |-> vmembase, entry |-> Entry, labels |-> Listed, kept |-> kept,
                       size |-> Padded, text |-> Text]
    <3>1. /\ UNCHANGED <<input, offset, vmembase, symbols, exports, fields, kept>>
          /\ written' = FileOf(input.format, asm)
      BY <2>2 DEF WriteOutput
    <3>2. Padded' = Padded /\ Text' = Text /\ Entry' = Entry /\ Listed' = Listed
      BY <3>1, ListedSame DEF Padded, Text, Entry
    <3>3. /\ asm.base = vmembase /\ asm.entry = Entry /\ asm.size = Padded /\ asm.text = Text
          /\ asm.labels = Listed /\ asm.kept = kept
      OBVIOUS
    <3> HIDE DEF asm
    <3>4. input.format = "bin" => written' = << Part(Padded, Text) >>
      BY <3>1, <3>3 DEF FileOf, Body
    <3>5. input.format = "vmd" =>
            written' = << Part(4, Magic("VmD")), Part(4, 4 * vmembase), Part(Padded, Text) >>
      BY <3>1, <3>3 DEF FileOf, VmdFile, Body
    <3>6. input.format = "roadrun" =>
            written' = << Part(8, Magic("ROADRUN")), Part(4, 4 * vmembase), Part(4, 4 * Entry),
                          Part(Padded, Text) >>
      BY <3>1, <3>3 DEF FileOf, RoadrunFile, Body
    <3>7. input.format = "elf" =>
            written' = ElfFile(vmembase, Entry, Listed, kept, Padded, Text)
      BY <3>1, <3>3 DEF FileOf
    <3> QED BY <3>1, <3>2, <3>4, <3>5, <3>6, <3>7 DEF WrittenInv
  <2>3. CASE UNCHANGED vars
    <3>1. UNCHANGED <<input, phase, offset, vmembase, symbols, exports, fields, kept, written>>
      BY <2>3 DEF vars
    <3>2. Padded' = Padded /\ Text' = Text /\ Entry' = Entry /\ Listed' = Listed
      BY <3>1, ListedSame DEF Padded, Text, Entry
    <3> QED BY <3>1, <3>2 DEF WrittenInv
  <2>4. CASE phase' = "done" /\ ~WriteOutput /\ Next
    <3>1. \A how \in {"failed", "crashed"} : ~Stop(how)
      BY <2>4 DEF Stop
    <3>2. ~(PrepassLine \/ RedefinedConst \/ PrepassEnds \/ DefineLabel \/ RedefinedLabel
              \/ Extern \/ Org)
      BY <2>4, <3>1 DEF PrepassLine, RedefinedConst, PrepassEnds, DefineLabel,
                        RedefinedLabel, Extern, Org, At
    <3>3. ~(Plain \/ EncodeAbs \/ EncodeRel \/ ExpandMov \/ Data)
      BY <2>4 DEF Plain, EncodeAbs, EncodeRel, ExpandMov, Data, At, Emit
    <3>4. ~(Oversized \/ AssembleEnds \/ KeepField \/ UndefinedSymbol \/ FixField
              \/ CrashOnField)
      BY <2>4, <3>1 DEF Oversized, AssembleEnds, KeepField, UndefinedSymbol, FixField,
                        CrashOnField, Fixing
    <3>5. ~(CannotPad \/ UnknownFormat \/ UnknownCompressor \/ CrashOnHeader)
      BY <3>1 DEF CannotPad, UnknownFormat, UnknownCompressor, CrashOnHeader
    <3> QED BY <2>4, <3>2, <3>3, <3>4, <3>5 DEF Next
  <2> QED BY <2>1, <2>2, <2>3, <2>4
<1> QED BY <1>1, <1>2, PTL DEF Spec

LEMMA ReadersFind == IndInv /\ WrittenInv => ReadersFindTheCode
<1> DEFINE entry == IF Definitions(input.entry) = {} THEN 0 ELSE Value(input.entry)
<1> SUFFICES ASSUME IndInv, WrittenInv, phase = "done", Written > 0
             PROVE  /\ input.format = "vmd" =>
                         VmdLoads(written) = [address |-> 4 * Base, text |-> Text]
                    /\ input.format = "roadrun" =>
                         RoadrunHolds(written) =
                           [address |-> 4 * Base, entry |-> 4 * entry, text |-> Text]
                    /\ input.format \in {"bin", "vmd", "roadrun"} => Disassembled(written) = Text
  BY DEF ReadersFindTheCode
<1>1. /\ input \in Inputs /\ offset = Size /\ vmembase = Base
      /\ \A n : n \in DOMAIN symbols <=> Definitions(n) # {}
      /\ \A n \in DOMAIN symbols : symbols[n].value = Value(n)
  BY DoneFacts
<1>2. Padded = Written /\ Padded \in Nat \ {0}
  <2>1. Size \in Nat /\ input.pad \in Nat
    <3>1. Len(Lines) + 1 \in 1..(Len(Lines) + 1)
      BY <1>1, TextFacts
    <3> QED BY <1>1, <3>1, PosFacts, TextFacts DEF Size
  <2> QED BY <1>1, <2>1 DEF Padded, Written
<1>3. Entry = entry
  BY <1>1 DEF Entry
<1>4. ASSUME input.format = "bin"
      PROVE  Disassembled(written) = Text
  <2>1. written = << Part(Padded, Text) >>
    BY <1>4 DEF WrittenInv
  <2>2. Rest(written, 0) = Text
    BY <1>2, <2>1, BinReads
  <2>3. written[1].content.magic = ""
    BY <2>1 DEF Part, Text
  <2>4. DetectFormat(written) = "bin"
    BY <2>3 DEF DetectFormat
  <2> QED BY <2>2, <2>4 DEF Disassembled
<1>5. ASSUME input.format = "vmd"
      PROVE  /\ Disassembled(written) = Text
             /\ VmdLoads(written) = [address |-> 4 * Base, text |-> Text]
  <2>1. written = << Part(4, Magic("VmD")), Part(4, 4 * vmembase), Part(Padded, Text) >>
    BY <1>5 DEF WrittenInv
  <2>2. Rest(written, 8) = Text /\ Blob(written, 4, 4) = 4 * vmembase
    BY <1>2, <2>1, VmdReads
  <2>3. written[1].content.magic = "VmD"
    BY <2>1 DEF Part, Magic
  <2>4. DetectFormat(written) = "vmd"
    BY <2>3 DEF DetectFormat
  <2> QED BY <1>1, <2>2, <2>4 DEF Disassembled, VmdLoads
<1>6. ASSUME input.format = "roadrun"
      PROVE  /\ Disassembled(written) = Text
             /\ RoadrunHolds(written) =
                  [address |-> 4 * Base, entry |-> 4 * entry, text |-> Text]
  <2>1. written = << Part(8, Magic("ROADRUN")), Part(4, 4 * vmembase), Part(4, 4 * Entry),
                     Part(Padded, Text) >>
    BY <1>6 DEF WrittenInv
  <2>2. /\ Rest(written, 16) = Text /\ Blob(written, 8, 4) = 4 * vmembase
        /\ Blob(written, 12, 4) = 4 * Entry
    BY <1>2, <2>1, RoadrunReads
  <2>3. written[1].content.magic = "ROADRUN"
    BY <2>1 DEF Part, Magic
  <2>4. DetectFormat(written) = "roadrun"
    BY <2>3 DEF DetectFormat
  <2> HIDE DEF entry
  <2> QED BY <1>1, <1>3, <2>2, <2>4 DEF Disassembled, RoadrunHolds
<1> QED BY <1>4, <1>5, <1>6

-----------------------------------------------------------------------------
(* The order of a table                                                       *)

\* f goes through T once, in n steps.
Counts(f, n, T) ==
  /\ \A i \in 1..n : f[i] \in T
  /\ \A x \in T : \E i \in 1..n : f[i] = x
  /\ \A i, j \in 1..n : f[i] = f[j] => i = j

LEMMA CountedBy ==
  ASSUME NEW n \in Nat, NEW f, NEW T, Counts(f, n, T)
  PROVE  Cardinality(T) = n
<1> DEFINE g == [i \in 1..n |-> f[i]]
<1>1. /\ g \in [1..n -> T]
      /\ \A x \in T : \E i \in 1..n : g[i] = x
      /\ \A i, j \in 1..n : g[i] = g[j] => i = j
      /\ DOMAIN g = 1..n
  BY DEF Counts
<1> HIDE DEF g
<1>2. g \in Bijection(1..n, T)
  BY <1>1 DEF Bijection, Injection, Surjection, IsInjective
<1>3. ExistsBijection(1..n, T)
  BY <1>2 DEF ExistsBijection
<1> QED BY <1>3, FS_CountingElements

\* A sequence that has all members of a set once, in the order of their keys, is
\* how they are ranked.
LEMMA RankedIs ==
  ASSUME NEW S, NEW key, NEW s, NEW n \in Nat, s = [i \in 1..n |-> s[i]],
         \A i \in 1..n : s[i] \in S,
         \A x \in S : key[x] \in Nat /\ \E i \in 1..n : s[i] = x,
         \A i, j \in 1..n : i < j => key[s[i]] < key[s[j]]
  PROVE  Ranked(S, key) = s /\ Cardinality(S) = n
<1> DEFINE Below(x) == {y \in S : key[y] < key[x]}
<1>1. \A i \in 1..n : key[s[i]] \in Nat
  OBVIOUS
<1>2. ASSUME NEW i \in 1..n, NEW j \in 1..n
      PROVE  /\ s[i] = s[j] => i = j
             /\ key[s[i]] < key[s[j]] <=> i < j
  <2>1. i < j \/ i = j \/ j < i
    OBVIOUS
  <2> QED BY <1>1, <2>1
<1>3. Cardinality(S) = n
  <2>1. Counts(s, n, S)
    BY <1>2 DEF Counts
  <2> QED BY <2>1, CountedBy
<1>4. ASSUME NEW i \in 1..n PROVE Cardinality(Below(s[i])) = i - 1
  <2>1. PICK k : k = i - 1
    OBVIOUS
  <2>2. k \in Nat /\ \A j \in 1..n : j < i <=> j \in 1..k
    BY <2>1
  <2>3. \A j \in 1..k : j \in 1..n /\ j < i
    BY <2>1
  <2>4. \A j \in 1..k : s[j] \in Below(s[i])
    BY <1>2, <2>3
  <2>5. ASSUME NEW x \in Below(s[i]) PROVE \E j \in 1..k : s[j] = x
    <3>1. PICK j \in 1..n : s[j] = x
      OBVIOUS
    <3>2. j < i
      BY <1>2, <3>1
    <3> QED BY <2>2, <3>1, <3>2
  <2>6. \A j, m \in 1..k : s[j] = s[m] => j = m
    BY <1>2, <2>3
  <2> HIDE DEF Below
  <2>7. PICK T : T = Below(s[i])
    OBVIOUS
  <2>8. Counts(s, k, T)
    BY <2>4, <2>5, <2>6, <2>7 DEF Counts
  <2>9. Cardinality(T) = k
    BY <2>2, <2>8, CountedBy
  <2> QED BY <2>1, <2>7, <2>9
<1> HIDE DEF Below
<1>5. ASSUME NEW i \in 1..n
      PROVE  (CHOOSE x \in S : Cardinality(Below(x)) = i - 1) = s[i]
  <2>1. s[i] \in S /\ Cardinality(Below(s[i])) = i - 1
    BY <1>4
  <2>2. ASSUME NEW x \in S, Cardinality(Below(x)) = i - 1 PROVE x = s[i]
    <3>1. PICK j \in 1..n : s[j] = x
      OBVIOUS
    <3>2. j - 1 = i - 1
      BY <1>4, <2>2, <3>1
    <3> QED BY <3>1, <3>2
  <2> QED BY <2>1, <2>2
<1>6. Ranked(S, key) = [i \in 1..n |-> CHOOSE x \in S : Cardinality(Below(x)) = i - 1]
  BY <1>3 DEF Ranked, Below
<1>7. Ranked(S, key) = [i \in 1..n |-> s[i]]
  BY <1>5, <1>6
<1> QED BY <1>3, <1>7

\* A set of numbers can be gone through in order.
InOrder(s, n, I) ==
  /\ n \in Nat /\ s = [i \in 1..n |-> s[i]]
  /\ \A i \in 1..n : s[i] \in I
  /\ \A x \in I : \E i \in 1..n : s[i] = x
  /\ \A i, j \in 1..n : i < j => s[i] < s[j]

LEMMA OrderExists ==
  ASSUME NEW N \in Nat, NEW I, I \subseteq 1..N
  PROVE  \E s, n : InOrder(s, n, I)
<1> DEFINE P == {m \in Nat : \E s, n : InOrder(s, n, I \cap 1..m)}
<1>1. 0 \in P
  <2> DEFINE s == [i \in 1..0 |-> 0]
  <2>1. s = [i \in 1..0 |-> s[i]] /\ 1..0 = {} /\ 0 \in Nat
    OBVIOUS
  <2> HIDE DEF s
  <2>2. InOrder(s, 0, I \cap 1..0)
    BY <2>1 DEF InOrder
  <2> QED BY <2>2
<1>2. ASSUME NEW m \in Nat, m \in P PROVE m + 1 \in P
  <2>1. PICK s, n : InOrder(s, n, I \cap 1..m)
    BY <1>2
  <2>2. CASE m + 1 \notin I
    <3>1. I \cap 1..(m + 1) = I \cap 1..m
      BY <2>2
    <3> QED BY <2>1, <3>1
  <2>3. CASE m + 1 \in I
    <3> DEFINE t == [i \in 1..(n + 1) |-> IF i = n + 1 THEN m + 1 ELSE s[i]]
               J == I \cap 1..(m + 1)
    <3>1. /\ n \in Nat /\ n + 1 \in Nat /\ t = [i \in 1..(n + 1) |-> t[i]]
          /\ n + 1 \in 1..(n + 1)
          /\ t[n + 1] = m + 1 /\ \A i \in 1..n : t[i] = s[i]
          /\ \A i \in 1..(n + 1) : i = n + 1 \/ (i \in 1..n /\ i < n + 1)
      BY <2>1 DEF InOrder
    <3>2. \A x \in J : x = m + 1 \/ x \in I \cap 1..m
      OBVIOUS
    <3>3. m + 1 \in J /\ I \cap 1..m \subseteq J
      BY <2>3
    <3> HIDE DEF t, J
    <3>4. \A i \in 1..n : s[i] \in I \cap 1..m /\ s[i] \in 1..m
      BY <2>1 DEF InOrder
    <3>5. \A i \in 1..(n + 1) : t[i] \in J
      BY <3>1, <3>3, <3>4
    <3>6. \A x \in J : \E i \in 1..(n + 1) : t[i] = x
      <4>1. \A x \in I \cap 1..m : \E i \in 1..n : s[i] = x
        BY <2>1 DEF InOrder
      <4>2. 1..n \subseteq 1..(n + 1)
        BY <3>1
      <4> QED BY <3>1, <3>2, <4>1, <4>2
    <3>7. ASSUME NEW i \in 1..(n + 1), NEW j \in 1..(n + 1), i < j PROVE t[i] < t[j]
      <4>1. i \in 1..n /\ t[i] = s[i] /\ s[i] \in 1..m
        <5>1. i # n + 1
          BY <3>1, <3>7
        <5> QED BY <3>1, <3>4, <5>1
      <4>2. CASE j = n + 1
        BY <3>1, <4>1, <4>2
      <4>3. CASE j # n + 1
        <5>1. j \in 1..n /\ t[j] = s[j]
          BY <3>1, <4>3
        <5>2. s[i] < s[j]
          BY <2>1, <3>7, <4>1, <5>1 DEF InOrder
        <5> QED BY <4>1, <5>1, <5>2
      <4> QED BY <4>2, <4>3
    <3>8. InOrder(t, n + 1, J)
      BY <3>1, <3>5, <3>6, <3>7 DEF InOrder
    <3> QED BY <3>8 DEF J
  <2> QED BY <2>2, <2>3
<1>3. Nat \subseteq P
  <2> HIDE DEF P
  <2> QED BY <1>1, <1>2, NatSetInduction
<1>4. I \cap 1..N = I
  OBVIOUS
<1> QED BY <1>3, <1>4

-----------------------------------------------------------------------------
(* Names in a string of names                                                 *)

LEMMA MinFacts ==
  ASSUME NEW S, S \subseteq Nat, S # {}
  PROVE  Min(S) \in S /\ \A y \in S : Min(S) =< y
<1> DEFINE R == {p \in Nat \X Nat : p[1] < p[2]}
<1>1. IsWellFoundedOn(R, Nat)
  BY LessIsWellFounded
<1> HIDE DEF R
<1>2. PICK x \in S : \A y \in S : ~(<<y, x>> \in R)
  BY <1>1, WFMin
<1>3. \A y \in S : x =< y
  <2> TAKE y \in S
  <2>1. x \in Nat /\ y \in Nat
    OBVIOUS
  <2>2. <<y, x>> \notin R
    BY <1>2
  <2>3. ~(y < x)
    BY <2>1, <2>2 DEF R
  <2> QED BY <2>1, <2>3
<1> QED BY <1>3 DEF Min

\* The minimum is the one that is a lower bound.
LEMMA MinIs ==
  ASSUME NEW S, S \subseteq Nat, NEW x \in S, \A y \in S : x =< y
  PROVE  Min(S) = x
<1>1. Min(S) \in S /\ Min(S) =< x
  BY MinFacts
<1>2. x =< Min(S) /\ x \in Nat /\ Min(S) \in Nat
  BY <1>1
<1> QED BY <1>1, <1>2

LEMMA SpellingFacts ==
  ASSUME NEW n \in DOMAIN Spelling
  PROVE  /\ Spelling[n] \in Seq(Nat) /\ Len(Spelling[n]) \in Nat \ {0}
         /\ DOMAIN Spelling[n] = 1..Len(Spelling[n])
         /\ \A c \in 1..Len(Spelling[n]) : Spelling[n][c] \in Nat \ {0}
<1>1. Spelling[n] \in Seq(Nat \ {0}) /\ Spelling[n] # <<>>
  BY SpellingAssumption
<1> QED BY <1>1

LEMMA TerminatedFacts ==
  ASSUME NEW n \in DOMAIN Spelling
  PROVE  /\ Terminated(n) \in Seq(Nat) /\ Len(Terminated(n)) = Len(Spelling[n]) + 1
         /\ \A c \in 1..Len(Spelling[n]) : Terminated(n)[c] = Spelling[n][c]
         /\ Terminated(n)[Len(Spelling[n]) + 1] = 0
BY SpellingFacts DEF Terminated

LEMMA SubSeqOf ==
  ASSUME NEW s \in Seq(Nat), NEW a \in Nat, NEW b \in Nat, a =< b, b =< Len(s)
  PROVE  /\ SubSeq(s, a + 1, b) \in Seq(Nat) /\ Len(SubSeq(s, a + 1, b)) = b - a
         /\ \A c \in 1..(b - a) : SubSeq(s, a + 1, b)[c] = s[a + c]
<1>1. a + 1 \in Int /\ b \in Int /\ \A i \in (a + 1)..b : s[i] \in Nat
  OBVIOUS
<1>2. /\ SubSeq(s, a + 1, b) \in Seq(Nat)
      /\ Len(SubSeq(s, a + 1, b)) = IF a + 1 =< b THEN b - (a + 1) + 1 ELSE 0
      /\ \A i \in 1..(b - (a + 1) + 1) : SubSeq(s, a + 1, b)[i] = s[(a + 1) + i - 1]
  BY <1>1, SubSeqProperties
<1>3. b - (a + 1) + 1 = b - a
  OBVIOUS
<1>4. \A c \in 1..(b - a) : (a + 1) + c - 1 = a + c
  OBVIOUS
<1> QED BY <1>2, <1>3, <1>4

\* t is s from a to b.
IsCut(t, s, a, b) ==
  t \in Seq(Nat) /\ Len(t) = b - a /\ \A c \in 1..(b - a) : t[c] = s[a + c]

LEMMA CutOf ==
  ASSUME NEW s \in Seq(Nat), NEW a \in Nat, NEW b \in Nat, a =< b, b =< Len(s)
  PROVE  IsCut(SubSeq(s, a + 1, b), s, a, b)
BY SubSeqOf DEF IsCut

LEMMA SameString ==
  ASSUME NEW a \in Seq(Nat), NEW b \in Seq(Nat), Len(a) = Len(b),
         \A c \in 1..Len(b) : a[c] = b[c]
  PROVE  a = b
<1>1. /\ a = [c \in 1..Len(a) |-> a[c]] /\ b = [c \in 1..Len(b) |-> b[c]]
      /\ 1..Len(a) = 1..Len(b)
  OBVIOUS
<1>2. [c \in 1..Len(a) |-> a[c]] = [c \in 1..Len(b) |-> b[c]]
  BY <1>1
<1> QED BY <1>1, <1>2

\* The characters are in the string from place i on.
Matches(chars, str, i) ==
  /\ i \in Nat /\ i + Len(chars) =< Len(str)
  /\ \A c \in 1..Len(chars) : str[i + c] = chars[c]

LEMMA PlacesMatch ==
  ASSUME NEW chars \in Seq(Nat), NEW str \in Seq(Nat), NEW i
  PROVE  i \in Places(chars, str) <=> Matches(chars, str, i)
<1>1. Len(chars) \in Nat /\ Len(str) \in Nat /\ DOMAIN chars = 1..Len(chars)
  OBVIOUS
<1>2. i \in 0..(Len(str) - Len(chars)) <=> i \in Nat /\ i + Len(chars) =< Len(str)
  BY <1>1
<1>3. ASSUME i \in Nat, i + Len(chars) =< Len(str)
      PROVE  SubSeq(str, i + 1, i + Len(chars)) = chars
               <=> \A c \in 1..Len(chars) : str[i + c] = chars[c]
  <2>1. PICK b : b = i + Len(chars)
    OBVIOUS
  <2>2. b \in Nat /\ i =< b /\ b =< Len(str) /\ b - i = Len(chars)
    BY <1>1, <1>3, <2>1
  <2>3. PICK sub : sub = SubSeq(str, i + 1, b)
    OBVIOUS
  <2>4. /\ sub \in Seq(Nat) /\ Len(sub) = Len(chars)
        /\ \A c \in 1..Len(chars) : sub[c] = str[i + c]
    BY <1>3, <2>2, <2>3, SubSeqOf
  <2>5. sub = chars <=> \A c \in 1..Len(chars) : sub[c] = chars[c]
    BY <2>4, SameString
  <2> QED BY <2>1, <2>3, <2>4, <2>5
<1> QED BY <1>2, <1>3 DEF Places, Matches

\* What is read from an index on ends before the next zero.
LEMMA ReadUpTo ==
  ASSUME NEW str \in Seq(Nat), NEW a \in Nat, NEW b \in Nat, a =< b, b < Len(str),
         str[b + 1] = 0, \A x \in (a + 1)..b : str[x] # 0
  PROVE  ReadString(str, a) = SubSeq(str, a + 1, b)
<1> DEFINE S == {i \in a..Len(str) : i = Len(str) \/ str[i + 1] = 0}
<1>1. Len(str) \in Nat /\ S \subseteq Nat /\ b \in S
  OBVIOUS
<1>2. \A y \in S : b =< y
  <2> TAKE y \in S
  <2>1. y \in a..Len(str) /\ (y = Len(str) \/ str[y + 1] = 0)
    OBVIOUS
  <2>2. ~(y < b)
    <3>1. SUFFICES ASSUME y < b PROVE FALSE
      OBVIOUS
    <3>2. y + 1 \in (a + 1)..b /\ y # Len(str)
      BY <2>1, <3>1
    <3> QED BY <2>1, <3>2
  <2> QED BY <2>1, <2>2
<1>3. ReadString(str, a) = SubSeq(str, a + 1, Min(S))
  BY DEF ReadString
<1> HIDE DEF S
<1>4. Min(S) = b
  BY <1>1, <1>2, MinIs
<1> QED BY <1>3, <1>4

\* Where names begin if those at the places in T are written, each with a zero
\* behind it.
Width(names, T, i) == IF i \in T THEN Len(Spelling[names[i]]) + 1 ELSE 0

Layout(names, T, at, M) ==
  /\ M \in Nat /\ \A i \in 1..M : names[i] \in DOMAIN Spelling
  /\ at[1] = 0 /\ \A i \in 1..(M + 1) : at[i] \in Nat
  /\ \A i \in 1..M : at[i + 1] = at[i] + Width(names, T, i)
  /\ \A i, j \in 1..(M + 1) : i =< j => at[i] =< at[j]

\* The string is the first m of them.
Laid(str, names, T, at, m) ==
  /\ str \in Seq(Nat) /\ Len(str) = at[m + 1]
  /\ \A i \in 1..m : i \in T =>
       \A c \in 1..Len(Spelling[names[i]]) : str[at[i] + c] = Spelling[names[i]][c]
  /\ \A i \in 1..m : i \in T => str[at[i + 1]] = 0

LEMMA LayoutExists ==
  ASSUME NEW names, NEW T, NEW M \in Nat, \A i \in 1..M : names[i] \in DOMAIN Spelling
  PROVE  \E at : Layout(names, T, at, M)
<1> DEFINE lines == [i \in 1..M |-> [op |-> "bytes", size |-> Width(names, T, i)]]
<1>1. \A i \in 1..M : Width(names, T, i) \in Nat
  BY SpellingFacts DEF Width
<1>2. /\ Len(lines) = M /\ DOMAIN lines = 1..M
      /\ \A i \in 1..M : lines[i].op = "bytes" /\ lines[i].size = Width(names, T, i)
  OBVIOUS
<1> HIDE DEF lines
<1>3. IsText(lines)
  BY <1>1, <1>2 DEF IsText, IsLine
<1>4. \A i \in 1..M : \A p : LineSize(lines[i], p) = Width(names, T, i)
  BY <1>2 DEF LineSize
<1>5. PICK p : p = Positions(lines)
  OBVIOUS
<1>6. /\ p[1] = 0 /\ \A i \in 1..(M + 1) : p[i] \in Nat
      /\ \A i \in 1..M : p[i + 1] = p[i] + Width(names, T, i)
  BY <1>2, <1>3, <1>4, <1>5, PositionFacts
<1>7. ASSUME NEW i \in 1..(M + 1), NEW j \in 1..(M + 1), i =< j PROVE p[i] =< p[j]
  <2>1. j \in i..(M + 1)
    BY <1>7
  <2> QED BY <1>2, <1>3, <1>5, <2>1, PositionsGrow
<1> QED BY <1>6, <1>7 DEF Layout

LEMMA JoinedString ==
  ASSUME NEW s \in Seq(Nat), NEW t \in Seq(Nat)
  PROVE  /\ s \o t \in Seq(Nat) /\ Len(s \o t) = Len(s) + Len(t)
         /\ \A x \in 1..Len(s) : (s \o t)[x] = s[x]
         /\ \A c \in 1..Len(t) : (s \o t)[Len(s) + c] = t[c]
<1>1. s \o t \in Seq(Nat) /\ Len(s \o t) = Len(s) + Len(t)
  OBVIOUS
<1>2. \A x \in 1..(Len(s) + Len(t)) :
        (s \o t)[x] = IF x =< Len(s) THEN s[x] ELSE t[x - Len(s)]
  OBVIOUS
<1>3. ASSUME NEW c \in 1..Len(t) PROVE (s \o t)[Len(s) + c] = t[c]
  <2>1. /\ Len(s) + c \in 1..(Len(s) + Len(t)) /\ ~(Len(s) + c =< Len(s))
        /\ (Len(s) + c) - Len(s) = c
    OBVIOUS
  <2> QED BY <1>2, <2>1
<1>4. ASSUME NEW x \in 1..Len(s) PROVE (s \o t)[x] = s[x]
  <2>1. x \in 1..(Len(s) + Len(t)) /\ x =< Len(s)
    OBVIOUS
  <2> QED BY <1>2, <2>1
<1> QED BY <1>1, <1>3, <1>4

LEMMA LaidNext ==
  ASSUME NEW names, NEW T, NEW at, NEW M, Layout(names, T, at, M), NEW m \in Nat, m < M,
         NEW str, Laid(str, names, T, at, m), NEW new,
         new = IF m + 1 \in T THEN str \o Terminated(names[m + 1]) ELSE str
  PROVE  Laid(new, names, T, at, m + 1)
<1>1. /\ M \in Nat /\ m + 1 \in 1..M /\ names[m + 1] \in DOMAIN Spelling
      /\ at[m + 1] \in Nat /\ at[(m + 1) + 1] = at[m + 1] + Width(names, T, m + 1)
      /\ \A i \in 1..(m + 1) : i \in 1..m \/ i = m + 1
  BY DEF Layout
<1>2. CASE m + 1 \notin T
  <2>1. at[(m + 1) + 1] = at[m + 1] /\ new = str
    BY <1>1, <1>2 DEF Width
  <2>2. \A i \in 1..(m + 1) : i \in T => i \in 1..m
    BY <1>1, <1>2
  <2> QED BY <2>1, <2>2 DEF Laid
<1>3. CASE m + 1 \in T
  <2>1. PICK t, a, n, w : /\ t = Terminated(names[m + 1]) /\ a = at[m + 1]
                          /\ n = names[m + 1] /\ w = Len(Spelling[n])
    OBVIOUS
  <2>2. /\ t \in Seq(Nat) /\ w \in Nat /\ Len(t) = w + 1 /\ t[w + 1] = 0
        /\ \A c \in 1..w : t[c] = Spelling[n][c]
    BY <1>1, <2>1, TerminatedFacts, SpellingFacts
  <2>3. str \in Seq(Nat) /\ Len(str) = a /\ a \in Nat /\ new = str \o t
    BY <1>1, <1>3, <2>1 DEF Laid
  <2>4. Width(names, T, m + 1) = w + 1
    BY <1>3, <2>1 DEF Width
  <2>5. /\ str \in Seq(Nat) /\ Len(str) = a /\ a \in Nat /\ new = str \o t
        /\ at[(m + 1) + 1] = a + w + 1
    <3>1. at[(m + 1) + 1] = a + (w + 1) /\ w \in Nat /\ a \in Nat
      BY <1>1, <2>1, <2>2, <2>4
    <3>2. a + (w + 1) = a + w + 1
      BY <3>1
    <3> QED BY <3>1, <3>2, <2>3
  <2>6. a \in Nat /\ w \in Nat
    BY <2>2, <2>5
  <2>7. /\ new \in Seq(Nat) /\ Len(new) = a + w + 1
        /\ \A x \in 1..a : new[x] = str[x]
        /\ \A c \in 1..(w + 1) : new[a + c] = t[c]
    <3>1. Len(str) + Len(t) = a + w + 1
      BY <2>2, <2>5
    <3>2. /\ str \o t \in Seq(Nat) /\ Len(str \o t) = Len(str) + Len(t)
          /\ \A x \in 1..Len(str) : (str \o t)[x] = str[x]
          /\ \A c \in 1..Len(t) : (str \o t)[Len(str) + c] = t[c]
      BY <2>2, <2>5, JoinedString
    <3>3. Len(t) = w + 1 /\ Len(str) = a /\ new = str \o t
      BY <2>2, <2>5
    <3> QED BY Zenon, <3>1, <3>2, <3>3
  <2>8. ASSUME NEW i \in 1..m, i \in T
        PROVE  /\ \A c \in 1..Len(Spelling[names[i]]) :
                    new[at[i] + c] = Spelling[names[i]][c]
               /\ new[at[i + 1]] = 0
    <3>1. /\ i \in 1..M /\ i + 1 \in 1..(M + 1) /\ i + 1 =< m + 1 /\ m + 1 \in 1..(M + 1)
          /\ i \in 1..(M + 1)
      BY <1>1, <2>8
    <3>2. PICK v : v = Len(Spelling[names[i]])
      OBVIOUS
    <3>3. v \in Nat
      BY <3>1, <3>2, SpellingFacts DEF Layout
    <3>4. Width(names, T, i) = v + 1
      BY <2>8, <3>2 DEF Width
    <3>5. at[i + 1] =< at[m + 1]
      BY <3>1 DEF Layout
    <3>6. at[i + 1] = at[i] + Width(names, T, i) /\ at[i] \in Nat
      BY <3>1 DEF Layout
    <3>7. PICK p, q : p = at[i] /\ q = at[i + 1] /\ q = p + (v + 1) /\ p \in Nat /\ q =< a
      BY <2>1, <3>4, <3>5, <3>6
    <3>8. q \in 1..a /\ \A c \in 1..v : p + c \in 1..a
      BY <2>6, <3>3, <3>7
    <3>9. at[i + 1] \in 1..a /\ \A c \in 1..v : at[i] + c \in 1..a
      BY <3>7, <3>8
    <3>10. str[at[i + 1]] = 0 /\ \A c \in 1..v : str[at[i] + c] = Spelling[names[i]][c]
      BY <2>8, <3>2 DEF Laid
    <3> QED BY <2>7, <3>2, <3>9, <3>10
  <2>9. /\ \A c \in 1..w : new[a + c] = Spelling[n][c]
        /\ new[a + w + 1] = 0
    <3>1. w + 1 \in 1..(w + 1) /\ a + (w + 1) = a + w + 1 /\ \A c \in 1..w : c \in 1..(w + 1)
      BY <2>2, <2>5
    <3> QED BY <2>2, <2>7, <3>1
  <2>10. \A i \in 1..(m + 1) : i \in T =>
           \A c \in 1..Len(Spelling[names[i]]) : new[at[i] + c] = Spelling[names[i]][c]
    BY <1>1, <2>1, <2>8, <2>9
  <2>11. \A i \in 1..(m + 1) : i \in T => new[at[i + 1]] = 0
    BY <1>1, <2>5, <2>8, <2>9
  <2> QED BY <2>5, <2>7, <2>10, <2>11 DEF Laid
<1> QED BY <1>2, <1>3

LEMMA LaidEmpty ==
  ASSUME NEW names, NEW T, NEW at, NEW M, Layout(names, T, at, M)
  PROVE  Laid(<<>>, names, T, at, 0)
<1>1. <<>> \in Seq(Nat) /\ Len(<<>>) = 0 /\ 1..0 = {} /\ at[0 + 1] = 0
  BY DEF Layout
<1> QED BY <1>1 DEF Laid

\* Every place in the string is within one of the names, or just behind it.
LEMMA InEntry ==
  ASSUME NEW names, NEW T, NEW at, NEW M, Layout(names, T, at, M), NEW m \in 0..M
  PROVE  \A x \in 1..at[m + 1] : \E i \in 1..m : i \in T /\ at[i] < x /\ x =< at[i + 1]
<1> DEFINE P == {k \in Nat : k =< M =>
                   \A x \in 1..at[k + 1] : \E i \in 1..k : i \in T /\ at[i] < x /\ x =< at[i + 1]}
<1>1. 0 \in P
  <2>1. at[0 + 1] = 0 /\ 1..0 = {}
    BY DEF Layout
  <2> QED BY <2>1
<1>2. ASSUME NEW k \in Nat, k \in P PROVE k + 1 \in P
  <2>1. SUFFICES ASSUME k + 1 =< M, NEW x \in 1..at[(k + 1) + 1]
                 PROVE  \E i \in 1..(k + 1) : i \in T /\ at[i] < x /\ x =< at[i + 1]
    OBVIOUS
  <2>2. /\ k =< M /\ k + 1 \in 1..M /\ k + 1 \in 1..(M + 1) /\ k + 1 \in 1..(k + 1)
        /\ 1..k \subseteq 1..(k + 1)
    BY <2>1 DEF Layout
  <2>3. at[k + 1] \in Nat /\ at[(k + 1) + 1] = at[k + 1] + Width(names, T, k + 1)
        /\ at[(k + 1) + 1] \in Nat
    BY <2>1, <2>2 DEF Layout
  <2>4. CASE x =< at[k + 1]
    <3>1. x \in 1..at[k + 1]
      BY <2>3, <2>4
    <3>2. \E i \in 1..k : i \in T /\ at[i] < x /\ x =< at[i + 1]
      BY <1>2, <2>2, <3>1
    <3> QED BY <2>2, <3>2
  <2>5. CASE ~(x =< at[k + 1])
    <3>1. at[k + 1] < x /\ x =< at[(k + 1) + 1]
      BY <2>3, <2>5
    <3>2. k + 1 \in T
      BY <2>3, <3>1 DEF Width
    <3> QED BY <2>2, <3>1, <3>2
  <2> QED BY <2>4, <2>5
<1>3. Nat \subseteq P
  <2> HIDE DEF P
  <2> QED BY <1>1, <1>2, NatSetInduction
<1>4. m \in P /\ m =< M
  BY <1>3
<1> QED BY <1>4

LEMMA PlacesNat == ASSUME NEW chars, NEW str PROVE Places(chars, str) \subseteq Nat
<1>1. \A i \in 0..(Len(str) - Len(chars)) : i \in Nat
  OBVIOUS
<1> QED BY <1>1 DEF Places

\* The string has s from a on, and a zero behind it.
HasEntry(str, s, w, a) ==
  /\ str \in Seq(Nat) /\ Len(str) \in Nat /\ s \in Seq(Nat) /\ Len(s) = w
  /\ w \in Nat \ {0} /\ a \in Nat /\ a + w + 1 =< Len(str)
  /\ \A c \in 1..w : str[a + c] = s[c] /\ s[c] \in Nat \ {0}
  /\ str[a + w + 1] = 0

LEMMA EntryFacts ==
  ASSUME NEW names, NEW T, NEW at, NEW M, Layout(names, T, at, M), NEW m \in 0..M,
         NEW str, Laid(str, names, T, at, m), NEW q \in 1..m, q \in T
  PROVE  /\ names[q] \in DOMAIN Spelling
         /\ at[q + 1] = at[q] + Len(Spelling[names[q]]) + 1
         /\ HasEntry(str, Spelling[names[q]], Len(Spelling[names[q]]), at[q])
<1>1. /\ q \in 1..M /\ q \in 1..(M + 1) /\ q + 1 \in 1..(M + 1) /\ m + 1 \in 1..(M + 1)
      /\ q + 1 =< m + 1
  BY DEF Layout
<1>2. names[q] \in DOMAIN Spelling /\ at[q] \in Nat
  BY <1>1 DEF Layout
<1>3. PICK s, w, a, b : s = Spelling[names[q]] /\ w = Len(s) /\ a = at[q] /\ b = at[q + 1]
  OBVIOUS
<1>4. s \in Seq(Nat) /\ w \in Nat \ {0} /\ \A c \in 1..w : s[c] \in Nat \ {0}
  BY <1>2, <1>3, SpellingFacts
<1>5. Width(names, T, q) = w + 1 /\ b = a + Width(names, T, q)
  BY <1>1, <1>3 DEF Width, Layout
<1>6. b = a + w + 1 /\ w \in Nat /\ a \in Nat
  <2>1. w \in Nat /\ a \in Nat
    BY <1>2, <1>3, <1>4
  <2>2. b = a + (w + 1)
    BY <1>5
  <2> QED BY <2>1, <2>2
<1>7. b =< at[m + 1]
  BY <1>1, <1>3 DEF Layout
<1>8. str \in Seq(Nat) /\ Len(str) = at[m + 1]
  BY DEF Laid
<1>9. Len(str) \in Nat
  BY <1>8
<1>10. str[b] = 0 /\ \A c \in 1..w : str[a + c] = s[c]
  BY <1>3 DEF Laid
<1>11. a + w + 1 =< Len(str)
  BY <1>6, <1>7, <1>8
<1>12. HasEntry(str, s, w, a)
  BY <1>3, <1>4, <1>6, <1>8, <1>9, <1>10, <1>11 DEF HasEntry
<1> QED BY <1>2, <1>3, <1>6, <1>12

\* A name is found within one of the names, as it has no zero.
LEMMA PlaceInEntry ==
  ASSUME NEW names, NEW T, NEW at, NEW M, Layout(names, T, at, M), NEW m \in 0..M,
         NEW str, Laid(str, names, T, at, m), NEW n \in DOMAIN Spelling,
         NEW i \in Places(Spelling[n], str)
  PROVE  \E q \in 1..m : /\ q \in T /\ at[q] =< i
                         /\ i - at[q] \in Places(Spelling[n], Spelling[names[q]])
<1>1. PICK chars : chars = Spelling[n]
  OBVIOUS
<1>2. /\ chars \in Seq(Nat) /\ Len(chars) \in Nat \ {0}
      /\ \A c \in 1..Len(chars) : chars[c] \in Nat \ {0}
  BY <1>1, SpellingFacts
<1>3. str \in Seq(Nat) /\ Len(str) = at[m + 1] /\ Len(str) \in Nat
  BY DEF Laid
<1>4. Matches(chars, str, i)
  BY <1>1, <1>2, <1>3, PlacesMatch
<1>5. /\ i \in Nat /\ i + Len(chars) =< Len(str)
      /\ \A c \in 1..Len(chars) : str[i + c] = chars[c]
  BY <1>4 DEF Matches
<1>6. i + 1 \in 1..at[m + 1]
  BY <1>2, <1>3, <1>5
<1>7. PICK q \in 1..m : q \in T /\ at[q] < i + 1 /\ i + 1 =< at[q + 1]
  BY <1>6, InEntry
<1>8. PICK s, w, a, b : s = Spelling[names[q]] /\ w = Len(s) /\ a = at[q] /\ b = at[q + 1]
  OBVIOUS
<1>9. b = a + w + 1 /\ HasEntry(str, s, w, a)
  BY <1>7, <1>8, EntryFacts
<1>10. /\ s \in Seq(Nat) /\ a \in Nat /\ w \in Nat \ {0}
       /\ \A c \in 1..w : str[a + c] = s[c]
       /\ str[a + w + 1] = 0
  BY <1>9 DEF HasEntry
<1>11. a < i + 1 /\ i + 1 =< b
  BY <1>7, <1>8
<1>12. a =< i /\ i =< a + w
  BY <1>5, <1>10, <1>9, <1>11
<1>13. i + Len(chars) =< a + w
  <2>1. SUFFICES ASSUME ~(i + Len(chars) =< a + w) PROVE FALSE
    OBVIOUS
  <2>2. PICK c : c = a + w + 1 - i
    OBVIOUS
  <2>3. c \in 1..Len(chars) /\ i + c = a + w + 1
    BY <1>2, <1>5, <1>10, <1>12, <2>1, <2>2
  <2>4. str[i + c] = chars[c] /\ chars[c] # 0
    BY <1>2, <1>5, <2>3
  <2> QED BY <1>10, <2>3, <2>4
<1>14. PICK j : j = i - a
  OBVIOUS
<1>15. j \in Nat /\ j + Len(chars) =< w /\ \A c \in 1..Len(chars) : a + (j + c) = i + c
  BY <1>2, <1>5, <1>10, <1>12, <1>13, <1>14
<1>16. \A c \in 1..Len(chars) : j + c \in 1..w
  BY <1>2, <1>10, <1>15
<1>17. \A c \in 1..Len(chars) : s[j + c] = chars[c]
  BY <1>5, <1>10, <1>15, <1>16
<1>18. Matches(chars, s, j)
  BY <1>8, <1>15, <1>17 DEF Matches
<1>19. j \in Places(chars, s)
  BY <1>2, <1>10, <1>18, PlacesMatch
<1> QED BY <1>1, <1>7, <1>8, <1>12, <1>14, <1>19

LEMMA PlaceFromEntry ==
  ASSUME NEW names, NEW T, NEW at, NEW M, Layout(names, T, at, M), NEW m \in 0..M,
         NEW str, Laid(str, names, T, at, m), NEW n \in DOMAIN Spelling,
         NEW q \in 1..m, q \in T, NEW j \in Places(Spelling[n], Spelling[names[q]])
  PROVE  at[q] + j \in Places(Spelling[n], str)
<1>1. PICK chars, s, a : chars = Spelling[n] /\ s = Spelling[names[q]] /\ a = at[q]
  OBVIOUS
<1>2. chars \in Seq(Nat) /\ Len(chars) \in Nat \ {0}
  BY <1>1, SpellingFacts
<1>3. HasEntry(str, s, Len(s), a)
  BY <1>1, EntryFacts
<1>4. /\ str \in Seq(Nat) /\ s \in Seq(Nat) /\ a \in Nat /\ Len(s) \in Nat
      /\ Len(str) \in Nat
      /\ a + Len(s) + 1 =< Len(str) /\ \A c \in 1..Len(s) : str[a + c] = s[c]
  BY <1>3 DEF HasEntry
<1>5. Matches(chars, s, j)
  BY <1>1, <1>2, <1>4, PlacesMatch
<1>6. /\ j \in Nat /\ j + Len(chars) =< Len(s)
      /\ \A c \in 1..Len(chars) : s[j + c] = chars[c]
  BY <1>5 DEF Matches
<1>7. a + j \in Nat /\ (a + j) + Len(chars) =< Len(str)
  BY <1>2, <1>4, <1>6
<1>8. \A c \in 1..Len(chars) : j + c \in 1..Len(s) /\ (a + j) + c = a + (j + c)
  BY <1>2, <1>4, <1>6
<1>9. \A c \in 1..Len(chars) : str[(a + j) + c] = chars[c]
  BY <1>4, <1>6, <1>8
<1>10. Matches(chars, str, a + j)
  BY <1>7, <1>9 DEF Matches
<1> QED BY <1>1, <1>2, <1>4, <1>10, PlacesMatch

\* The first of the names that contains a name.
IsFirst(names, n, q) ==
  /\ Places(Spelling[n], Spelling[names[q]]) # {}
  /\ \A k \in 1..(q - 1) : Places(Spelling[n], Spelling[names[k]]) = {}

\* The first place of a name is the first one in the first name that contains it.
LEMMA FirstPlace ==
  ASSUME NEW names, NEW T, NEW at, NEW M, Layout(names, T, at, M), NEW m \in 0..M,
         NEW str, Laid(str, names, T, at, m), NEW n \in DOMAIN Spelling,
         NEW q \in 1..m, q \in T, IsFirst(names, n, q)
  PROVE  /\ Min(Places(Spelling[n], str))
               = at[q] + Min(Places(Spelling[n], Spelling[names[q]]))
         /\ Min(Places(Spelling[n], Spelling[names[q]])) \in 0..Len(Spelling[names[q]])
<1>1. /\ Places(Spelling[n], Spelling[names[q]]) # {}
      /\ \A k \in 1..(q - 1) : Places(Spelling[n], Spelling[names[k]]) = {}
  BY DEF IsFirst
<1>2. PICK P, S, a : /\ P = Places(Spelling[n], Spelling[names[q]])
                     /\ S = Places(Spelling[n], str) /\ a = at[q]
  OBVIOUS
<1>3. P \subseteq Nat /\ S \subseteq Nat /\ P # {}
  BY <1>1, <1>2, PlacesNat
<1>4. PICK j : j = Min(P)
  OBVIOUS
<1>5. j \in P /\ \A y \in P : j =< y
  BY <1>3, <1>4, MinFacts
<1>6. a + j \in S
  BY <1>2, <1>5, PlaceFromEntry
<1>7. PICK w : w = Len(Spelling[names[q]])
  OBVIOUS
<1>8. HasEntry(str, Spelling[names[q]], w, a) /\ at[q + 1] = a + w + 1
  BY <1>2, <1>7, EntryFacts
<1>9. w \in Nat /\ a \in Nat /\ at[q + 1] = a + w + 1
  BY <1>8 DEF HasEntry
<1>10. j \in Nat /\ j =< w
  <2>1. PICK chars, s : chars = Spelling[n] /\ s = Spelling[names[q]]
    OBVIOUS
  <2>2. chars \in Seq(Nat) /\ s \in Seq(Nat) /\ Len(chars) \in Nat /\ Len(s) = w
    BY <1>7, <1>8, <2>1, SpellingFacts DEF HasEntry
  <2>3. Matches(chars, s, j)
    BY <1>2, <1>5, <2>1, <2>2, PlacesMatch
  <2> QED BY <1>9, <2>2, <2>3 DEF Matches
<1>11. ASSUME NEW i \in S PROVE a + j =< i
  <2>1. PICK k \in 1..m : /\ k \in T /\ at[k] =< i
                          /\ i - at[k] \in Places(Spelling[n], Spelling[names[k]])
    BY <1>2, PlaceInEntry
  <2>2. /\ i \in Nat /\ k \in 1..(M + 1) /\ at[k] \in Nat /\ q + 1 \in 1..(M + 1)
        /\ q \in Nat /\ k \in Nat
    BY <1>3 DEF Layout
  <2>3. ~(k < q)
    <3>1. k < q => k \in 1..(q - 1)
      BY <2>2
    <3> QED BY <1>1, <2>1, <3>1
  <2>4. CASE k = q
    <3>1. i - a \in P
      BY <1>2, <2>1, <2>4
    <3>2. j =< i - a
      BY <1>5, <3>1
    <3> QED BY <1>9, <1>10, <2>2, <3>2
  <2>5. CASE q + 1 =< k
    <3>1. at[q + 1] =< at[k]
      BY <2>2, <2>5 DEF Layout
    <3> QED BY <1>9, <1>10, <2>1, <2>2, <3>1
  <2> QED BY <2>2, <2>3, <2>4, <2>5
<1>12. Min(S) = a + j
  BY <1>3, <1>6, <1>11, MinIs
<1> QED BY <1>2, <1>4, <1>7, <1>9, <1>10, <1>12

\* What is read within a name is the rest of the name.
LEMMA ReadEntry ==
  ASSUME NEW names, NEW T, NEW at, NEW M, Layout(names, T, at, M), NEW m \in 0..M,
         NEW str, Laid(str, names, T, at, m), NEW q \in 1..m, q \in T,
         NEW j \in 0..Len(Spelling[names[q]])
  PROVE  ReadString(str, at[q] + j)
           = SubSeq(Spelling[names[q]], j + 1, Len(Spelling[names[q]]))
<1>1. PICK s, a, w, i : s = Spelling[names[q]] /\ a = at[q] /\ w = Len(s) /\ i = j
  OBVIOUS
<1>2. HasEntry(str, s, w, a) /\ i \in 0..w
  BY <1>1, EntryFacts
<1>3. /\ str \in Seq(Nat) /\ s \in Seq(Nat) /\ a \in Nat /\ w \in Nat /\ Len(str) \in Nat
      /\ a + w + 1 =< Len(str) /\ str[a + w + 1] = 0
      /\ \A c \in 1..w : str[a + c] = s[c] /\ s[c] \in Nat \ {0}
  BY <1>2 DEF HasEntry
<1>4. a \in Nat /\ w \in Nat /\ i \in Nat /\ i =< w /\ a + w + 1 =< Len(str) /\ Len(str) \in Nat
  BY <1>3, <1>2
<1>5. PICK x, y : x = a + i /\ y = a + w
  OBVIOUS
<1>6. x \in Nat /\ y \in Nat /\ x =< y /\ y < Len(str) /\ y + 1 = a + w + 1
  BY <1>5, <1>4
<1>7. \A z \in (x + 1)..y : z - a \in 1..w /\ a + (z - a) = z
  BY <1>5, <1>4
<1>8. \A z \in (x + 1)..y : str[z] # 0
  <2> TAKE z \in (x + 1)..y
  <2>1. str[a + (z - a)] = s[z - a] /\ s[z - a] \in Nat \ {0}
    BY <1>3, <1>7
  <2> QED BY <1>7, <2>1
<1>9. ReadString(str, x) = SubSeq(str, x + 1, y)
  <2>1. /\ str \in Seq(Nat) /\ x \in Nat /\ y \in Nat /\ x =< y /\ y < Len(str)
        /\ \A z \in (x + 1)..y : str[z] # 0
    BY <1>3, <1>6, <1>8
  <2>2. str[y + 1] = 0
    BY <1>3, <1>6
  <2> QED BY <2>1, <2>2, ReadUpTo
<1>10. /\ SubSeq(str, x + 1, y) \in Seq(Nat) /\ Len(SubSeq(str, x + 1, y)) = y - x
       /\ \A c \in 1..(y - x) : SubSeq(str, x + 1, y)[c] = str[x + c]
  <2>1. y =< Len(str) /\ str \in Seq(Nat) /\ x \in Nat /\ y \in Nat /\ x =< y
    BY <1>3, <1>6, <1>4
  <2>2. IsCut(SubSeq(str, x + 1, y), str, x, y)
    BY <2>1, CutOf
  <2> QED BY <2>2 DEF IsCut
<1>11. /\ SubSeq(s, i + 1, w) \in Seq(Nat) /\ Len(SubSeq(s, i + 1, w)) = w - i
       /\ \A c \in 1..(w - i) : SubSeq(s, i + 1, w)[c] = s[i + c]
  <2>1. w =< Len(s) /\ s \in Seq(Nat) /\ i \in Nat /\ w \in Nat /\ i =< w
    BY <1>1, <1>3, <1>4
  <2>2. IsCut(SubSeq(s, i + 1, w), s, i, w)
    BY <2>1, CutOf
  <2> QED BY <2>2 DEF IsCut
<1>12. y - x = w - i /\ \A c \in 1..(w - i) : x + c = a + (i + c) /\ i + c \in 1..w
  BY <1>5, <1>4
<1>13. \A c \in 1..(w - i) : SubSeq(str, x + 1, y)[c] = SubSeq(s, i + 1, w)[c]
  <2> TAKE c \in 1..(w - i)
  <2>1. SubSeq(str, x + 1, y)[c] = str[x + c] /\ SubSeq(s, i + 1, w)[c] = s[i + c]
    BY <1>10, <1>11, <1>12
  <2>2. str[x + c] = str[a + (i + c)] /\ str[a + (i + c)] = s[i + c]
    BY <1>3, <1>12
  <2> QED BY <2>1, <2>2
<1>14. SubSeq(str, x + 1, y) = SubSeq(s, i + 1, w)
  BY <1>10, <1>11, <1>12, <1>13, SameString
<1> QED BY <1>1, <1>5, <1>9, <1>14

-----------------------------------------------------------------------------
(* The names of an object file                                                *)

\* A string that grows step by step.
Grown(f, base, T, g, n) ==
  f = [k \in 0..n |-> IF k = 0 THEN base
                      ELSE IF k \in T THEN f[k - 1] \o g[k] ELSE f[k - 1]]

LEMMA GrownExists ==
  ASSUME NEW base, NEW T, NEW g, NEW n \in Nat
  PROVE  \E f : Grown(f, base, T, g, n)
<1> DEFINE S == {m \in Nat : \E f : Grown(f, base, T, g, m)}
<1>1. 0 \in S
  <2> DEFINE f == [i \in 0..0 |-> base]
  <2>1. f = [i \in 0..0 |-> IF i = 0 THEN base
                            ELSE IF i \in T THEN f[i - 1] \o g[i] ELSE f[i - 1]]
    OBVIOUS
  <2> HIDE DEF f
  <2>2. Grown(f, base, T, g, 0)
    BY <2>1 DEF Grown
  <2> QED BY <2>2
<1>2. ASSUME NEW m \in Nat, m \in S PROVE m + 1 \in S
  <2>1. PICK p : Grown(p, base, T, g, m)
    BY <1>2
  <2>2. PICK last : last = IF m + 1 \in T THEN p[m] \o g[m + 1] ELSE p[m]
    OBVIOUS
  <2> DEFINE q == [i \in 0..(m + 1) |-> IF i = m + 1 THEN last ELSE p[i]]
  <2>3. /\ q[m + 1] = last /\ \A i \in 0..m : q[i] = p[i]
        /\ q = [i \in 0..(m + 1) |-> q[i]]
    OBVIOUS
  <2> HIDE DEF q
  <2>4. ASSUME NEW i \in 0..(m + 1)
        PROVE  q[i] = IF i = 0 THEN base
                      ELSE IF i \in T THEN q[i - 1] \o g[i] ELSE q[i - 1]
    <3>1. CASE i = m + 1
      <4>1. i # 0 /\ i - 1 = m /\ m \in 0..m
        BY <3>1
      <4>2. i # 0 /\ i - 1 = m /\ q[m] = p[m]
        BY <2>3, <4>1
      <4> QED BY <2>2, <2>3, <3>1, <4>2
    <3>2. CASE i # m + 1
      <4>1. i \in 0..m /\ (i # 0 => i - 1 \in 0..m)
        BY <3>2
      <4>2. i \in 0..m /\ q[i] = p[i] /\ (i # 0 => i - 1 \in 0..m)
        BY <2>3, <4>1
      <4>3. i # 0 => q[i - 1] = p[i - 1]
        BY <2>3, <4>2
      <4>4. p[i] = IF i = 0 THEN base ELSE IF i \in T THEN p[i - 1] \o g[i] ELSE p[i - 1]
        BY <2>1, <4>2 DEF Grown
      <4> QED BY <4>2, <4>3, <4>4
    <3> QED BY <3>1, <3>2
  <2>5. q = [i \in 0..(m + 1) |-> IF i = 0 THEN base
                                  ELSE IF i \in T THEN q[i - 1] \o g[i] ELSE q[i - 1]]
    BY <2>3, <2>4
  <2>6. Grown(q, base, T, g, m + 1)
    BY <2>5 DEF Grown
  <2> QED BY <2>6
<1> HIDE DEF S
<1>3. Nat \subseteq S
  BY <1>1, <1>2, NatSetInduction
<1> QED BY <1>3 DEF S

LEMMA FlattenFacts ==
  ASSUME NEW seqs, NEW n \in Nat \ {0}, Len(seqs) = n
  PROVE  \E f : /\ f[1] = seqs[1]
                /\ \A i \in 1..n : i # 1 => f[i] = f[i - 1] \o seqs[i]
                /\ FlattenSeq(seqs) = f[n]
<1> DEFINE F == CHOOSE f : f = [i \in 1..n |-> IF i = 1 THEN seqs[i] ELSE f[i - 1] \o seqs[i]]
           g == [k \in 0..n |-> seqs[k + 1]]
<1>1. PICK h : h = g
  OBVIOUS
<1>2. n - 1 \in Nat
  OBVIOUS
<1>3. \E p : Grown(p, seqs[1], Nat, h, n - 1)
  BY <1>2, GrownExists
<1>4. PICK p : Grown(p, seqs[1], Nat, g, n - 1)
  BY <1>1, <1>3
<1>5. \E f : f = [i \in 1..n |-> IF i = 1 THEN seqs[i] ELSE f[i - 1] \o seqs[i]]
  <2> DEFINE f == [i \in 1..n |-> p[i - 1]]
  <2>1. ASSUME NEW i \in 1..n
        PROVE  f[i] = IF i = 1 THEN seqs[i] ELSE f[i - 1] \o seqs[i]
    <3>1. /\ i - 1 \in 0..(n - 1) /\ (i - 1 = 0 <=> i = 1) /\ i - 1 \in Nat
          /\ i - 1 \in 0..n /\ (i - 1) + 1 = i
      OBVIOUS
    <3>2. g[i - 1] = seqs[i]
      BY <3>1
    <3> HIDE DEF g
    <3>3. p[i - 1] = IF i = 1 THEN seqs[1] ELSE p[(i - 1) - 1] \o g[i - 1]
      BY <1>4, <3>1 DEF Grown
    <3>4. i # 1 => f[i - 1] = p[(i - 1) - 1]
      <4>1. i # 1 => i - 1 \in 1..n
        OBVIOUS
      <4> QED BY <4>1
    <3>5. f[i] = p[i - 1]
      OBVIOUS
    <3> HIDE DEF f
    <3> QED BY <3>2, <3>3, <3>4, <3>5
  <2>2. f = [i \in 1..n |-> f[i]]
    OBVIOUS
  <2> HIDE DEF f
  <2>3. f = [i \in 1..n |-> IF i = 1 THEN seqs[i] ELSE f[i - 1] \o seqs[i]]
    BY <2>1, <2>2
  <2> QED BY <2>3
<1>6. F = [i \in 1..n |-> IF i = 1 THEN seqs[i] ELSE F[i - 1] \o seqs[i]]
  BY <1>5
<1>7. FlattenSeq(seqs) = F[n]
  <2>1. Len(seqs) # 0
    OBVIOUS
  <2> QED BY <2>1 DEF FlattenSeq
<1> HIDE DEF F
<1>8. F[1] = seqs[1] /\ \A i \in 1..n : i # 1 => F[i] = F[i - 1] \o seqs[i]
  <2>1. 1 \in 1..n
    OBVIOUS
  <2>2. F[1] = seqs[1]
    BY <1>6, <2>1
  <2>3. ASSUME NEW i \in 1..n, i # 1 PROVE F[i] = F[i - 1] \o seqs[i]
    BY <1>6, <2>3
  <2> QED BY <2>2, <2>3
<1> QED BY <1>7, <1>8

\* The names of the first m, one after the other, are laid out so.
LEMMA FlattenLaid ==
  ASSUME NEW names, NEW T, NEW at, NEW M, Layout(names, T, at, M), NEW m \in 0..M,
         1..m \subseteq T, NEW seqs, seqs = [i \in 1..m |-> Terminated(names[i])]
  PROVE  Laid(FlattenSeq(seqs), names, T, at, m)
<1>1. Len(seqs) = m /\ m \in Nat /\ m =< M /\ M \in Nat
  BY DEF Layout
<1>2. CASE m = 0
  <2>1. seqs = <<>>
    BY <1>2
  <2>2. FlattenSeq(seqs) = <<>>
    BY <1>1, <1>2, <2>1 DEF FlattenSeq
  <2> QED BY <1>2, <2>2, LaidEmpty
<1>3. CASE m # 0
  <2>1. PICK f : /\ f[1] = seqs[1]
                 /\ \A i \in 1..m : i # 1 => f[i] = f[i - 1] \o seqs[i]
                 /\ FlattenSeq(seqs) = f[m]
    <3>1. m \in Nat \ {0} /\ Len(seqs) = m
      BY <1>1, <1>3
    <3> QED BY ONLY <3>1, FlattenFacts, ZenonT(30)
  <2>2. \A i \in 1..m : seqs[i] = Terminated(names[i]) /\ names[i] \in DOMAIN Spelling
    BY <1>1 DEF Layout
  <2> DEFINE P == {k \in Nat : k + 1 =< m => Laid(f[k + 1], names, T, at, k + 1)}
  <2>3. 0 \in P
    <3>1. Laid(<<>>, names, T, at, 0) /\ 1 \in 1..m /\ 0 < M /\ 0 + 1 \in T /\ 0 + 1 = 1
      BY <1>1, <1>3, LaidEmpty
    <3>2. <<>> \o Terminated(names[1]) = Terminated(names[1])
      BY <2>2, <3>1, TerminatedFacts
    <3>3. f[1] = IF 0 + 1 \in T THEN <<>> \o Terminated(names[0 + 1]) ELSE <<>>
      BY <2>1, <2>2, <3>1, <3>2
    <3>4. Laid(f[1], names, T, at, 0 + 1)
      BY <3>1, <3>3, LaidNext
    <3> QED BY <3>4
  <2>4. ASSUME NEW k \in Nat, k \in P PROVE k + 1 \in P
    <3>1. SUFFICES ASSUME (k + 1) + 1 =< m PROVE Laid(f[(k + 1) + 1], names, T, at, (k + 1) + 1)
      OBVIOUS
    <3>2. /\ k + 1 =< m /\ k + 1 \in Nat /\ k + 1 < M /\ (k + 1) + 1 \in 1..m
          /\ (k + 1) + 1 # 1 /\ ((k + 1) + 1) - 1 = k + 1
      BY <1>1, <3>1
    <3>3. Laid(f[k + 1], names, T, at, k + 1)
      BY <2>4, <3>2
    <3>4. f[(k + 1) + 1] = f[k + 1] \o Terminated(names[(k + 1) + 1]) /\ (k + 1) + 1 \in T
      BY <2>1, <2>2, <3>2
    <3>5. f[(k + 1) + 1] = IF (k + 1) + 1 \in T THEN f[k + 1] \o Terminated(names[(k + 1) + 1])
                           ELSE f[k + 1]
      BY <3>4
    <3> QED BY <3>2, <3>3, <3>5, LaidNext
  <2>5. Nat \subseteq P
    <3> HIDE DEF P
    <3> QED BY <2>3, <2>4, NatSetInduction
  <2>6. m - 1 \in P /\ (m - 1) + 1 = m /\ m =< m
    BY <1>1, <1>3, <2>5
  <2>7. Laid(f[m], names, T, at, m)
    BY <2>6
  <2> QED BY <2>1, <2>7
<1> QED BY <1>2, <1>3

\* The labels and the references of an object file, and all their names; those
\* at the places in Stored are written.
Named(ls, ks) ==
  /\ Len(ls) \in Nat /\ ls = [i \in 1..Len(ls) |-> ls[i]]
  /\ Len(ks) \in Nat /\ ks = [k \in 1..Len(ks) |-> ks[k]]
  /\ \A i \in 1..Len(ls) : ls[i].name \in DOMAIN Spelling
  /\ \A k \in 1..Len(ks) : ks[k].name \in DOMAIN Spelling

NamesOf(ls, ks) ==
  [i \in 1..(Len(ls) + Len(ks)) |-> IF i =< Len(ls) THEN ls[i].name ELSE ks[i - Len(ls)].name]

Stored(ls, ks) ==
  {i \in 1..(Len(ls) + Len(ks)) : i =< Len(ls) \/ ~Seen(ks, i - Len(ls))}

LaidIn(ls, ks, at) == Layout(NamesOf(ls, ks), Stored(ls, ks), at, Len(ls) + Len(ks))

LEMMA NamesFacts ==
  ASSUME NEW ls, NEW ks, Named(ls, ks)
  PROVE  /\ Len(ls) \in Nat /\ Len(ks) \in Nat /\ Len(ls) + Len(ks) \in Nat
         /\ \A i \in 1..(Len(ls) + Len(ks)) : NamesOf(ls, ks)[i] \in DOMAIN Spelling
         /\ \A i \in 1..Len(ls) : /\ i \in 1..(Len(ls) + Len(ks))
                                  /\ NamesOf(ls, ks)[i] = ls[i].name /\ i \in Stored(ls, ks)
         /\ \A k \in 1..Len(ks) : /\ Len(ls) + k \in 1..(Len(ls) + Len(ks))
                                  /\ NamesOf(ls, ks)[Len(ls) + k] = ks[k].name
                                  /\ Len(ls) + k \in Stored(ls, ks) <=> ~Seen(ks, k)
<1>1. PICK L, K : L = Len(ls) /\ K = Len(ks)
  OBVIOUS
<1>2. /\ L \in Nat /\ K \in Nat
      /\ \A i \in 1..L : ls[i].name \in DOMAIN Spelling
      /\ \A k \in 1..K : ks[k].name \in DOMAIN Spelling
  BY <1>1 DEF Named
<1>3. /\ NamesOf(ls, ks) = [i \in 1..(L + K) |-> IF i =< L THEN ls[i].name ELSE ks[i - L].name]
      /\ Stored(ls, ks) = {i \in 1..(L + K) : i =< L \/ ~Seen(ks, i - L)}
  BY <1>1 DEF NamesOf, Stored
<1>4. ASSUME NEW i \in 1..L
      PROVE  i \in 1..(L + K) /\ NamesOf(ls, ks)[i] = ls[i].name /\ i \in Stored(ls, ks)
  BY <1>2, <1>3
<1>5. ASSUME NEW k \in 1..K
      PROVE  /\ L + k \in 1..(L + K) /\ NamesOf(ls, ks)[L + k] = ks[k].name
             /\ L + k \in Stored(ls, ks) <=> ~Seen(ks, k)
  <2>1. L + k \in 1..(L + K) /\ (L + k) - L = k /\ ~(L + k =< L)
    BY <1>2
  <2>2. PICK i : i = L + k
    OBVIOUS
  <2>3. i \in 1..(L + K) /\ i - L = k /\ ~(i =< L)
    BY <2>1, <2>2
  <2>4. NamesOf(ls, ks)[i] = ks[k].name /\ (i \in Stored(ls, ks) <=> ~Seen(ks, k))
    BY <1>3, <2>3
  <2> QED BY <2>1, <2>2, <2>4
<1>6. ASSUME NEW i \in 1..(L + K) PROVE NamesOf(ls, ks)[i] \in DOMAIN Spelling
  <2>1. CASE i =< L
    <3>1. i \in 1..L
      BY <1>2, <2>1
    <3> QED BY <1>2, <1>4, <3>1
  <2>2. CASE ~(i =< L)
    <3>1. i - L \in 1..K
      BY <1>2, <2>2
    <3> QED BY <1>2, <1>3, <2>2, <3>1
  <2> QED BY <2>1, <2>2
<1> QED BY <1>1, <1>2, <1>4, <1>5, <1>6

LEMMA SomeLaidIn ==
  ASSUME NEW ls, NEW ks, Named(ls, ks)
  PROVE  \E at : LaidIn(ls, ks, at)
BY NamesFacts, LayoutExists DEF LaidIn

LEMMA DynstrSteps ==
  ASSUME NEW ls, NEW ks, Len(ks) \in Nat
  PROVE  /\ Dynstr(ls, ks)[0] = FlattenSeq([i \in DOMAIN ls |-> Terminated(ls[i].name)])
         /\ \A k \in 1..Len(ks) :
              Dynstr(ls, ks)[k] = IF Seen(ks, k) THEN Dynstr(ls, ks)[k - 1]
                                  ELSE Dynstr(ls, ks)[k - 1] \o Terminated(ks[k].name)
<1>1. PICK base, T, g, n :
        /\ base = FlattenSeq([i \in DOMAIN ls |-> Terminated(ls[i].name)])
        /\ T = {k \in 1..Len(ks) : ~Seen(ks, k)}
        /\ g = [k \in 1..Len(ks) |-> Terminated(ks[k].name)]
        /\ n = Len(ks)
  OBVIOUS
<1>2. n \in Nat
  BY <1>1
<1>3. \A k \in 1..n : (k \in T <=> ~Seen(ks, k)) /\ g[k] = Terminated(ks[k].name)
  BY <1>1
<1>4. PICK p : Grown(p, base, T, g, n)
  BY <1>2, GrownExists
<1>5. p = [k \in 0..n |-> IF k = 0 THEN base
                          ELSE IF k \in T THEN p[k - 1] \o g[k] ELSE p[k - 1]]
  BY <1>4 DEF Grown
<1>6. \A k \in 0..n : k # 0 => k \in 1..n
  BY <1>2
<1>7. \A k \in 0..n :
        (IF k = 0 THEN base ELSE IF k \in T THEN p[k - 1] \o g[k] ELSE p[k - 1])
          = (IF k = 0 THEN base
             ELSE IF Seen(ks, k) THEN p[k - 1] ELSE p[k - 1] \o Terminated(ks[k].name))
  BY <1>3, <1>6
<1>8. p = [k \in 0..n |-> IF k = 0 THEN base
                          ELSE IF Seen(ks, k) THEN p[k - 1] ELSE p[k - 1] \o Terminated(ks[k].name)]
  BY <1>5, <1>7
<1>9. \E f : f = [k \in 0..n |-> IF k = 0 THEN base
                    ELSE IF Seen(ks, k) THEN f[k - 1] ELSE f[k - 1] \o Terminated(ks[k].name)]
  BY <1>8
<1> DEFINE F == CHOOSE f :
                  f = [k \in 0..n |-> IF k = 0 THEN base
                         ELSE IF Seen(ks, k) THEN f[k - 1] ELSE f[k - 1] \o Terminated(ks[k].name)]
<1>10. F = [k \in 0..n |-> IF k = 0 THEN base
                           ELSE IF Seen(ks, k) THEN F[k - 1]
                           ELSE F[k - 1] \o Terminated(ks[k].name)]
  BY <1>9
<1>11. Dynstr(ls, ks) = F
  BY <1>1 DEF Dynstr
<1> HIDE DEF F
<1>12. 0 \in 0..n /\ \A k \in 1..n : k \in 0..n /\ k # 0
  BY <1>2
<1> QED BY <1>1, <1>10, <1>11, <1>12

LEMMA DynstrLaid ==
  ASSUME NEW ls, NEW ks, Named(ls, ks), NEW at, LaidIn(ls, ks, at), NEW k \in 0..Len(ks)
  PROVE  Laid(Dynstr(ls, ks)[k], NamesOf(ls, ks), Stored(ls, ks), at, Len(ls) + k)
<1>1. PICK L, K, names, T, str :
        /\ L = Len(ls) /\ K = Len(ks) /\ names = NamesOf(ls, ks) /\ T = Stored(ls, ks)
        /\ str = Dynstr(ls, ks)
  OBVIOUS
<1>2. /\ L \in Nat /\ K \in Nat /\ k \in 0..K /\ Layout(names, T, at, L + K)
  BY <1>1, NamesFacts DEF LaidIn
<1>3. /\ \A i \in 1..L : names[i] = ls[i].name /\ i \in T
      /\ \A m \in 1..K : names[L + m] = ks[m].name /\ (L + m \in T <=> ~Seen(ks, m))
  BY <1>1, NamesFacts
<1>4. /\ str[0] = FlattenSeq([i \in DOMAIN ls |-> Terminated(ls[i].name)])
      /\ \A m \in 1..K : str[m] = IF Seen(ks, m) THEN str[m - 1]
                                  ELSE str[m - 1] \o Terminated(ks[m].name)
  BY <1>1, <1>2, DynstrSteps
<1> DEFINE P == {m \in Nat : m =< K => Laid(str[m], names, T, at, L + m)}
<1>5. 0 \in P
  <2>1. DOMAIN ls = 1..L
    BY <1>1 DEF Named
  <2>2. [i \in DOMAIN ls |-> Terminated(ls[i].name)] = [i \in 1..L |-> Terminated(names[i])]
    BY <1>3, <2>1
  <2>3. L \in 0..(L + K) /\ 1..L \subseteq T /\ L + 0 = L
    BY <1>2, <1>3
  <2>4. Laid(str[0], names, T, at, L)
    BY <1>2, <1>4, <2>2, <2>3, FlattenLaid
  <2> QED BY <2>3, <2>4
<1>6. ASSUME NEW m \in Nat, m \in P PROVE m + 1 \in P
  <2>1. SUFFICES ASSUME m + 1 =< K PROVE Laid(str[m + 1], names, T, at, L + (m + 1))
    OBVIOUS
  <2>2. PICK n, q : n = L + m /\ q = m + 1
    OBVIOUS
  <2>3. /\ q \in 1..K /\ q - 1 = m /\ n \in Nat /\ n < L + K /\ L + q = n + 1
        /\ L + (m + 1) = n + 1 /\ m =< K
    BY <1>2, <2>1, <2>2
  <2>4. Laid(str[m], names, T, at, n)
    BY <1>6, <2>2, <2>3
  <2>5. str[q] = IF n + 1 \in T THEN str[m] \o Terminated(names[n + 1]) ELSE str[m]
    BY <1>3, <1>4, <2>3
  <2>6. Laid(str[q], names, T, at, n + 1)
    BY <1>2, <2>3, <2>4, <2>5, LaidNext
  <2> QED BY <2>2, <2>3, <2>6
<1>7. Nat \subseteq P
  <2> HIDE DEF P
  <2> QED BY <1>5, <1>6, NatSetInduction
<1>8. k \in P /\ k =< K
  BY <1>2, <1>7
<1>9. Laid(str[k], names, T, at, L + k)
  BY <1>8
<1> QED BY <1>1, <1>9

\* A label's name is where its own is written.
LEMMA LabelPlace ==
  ASSUME NEW ls, NEW ks, Named(ls, ks), NEW at, LaidIn(ls, ks, at), NEW i \in 1..Len(ls)
  PROVE  LabelIndex(ls, i) = at[i]
<1>1. PICK L, K, names, T :
        /\ L = Len(ls) /\ K = Len(ks) /\ names = NamesOf(ls, ks) /\ T = Stored(ls, ks)
  OBVIOUS
<1>2. L \in Nat /\ K \in Nat /\ i \in 1..L /\ Layout(names, T, at, L + K)
  BY <1>1, NamesFacts DEF LaidIn
<1>3. \A j \in 1..L : names[j] = ls[j].name /\ j \in T
  BY <1>1, NamesFacts
<1>4. PICK m : m = i - 1
  OBVIOUS
<1>5. m \in Nat /\ m =< L /\ m + 1 = i /\ m \in 0..(L + K) /\ m < L
  BY <1>2, <1>4
<1>6. PICK X : X = SubSeq(ls, 1, i - 1)
  OBVIOUS
<1>7. DOMAIN X = 1..m /\ \A j \in 1..m : X[j] = ls[j]
  <2>1. ls \in Seq({ls[j] : j \in 1..L})
    BY <1>1, <1>2 DEF Named
  <2>2. SubSeq(ls, 1, m) = [j \in 1..m |-> ls[j]]
    BY <1>1, <1>5, <2>1
  <2> QED BY <1>4, <1>6, <2>2
<1>8. PICK seqs : seqs = [j \in DOMAIN X |-> Terminated(X[j].name)]
  OBVIOUS
<1>9. seqs = [j \in 1..m |-> Terminated(names[j])]
  <2>1. \A j \in 1..m : j \in 1..L
    BY <1>2, <1>5
  <2> QED BY <1>3, <1>7, <1>8, <2>1
<1>10. Dynstr(X, <<>>)[0] = FlattenSeq(seqs)
  <2>1. Len(<<>>) \in Nat
    OBVIOUS
  <2> QED BY <1>8, <2>1, DynstrSteps
<1>11. 1..m \subseteq T
  BY <1>2, <1>3, <1>5
<1>12. Laid(FlattenSeq(seqs), names, T, at, m)
  BY <1>2, <1>5, <1>9, <1>11, FlattenLaid
<1>13. Len(FlattenSeq(seqs)) = at[m + 1]
  BY <1>12 DEF Laid
<1> QED BY <1>5, <1>6, <1>10, <1>13 DEF LabelIndex

LEMMA ReadAsFacts ==
  ASSUME NEW n \in DOMAIN Spelling, NEW m \in DOMAIN Spelling,
         Places(Spelling[n], Spelling[m]) # {}
  PROVE  /\ <<n, m>> \in DOMAIN ReadAs /\ ReadAs[<<n, m>>] \in DOMAIN Spelling
         /\ Spelling[ReadAs[<<n, m>>]]
              = SubSeq(Spelling[m], Min(Places(Spelling[n], Spelling[m])) + 1, Len(Spelling[m]))
<1> DEFINE rest == SubSeq(Spelling[m], Min(Places(Spelling[n], Spelling[m])) + 1,
                          Len(Spelling[m]))
<1>1. \E r \in DOMAIN Spelling : Spelling[r] = rest
  BY SpellingAssumption
<1>2. <<n, m>> \in DOMAIN ReadAs
           /\ ReadAs[<<n, m>>] = CHOOSE r \in DOMAIN Spelling : Spelling[r] = rest
  BY DEF ReadAs
<1> HIDE DEF rest
<1>3. PICK r : r = CHOOSE x \in DOMAIN Spelling : Spelling[x] = rest
  OBVIOUS
<1>4. r \in DOMAIN Spelling /\ Spelling[r] = rest
  BY <1>1, <1>3
<1> QED BY <1>2, <1>3, <1>4 DEF rest

\* The first of some names that contains one.
FirstWith(names, n) ==
  CHOOSE i \in DOMAIN names :
    /\ Places(Spelling[n], Spelling[names[i]]) # {}
    /\ \A j \in 1..(i - 1) : ~(Places(Spelling[n], Spelling[names[j]]) # {})

LEMMA FirstWithFacts ==
  ASSUME NEW names, NEW M \in Nat, DOMAIN names = 1..M, NEW n, NEW p \in 1..M,
         Places(Spelling[n], Spelling[names[p]]) # {}
  PROVE  \E q \in 1..p : FirstWith(names, n) = q /\ IsFirst(names, n, q)
<1> DEFINE S == {i \in 1..M : Places(Spelling[n], Spelling[names[i]]) # {}}
<1>1. S \subseteq Nat /\ p \in S /\ S \subseteq 1..M
  OBVIOUS
<1>2. \A i \in 1..M : i \in S <=> Places(Spelling[n], Spelling[names[i]]) # {}
  OBVIOUS
<1> HIDE DEF S
<1>3. PICK q : q \in S /\ \A y \in S : q =< y
  BY <1>1, MinFacts
<1>4. q \in 1..p /\ q \in 1..M /\ q \in Nat
  BY <1>1, <1>3
<1>5. \A j \in 1..(q - 1) : j \in 1..M /\ j \notin S
  BY <1>1, <1>3, <1>4
<1>6. /\ Places(Spelling[n], Spelling[names[q]]) # {}
      /\ \A j \in 1..(q - 1) : Places(Spelling[n], Spelling[names[j]]) = {}
  BY <1>2, <1>3, <1>4, <1>5
<1>7. FirstWith(names, n) = q
  <2>1. \A i \in 1..M : (/\ Places(Spelling[n], Spelling[names[i]]) # {}
                         /\ \A j \in 1..(i - 1) : ~(Places(Spelling[n], Spelling[names[j]]) # {}))
                          => i = q
    <3> TAKE i \in 1..M
    <3> HAVE /\ Places(Spelling[n], Spelling[names[i]]) # {}
             /\ \A j \in 1..(i - 1) : ~(Places(Spelling[n], Spelling[names[j]]) # {})
    <3>1. q =< i
      BY <1>2, <1>3
    <3>2. ~(q < i)
      <4>1. q < i => q \in 1..(i - 1)
        BY <1>4
      <4> QED BY <1>6, <4>1
    <3> QED BY <1>4, <3>1, <3>2
  <2> QED BY <1>4, <1>6, <2>1 DEF FirstWith
<1> QED BY <1>4, <1>6, <1>7 DEF IsFirst

\* What the linker takes reference k to be about.
NameRead(ls, ks, k) ==
  IF Seen(ks, k)
  THEN ReadAs[<<ks[k].name, NamesOf(ls, ks)[FirstWith(NamesOf(ls, ks), ks[k].name)]>>]
  ELSE ks[k].name

LEMMA WholeSpelling ==
  ASSUME NEW n \in DOMAIN Spelling
  PROVE  /\ SubSeq(Spelling[n], 1, Len(Spelling[n])) = Spelling[n]
         /\ 0 \in Places(Spelling[n], Spelling[n])
<1>1. PICK s, w : s = Spelling[n] /\ w = Len(s)
  OBVIOUS
<1>2. s \in Seq(Nat) /\ w \in Nat \ {0}
  BY <1>1, SpellingFacts
<1>3. SubSeq(s, 1, w) = s
  BY <1>1, <1>2
<1>4. Matches(s, s, 0)
  BY <1>1, <1>2 DEF Matches
<1>5. 0 \in Places(s, s)
  BY <1>2, <1>4, PlacesMatch
<1> QED BY <1>1, <1>3, <1>5

LEMMA LabelRead ==
  ASSUME NEW ls, NEW ks, Named(ls, ks), NEW at, LaidIn(ls, ks, at), NEW i \in 1..Len(ls)
  PROVE  ReadString(Dynstr(ls, ks)[Len(ks)], LabelIndex(ls, i)) = Spelling[ls[i].name]
<1>1. PICK L, K, names, T, str :
        /\ L = Len(ls) /\ K = Len(ks) /\ names = NamesOf(ls, ks) /\ T = Stored(ls, ks)
        /\ str = Dynstr(ls, ks)[K]
  OBVIOUS
<1>2. L \in Nat /\ K \in Nat /\ i \in 1..L /\ Layout(names, T, at, L + K)
  BY <1>1, NamesFacts DEF LaidIn
<1>3. /\ i \in 1..(L + K) /\ i \in T /\ names[i] = ls[i].name
      /\ ls[i].name \in DOMAIN Spelling
  BY <1>1, NamesFacts
<1>4. K \in 0..Len(ks) /\ L + K \in 0..(L + K)
  BY <1>1, <1>2
<1>5. Laid(str, names, T, at, L + K)
  BY <1>1, <1>4, DynstrLaid
<1>6. 0 \in 0..Len(Spelling[names[i]])
  BY <1>3, SpellingFacts
<1>7. ReadString(str, at[i] + 0)
        = SubSeq(Spelling[names[i]], 0 + 1, Len(Spelling[names[i]]))
  BY <1>2, <1>3, <1>4, <1>5, <1>6, ReadEntry
<1>8. at[i] \in Nat /\ at[i] + 0 = at[i]
  <2>1. i \in 1..((L + K) + 1)
    BY <1>2
  <2>2. at[i] \in Nat
    BY <1>2, <2>1 DEF Layout
  <2> QED BY <2>2
<1>9. LabelIndex(ls, i) = at[i]
  BY LabelPlace
<1>10. SubSeq(Spelling[names[i]], 0 + 1, Len(Spelling[names[i]])) = Spelling[names[i]]
  BY <1>3, WholeSpelling
<1> QED BY <1>1, <1>3, <1>7, <1>8, <1>9, <1>10

LEMMA ReferenceRead ==
  ASSUME NEW ls, NEW ks, Named(ls, ks), NEW at, LaidIn(ls, ks, at), NEW k \in 1..Len(ks)
  PROVE  ReadString(Dynstr(ls, ks)[Len(ks)], NameIndex(ls, ks, k))
           = Spelling[NameRead(ls, ks, k)]
<1>1. PICK L, K, names, T, str, n :
        /\ L = Len(ls) /\ K = Len(ks) /\ names = NamesOf(ls, ks) /\ T = Stored(ls, ks)
        /\ str = Dynstr(ls, ks)[K] /\ n = ks[k].name
  OBVIOUS
<1>2. /\ L \in Nat /\ K \in Nat /\ k \in 1..K /\ k \in Nat /\ Layout(names, T, at, L + K)
      /\ L + K \in 0..(L + K)
  BY <1>1, NamesFacts DEF LaidIn
<1>3. /\ L + k \in 1..(L + K) /\ (L + k \in T <=> ~Seen(ks, k)) /\ names[L + k] = n
      /\ n \in DOMAIN Spelling
  BY <1>1, NamesFacts
<1>4. K \in 0..Len(ks) /\ k - 1 \in 0..Len(ks) /\ k - 1 \in Nat /\ k - 1 < k
  BY <1>1, <1>2
<1>5. Laid(str, names, T, at, L + K)
  BY <1>1, <1>4, DynstrLaid
<1>6. PICK before, b : before = Dynstr(ls, ks)[k - 1] /\ b = L + (k - 1)
  OBVIOUS
<1>7. Laid(before, names, T, at, b)
  BY <1>1, <1>4, <1>6, DynstrLaid
<1>8. b \in 0..(L + K) /\ b + 1 = L + k /\ b \in Nat
  BY <1>2, <1>6
<1>9. CASE ~Seen(ks, k)
  <2>1. PICK q : q = L + k
    OBVIOUS
  <2>2. NameIndex(ls, ks, k) = at[q]
    <3>1. NameIndex(ls, ks, k) = Len(before)
      BY <1>6, <1>9 DEF NameIndex
    <3> QED BY <1>7, <1>8, <2>1, <3>1 DEF Laid
  <2>3. q \in 1..(L + K) /\ q \in T /\ names[q] = n /\ q \in 1..((L + K) + 1)
    BY <1>2, <1>3, <1>9, <2>1
  <2>4. 0 \in 0..Len(Spelling[names[q]])
    BY <1>3, <2>3, SpellingFacts
  <2>5. ReadString(str, at[q] + 0)
          = SubSeq(Spelling[names[q]], 0 + 1, Len(Spelling[names[q]]))
    BY <1>2, <1>5, <2>3, <2>4, ReadEntry
  <2>6. at[q] + 0 = at[q]
    <3>1. at[q] \in Nat
      BY <1>2, <2>3 DEF Layout
    <3> QED BY <3>1
  <2>7. SubSeq(Spelling[names[q]], 0 + 1, Len(Spelling[names[q]])) = Spelling[n]
    BY <1>3, <2>3, WholeSpelling
  <2> QED BY <1>1, <1>9, <2>2, <2>5, <2>6, <2>7 DEF NameRead
<1>10. CASE Seen(ks, k)
  <2>1. PICK j \in 1..(k - 1) : ks[j].name = n
    BY <1>1, <1>10 DEF Seen
  <2>2. PICK p : p = L + j
    OBVIOUS
  <2>3. j \in 1..K /\ p \in 1..b /\ p \in 1..(L + K) /\ L + K \in Nat
    BY <1>2, <1>6, <2>1, <2>2
  <2>4. names[p] = n
    BY <1>1, <2>1, <2>2, <2>3, NamesFacts
  <2>5. Places(Spelling[n], Spelling[names[p]]) # {}
    BY <1>3, <2>4, WholeSpelling
  <2>6. DOMAIN names = 1..(L + K)
    BY <1>1 DEF NamesOf
  <2>7. PICK q \in 1..p : FirstWith(names, n) = q /\ IsFirst(names, n, q)
    BY <2>3, <2>5, <2>6, FirstWithFacts
  <2>8. /\ Places(Spelling[n], Spelling[names[q]]) # {}
        /\ \A i \in 1..(q - 1) : Places(Spelling[n], Spelling[names[i]]) = {}
    BY <2>7 DEF IsFirst
  <2>9. q \in 1..b /\ q \in 1..(L + K) /\ q \in Nat
    BY <1>8, <2>3
  <2>10. q \in T
    <3>1. SUFFICES ASSUME q \notin T PROVE FALSE
      OBVIOUS
    <3>2. ~(q =< L)
      <4>1. q =< L => q \in 1..L
        BY <1>2, <2>9
      <4> QED BY <1>1, <3>1, <4>1, NamesFacts
    <3>3. PICK r : r = q - L
      OBVIOUS
    <3>4. r \in 1..K /\ q = L + r
      BY <1>2, <2>9, <3>2, <3>3
    <3>5. Seen(ks, r) /\ names[q] = ks[r].name
      BY <1>1, <3>1, <3>4, NamesFacts
    <3>6. PICK s \in 1..(r - 1) : ks[s].name = ks[r].name
      BY <3>5 DEF Seen
    <3>7. s \in 1..K /\ L + s \in 1..(q - 1)
      BY <1>2, <3>4, <3>6
    <3>8. names[L + s] = ks[s].name
      BY <1>1, <3>7, NamesFacts
    <3>9. names[L + s] = names[q]
      BY <3>5, <3>6, <3>8
    <3> QED BY <2>8, <3>7, <3>9
  <2>11. PICK i : i = Min(Places(Spelling[n], Spelling[names[q]]))
    OBVIOUS
  <2>12. /\ Min(Places(Spelling[n], before)) = at[q] + i
         /\ i \in 0..Len(Spelling[names[q]])
    <3>1. Layout(names, T, at, L + K) /\ b \in 0..(L + K) /\ Laid(before, names, T, at, b)
      BY <1>2, <1>7, <1>8
    <3>2. /\ n \in DOMAIN Spelling /\ q \in 1..b /\ q \in T
          /\ IsFirst(names, n, q)
      BY <1>3, <2>7, <2>9, <2>10
    <3> QED BY <3>1, <3>2, <2>11, FirstPlace
  <2>13. NameIndex(ls, ks, k) = at[q] + i
    BY <1>1, <1>6, <1>10, <2>12 DEF NameIndex
  <2>14. ReadString(str, at[q] + i)
           = SubSeq(Spelling[names[q]], i + 1, Len(Spelling[names[q]]))
    BY <1>2, <1>5, <2>9, <2>10, <2>12, ReadEntry
  <2>15. names[q] \in DOMAIN Spelling
    BY <1>2, <2>9 DEF Layout
  <2>16. Spelling[ReadAs[<<n, names[q]>>]]
           = SubSeq(Spelling[names[q]], i + 1, Len(Spelling[names[q]]))
    BY <1>3, <2>8, <2>11, <2>15, ReadAsFacts
  <2>17. NameRead(ls, ks, k) = ReadAs[<<n, names[q]>>]
    BY <1>1, <1>10, <2>7 DEF NameRead
  <2> QED BY <1>1, <2>13, <2>14, <2>16, <2>17
<1> QED BY <1>9, <1>10

-----------------------------------------------------------------------------
(* What the linker finds in an object file                                    *)

LEMMA NoBlob == \A file, place : Blob(file, place, 0) = <<>>
BY DEF Blob

\* The nine parts of an object file: header and segments; w bytes of sections, a of
\* names, b of symbols, e of relocations and z of text; two that are not read.
InParts(file, w, a, b, e, z, head, segs, secs, strs, syms, rels, text) ==
  /\ w \in Nat \ {0} /\ a \in Nat /\ b \in Nat /\ e \in Nat /\ z \in Nat \ {0}
  /\ file = << Part(52, head), Part(64, segs), Part(w, secs), Part(a, strs), Part(b, syms),
               Part(47, SectionNames), Part(28, "comment"), Part(e, rels), Part(z, text) >>

\* Every part of an object file is found where it begins.
LEMMA PartsFound ==
  ASSUME NEW file, NEW w, NEW a, NEW b, NEW e, NEW z, NEW c1, NEW c2, NEW c3, NEW c4, NEW c5,
         NEW c8, NEW c9, InParts(file, w, a, b, e, z, c1, c2, c3, c4, c5, c8, c9)
  PROVE  /\ file[1].content = c1
         /\ Blob(file, 52, 64) = c2
         /\ Blob(file, 116, w) = c3
         /\ a # 0 => Blob(file, 116 + w, a) = c4
         /\ b # 0 => Blob(file, 116 + w + a, b) = c5
         /\ e # 0 => Blob(file, 116 + w + a + b + 75, e) = c8
         /\ Blob(file, 116 + w + a + b + 75 + e, z) = c9
<1>1. /\ w \in Nat \ {0} /\ a \in Nat /\ b \in Nat /\ e \in Nat /\ z \in Nat \ {0}
      /\ file = << Part(52, c1), Part(64, c2), Part(w, c3), Part(a, c4), Part(b, c5),
                   Part(47, SectionNames), Part(28, "comment"), Part(e, c8), Part(z, c9) >>
  BY DEF InParts
<1>2. Len(file) = 9 /\ Len(file) \in Nat /\ DOMAIN file = 1..9
  BY <1>1
<1>3. /\ file[1].size = 52 /\ file[2].size = 64 /\ file[3].size = w /\ file[4].size = a
      /\ file[5].size = b /\ file[6].size = 47 /\ file[7].size = 28 /\ file[8].size = e
      /\ file[9].size = z
  BY <1>1 DEF Part
<1>4. /\ file[1].content = c1 /\ file[2].content = c2 /\ file[3].content = c3
      /\ file[4].content = c4 /\ file[5].content = c5 /\ file[8].content = c8
      /\ file[9].content = c9
  BY <1>1 DEF Part
<1>5. PICK start : Finds(file, start)
  <2>1. Len(file) \in Nat /\ DOMAIN file = 1..Len(file)
    BY <1>2
  <2> QED BY <2>1, BlobFinds, Zenon
<1>6. /\ start[1] = 0 /\ start[2] = 52 /\ start[3] = 116 /\ start[4] = 116 + w
      /\ start[5] = 116 + w + a /\ start[6] = 116 + w + a + b
      /\ start[7] = 116 + w + a + b + 47 /\ start[8] = 116 + w + a + b + 75
      /\ start[9] = 116 + w + a + b + 75 + e
  <2>1. /\ start[1] = 0
        /\ \A i \in 1..9 : start[i + 1] = start[i] + file[i].size
    BY <1>2, <1>5 DEF Finds
  <2>2. /\ start[1 + 1] = start[1] + 52 /\ start[2 + 1] = start[2] + 64
        /\ start[3 + 1] = start[3] + w /\ start[4 + 1] = start[4] + a
        /\ start[5 + 1] = start[5] + b /\ start[6 + 1] = start[6] + 47
        /\ start[7 + 1] = start[7] + 28 /\ start[8 + 1] = start[8] + e
    BY <1>3, <2>1
  <2>3. /\ w \in Nat \ {0} /\ a \in Nat /\ b \in Nat /\ e \in Nat /\ z \in Nat \ {0}
    BY <1>1
  <2> QED BY <2>1, <2>2, <2>3
<1>7. \A j \in DOMAIN file : j \in {1, 2, 3, 4, 5, 6, 7, 8, 9}
  BY <1>2
<1>8. \A i \in DOMAIN file :
        (file[i].size # 0 /\ \A j \in DOMAIN file :
           start[j] = start[i] /\ file[j].size = file[i].size => j = i)
        => Blob(file, start[i], file[i].size) = file[i].content
  BY <1>5 DEF Finds
<1>9. w \in Nat \ {0} /\ a \in Nat /\ b \in Nat /\ e \in Nat /\ z \in Nat \ {0}
  BY <1>1
<1>10. \A i, j \in DOMAIN file :
         file[i].size # 0 /\ start[j] = start[i] /\ file[j].size = file[i].size => j = i
  BY <1>3, <1>6, <1>7, <1>9
<1>11. \A i \in DOMAIN file :
         file[i].size # 0 => Blob(file, start[i], file[i].size) = file[i].content
  BY <1>8, <1>10
<1>12. /\ 2 \in DOMAIN file /\ 3 \in DOMAIN file /\ 4 \in DOMAIN file /\ 5 \in DOMAIN file
       /\ 8 \in DOMAIN file /\ 9 \in DOMAIN file
  BY <1>2
<1>13. /\ file[2].size # 0 => Blob(file, start[2], file[2].size) = file[2].content
       /\ file[3].size # 0 => Blob(file, start[3], file[3].size) = file[3].content
       /\ file[4].size # 0 => Blob(file, start[4], file[4].size) = file[4].content
       /\ file[5].size # 0 => Blob(file, start[5], file[5].size) = file[5].content
       /\ file[8].size # 0 => Blob(file, start[8], file[8].size) = file[8].content
       /\ file[9].size # 0 => Blob(file, start[9], file[9].size) = file[9].content
  BY <1>11, <1>12
<1> QED BY <1>3, <1>4, <1>6, <1>13, <1>9

LEMMA JoinedTables ==
  ASSUME NEW n \in Nat, NEW m \in Nat, NEW f, NEW g,
         f = [i \in 1..n |-> f[i]], g = [i \in 1..m |-> g[i]]
  PROVE  /\ Len(f \o g) = n + m /\ DOMAIN (f \o g) = 1..(n + m)
         /\ f \o g = [i \in 1..(n + m) |-> (f \o g)[i]]
         /\ \A i \in 1..(n + m) : (f \o g)[i] = IF i =< n THEN f[i] ELSE g[i - n]
<1>1. PICK S : S = {f[i] : i \in 1..n} \cup {g[i] : i \in 1..m}
  OBVIOUS
<1>2. (\A i \in 1..n : f[i] \in S) /\ (\A i \in 1..m : g[i] \in S)
  BY <1>1
<1>3. f \in [1..n -> S] /\ g \in [1..m -> S]
  BY <1>2
<1>4. f \in Seq(S) /\ g \in Seq(S)
  BY <1>3 DEF Seq
<1>5. DOMAIN f = 1..n /\ DOMAIN g = 1..m
  BY <1>3
<1>6. Len(f) = n /\ Len(g) = m
  BY <1>4, <1>5
<1>7. PICK h : h = f \o g
  OBVIOUS
<1>8. h \in Seq(S) /\ Len(h) = n + m
  BY <1>4, <1>6, <1>7
<1>9. h \in [1..(n + m) -> S]
  BY <1>8, LenProperties
<1>10. h = [i \in 1..(n + m) |-> h[i]]
  BY <1>9
<1> QED BY <1>4, <1>6, <1>7, <1>10

LEMMA DynsymFacts ==
  ASSUME NEW ls, NEW ks, Named(ls, ks)
  PROVE  /\ Len(Dynsym(ls, ks)) = Len(ls) + Len(ks)
         /\ DOMAIN Dynsym(ls, ks) = 1..(Len(ls) + Len(ks))
         /\ \A i \in 1..Len(ls) :
              Dynsym(ls, ks)[i] = [name |-> LabelIndex(ls, i), value |-> 4 * ls[i].value,
                                   section |-> 1]
         /\ \A k \in 1..Len(ks) :
              Dynsym(ls, ks)[Len(ls) + k] = [name |-> NameIndex(ls, ks, k),
                                             value |-> 4 * ks[k].relbase, section |-> 0]
<1>1. PICK f, g, L, K :
        /\ f = [i \in DOMAIN ls |-> [name |-> LabelIndex(ls, i), value |-> 4 * ls[i].value,
                                     section |-> 1]]
        /\ g = [k \in DOMAIN ks |-> [name |-> NameIndex(ls, ks, k),
                                     value |-> 4 * ks[k].relbase, section |-> 0]]
        /\ L = Len(ls) /\ K = Len(ks)
  OBVIOUS
<1>2. L \in Nat /\ K \in Nat /\ DOMAIN ls = 1..L /\ DOMAIN ks = 1..K
  BY <1>1 DEF Named
<1>3. Dynsym(ls, ks) = f \o g
  BY <1>1 DEF Dynsym
<1>4. f = [i \in 1..L |-> f[i]] /\ g = [k \in 1..K |-> g[k]]
  BY <1>1, <1>2
<1>5. /\ Len(f \o g) = L + K /\ DOMAIN (f \o g) = 1..(L + K)
      /\ \A i \in 1..(L + K) : (f \o g)[i] = IF i =< L THEN f[i] ELSE g[i - L]
  BY <1>2, <1>4, JoinedTables
<1>6. \A i \in 1..L : (f \o g)[i] = f[i]
  BY <1>2, <1>5
<1>7. ASSUME NEW k \in 1..K PROVE (f \o g)[L + k] = g[k]
  <2>1. L + k \in 1..(L + K) /\ ~(L + k =< L) /\ (L + k) - L = k
    BY <1>2
  <2> QED BY <1>5, <2>1
<1> QED BY <1>1, <1>2, <1>3, <1>5, <1>6, <1>7

LEMMA DynsymFields ==
  ASSUME NEW ls, NEW ks, Named(ls, ks)
  PROVE  /\ DOMAIN Dynsym(ls, ks) = 1..(Len(ls) + Len(ks))
         /\ \A i \in 1..Len(ls) : /\ Dynsym(ls, ks)[i].name = LabelIndex(ls, i)
                                  /\ Dynsym(ls, ks)[i].value = 4 * ls[i].value
                                  /\ Dynsym(ls, ks)[i].section = 1
         /\ \A k \in 1..Len(ks) : /\ Dynsym(ls, ks)[Len(ls) + k].name = NameIndex(ls, ks, k)
                                  /\ Dynsym(ls, ks)[Len(ls) + k].value = 4 * ks[k].relbase
                                  /\ Dynsym(ls, ks)[Len(ls) + k].section = 0
<1>1. ASSUME NEW i \in 1..Len(ls)
      PROVE  /\ Dynsym(ls, ks)[i].name = LabelIndex(ls, i)
             /\ Dynsym(ls, ks)[i].value = 4 * ls[i].value
             /\ Dynsym(ls, ks)[i].section = 1
  <2>1. PICK n, v : n = LabelIndex(ls, i) /\ v = 4 * ls[i].value
    OBVIOUS
  <2>2. Dynsym(ls, ks)[i] = [name |-> n, value |-> v, section |-> 1]
    BY <2>1, DynsymFacts
  <2> QED BY <2>1, <2>2
<1>2. ASSUME NEW k \in 1..Len(ks)
      PROVE  /\ Dynsym(ls, ks)[Len(ls) + k].name = NameIndex(ls, ks, k)
             /\ Dynsym(ls, ks)[Len(ls) + k].value = 4 * ks[k].relbase
             /\ Dynsym(ls, ks)[Len(ls) + k].section = 0
  <2>1. PICK n, v : n = NameIndex(ls, ks, k) /\ v = 4 * ks[k].relbase
    OBVIOUS
  <2>2. Dynsym(ls, ks)[Len(ls) + k] = [name |-> n, value |-> v, section |-> 0]
    BY <2>1, DynsymFacts
  <2> QED BY <2>1, <2>2
<1> QED BY <1>1, <1>2, DynsymFacts

\* The sizes of the parts, and how many sections there are.
Sizes(ls, ks, n, a, b, e) ==
  /\ a = Len(Dynstr(ls, ks)[Len(ks)]) /\ a \in Nat
  /\ b = 16 * (Len(ls) + Len(ks)) /\ e = 8 * Len(ks)
  /\ n = (IF Len(ls) + Len(ks) = 0 THEN 3 ELSE 5) + (IF Len(ks) = 0 THEN 0 ELSE 1)

LEMMA ElfFileIs ==
  ASSUME NEW base, NEW entry, NEW ls, NEW ks, Named(ls, ks), NEW size \in Nat \ {0}, NEW text,
         NEW n, NEW a, NEW b, NEW e, Sizes(ls, ks, n, a, b, e)
  PROVE  /\ n \in {3, 5, 6}
         /\ n = 3 <=> Len(ls) + Len(ks) = 0
         /\ n = 6 <=> Len(ks) # 0
         /\ InParts(ElfFile(base, entry, ls, ks, size, text), 40 * n, a, b, e, size,
                    ElfHeader(entry, n), SegmentTable(base, n, a, b, e, size),
                    SectionTable(n, a, b, e, size), Dynstr(ls, ks)[Len(ks)], Dynsym(ls, ks),
                    Rel(ls, ks, base), text)
<1>1. PICK str : str = Dynstr(ls, ks)[Len(ks)]
  OBVIOUS
<1>2. PICK L, K, syms, rels : /\ L = Len(ls) /\ K = Len(ks) /\ syms = Dynsym(ls, ks)
                              /\ rels = Rel(ls, ks, base)
  OBVIOUS
<1>3. L \in Nat /\ K \in Nat
  BY <1>2 DEF Named
<1>4. Len(syms) = L + K /\ DOMAIN syms = 1..(L + K)
  BY <1>2, DynsymFacts
<1>5. Len(rels) = K /\ DOMAIN rels = 1..K
  <2>1. DOMAIN ks = 1..K
    BY <1>2 DEF Named
  <2>2. rels = [k \in 1..K |-> [addr |-> 4 * base + ks[k].at, type |-> WrittenType(ks[k].type),
                                sym |-> Len(ls) + k - 1]]
    BY <1>2, <2>1 DEF Rel
  <2> QED BY <1>3, <2>2
<1>6. (syms = <<>> <=> L + K = 0) /\ (rels = <<>> <=> K = 0)
  <2>1. L + K = 0 => syms = <<>>
    BY <1>3, <1>2, <1>4 DEF Dynsym, Named
  <2>2. L + K # 0 => syms # <<>>
    BY <1>3, <1>4
  <2>3. K = 0 => rels = <<>>
    BY <1>3, <1>2, <1>5 DEF Rel, Named
  <2>4. K # 0 => rels # <<>>
    BY <1>3, <1>5
  <2> QED BY <2>1, <2>2, <2>3, <2>4
<1>7. SectionCount(syms, rels) = n
  BY <1>2, <1>6 DEF SectionCount, Sizes
<1>8. n \in {3, 5, 6} /\ (n = 3 <=> L + K = 0) /\ (n = 6 <=> K # 0)
  BY <1>2, <1>3 DEF Sizes
<1>9. SymSize * Len(syms) = b /\ RelSize * Len(rels) = e
  BY <1>2, <1>4, <1>5 DEF SymSize, RelSize, Sizes
<1>10. /\ HeaderSize = 52 /\ 2 * PHeaderSize = 64 /\ SHeaderSize * n = 40 * n
       /\ StrtabSize = 47 /\ CommentSize = 28
  BY DEF HeaderSize, PHeaderSize, SHeaderSize, StrtabSize, CommentSize
<1>11. ElfFile(base, entry, ls, ks, size, text) =
              << Part(HeaderSize, ElfHeader(entry, n)),
                 Part(2 * PHeaderSize, SegmentTable(base, n, a, b, e, size)),
                 Part(SHeaderSize * n, SectionTable(n, a, b, e, size)), Part(a, str),
                 Part(b, syms), Part(StrtabSize, SectionNames), Part(CommentSize, "comment"),
                 Part(e, rels), Part(size, text) >>
  <2>1. a = Len(str)
    BY <1>1 DEF Sizes
  <2> QED BY <1>1, <1>2, <1>7, <1>9, <2>1 DEF ElfFile
<1>12. ElfFile(base, entry, ls, ks, size, text) =
              << Part(52, ElfHeader(entry, n)), Part(64, SegmentTable(base, n, a, b, e, size)),
                 Part(40 * n, SectionTable(n, a, b, e, size)), Part(a, str),
                 Part(b, syms), Part(47, SectionNames), Part(28, "comment"),
                 Part(e, rels), Part(size, text) >>
  BY <1>10, <1>11
<1>13. 40 * n \in Nat \ {0} /\ a \in Nat /\ b \in Nat /\ e \in Nat
  <2>1. b = 16 * (L + K) /\ e = 8 * K /\ a \in Nat
    BY <1>2 DEF Sizes
  <2> QED BY <1>3, <1>8, <2>1
<1>14. InParts(ElfFile(base, entry, ls, ks, size, text), 40 * n, a, b, e, size,
               ElfHeader(entry, n), SegmentTable(base, n, a, b, e, size),
               SectionTable(n, a, b, e, size), str, syms, rels, text)
  BY <1>12, <1>13 DEF InParts
<1> QED BY <1>1, <1>2, <1>8, <1>14

IsSection(s, name, type, place, size, link) ==
  s.name = name /\ s.type = type /\ s.offset = place /\ s.size = size /\ s.link = link

LEMMA CutTable ==
  ASSUME NEW s, NEW m \in Nat, s = [i \in 1..m |-> s[i]], NEW n \in 0..m
  PROVE  /\ Len(SubSeq(s, 1, n)) = n /\ DOMAIN SubSeq(s, 1, n) = 1..n
         /\ \A i \in 1..n : SubSeq(s, 1, n)[i] = s[i]
<1>1. PICK S : S = {s[i] : i \in 1..m}
  OBVIOUS
<1>2. s \in [1..m -> S]
  BY <1>1
<1>3. s \in Seq(S)
  BY <1>2 DEF Seq
<1>4. Len(s) = m
  BY <1>2, <1>3
<1>5. SubSeq(s, 1, n) = [i \in 1..n |-> s[i]]
  BY <1>3, <1>4
<1> QED BY <1>5

SectionsFound(secs, d, n, a, b, e, z) ==
  /\ Len(secs) = n /\ DOMAIN secs = 1..n
  /\ IsSection(secs[1], 27, PROGBITS, d + a + b + 47, 28, 0)
  /\ IsSection(secs[2], 36, PROGBITS, d + a + b + 75 + e, z, 0)
  /\ IsSection(secs[3], 1, STRTAB, d + a + b, 47, 0)
  /\ n # 3 => IsSection(secs[4], 11, STRTAB, d, a, 0)
  /\ n # 3 => IsSection(secs[5], 19, DYNSYM, d + a, b, 3)
  /\ n = 6 => IsSection(secs[6], 42, REL, d + a + b + 75, e, 4)

LEMMA SectionFacts ==
  ASSUME NEW n \in {3, 5, 6}, NEW a \in Nat, NEW b \in Nat, NEW e \in Nat, NEW z \in Nat
  PROVE  SectionsFound(SectionTable(n, a, b, e, z), DataAt(n), n, a, b, e, z)
<1>1. PICK secs, d : secs = SectionTable(n, a, b, e, z) /\ d = DataAt(n)
  OBVIOUS
<1>2. DataAt(n) = d /\ d \in Nat
  BY <1>1 DEF DataAt, HeaderSize, PHeaderSize, SHeaderSize
<1>3. StrtabSize = 47 /\ CommentSize = 28
  BY DEF StrtabSize, CommentSize
<1> DEFINE Section(name, type, place, size, link) ==
             [name |-> SectionNames[name], type |-> type, offset |-> DataAt(n) + place,
              size |-> size, link |-> link]
<1>4. PICK s1, s2, s3, s4, s5, s6 :
        /\ s1 = Section("comment", PROGBITS, a + b + StrtabSize, CommentSize, 0)
        /\ s2 = Section("text", PROGBITS, a + b + StrtabSize + CommentSize + e, z, 0)
        /\ s3 = Section("shstrtab", STRTAB, a + b, StrtabSize, 0)
        /\ s4 = Section("dynstr", STRTAB, 0, a, 0)
        /\ s5 = Section("dynsym", DYNSYM, a, b, 3)
        /\ s6 = Section("rel", REL, a + b + StrtabSize + CommentSize, e, 4)
  OBVIOUS
<1>5. secs = SubSeq(<<s1, s2, s3, s4, s5, s6>>, 1, n)
  BY <1>1, <1>4 DEF SectionTable
<1>6. /\ IsSection(s1, SectionNames["comment"], PROGBITS,
                    DataAt(n) + (a + b + StrtabSize), CommentSize, 0)
      /\ IsSection(s2, SectionNames["text"], PROGBITS,
                   DataAt(n) + (a + b + StrtabSize + CommentSize + e), z, 0)
      /\ IsSection(s3, SectionNames["shstrtab"], STRTAB, DataAt(n) + (a + b), StrtabSize, 0)
      /\ IsSection(s4, SectionNames["dynstr"], STRTAB, DataAt(n) + 0, a, 0)
      /\ IsSection(s5, SectionNames["dynsym"], DYNSYM, DataAt(n) + a, b, 3)
      /\ IsSection(s6, SectionNames["rel"], REL,
                   DataAt(n) + (a + b + StrtabSize + CommentSize), e, 4)
  BY <1>4 DEF IsSection
<1>7. /\ SectionNames["comment"] = 27 /\ SectionNames["text"] = 36
      /\ SectionNames["shstrtab"] = 1 /\ SectionNames["dynstr"] = 11
      /\ SectionNames["dynsym"] = 19 /\ SectionNames["rel"] = 42
  BY DEF SectionNames
<1> HIDE DEF Section
<1>8. /\ DataAt(n) + (a + b + StrtabSize) = d + a + b + 47
      /\ DataAt(n) + (a + b + StrtabSize + CommentSize + e) = d + a + b + 75 + e
      /\ DataAt(n) + (a + b) = d + a + b /\ DataAt(n) + 0 = d /\ DataAt(n) + a = d + a
      /\ DataAt(n) + (a + b + StrtabSize + CommentSize) = d + a + b + 75
  <2>1. PICK x, y, v : x = DataAt(n) /\ y = StrtabSize /\ v = CommentSize
    OBVIOUS
  <2>2. x = d /\ y = 47 /\ v = 28
    BY <1>2, <1>3, <2>1
  <2>3. /\ x + (a + b + y) = d + a + b + 47 /\ x + (a + b + y + v + e) = d + a + b + 75 + e
        /\ x + (a + b) = d + a + b /\ x + 0 = d /\ x + a = d + a
        /\ x + (a + b + y + v) = d + a + b + 75
    BY <1>2, <2>2
  <2> QED BY <2>1, <2>3
<1>9. /\ IsSection(s1, 27, PROGBITS, d + a + b + 47, 28, 0)
      /\ IsSection(s2, 36, PROGBITS, d + a + b + 75 + e, z, 0)
      /\ IsSection(s3, 1, STRTAB, d + a + b, 47, 0)
      /\ IsSection(s4, 11, STRTAB, d, a, 0)
      /\ IsSection(s5, 19, DYNSYM, d + a, b, 3)
      /\ IsSection(s6, 42, REL, d + a + b + 75, e, 4)
  BY <1>3, <1>6, <1>7, <1>8
<1>10. PICK t : t = <<s1, s2, s3, s4, s5, s6>>
  OBVIOUS
<1>11. /\ t = [i \in 1..6 |-> t[i]] /\ t[1] = s1 /\ t[2] = s2 /\ t[3] = s3
       /\ t[4] = s4 /\ t[5] = s5 /\ t[6] = s6
  <2>1. PICK S : S = {s1, s2, s3, s4, s5, s6}
    OBVIOUS
  <2>2. s1 \in S /\ s2 \in S /\ s3 \in S /\ s4 \in S /\ s5 \in S /\ s6 \in S
    BY <2>1
  <2>3. t \in Seq(S) /\ Len(t) = 6
    BY <1>10, <2>2
  <2>4. t = [i \in 1..6 |-> t[i]]
    BY <2>3
  <2> QED BY <1>10, <2>4
<1>12. n \in 0..6 /\ 6 \in Nat
  OBVIOUS
<1>13. Len(secs) = n /\ DOMAIN secs = 1..n /\ \A i \in 1..n : secs[i] = t[i]
  <2>1. PICK m : m = 6
    OBVIOUS
  <2>2. m \in Nat /\ n \in 0..m /\ t = [i \in 1..m |-> t[i]]
    BY <1>11, <1>12, <2>1
  <2>3. secs = SubSeq(t, 1, n)
    BY <1>5, <1>10
  <2>4. /\ Len(SubSeq(t, 1, n)) = n /\ DOMAIN SubSeq(t, 1, n) = 1..n
        /\ \A i \in 1..n : SubSeq(t, 1, n)[i] = t[i]
    BY <2>2, CutTable
  <2> QED BY <2>3, <2>4
<1>14. /\ 1 \in 1..n /\ 2 \in 1..n /\ 3 \in 1..n /\ (n # 3 => 4 \in 1..n /\ 5 \in 1..n)
       /\ (n = 6 => 6 \in 1..n)
  OBVIOUS
<1>15. /\ secs[1] = s1 /\ secs[2] = s2 /\ secs[3] = s3 /\ (n # 3 => secs[4] = s4 /\ secs[5] = s5)
       /\ (n = 6 => secs[6] = s6)
  BY <1>11, <1>13, <1>14
<1>16. SectionsFound(secs, d, n, a, b, e, z)
  BY <1>9, <1>13, <1>15 DEF SectionsFound
<1> QED BY <1>1, <1>16

\* The only section of its type is found, or none.
LEMMA FindsOnly ==
  ASSUME NEW file, NEW secs, secs = SectionsOf(file), NEW n \in Nat, Len(secs) = n,
         NEW type, NEW i \in 1..n, secs[i].type = type,
         \A j \in 1..n : secs[j].type = type => j = i
  PROVE  Located(file, type) = i
<1> DEFINE I == {j \in 1..Len(secs) : secs[j].type = type}
<1>1. Located(file, type) = IF I # {} THEN Min(I) ELSE 0
  BY DEF Located, SelectInSeq
<1>2. I = {i}
  OBVIOUS
<1> HIDE DEF I
<1>3. I \subseteq Nat /\ i \in I /\ \A y \in I : i =< y
  BY <1>2
<1>4. Min(I) = i
  BY <1>3, MinIs
<1> QED BY <1>1, <1>3, <1>4

LEMMA FindsNone ==
  ASSUME NEW file, NEW secs, secs = SectionsOf(file), NEW n \in Nat, Len(secs) = n,
         NEW type, \A j \in 1..n : secs[j].type # type
  PROVE  Located(file, type) = 0
<1> DEFINE I == {j \in 1..Len(secs) : secs[j].type = type}
<1>1. Located(file, type) = IF I # {} THEN Min(I) ELSE 0
  BY DEF Located, SelectInSeq
<1>2. I = {}
  OBVIOUS
<1> QED BY <1>1, <1>2

\* An object file, as the linker reads it.
IsRead(file, base, entry, ls, ks, size, text) ==
  /\ file[1].content.entry = entry
  /\ WellFormed(file)
  /\ Loaded(file) = {1}
  /\ SegmentsOf(file)[1].vaddr = 4 * base /\ SegmentsOf(file)[1].size = size
  /\ Blob(file, SegmentsOf(file)[1].offset, SegmentsOf(file)[1].size) = text
  /\ SymbolsOf(file) = Dynsym(ls, ks)
  /\ Len(ls) + Len(ks) # 0 => StringsOf(file) = Dynstr(ls, ks)[Len(ks)]
  /\ ContentOf(file, Located(file, REL)) = Rel(ls, ks, base)

LEMMA ElfReads ==
  ASSUME NEW base, NEW entry, NEW ls, NEW ks, Named(ls, ks), NEW size \in Nat \ {0}, NEW text
  PROVE  IsRead(ElfFile(base, entry, ls, ks, size, text), base, entry, ls, ks, size, text)
<1>1. PICK file : file = ElfFile(base, entry, ls, ks, size, text)
  OBVIOUS
<1>2. PICK M, K, str, a, b, e :
        /\ M = Len(ls) + Len(ks) /\ K = Len(ks) /\ str = Dynstr(ls, ks)[Len(ks)]
        /\ a = Len(str) /\ b = 16 * M /\ e = 8 * K
  OBVIOUS
<1>3. PICK n : n = (IF M = 0 THEN 3 ELSE 5) + (IF K = 0 THEN 0 ELSE 1)
  OBVIOUS
<1>4. M \in Nat /\ K \in Nat /\ a \in Nat /\ b \in Nat /\ e \in Nat
  <2>1. M \in Nat /\ K \in Nat
    BY <1>2, NamesFacts
  <2>2. PICK at : LaidIn(ls, ks, at)
    BY SomeLaidIn
  <2>3. K \in 0..Len(ks)
    BY <1>2, <2>1
  <2>4. Laid(str, NamesOf(ls, ks), Stored(ls, ks), at, M)
    BY <1>2, <2>2, <2>3, DynstrLaid
  <2>5. str \in Seq(Nat)
    BY <2>4 DEF Laid
  <2> QED BY <1>2, <2>1, <2>5
<1>5. PICK segs, secs, syms, rels, head :
        /\ segs = SegmentTable(base, n, a, b, e, size) /\ secs = SectionTable(n, a, b, e, size)
        /\ syms = Dynsym(ls, ks) /\ rels = Rel(ls, ks, base) /\ head = ElfHeader(entry, n)
  OBVIOUS
<1>6. Sizes(ls, ks, n, a, b, e)
  BY <1>2, <1>3, <1>4 DEF Sizes
<1>7. /\ n \in {3, 5, 6}
      /\ n = 3 <=> Len(ls) + Len(ks) = 0
      /\ n = 6 <=> Len(ks) # 0
      /\ InParts(ElfFile(base, entry, ls, ks, size, text), 40 * n, a, b, e, size,
                 ElfHeader(entry, n), SegmentTable(base, n, a, b, e, size),
                 SectionTable(n, a, b, e, size), Dynstr(ls, ks)[Len(ks)], Dynsym(ls, ks),
                 Rel(ls, ks, base), text)
  BY <1>6, ElfFileIs
<1>8. n \in {3, 5, 6} /\ (n = 3 <=> M = 0) /\ (n = 6 <=> K # 0)
  BY <1>2, <1>7
<1>9. PICK w : w = 40 * n
  OBVIOUS
<1>10. InParts(file, w, a, b, e, size, head, segs, secs, str, syms, rels, text)
  BY <1>1, <1>2, <1>5, <1>9, <1>7
<1>11. w \in Nat \ {0} /\ n \in Nat /\ (b = 0 <=> M = 0) /\ (e = 0 <=> K = 0)
  <2>1. w = 40 * n /\ b = 16 * M /\ e = 8 * K
    BY <1>2, <1>9
  <2> QED BY <1>4, <1>8, <2>1
<1>12. /\ file[1].content = head
       /\ Blob(file, 52, 64) = segs
       /\ Blob(file, 116, w) = secs
       /\ a # 0 => Blob(file, 116 + w, a) = str
       /\ b # 0 => Blob(file, 116 + w + a, b) = syms
       /\ e # 0 => Blob(file, 116 + w + a + b + 75, e) = rels
       /\ Blob(file, 116 + w + a + b + 75 + e, size) = text
  BY <1>10, PartsFound
<1>13. PICK d : d = DataAt(n)
  OBVIOUS
<1>14. /\ d = 116 + w
       /\ Len(secs) = n /\ DOMAIN secs = 1..n
       /\ IsSection(secs[1], 27, PROGBITS, d + a + b + 47, 28, 0)
       /\ IsSection(secs[2], 36, PROGBITS, d + a + b + 75 + e, size, 0)
       /\ IsSection(secs[3], 1, STRTAB, d + a + b, 47, 0)
       /\ n # 3 => IsSection(secs[4], 11, STRTAB, d, a, 0)
       /\ n # 3 => IsSection(secs[5], 19, DYNSYM, d + a, b, 3)
       /\ n = 6 => IsSection(secs[6], 42, REL, d + a + b + 75, e, 4)
  <2>1. d = 116 + w
    BY <1>9, <1>13 DEF DataAt, HeaderSize, PHeaderSize, SHeaderSize
  <2>2. SectionsFound(SectionTable(n, a, b, e, size), DataAt(n), n, a, b, e, size)
    BY <1>4, <1>8, SectionFacts
  <2>3. SectionsFound(secs, d, n, a, b, e, size)
    BY <1>5, <1>13, <2>2
  <2> QED BY <2>1, <2>3 DEF SectionsFound
<1>15. SectionsOf(file) = secs
  <2>1. head.shoff = HeaderSize + 2 * PHeaderSize /\ head.shnum = n
    BY <1>5 DEF ElfHeader
  <2>2. HeaderSize + 2 * PHeaderSize = 116 /\ SHeaderSize * n = w
    BY <1>9 DEF HeaderSize, PHeaderSize, SHeaderSize
  <2> QED BY <1>12, <2>1, <2>2 DEF SectionsOf
<1>16. SegmentsOf(file) = segs
  <2>1. head.phoff = HeaderSize /\ head.phnum = 2
    BY <1>5 DEF ElfHeader
  <2>2. HeaderSize = 52 /\ PHeaderSize * 2 = 64
    BY DEF HeaderSize, PHeaderSize
  <2> QED BY <1>12, <2>1, <2>2 DEF SegmentsOf
<1>17. file[1].content.entry = entry /\ file[1].content.shstrtab = 2
  BY <1>5, <1>12 DEF ElfHeader
<1>18. /\ DOMAIN segs = 1..2 /\ segs[1].type = LOAD /\ segs[2].type = SYMTABLE
       /\ segs[1].vaddr = 4 * base /\ segs[1].size = size
       /\ segs[1].offset = DataAt(n) + a + b + StrtabSize + CommentSize + e
  BY <1>5 DEF SegmentTable
<1>19. Loaded(file) = {1}
  <2>1. LOAD # SYMTABLE
    BY DEF LOAD, SYMTABLE
  <2>2. \A i \in 1..2 : i = 1 \/ i = 2
    OBVIOUS
  <2> QED BY <1>16, <1>18, <2>1, <2>2 DEF Loaded
<1>20. Blob(file, segs[1].offset, segs[1].size) = text
  <2>1. DataAt(n) = d /\ StrtabSize = 47 /\ CommentSize = 28
    BY <1>13 DEF StrtabSize, CommentSize
  <2>2. d + a + b + 47 + 28 + e = 116 + w + a + b + 75 + e
    BY <1>4, <1>11, <1>14
  <2> QED BY <1>12, <1>18, <2>1, <2>2
<1>21. PROGBITS = 1 /\ STRTAB = 3 /\ REL = 9 /\ DYNSYM = 11
  BY DEF PROGBITS, STRTAB, REL, DYNSYM
<1>22. \A i \in 1..n : i \in {1, 2, 3} \/ (n # 3 /\ i \in {4, 5}) \/ (n = 6 /\ i = 6)
  BY <1>8
<1>23. \A i \in 1..n : /\ secs[i].type = DYNSYM => n # 3 /\ i = 5
                       /\ secs[i].type = REL => n = 6 /\ i = 6
                       /\ secs[i].name < 47 /\ secs[i].link \in {0, 3, 4}
                       /\ secs[i].link = 4 => n = 6
                       /\ secs[i].link = 3 => n # 3
  BY <1>14, <1>21, <1>22 DEF IsSection
<1>24. WellFormed(file)
  <2>1. 2 + 1 \in DOMAIN secs /\ secs[2 + 1].size = 47
    BY <1>8, <1>14 DEF IsSection
  <2>2. ASSUME NEW i \in 1..n
        PROVE  /\ secs[i].name < 47 /\ secs[i].link < n
               /\ secs[i].type = DYNSYM =>
                    secs[i].link # 0 /\ secs[secs[i].link + 1].type = STRTAB
    <3>1. secs[i].link < n
      BY <1>8, <1>23
    <3>2. secs[i].type = DYNSYM => secs[i].link = 3 /\ secs[4].type = STRTAB
      BY <1>14, <1>23 DEF IsSection
    <3> QED BY <1>23, <3>1, <3>2
  <2> QED BY <1>14, <1>15, <1>17, <2>1, <2>2 DEF WellFormed
<1>25. CASE M = 0
  <2>1. n = 3 /\ K = 0
    <3>1. K =< M
      BY <1>2, NamesFacts
    <3> QED BY <1>4, <1>8, <1>25, <3>1
  <2>2. Located(file, DYNSYM) = 0 /\ Located(file, REL) = 0
    <3>1. \A j \in 1..n : secs[j].type # DYNSYM /\ secs[j].type # REL
      BY <1>23, <2>1
    <3> QED BY <1>11, <1>14, <1>15, <3>1, FindsNone
  <2>3. SymbolsOf(file) = <<>> /\ ContentOf(file, Located(file, REL)) = <<>>
    BY <2>2 DEF SymbolsOf, ContentOf
  <2>4. syms = <<>> /\ rels = <<>>
    <3>1. DOMAIN ls = {} /\ DOMAIN ks = {}
      <4>1. Len(ls) \in Nat /\ Len(ks) \in Nat /\ Len(ls) = 0 /\ Len(ks) = 0
        BY <1>2, <1>25, NamesFacts
      <4> QED BY <4>1 DEF Named
    <3>2. rels = <<>>
      BY <1>5, <3>1 DEF Rel
    <3>3. syms = <<>> \o <<>>
      BY <1>5, <3>1 DEF Dynsym
    <3> QED BY <3>2, <3>3
  <2> QED BY <1>1, <1>2, <1>5, <1>16, <1>17, <1>18, <1>19, <1>20, <1>24, <1>25,
             <2>3, <2>4 DEF IsRead
<1>26. CASE M # 0
  <2>1. n # 3 /\ 5 \in 1..n /\ n \in Nat
    BY <1>8, <1>26
  <2>2. Located(file, DYNSYM) = 5
    <3>1. secs[5].type = DYNSYM /\ \A j \in 1..n : secs[j].type = DYNSYM => j = 5
      BY <1>14, <1>23, <2>1 DEF IsSection
    <3>2. PICK i : i = 5
      OBVIOUS
    <3>3. /\ i \in 1..n /\ secs = SectionsOf(file) /\ Len(secs) = n /\ secs[i].type = DYNSYM
          /\ \A j \in 1..n : secs[j].type = DYNSYM => j = i
      BY <1>14, <1>15, <2>1, <3>1, <3>2
    <3>4. Located(file, DYNSYM) = i
      BY <2>1, <3>3, FindsOnly
    <3> QED BY <3>2, <3>4
  <2>3. SymbolsOf(file) = syms
    <3>1. secs[5].offset = 116 + w + a /\ secs[5].size = b
      BY <1>14, <2>1 DEF IsSection
    <3>2. Blob(file, secs[5].offset, secs[5].size) = syms
      BY <1>11, <1>12, <1>26, <3>1
    <3> QED BY <1>15, <2>2, <3>2 DEF SymbolsOf, ContentOf
  <2>4. StringsOf(file) = str
    <3>1. secs[5].link + 1 = 4 /\ secs[4].offset = 116 + w /\ secs[4].size = a
      BY <1>14, <2>1 DEF IsSection
    <3>2. Blob(file, secs[4].offset, secs[4].size) = str
      <4>1. CASE a # 0
        BY <1>12, <3>1, <4>1
      <4>2. CASE a = 0
        <5>1. PICK at : LaidIn(ls, ks, at)
          BY SomeLaidIn
        <5>2. K \in 0..Len(ks)
          BY <1>2, <1>4
        <5>3. Laid(str, NamesOf(ls, ks), Stored(ls, ks), at, M)
          BY <1>2, <5>1, <5>2, DynstrLaid
        <5>4. str \in Seq(Nat) /\ Len(str) = 0
          BY <1>2, <4>2, <5>3 DEF Laid
        <5>5. str = <<>>
          BY <5>4
        <5> QED BY <3>1, <4>2, <5>5, NoBlob
      <4> QED BY <4>1, <4>2
    <3> QED BY <1>15, <2>2, <3>1, <3>2 DEF StringsOf, ContentOf
  <2>5. ContentOf(file, Located(file, REL)) = rels
    <3>1. CASE K # 0
      <4>1. n = 6 /\ 6 \in 1..n
        BY <1>8, <3>1
      <4>2. Located(file, REL) = 6
        <5>1. secs[6].type = REL /\ \A j \in 1..n : secs[j].type = REL => j = 6
          BY <1>14, <1>23, <4>1 DEF IsSection
        <5>2. PICK i : i = 6
          OBVIOUS
        <5>3. /\ i \in 1..n /\ secs = SectionsOf(file) /\ Len(secs) = n /\ secs[i].type = REL
              /\ \A j \in 1..n : secs[j].type = REL => j = i
          BY <1>14, <1>15, <4>1, <5>1, <5>2
        <5>4. Located(file, REL) = i
          BY <2>1, <5>3, FindsOnly
        <5> QED BY <5>2, <5>4
      <4>3. secs[6].offset = 116 + w + a + b + 75 /\ secs[6].size = e
        BY <1>14, <4>1 DEF IsSection
      <4>4. Blob(file, secs[6].offset, secs[6].size) = rels
        BY <1>11, <1>12, <3>1, <4>3
      <4> QED BY <1>15, <4>2, <4>4 DEF ContentOf
    <3>2. CASE K = 0
      <4>1. \A j \in 1..n : secs[j].type # REL
        BY <1>8, <1>23, <3>2
      <4>2. Located(file, REL) = 0
        BY <1>11, <1>14, <1>15, <4>1, FindsNone
      <4>3. DOMAIN ks = {}
        BY <1>2, <3>2 DEF Named
      <4>4. rels = <<>>
        BY <1>5, <4>3 DEF Rel
      <4> QED BY <4>2, <4>4 DEF ContentOf
    <3> QED BY <3>1, <3>2
  <2> QED BY <1>1, <1>2, <1>5, <1>16, <1>17, <1>18, <1>19, <1>20, <1>24, <2>3, <2>4, <2>5 DEF IsRead
<1> QED BY <1>25, <1>26

-----------------------------------------------------------------------------
(* The labels, in the order they were defined                                 *)

\* Symbols are numbered as they are defined: labels in the order of their lines.
NthInv ==
  /\ IsFiniteSet(DOMAIN symbols)
  /\ \A n \in DOMAIN symbols :
       symbols[n].nth \in Nat /\ symbols[n].nth =< Cardinality(DOMAIN symbols)
  /\ Distinct =>
       \A i, j \in DOMAIN Lines :
         /\ i < j /\ Lines[i].op = "label" /\ Lines[j].op = "label"
         /\ Lines[i].name \in DOMAIN symbols /\ ~symbols[Lines[i].name].const
         /\ Lines[j].name \in DOMAIN symbols /\ ~symbols[Lines[j].name].const
         => symbols[Lines[i].name].nth < symbols[Lines[j].name].nth

LEMMA NthSame ==
  ASSUME NthInv, input' = input, symbols' = symbols
  PROVE  NthInv'
<1>1. Lines' = Lines /\ (Distinct' <=> Distinct)
  BY TextSame
<1> HIDE DEF Lines
<1> QED BY <1>1 DEF NthInv

LEMMA NthGrows ==
  ASSUME NthInv, NEW n, n \notin DOMAIN symbols, NEW v, NEW const, Symbol(n, v, const)
  PROVE  /\ IsFiniteSet(DOMAIN symbols')
         /\ \A m \in DOMAIN symbols' :
              symbols'[m].nth \in Nat /\ symbols'[m].nth =< Cardinality(DOMAIN symbols')
         /\ DOMAIN symbols' = DOMAIN symbols \cup {n} /\ symbols'[n].const = const
         /\ \A m \in DOMAIN symbols : symbols'[m] = symbols[m] /\ symbols[m].nth < symbols'[n].nth
<1>1. PICK c : c = Cardinality(DOMAIN symbols)
  OBVIOUS
<1>2. /\ IsFiniteSet(DOMAIN symbols) /\ c \in Nat
      /\ \A m \in DOMAIN symbols : symbols[m].nth \in Nat /\ symbols[m].nth =< c
  BY <1>1, FS_CardinalityType DEF NthInv
<1>3. /\ DOMAIN symbols' = DOMAIN symbols \cup {n}
      /\ symbols'[n].const = const /\ symbols'[n].nth = c + 1
      /\ \A m \in DOMAIN symbols : symbols'[m] = symbols[m]
  BY <1>1 DEF Symbol, Define
<1>4. IsFiniteSet(DOMAIN symbols') /\ Cardinality(DOMAIN symbols') = c + 1
  BY <1>1, <1>2, <1>3, FS_AddElement
<1>5. \A m \in DOMAIN symbols : symbols[m].nth < c + 1 /\ symbols[m].nth =< c + 1
  BY <1>2
<1>6. c + 1 \in Nat /\ c + 1 =< c + 1
  BY <1>2
<1>7. ASSUME NEW m \in DOMAIN symbols'
      PROVE  symbols'[m].nth \in Nat /\ symbols'[m].nth =< c + 1
  BY <1>2, <1>3, <1>5, <1>6
<1> QED BY <1>3, <1>4, <1>5, <1>7

LEMMA NthStep ==
  ASSUME IndInv, NthInv, [Next]_vars
  PROVE  NthInv'
<1>1. CASE PrepassLine
  <2>1. input' = input /\ phase = "prepass" /\ line \in DOMAIN Lines
    BY <1>1 DEF PrepassLine
  <2>2. CASE Lines[line].op # "equ"
    <3>1. symbols' = symbols
      BY <1>1, <2>2 DEF PrepassLine
    <3> QED BY <2>1, <3>1, NthSame
  <2>3. CASE Lines[line].op = "equ"
    <3>1. PICK n, v : n = Lines[line].name /\ v = Lines[line].value
      OBVIOUS
    <3>2. n \notin DOMAIN symbols /\ Symbol(n, v, TRUE)
      BY <1>1, <2>3, <3>1 DEF PrepassLine
    <3>3. /\ IsFiniteSet(DOMAIN symbols')
          /\ \A m \in DOMAIN symbols' :
               symbols'[m].nth \in Nat /\ symbols'[m].nth =< Cardinality(DOMAIN symbols')
          /\ DOMAIN symbols' = DOMAIN symbols \cup {n} /\ symbols'[n].const = TRUE
          /\ \A m \in DOMAIN symbols : symbols'[m] = symbols[m]
      BY <3>2, NthGrows
    <3>4. Lines' = Lines /\ (Distinct' <=> Distinct)
      BY <2>1, TextSame
    <3> HIDE DEF Lines
    <3>5. \A m \in DOMAIN symbols' :
            ~symbols'[m].const => m \in DOMAIN symbols /\ symbols'[m] = symbols[m]
      BY <3>3
    <3>6. ASSUME Distinct, NEW i \in DOMAIN Lines, NEW j \in DOMAIN Lines,
                 i < j, Lines[i].op = "label", Lines[j].op = "label",
                 Lines[i].name \in DOMAIN symbols', ~symbols'[Lines[i].name].const,
                 Lines[j].name \in DOMAIN symbols', ~symbols'[Lines[j].name].const
          PROVE  symbols'[Lines[i].name].nth < symbols'[Lines[j].name].nth
      BY <3>5, <3>6 DEF NthInv
    <3> QED BY <3>3, <3>4, <3>6 DEF NthInv
  <2> QED BY <2>2, <2>3
<1>2. CASE DefineLabel
  <2>1. input' = input /\ phase = "assemble" /\ line \in DOMAIN Lines /\ Lines[line].op = "label"
    BY <1>2 DEF DefineLabel, At
  <2>2. PICK n : n = Lines[line].name
    OBVIOUS
  <2>3. n \notin DOMAIN symbols /\ Symbol(n, Here, FALSE)
    BY <1>2, <2>2 DEF DefineLabel
  <2>4. /\ IsFiniteSet(DOMAIN symbols')
        /\ \A m \in DOMAIN symbols' :
             symbols'[m].nth \in Nat /\ symbols'[m].nth =< Cardinality(DOMAIN symbols')
        /\ DOMAIN symbols' = DOMAIN symbols \cup {n}
        /\ \A m \in DOMAIN symbols : symbols'[m] = symbols[m] /\ symbols[m].nth < symbols'[n].nth
    BY <2>3, NthGrows
  <2>5. Lines' = Lines /\ (Distinct' <=> Distinct)
    BY <2>1, TextSame
  <2>6. /\ DOMAIN Lines \subseteq Nat
        /\ \A m \in DOMAIN symbols : \E k \in Met : Lines[k].name = m
    BY <2>1, TextFacts DEF IndInv, SymbolInv, Live
  <2>7. \A k \in Met : k \in DOMAIN Lines /\ Lines[k].op \in {"equ", "label"}
                       /\ (Lines[k].op = "label" => k < line)
    BY <2>1 DEF Met, Reached
  <2> HIDE DEF Lines
  <2>8. ASSUME Distinct, NEW i \in DOMAIN Lines, NEW j \in DOMAIN Lines,
               i < j, Lines[i].op = "label", Lines[j].op = "label",
               Lines[i].name \in DOMAIN symbols', ~symbols'[Lines[i].name].const,
               Lines[j].name \in DOMAIN symbols', ~symbols'[Lines[j].name].const
        PROVE  symbols'[Lines[i].name].nth < symbols'[Lines[j].name].nth
    <3>1. \A k \in DOMAIN Lines :
            Lines[k].op = "label" /\ Lines[k].name \in DOMAIN symbols' => k =< line
      <4>1. SUFFICES ASSUME NEW k \in DOMAIN Lines, Lines[k].op = "label",
                            Lines[k].name \in DOMAIN symbols'
                     PROVE  k =< line
        OBVIOUS
      <4>2. CASE Lines[k].name = n
        <5>1. k = line
          BY <2>1, <2>2, <2>8, <4>1, <4>2 DEF Distinct
        <5> QED BY <2>1, <2>6, <5>1
      <4>3. CASE Lines[k].name # n
        <5>1. PICK m \in Met : Lines[m].name = Lines[k].name
          BY <2>4, <2>6, <4>1, <4>3
        <5>2. m = k
          BY <2>7, <2>8, <4>1, <5>1 DEF Distinct
        <5>3. k < line
          BY <2>7, <4>1, <5>2
        <5> QED BY <2>1, <2>6, <5>3
      <4> QED BY <4>2, <4>3
    <3>2. i < line
      BY <2>1, <2>6, <2>8, <3>1
    <3>3. Lines[i].name # n
      BY <2>1, <2>2, <2>6, <2>8, <3>2 DEF Distinct
    <3>4. Lines[i].name \in DOMAIN symbols /\ symbols'[Lines[i].name] = symbols[Lines[i].name]
      BY <2>4, <2>8, <3>3
    <3>5. CASE Lines[j].name = n
      BY <2>4, <3>4, <3>5
    <3>6. CASE Lines[j].name # n
      <4>1. Lines[j].name \in DOMAIN symbols /\ symbols'[Lines[j].name] = symbols[Lines[j].name]
        BY <2>4, <2>8, <3>6
      <4> QED BY <2>8, <3>4, <4>1 DEF NthInv
    <3> QED BY <3>5, <3>6
  <2> QED BY <2>4, <2>5, <2>8 DEF NthInv
<1>3. CASE ~PrepassLine /\ ~DefineLabel
  <2>1. input' = input /\ symbols' = symbols
    <3>1. CASE UNCHANGED vars
      BY <3>1 DEF vars
    <3>2. CASE RedefinedConst \/ RedefinedLabel \/ Oversized \/ UndefinedSymbol \/ CrashOnField
                 \/ CannotPad \/ UnknownFormat \/ UnknownCompressor \/ CrashOnHeader
      BY <3>2 DEF RedefinedConst, RedefinedLabel, Oversized, UndefinedSymbol, CrashOnField,
                  CannotPad, UnknownFormat, UnknownCompressor, CrashOnHeader, Stop
    <3>3. CASE PrepassEnds \/ Extern \/ Org \/ AssembleEnds \/ KeepField \/ FixField \/ WriteOutput
      BY <3>3 DEF PrepassEnds, Extern, Org, AssembleEnds, KeepField, FixField, WriteOutput
    <3>4. CASE Plain \/ EncodeAbs \/ EncodeRel \/ ExpandMov \/ Data
      BY <3>4 DEF Plain, EncodeAbs, EncodeRel, ExpandMov, Data, Emit
    <3> QED BY <1>3, <3>1, <3>2, <3>3, <3>4 DEF Next
  <2> QED BY <2>1, NthSame
<1> QED BY <1>1, <1>2, <1>3

LEMMA NthInit == Init => NthInv
<1>1. SUFFICES ASSUME Init PROVE NthInv
  OBVIOUS
<1>2. symbols = [n \in {} |-> 0]
  BY <1>1 DEF Init
<1>3. DOMAIN symbols = {}
  BY <1>2
<1>4. IsFiniteSet(DOMAIN symbols)
  BY <1>3, FS_EmptySet
<1> QED BY <1>3, <1>4 DEF NthInv

-----------------------------------------------------------------------------
(* The object that the linker starts from                                     *)

\* The labels and the references that a source gives to the linker's model.
GivesNames(src, ls, ks) ==
  /\ Named(ls, ks)
  /\ src.order = [i \in 1..Len(ls) |-> ls[i].name]
  /\ DOMAIN src.refs = 1..Len(ks)
  /\ \A k \in 1..Len(ks) : src.refs[k].name = ks[k].name

LEMMA ContainsFacts ==
  ASSUME NEW n \in DOMAIN Spelling, NEW m \in DOMAIN Spelling
  PROVE  Object!Contains(m, n) <=> Places(Spelling[n], Spelling[m]) # {}
<1>1. <<n, m>> \in DOMAIN ReadAs <=> Places(Spelling[n], Spelling[m]) # {}
  BY DEF ReadAs
<1> QED BY <1>1 DEF Object!Contains

LEMMA SourceNames ==
  ASSUME NEW src, NEW ls, NEW ks, GivesNames(src, ls, ks)
  PROVE  src.order \o [j \in DOMAIN src.refs |-> src.refs[j].name] = NamesOf(ls, ks)
<1>1. PICK L, K, f, g : /\ L = Len(ls) /\ K = Len(ks) /\ f = src.order
                        /\ g = [j \in DOMAIN src.refs |-> src.refs[j].name]
  OBVIOUS
<1>2. L \in Nat /\ K \in Nat
  BY <1>1, NamesFacts DEF GivesNames
<1>3. f = [i \in 1..L |-> ls[i].name] /\ g = [k \in 1..K |-> ks[k].name]
  BY <1>1 DEF GivesNames
<1>4. f = [i \in 1..L |-> f[i]] /\ g = [k \in 1..K |-> g[k]]
  BY <1>3
<1>5. /\ Len(f \o g) = L + K /\ DOMAIN (f \o g) = 1..(L + K)
      /\ \A i \in 1..(L + K) : (f \o g)[i] = IF i =< L THEN f[i] ELSE g[i - L]
  BY <1>2, <1>4, JoinedTables
<1>6. PICK h : h = f \o g
  OBVIOUS
<1>7. \A i \in 1..(L + K) : h[i] = IF i =< L THEN ls[i].name ELSE ks[i - L].name
  <2> TAKE i \in 1..(L + K)
  <2>1. CASE i =< L
    <3>1. i \in 1..L
      BY <1>2, <2>1
    <3> QED BY <1>3, <1>5, <1>6, <2>1, <3>1
  <2>2. CASE ~(i =< L)
    <3>1. i - L \in 1..K
      BY <1>2, <2>2
    <3> QED BY <1>3, <1>5, <1>6, <2>2, <3>1
  <2> QED BY <2>1, <2>2
<1>8. h = [i \in 1..(L + K) |-> h[i]]
  BY <1>2, <1>4, <1>6, JoinedTables
<1>9. h = [i \in 1..(L + K) |-> IF i =< L THEN ls[i].name ELSE ks[i - L].name]
  BY <1>7, <1>8
<1> QED BY <1>1, <1>6, <1>9 DEF NamesOf

\* The linker's model reads the same name at each reference.
LEMMA NameInIs ==
  ASSUME NEW src, NEW ls, NEW ks, GivesNames(src, ls, ks), NEW k \in 1..Len(ks)
  PROVE  Object!NameIn(src, k) = NameRead(ls, ks, k)
<1>1. PICK L, K, names, n : /\ L = Len(ls) /\ K = Len(ks) /\ names = NamesOf(ls, ks)
                            /\ n = ks[k].name
  OBVIOUS
<1>2. /\ L \in Nat /\ K \in Nat /\ L + K \in Nat /\ n \in DOMAIN Spelling /\ k \in 1..K
      /\ \A i \in 1..(L + K) : names[i] \in DOMAIN Spelling
      /\ DOMAIN names = 1..(L + K)
  BY <1>1, NamesFacts DEF GivesNames, NamesOf, Named
<1>3. src.refs[k].name = n /\ \A j \in 1..K : src.refs[j].name = ks[j].name
  BY <1>1 DEF GivesNames
<1>4. Seen(ks, k) <=> \E j \in 1..(k - 1) : src.refs[j].name = n
  <2>1. \A j \in 1..(k - 1) : j \in 1..K
    BY <1>2
  <2> QED BY <1>1, <1>3, <2>1 DEF Seen
<1>5. src.order \o [j \in DOMAIN src.refs |-> src.refs[j].name] = names
  BY <1>1, SourceNames
<1> DEFINE all == src.order \o [j \in DOMAIN src.refs |-> src.refs[j].name]
           First == CHOOSE i \in DOMAIN all :
                      /\ Object!Contains(all[i], src.refs[k].name)
                      /\ \A j \in 1..(i - 1) : ~Object!Contains(all[j], src.refs[k].name)
<1>6. Object!NameIn(src, k)
        = IF \E j \in 1..(k - 1) : src.refs[j].name = src.refs[k].name
          THEN ReadAs[<<src.refs[k].name, all[First]>>] ELSE src.refs[k].name
  BY DEF Object!NameIn
<1>7. CASE ~Seen(ks, k)
  <2> HIDE DEF First, all
  <2> QED BY <1>1, <1>3, <1>4, <1>6, <1>7 DEF NameRead
<1>8. CASE Seen(ks, k)
  <2>1. PICK j \in 1..(k - 1) : ks[j].name = n
    BY <1>1, <1>8 DEF Seen
  <2>2. PICK p : p = L + j
    OBVIOUS
  <2>3. j \in 1..K /\ p \in 1..(L + K)
    BY <1>2, <2>1, <2>2
  <2>4. names[p] = n
    BY <1>1, <2>1, <2>2, <2>3, NamesFacts DEF GivesNames
  <2>5. Places(Spelling[n], Spelling[names[p]]) # {}
    BY <1>2, <2>4, WholeSpelling
  <2>6. PICK q \in 1..p : FirstWith(names, n) = q /\ IsFirst(names, n, q)
    BY <1>2, <2>3, <2>5, FirstWithFacts
  <2>7. q \in 1..(L + K) /\ q \in Nat
    BY <1>2, <2>3
  <2>8. \A i \in 1..(L + K) :
          Object!Contains(names[i], n) <=> Places(Spelling[n], Spelling[names[i]]) # {}
    BY <1>2, ContainsFacts
  <2>9. Object!Contains(names[q], n) /\ \A i \in 1..(q - 1) : ~Object!Contains(names[i], n)
    <3>1. \A i \in 1..(q - 1) : i \in 1..(L + K)
      BY <1>2, <2>7
    <3> QED BY <2>6, <2>7, <2>8, <3>1 DEF IsFirst
  <2>10. \A i \in 1..(L + K) :
           (/\ Object!Contains(names[i], n)
            /\ \A e \in 1..(i - 1) : ~Object!Contains(names[e], n)) => i = q
    <3> TAKE i \in 1..(L + K)
    <3> HAVE /\ Object!Contains(names[i], n)
             /\ \A e \in 1..(i - 1) : ~Object!Contains(names[e], n)
    <3>1. ~(i < q)
      <4>1. i < q => i \in 1..(q - 1)
        BY <2>7
      <4> QED BY <2>9, <4>1
    <3>2. ~(q < i)
      <4>1. q < i => q \in 1..(i - 1)
        BY <2>7
      <4> QED BY <2>9, <4>1
    <3> QED BY <2>7, <3>1, <3>2
  <2>11. First = q
    <3>1. DOMAIN all = 1..(L + K) /\ all = names /\ src.refs[k].name = n
      BY <1>2, <1>3, <1>5
    <3> HIDE DEF all
    <3> QED BY <2>7, <2>9, <2>10, <3>1
  <2>12. all = names
    BY <1>5
  <2> HIDE DEF First, all
  <2> QED BY <1>1, <1>3, <1>4, <1>6, <1>8, <2>6, <2>11, <2>12 DEF NameRead
<1> QED BY <1>7, <1>8

LEMMA SourceParts ==
  LET labels == Ranked(Listings, [i \in Listings |-> i])
      left   == Ranked(LeftThere, [d \in LeftThere |-> d.at])
  IN  /\ Source.org = Base /\ Source.words = Written \div 4
      /\ Source.order = [i \in DOMAIN labels |-> Lines[labels[i]].name]
      /\ Source.labels = [n \in {Lines[i].name : i \in Listings} |-> Value(n) - Base]
      /\ Source.refs = [k \in DOMAIN left |-> [kind |-> Kind(left[k].type),
                                               name |-> left[k].name, at |-> left[k].at]]
      /\ Source.entry = IF Definitions(input.entry) = {} THEN -1
                        ELSE Value(input.entry) - Base
BY DEF Source, InLines, InPlaces

LEMMA SourceOrder ==
  ASSUME input \in Inputs, NEW s, NEW m, InOrder(s, m, Listings)
  PROVE  InLines = s /\ DOMAIN s = 1..m /\ Source.order = [i \in 1..m |-> Lines[s[i]].name]
<1>1. PICK key : key = [i \in Listings |-> i]
  OBVIOUS
<1>2. Listings \subseteq Nat
  BY TextFacts DEF Listings
<1>3. /\ m \in Nat /\ s = [i \in 1..m |-> s[i]] /\ \A i \in 1..m : s[i] \in Listings
      /\ \A x \in Listings : key[x] \in Nat /\ \E i \in 1..m : s[i] = x
      /\ \A i, j \in 1..m : i < j => key[s[i]] < key[s[j]]
  BY <1>1, <1>2 DEF InOrder
<1>4. Ranked(Listings, key) = s
  BY <1>3, RankedIs
<1>5. DOMAIN s = 1..m
  BY <1>3
<1>6. InLines = s
  BY <1>1, <1>4 DEF InLines
<1> QED BY <1>1, <1>4, <1>5, <1>6, SourceParts

\* The symbols that the writer lists are those of the lines of labels.
LEMMA ListedIs ==
  ASSUME IndInv, NthInv, Complete, NEW s, NEW m, InOrder(s, m, Listings)
  PROVE  Listed = [i \in 1..m |-> [name |-> Lines[s[i]].name, value |-> Value(Lines[s[i]].name)]]
<1>1. PICK names, t : /\ names = {n \in DOMAIN symbols : /\ ~symbols[n].const
                                                         /\ n \in exports \/ ExportAll}
                      /\ t = [i \in 1..m |-> Lines[s[i]].name]
  OBVIOUS
<1>2. PICK key : key = [n \in names |-> symbols[n].nth]
  OBVIOUS
<1>3. /\ input \in Inputs /\ PlaceInv /\ SymbolInv /\ Distinct
      /\ \A n \in DOMAIN symbols : symbols[n].value = Value(n)
  BY CompleteFacts DEF IndInv, Live, Complete, Fixed
<1>4. /\ Reached = Len(Lines) + 1 /\ DOMAIN Lines = 1..Len(Lines) /\ Len(Lines) \in Nat
      /\ \A i \in DOMAIN Lines : i < Len(Lines) + 1
      /\ phase # "prepass"
  BY <1>3, TextFacts DEF Reached, Complete, Fixed
<1>5. Met = {i \in DOMAIN Lines : Lines[i].op \in {"label", "equ"}}
  BY <1>4 DEF Met
<1>6. \A n : n \in exports <=> Exported(n)
  BY <1>3, <1>4 DEF PlaceInv, Exported
<1>7. /\ m \in Nat /\ \A i \in 1..m : s[i] \in Listings
      /\ \A x \in Listings : \E i \in 1..m : s[i] = x
      /\ \A i, j \in 1..m : i < j => s[i] < s[j]
  BY DEF InOrder
<1>8. ASSUME NEW x \in Listings
      PROVE  /\ x \in DOMAIN Lines /\ Lines[x].op = "label" /\ Lines[x].name \in names
             /\ Lines[x].name \in DOMAIN symbols /\ ~symbols[Lines[x].name].const
  <2>1. x \in DOMAIN Lines /\ Lines[x].op = "label" /\ (Exported(Lines[x].name) \/ ExportAll)
    BY DEF Listings, Listing
  <2>2. x \in Met
    BY <1>5, <2>1
  <2>3. Lines[x].name \in DOMAIN symbols /\ ~symbols[Lines[x].name].const
    BY <1>3, <2>1, <2>2 DEF SymbolInv
  <2> QED BY <1>1, <1>6, <2>1, <2>3
<1>9. ASSUME NEW n \in names PROVE \E x \in Listings : Lines[x].name = n
  <2>1. n \in DOMAIN symbols /\ ~symbols[n].const /\ (Exported(n) \/ ExportAll)
    BY <1>1, <1>6
  <2>2. PICK x \in Met : Lines[x].name = n
    BY <1>3, <2>1 DEF SymbolInv
  <2>3. Lines[x].op = "label" /\ x \in DOMAIN Lines
    BY <1>3, <1>5, <2>1, <2>2 DEF SymbolInv
  <2> QED BY <2>1, <2>2, <2>3 DEF Listings, Listing
<1>10. \A i \in 1..m : t[i] = Lines[s[i]].name
  BY <1>1
<1>11. t = [i \in 1..m |-> t[i]] /\ DOMAIN t = 1..m
  BY <1>1
<1>12. \A i \in 1..m : t[i] \in names
  BY <1>7, <1>8, <1>10
<1>13. ASSUME NEW n \in names PROVE key[n] \in Nat /\ \E i \in 1..m : t[i] = n
  <2>1. key[n] \in Nat
    BY <1>1, <1>2 DEF NthInv
  <2>2. PICK x \in Listings : Lines[x].name = n
    BY <1>9
  <2>3. PICK i \in 1..m : s[i] = x
    BY <1>7
  <2> QED BY <1>10, <2>1, <2>2, <2>3
<1>14. ASSUME NEW i \in 1..m, NEW j \in 1..m, i < j PROVE key[t[i]] < key[t[j]]
  <2>1. s[i] \in Listings /\ s[j] \in Listings /\ s[i] < s[j]
    BY <1>7, <1>14
  <2>2. PICK x, y : x = s[i] /\ y = s[j]
    OBVIOUS
  <2>3. /\ x \in DOMAIN Lines /\ Lines[x].op = "label" /\ Lines[x].name \in DOMAIN symbols
        /\ ~symbols[Lines[x].name].const
        /\ y \in DOMAIN Lines /\ Lines[y].op = "label" /\ Lines[y].name \in DOMAIN symbols
        /\ ~symbols[Lines[y].name].const /\ x < y
        /\ Lines[x].name \in names /\ Lines[y].name \in names
    BY <1>8, <2>1, <2>2
  <2>4. symbols[Lines[x].name].nth < symbols[Lines[y].name].nth
    BY <1>3, <2>3 DEF NthInv
  <2>5. t[i] = Lines[x].name /\ t[j] = Lines[y].name
    BY <1>10, <2>2
  <2> QED BY <1>2, <2>3, <2>4, <2>5
<1>15. Ranked(names, key) = t
  BY <1>7, <1>11, <1>12, <1>13, <1>14, RankedIs
<1>16. Listed = [i \in 1..m |-> [name |-> t[i], value |-> symbols[t[i]].value]]
  BY <1>1, <1>2, <1>11, <1>15 DEF Listed
<1>17. \A i \in 1..m : symbols[t[i]].value = Value(t[i])
  BY <1>1, <1>3, <1>12
<1>18. Listed = [i \in 1..m |-> [name |-> t[i], value |-> Value(t[i])]]
  BY <1>16, <1>17
<1> QED BY <1>10, <1>18

LEMMA SourceRefs ==
  ASSUME IndInv, Complete
  PROVE  /\ InPlaces = kept
         /\ Len(kept) \in Nat /\ kept = [k \in 1..Len(kept) |-> kept[k]]
         /\ \A k \in 1..Len(kept) : \E i \in References : kept[k] \in FieldsOf(i)
         /\ Source.refs = [k \in 1..Len(kept) |->
                             [kind |-> Kind(kept[k].type), name |-> kept[k].name,
                              at |-> kept[k].at]]
<1>1. /\ input \in Inputs /\ KeptInv
      /\ Range(kept) = UNION {FieldsOf(i) : i \in {j \in References : IsLeft(j)}}
  BY CompleteFacts, KeptAtEnd
<1>2. kept \in Seq(AllFields)
  BY <1>1 DEF KeptInv
<1>3. PICK K, key : K = Len(kept) /\ key = [d \in LeftThere |-> d.at]
  OBVIOUS
<1>4. K \in Nat /\ DOMAIN kept = 1..K /\ kept = [k \in 1..K |-> kept[k]]
  <2>1. kept \in [1..Len(kept) -> AllFields] /\ Len(kept) \in Nat
    BY <1>2, LenProperties
  <2> QED BY <1>3, <2>1
<1>5. LeftThere = {kept[k] : k \in 1..K}
  BY <1>1, <1>4 DEF LeftThere, Range
<1>6. \A d \in LeftThere : d.at \in Nat /\ \E i \in References : d \in FieldsOf(i)
  <2>1. \A d \in LeftThere : \E i \in References : d \in FieldsOf(i)
    BY DEF LeftThere
  <2> QED BY <1>1, <2>1, FieldsInLine
<1>7. \A i, j \in 1..K : i < j => kept[i].at < kept[j].at
  BY <1>1, <1>4 DEF KeptInv
<1>8. /\ \A i \in 1..K : kept[i] \in LeftThere
      /\ \A x \in LeftThere : key[x] \in Nat /\ \E i \in 1..K : kept[i] = x
      /\ \A i, j \in 1..K : i < j => key[kept[i]] < key[kept[j]]
  BY <1>3, <1>5, <1>6, <1>7
<1>9. Ranked(LeftThere, key) = kept
  BY <1>4, <1>8, RankedIs
<1>10. InPlaces = kept
  BY <1>3, <1>9 DEF InPlaces
<1> QED BY <1>3, <1>4, <1>6, <1>8, <1>9, <1>10, SourceParts

-----------------------------------------------------------------------------
(* The header                                                                 *)

\* The numbers for the header are those that the source means.
LEMMA HeaderMeans ==
  ASSUME IndInv, NthInv, Complete
  PROVE  Packs(input.format, vmembase, Entry, Listed, kept, Padded) <=> Encodable
<1>1. /\ input \in Inputs /\ offset = Size /\ vmembase = Base
      /\ \A n : n \in DOMAIN symbols <=> Definitions(n) # {}
      /\ \A n \in DOMAIN symbols : symbols[n].value = Value(n)
  BY CompleteFacts
<1>2. Padded = Written
  BY <1>1 DEF Padded, Written
<1>3. Entry = IF Definitions(input.entry) = {} THEN 0 ELSE Value(input.entry)
  BY <1>1 DEF Entry
<1>4. PICK s, m : InOrder(s, m, Listings)
  <2>1. Listings \subseteq 1..Len(Lines) /\ Len(Lines) \in Nat
    BY <1>1, TextFacts DEF Listings
  <2> QED BY <2>1, OrderExists
<1>5. InLines = s /\ DOMAIN s = 1..m
  BY <1>1, <1>4, SourceOrder
<1>6. Listed = [i \in 1..m |-> [name  |-> Lines[s[i]].name,
                               value |-> Value(Lines[s[i]].name)]]
  BY <1>4, ListedIs
<1>7. PICK labels : labels = Listed
  OBVIOUS
<1>8. labels = [i \in DOMAIN InLines |-> [name  |-> Lines[InLines[i]].name,
                                         value |-> Value(Lines[InLines[i]].name)]]
  BY <1>5, <1>6, <1>7
<1>9. PICK left : left = kept
  OBVIOUS
<1>10. left = InPlaces
  BY <1>9, SourceRefs
<1>11. PICK entry, base, size : entry = Entry /\ base = vmembase /\ size = Padded
  OBVIOUS
<1>12. /\ entry = IF Definitions(input.entry) = {} THEN 0 ELSE Value(input.entry)
       /\ base = Base /\ size = Written
  BY <1>1, <1>2, <1>3, <1>11
<1>13. Encodable <=> Packs(input.format, base, entry, labels, left, size)
  BY <1>8, <1>10, <1>12 DEF Encodable
<1> QED BY <1>7, <1>9, <1>11, <1>13

LEMMA WriteKeepsInd == ASSUME IndInv, NthInv, WriteOutput PROVE IndInv'
<1>1. /\ UNCHANGED <<input, line, offset, vmembase, symbols, exports, unresolved, fields, kept>>
      /\ phase = "fixup" /\ phase' = "done" /\ line > Len(unresolved) /\ offset =< Padded
      /\ input.format \in FormatNames /\ input.compressor \in CompressorNames
      /\ Complete /\ Packs(input.format, vmembase, Entry, Listed, kept, Padded)
  BY DEF WriteOutput, Writing, Fixed, Complete
<1>2. Encodable
  BY <1>1, HeaderMeans
<1>3. DoneInv'
  BY <1>1, <1>2, EncodableSame DEF DoneInv, Padded
<1> QED BY <1>1, <1>3, SameKeepsInd

LEMMA HeaderErrorKeepsInd == ASSUME IndInv, NthInv, CrashOnHeader PROVE IndInv'
<1>1. /\ Complete /\ ~Packs(input.format, vmembase, Entry, Listed, kept, Padded)
      /\ Stop("crashed")
  BY DEF CrashOnHeader, Writing, Complete
<1>2. ~Encodable
  BY <1>1, HeaderMeans
<1>3. ~Acceptable
  BY <1>2 DEF Acceptable
<1> QED BY <1>1, <1>3, StopKeepsInd

THEOREM IndInvariant == Spec => [](IndInv /\ NthInv)
<1>1. Init => IndInv /\ NthInv
  BY InitInd, NthInit
<1>2. IndInv /\ NthInv /\ [Next]_vars => (IndInv /\ NthInv)'
  <2> SUFFICES ASSUME IndInv, NthInv, [Next]_vars PROVE IndInv' /\ NthInv'
    OBVIOUS
  <2>1. IndInv'
    <3>1. CASE PrepassLine \/ PrepassEnds \/ AssembleEnds
      BY <3>1, PrepassKeepsInd, PassEndsKeepsInd
    <3>2. CASE DefineLabel \/ Extern \/ Org \/ Plain
      BY <3>2, LabelKeepsInd, DirectiveKeepsInd, PlainKeepsInd
    <3>3. CASE EncodeAbs \/ EncodeRel \/ ExpandMov \/ Data
      BY <3>3, AbsKeepsInd, RelKeepsInd, MovKeepsInd, DataKeepsInd
    <3>4. CASE KeepField \/ FixField
      BY <3>4, KeepKeepsInd, FixKeepsInd
    <3>5. CASE RedefinedConst \/ RedefinedLabel \/ Oversized \/ UndefinedSymbol \/ CrashOnField
      BY <3>5, RedefinedKeepsInd, OversizedKeepsInd, FieldErrorKeepsInd
    <3>6. CASE CannotPad \/ UnknownFormat \/ UnknownCompressor
      BY <3>6, OutputErrorKeepsInd
    <3>7. CASE WriteOutput \/ CrashOnHeader
      BY <3>7, WriteKeepsInd, HeaderErrorKeepsInd
    <3>8. CASE UNCHANGED vars
      BY <3>8, SameKeepsInd DEF vars
    <3> QED BY <3>1, <3>2, <3>3, <3>4, <3>5, <3>6, <3>7, <3>8 DEF Next
  <2>2. NthInv'
    BY NthStep
  <2> QED BY <2>1, <2>2
<1> QED BY <1>1, <1>2, PTL DEF Spec

-----------------------------------------------------------------------------
(* What the linker reads                                                      *)

LEMMA BaseNat ==
  ASSUME input \in Inputs, Aligned, NEW i
  PROVE  BaseAt(i) \in Nat
<1> DEFINE Orgs == {j \in DOMAIN Lines : j < i /\ Lines[j].op = "org"}
<1>1. BaseAt(i) = IF Orgs = {} THEN input.base ELSE Lines[Max(Orgs)].value
  BY DEF BaseAt
<1>2. input.base \in Nat
  BY TextFacts
<1>3. CASE Orgs = {}
  BY <1>1, <1>2, <1>3
<1>4. CASE Orgs # {}
  <2>1. \A j \in Orgs : j = 1
    BY DEF Aligned
  <2>2. 1 \in Orgs /\ Orgs = {1}
    BY <1>4, <2>1
  <2>3. Lines[1].value \in Nat
    BY <2>2, TextFacts DEF IsLine
  <2> HIDE DEF Orgs
  <2>4. Max(Orgs) = 1
    BY <2>2 DEF Max
  <2> QED BY <1>1, <1>4, <2>3, <2>4
<1> QED BY <1>3, <1>4

\* A line that refers to a symbol counts from where the object is linked from.
LEMMA OneBase ==
  ASSUME input \in Inputs, Aligned, NEW i \in References
  PROVE  BaseAt(i) = Base
<1> DEFINE Orgs(k) == {j \in DOMAIN Lines : j < k /\ Lines[j].op = "org"}
<1>1. \A k : BaseAt(k) = IF Orgs(k) = {} THEN input.base ELSE Lines[Max(Orgs(k))].value
  BY DEF BaseAt
<1>2. \A j \in DOMAIN Lines : Lines[j].op = "org" => j = 1
  BY DEF Aligned
<1>3. i \in 1..Len(Lines) /\ Lines[i].op # "org" /\ Len(Lines) \in Nat
  BY ReferenceKinds, TextFacts
<1>4. Orgs(i) = Orgs(Len(Lines) + 1)
  <2>1. ASSUME NEW j \in DOMAIN Lines, Lines[j].op = "org" PROVE j < i /\ j < Len(Lines) + 1
    <3>1. j = 1 /\ i # 1
      BY <1>2, <1>3, <2>1
    <3> QED BY <1>3, <3>1
  <2> QED BY <2>1
<1> HIDE DEF Orgs
<1> QED BY <1>1, <1>4 DEF Base

LEMMA ValueNat ==
  ASSUME input \in Inputs, Aligned, NEW n, Definitions(n) # {}
  PROVE  Value(n) \in Nat
<1>1. PICK i : i = Definition(n)
  OBVIOUS
<1>2. i \in DOMAIN Lines /\ Lines[i].op \in {"label", "equ"}
  <2>1. i \in Definitions(n)
    BY <1>1 DEF Definition
  <2> QED BY <2>1 DEF Definitions
<1>3. Value(n) = IF Lines[i].op = "equ" THEN Lines[i].value ELSE Word(i)
  BY <1>1 DEF Value, ValueAt
<1>4. CASE Lines[i].op = "equ"
  BY <1>2, <1>3, <1>4, TextFacts DEF IsLine
<1>5. CASE Lines[i].op # "equ"
  <2>1. BaseAt(i) \in Nat /\ Pos[i] \in Nat
    <3>1. i \in 1..(Len(Lines) + 1)
      BY <1>2, TextFacts
    <3> QED BY <3>1, BaseNat, PosFacts
  <2>2. Pos[i] \div 4 \in Nat
    BY <2>1
  <2> QED BY <1>3, <1>5, <2>1, <2>2 DEF Word
<1> QED BY <1>4, <1>5

\* What the writer and the reader make of a field that is left.
LEMMA LeftField ==
  ASSUME input \in Inputs, Aligned, NEW i \in References, NEW d \in FieldsOf(i)
  PROVE  /\ d.name \in DOMAIN Spelling /\ d.at \in Nat
         /\ ReadType(WrittenType(d.type)) = Kind(d.type)
         /\ 4 * d.relbase = IF Kind(d.type) = "rel16" THEN 4 * (Base + d.at \div 4) ELSE 0
<1>1. d.name = Lines[i].name /\ d.at \in Nat
  BY FieldsInLine
<1>2. Lines[i].op \in {"abs", "rel", "mov", "data"} /\ i \in DOMAIN Lines /\ Pos[i] \in Nat
  BY ReferenceKinds
<1>3. d.name \in DOMAIN Spelling
  BY <1>1, <1>2, TextFacts DEF IsLine
<1>4. CASE Lines[i].op = "rel"
  <2>1. d = [type |-> "rel16", name |-> Lines[i].name, at |-> Pos[i] + 2, relbase |-> Word(i)]
    BY <1>4, FieldsByKind
  <2>2. d.type = "rel16" /\ d.at = Pos[i] + 2 /\ d.relbase = Word(i)
    BY <2>1
  <2>3. Word(i) = Base + Pos[i] \div 4 /\ Pos[i] % 4 = 0
    BY <1>4, OneBase DEF Word, Aligned
  <2>4. PICK p : p = Pos[i]
    OBVIOUS
  <2>5. (p + 2) \div 4 = p \div 4
    BY <1>2, <2>3, <2>4
  <2>6. Kind("rel16") = "rel16" /\ WrittenType("rel16") = 128 /\ ReadType(128) = "rel16"
    BY DEF Kind, WrittenType, ReadType
  <2> QED BY <1>1, <1>3, <2>2, <2>3, <2>4, <2>5, <2>6
<1>5. CASE Lines[i].op # "rel"
  <2>1. d.type \in {"abs8", "abs16", "abs16_h", "abs16_l", "abs32", "abs64"} /\ d.relbase = 0
    <3>1. CASE Lines[i].op = "abs"
      BY <3>1, FieldsByKind
    <3>2. CASE Lines[i].op = "mov"
      BY <3>2, FieldsByKind
    <3>3. CASE Lines[i].op = "data"
      <4>1. d.type = DataType(Lines[i].size) /\ d.relbase = 0
        BY <3>3, FieldsByKind
      <4> QED BY <4>1 DEF DataType
    <3> QED BY <1>2, <1>5, <3>1, <3>2, <3>3
  <2>2. ReadType(WrittenType(d.type)) = Kind(d.type)
    <3>1. WrittenType(d.type) = CASE d.type = "abs8" -> 0 [] d.type \in {"abs16", "abs16_l"} -> 1
                                  [] d.type = "abs32" -> 2 [] d.type = "abs64" -> 3
                                  [] d.type = "abs16_h" -> 65
      BY <2>1 DEF WrittenType
    <3> QED BY <2>1, <3>1 DEF ReadType, Kind
  <2>3. Kind(d.type) # "rel16"
    BY <2>1 DEF Kind
  <2> QED BY <1>1, <1>3, <2>1, <2>2, <2>3
<1> QED BY <1>4, <1>5

\* The file tells the linker each label that it lists, with its byte address.
LEMMA SymbolsRead ==
  ASSUME NEW base, NEW entry, NEW ls, NEW ks, Named(ls, ks), NEW size \in Nat \ {0}, NEW text,
         NEW file, IsRead(file, base, entry, ls, ks, size, text)
  PROVE  ReadSymbols(file) = {<<Spelling[ls[i].name], 4 * ls[i].value>> : i \in 1..Len(ls)}
<1>1. PICK L, K, syms, str : /\ L = Len(ls) /\ K = Len(ks) /\ syms = Dynsym(ls, ks)
                             /\ str = Dynstr(ls, ks)[Len(ks)]
  OBVIOUS
<1>2. SymbolsOf(file) = syms /\ (L + K # 0 => StringsOf(file) = str) /\ L \in Nat /\ K \in Nat
  BY <1>1, NamesFacts DEF IsRead
<1>3. /\ DOMAIN syms = 1..(L + K)
      /\ \A i \in 1..L : /\ syms[i].name = LabelIndex(ls, i)
                        /\ syms[i].value = 4 * ls[i].value /\ syms[i].section = 1
      /\ \A k \in 1..K : syms[L + k].section = 0
  <2>1. DOMAIN Dynsym(ls, ks) = 1..(Len(ls) + Len(ks))
    BY DynsymFields
  <2>2. \A i \in 1..Len(ls) : /\ Dynsym(ls, ks)[i].name = LabelIndex(ls, i)
                             /\ Dynsym(ls, ks)[i].value = 4 * ls[i].value
                             /\ Dynsym(ls, ks)[i].section = 1
    BY DynsymFields
  <2>3. \A k \in 1..Len(ks) : Dynsym(ls, ks)[Len(ls) + k].section = 0
    BY DynsymFields
  <2> QED BY <1>1, <2>1, <2>2, <2>3
<1>4. {i \in DOMAIN syms : syms[i].section # 0} = 1..L
  <2>1. \A i \in 1..L : i \in 1..(L + K) /\ syms[i].section # 0
    BY <1>2, <1>3
  <2>2. ASSUME NEW i \in 1..(L + K), ~(i \in 1..L) PROVE syms[i].section = 0
    <3>1. PICK k : k = i - L
      OBVIOUS
    <3>2. k \in 1..K /\ i = L + k
      BY <1>2, <2>2, <3>1
    <3> QED BY <1>3, <3>2
  <2> QED BY <1>3, <2>1, <2>2
<1>5. ReadSymbols(file) =
        {<<ReadString(StringsOf(file), syms[i].name), syms[i].value>> : i \in 1..L}
  BY <1>2, <1>4 DEF ReadSymbols
<1>6. PICK at : LaidIn(ls, ks, at)
  BY SomeLaidIn
<1>7. ASSUME NEW i \in 1..L
      PROVE  /\ ReadString(StringsOf(file), syms[i].name) = Spelling[ls[i].name]
             /\ syms[i].value = 4 * ls[i].value
  <2>1. StringsOf(file) = str
    BY <1>2
  <2>2. syms[i].name = LabelIndex(ls, i) /\ syms[i].value = 4 * ls[i].value
    BY <1>3
  <2>3. i \in 1..Len(ls)
    BY <1>1
  <2>4. ReadString(str, LabelIndex(ls, i)) = Spelling[ls[i].name]
    BY <1>1, <1>6, <2>3, LabelRead
  <2> QED BY <2>1, <2>2, <2>4
<1> QED BY <1>1, <1>5, <1>7

\* And each reference, by the name that is read where its symbol points.
ReferencesIn(base, ls, ks) ==
  [k \in 1..Len(ks) |->
     [type    |-> ReadType(WrittenType(ks[k].type)),
      value   |-> Spelling[NameRead(ls, ks, k)],
      address |-> 4 * base + ks[k].at,
      relbase |-> 4 * ks[k].relbase]]

LEMMA ReferencesRead ==
  ASSUME NEW base, NEW entry, NEW ls, NEW ks, Named(ls, ks), NEW size \in Nat \ {0}, NEW text,
         NEW file, IsRead(file, base, entry, ls, ks, size, text)
  PROVE  ReadReferences(file) = ReferencesIn(base, ls, ks)
<1>1. PICK L, K, syms, str, rels :
        /\ L = Len(ls) /\ K = Len(ks) /\ syms = Dynsym(ls, ks)
        /\ str = Dynstr(ls, ks)[Len(ks)] /\ rels = Rel(ls, ks, base)
  OBVIOUS
<1>2. /\ SymbolsOf(file) = syms /\ (L + K # 0 => StringsOf(file) = str)
      /\ ContentOf(file, Located(file, REL)) = rels /\ L \in Nat /\ K \in Nat
  BY <1>1, NamesFacts DEF IsRead
<1>3. \A k \in 1..K : /\ syms[L + k].name = NameIndex(ls, ks, k)
                      /\ syms[L + k].value = 4 * ks[k].relbase
  <2>1. \A k \in 1..Len(ks) : /\ Dynsym(ls, ks)[Len(ls) + k].name = NameIndex(ls, ks, k)
                             /\ Dynsym(ls, ks)[Len(ls) + k].value = 4 * ks[k].relbase
    BY DynsymFields
  <2> QED BY <1>1, <2>1
<1>4. rels = [k \in 1..K |-> [addr |-> 4 * base + ks[k].at, type |-> WrittenType(ks[k].type),
                              sym |-> L + k - 1]]
  <2>1. DOMAIN ks = 1..K
    BY <1>1 DEF Named
  <2> QED BY <1>1, <2>1 DEF Rel
<1>5. ReadReferences(file) =
        [k \in DOMAIN rels |->
           [type    |-> ReadType(rels[k].type),
            value   |-> ReadString(StringsOf(file), syms[rels[k].sym + 1].name),
            address |-> rels[k].addr,
            relbase |-> syms[rels[k].sym + 1].value]]
  BY <1>2 DEF ReadReferences
<1>6. PICK at : LaidIn(ls, ks, at)
  BY SomeLaidIn
<1>7. ASSUME NEW k \in 1..K
      PROVE  /\ rels[k].type = WrittenType(ks[k].type) /\ rels[k].addr = 4 * base + ks[k].at
             /\ ReadString(StringsOf(file), syms[rels[k].sym + 1].name)
                  = Spelling[NameRead(ls, ks, k)]
             /\ syms[rels[k].sym + 1].value = 4 * ks[k].relbase
  <2>1. rels[k].type = WrittenType(ks[k].type) /\ rels[k].addr = 4 * base + ks[k].at
        /\ rels[k].sym = L + k - 1
    BY <1>4
  <2>2. rels[k].sym + 1 = L + k
    BY <1>2, <2>1
  <2>3. /\ syms[rels[k].sym + 1].name = NameIndex(ls, ks, k)
        /\ syms[rels[k].sym + 1].value = 4 * ks[k].relbase
    BY <1>3, <2>2
  <2>4. StringsOf(file) = str
    BY <1>2
  <2>5. k \in 1..Len(ks)
    BY <1>1
  <2>6. ReadString(str, NameIndex(ls, ks, k)) = Spelling[NameRead(ls, ks, k)]
    BY <1>1, <1>6, <2>5, ReferenceRead
  <2> QED BY <2>1, <2>3, <2>4, <2>6
<1>8. DOMAIN rels = 1..K
  BY <1>4
<1> HIDE DEF NameRead
<1>9. PICK R, V, A, B : /\ R = [k \in 1..K |-> ReadType(rels[k].type)]
                        /\ V = [k \in 1..K |->
                                  ReadString(StringsOf(file), syms[rels[k].sym + 1].name)]
                        /\ A = [k \in 1..K |-> rels[k].addr]
                        /\ B = [k \in 1..K |-> syms[rels[k].sym + 1].value]
  OBVIOUS
<1>10. ReadReferences(file) = [k \in 1..K |-> [type |-> R[k], value |-> V[k],
                                                address |-> A[k], relbase |-> B[k]]]
  BY <1>5, <1>8, <1>9
<1>11. \A k \in 1..K : /\ R[k] = ReadType(WrittenType(ks[k].type))
                       /\ V[k] = Spelling[NameRead(ls, ks, k)]
                       /\ A[k] = 4 * base + ks[k].at /\ B[k] = 4 * ks[k].relbase
  BY <1>7, <1>9
<1> QED BY <1>1, <1>10, <1>11 DEF ReferencesIn

LEMMA ObjectIsRead == IndInv /\ NthInv /\ WrittenInv => ObjectReadsBack
<1> SUFFICES ASSUME IndInv, NthInv, WrittenInv, phase = "done", IsElf, Aligned
             PROVE  ObjectReadsBack
  BY DEF ObjectReadsBack
<1>1. /\ input \in Inputs /\ PlaceInv /\ offset = Size /\ vmembase = Base
      /\ \A n : n \in DOMAIN symbols <=> Definitions(n) # {}
      /\ \A n \in DOMAIN symbols : symbols[n].value = Value(n)
  BY DoneFacts
<1>2. Listings \subseteq 1..Len(Lines) /\ Len(Lines) \in Nat /\ Complete
  BY <1>1, TextFacts DEF Listings, Complete
<1>3. PICK s, L : InOrder(s, L, Listings)
  BY <1>2, OrderExists
<1>4. PICK ls, ks, src : ls = Listed /\ ks = kept /\ src = Source
  OBVIOUS
<1>5. /\ ls = [i \in 1..L |-> [name |-> Lines[s[i]].name, value |-> Value(Lines[s[i]].name)]]
      /\ src.order = [i \in 1..L |-> Lines[s[i]].name] /\ L \in Nat
      /\ \A i \in 1..L : s[i] \in Listings
      /\ \A x \in Listings : \E i \in 1..L : s[i] = x
  <2>1. ls = [i \in 1..L |-> [name |-> Lines[s[i]].name, value |-> Value(Lines[s[i]].name)]]
    BY <1>2, <1>3, <1>4, ListedIs
  <2>2. src.order = [i \in 1..L |-> Lines[s[i]].name]
    BY <1>1, <1>3, <1>4, SourceOrder
  <2>3. /\ L \in Nat /\ \A i \in 1..L : s[i] \in Listings
        /\ \A x \in Listings : \E i \in 1..L : s[i] = x
    BY <1>3 DEF InOrder
  <2> QED BY <2>1, <2>2, <2>3
<1>6. PICK K : K = Len(ks)
  OBVIOUS
<1>7. /\ K \in Nat /\ ks = [k \in 1..K |-> ks[k]]
      /\ \A k \in 1..K : \E i \in References : ks[k] \in FieldsOf(i)
      /\ src.refs = [k \in 1..K |-> [kind |-> Kind(ks[k].type), name |-> ks[k].name,
                                     at |-> ks[k].at]]
  BY <1>2, <1>4, <1>6, SourceRefs
<1>8. Len(ls) = L
  BY <1>5
<1>9. \A x \in Listings : /\ Lines[x].name \in DOMAIN Spelling
                          /\ Definitions(Lines[x].name) # {}
  BY <1>1, TextFacts DEF Listings, Listing, IsLine, Definitions
<1>10. \A k \in 1..K :
         /\ ks[k].name \in DOMAIN Spelling /\ ks[k].at \in Nat
         /\ ReadType(WrittenType(ks[k].type)) = Kind(ks[k].type)
         /\ 4 * ks[k].relbase
              = IF Kind(ks[k].type) = "rel16" THEN 4 * (Base + ks[k].at \div 4) ELSE 0
  BY <1>1, <1>7, LeftField
<1>11. \A i \in 1..L : ls[i].name = Lines[s[i]].name /\ ls[i].value = Value(Lines[s[i]].name)
  BY <1>5
<1>12. GivesNames(src, ls, ks)
  <2>1. ls = [i \in 1..L |-> ls[i]] /\ \A i \in 1..L : ls[i].name \in DOMAIN Spelling
    BY <1>5, <1>9, <1>11
  <2>2. Named(ls, ks)
    BY <1>5, <1>6, <1>7, <1>8, <1>10, <2>1 DEF Named
  <2>3. src.order = [i \in 1..L |-> ls[i].name]
    BY <1>5, <1>11
  <2>4. DOMAIN src.refs = 1..K /\ \A k \in 1..K : src.refs[k].name = ks[k].name
    BY <1>7
  <2> QED BY <1>6, <1>8, <2>2, <2>3, <2>4 DEF GivesNames
<1>13. Named(ls, ks)
  BY <1>12 DEF GivesNames
<1>14. Written \in Nat \ {0} /\ Padded = Written /\ Written % 4 = 0
  <2>1. Written > 0 /\ Written % 4 = 0
    BY DEF Aligned
  <2>2. Size \in Nat /\ input.pad \in Nat
    <3>1. Len(Lines) + 1 \in 1..(Len(Lines) + 1)
      BY <1>1, TextFacts
    <3> QED BY <1>1, <3>1, PosFacts, TextFacts DEF Size
  <2> QED BY <1>1, <2>1, <2>2 DEF Padded, Written
<1>15. PICK size, file, base : size = Written /\ file = written /\ base = Base
  OBVIOUS
<1>16. /\ file = ElfFile(base, Entry, ls, ks, size, Text) /\ size \in Nat \ {0}
       /\ base \in Nat
  BY <1>1, <1>4, <1>14, <1>15, BaseNat DEF WrittenInv, IsElf, Base
<1>17. IsRead(file, base, Entry, ls, ks, size, Text)
  BY <1>13, <1>16, ElfReads
<1>18. /\ file[1].content.entry = Entry /\ WellFormed(file) /\ Loaded(file) = {1}
       /\ SegmentsOf(file)[1].vaddr = 4 * base /\ SegmentsOf(file)[1].size = size
       /\ Blob(file, SegmentsOf(file)[1].offset, SegmentsOf(file)[1].size) = Text
  BY <1>17 DEF IsRead
<1>19. [address |-> 4 * base, size |-> size] = Object!Segment(src)
  <2>1. src.org = base /\ src.words = size \div 4
    BY <1>4, <1>15, SourceParts
  <2>2. 4 * (size \div 4) = size
    BY <1>14, <1>15, <1>16
  <2> QED BY <2>1, <2>2 DEF Object!Segment
<1>20. Entry = Object!EntryOf(src)
  <2>1. src.org = base /\ src.entry = IF Definitions(input.entry) = {} THEN -1
                                      ELSE Value(input.entry) - base
    BY <1>4, <1>15, SourceParts
  <2>2. Entry = IF Definitions(input.entry) = {} THEN 0 ELSE Value(input.entry)
    BY <1>1 DEF Entry
  <2>3. CASE Definitions(input.entry) = {}
    BY <2>1, <2>2, <2>3 DEF Object!EntryOf
  <2>4. CASE Definitions(input.entry) # {}
    <3>1. PICK v : v = Value(input.entry)
      OBVIOUS
    <3>2. v \in Nat /\ v # base - 1
      BY <1>1, <1>15, <2>4, <3>1, ValueNat DEF Aligned
    <3>3. v - base # -1 /\ base + (v - base) = v
      BY <1>16, <3>2
    <3> QED BY <2>1, <2>2, <2>4, <3>1, <3>3 DEF Object!EntryOf
  <2> QED BY <2>3, <2>4
<1>21. ReadSymbols(file) = {<<Spelling[n], Object!Defined(src)[n]>> : n \in DOMAIN src.labels}
  <2>1. src.labels = [n \in {Lines[x].name : x \in Listings} |-> Value(n) - base]
        /\ src.org = base
    BY <1>4, <1>15, SourceParts
  <2>2. DOMAIN src.labels = {ls[i].name : i \in 1..L}
    <3>1. DOMAIN src.labels = {Lines[x].name : x \in Listings}
      BY <2>1
    <3>2. {Lines[x].name : x \in Listings} = {Lines[s[i]].name : i \in 1..L}
      BY <1>5
    <3>3. {Lines[s[i]].name : i \in 1..L} = {ls[i].name : i \in 1..L}
      BY <1>11
    <3> QED BY <3>1, <3>2, <3>3
  <2>3. \A i \in 1..L : Object!Defined(src)[ls[i].name] = 4 * ls[i].value
    <3> TAKE i \in 1..L
    <3>1. PICK v, n : v = ls[i].value /\ n = ls[i].name
      OBVIOUS
    <3>2. v = Value(n) /\ v \in Nat /\ n \in DOMAIN src.labels
      BY <1>1, <1>5, <1>9, <1>11, <2>2, <3>1, ValueNat
    <3>3. src.labels[n] = v - base
      BY <2>1, <3>2
    <3>4. Object!Defined(src)[n] = 4 * (base + (v - base))
      BY <2>1, <3>2, <3>3 DEF Object!Defined
    <3>5. base + (v - base) = v
      BY <1>16, <3>2
    <3> QED BY <3>1, <3>4, <3>5
  <2>4. ReadSymbols(file) = {<<Spelling[ls[i].name], 4 * ls[i].value>> : i \in 1..L}
    BY <1>8, <1>13, <1>16, <1>17, SymbolsRead
  <2> QED BY <2>2, <2>3, <2>4
<1>22. ReadReferences(file) =
         [k \in DOMAIN src.refs |->
            LET r == Object!Reference(src, k, 1)
            IN  [type |-> r.type, value |-> Spelling[r.value], address |-> r.address,
                 relbase |-> r.relbase]]
  <2>1. src.org = base
    BY <1>4, <1>15, SourceParts
  <2>2. DOMAIN src.refs = 1..K
    BY <1>7
  <2>3. ASSUME NEW k \in 1..K
        PROVE  /\ Object!Reference(src, k, 1).type = ReadType(WrittenType(ks[k].type))
               /\ Object!Reference(src, k, 1).value = NameRead(ls, ks, k)
               /\ Object!Reference(src, k, 1).address = 4 * base + ks[k].at
               /\ Object!Reference(src, k, 1).relbase = 4 * ks[k].relbase
    <3>1. PICK r : r = src.refs[k]
      OBVIOUS
    <3>2. r.kind = Kind(ks[k].type) /\ r.at = ks[k].at
      BY <1>7, <3>1
    <3>3. Object!NameIn(src, k) = NameRead(ls, ks, k)
      <4>1. k \in 1..Len(ks)
        BY <1>6
      <4> QED BY <1>12, <4>1, NameInIs
    <3>4. Object!Reference(src, k, 1) =
            [type |-> r.kind, value |-> Object!NameIn(src, k), address |-> 4 * base + r.at,
             relbase |-> IF r.kind = "rel16" THEN 4 * (base + r.at \div 4) ELSE 0, asmid |-> 1]
      BY <2>1, <3>1 DEF Object!Reference
    <3>5. /\ ReadType(WrittenType(ks[k].type)) = Kind(ks[k].type)
          /\ 4 * ks[k].relbase
               = IF Kind(ks[k].type) = "rel16" THEN 4 * (base + ks[k].at \div 4) ELSE 0
      BY <1>10, <1>15
    <3> QED BY <3>2, <3>3, <3>4, <3>5
  <2>4. ReadReferences(file) =
           [k \in 1..K |->
              [type    |-> ReadType(WrittenType(ks[k].type)),
               value   |-> Spelling[NameRead(ls, ks, k)],
               address |-> 4 * base + ks[k].at,
               relbase |-> 4 * ks[k].relbase]]
    <3>1. PICK entry, text : entry = Entry /\ text = Text
      OBVIOUS
    <3>2. Named(ls, ks) /\ size \in Nat \ {0} /\ IsRead(file, base, entry, ls, ks, size, text)
      BY <1>13, <1>16, <1>17, <3>1
    <3>3. ReadReferences(file) = ReferencesIn(base, ls, ks)
      BY <3>2, ReferencesRead
    <3> QED BY <1>6, <3>3 DEF ReferencesIn
  <2> HIDE DEF NameRead
  <2> QED BY <2>2, <2>3, <2>4
<1> QED BY <1>4, <1>15, <1>18, <1>19, <1>20, <1>21, <1>22 DEF ObjectReadsBack

-----------------------------------------------------------------------------
\* Wherever a symbol is defined, and whichever pass fills the field
\* (encode_instruction, serialise, process_file's fixups), each field of the
\* output that is not left to the linker has the symbol's value.
THEOREM FieldsHoldValues == Spec => []FieldsMeanSymbols
BY IndInvariant, FieldsMean, PTL

\* new_unresolved, when the file is written, is exactly the fields that are left
\* to the linker, each once.
THEOREM LeftIsListed == Spec => []KeptIsTheRest
BY IndInvariant, KeptIsLeft, PTL

\* process_file gives up or crashes only on a source, or with arguments, that it
\* cannot assemble, and then always: an error of a line, an address or a value that
\* is too large for its place, a number that the header has no room for.
THEOREM RejectsForReason == Spec => []AcceptsWhatItCan
BY IndInvariant, AcceptsAll, PTL

\* A vmd, a roadrun image or a bin is read as the assembly that was written, at
\* its address and with its entry point.
THEOREM ReadersFindIt == Spec => []ReadersFindTheCode
BY IndInvariant, WrittenInvariant, ReadersFind, PTL

\* An object file is what the linker's own model starts from: the segments, the
\* symbols, the names and the relocations that elf_format_transformer lays out are
\* found by process_file, with the labels' addresses, the references' kinds, places
\* and bases, and the entry point that the source means.
THEOREM ObjectsReadBack == Spec => []ObjectReadsBack
BY IndInvariant, WrittenInvariant, ObjectIsRead, PTL
=============================================================================
