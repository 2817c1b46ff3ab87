------------------------------ MODULE Assembler ------------------------------
(***************************************************************************)
(* rrasm's process_file on one source: a pass over the lines for the       *)
(* symbols defined by `equ`, a pass that assembles line by line, defining  *)
(* labels as it meets them and deferring what it cannot resolve yet, and a *)
(* pass over the deferred fields.  Positions are bytes of the assembly;    *)
(* addresses are words, counted from vmembase.                             *)
(*                                                                         *)
(* A line is a record whose op says what kind of line it is:               *)
(*   label, equ, extern, org    as written                                 *)
(*   bytes  an instruction or data without a symbol, incbin: size bytes,   *)
(*          nothing that is an error whatever surrounds it                 *)
(*   abs    one with a symbol as immediate or in a memory operand          *)
(*   rel    one with a symbol as a relative operand: a branch, a call      *)
(*   mov    `mov Rd, symbol`, expanded to ldi, shli, ori                   *)
(*   data   `db|dw|dd|dq symbol`, by its size                              *)
(*   align  as written                                                     *)
(* What an instruction looks like is abstracted to its field for a symbol: *)
(* where it is, how wide, and its value.                                   *)
(***************************************************************************)
EXTENDS Formats, FiniteSets

\* What rrasm may be given: a source's lines, and the arguments that matter to
\* what is made of it; entry and compressor always have a name, pad may be 0.
CONSTANT Inputs   \* [lines, base, pie, export_all, format, entry, pad, compressor]

\* What is in a line: an alignment is positive, data has one of four sizes, and
\* the names of labels and of symbols have characters.
IsLine(l) ==
  /\ l.op \in {"equ", "org"} => l.value \in Nat
  /\ l.op = "bytes"          => l.size \in Nat
  /\ l.op = "align"          => l.size \in Nat \ {0}
  /\ l.op = "data"           => l.size \in {1, 2, 4, 8}
  /\ l.op \in {"label", "abs", "rel", "mov", "data"} => l.name \in DOMAIN Spelling

ASSUME InputsAssumption ==
  \A i \in Inputs :
    /\ i.base \in Nat /\ i.pad \in Nat
    /\ i.pie \in BOOLEAN /\ i.export_all \in BOOLEAN
    /\ Len(i.lines) \in Nat /\ DOMAIN i.lines = 1..Len(i.lines)
    /\ \A k \in DOMAIN i.lines : IsLine(i.lines[k])

VARIABLES
  input,
  phase,       \* prepass, assemble, fixup, done; failed or crashed
  line,        \* the line, or the deferred field, looked at next
  offset,      \* len(assembly)
  vmembase,
  symbols,     \* name -> [value, const, nth]: the nth that was defined
  exports,     \* the names given to extern
  unresolved,  \* deferred fields, in order: [type, name, at, relbase]
  fields,      \* position -> value: the fields of the assembly that hold one
  kept,        \* new_unresolved: what the object file leaves to the linker
  written      \* the output before it is compressed: the parts of a file

vars == <<input, phase, line, offset, vmembase, symbols, exports, unresolved,
          fields, kept, written>>

Lines == input.lines
IsElf == input.format = "elf"

\* -r implies -E.
ExportAll == input.export_all \/ input.pie
Final == {"done", "failed", "crashed"}

Init ==
  /\ input \in Inputs
  /\ phase = "prepass" /\ line = 1
  /\ offset = 0
  /\ vmembase = input.base
  /\ symbols = [n \in {} |-> 0] /\ fields = [a \in {} |-> 0]
  /\ exports = {}
  /\ unresolved = <<>> /\ kept = <<>> /\ written = <<>>

\* The bytes of a field, and what a deferred field of that size makes of a value.
FieldSize(type) == 
  CASE type = "abs8" -> 1 [] type = "abs32" -> 4 [] type = "abs64" -> 8 [] OTHER -> 2

Masked(v, size) == IF Fits(v, size) THEN v ELSE v % (ByteValues ^ size)

\* struct.pack(">h"): two bytes with a sign.
InRange(d) == LET half == ByteValues ^ 2 \div 2 IN -half =< d /\ d < half

Stop(how) ==
  /\ phase' = how
  /\ UNCHANGED <<input, line, offset, vmembase, symbols, exports, unresolved,
                 fields, kept, written>>

Define(f, x, v) == [y \in DOMAIN f \cup {x} |-> IF y = x THEN v ELSE f[y]]

Symbol(n, v, const) ==
  symbols' = Define(symbols, n, [value |-> v, const |-> const,
                                 nth |-> Cardinality(DOMAIN symbols) + 1])

-----------------------------------------------------------------------------
\* fixed_sym_decode_prepass: every `equ` of the file, whatever precedes it.
PrepassLine ==
  /\ phase = "prepass" /\ line \in DOMAIN Lines
  /\ LET l == Lines[line] IN
     IF l.op # "equ" THEN UNCHANGED symbols
     ELSE /\ l.name \notin DOMAIN symbols
          /\ Symbol(l.name, l.value, TRUE)
  /\ line' = line + 1
  /\ UNCHANGED <<input, phase, offset, vmembase, exports, unresolved, fields, kept, written>>

RedefinedConst ==
  /\ phase = "prepass" /\ line \in DOMAIN Lines
  /\ Lines[line].op = "equ" /\ Lines[line].name \in DOMAIN symbols
  /\ Stop("failed")

PrepassEnds ==
  /\ phase = "prepass" /\ line > Len(Lines)
  /\ phase' = "assemble" /\ line' = 1
  /\ UNCHANGED <<input, offset, vmembase, symbols, exports, unresolved, fields, kept, written>>

-----------------------------------------------------------------------------
\* What the assembling pass knows a symbol by: its value if it has one and it
\* does not depend on where the program will be.
Known(n) == n \in DOMAIN symbols /\ (symbols[n].const \/ ~input.pie)

Here == vmembase + offset \div 4

\* The line is assembled to n bytes.
Emit(n) ==
  /\ offset' = offset + n
  /\ line' = line + 1
  /\ UNCHANGED <<input, phase, vmembase, symbols, exports, kept, written>>

At(op) == phase = "assemble" /\ line \in DOMAIN Lines /\ Lines[line].op = op

\* Mutant of DefineLabel: a label is the byte position, as on a byte-addressed
\* machine.
DefineLabelInBytes ==
  /\ At("label")
  /\ Lines[line].name \notin DOMAIN symbols
  /\ Symbol(Lines[line].name, vmembase + offset, FALSE)
  /\ line' = line + 1
  /\ UNCHANGED <<input, phase, offset, vmembase, exports, unresolved, fields, kept, written>>

DefineLabel ==
  /\ At("label")
  /\ Lines[line].name \notin DOMAIN symbols
  /\ Symbol(Lines[line].name, Here, FALSE)
  /\ line' = line + 1
  /\ UNCHANGED <<input, phase, offset, vmembase, exports, unresolved, fields, kept, written>>

RedefinedLabel ==
  /\ At("label")
  /\ Lines[line].name \in DOMAIN symbols
  /\ Stop("failed")

Extern ==
  /\ At("extern")
  /\ exports' = exports \cup {Lines[line].name}
  /\ line' = line + 1
  /\ UNCHANGED <<input, phase, offset, vmembase, symbols, unresolved, fields, kept, written>>

\* Mutant of Org: any number is taken for an address.
OrgUnchecked ==
  /\ At("org")
  /\ vmembase' = Lines[line].value
  /\ line' = line + 1
  /\ UNCHANGED <<input, phase, offset, symbols, exports, unresolved, fields, kept, written>>

\* An address has 32 bits (cpu.vmemdepth).
Org ==
  /\ At("org")
  /\ Fits(Lines[line].value, 4)
  /\ vmembase' = Lines[line].value
  /\ line' = line + 1
  /\ UNCHANGED <<input, phase, offset, symbols, exports, unresolved, fields, kept, written>>

\* `equ` lines were dealt with; a position that is aligned already is moved on
\* by a whole alignment.
Plain ==
  /\ \/ At("equ") /\ Emit(0)
     \/ At("bytes") /\ Emit(Lines[line].size)
     \/ At("align") /\ Emit(Lines[line].size - (offset % Lines[line].size))
  /\ UNCHANGED <<unresolved, fields>>

Resolved(at, value) ==
  /\ fields' = Define(fields, at, value)
  /\ UNCHANGED unresolved

Deferred(type, at, relbase, value) ==
  /\ unresolved' = Append(unresolved, [type |-> type, name |-> Lines[line].name,
                                       at |-> at, relbase |-> relbase])
  /\ fields' = Define(fields, at, value)

\* The value encoded for an `abs` operand; vmembase until it is known.
Immediate(n) == IF Known(n) THEN symbols[n].value ELSE vmembase

EncodeAbs ==
  /\ At("abs")
  /\ LET n == Lines[line].name IN
     /\ Fits(Immediate(n), 2)
     /\ IF Known(n) THEN Resolved(offset + 2, Immediate(n))
                    ELSE Deferred("abs16", offset + 2, 0, Immediate(n))
  /\ Emit(4)

\* Mutant of EncodeRel: a deferred displacement counts from the assembly's start.
EncodeRelUnbased ==
  /\ At("rel")
  /\ LET n == Lines[line].name IN
     IF Known(n)
     THEN InRange(symbols[n].value - Here)
            /\ Resolved(offset + 2, symbols[n].value - Here)
     ELSE Deferred("rel16", offset + 2, offset \div 4, 0)
  /\ Emit(4)

EncodeRel ==
  /\ At("rel")
  /\ LET n == Lines[line].name IN
     IF Known(n)
     THEN InRange(symbols[n].value - Here)
            /\ Resolved(offset + 2, symbols[n].value - Here)
     ELSE Deferred("rel16", offset + 2, Here, 0)
  /\ Emit(4)

\* mov Rd, symbol is always deferred, in two halves: ldi's and ori's immediate.
ExpandMov ==
  /\ At("mov")
  /\ LET n == Lines[line].name IN
     unresolved' = unresolved \o
       << [type |-> "abs16_h", name |-> n, at |-> offset + 2, relbase |-> 0],
          [type |-> "abs16_l", name |-> n, at |-> offset + 10, relbase |-> 0] >>
  /\ fields' = Define(Define(fields, offset + 2, 0), offset + 10, 0)
  /\ Emit(12)

DataType(size) == CASE size = 1 -> "abs8" [] size = 2 -> "abs16" [] size = 4 -> "abs32"
                       [] OTHER    -> "abs64"

Data ==
  /\ At("data")
  /\ LET n == Lines[line].name  size == Lines[line].size IN
     /\ IF Known(n)
        THEN Fits(symbols[n].value, size) /\ Resolved(offset, symbols[n].value)
        ELSE Deferred(DataType(size), offset, 0, 0)
     /\ Emit(size)

\* An address, or a value known while its line is assembled, that is too large for
\* its place: an error of org_virtual and encode_instruction, or one of struct.pack
\* that resolve_final_instruction makes an error of.
Oversized ==
  /\ \/ At("org") /\ ~Fits(Lines[line].value, 4)
     \/ At("abs") /\ ~Fits(Immediate(Lines[line].name), 2)
     \/ /\ At("rel") /\ Known(Lines[line].name)
        /\ ~InRange(symbols[Lines[line].name].value - Here)
     \/ /\ At("data") /\ Known(Lines[line].name)
        /\ ~Fits(symbols[Lines[line].name].value, Lines[line].size)
  /\ Stop("failed")

AssembleEnds ==
  /\ phase = "assemble" /\ line > Len(Lines)
  /\ phase' = "fixup" /\ line' = 1
  /\ UNCHANGED <<input, offset, vmembase, symbols, exports, unresolved, fields, kept, written>>

-----------------------------------------------------------------------------
Fixing == phase = "fixup" /\ line \in DOMAIN unresolved

\* Mutant of LeftToLinker: exporting is not asked for.
LeftToLinkerUnexported(d) == input.pie \/ d.name \notin DOMAIN symbols

\* Left to the linker: everything in a position independent executable, and an
\* exported name of an object.
LeftToLinker(d) ==
  \/ input.pie
  \/ d.name \notin DOMAIN symbols /\ d.name \in exports /\ IsElf

KeepField ==
  /\ Fixing /\ LeftToLinker(unresolved[line])
  /\ kept' = Append(kept, unresolved[line])
  /\ line' = line + 1
  /\ UNCHANGED <<input, phase, offset, vmembase, symbols, exports, unresolved, fields,
                 written>>

UndefinedSymbol ==
  /\ Fixing /\ ~LeftToLinker(unresolved[line])
  /\ unresolved[line].name \notin DOMAIN symbols
  /\ Stop("failed")

\* Mutant of Packed: both halves of a mov are the low one.
PackedUnshifted(d) ==
  LET v == symbols[d.name].value
  IN CASE d.type = "rel16" -> v - d.relbase
       [] OTHER            -> Masked(v, FieldSize(d.type))

\* Mutant of Packed: what is left of a value by the shift is not masked.
PackedUnmasked(d) ==
  LET v == symbols[d.name].value
  IN CASE d.type = "rel16"   -> v - d.relbase
       [] d.type = "abs16_h" -> Shifted(v, 2)
       [] OTHER              -> Masked(v, FieldSize(d.type))

\* What is packed into a deferred field.  The bound check before it is given the
\* constant 1, never the value: an absolute value is masked to the field.  (The
\* check that the field lies in the assembly always passes: its line put it there.)
Packed(d) ==
  LET v == symbols[d.name].value
  IN CASE d.type = "rel16"   -> v - d.relbase
       [] d.type = "abs16_h" -> Masked(Shifted(v, 2), 2)
       [] OTHER              -> Masked(v, FieldSize(d.type))

Packable(d) == d.type = "rel16" => InRange(Packed(d))

FixField ==
  /\ Fixing /\ ~LeftToLinker(unresolved[line])
  /\ unresolved[line].name \in DOMAIN symbols
  /\ Packable(unresolved[line])
  /\ fields' = [fields EXCEPT ![unresolved[line].at] = Packed(unresolved[line])]
  /\ line' = line + 1
  /\ UNCHANGED <<input, phase, offset, vmembase, symbols, exports, unresolved, kept,
                 written>>

\* struct.error is not caught in process_file.
CrashOnField ==
  /\ Fixing /\ ~LeftToLinker(unresolved[line])
  /\ unresolved[line].name \in DOMAIN symbols
  /\ ~Packable(unresolved[line])
  /\ Stop("crashed")

-----------------------------------------------------------------------------
(* What is made of the assembly.  `unresolved` is `kept` from here on.        *)

Fixed == phase = "fixup" /\ line > Len(unresolved)

Padded == IF input.pad = 0 THEN offset ELSE input.pad

CannotPad == Fixed /\ offset > Padded /\ Stop("failed")

\* An alias is replaced by the whole table of aliases, which is no key of the
\* table of compressors and cannot be looked up in it.
UnknownCompressor ==
  /\ Fixed /\ offset =< Padded /\ input.format \in FormatNames
  /\ input.compressor \notin CompressorNames
  /\ Stop(IF input.compressor \in CompressorAliases THEN "crashed" ELSE "failed")

UnknownFormat ==
  /\ Fixed /\ offset =< Padded /\ input.format \notin FormatNames
  /\ Stop("failed")

\* The assembly, as far as the model has it; it does not begin like a header.
Text == [magic |-> "", fields |-> fields]

\* search_for_entrypoint
Entry == IF input.entry \in DOMAIN symbols THEN symbols[input.entry].value ELSE 0

\* The members of S in the order of their keys.
Ranked(S, key) ==
  [i \in 1..Cardinality(S) |->
     CHOOSE x \in S : Cardinality({y \in S : key[y] < key[x]}) = i - 1]

\* The labels that the ELF writer lists, in the order of the symbol table.
Listed ==
  LET names  == {n \in DOMAIN symbols : ~symbols[n].const /\ (n \in exports \/ ExportAll)}
      sorted == Ranked(names, [n \in names |-> symbols[n].nth])
  IN  [i \in DOMAIN sorted |-> [name |-> sorted[i], value |-> symbols[sorted[i]].value]]

\* Every name in kept is exported, or all are: the ELF writer never gives up.
Writing ==
  /\ Fixed /\ offset =< Padded
  /\ input.format \in FormatNames /\ input.compressor \in CompressorNames

\* The struct.error of a format's writer is not caught either.
CrashOnHeader ==
  /\ Writing /\ ~Packs(input.format, vmembase, Entry, Listed, kept, Padded)
  /\ Stop("crashed")

WriteOutput ==
  /\ Writing /\ Packs(input.format, vmembase, Entry, Listed, kept, Padded)
  /\ written' = FileOf(input.format, [base |-> vmembase, entry |-> Entry, labels |-> Listed,
                                      kept |-> kept, size |-> Padded, text |-> Text])
  /\ phase' = "done"
  /\ UNCHANGED <<input, line, offset, vmembase, symbols, exports, unresolved,
                 fields, kept>>

Next ==
  \/ PrepassLine \/ RedefinedConst \/ PrepassEnds
  \/ DefineLabel \/ RedefinedLabel \/ Extern \/ Org \/ Plain
  \/ EncodeAbs \/ EncodeRel \/ ExpandMov \/ Data \/ Oversized \/ AssembleEnds
  \/ KeepField \/ UndefinedSymbol \/ FixField \/ CrashOnField
  \/ CannotPad \/ UnknownFormat \/ UnknownCompressor \/ CrashOnHeader \/ WriteOutput

Spec == Init /\ [][Next]_vars

-----------------------------------------------------------------------------
(* What a source means, whatever order it is assembled in.  `org` says where   *)
(* the program's first byte is; what comes before it keeps its address.        *)

LineSize(l, p) ==
  CASE l.op \in {"abs", "rel"}    -> 4
    [] l.op = "mov"               -> 12
    [] l.op \in {"bytes", "data"} -> l.size
    [] l.op = "align"             -> l.size - (p % l.size)
    [] OTHER                      -> 0

Positions(lines) ==
  LET p[i \in 1..(Len(lines) + 1)] ==
        IF i = 1 THEN 0 ELSE p[i - 1] + LineSize(lines[i - 1], p[i - 1])
  IN p

Pos == Positions(Lines)

BaseAt(i) ==
  LET orgs == {j \in DOMAIN Lines : j < i /\ Lines[j].op = "org"}
  IN  IF orgs = {} THEN input.base ELSE Lines[Max(orgs)].value

Base    == BaseAt(Len(Lines) + 1)
Word(i) == BaseAt(i) + Pos[i] \div 4

Definitions(n) == {i \in DOMAIN Lines : Lines[i].op \in {"label", "equ"} /\ Lines[i].name = n}
IsConst(n)     == \E i \in Definitions(n) : Lines[i].op = "equ"
Exported(n)    == \E i \in DOMAIN Lines : Lines[i].op = "extern" /\ Lines[i].name = n

Size    == Pos[Len(Lines) + 1]
Written == IF input.pad = 0 THEN Size ELSE input.pad

Definition(n) == CHOOSE i \in Definitions(n) : TRUE
ValueAt(i)    == IF Lines[i].op = "equ" THEN Lines[i].value ELSE Word(i)
Value(n)      == ValueAt(Definition(n))

References == {i \in DOMAIN Lines : Lines[i].op \in {"abs", "rel", "mov", "data"}}

\* The fields of line i: type, name, position and what they are relative to.
FieldsOf(i) ==
  LET f(type, d, rel) == [type |-> type, name |-> Lines[i].name,
                          at |-> Pos[i] + d, relbase |-> rel]
  IN CASE Lines[i].op = "abs"  -> {f("abs16", 2, 0)}
       [] Lines[i].op = "rel"  -> {f("rel16", 2, Word(i))}
       [] Lines[i].op = "mov"  -> {f("abs16_h", 2, 0), f("abs16_l", 10, 0)}
       [] Lines[i].op = "data" -> {f(DataType(Lines[i].size), 0, 0)}

\* Line i's symbol has its value before the whole file is read.
KnownAt(i) ==
  LET n == Lines[i].name IN
  /\ Lines[i].op # "mov"
  /\ IsConst(n) \/ (~input.pie /\ \E j \in Definitions(n) : j < i)

\* Its fields are the linker's.
IsLeft(i) == IF input.pie THEN ~KnownAt(i) ELSE Definitions(Lines[i].name) = {}

Meant(d) ==
  CASE d.type = "rel16"   -> Value(d.name) - d.relbase
    [] d.type = "abs16_h" -> Masked(Shifted(Value(d.name), 2), 2)
    [] OTHER              -> Masked(Value(d.name), FieldSize(d.type))

\* The field can hold the value, or a mov's two halves together.
Holds(d) ==
  CASE d.type = "rel16"                  -> InRange(Meant(d))
    [] d.type \in {"abs16_h", "abs16_l"} -> Fits(Value(d.name), 4)
    [] OTHER                             -> Fits(Value(d.name), FieldSize(d.type))

\* The object file that the linker should read: what module Objects makes of a
\* source that is given by its labels and by the fields it leaves.
ReadAs ==
  [nm \in {nm \in (DOMAIN Spelling) \X (DOMAIN Spelling) :
              Places(Spelling[nm[1]], Spelling[nm[2]]) # {}} |->
     LET chars == Spelling[nm[2]]  from == Min(Places(Spelling[nm[1]], chars))
     IN  CHOOSE n \in DOMAIN Spelling : Spelling[n] = SubSeq(chars, from + 1, Len(chars))]

Object == INSTANCE Objects WITH Names <- DOMAIN Spelling, ReadAs <- ReadAs

Listing(l) == l.op = "label" /\ (Exported(l.name) \/ ExportAll)
Kind(type) ==
  CASE type = "abs8"  -> "abs8_l"  [] type = "abs16" -> "abs16_l" [] type = "abs32" -> "abs32_l"
    [] type = "abs64" -> "abs64_l" [] OTHER -> type

\* The lines of the labels it lists and the fields it leaves, in their order.
Listings  == {i \in DOMAIN Lines : Listing(Lines[i])}
LeftThere == UNION {FieldsOf(i) : i \in {j \in References : IsLeft(j)}}
InLines   == Ranked(Listings, [i \in Listings |-> i])
InPlaces  == Ranked(LeftThere, [d \in LeftThere |-> d.at])

Source ==
  [org    |-> Base,
   words  |-> Written \div 4,
   order  |-> [i \in DOMAIN InLines |-> Lines[InLines[i]].name],
   labels |-> [n \in {Lines[i].name : i \in Listings} |-> Value(n) - Base],
   refs   |-> [k \in DOMAIN InPlaces |-> [kind |-> Kind(InPlaces[k].type),
                                          name |-> InPlaces[k].name, at |-> InPlaces[k].at]],
   entry  |-> IF Definitions(input.entry) = {} THEN -1 ELSE Value(input.entry) - Base]

\* The numbers that the header is to hold, in it.
Encodable ==
  Packs(input.format, Base, IF Definitions(input.entry) = {} THEN 0 ELSE Value(input.entry),
        [i \in DOMAIN InLines |-> [name  |-> Lines[InLines[i]].name,
                                   value |-> Value(Lines[InLines[i]].name)]],
        InPlaces, Written)

\* The linker counts whole words from one base, and a displacement from the word
\* it is in; to its model an entry just before the base is none.
Aligned ==
  /\ \A i \in DOMAIN Lines : Lines[i].op = "org" => i = 1
  /\ Written > 0 /\ Written % 4 = 0
  /\ Definitions(input.entry) # {} => Value(input.entry) # Base - 1
  /\ \A i \in References : Lines[i].op = "rel" => Pos[i] % 4 = 0

-----------------------------------------------------------------------------
\* Wherever a symbol is defined, before or after its use, once or many lines
\* away, and whatever the pass that wrote it, each field of the output has the
\* symbol's value, relative to the instruction if it is a displacement.
FieldsMeanSymbols ==
  phase = "done" =>
    \A i \in References : ~IsLeft(i) =>
      \A d \in FieldsOf(i) : fields[d.at] = Meant(d)

\* The object file lists exactly the fields that were not resolved, each once,
\* with the address a relative one counts from: nothing is both or neither.
KeptIsTheRest ==
  phase = "done" =>
    /\ Range(kept) = UNION {FieldsOf(i) : i \in {j \in References : IsLeft(j)}}
    /\ Cardinality(Range(kept)) = Len(kept)

\* It defines no name twice, exports every name that it uses and does not define,
\* gives no field a value that it cannot hold, if that value is known when its line
\* is assembled or is a displacement, is nowhere that has no address, and can be
\* described in the header of its format.
Distinct ==
  \A i, j \in DOMAIN Lines :
    (i # j /\ {Lines[i].op, Lines[j].op} \subseteq {"label", "equ"})
      => Lines[i].name # Lines[j].name

Acceptable ==
  /\ Distinct
  /\ \A i \in References :
       /\ IsLeft(i) /\ ~input.pie => Exported(Lines[i].name) /\ IsElf
       /\ KnownAt(i) => \A d \in FieldsOf(i) : Holds(d)
       /\ Lines[i].op = "abs" /\ ~KnownAt(i) => Fits(BaseAt(i), 2)
       /\ Lines[i].op = "rel" /\ ~IsLeft(i) => \A d \in FieldsOf(i) : Holds(d)
  /\ \A i \in DOMAIN Lines : Lines[i].op = "org" => Fits(Lines[i].value, 4)
  /\ input.pad # 0 => Size =< input.pad
  /\ input.format \in FormatNames /\ input.compressor \in CompressorNames
  /\ Encodable

\* A source is assembled unless it defines a name twice, uses one that nobody
\* defines and it does not export, gives a value that is known when its line is
\* assembled, or a displacement, to a field that cannot hold it, or is at an address
\* that has more bits than the machine's or than the output's header has for it.
AcceptsWhatItCan == phase \in Final => (phase = "done" <=> Acceptable)

\* The linker, given the object file, finds in it the segment with the assembly,
\* the labels that were exported with their addresses, the references that were
\* left with their kinds, places and bases, and the entry point: the very object
\* that the linker's own model starts from.
ObjectReadsBack ==
  phase = "done" /\ IsElf /\ Aligned =>
    LET src == Source IN
    /\ WellFormed(written)
    /\ \E i \in Loaded(written) :
         /\ Loaded(written) = {i}
         /\ LET segment == SegmentsOf(written)[i] IN
            /\ [address |-> segment.vaddr, size |-> segment.size] = Object!Segment(src)
            /\ Blob(written, segment.offset, segment.size) = Text
    /\ written[1].content.entry = Object!EntryOf(src)
    /\ ReadSymbols(written) =
         {<<Spelling[n], Object!Defined(src)[n]>> : n \in DOMAIN src.labels}
    /\ ReadReferences(written) =
         [k \in DOMAIN src.refs |->
            LET r == Object!Reference(src, k, 1)
            IN  [type |-> r.type, value |-> Spelling[r.value], address |-> r.address,
                 relbase |-> r.relbase]]

\* rrvm loads a vmd, and the BIOS a roadrun image, to the byte address of the
\* word address the program was assembled for, and it is the assembly they load,
\* entered at the entry point; rrdis disassembles the assembly and no header.
ReadersFindTheCode ==
  phase = "done" /\ Written > 0 =>
    LET entry == IF Definitions(input.entry) = {} THEN 0 ELSE Value(input.entry) IN
    /\ input.format = "vmd" => VmdLoads(written) = [address |-> 4 * Base, text |-> Text]
    /\ input.format = "roadrun" =>
         RoadrunHolds(written) = [address |-> 4 * Base, entry |-> 4 * entry, text |-> Text]
    /\ input.format \in {"bin", "vmd", "roadrun"} => Disassembled(written) = Text

=============================================================================
