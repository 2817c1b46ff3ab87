-------------------------------- MODULE Elf --------------------------------
(***************************************************************************)
(* The bytes between the assembler and the linker: how rrasm lays out an   *)
(* object file (elf_format_transformer) and how rrld finds its way in it   *)
(* (process_file).  A file is a sequence of parts, each with its size in   *)
(* bytes and its content; what the headers say of offsets is computed as   *)
(* the writer does, and looked up in the parts as they were concatenated.  *)
(***************************************************************************)
EXTENDS Integers, SequencesExt

CONSTANTS
  Spelling,     \* name -> its characters, none of which is 0
  ByteValues    \* what a byte can hold: 256 values in the code

\* A byte for what the writer packs of its own (HeaderSize is a half word).
ASSUME ByteAssumption == ByteValues \in Nat /\ ByteValues >= 8

\* The places in a string that has these characters.
Places(chars, str) ==
  {i \in 0..(Len(str) - Len(chars)) : SubSeq(str, i + 1, i + Len(chars)) = chars}

\* What is read where one name first occurs in another is a name, too.
ASSUME SpellingAssumption ==
  /\ \A n \in DOMAIN Spelling : Spelling[n] \in Seq(Nat \ {0}) \ {<<>>}
  /\ \A n, m \in DOMAIN Spelling :
       LET places == Places(Spelling[n], Spelling[m]) IN
       places # {} => \E r \in DOMAIN Spelling :
                        Spelling[r] = SubSeq(Spelling[m], Min(places) + 1, Len(Spelling[m]))

\* v >> 8 * bytes, and whether that leaves nothing: struct.pack raises an error for
\* a number without a sign that does not fit, int_bound_check reports it.
Shifted(v, bytes) ==
  LET shifted[k \in 0..bytes] == IF k = 0 THEN v ELSE shifted[k - 1] \div ByteValues
  IN  shifted[bytes]
Fits(v, bytes) == Shifted(v, bytes) = 0

Part(size, content) == [size |-> size, content |-> content]

\* Sizes of the header, of a program header, a section header, a symbol and a
\* relocation; types of sections and of segments.
HeaderSize  == 52
PHeaderSize == 32
SHeaderSize == 40
SymSize     == 16
RelSize     == 8
PROGBITS    == 1
STRTAB      == 3
REL         == 9
DYNSYM      == 11
LOAD        == 1
SYMTABLE    == 1610612736

\* Where .shstrtab has the section names; its size and that of .comment.
SectionNames == [shstrtab |-> 1, dynstr |-> 11, dynsym |-> 19, comment |-> 27,
                 text |-> 36, rel |-> 42]
StrtabSize   == 47
CommentSize  == 28

-----------------------------------------------------------------------------
(* The writer, on the exported labels in the order they were defined, each    *)
(* [name, value], and on the fields left to the linker.                       *)

Terminated(n) == Append(Spelling[n], 0)

\* Mutant of Seen: every reference stores its name again, as long as the one
\* just before has another.
SeenBefore(kept, k) == k > 1 /\ kept[k - 1].name = kept[k].name

Seen(kept, k) == \E j \in 1..(k - 1) : kept[j].name = kept[k].name

\* dynstr after the labels and the first k references.
Dynstr(labels, kept) ==
  LET str[k \in 0..Len(kept)] ==
        IF k = 0 THEN FlattenSeq([i \in DOMAIN labels |-> Terminated(labels[i].name)])
        ELSE IF Seen(kept, k) THEN str[k - 1] ELSE str[k - 1] \o Terminated(kept[k].name)
  IN  str

\* The place of reference k's name: where it is added, or, the second time, the
\* first place that has its characters.
NameIndex(labels, kept, k) ==
  LET str == Dynstr(labels, kept)[k - 1]
  IN  IF Seen(kept, k) THEN Min(Places(Spelling[kept[k].name], str)) ELSE Len(str)

LabelIndex(labels, i) == Len(Dynstr(SubSeq(labels, 1, i - 1), <<>>)[0])

Dynsym(labels, kept) ==
  [i \in DOMAIN labels |-> [name |-> LabelIndex(labels, i), value |-> 4 * labels[i].value,
                            section |-> 1]]
  \o [k \in DOMAIN kept |-> [name |-> NameIndex(labels, kept, k),
                             value |-> 4 * kept[k].relbase, section |-> 0]]

\* absreltypes
WrittenType(type) ==
  CASE type = "abs8"  -> 0  [] type \in {"abs16", "abs16_l"} -> 1
    [] type = "abs32" -> 2  [] type = "abs64" -> 3
    [] type = "abs16_h" -> 65  [] type = "rel16" -> 128

Rel(labels, kept, base) ==
  [k \in DOMAIN kept |-> [addr |-> 4 * base + kept[k].at, type |-> WrittenType(kept[k].type),
                          sym |-> Len(labels) + k - 1]]

\* Mutant of SectionCount: the relocations' own section is not counted.
SectionCountNoRel(syms, rels) == IF syms = <<>> THEN 3 ELSE 5

SectionCount(syms, rels) ==
  (IF syms = <<>> THEN 3 ELSE 5) + (IF rels = <<>> THEN 0 ELSE 1)

\* Where what the sections hold begins, if there are n of them.
DataAt(n) == HeaderSize + 2 * PHeaderSize + SHeaderSize * n

ElfHeader(entry, n) ==
  [magic |-> "ELF", entry |-> entry, phoff |-> HeaderSize, phnum |-> 2,
   shoff |-> HeaderSize + 2 * PHeaderSize, shnum |-> n, shstrtab |-> 2]

\* The sections and the segments, when names, symbols, relocations and text are
\* of these sizes; they are written in this order, the section names and .comment
\* before the relocations.
SectionTable(n, strs, syms, rels, text) ==
  LET names  == strs + syms
      relsAt == names + StrtabSize + CommentSize
      Section(name, type, offset, size, link) ==
        [name |-> SectionNames[name], type |-> type, offset |-> DataAt(n) + offset,
         size |-> size, link |-> link]
  IN  SubSeq(<< Section("comment", PROGBITS, names + StrtabSize, CommentSize, 0),
                Section("text", PROGBITS, relsAt + rels, text, 0),
                Section("shstrtab", STRTAB, names, StrtabSize, 0),
                Section("dynstr", STRTAB, 0, strs, 0),
                Section("dynsym", DYNSYM, strs, syms, 3),
                Section("rel", REL, relsAt, rels, 4) >>, 1, n)

SegmentTable(base, n, strs, syms, rels, text) ==
  << [type |-> LOAD, offset |-> DataAt(n) + strs + syms + StrtabSize + CommentSize + rels,
      vaddr |-> 4 * base, size |-> text],
     [type |-> SYMTABLE, offset |-> HeaderSize + 2 * PHeaderSize, vaddr |-> 4 * base + text,
      size |-> SHeaderSize * n + strs + syms + StrtabSize] >>

\* The object file of an assembly: text is what it holds, size its bytes.
ElfFile(base, entry, labels, kept, size, text) ==
  LET dynstr == Dynstr(labels, kept)[Len(kept)]
      syms   == Dynsym(labels, kept)
      rels   == Rel(labels, kept, base)
      n      == SectionCount(syms, rels)
      a      == Len(dynstr)
      b      == SymSize * Len(syms)
      c      == RelSize * Len(rels)
  IN  << Part(HeaderSize, ElfHeader(entry, n)),
         Part(2 * PHeaderSize, SegmentTable(base, n, a, b, c, size)),
         Part(SHeaderSize * n, SectionTable(n, a, b, c, size)), Part(a, dynstr), Part(b, syms),
         Part(StrtabSize, SectionNames), Part(CommentSize, "comment"), Part(c, rels),
         Part(size, text) >>

\* Every number of the file fits where it is packed: four bytes each, of which an
\* address that a displacement counts from uses one bit for its sign, and the index
\* of a symbol shares with a type.  What is not listed here is not larger.
ElfPacks(base, entry, labels, kept, size) ==
  LET syms  == Dynsym(labels, kept)
      n     == SectionCount(syms, kept)
      names == Len(Dynstr(labels, kept)[Len(kept)]) + SymSize * Len(syms) + StrtabSize
      last  == IF kept = <<>> THEN 0 ELSE CommentSize
  IN  /\ \A v \in {entry, 4 * base + size + names + last,
                   DataAt(n) + names + CommentSize + RelSize * Len(kept)} : Fits(v, 4)
      /\ \A i \in DOMAIN labels : Fits(4 * labels[i].value, 4)
      /\ \A k \in DOMAIN kept :
           /\ Fits(2 * (4 * kept[k].relbase), 4) /\ Fits(4 * base + kept[k].at, 4)
           /\ Fits(Len(labels) + k - 1, 3)

-----------------------------------------------------------------------------
(* The reader *)

\* binary[offset:offset + size]: the part with these bytes, if they are one.
Blob(file, offset, size) ==
  LET start[i \in 1..(Len(file) + 1)] ==
        IF i = 1 THEN 0 ELSE start[i - 1] + file[i - 1].size
      there == {i \in DOMAIN file : start[i] = offset /\ file[i].size = size /\ size # 0}
  IN  IF there = {} THEN <<>> ELSE file[CHOOSE i \in there : TRUE].content

\* read_string, from an index on.
ReadString(str, index) ==
  SubSeq(str, index + 1, Min({i \in index..Len(str) : i = Len(str) \/ str[i + 1] = 0}))

ReadType(code) ==
  CASE code = 0 -> "abs8_l" [] code = 1 -> "abs16_l" [] code = 2 -> "abs32_l"
    [] code = 3 -> "abs64_l" [] code = 65 -> "abs16_h" [] code = 128 -> "rel16"

SectionsOf(file) ==
  LET h == file[1].content IN Blob(file, h.shoff, SHeaderSize * h.shnum)
SegmentsOf(file) ==
  LET h == file[1].content IN Blob(file, h.phoff, PHeaderSize * h.phnum)

\* The segments that become assemblies.
Loaded(file) == {i \in DOMAIN SegmentsOf(file) : SegmentsOf(file)[i].type = LOAD}

\* locate_shstrtab, validate_section_header: no error is reported.
WellFormed(file) ==
  LET sections == SectionsOf(file)  strtab == file[1].content.shstrtab + 1 IN
  /\ strtab \in DOMAIN sections
  /\ \A i \in DOMAIN sections :
       /\ sections[i].name < sections[strtab].size
       /\ sections[i].link < Len(sections)
       /\ sections[i].type = DYNSYM =>
            sections[i].link # 0 /\ sections[sections[i].link + 1].type = STRTAB

\* The content of the first section of a type, and of the one it is linked to.
Located(file, type) == SelectInSeq(SectionsOf(file), LAMBDA s : s.type = type)
ContentOf(file, i) ==
  IF i = 0 THEN <<>> ELSE LET s == SectionsOf(file)[i] IN Blob(file, s.offset, s.size)

SymbolsOf(file) == ContentOf(file, Located(file, DYNSYM))
StringsOf(file) ==
  LET i == Located(file, DYNSYM)
  IN  IF i = 0 THEN <<>> ELSE ContentOf(file, SectionsOf(file)[i].link + 1)

\* deserialise_dynsym and deserialise_reltable.
ReadSymbols(file) ==
  LET syms == SymbolsOf(file)
      defined == {i \in DOMAIN syms : syms[i].section # 0}
  IN  {<<ReadString(StringsOf(file), syms[i].name), syms[i].value>> : i \in defined}

ReadReferences(file) ==
  LET rels == ContentOf(file, Located(file, REL))  syms == SymbolsOf(file)
  IN  [k \in DOMAIN rels |->
         [type    |-> ReadType(rels[k].type),
          value   |-> ReadString(StringsOf(file), syms[rels[k].sym + 1].name),
          address |-> rels[k].addr,
          relbase |-> syms[rels[k].sym + 1].value]]
=============================================================================
