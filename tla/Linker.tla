------------------------------- MODULE Linker -------------------------------
(***************************************************************************)
(* The linker rrld on the objects the assembler's ELF writer emits: every  *)
(* file is loaded, the assemblies are relocated one after the other (-r),  *)
(* checked for overlaps, every unresolved reference is patched, and the    *)
(* image gets the header of its format.  An action is one turn of one of   *)
(* rrld's loops.                                                           *)
(*                                                                         *)
(* An object is given by its source (Objects).  Addresses are in bytes     *)
(* inside the linker, as in the code, and in words in the sources and in   *)
(* the instructions.                                                       *)
(***************************************************************************)
EXTENDS Objects

CONSTANT Inputs     \* what rrld may be called with

ASSUME InputsAssumption ==
  \A in \in Inputs :
    /\ in.relocate \in BOOLEAN
    /\ in.start \in Nat
    /\ Len(in.sources) \in Nat \ {0}
    /\ DOMAIN in.sources = 1..Len(in.sources)
    /\ \A f \in DOMAIN in.sources : IsSource(in.sources[f])

VARIABLES
  input,        \* the command line and the objects
  phase,        \* the part of process_files rrld is in
  next,         \* the loop's index in that part
  assemblies,   \* each object's segment: where it goes, how long it is
  symbols,      \* byte address of every symbol defined so far
  owner,        \* the assembly whose "symbols" list holds a symbol
  unresolved,   \* references to patch, in the order they were read
  entrypoint,   \* as read from the objects, in words, 0 for none
  base,         \* new_vmembase: where the next assembly is relocated to
  patches,      \* what was written: assembly, byte offset in it, value
  header        \* what the header of the image says, if it has one

vars == <<input, phase, next, assemblies, symbols, owner, unresolved,
          entrypoint, base, patches, header>>

Sources == input.sources
Files   == 1..Len(Sources)
Final   == {"done", "failed", "crashed"}

-----------------------------------------------------------------------------
Init ==
  /\ input \in Inputs
  /\ phase = "load" /\ next = 1
  /\ assemblies = <<>> /\ unresolved = <<>> /\ patches = <<>>
  /\ symbols = [n \in {} |-> 0] /\ owner = [n \in {} |-> 0]
  /\ entrypoint = 0 /\ base = 0
  /\ header = [vmembase |-> 0, entry |-> 0]

Stop(how) ==
  /\ phase' = how
  /\ UNCHANGED <<input, next, assemblies, symbols, owner, unresolved,
                 entrypoint, base, patches, header>>

-----------------------------------------------------------------------------
\* process_file: a second entry point or a second definition is an error.
Clashes(src) ==
  \/ EntryOf(src) # 0 /\ entrypoint # 0
  \/ DOMAIN Defined(src) \cap DOMAIN symbols # {}

\* Functions f and g as one, g first.
Merged(f, g) == [n \in DOMAIN f \cup DOMAIN g |->
                   IF n \in DOMAIN g THEN g[n] ELSE f[n]]

Listed(src)     == [n \in DOMAIN Defined(src) |-> next]

LoadFile ==
  /\ phase = "load" /\ next \in Files
  /\ ~Clashes(Sources[next])
  /\ LET src == Sources[next]
     IN /\ assemblies' = Append(assemblies, Segment(src))
        /\ symbols' = Merged(symbols, Defined(src))
        /\ owner' = Merged(owner, Listed(src))
        /\ unresolved' = unresolved \o References(src, next)
        /\ entrypoint' = IF EntryOf(src) # 0 THEN EntryOf(src) ELSE entrypoint
  /\ next' = next + 1
  /\ UNCHANGED <<input, phase, base, patches, header>>

RejectFile ==
  /\ phase = "load" /\ next \in Files
  /\ Clashes(Sources[next])
  /\ Stop("failed")

\* Mutant of ReasonableBase: -b is ignored.
LowestBase ==
  {b \in {assemblies[f].address : f \in Files} :
     \A f \in Files : b =< assemblies[f].address}

\* find_reasonable_vmembase: -b if it was given, or the lowest address.
ReasonableBase ==
  IF input.start # 0 THEN {4 * input.start}
  ELSE {b \in {assemblies[f].address : f \in Files} :
          \A f \in Files : b =< assemblies[f].address}

FilesLoaded ==
  /\ phase = "load" /\ next \notin Files
  /\ phase' = IF input.relocate THEN "relocate" ELSE "validate"
  /\ next' = 1
  /\ base' \in IF input.relocate THEN ReasonableBase ELSE {base}
  /\ UNCHANGED <<input, assemblies, symbols, owner, unresolved, entrypoint,
                 patches, header>>

\* relocate_assembly moves an assembly, its symbols and its references by off.
SymbolsLeftBehind(off) == symbols                              \* mutant
MovedSymbols(off) ==
  [n \in DOMAIN symbols |-> IF owner[n] = next THEN symbols[n] + off ELSE symbols[n]]

RelbasesLeftBehind(off) ==                                     \* mutant
  [i \in DOMAIN unresolved |->
     IF unresolved[i].asmid = next THEN [unresolved[i] EXCEPT !.address = @ + off]
                                   ELSE unresolved[i]]
MovedReferences(off) ==
  [i \in DOMAIN unresolved |->
     IF unresolved[i].asmid = next
     THEN [unresolved[i] EXCEPT !.address = @ + off, !.relbase = @ + off]
     ELSE unresolved[i]]

RelocateAssembly ==
  /\ phase = "relocate" /\ next \in Files
  /\ assemblies[next].address = 0
  /\ assemblies' = [assemblies EXCEPT ![next].address = base]
  /\ symbols' = MovedSymbols(base - assemblies[next].address)
  /\ unresolved' = MovedReferences(base - assemblies[next].address)
  /\ base' = base + assemblies[next].size
  /\ next' = next + 1
  /\ UNCHANGED <<input, phase, owner, entrypoint, patches, header>>

\* The branch for an assembly with an address of its own calls
\* relocate_assemblies with an argument it does not take.
RelocateFixed ==
  /\ phase = "relocate" /\ next \in Files
  /\ assemblies[next].address # 0
  /\ Stop("crashed")

Relocated ==
  /\ phase = "relocate" /\ next \notin Files
  /\ phase' = "validate" /\ next' = 1
  /\ UNCHANGED <<input, assemblies, symbols, owner, unresolved, entrypoint,
                 base, patches, header>>

\* Mutant of Compared: only the assembly just before is compared.
ComparedToLast(current) == {f \in 1..(current - 1) : f = current - 1}

\* overlaps_assembly stops counting at the assembly it is called for, and so
\* skips that one and all that follow it.
Compared(current) == 1..(current - 1)

Overlap(a, b) ==
  /\ a.address < b.address + b.size
  /\ a.address + a.size > b.address

OverlapsAssembly(current) ==
  \E f \in Compared(current) : Overlap(assemblies[f], assemblies[current])

ValidateAssembly ==
  /\ phase = "validate" /\ next \in Files
  /\ ~OverlapsAssembly(next)
  /\ next' = next + 1
  /\ UNCHANGED <<input, phase, assemblies, symbols, owner, unresolved,
                 entrypoint, base, patches, header>>

RejectOverlap ==
  /\ phase = "validate" /\ next \in Files
  /\ OverlapsAssembly(next)
  /\ Stop("failed")

Validated ==
  /\ phase = "validate" /\ next \notin Files
  /\ phase' = "link" /\ next' = 1
  /\ UNCHANGED <<input, assemblies, symbols, owner, unresolved, entrypoint,
                 base, patches, header>>

-----------------------------------------------------------------------------
\* Mutant of Holds: the end is excluded.
HoldsInside(f, address) ==
  /\ assemblies[f].address =< address
  /\ address < assemblies[f].address + assemblies[f].size

\* lookup_assembly: the first whose bounds, both included, hold the address.
Holds(f, address) ==
  /\ assemblies[f].address =< address
  /\ address =< assemblies[f].address + assemblies[f].size

LooksUp(f, address) ==
  /\ f \in Files
  /\ Holds(f, address)
  /\ \A g \in 1..(f - 1) : ~Holds(g, address)

\* The value link_symbols writes for a reference.
Encoded(ref) ==
  LET word == symbols[ref.value] \div 4
  IN CASE ref.type = "rel16"   -> word - ref.relbase \div 4
       [] ref.type = "abs16_l" -> word % 65536
       [] ref.type = "abs16_h" -> (word \div 65536) % 65536
       [] ref.type = "abs32_l" -> word

\* int_bound_check(symval, 15, 1), applied to the byte address.
TooFar(ref) == ref.type # "rel16" /\ symbols[ref.value] > 32767

\* struct.pack(">h", ...) raises struct.error outside these.
Shorts == -32768..32767

Unpackable(ref) == ref.type = "rel16" /\ Encoded(ref) \notin Shorts

Linking(ref) == phase = "link" /\ next \in DOMAIN unresolved /\ ref = unresolved[next]

LinkSymbol ==
  \E ref \in {unresolved[i] : i \in DOMAIN unresolved} :
    /\ Linking(ref)
    /\ ref.value \in DOMAIN symbols
    /\ ~TooFar(ref) /\ ~Unpackable(ref)
    /\ \E f \in Files :
         /\ LooksUp(f, ref.address + FieldSize(ref.type))
         /\ patches' = Append(patches,
                              [asmid  |-> f,
                               offset |-> ref.address - assemblies[f].address,
                               size   |-> FieldSize(ref.type),
                               value  |-> Encoded(ref)])
    /\ next' = next + 1
    /\ UNCHANGED <<input, phase, assemblies, symbols, owner, unresolved,
                   entrypoint, base, header>>

\* A symbol nobody defines, a field in no assembly, an absolute address too big.
RejectSymbol ==
  \E ref \in {unresolved[i] : i \in DOMAIN unresolved} :
    /\ Linking(ref)
    /\ \/ ref.value \notin DOMAIN symbols
       \/ \A f \in Files : ~Holds(f, ref.address + FieldSize(ref.type))
       \/ ref.value \in DOMAIN symbols /\ TooFar(ref)
    /\ Stop("failed")

CrashOnSymbol ==
  \E ref \in {unresolved[i] : i \in DOMAIN unresolved} :
    /\ Linking(ref)
    /\ ref.value \in DOMAIN symbols
    /\ \E f \in Files : LooksUp(f, ref.address + FieldSize(ref.type))
    /\ Unpackable(ref)
    /\ Stop("crashed")

FormatNames     == {"bin", "fpgasynth", "mi", "roadrun", "vmd"}
CompressorNames == {"none", "xz", "gz"}

Linked    == phase = "link" /\ next \notin DOMAIN unresolved
CanOutput == input.format \in FormatNames /\ input.compressor \in CompressorNames

\* The header of the format, for an image that starts at a byte address.
HeaderFor(address) ==
  CASE input.format = "roadrun" -> [vmembase |-> 4 * address, entry |-> 4 * entrypoint]
    [] input.format = "vmd"     -> [vmembase |-> address, entry |-> 0]
    [] OTHER                    -> [vmembase |-> 0, entry |-> 0]

\* The image starts at the lowest assembly.
WriteImage ==
  /\ Linked /\ CanOutput
  /\ \E f \in Files :
       /\ \A g \in Files : assemblies[f].address =< assemblies[g].address
       /\ header' = HeaderFor(assemblies[f].address)
  /\ phase' = "done"
  /\ UNCHANGED <<input, next, assemblies, symbols, owner, unresolved,
                 entrypoint, base, patches>>

\* "elf", which is the default, is not among the formats, and a compressor's
\* alias is not among the compressors.
RejectOutput == Linked /\ ~CanOutput /\ Stop("failed")

Next ==
  \/ LoadFile \/ RejectFile \/ FilesLoaded
  \/ RelocateAssembly \/ RelocateFixed \/ Relocated
  \/ ValidateAssembly \/ RejectOverlap \/ Validated
  \/ LinkSymbol \/ RejectSymbol \/ CrashOnSymbol \/ WriteImage \/ RejectOutput

Spec == Init /\ [][Next]_vars

-----------------------------------------------------------------------------
\* No image is ever linked from assemblies that overlap, although each is
\* compared with the ones before it only (rrld:242-256, 273-279).
DisjointWhenLinked ==
  phase \in {"link", "done"} =>
    \A f, g \in Files : f # g => ~Overlap(assemblies[f], assemblies[g])

\* Symbols move with the assembly that defines them, and with no other: at any
\* point of the relocation a label is where its object's code is.
SymbolsFollow ==
  \A n \in DOMAIN symbols :
    LET f == owner[n]
    IN /\ n \in DOMAIN Sources[f].labels
       /\ symbols[n] = assemblies[f].address + 4 * Sources[f].labels[n]

\* Where the linked image has the label n, as a word address.
Target(n) ==
  LET f == CHOOSE f \in Files : n \in DOMAIN Sources[f].labels
  IN assemblies[f].address \div 4 + Sources[f].labels[n]

\* What the CPU needs in the field of reference r of object f: a displacement
\* from its instruction, or the label's address, or a half of it.
Denotes(value, r, f) ==
  CASE r.kind = "rel16" ->
         value + assemblies[f].address \div 4 + r.at \div 4 = Target(r.name)
    [] r.kind = "abs16_l" -> value = Target(r.name) % 65536
    [] r.kind = "abs16_h" -> value = Target(r.name) \div 65536
    [] r.kind = "abs32_l" -> value = Target(r.name)

\* Object g is listed before f and begins where f ends.
Abuts(g, f) ==
  g < f /\ assemblies[g].address = assemblies[f].address + assemblies[f].size

\* Reference k of object f names one label and the linker reads another name.
Misread(f, k) == NameIn(Sources[f], k) # Sources[f].refs[k].name

Patched(f, k) ==
  LET r == Sources[f].refs[k]
  IN \E p \in DOMAIN patches :
       /\ patches[p].asmid = f /\ patches[p].offset = r.at
       /\ patches[p].size = FieldSize(r.kind)
       /\ Denotes(patches[p].value, r, f)

\* rrvm loads the bytes of a vmd at the byte address in its header: those of
\* object f at f's place, since they are that far into the image.
VmdLoads(f) ==
  /\ header.vmembase = assemblies[f].address
  /\ \A g \in Files : assemblies[g].address >= header.vmembase

\* Every reference of every object ends up in its own field with the value that
\* leads the CPU to the label it names, wherever its object and the label's
\* were moved, nothing else is written, and the image is loaded at the place it
\* was linked for if it is a vmd.  (lookup_assembly needs the objects
\* not to be listed against the order of their addresses; a name that is part of
\* another may be misread, rrasm.py:432.)
LinkedCorrectly ==
  phase = "done" /\ (\A f, g \in Files : ~Abuts(g, f)) =>
    /\ \A f \in Files : \A k \in DOMAIN Sources[f].refs :
          Misread(f, k) \/ Patched(f, k)
    /\ \A p \in DOMAIN patches :
         \E k \in DOMAIN Sources[patches[p].asmid].refs :
            Sources[patches[p].asmid].refs[k].at = patches[p].offset
    /\ input.format = "vmd" => \E f \in Files : VmdLoads(f)

\* A relocated image starts at the base that was asked for and is contiguous,
\* in the order of the files.
RelocatedContiguous ==
  phase = "done" /\ input.relocate =>
    /\ assemblies[1].address = 4 * input.start
    /\ \A f \in Files \ {1} :
         assemblies[f].address = assemblies[f - 1].address + assemblies[f - 1].size

\* The reasons for which the code reports an error, in terms of the sources.
TwoEntries(a, b)     == EntryOf(a) # 0 /\ EntryOf(b) # 0
TwoDefinitions(a, b) == DOMAIN a.labels \cap DOMAIN b.labels # {}
Undefined(r) == \A f \in Files : r.name \notin DOMAIN Sources[f].labels
OutOfReach(r, f) ==
  IF r.kind = "rel16"
  THEN Target(r.name) - assemblies[f].address \div 4 - r.at \div 4 \notin Shorts
  ELSE Target(r.name) > 8191

Reasons ==
  \/ \E f, g \in Files : /\ f < g
                         /\ \/ TwoEntries(Sources[f], Sources[g])
                            \/ TwoDefinitions(Sources[f], Sources[g])
                            \/ /\ ~input.relocate
                               /\ Overlap(Segment(Sources[f]), Segment(Sources[g]))
  \/ input.relocate /\ \E f \in Files : Sources[f].org # 0
  \/ \E f \in Files : \E k \in DOMAIN Sources[f].refs :
        \/ Undefined(Sources[f].refs[k]) \/ OutOfReach(Sources[f].refs[k], f)
        \/ Misread(f, k)
  \/ input.format \notin FormatNames
  \/ input.compressor \notin CompressorNames

\* What can be linked is linked: rrld gives up only over a clash of symbols or
\* entry points, an overlap, a fixed address it is asked to relocate, a symbol
\* nobody defines, a misread name, a label out of the reach of a reference to it
\* (for an absolute one, any word address above 8191), or an output it does not
\* have.
LinksWhatItCan == phase \in {"failed", "crashed"} => Reasons

-----------------------------------------------------------------------------
LoadsWhereLinked ==
  \E f \in Files : assemblies[f].address \div 4 = header.vmembase \div 4

EntersAtEntryPoint ==
  \A f \in Files :
    EntryOf(Sources[f]) # 0 =>
      header.entry \div 4 = assemblies[f].address \div 4 + Sources[f].entry

\* The BIOS copies the image to the header's vmembase, and jumps to its
\* entry_point, both shifted right by two (bios.asm:334-342).  Of what it reads
\* there at least one address is the image's; where neither is, both are wrong.
HeaderIsRight ==
  phase = "done" /\ input.format = "roadrun" => LoadsWhereLinked \/ EntersAtEntryPoint
=============================================================================
