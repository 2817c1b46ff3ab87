------------------------------ MODULE Formats ------------------------------
(***************************************************************************)
(* The output formats of rrasm, and what the programs that take its output *)
(* find in it: rrvm in a vmd, the BIOS in a roadrun image, rrdis in either *)
(* or in a bin.  A file is a sequence of parts, as in Elf; the magic of a  *)
(* part is the one its first bytes are, if any.                            *)
(***************************************************************************)
EXTENDS Elf

FormatNames       == {"bin", "fpgasynth", "roadrun", "mi", "vmd", "elf"}
CompressorNames   == {"none", "xz", "gz"}
CompressorAliases == {"lzma", "xzip", "xlib", "zlib", "gzip", "glib"}

\* An assembly: its size, its text, and what the writers need beside it.
Body(asm)  == Part(asm.size, asm.text)
Magic(m)   == [magic |-> m]

\* Mutant of VmdFile: the header has the word address.
VmdFileInWords(asm) == << Part(4, Magic("VmD")), Part(4, asm.base), Body(asm) >>

VmdFile(asm) == << Part(4, Magic("VmD")), Part(4, 4 * asm.base), Body(asm) >>

RoadrunFile(asm) ==
  << Part(8, Magic("ROADRUN")), Part(4, 4 * asm.base), Part(4, 4 * asm.entry), Body(asm) >>

\* A word is a line of eight digits, the last word filled up with zero bytes.
WordCount(asm)     == (asm.size + 3) \div 4
FpgasynthFile(asm) == << Part(9 * WordCount(asm), [magic |-> "", digits |-> asm.text]) >>

Digits(n)   == Min({d \in 1..9 : n < 10 ^ d})
MiFile(asm) ==
  << Part(17, Magic("")), Part(16 + Digits(WordCount(asm)), WordCount(asm)), Part(15, 32) >>
    \o FpgasynthFile(asm)

FileOf(format, asm) ==
  CASE format = "bin"       -> << Body(asm) >>
    [] format = "fpgasynth" -> FpgasynthFile(asm)
    [] format = "roadrun"   -> RoadrunFile(asm)
    [] format = "mi"        -> MiFile(asm)
    [] format = "vmd"       -> VmdFile(asm)
    [] format = "elf"       ->
         ElfFile(asm.base, asm.entry, asm.labels, asm.kept, asm.size, asm.text)

\* The header of the format holds what is written into it.
Packs(format, base, entry, labels, kept, size) ==
  /\ format \in {"vmd", "roadrun"} => Fits(4 * base, 4)
  /\ format = "roadrun"           => Fits(4 * entry, 4)
  /\ format = "elf"               => ElfPacks(base, entry, labels, kept, size)

-----------------------------------------------------------------------------
(* The readers *)

\* What follows the first n bytes.
Rest(file, n) ==
  LET size[i \in 0..Len(file)] == IF i = 0 THEN 0 ELSE size[i - 1] + file[i].size
  IN  Blob(file, n, size[Len(file)] - n)

\* system_load_vmd: the bytes after the header go to the address in it, a word
\* at a time, the last one as far as it goes.
VmdLoads(file) == [address |-> Blob(file, 4, 4), text |-> Rest(file, 8)]

\* The header the BIOS finds in a roadrun image (BiosRelocate goes on from here).
RoadrunHolds(file) ==
  [address |-> Blob(file, 8, 4), entry |-> Blob(file, 12, 4), text |-> Rest(file, 16)]

\* rrdis: the format by the first bytes, and what is disassembled of it.
DetectFormat(file) ==
  CASE file[1].content.magic = "ROADRUN" -> "roadrun"
    [] file[1].content.magic = "VmD"     -> "vmd"
    [] OTHER                             -> "bin"

Disassembled(file) ==
  CASE DetectFormat(file) = "roadrun" -> Rest(file, 16)
    [] DetectFormat(file) = "vmd"     -> Rest(file, 8)
    [] OTHER                          -> Rest(file, 0)
=============================================================================
