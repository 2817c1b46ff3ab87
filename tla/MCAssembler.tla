---------------------------- MODULE MCAssembler ----------------------------
(***************************************************************************)
(* All sources of up to three lines over labels, a constant, references of *)
(* every kind before and after, data that leaves the word boundary, and    *)
(* some longer ones: with every kind of symbol between its uses, and with  *)
(* numbers at the limits of every field, of an address and of a header.    *)
(*                                                                         *)
(* Bytes have eight values here: fields of one, two, four and eight bytes  *)
(* hold what is below 8, 64, 4096 and 16777216.                            *)
(***************************************************************************)
EXTENDS Assembler

Op(op, n)      == [op |-> op, name |-> n]
Equ(n, v)      == [op |-> "equ", name |-> n, value |-> v]
OrgAt(v)       == [op |-> "org", name |-> "", value |-> v]
DataOf(n, sz)  == [op |-> "data", name |-> n, size |-> sz]
Sized(op, sz)  == [op |-> op, name |-> "", size |-> sz]

Alphabet ==
  { Op("label", "a"), Op("label", "b"), Equ("a", 12), Equ("k", 7),
    Op("extern", "b"), Sized("bytes", 4), Sized("bytes", 3), Sized("align", 4),
    Op("abs", "a"), Op("rel", "a"), Op("rel", "b"), Op("mov", "b"), Op("mov", "k"),
    DataOf("a", 1), DataOf("b", 2), DataOf("b", 4), Op("abs", "k") }

Short == UNION {[1..n -> Alphabet] : n \in 1..3}

\* A branch over n words, forward and backward.
Over(n) == { << Op("rel", "a"), Sized("bytes", 4 * (n - 1)), Op("label", "a") >>,
             << Op("label", "a"), Sized("bytes", 4 * n), Op("rel", "a") >> }

Long ==
  { << OrgAt(o), Equ("k", 9), Op("label", "a"), Op("rel", "b"), Op("mov", "a"),
       Op("abs", "k"), Op("label", "b"), Op("rel", "a"), DataOf("b", 2),
       Sized("align", 4), DataOf("a", 4) >> : o \in {5, 58, 100} }
  \cup { << Op("rel", "b"), Op("extern", "b"), Op("mov", "k"), Op("abs", "b"),
            Equ("k", 65), Op("label", "a"), DataOf("a", 4) >> }
  \cup { << Op("rel", "b"), Op("label", "a"), OrgAt(20), Op("abs", "a"), Op("label", "b"),
            Op("rel", "a"), Sized("bytes", 4), OrgAt(40), DataOf("b", 2), Op("rel", "b") >> }
  \cup UNION {Over(n) : n \in {31, 32, 33}}

Asm(lines, base, pie, format) ==
  [lines |-> lines, base |-> base, pie |-> pie, export_all |-> FALSE, format |-> format,
   entry |-> "a", pad |-> 0, compressor |-> "none"]

\* Sources with labels, and references before and after them, in every format,
\* padded to less and to more than they are long, and all their labels exported.
Object1 ==
  << Op("rel", "b"), Op("extern", "a"), Op("label", "a"), Op("mov", "b"), Op("extern", "b"),
     Op("abs", "b"), Op("label", "k"), Op("mov", "a"), DataOf("b", 8) >>
Object2 ==
  << Op("extern", "a"), Op("extern", "b"), Op("abs", "b"), Op("abs", "a"), Op("rel", "a"),
     Op("rel", "b"), DataOf("a", 2), DataOf("b", 1), Sized("bytes", 1) >>
Program ==
  << Equ("k", 3), Op("mov", "b"), Op("label", "a"), Op("rel", "a"), Op("label", "b"),
     Sized("bytes", 2) >>

Formatted ==
  {[Asm(s, base, FALSE, format) EXCEPT !.pad = pad, !.export_all = all] :
     s \in {Object1, Object2, Program}, base \in {0, 20}, pad \in {0, 16, 18, 64},
     format \in FormatNames \cup {"hex"}, all \in BOOLEAN}

Compressed ==
  {[Asm(Program, 0, FALSE, format) EXCEPT !.entry = "_start", !.compressor = c] :
     format \in FormatNames \cup {"hex"}, c \in CompressorNames \cup {"gzip", "zip"}}

\* Entered at a constant.
Entered ==
  {[Asm(Program, base, FALSE, "elf") EXCEPT !.entry = "k", !.pad = 24] : base \in 0..5}

Limits == {7, 8, 63, 64, 4095, 4096, 262144, 16777215, 16777216}

\* A constant, and a label at such an address, in each kind of field, before and after.
Fields(n) == {Op("abs", n), Op("rel", n), Op("mov", n)} \cup {DataOf(n, sz) : sz \in {1, 2, 4, 8}}
AtLimits ==
  {<< f, Equ("k", v) >> : f \in Fields("k"), v \in Limits}
    \cup UNION {{<< OrgAt(o), f, Sized("bytes", 4 * w), Op("label", "a") >>,
                <<  OrgAt(o), Op("label", "a"), Sized("bytes", 4 * w), f >>} :
                  o \in {6, 62, 4094, 4095, 4096}, w \in {1, 31, 32}, f \in Fields("a")}

\* Addresses as the header of each format has them: in bytes, after the assembly and
\* the tables, with the sign of a displacement's base.
Headers ==
  {[Asm(s, base, pie, format) EXCEPT !.export_all = all, !.entry = entry] :
     s \in {Program, << Op("extern", "b"), Op("rel", "b") >>,
            << Equ("k", 4096), Op("label", "a"), DataOf("a", 4) >>},
     base \in {0, 509, 510, 511, 512, 900, 920, 960, 979, 980, 981, 990, 1000, 1023, 1024},
     format \in {"vmd", "roadrun", "elf"}, pie \in BOOLEAN, all \in BOOLEAN,
     entry \in {"b", "k", "_start"}}

MCInputs ==
  {Asm(s, 0, FALSE, "bin") : s \in Short \cup Long \cup AtLimits}
    \cup {Asm(s, 20, FALSE, "elf") : s \in Short \cup Long \cup {Object1, Object2}}
    \cup {Asm(s, 63, TRUE, "elf") : s \in Short \cup Long \cup AtLimits \cup {Object1, Object2}}
    \cup Formatted \cup Compressed \cup Entered \cup Headers

\* The name a is the beginning of the name b.
MCSpelling == [n \in {"a", "b", "k"} |->
                 CASE n = "a" -> <<1>> [] n = "b" -> <<1, 2>> [] n = "k" -> <<3>>]
=============================================================================
