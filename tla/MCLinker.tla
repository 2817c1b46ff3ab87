------------------------------ MODULE MCLinker ------------------------------
(***************************************************************************)
(* Objects for the linker: a program, a library it refers to and that      *)
(* refers back to it, and a table of addresses, in every order and at      *)
(* addresses that make them overlap, abut or lie apart; with one of the    *)
(* mistakes rrld reports; and relocated to several bases.                  *)
(***************************************************************************)
EXTENDS Linker, TLC

Ref(kind, name, at) == [kind |-> kind, name |-> name, at |-> at]

\* call f; jrel g: two relative references, the second at the tail.
Main(org) ==
  [org |-> org, words |-> 2, entry |-> 1, order |-> <<"start">>, labels |-> [start |-> 0],
   refs |-> << Ref("rel16", "f", 2), Ref("rel16", "g", 6) >>]

\* A library of two functions, with a jump back and a 32-bit mov.
Lib(org) ==
  [org |-> org, words |-> 3, entry |-> -1, order |-> <<"f", "g">>, labels |-> [f |-> 0, g |-> 2],
   refs |-> << Ref("rel16", "start", 2), Ref("abs16_h", "g", 6),
               Ref("abs16_l", "g", 10) >>]

\* dd start, as in a table of addresses.
Table(org) ==
  [org |-> org, words |-> 1, entry |-> -1, order |-> <<"t">>, labels |-> [t |-> 0],
   refs |-> << Ref("abs32_l", "start", 0) >>]

\* Mistakes: another f, another entry point, a symbol nobody defines.
Mistake(org, what) ==
  CASE what = "f"     -> [Table(org) EXCEPT !.order = <<"f">>, !.labels = [f |-> 0]]
    [] what = "entry" -> [Table(org) EXCEPT !.entry = 1]
    [] what = "undef" -> [Table(org) EXCEPT !.refs = << Ref("abs32_l", "h", 0) >>]

Orders(a, b, c) == { <<a, b, c>>, <<a, c, b>>, <<b, a, c>>,
                     <<b, c, a>>, <<c, a, b>>, <<c, b, a>> }

Call(sources, relocate, start) ==
  [sources |-> sources, relocate |-> relocate, start |-> start, format |-> "roadrun",
   compressor |-> "none"]

AtFixedAddresses ==
  { Call(s, FALSE, 0) :
      s \in UNION { Orders(Main(m), Lib(l), Table(t)) :
                      m \in {0, 3, 4}, l \in {0, 2, 6}, t \in {0, 2, 5, 9} } }

\* 8187 words is the last base at which all of it is below 32768 bytes.
ToRelocate ==
  { Call(s, TRUE, b) : s \in Orders(Main(0), Lib(0), Table(0)),
                       b \in {0, 1, 64, 8187, 8188, 20000} }

Wrong ==
  { Call(s, r, 0) :
      s \in UNION { Orders(Main(0), Lib(2 * k), Mistake(5 * k, w)) :
                      k \in {0, 1}, w \in {"f", "entry", "undef"} },
      r \in {TRUE, FALSE} }

\* A relative reference across more than 2^15 words.
FarApart ==
  { Call(<< Main(0), Lib(b) >>, FALSE, 0) : b \in {8000, 32766, 40000} }

\* The same without absolute references.
Relative(org) == [Lib(org) EXCEPT !.refs = << Ref("rel16", "start", 2) >>]
FarRelative ==
  { Call(<< Main(0), Relative(b) >>, FALSE, 0) : b \in {8000, 32766, 32767, 40000} }

\* f, called twice, is the beginning of fg, called before it.
Strings(org, label) ==
  [org |-> org, words |-> 1, entry |-> -1, order |-> <<label>>, labels |-> (label :> 0), refs |-> <<>>]

Calls(first, org) ==
  [org |-> org, words |-> 3, entry |-> -1, order |-> <<"start">>, labels |-> [start |-> 0],
   refs |-> << Ref("rel16", first, 2), Ref("rel16", "f", 6), Ref("rel16", "f", 10) >>]

PartOfAnother ==
  { Call(<< Calls(first, 0), Strings(3 * k, "f"), Strings(4 * k, "fg") >>, k = 0, b) :
      first \in {"fg", "start"}, k \in {0, 1}, b \in {0, 64} }
  \cup { Call(<< Calls("fg", 0), Strings(3, "f") >>, FALSE, 0) }

MCNames  == {"start", "tart", "f", "g", "h", "t", "fg"}
MCReadAs == [nm \in {<<n, n>> : n \in MCNames} |-> nm[1]]
              @@ (<<"f", "fg">> :> "fg") @@ (<<"g", "fg">> :> "g")
              @@ (<<"t", "start">> :> "tart") @@ (<<"t", "tart">> :> "tart")
              @@ (<<"tart", "start">> :> "tart")

\* In the other formats, in none there is, and compressed.
OtherOutputs ==
  { [c EXCEPT !.format = f, !.compressor = z] :
      c \in { Call(<< Main(8), Lib(2), Table(0) >>, FALSE, 0),
              Call(<< Main(0), Lib(0), Table(0) >>, TRUE, 64) },
      f \in {"bin", "fpgasynth", "mi", "vmd", "elf"}, z \in {"none", "xz", "gz", "gzip"} }

MCInputs == AtFixedAddresses \cup ToRelocate \cup Wrong \cup FarApart
              \cup FarRelative \cup PartOfAnother \cup OtherOutputs
=============================================================================
