------------------------------ MODULE Objects ------------------------------
(***************************************************************************)
(* An object file as the linker sees it: what the assembler's ELF file     *)
(* (rrasm.py, elf_format_transformer) says of a source once rrld has read  *)
(* it.  A source is given by the word address it was assembled for, its    *)
(* length, its exported labels and its unresolved references.              *)
(***************************************************************************)
EXTENDS Integers, Sequences

CONSTANTS Names,     \* symbol names
          ReadAs     \* the name read where name n first occurs in name m

Kinds == {"abs16_l", "abs16_h", "abs32_l", "rel16"}

FieldSize(kind) == IF kind = "abs32_l" THEN 4 ELSE 2

\* A label is a word offset in its object, a reference the byte offset of the
\* field to patch; order lists the labels as they were defined, entry is the
\* entry label's word offset, or -1 if there is none.
IsSource(src) ==
  /\ src.org \in Nat /\ src.words \in Nat \ {0}
  /\ src.order \in Seq(Names)
  /\ DOMAIN src.labels = {src.order[i] : i \in DOMAIN src.order}
  /\ \A n \in DOMAIN src.labels : src.labels[n] \in 0..src.words
  /\ src.refs \in Seq([kind : Kinds, name : Names, at : Nat])
  /\ \A k \in DOMAIN src.refs :
        src.refs[k].at + FieldSize(src.refs[k].kind) =< 4 * src.words
  /\ src.entry \in -1..src.words

\* ReadAs[<<n, m>>] is defined when n is a part of m: m from there to its end.
ASSUME ReadAsAssumption ==
  /\ DOMAIN ReadAs \subseteq Names \X Names
  /\ \A n \in Names : <<n, n>> \in DOMAIN ReadAs /\ ReadAs[<<n, n>>] = n
  /\ \A nm \in DOMAIN ReadAs : ReadAs[nm] \in Names

-----------------------------------------------------------------------------
\* What the assembler's ELF file says of a source: segment, symbols, entry.
Segment(src)  == [address |-> 4 * src.org, size |-> 4 * src.words]
Defined(src)  == [n \in DOMAIN src.labels |-> 4 * (src.org + src.labels[n])]
EntryOf(src)  == IF src.entry = -1 THEN 0 ELSE src.org + src.entry

\* The name that the entry of reference k points to.  The first reference to a
\* name stores it; a later one takes the first place where dynstr has those
\* characters, be it inside a longer name, and the linker reads on to the
\* terminator.  dynstr holds the labels in their order, then the references'.
Contains(m, n) == <<n, m>> \in DOMAIN ReadAs

NameIn(src, k) ==
  LET n     == src.refs[k].name
      known == \E j \in 1..(k - 1) : src.refs[j].name = n
      names == src.order \o [j \in DOMAIN src.refs |-> src.refs[j].name]
      first == CHOOSE i \in DOMAIN names :
                 /\ Contains(names[i], n)
                 /\ \A j \in 1..(i - 1) : ~Contains(names[j], n)
  IN IF known THEN ReadAs[<<n, names[first]>>] ELSE n

\* A relocation entry, and in its symbol's value the address a relative
\* reference is relative to: that of the instruction it is in.
Reference(src, k, asmid) ==
  LET r == src.refs[k]
  IN [type    |-> r.kind,
      value   |-> NameIn(src, k),
      address |-> 4 * src.org + r.at,
      relbase |-> IF r.kind = "rel16" THEN 4 * (src.org + r.at \div 4) ELSE 0,
      asmid   |-> asmid]

References(src, asmid) == [k \in DOMAIN src.refs |-> Reference(src, k, asmid)]
=============================================================================
