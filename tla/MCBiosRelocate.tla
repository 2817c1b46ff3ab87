--------------------------- MODULE MCBiosRelocate ---------------------------
(* Images of five to twelve words linked for every address that fits, raw     *)
(* binaries, one of which begins with half of the magic.  Every word differs *)
(* from every other, in the image, in its header and beyond it.              *)
EXTENDS BiosRelocate

MCStackTop == 16

Image(first, second, dst, size) ==
  [mem  |-> [a \in Addr |-> CASE a = 0 -> first [] a = 1 -> second
                              [] a = 2 -> 4 * dst [] a = 3 -> 4 * (dst + 1)
                              [] OTHER -> 100 + a],
   size |-> size]

MCLoaded ==
  {Image(Magic[1], Magic[2], dst, size) :
     <<dst, size>> \in {p \in (0..13) \X {5, 6, 8, 12} : p[1] + p[2] - 4 =< 14}}
    \cup {Image(first, 7, dst, size) :
            first \in {Magic[1], 8}, dst \in {0, 5}, size \in {1, 6, 14}}

MCHandlers == [k \in Kinds |-> IF k = "bin" THEN 201 ELSE 202]
=============================================================================
