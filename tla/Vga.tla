-------------------------------- MODULE Vga --------------------------------
(***************************************************************************)
(* The VGA controller of the virtual machine (rrvm/src/device/vga.c) as    *)
(* the program on the memory bus sees it: a palette, and a frame buffer of *)
(* two pixels a byte.  The bus hands over a word byte by byte; the bytes   *)
(* of a word do not depend on each other here, so it is stored at once.    *)
(***************************************************************************)
EXTENDS Colours

VARIABLES
  palette,   \* colours by number
  fb         \* the colour of each pixel

vars == <<palette, fb>>

Pixels == 0..(2 * WindowWords * WordSize - 1)

Init ==
  /\ palette = DefaultPalette
  /\ fb = [p \in Pixels |-> Cleared]

\* A word for the palette.  Its first byte, alpha, is dropped.
WritePalette(entry, bytes) ==
  /\ palette' = [palette EXCEPT ![entry] =
                   [k \in Offsets |-> IF k = Last THEN palette[entry][k] ELSE bytes[Last - k]]]
  /\ UNCHANGED fb

\* A word for the frame buffer: its pixels take the colours of this moment.
WriteScreen(word, bytes) ==
  /\ fb' = [p \in Pixels |->
              IF p \div (2 * WordSize) = word
              THEN palette[Nibble(bytes[(p \div 2) % WordSize], p % 2)] ELSE fb[p]]
  /\ UNCHANGED palette

\* vga_palette_lookup_colour: the first number of a colour, 0 if it has none.
Lookup(colour) ==
  LET named == {i \in Entries : palette[i] = colour}
  IN  IF named = {} THEN 0 ELSE CHOOSE i \in named : \A j \in named : i <= j

ReadPalette(entry) == Reversed(palette[entry])

ReadScreen(word) ==
  [k \in Offsets |-> LET p == 2 * (word * WordSize + k)
                     IN  Lookup(fb[p]) * Shades + Lookup(fb[p + 1])]
=============================================================================
