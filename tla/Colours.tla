------------------------------ MODULE Colours ------------------------------
(***************************************************************************)
(* What the two display devices share (rrvm/src/device/vga.c and m3p.c):   *)
(* words of bytes, colours, and a palette of as many colours as half a     *)
(* byte can name.                                                          *)
(***************************************************************************)
EXTENDS Integers

CONSTANTS
  Shades,        \* values of half a byte: 16
  WordSize,      \* bytes of a word and of a colour: 4
  WindowWords    \* words of the compatible frame buffer, 0x1a80 to 0x4000

ASSUME ColoursAssumption ==
  /\ Shades \in Nat \ {0, 1}
  /\ WordSize \in Nat \ {0, 1}
  /\ WindowWords \in Nat \ {0}

Last    == WordSize - 1
Offsets == 0..Last
ByteMax == Shades * Shades - 1
Byte    == 0..ByteMax
Entries == 0..(Shades - 1)

\* A word as the program stores it, its first byte the highest; and a colour as
\* the host stores it, its last byte alpha.
Bytes  == [Offsets -> Byte]
Colour == Bytes

Reversed(bytes) == [k \in Offsets |-> bytes[Last - k]]

\* The half of a byte that is the left pixel (0), and the right one (1).
Nibble(byte, side) == IF side = 0 THEN byte \div Shades ELSE byte % Shades

\* vga_palette_4bpp and m3p_palette_4bpp: opaque greys.
DefaultPalette ==
  [i \in Entries |-> [k \in Offsets |-> IF k = Last THEN ByteMax ELSE i * (Shades + 1)]]

Cleared == [k \in Offsets |-> 0]
=============================================================================
