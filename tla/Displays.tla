------------------------------ MODULE Displays ------------------------------
(***************************************************************************)
(* A program that drives the M3P controller, next to the VGA controller it *)
(* stands for in its compatible mode: both see the same stores, but only   *)
(* the M3P has registers (rrvm/src/device/m3p.c and vga.c; system_create   *)
(* puts the one where the other was).                                      *)
(***************************************************************************)
EXTENDS M3p

CONSTANTS
  ControlStores, SizeStores,      \* words the program stores to ctrl, op0 and op1
  PaletteStores, ScreenStores,    \* and to the palette and the frame buffer
  ScreenWords                     \* the words of vram it stores to

ASSUME StoresAssumption ==
  ControlStores \cup SizeStores \cup PaletteStores \cup ScreenStores \subseteq Bytes

VARIABLES
  vgaPalette, vgaFb,   \* the VGA controller
  switched,            \* whether the M3P has set a mode
  recoloured           \* whether the palette was written since it last did

vars == <<m3pVars, vgaPalette, vgaFb, switched, recoloured>>

V == INSTANCE Vga WITH palette <- vgaPalette, fb <- vgaFb

DisplaysInit ==
  /\ Init
  /\ V!Init
  /\ switched = FALSE
  /\ recoloured = FALSE

ProgramSetsSize ==
  /\ \E r \in {1, 2}, bytes \in SizeStores : StoreRegister(r, bytes)
  /\ UNCHANGED <<vgaPalette, vgaFb, switched, recoloured>>

ProgramControls ==
  \E bytes \in ControlStores :
    /\ StoreControl(bytes)
    /\ switched' = (switched \/ SetsMode(bytes))
    /\ recoloured' = (recoloured /\ ~SetsMode(bytes))
    /\ UNCHANGED <<vgaPalette, vgaFb>>

ProgramColours ==
  /\ \E entry \in Entries, bytes \in PaletteStores :
       StorePalette(entry, bytes) /\ V!WritePalette(entry, bytes)
  /\ recoloured' = TRUE
  /\ UNCHANGED switched

\* The VGA controller has no video memory beyond the window.
ProgramDraws ==
  /\ \E word \in ScreenWords, bytes \in ScreenStores :
       /\ StoreScreen(word, bytes)
       /\ IF word < WindowWords THEN V!WriteScreen(word, bytes) ELSE UNCHANGED <<vgaPalette, vgaFb>>
  /\ UNCHANGED <<switched, recoloured>>

DisplaysNext ==
  /\ ~lost
  /\ ProgramSetsSize \/ ProgramControls \/ ProgramColours \/ ProgramDraws

DisplaysSpec == DisplaysInit /\ [][DisplaysNext]_vars

-----------------------------------------------------------------------------
(* Properties *)

\* However modes, sizes and stores follow each other, the device draws outside
\* its frame only in the compatible mode with a frame smaller than the default:
\* there the window, not fbsize, is what bounds it (m3p_modeset, line 208).
InFrame == lost => mode = CompatMode /\ width * height < DefaultWidth * DefaultHeight

Pixel(p)    == [k \in Offsets |-> fb[p * WordSize + k]]
Rgb(colour) == [k \in 0..(Last - 1) |-> colour[k]]

\* The frame shows what the program reads in the frame buffer: in the advanced
\* mode each pixel is a word, in the compatible mode half a byte names its
\* colour.  A cleared pixel differs from colour 0 in its alpha.
FrameShowsVram ==
  ~lost =>
    IF mode = AdvancedMode
    THEN \A p \in 0..(width * height - 1) : Pixel(p) = Reversed(ReadScreen(p))
    ELSE \A word \in Visible, k \in Offsets, side \in {0, 1} :
           LET p == 2 * (word * WordSize + k) + side IN
           p < width * height /\ ~recoloured =>
             Rgb(Pixel(p)) = Rgb(palette[Nibble(ReadScreen(word)[k], side)])

\* Until a program uses the registers, the M3P shows what the VGA controller
\* would; and the program reads the same, unless it has changed the palette.
LikeVga ==
  ~switched =>
    /\ \A p \in V!Pixels : Pixel(p) = vgaFb[p]
    /\ \A i \in Entries : ReadPalette(i) = V!ReadPalette(i)
    /\ ~recoloured => \A word \in Visible : ReadScreen(word) = V!ReadScreen(word)

\* No store makes a colour transparent, in either mode: the byte that is
\* refused is alpha whether the word is turned round once or twice.
AlphaKept == \A i \in Entries : palette[i][Last] = ByteMax /\ vgaPalette[i][Last] = ByteMax

=============================================================================
