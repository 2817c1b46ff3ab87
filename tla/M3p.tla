-------------------------------- MODULE M3p --------------------------------
(***************************************************************************)
(* The M3P display controller (rrvm/src/device/m3p.c): the VGA controller  *)
(* in its compatible mode, a frame buffer of a word per pixel in its       *)
(* advanced mode, and registers to switch modes and to size the frame.     *)
(* The bus hands over a word byte by byte, first byte first; the handler   *)
(* acts on the last byte of the control register, when the word is whole,  *)
(* and treats the bytes of other words each on its own.  The window is     *)
(* only drawn to the host's screen, and left out.                          *)
(***************************************************************************)
EXTENDS Colours

CONSTANTS
  DefaultWidth, DefaultHeight,
  VramWords,        \* M3P_VRAM_SIZE, in words
  RegisterWords,    \* 16
  Garbage,          \* what malloc leaves in the registers' bytes
  WriteAdvanced,    \* M3P_STATUS_WRITE_ADVANCED_MODE
  WriteCompat       \* M3P_STATUS_WRITE_COMPAT_MODE

CompatMode   == 0
AdvancedMode == 1

\* The compatible frame buffer is the default frame, at two pixels a byte and
\* with whole bytes in a line.
ASSUME M3pAssumption ==
  /\ DefaultWidth \in Nat \ {0} /\ DefaultHeight \in Nat \ {0}
  /\ DefaultWidth % 2 = 0
  /\ DefaultWidth * DefaultHeight = 2 * WindowWords * WordSize
  /\ VramWords \in Nat /\ VramWords >= DefaultWidth * DefaultHeight
  /\ RegisterWords \in Nat /\ RegisterWords >= 3
  /\ Garbage \subseteq Byte /\ Garbage # {}
  /\ WriteAdvanced \in Byte /\ WriteCompat \in Byte
  /\ WriteAdvanced # WriteCompat
  /\ {WriteAdvanced, WriteCompat} \cap {0, 1} = {}

VARIABLES
  registers,      \* ctrl (0), op0 (1), op1 (2) and the rest
  palette,        \* colours by number
  vram,           \* bytes of the video memory
  fb,             \* bytes of the frame
  width, height,  \* of the frame
  mode,
  status,
  fbsize,         \* bytes of vram that are drawn when written
  lost            \* whether a byte was drawn outside the frame

m3pVars == <<registers, palette, vram, fb, width, height, mode, status, fbsize, lost>>

VramBytes     == 0..(VramWords * WordSize - 1)
Frame(w, h)   == 0..(w * h * WordSize - 1)

TypeOK ==
  /\ registers \in [0..(RegisterWords - 1) -> Bytes]
  /\ palette \in [Entries -> Colour]
  /\ vram \in [VramBytes -> Byte]
  /\ width \in Nat /\ height \in Nat
  /\ fb \in [Frame(width, height) -> Byte]
  /\ mode \in {CompatMode, AdvancedMode}
  /\ status \in {0, 1}
  /\ fbsize \in Nat
  /\ lost \in BOOLEAN

Init ==
  /\ registers \in [0..(RegisterWords - 1) -> [Offsets -> Garbage]]
  /\ palette = DefaultPalette
  /\ vram = [o \in VramBytes |-> 0]
  /\ width = DefaultWidth /\ height = DefaultHeight
  /\ fb = [o \in Frame(width, height) |-> 0]
  /\ mode = CompatMode
  /\ status = 0
  /\ fbsize = (width \div 2) * height
  /\ lost = FALSE

betohl(bytes) ==
  LET number[k \in 0..WordSize] ==
        IF k = 0 THEN 0 ELSE number[k - 1] * (ByteMax + 1) + bytes[k - 1]
  IN  number[WordSize]

-----------------------------------------------------------------------------
(* Registers *)

StoreRegister(r, bytes) ==
  /\ r # 0
  /\ registers' = [registers EXCEPT ![r] = bytes]
  /\ UNCHANGED <<palette, vram, fb, width, height, mode, status, fbsize, lost>>

\* Mutant of ModeSet: fbsize is taken of the frame before.
ModeSetSizedBefore(w, h, m) ==
  /\ width' = w /\ height' = h /\ mode' = m
  /\ fb' = [o \in Frame(w, h) |-> 0]
  /\ palette' = DefaultPalette
  /\ fbsize' = width * height * WordSize
  /\ vram' = [o \in VramBytes |-> IF o < fbsize' THEN 0 ELSE vram[o]]

\* Mutant of ModeSet: vram is not cleared.
ModeSetKeepsVram(w, h, m) ==
  /\ width' = w /\ height' = h /\ mode' = m
  /\ fb' = [o \in Frame(w, h) |-> 0]
  /\ palette' = DefaultPalette
  /\ fbsize' = w * h * WordSize
  /\ UNCHANGED vram

\* m3p_modeset makes a new frame and clears it with as much of vram.  It
\* compares the mode with the word that asks for the compatible mode, so fbsize
\* is that of the advanced mode in either.
ModeSet(w, h, m) ==
  /\ width' = w /\ height' = h /\ mode' = m
  /\ fb' = [o \in Frame(w, h) |-> 0]
  /\ palette' = DefaultPalette
  /\ fbsize' = IF m = WriteCompat THEN (w \div 2) * h ELSE w * h * WordSize
  /\ vram' = [o \in VramBytes |-> IF o < fbsize' THEN 0 ELSE vram[o]]

\* Sizes the host can make a frame of and vram can hold.
Displayable(w, h) == w \in 1..VramWords /\ h \in 1..VramWords /\ w * h <= VramWords

\* Commands are in the last byte of ctrl when its first one is 0.
Resize(bytes) ==
  LET w == betohl(registers[1])
      h == betohl(registers[2]) IN
  /\ bytes[0] = 0 /\ bytes[Last] = 0
  /\ Displayable(w, h)
  /\ ModeSet(w, h, mode)
  /\ UNCHANGED status

Reset(bytes) ==
  /\ bytes[0] = 0 /\ bytes[Last] = ByteMax
  /\ ModeSet(DefaultWidth, DefaultHeight, mode)
  /\ UNCHANGED status

SwitchToAdvanced(bytes) ==
  /\ bytes[0] = WriteAdvanced
  /\ ModeSet(width, height, AdvancedMode)
  /\ status' = 1

SwitchToCompat(bytes) ==
  /\ bytes[0] = WriteCompat
  /\ ModeSet(width, height, CompatMode)
  /\ status' = 0

SetsMode(bytes) ==
  \/ bytes[0] \in {WriteAdvanced, WriteCompat}
  \/ bytes[0] = 0 /\ bytes[Last] \in {0, ByteMax}

NoCommand(bytes) ==
  /\ ~SetsMode(bytes)
  /\ UNCHANGED <<palette, vram, fb, width, height, mode, status, fbsize>>

\* m3p_process_register_write, for the last byte of ctrl.  Its first byte then
\* reads as the status.
StoreControl(bytes) ==
  /\ \/ Resize(bytes) \/ Reset(bytes) \/ NoCommand(bytes)
     \/ SwitchToAdvanced(bytes) \/ SwitchToCompat(bytes)
  /\ registers' = [registers EXCEPT ![0] = [bytes EXCEPT ![0] = status']]
  /\ UNCHANGED lost

-----------------------------------------------------------------------------
(* Palette and video memory *)

\* The bytes of a word in the order the mode gives them: address ^= 3.
Ordered(bytes) == IF mode = CompatMode THEN bytes ELSE Reversed(bytes)

\* Mutant of StorePalette: the byte is refused where the program stores it.
StorePaletteRefusesEarly(entry, bytes) ==
  /\ palette' = [palette EXCEPT ![entry] =
                   [k \in Offsets |->
                      IF k = (IF mode = CompatMode THEN Last ELSE 0) THEN palette[entry][k]
                      ELSE Ordered(bytes)[Last - k]]]
  /\ UNCHANGED <<registers, vram, fb, width, height, mode, status, fbsize, lost>>

\* The handler refuses the byte at a multiple of four and turns the rest round,
\* for the second time in the advanced mode.
StorePalette(entry, bytes) ==
  /\ palette' = [palette EXCEPT ![entry] =
                   [k \in Offsets |-> IF Last - k = 0 THEN palette[entry][k]
                                      ELSE Ordered(bytes)[Last - k]]]
  /\ UNCHANGED <<registers, vram, fb, width, height, mode, status, fbsize, lost>>

ReadPalette(entry) == Ordered(Reversed(palette[entry]))

\* The words of vram that the device answers for.
Visible == 0..((IF mode = CompatMode THEN WindowWords ELSE VramWords) - 1)

\* The byte of vram that a byte of the frame is drawn from, and the bytes of the
\* frame that a byte of vram is drawn to.
Source(f) == IF mode = CompatMode THEN f \div (2 * WordSize) ELSE f
Drawn(o)  == IF mode = CompatMode THEN 2 * o * WordSize..(2 * (o + 1) * WordSize - 1) ELSE {o}

\* Mutant of Shown: the low half of a byte is the left pixel.
ShownSwapped(f, byte) ==
  IF mode = CompatMode
  THEN palette[Nibble(byte, 1 - ((f \div WordSize) % 2))][f % WordSize]
  ELSE byte

\* What a byte of the frame shows of the byte of vram it is drawn from.
Shown(f, byte) ==
  IF mode = CompatMode
  THEN palette[Nibble(byte, (f \div WordSize) % 2)][f % WordSize]
  ELSE byte

\* Drawing outside the frame writes to memory of the host that is not the
\* device's: nothing is said of what follows.
StoreScreen(word, bytes) ==
  LET Stored(o) == o \div WordSize = word
      New(o)    == Ordered(bytes)[o % WordSize] IN
  /\ word \in Visible
  /\ vram' = [o \in VramBytes |-> IF Stored(o) THEN New(o) ELSE vram[o]]
  /\ fb' = [f \in DOMAIN fb |->
              IF Stored(Source(f)) /\ Source(f) < fbsize THEN Shown(f, New(Source(f))) ELSE fb[f]]
  /\ lost' = \E o \in VramBytes : Stored(o) /\ o < fbsize /\ ~(Drawn(o) \subseteq DOMAIN fb)
  /\ UNCHANGED <<registers, palette, width, height, mode, status, fbsize>>

ReadScreen(word) == Ordered([k \in Offsets |-> vram[word * WordSize + k]])
=============================================================================
