--------------------------- MODULE DisplaysProofs ---------------------------
(***************************************************************************)
(* Proofs about Displays, for every size of word, palette, frame and video *)
(* memory and whatever a program stores.                                   *)
(***************************************************************************)
EXTENDS Displays, TLAPS

-----------------------------------------------------------------------------
(* No colour becomes transparent *)

ColoursInv ==
  /\ palette \in [Entries -> Colour]
  /\ vgaPalette \in [Entries -> Colour]
  /\ AlphaKept

\* The palette at power-on and after a mode is set: opaque greys.
LEMMA DefaultIsOpaque ==
  /\ DefaultPalette \in [Entries -> Colour]
  /\ \A i \in Entries : DefaultPalette[i][Last] = ByteMax
<1>1. Shades \in Nat /\ Shades >= 2 /\ WordSize \in Nat /\ WordSize >= 2
  BY ColoursAssumption
<1>2. ByteMax \in Byte /\ Last \in Offsets
  BY <1>1 DEF ByteMax, Byte, Last, Offsets
<1>3. \A i \in Entries : i * (Shades + 1) \in Byte
  <2> SUFFICES ASSUME NEW i \in Entries PROVE i * (Shades + 1) \in Byte
    OBVIOUS
  <2>1. i \in Nat /\ i <= Shades - 1
    BY <1>1 DEF Entries
  <2>2. i * (Shades + 1) <= (Shades - 1) * (Shades + 1)
    BY <1>1, <2>1
  <2>3. (Shades - 1) * (Shades + 1) = ByteMax
    BY <1>1 DEF ByteMax
  <2>4. i * (Shades + 1) \in Nat
    BY <1>1, <2>1
  <2> QED BY <1>1, <2>2, <2>3, <2>4 DEF Byte, ByteMax
<1> QED BY <1>2, <1>3 DEF DefaultPalette, Colour, Bytes

\* A store to the palette turns the word round and keeps alpha, in either mode
\* of the M3P and on the VGA controller.
LEMMA StoredColour ==
  ASSUME NEW colours \in [Entries -> Colour], NEW word \in Bytes, NEW entry \in Entries,
         \A i \in Entries : colours[i][Last] = ByteMax,
         NEW colours2,
         colours2 = [colours EXCEPT ![entry] =
           [k \in Offsets |-> IF k = Last THEN colours[entry][k] ELSE word[Last - k]]]
  PROVE  colours2 \in [Entries -> Colour] /\ \A i \in Entries : colours2[i][Last] = ByteMax
<1>1. WordSize \in Nat /\ WordSize >= 2
  BY ColoursAssumption
<1>2. Last \in Offsets
  BY <1>1 DEF Last, Offsets
<1>3. \A k \in Offsets : Last - k \in Offsets
  BY <1>1 DEF Last, Offsets
<1>4. [k \in Offsets |-> IF k = Last THEN colours[entry][k] ELSE word[Last - k]] \in Colour
  BY <1>3 DEF Colour, Bytes
<1> QED BY <1>2, <1>4

LEMMA ColoursInvariant == DisplaysSpec => []ColoursInv
<1>1. DisplaysInit => ColoursInv
  <2>1. V!DefaultPalette = DefaultPalette
    BY DEF V!DefaultPalette, DefaultPalette, V!Entries, Entries, V!Offsets, Offsets, V!Last, Last,
           V!ByteMax, ByteMax
  <2> QED BY <2>1, DefaultIsOpaque DEF DisplaysInit, Init, V!Init, ColoursInv, AlphaKept
<1>2. ColoursInv /\ [DisplaysNext]_vars => ColoursInv'
  <2> SUFFICES ASSUME ColoursInv, [DisplaysNext]_vars PROVE ColoursInv'
    OBVIOUS
  <2> USE DEF ColoursInv, AlphaKept
  <2>1. CASE ProgramSetsSize
    BY <2>1 DEF ProgramSetsSize, StoreRegister
  <2>2. CASE ProgramControls
    <3>1. PICK bytes \in ControlStores : StoreControl(bytes) /\ UNCHANGED vgaPalette
      BY <2>2 DEF ProgramControls
    <3>2. palette' = DefaultPalette \/ UNCHANGED palette
      BY <3>1 DEF StoreControl, Resize, Reset, SwitchToAdvanced, SwitchToCompat, NoCommand, ModeSet
    <3> QED BY <3>1, <3>2, DefaultIsOpaque
  <2>3. CASE ProgramColours
    <3>1. PICK entry \in Entries, bytes \in PaletteStores :
            StorePalette(entry, bytes) /\ V!WritePalette(entry, bytes)
      BY <2>3 DEF ProgramColours
    <3>2. bytes \in Bytes
      BY StoresAssumption
    <3>3. WordSize \in Nat /\ WordSize >= 2
      BY ColoursAssumption
    <3>4. Ordered(bytes) \in Bytes
      BY <3>2, <3>3 DEF Ordered, Reversed, Bytes, Offsets, Last
    <3>5. palette' = [palette EXCEPT ![entry] =
            [k \in Offsets |-> IF k = Last THEN palette[entry][k] ELSE Ordered(bytes)[Last - k]]]
      <4>1. \A k \in Offsets : Last - k = 0 <=> k = Last
        BY <3>3 DEF Offsets, Last
      <4>2. [k \in Offsets |-> IF Last - k = 0 THEN palette[entry][k] ELSE Ordered(bytes)[Last - k]]
              = [k \in Offsets |-> IF k = Last THEN palette[entry][k] ELSE Ordered(bytes)[Last - k]]
        BY <4>1
      <4> QED BY <3>1, <4>2 DEF StorePalette
    <3>6. vgaPalette' = [vgaPalette EXCEPT ![entry] =
            [k \in Offsets |-> IF k = Last THEN vgaPalette[entry][k] ELSE bytes[Last - k]]]
      BY <3>1 DEF V!WritePalette, V!Offsets, Offsets, V!Last, Last
    <3>7. palette' \in [Entries -> Colour] /\ \A i \in Entries : palette'[i][Last] = ByteMax
      BY <3>4, <3>5, StoredColour
    <3>8. vgaPalette' \in [Entries -> Colour] /\ \A i \in Entries : vgaPalette'[i][Last] = ByteMax
      BY <3>2, <3>6, StoredColour
    <3> QED BY <3>7, <3>8
  <2>4. CASE ProgramDraws
    BY <2>4 DEF ProgramDraws, StoreScreen, V!WriteScreen
  <2>5. CASE UNCHANGED vars
    BY <2>5 DEF vars, m3pVars
  <2> QED BY <2>1, <2>2, <2>3, <2>4, <2>5 DEF DisplaysNext
<1> QED BY <1>1, <1>2, PTL DEF DisplaysSpec

\* Whatever is stored to palettes and registers, and in whichever mode, every
\* colour of both controllers stays opaque (m3p.c lines 123 to 135, vga.c 67 to
\* 75).
THEOREM ColoursStayOpaque == DisplaysSpec => []AlphaKept
<1>1. ColoursInv => AlphaKept
  BY DEF ColoursInv
<1> QED BY <1>1, ColoursInvariant, PTL

-----------------------------------------------------------------------------
(* Drawing stays in the frame *)

FrameInv ==
  /\ width \in Nat
  /\ height \in Nat
  /\ DOMAIN fb = Frame(width, height)
  /\ mode \in {CompatMode, AdvancedMode}
  /\ mode = AdvancedMode => fbsize = width * height * WordSize
  /\ InFrame

\* A byte of a word lies before the end of the word.
LEMMA BeforeNextWord ==
  ASSUME NEW o \in Nat, NEW size \in Nat \ {0}
  PROVE  o < (o \div size + 1) * size
OBVIOUS

\* Products keep the order.
LEMMA TimesKeepsOrder ==
  ASSUME NEW a \in Nat, NEW b \in Nat, NEW c \in Nat, a <= b
  PROVE  a * c <= b * c
OBVIOUS

\* What the window of the compatible mode holds has its place in a frame that
\* is no smaller than the default.
LEMMA WindowFitsFrame ==
  ASSUME NEW w \in Nat, NEW h \in Nat, w * h >= DefaultWidth * DefaultHeight,
         NEW o \in Nat, o \div WordSize \in 0..(WindowWords - 1)
  PROVE  2 * o * WordSize..(2 * (o + 1) * WordSize - 1) \subseteq Frame(w, h)
<1>1. WordSize \in Nat \ {0} /\ WindowWords \in Nat
  BY ColoursAssumption
<1> DEFINE word == o \div WordSize
<1>2. word \in Nat /\ word + 1 <= WindowWords
  BY <1>1
<1>3. o < (word + 1) * WordSize
  BY <1>1, BeforeNextWord
<1>4. (word + 1) * WordSize <= WindowWords * WordSize
  <2>1. word + 1 \in Nat
    BY <1>2
  <2> HIDE DEF word
  <2> QED BY <1>1, <1>2, <2>1, TimesKeepsOrder
<1>5. o + 1 <= WindowWords * WordSize
  <2>1. (word + 1) * WordSize \in Nat /\ WindowWords * WordSize \in Nat
    BY <1>1, <1>2
  <2> HIDE DEF word
  <2> QED BY <1>3, <1>4, <2>1
<1>6. 2 * (o + 1) <= w * h
  <2>1. DefaultWidth * DefaultHeight = 2 * WindowWords * WordSize
    BY M3pAssumption
  <2>2. WindowWords * WordSize \in Nat /\ w * h \in Nat
    BY <1>1
  <2>3. 2 * WindowWords * WordSize = 2 * (WindowWords * WordSize)
    BY <1>1
  <2> QED BY <1>5, <2>1, <2>2, <2>3
<1>7. 2 * (o + 1) * WordSize <= w * h * WordSize
  <2>1. 2 * (o + 1) \in Nat /\ w * h \in Nat
    OBVIOUS
  <2> QED BY <1>1, <1>6, <2>1, TimesKeepsOrder
<1>8. 2 * o * WordSize \in Nat /\ 2 * (o + 1) * WordSize \in Nat /\ w * h * WordSize \in Nat
  BY <1>1
<1> QED BY <1>7, <1>8 DEF Frame

LEMMA FrameInvariant == DisplaysSpec => []FrameInv
<1>1. DisplaysInit => FrameInv
  BY M3pAssumption DEF DisplaysInit, Init, FrameInv, InFrame, CompatMode, AdvancedMode, Frame
<1>2. FrameInv /\ [DisplaysNext]_vars => FrameInv'
  <2> SUFFICES ASSUME FrameInv, [DisplaysNext]_vars PROVE FrameInv'
    OBVIOUS
  <2>1. CASE ProgramSetsSize
    BY <2>1 DEF ProgramSetsSize, StoreRegister, FrameInv, InFrame
  <2>2. CASE ProgramControls /\ ~lost
    <3>1. PICK bytes \in ControlStores : StoreControl(bytes)
      BY <2>2 DEF ProgramControls
    <3>2. UNCHANGED lost /\ ~lost'
      BY <2>2, <3>1 DEF StoreControl
    <3>3. ASSUME NEW w \in Nat, NEW h \in Nat, NEW mo \in {CompatMode, AdvancedMode},
                 ModeSet(w, h, mo)
          PROVE  FrameInv'
      <4>1. AdvancedMode # WriteCompat
        BY M3pAssumption DEF AdvancedMode
      <4>2. DOMAIN fb' = Frame(width', height')
        BY <3>3 DEF ModeSet
      <4> QED BY <3>2, <3>3, <4>1, <4>2 DEF ModeSet, FrameInv, InFrame
    <3>4. CASE Resize(bytes)
      <4>1. betohl(registers[1]) \in Nat /\ betohl(registers[2]) \in Nat
        BY <3>4 DEF Resize, Displayable
      <4> QED BY <3>3, <3>4, <4>1 DEF Resize, FrameInv
    <3>5. CASE Reset(bytes)
      BY <3>3, <3>5, M3pAssumption DEF Reset, FrameInv
    <3>6. CASE SwitchToAdvanced(bytes)
      BY <3>3, <3>6 DEF SwitchToAdvanced, FrameInv
    <3>7. CASE SwitchToCompat(bytes)
      BY <3>3, <3>7 DEF SwitchToCompat, FrameInv
    <3>8. CASE NoCommand(bytes)
      BY <3>2, <3>8 DEF NoCommand, FrameInv, InFrame
    <3> QED BY <3>1, <3>4, <3>5, <3>6, <3>7, <3>8 DEF StoreControl
  <2>3. CASE ProgramColours
    BY <2>3 DEF ProgramColours, StorePalette, FrameInv, InFrame
  <2>4. CASE ProgramDraws
    <3>1. PICK word \in ScreenWords, bytes \in ScreenStores : StoreScreen(word, bytes)
      BY <2>4 DEF ProgramDraws
    <3>2. DOMAIN fb' = DOMAIN fb /\ UNCHANGED <<width, height, mode, fbsize>> /\ word \in Visible
      BY <3>1 DEF StoreScreen
    <3>3. ASSUME ~(mode = CompatMode /\ width * height < DefaultWidth * DefaultHeight)
          PROVE  ~lost'
      <4> SUFFICES ASSUME NEW o \in VramBytes, o \div WordSize = word, o < fbsize
                   PROVE  Drawn(o) \subseteq DOMAIN fb
        BY <3>1 DEF StoreScreen
      <4>1. o \in Nat
        BY DEF VramBytes
      <4>2. CASE mode = AdvancedMode
        <5>1. fbsize = width * height * WordSize /\ fbsize \in Nat
          BY <4>2, ColoursAssumption DEF FrameInv
        <5>2. o \in Frame(width, height)
          BY <4>1, <5>1 DEF Frame
        <5> QED BY <4>2, <5>2 DEF Drawn, FrameInv, CompatMode, AdvancedMode
      <4>3. CASE mode = CompatMode
        <5>1. width * height >= DefaultWidth * DefaultHeight
          BY <3>3, <4>3, M3pAssumption DEF FrameInv
        <5>2. o \div WordSize \in 0..(WindowWords - 1)
          BY <3>2, <4>3 DEF Visible
        <5>3. Drawn(o) = 2 * o * WordSize..(2 * (o + 1) * WordSize - 1)
          BY <4>3 DEF Drawn
        <5> QED BY <4>1, <5>1, <5>2, <5>3, WindowFitsFrame DEF FrameInv
      <4> QED BY <4>2, <4>3 DEF FrameInv
    <3> QED BY <3>2, <3>3 DEF FrameInv, InFrame
  <2>5. CASE UNCHANGED vars
    BY <2>5 DEF vars, m3pVars, FrameInv, InFrame
  <2> QED BY <2>1, <2>2, <2>3, <2>4, <2>5 DEF DisplaysNext
<1> QED BY <1>1, <1>2, PTL DEF DisplaysSpec

\* Whatever sizes, modes and stores a program goes through, the device draws
\* outside its frame only in the compatible mode on a frame smaller than the
\* default (m3p.c lines 141 to 159, 208).
THEOREM DrawsInFrame == DisplaysSpec => []InFrame
<1>1. FrameInv => InFrame
  BY DEF FrameInv
<1> QED BY <1>1, FrameInvariant, PTL

-----------------------------------------------------------------------------
(* Bytes, words and pixels *)

LEMMA Division ==
  ASSUME NEW a \in Nat, NEW size \in Nat \ {0}
  PROVE  \E d \in Nat, m \in 0..(size - 1) : a = d * size + m
<1>1. PICK d \in Nat, m \in 0..(size - 1) : d = a \div size /\ m = a % size
  OBVIOUS
<1>2. a = d * size + m
  BY <1>1
<1> QED BY <1>2

LEMMA Quotient ==
  ASSUME NEW size \in Nat \ {0}, NEW q \in Nat, NEW r \in 0..(size - 1),
         NEW a, a = q * size + r
  PROVE  a \div size = q /\ a % size = r
<1>1. PICK d \in Int, m \in 0..(size - 1) :
        d = a \div size /\ m = a % size /\ a = d * size + m
  OBVIOUS
<1>2. (q - d) * size = m - r /\ (d - q) * size = r - m
  BY <1>1
<1>3. CASE q = d
  BY <1>1, <1>3
<1>4. CASE q > d
  <2>1. (q - d) * size >= size
    BY <1>4
  <2> QED BY <1>1, <1>2, <2>1
<1>5. CASE q < d
  <2>1. (d - q) * size >= size
    BY <1>5
  <2> QED BY <1>1, <1>2, <2>1
<1> QED BY <1>3, <1>4, <1>5

\* Byte k of pixel p in the frame.
LEMMA PixelByte ==
  ASSUME NEW p \in Nat, NEW k \in Offsets, NEW f, f = p * WordSize + k
  PROVE  /\ f \in Nat /\ f \div WordSize = p /\ f % WordSize = k
         /\ f \div (2 * WordSize) = p \div 2
<1>1. WordSize \in Nat \ {0} /\ k \in 0..(WordSize - 1)
  BY ColoursAssumption DEF Offsets, Last
<1>2. f \div WordSize = p /\ f % WordSize = k
  BY <1>1, Quotient
<1>3. f = (p \div 2) * (2 * WordSize) + ((p % 2) * WordSize + k)
  <2> DEFINE q == p \div 2
             s == p % 2
  <2>1. q \in Nat /\ s \in {0, 1} /\ p = 2 * q + s
    OBVIOUS
  <2> HIDE DEF q, s
  <2>2. p * WordSize = q * (2 * WordSize) + s * WordSize
    BY <1>1, <2>1
  <2> QED BY <1>1, <2>1, <2>2 DEF q, s
<1>4. (p % 2) * WordSize + k \in 0..(2 * WordSize - 1)
  <2>1. p % 2 \in {0, 1}
    OBVIOUS
  <2>2. (p % 2) * WordSize \in {0, WordSize}
    BY <1>1, <2>1
  <2> QED BY <1>1, <2>2
<1>5. f \div (2 * WordSize) = p \div 2
  <2>1. 2 * WordSize \in Nat \ {0} /\ p \div 2 \in Nat
    BY <1>1
  <2> DEFINE size == 2 * WordSize
             q    == p \div 2
             r    == (p % 2) * WordSize + k
  <2>2. f = q * size + r /\ size \in Nat \ {0} /\ q \in Nat /\ r \in 0..(size - 1)
    BY <1>3, <1>4, <2>1
  <2> HIDE DEF size, q, r
  <2>3. f \div size = q
    BY <2>2, Quotient
  <2> QED BY <2>3 DEF size, q
<1>6. f \in Nat
  BY <1>1
<1> QED BY <1>2, <1>5, <1>6

\* The pixel on one side of byte o of the compatible frame buffer.
LEMMA BytePixel ==
  ASSUME NEW o \in Nat, NEW side \in {0, 1}
  PROVE  2 * o + side \in Nat /\ (2 * o + side) \div 2 = o /\ (2 * o + side) % 2 = side
OBVIOUS

\* The word that byte o, or the pixel on one side of it, is in.
LEMMA WordOfByte ==
  ASSUME NEW word \in Nat, NEW k \in Offsets, NEW o, o = word * WordSize + k
  PROVE  /\ o \in Nat /\ o \div WordSize = word /\ o % WordSize = k
         /\ \A side \in {0, 1} : (2 * o + side) \div (2 * WordSize) = word
<1>1. o \in Nat /\ o \div WordSize = word /\ o % WordSize = k
  BY PixelByte
<1>2. ASSUME NEW side \in {0, 1} PROVE (2 * o + side) \div (2 * WordSize) = word
  <2>1. WordSize \in Nat \ {0} /\ k \in 0..(WordSize - 1)
    BY ColoursAssumption DEF Offsets, Last
  <2> DEFINE size == 2 * WordSize
             r    == 2 * k + side
  <2>2. size \in Nat \ {0} /\ r \in 0..(size - 1)
    BY <2>1
  <2>3. 2 * o + side = word * size + r
    BY <2>1
  <2> HIDE DEF size, r
  <2>4. (2 * o + side) \div size = word
    BY <2>2, <2>3, Quotient
  <2> QED BY <2>4 DEF size
<1> QED BY <1>1, <1>2

\* The bytes of a frame are those of its pixels.
LEMMA FrameByte ==
  ASSUME NEW w \in Nat, NEW h \in Nat, NEW f \in Frame(w, h)
  PROVE  \E p \in 0..(w * h - 1), k \in Offsets : f = p * WordSize + k
<1>1. WordSize \in Nat \ {0} /\ f \in Nat /\ w * h \in Nat /\ f < w * h * WordSize
  BY ColoursAssumption DEF Frame
<1>2. PICK d \in Nat, m \in 0..(WordSize - 1) : f = d * WordSize + m
  BY <1>1, Division
<1>3. ASSUME d >= w * h PROVE FALSE
  <2>1. (w * h) * WordSize =< d * WordSize
    BY <1>1, <1>2, <1>3, TimesKeepsOrder
  <2>2. d * WordSize \in Nat /\ (w * h) * WordSize \in Nat
    BY <1>1, <1>2
  <2> QED BY <1>1, <1>2, <2>1, <2>2
<1> QED BY <1>1, <1>2, <1>3 DEF Offsets, Last

LEMMA PixelInFrame ==
  ASSUME NEW w \in Nat, NEW h \in Nat, NEW p \in Nat, p < w * h, NEW k \in Offsets
  PROVE  p * WordSize + k \in Frame(w, h)
<1>1. WordSize \in Nat \ {0} /\ k \in 0..(WordSize - 1) /\ w * h \in Nat
  BY ColoursAssumption DEF Offsets, Last
<1>2. (p + 1) * WordSize =< w * h * WordSize
  BY <1>1, TimesKeepsOrder
<1>3. p * WordSize \in Nat /\ w * h * WordSize \in Nat /\ (p + 1) * WordSize = p * WordSize + WordSize
  BY <1>1
<1> QED BY <1>1, <1>2, <1>3 DEF Frame

\* A byte of vram before word n.
LEMMA WordByte ==
  ASSUME NEW o \in Nat, NEW n \in Nat, o \div WordSize < n
  PROVE  o < n * WordSize
<1>1. WordSize \in Nat \ {0}
  BY ColoursAssumption
<1>2. o \div WordSize \in Nat /\ o < (o \div WordSize + 1) * WordSize
  BY <1>1, BeforeNextWord
<1> DEFINE q == o \div WordSize
<1>3. q + 1 \in Nat /\ q + 1 =< n
  BY <1>2
<1> HIDE DEF q
<1>4. (q + 1) * WordSize =< n * WordSize
  BY <1>1, <1>3, TimesKeepsOrder
<1>5. n * WordSize \in Nat /\ (q + 1) * WordSize \in Nat
  BY <1>1, <1>3
<1> QED BY <1>2, <1>4, <1>5 DEF q

-----------------------------------------------------------------------------
(* The frame shows the video memory *)

PixelShown(p, k) == fb[p * WordSize + k] = palette[Nibble(vram[p \div 2], p % 2)][k]

ScreenInv ==
  /\ vram \in [VramBytes -> Byte]
  /\ width * height <= VramWords
  /\ mode = CompatMode => fbsize \in {width * height * WordSize, WindowWords * WordSize}
  /\ ~lost /\ mode = AdvancedMode => \A f \in Frame(width, height) : fb[f] = vram[f]
  /\ ~lost /\ mode = CompatMode /\ ~recoloured =>
       \A p \in 0..(width * height - 1), k \in 0..(Last - 1) :
         (p \div 2) \div WordSize < WindowWords => PixelShown(p, k)

\* A frame that fits video memory has room there for the byte of each pixel.
LEMMA PixelsByte ==
  ASSUME NEW w \in Nat, NEW h \in Nat, w * h <= VramWords, NEW p \in 0..(w * h - 1)
  PROVE  p \div 2 \in VramBytes /\ p \div 2 < w * h * WordSize
<1>1. WordSize \in Nat \ {0} /\ VramWords \in Nat /\ w * h \in Nat
  BY ColoursAssumption, M3pAssumption
<1> DEFINE n == w * h
<1>2. n \in Nat /\ n <= VramWords /\ p \in 0..(n - 1)
  BY <1>1
<1> HIDE DEF n
<1>3. p \div 2 \in Nat /\ p \div 2 < n
  BY <1>2
<1>4. n <= n * WordSize /\ VramWords <= VramWords * WordSize
  BY <1>1, <1>2
<1>5. n * WordSize \in Nat /\ VramWords * WordSize \in Nat
  BY <1>1, <1>2
<1> QED BY <1>1, <1>2, <1>3, <1>4, <1>5 DEF VramBytes, n

LEMMA FrameInVram ==
  ASSUME NEW w \in Nat, NEW h \in Nat, w * h <= VramWords
  PROVE  Frame(w, h) \subseteq VramBytes
<1>1. WordSize \in Nat \ {0} /\ VramWords \in Nat /\ w * h \in Nat
  BY ColoursAssumption, M3pAssumption
<1>2. w * h * WordSize <= VramWords * WordSize
  BY <1>1, TimesKeepsOrder
<1>3. w * h * WordSize \in Nat /\ VramWords * WordSize \in Nat
  BY <1>1
<1> QED BY <1>2, <1>3 DEF Frame, VramBytes

\* A cleared frame over cleared video memory: every pixel is colour 0.
LEMMA ClearedShows ==
  ASSUME NEW p \in Nat, NEW k \in 0..(Last - 1)
  PROVE  DefaultPalette[Nibble(0, p % 2)][k] = 0 /\ k \in Offsets
<1>1. Shades \in Nat \ {0, 1} /\ WordSize \in Nat \ {0, 1}
  BY ColoursAssumption
<1>2. Nibble(0, p % 2) = 0
  BY <1>1 DEF Nibble
<1>3. 0 \in Entries /\ k \in Offsets /\ k # Last
  BY <1>1 DEF Entries, Offsets, Last
<1> QED BY <1>1, <1>2, <1>3 DEF DefaultPalette

LEMMA ModeSetShows ==
  ASSUME NEW w \in Nat, NEW h \in Nat, w * h <= VramWords, NEW mo \in {CompatMode, AdvancedMode},
         ModeSet(w, h, mo), vram \in [VramBytes -> Byte]
  PROVE  ScreenInv'
<1>1. /\ width' = w /\ height' = h /\ mode' = mo /\ palette' = DefaultPalette
      /\ fb' = [o \in Frame(w, h) |-> 0] /\ fbsize' = w * h * WordSize
      /\ vram' = [o \in VramBytes |-> IF o < fbsize' THEN 0 ELSE vram[o]]
  BY M3pAssumption DEF ModeSet, CompatMode, AdvancedMode
<1>2. vram' \in [VramBytes -> Byte]
  <2>1. 0 \in Byte
    BY ColoursAssumption DEF Byte, ByteMax
  <2> QED BY <1>1, <2>1
<1>3. \A f \in Frame(w, h) : fb'[f] = vram'[f]
  <2> SUFFICES ASSUME NEW f \in Frame(w, h) PROVE fb'[f] = vram'[f]
    OBVIOUS
  <2>1. f \in VramBytes
    BY FrameInVram
  <2>2. f < w * h * WordSize
    BY ColoursAssumption DEF Frame
  <2> QED BY <1>1, <2>1, <2>2
<1>4. ASSUME NEW p \in 0..(w * h - 1), NEW k \in 0..(Last - 1)
      PROVE  PixelShown(p, k)'
  <2>1. p \in Nat /\ p < w * h
    OBVIOUS
  <2>2. DefaultPalette[Nibble(0, p % 2)][k] = 0 /\ k \in Offsets
    BY <2>1, ClearedShows
  <2>3. fb'[p * WordSize + k] = 0
    BY <1>1, <2>1, <2>2, PixelInFrame
  <2>4. vram'[p \div 2] = 0
    BY <1>1, PixelsByte
  <2> QED BY <1>1, <2>2, <2>3, <2>4 DEF PixelShown
<1> QED BY <1>1, <1>2, <1>3, <1>4 DEF ScreenInv

\* What is stored is drawn, and the rest stays as it was.
LEMMA DrawShows ==
  ASSUME FrameInv, ScreenInv, ~lost, UNCHANGED recoloured,
         NEW word, NEW bytes \in Bytes, StoreScreen(word, bytes)
  PROVE  ScreenInv'
<1> DEFINE Stored(o) == o \div WordSize = word
           New(o)    == Ordered(bytes)[o % WordSize]
<1>1. /\ UNCHANGED <<palette, width, height, mode, fbsize, recoloured>> /\ word \in Visible
      /\ vram' = [o \in VramBytes |-> IF Stored(o) THEN New(o) ELSE vram[o]]
      /\ fb' = [f \in DOMAIN fb |->
                  IF Stored(Source(f)) /\ Source(f) < fbsize
                  THEN Shown(f, New(Source(f))) ELSE fb[f]]
  BY DEF StoreScreen
<1>2. WordSize \in Nat \ {0, 1}
  BY ColoursAssumption
<1>3. vram' \in [VramBytes -> Byte]
  <2>1. Ordered(bytes) \in Bytes
    BY <1>2 DEF Ordered, Reversed, Bytes, Offsets, Last
  <2>2. \A o \in VramBytes : o % WordSize \in Offsets
    BY <1>2 DEF VramBytes, Offsets, Last
  <2> QED BY <1>1, <2>1, <2>2 DEF ScreenInv, Bytes
<1>4. ASSUME mode = AdvancedMode, NEW f \in Frame(width, height)
      PROVE  fb'[f] = vram'[f]
  <2>1. f \in VramBytes /\ f \in DOMAIN fb /\ f < fbsize
    <3>1. f \in VramBytes
      BY <1>4, FrameInVram DEF FrameInv, ScreenInv
    <3>2. f < width * height * WordSize
      BY <1>4, ColoursAssumption DEF Frame, FrameInv
    <3> QED BY <1>4, <3>1, <3>2 DEF FrameInv
  <2>2. Source(f) = f /\ \A b : Shown(f, b) = b
    BY <1>4 DEF Source, Shown, AdvancedMode, CompatMode
  <2>3. fb[f] = vram[f]
    BY <1>4 DEF ScreenInv
  <2> HIDE DEF Stored, New
  <2> QED BY <1>1, <2>1, <2>2, <2>3
<1>5. ASSUME mode = CompatMode, ~recoloured, NEW p \in 0..(width * height - 1),
             NEW k \in 0..(Last - 1), (p \div 2) \div WordSize < WindowWords
      PROVE  PixelShown(p, k)'
  <2> DEFINE f == p * WordSize + k
             o == p \div 2
  <2>1. p \in Nat /\ k \in Offsets /\ width \in Nat /\ height \in Nat /\ p < width * height
    BY <1>2 DEF Offsets, Last, FrameInv
  <2>2. f \div WordSize = p /\ f % WordSize = k /\ f \div (2 * WordSize) = o /\ o \in Nat
    BY <2>1, PixelByte
  <2>3. f \in DOMAIN fb
    BY <2>1, PixelInFrame DEF FrameInv
  <2>4. o \in VramBytes /\ o < width * height * WordSize
    BY <2>1, PixelsByte DEF ScreenInv
  <2>5. o < fbsize
    <3>1. WindowWords \in Nat
      BY ColoursAssumption
    <3>2. o < WindowWords * WordSize
      BY <1>5, <2>2, <3>1, WordByte
    <3> QED BY <1>5, <2>4, <3>2 DEF ScreenInv
  <2>6. Source(f) = o /\ \A b : Shown(f, b) = palette[Nibble(b, p % 2)][k]
    BY <1>5, <2>2 DEF Source, Shown
  <2>7. fb[f] = palette[Nibble(vram[o], p % 2)][k]
    BY <1>5 DEF ScreenInv, PixelShown
  <2> HIDE DEF f, o, Stored, New
  <2>8. fb'[f] = palette'[Nibble(vram'[o], p % 2)][k]
    BY <1>1, <2>3, <2>4, <2>5, <2>6, <2>7
  <2> QED BY <2>8 DEF PixelShown, f, o
<1> QED BY <1>1, <1>3, <1>4, <1>5 DEF ScreenInv

\* What m3p_create draws when written is the window.
LEMMA DefaultFbsize == (DefaultWidth \div 2) * DefaultHeight = WindowWords * WordSize
<1>1. PICK q \in Nat : DefaultWidth = 2 * q /\ DefaultWidth \div 2 = q
  BY M3pAssumption
<1>2. 2 * (q * DefaultHeight) = 2 * (WindowWords * WordSize)
  BY <1>1, M3pAssumption, ColoursAssumption
<1>3. q * DefaultHeight \in Nat /\ WindowWords * WordSize \in Nat
  BY <1>1, M3pAssumption, ColoursAssumption
<1> QED BY <1>1, <1>2, <1>3

LEMMA ScreenInvariant == DisplaysSpec => [](FrameInv /\ ScreenInv)
<1>1. DisplaysInit => ScreenInv
  <2> SUFFICES ASSUME DisplaysInit PROVE ScreenInv
    OBVIOUS
  <2>1. /\ palette = DefaultPalette /\ vram = [o \in VramBytes |-> 0]
        /\ width = DefaultWidth /\ height = DefaultHeight /\ mode = CompatMode
        /\ fb = [o \in Frame(width, height) |-> 0]
        /\ fbsize = (DefaultWidth \div 2) * DefaultHeight
    BY DEF DisplaysInit, Init
  <2>2. /\ width \in Nat /\ height \in Nat /\ width * height <= VramWords
        /\ width * height = 2 * WindowWords * WordSize /\ WindowWords * WordSize \in Nat
    BY <2>1, M3pAssumption, ColoursAssumption
  <2>3. fbsize = WindowWords * WordSize
    BY <2>1, DefaultFbsize
  <2>4. vram \in [VramBytes -> Byte]
    <3>1. 0 \in Byte
      BY ColoursAssumption DEF Byte, ByteMax
    <3> QED BY <2>1, <3>1
  <2>5. ASSUME NEW p \in 0..(width * height - 1), NEW k \in 0..(Last - 1)
        PROVE  PixelShown(p, k)
    <3>1. p \in Nat /\ p < width * height
      BY <2>2
    <3>2. DefaultPalette[Nibble(0, p % 2)][k] = 0 /\ k \in Offsets
      BY <3>1, ClearedShows
    <3>3. fb[p * WordSize + k] = 0
      BY <2>1, <2>2, <3>1, <3>2, PixelInFrame
    <3>4. vram[p \div 2] = 0
      BY <2>1, <2>2, PixelsByte
    <3> QED BY <2>1, <3>2, <3>3, <3>4 DEF PixelShown
  <2> QED BY <2>1, <2>2, <2>3, <2>4, <2>5 DEF ScreenInv, CompatMode, AdvancedMode
<1>2. FrameInv /\ ScreenInv /\ [DisplaysNext]_vars => ScreenInv'
  <2> SUFFICES ASSUME FrameInv, ScreenInv, [DisplaysNext]_vars PROVE ScreenInv'
    OBVIOUS
  <2>1. ASSUME UNCHANGED <<vram, fb, palette, width, height, mode, fbsize, lost>>,
               ~recoloured' => ~recoloured
        PROVE  ScreenInv'
    BY <2>1 DEF ScreenInv, PixelShown
  <2>2. CASE ProgramSetsSize
    BY <2>1, <2>2 DEF ProgramSetsSize, StoreRegister
  <2>3. CASE ProgramControls
    <3>1. PICK bytes \in ControlStores :
            StoreControl(bytes) /\ recoloured' = (recoloured /\ ~SetsMode(bytes))
      BY <2>3 DEF ProgramControls
    <3>2. vram \in [VramBytes -> Byte] /\ width \in Nat /\ height \in Nat /\ width * height <= VramWords
          /\ mode \in {CompatMode, AdvancedMode}
      BY DEF ScreenInv, FrameInv
    <3>3. CASE Resize(bytes)
      <4>1. /\ betohl(registers[1]) \in Nat /\ betohl(registers[2]) \in Nat
            /\ betohl(registers[1]) * betohl(registers[2]) <= VramWords
            /\ ModeSet(betohl(registers[1]), betohl(registers[2]), mode)
        BY <3>3 DEF Resize, Displayable
      <4> QED BY <3>2, <4>1, ModeSetShows
    <3>4. CASE Reset(bytes)
      BY <3>2, <3>4, M3pAssumption, ModeSetShows DEF Reset
    <3>5. CASE SwitchToAdvanced(bytes)
      BY <3>2, <3>5, ModeSetShows DEF SwitchToAdvanced
    <3>6. CASE SwitchToCompat(bytes)
      BY <3>2, <3>6, ModeSetShows DEF SwitchToCompat
    <3>7. CASE NoCommand(bytes)
      BY <2>1, <3>1, <3>7 DEF NoCommand, StoreControl
    <3> QED BY <3>1, <3>3, <3>4, <3>5, <3>6, <3>7 DEF StoreControl
  <2>4. CASE ProgramColours
    <3>1. UNCHANGED <<vram, fb, width, height, mode, fbsize, lost>> /\ recoloured' = TRUE
      BY <2>4 DEF ProgramColours, StorePalette
    <3> QED BY <3>1 DEF ScreenInv
  <2>5. CASE ProgramDraws /\ ~lost
    <3>1. PICK word \in ScreenWords, bytes \in ScreenStores : StoreScreen(word, bytes)
      BY <2>5 DEF ProgramDraws
    <3>2. bytes \in Bytes /\ UNCHANGED recoloured
      BY <2>5, StoresAssumption DEF ProgramDraws
    <3> QED BY <2>5, <3>1, <3>2, DrawShows
  <2>6. CASE UNCHANGED vars
    BY <2>1, <2>6 DEF vars, m3pVars
  <2> QED BY <2>2, <2>3, <2>4, <2>5, <2>6 DEF DisplaysNext
<1> QED BY <1>1, <1>2, FrameInvariant, PTL DEF DisplaysSpec

\* In either mode, and through every change of mode and size, what the frame shows
\* is what the program reads in the frame buffer (m3p.c:53-77, 79-162, 197-216): a
\* word for a pixel, or the colour that half a byte names.
THEOREM FrameIsVram == DisplaysSpec => []FrameShowsVram
<1>1. FrameInv /\ ScreenInv => FrameShowsVram
  <2> SUFFICES ASSUME FrameInv, ScreenInv, ~lost
               PROVE  IF mode = AdvancedMode
                      THEN \A p \in 0..(width * height - 1) : Pixel(p) = Reversed(ReadScreen(p))
                      ELSE \A word \in Visible, k \in Offsets, side \in {0, 1} :
                             LET p == 2 * (word * WordSize + k) + side IN
                             p < width * height /\ ~recoloured =>
                               Rgb(Pixel(p)) = Rgb(palette[Nibble(ReadScreen(word)[k], side)])
    BY DEF FrameShowsVram
  <2>1. WordSize \in Nat \ {0, 1} /\ width \in Nat /\ height \in Nat /\ width * height \in Nat
    BY ColoursAssumption DEF FrameInv
  <2>2. ASSUME mode = AdvancedMode, NEW p \in 0..(width * height - 1)
        PROVE  Pixel(p) = Reversed(ReadScreen(p))
    <3>1. \A k \in Offsets : Last - k \in Offsets /\ Last - (Last - k) = k
      BY <2>1 DEF Offsets, Last
    <3>2. ReadScreen(p) = Reversed([k \in Offsets |-> vram[p * WordSize + k]])
      BY <2>2 DEF ReadScreen, Ordered, AdvancedMode, CompatMode
    <3>3. Reversed(ReadScreen(p)) = [k \in Offsets |-> vram[p * WordSize + k]]
      BY <3>1, <3>2 DEF Reversed
    <3>4. ASSUME NEW k \in Offsets PROVE fb[p * WordSize + k] = vram[p * WordSize + k]
      <4>1. p \in Nat /\ p < width * height
        BY <2>1
      <4>2. p * WordSize + k \in Frame(width, height)
        BY <2>1, <4>1, PixelInFrame
      <4> QED BY <2>2, <4>2 DEF ScreenInv
    <3> QED BY <3>3, <3>4 DEF Pixel
  <2>3. ASSUME mode = CompatMode, NEW word \in Visible, NEW k \in Offsets, NEW side \in {0, 1},
               NEW p, p = 2 * (word * WordSize + k) + side, p < width * height, ~recoloured
        PROVE  Rgb(Pixel(p)) = Rgb(palette[Nibble(ReadScreen(word)[k], side)])
    <3>1. word \in Nat /\ word < WindowWords
      BY <2>3, ColoursAssumption DEF Visible
    <3>2. p \in Nat /\ p \div 2 = word * WordSize + k /\ p % 2 = side
      <4> DEFINE o == word * WordSize + k
      <4>1. p = 2 * o + side /\ o \in Nat
        BY <2>1, <2>3, <3>1 DEF Offsets, Last
      <4>2. p \in Nat /\ p \div 2 = o /\ p % 2 = side
        <5> HIDE DEF o
        <5> QED BY <4>1, BytePixel
      <4> QED BY <4>2
    <3>3. (p \div 2) \div WordSize = word
      BY <3>1, <3>2, PixelByte
    <3>4. ReadScreen(word)[k] = vram[p \div 2]
      BY <2>3, <3>2 DEF ReadScreen, Ordered
    <3>5. p \in 0..(width * height - 1)
      BY <2>1, <2>3, <3>2
    <3>6. ASSUME NEW j \in 0..(Last - 1)
          PROVE  Pixel(p)[j] = palette[Nibble(ReadScreen(word)[k], side)][j]
      <4>1. j \in Offsets
        BY <2>1 DEF Offsets, Last
      <4>2. PixelShown(p, j)
        BY <2>3, <3>1, <3>3, <3>5 DEF ScreenInv
      <4> QED BY <3>2, <3>4, <4>1, <4>2 DEF Pixel, PixelShown
    <3> QED BY <3>6 DEF Rgb
  <2> QED BY <2>2, <2>3 DEF FrameInv
<1> QED BY <1>1, ScreenInvariant, PTL

-----------------------------------------------------------------------------
(* Next to the VGA controller *)

LEMMA VgaNames ==
  /\ V!Pixels = 0..(2 * WindowWords * WordSize - 1) /\ V!Offsets = Offsets /\ V!Last = Last
  /\ V!Entries = Entries /\ V!DefaultPalette = DefaultPalette /\ V!Cleared = Cleared
  /\ \A b, s : V!Nibble(b, s) = Nibble(b, s)
  /\ \A w : V!Reversed(w) = Reversed(w)
BY DEF V!Pixels, V!Offsets, Offsets, V!Last, Last, V!Entries, Entries, V!DefaultPalette,
       DefaultPalette, V!Cleared, Cleared, V!Nibble, Nibble, V!Reversed, Reversed,
       V!ByteMax, ByteMax

\* The pixels of the VGA controller are those of a default frame, and each is
\* half a byte of the window.
LEMMA VgaPixel ==
  ASSUME NEW p \in V!Pixels
  PROVE  /\ p \in Nat /\ p < DefaultWidth * DefaultHeight /\ p % 2 \in {0, 1}
         /\ \E word \in 0..(WindowWords - 1), k \in Offsets :
              /\ p \div (2 * WordSize) = word /\ p \div 2 = word * WordSize + k
              /\ (p \div 2) \div WordSize = word /\ (p \div 2) % WordSize = k
         /\ p \div 2 \in Nat /\ p \div 2 < WindowWords * WordSize
<1>1. WordSize \in Nat \ {0} /\ WindowWords \in Nat /\ WindowWords * WordSize \in Nat
  BY ColoursAssumption
<1>2. p \in Nat /\ p < 2 * (WindowWords * WordSize)
      /\ DefaultWidth * DefaultHeight = 2 * (WindowWords * WordSize)
  <2>1. 2 * WindowWords * WordSize = 2 * (WindowWords * WordSize)
    BY <1>1
  <2> QED BY <1>1, <2>1, VgaNames, M3pAssumption
<1> DEFINE n == WindowWords * WordSize
<1>3. PICK q \in Nat, side \in {0, 1} : p = 2 * q + side /\ p \div 2 = q /\ p % 2 = side
  BY <1>2
<1>4. q < n
  <2>1. n \in Nat /\ p < 2 * n
    BY <1>1, <1>2
  <2> HIDE DEF n
  <2> QED BY <1>3, <2>1
<1>5. PICK word \in Nat, k \in 0..(WordSize - 1) : q = word * WordSize + k
  BY <1>1, <1>3, Division
<1>6. word < WindowWords
  <2>1. ASSUME word >= WindowWords PROVE FALSE
    <3>1. WindowWords * WordSize <= word * WordSize /\ word * WordSize \in Nat
      BY <1>1, <2>1, TimesKeepsOrder
    <3> QED BY <1>1, <1>4, <1>5, <3>1
  <2> QED BY <1>1, <2>1
<1>7. k \in Offsets /\ p = 2 * q + side
  BY <1>3, <1>5 DEF Offsets, Last
<1>8. p \div (2 * WordSize) = word
  BY <1>5, <1>7, WordOfByte
<1>9. q \div WordSize = word /\ q % WordSize = k
  BY <1>5, <1>7, PixelByte
<1>10. word \in 0..(WindowWords - 1)
  BY <1>1, <1>6
<1> QED BY <1>2, <1>3, <1>4, <1>5, <1>7, <1>8, <1>9, <1>10

LEMMA WindowPixel ==
  ASSUME NEW word \in Nat, word < WindowWords, NEW k \in Offsets, NEW side \in {0, 1},
         NEW o, o = word * WordSize + k, NEW p, p = 2 * o + side
  PROVE  p \in V!Pixels /\ p \div 2 = o /\ p % 2 = side
<1>1. WordSize \in Nat \ {0} /\ WindowWords \in Nat /\ k \in Nat /\ k < WordSize
  BY ColoursAssumption DEF Offsets, Last
<1>2. p \in Nat /\ p \div 2 = o /\ p % 2 = side
  <2>1. o \in Nat
    BY WordOfByte
  <2> QED BY <2>1, BytePixel
<1>3. (word + 1) * WordSize <= WindowWords * WordSize
  BY <1>1, TimesKeepsOrder
<1>4. word * WordSize \in Nat /\ (word + 1) * WordSize = word * WordSize + WordSize
      /\ WindowWords * WordSize \in Nat /\ 2 * WindowWords * WordSize = 2 * (WindowWords * WordSize)
  BY <1>1
<1>5. p < 2 * (WindowWords * WordSize)
  BY <1>1, <1>3, <1>4
<1>6. p \in 0..(2 * WindowWords * WordSize - 1)
  BY <1>2, <1>4, <1>5
<1> QED BY <1>2, <1>6, VgaNames

\* A pixel that was drawn has the colour that its half byte names; one that was
\* not is cleared, as its half byte is.
NamedBy(p) ==
  LET n == Nibble(vram[p \div 2], p % 2)
  IN  vgaFb[p] = palette[n] \/ (n = 0 /\ vgaFb[p] = Cleared)

LikeInv ==
  /\ vgaFb \in [V!Pixels -> Colour]
  /\ ~switched =>
       /\ mode = CompatMode /\ width = DefaultWidth /\ height = DefaultHeight
       /\ fbsize = WindowWords * WordSize
       /\ vgaPalette = palette
       /\ \A p \in V!Pixels, k \in Offsets : fb[p * WordSize + k] = vgaFb[p][k]
       /\ ~recoloured => palette = DefaultPalette /\ \A p \in V!Pixels : NamedBy(p)

LEMMA NibbleIsEntry ==
  ASSUME NEW b \in Byte, NEW side \in {0, 1}
  PROVE  Nibble(b, side) \in Entries
<1>1. Shades \in Nat \ {0} /\ b \in Nat /\ b < Shades * Shades
  BY ColoursAssumption DEF Byte, ByteMax
<1>2. PICK d \in Nat, m \in 0..(Shades - 1) : b = d * Shades + m
  BY <1>1, Division
<1>3. b \div Shades = d /\ b % Shades = m
  BY <1>1, <1>2, Quotient
<1>4. d < Shades
  <2>1. ASSUME d >= Shades PROVE FALSE
    <3>1. Shades * Shades <= d * Shades /\ d * Shades \in Nat
      BY <1>1, <2>1, TimesKeepsOrder
    <3> QED BY <1>1, <1>2, <3>1
  <2> QED BY <1>1, <2>1
<1> QED BY <1>1, <1>2, <1>3, <1>4 DEF Nibble, Entries

\* The program draws on both, through the window.
LEMMA DrawsAlike ==
  ASSUME FrameInv, ScreenInv, ColoursInv, LikeInv, ProgramDraws, FrameInv'
  PROVE  LikeInv'
<1>1. PICK word \in ScreenWords, bytes \in ScreenStores :
        /\ StoreScreen(word, bytes)
        /\ IF word < WindowWords THEN V!WriteScreen(word, bytes) ELSE UNCHANGED <<vgaPalette, vgaFb>>
        /\ UNCHANGED <<switched, recoloured>>
  BY DEF ProgramDraws
<1>2. bytes \in Bytes /\ WordSize \in Nat \ {0, 1}
  BY StoresAssumption, ColoursAssumption
<1>3. vgaFb' \in [V!Pixels -> Colour]
  <2>1. CASE word < WindowWords
    <3>1. vgaFb' = [p \in V!Pixels |->
                      IF p \div (2 * WordSize) = word
                      THEN vgaPalette[Nibble(bytes[(p \div 2) % WordSize], p % 2)] ELSE vgaFb[p]]
      BY <1>1, <2>1, VgaNames DEF V!WriteScreen
    <3>2. \A p \in V!Pixels : Nibble(bytes[(p \div 2) % WordSize], p % 2) \in Entries
      BY <1>2, VgaPixel, NibbleIsEntry DEF Bytes
    <3> QED BY <3>1, <3>2 DEF LikeInv, ColoursInv
  <2> QED BY <1>1, <2>1 DEF LikeInv
<1>4. ASSUME ~switched'
      PROVE  LikeInv'
  <2>1. /\ mode = CompatMode /\ vgaPalette = palette /\ fbsize = WindowWords * WordSize
        /\ width = DefaultWidth /\ height = DefaultHeight /\ ~switched
        /\ UNCHANGED <<mode, palette, fbsize, width, height>>
    BY <1>1, <1>4 DEF LikeInv, StoreScreen
  <2>2. word < WindowWords
    BY <1>1, <2>1, ColoursAssumption DEF StoreScreen, Visible
  <2>3. /\ UNCHANGED vgaPalette
        /\ vgaFb' = [p \in V!Pixels |->
                       IF p \div (2 * WordSize) = word
                       THEN palette[Nibble(bytes[(p \div 2) % WordSize], p % 2)] ELSE vgaFb[p]]
    BY <1>1, <2>1, <2>2, VgaNames DEF V!WriteScreen
  <2>4. vram' = [o \in VramBytes |-> IF o \div WordSize = word THEN bytes[o % WordSize] ELSE vram[o]]
    BY <1>1, <2>1 DEF StoreScreen, Ordered
  <2>5. ASSUME NEW p \in V!Pixels, NEW k \in Offsets
        PROVE  fb'[p * WordSize + k] = vgaFb'[p][k]
    <3> DEFINE f == p * WordSize + k
               o == p \div 2
    <3>1. /\ p \in Nat /\ p < DefaultWidth * DefaultHeight /\ p \div (2 * WordSize) = o \div WordSize
          /\ o < fbsize
      BY <2>1, VgaPixel
    <3>2. f \div WordSize = p /\ f % WordSize = k /\ f \div (2 * WordSize) = o
      BY <3>1, PixelByte
    <3>3. f \in DOMAIN fb
      BY <2>1, <3>1, PixelInFrame, M3pAssumption DEF FrameInv
    <3>4. Source(f) = o /\ \A b : Shown(f, b) = palette[Nibble(b, p % 2)][k]
      BY <2>1, <3>2 DEF Source, Shown
    <3>5. fb'[f] = IF o \div WordSize = word THEN palette[Nibble(bytes[o % WordSize], p % 2)][k]
                                             ELSE fb[f]
      <4>1. fb' = [g \in DOMAIN fb |->
                     IF Source(g) \div WordSize = word /\ Source(g) < fbsize
                     THEN Shown(g, bytes[Source(g) % WordSize]) ELSE fb[g]]
        BY <1>1, <2>1 DEF StoreScreen, Ordered
      <4> HIDE DEF f, o
      <4> QED BY <3>1, <3>3, <3>4, <4>1
    <3>6. fb[f] = vgaFb[p][k]
      BY <2>1 DEF LikeInv
    <3> HIDE DEF f, o
    <3> QED BY <2>3, <3>1, <3>5, <3>6 DEF f, o
  <2>6. ASSUME ~recoloured', NEW p \in V!Pixels
        PROVE  NamedBy(p)'
    <3>1. p \div (2 * WordSize) = (p \div 2) \div WordSize /\ p \div 2 \in VramBytes
      <4>1. p \in 0..(DefaultWidth * DefaultHeight - 1)
        BY VgaPixel, M3pAssumption
      <4>2. p \div 2 \in VramBytes
        BY <4>1, PixelsByte, M3pAssumption
      <4> QED BY <4>2, VgaPixel
    <3>2. NamedBy(p)
      BY <1>1, <2>1, <2>6 DEF LikeInv
    <3> DEFINE o == p \div 2
    <3>3. vram'[o] = (IF o \div WordSize = word THEN bytes[o % WordSize] ELSE vram[o])
      BY <2>4, <3>1
    <3>4. vgaFb'[p] = IF o \div WordSize = word THEN palette[Nibble(bytes[o % WordSize], p % 2)]
                                              ELSE vgaFb[p]
      BY <2>3, <3>1
    <3> HIDE DEF o
    <3>5. CASE o \div WordSize = word
      <4>1. vgaFb'[p] = palette'[Nibble(vram'[o], p % 2)]
        BY <2>1, <3>3, <3>4, <3>5
      <4> QED BY <4>1 DEF NamedBy, o
    <3>6. CASE o \div WordSize # word
      <4>1. vram'[o] = vram[o] /\ vgaFb'[p] = vgaFb[p]
        BY <3>3, <3>4, <3>6
      <4> QED BY <2>1, <3>2, <4>1 DEF NamedBy, o
    <3> QED BY <3>5, <3>6
  <2>7. ~recoloured' => palette' = DefaultPalette
    BY <1>1, <2>1 DEF LikeInv
  <2> QED BY <1>3, <2>1, <2>3, <2>5, <2>6, <2>7 DEF LikeInv
<1> QED BY <1>3, <1>4 DEF LikeInv

\* It colours both; the M3P is still in the compatible mode.
LEMMA ColoursAlike ==
  ASSUME LikeInv, ProgramColours
  PROVE  LikeInv'
<1>1. PICK entry \in Entries, bytes \in PaletteStores :
        StorePalette(entry, bytes) /\ V!WritePalette(entry, bytes)
  BY DEF ProgramColours
<1>2. /\ recoloured' = TRUE /\ UNCHANGED <<switched, fb, width, height, mode, fbsize, vgaFb>>
  BY <1>1 DEF ProgramColours, StorePalette, V!WritePalette
<1>3. mode = CompatMode /\ palette = vgaPalette => palette' = vgaPalette'
  <2>1. \A k \in Offsets : Last - k = 0 <=> k = Last
    BY ColoursAssumption DEF Offsets, Last
  <2>2. [k \in Offsets |-> IF Last - k = 0 THEN palette[entry][k] ELSE bytes[Last - k]]
          = [k \in Offsets |-> IF k = Last THEN palette[entry][k] ELSE bytes[Last - k]]
    BY <2>1
  <2>3. vgaPalette' = [vgaPalette EXCEPT ![entry] =
          [k \in Offsets |-> IF k = Last THEN vgaPalette[entry][k] ELSE bytes[Last - k]]]
    BY <1>1, VgaNames DEF V!WritePalette
  <2> QED BY <1>1, <2>2, <2>3 DEF StorePalette, Ordered
<1> QED BY <1>2, <1>3 DEF LikeInv

LEMMA LikeInvariant == DisplaysSpec => []LikeInv
<1>1. DisplaysInit => LikeInv
  <2> SUFFICES ASSUME DisplaysInit PROVE LikeInv
    OBVIOUS
  <2>1. /\ palette = DefaultPalette /\ vram = [o \in VramBytes |-> 0]
        /\ width = DefaultWidth /\ height = DefaultHeight /\ mode = CompatMode
        /\ fb = [o \in Frame(width, height) |-> 0]
        /\ vgaPalette = DefaultPalette /\ vgaFb = [p \in V!Pixels |-> Cleared]
    BY VgaNames DEF DisplaysInit, Init, V!Init
  <2>2. fbsize = WindowWords * WordSize
    BY DefaultFbsize DEF DisplaysInit, Init
  <2>3. Cleared \in Colour
    <3>1. 0 \in Byte
      BY ColoursAssumption DEF Byte, ByteMax
    <3> QED BY <3>1 DEF Cleared, Colour, Bytes
  <2>4. ASSUME NEW p \in V!Pixels
        PROVE  NamedBy(p) /\ \A k \in Offsets : fb[p * WordSize + k] = vgaFb[p][k]
    <3>1. p \in Nat /\ p < DefaultWidth * DefaultHeight
      BY VgaPixel
    <3>2. \A k \in Offsets : fb[p * WordSize + k] = 0
      BY <2>1, <3>1, PixelInFrame, M3pAssumption
    <3>3. p \div 2 \in VramBytes
      BY <3>1, PixelsByte, M3pAssumption
    <3>4. Nibble(0, p % 2) = 0
      BY ColoursAssumption DEF Nibble
    <3> QED BY <2>1, <3>2, <3>3, <3>4 DEF NamedBy, Cleared
  <2> QED BY <2>1, <2>2, <2>3, <2>4 DEF LikeInv
<1>2. FrameInv /\ ScreenInv /\ ColoursInv /\ LikeInv /\ [DisplaysNext]_vars /\ FrameInv' => LikeInv'
  <2> SUFFICES ASSUME FrameInv, ScreenInv, ColoursInv, LikeInv, [DisplaysNext]_vars, FrameInv'
               PROVE  LikeInv'
    OBVIOUS
  <2>1. ASSUME UNCHANGED <<vram, fb, palette, width, height, mode, fbsize, vgaPalette, vgaFb>>,
               ~switched' => UNCHANGED <<switched, recoloured>>
        PROVE  LikeInv'
    BY <2>1 DEF LikeInv, NamedBy
  <2>2. CASE ProgramSetsSize
    BY <2>1, <2>2 DEF ProgramSetsSize, StoreRegister
  <2>3. CASE ProgramControls
    <3>1. PICK bytes \in ControlStores :
            /\ StoreControl(bytes) /\ UNCHANGED <<vgaPalette, vgaFb>>
            /\ switched' = (switched \/ SetsMode(bytes))
            /\ recoloured' = (recoloured /\ ~SetsMode(bytes))
      BY <2>3 DEF ProgramControls
    <3>2. CASE switched'
      BY <3>1, <3>2 DEF LikeInv
    <3>3. CASE ~switched'
      <4>1. ~SetsMode(bytes) /\ ~switched
        BY <3>1, <3>3
      <4>2. NoCommand(bytes)
        BY <3>1, <4>1 DEF StoreControl, Resize, Reset, SwitchToAdvanced, SwitchToCompat, SetsMode
      <4>3. UNCHANGED <<vram, fb, palette, width, height, mode, fbsize>>
        BY <4>2 DEF NoCommand
      <4> QED BY <3>1, <4>1, <4>3 DEF LikeInv, NamedBy
    <3> QED BY <3>2, <3>3
  <2>4. CASE ProgramColours
    BY <2>4, ColoursAlike
  <2>5. CASE ProgramDraws
    BY <2>5, DrawsAlike
  <2>6. CASE UNCHANGED vars
    BY <2>1, <2>6 DEF vars, m3pVars
  <2> QED BY <2>2, <2>3, <2>4, <2>5, <2>6 DEF DisplaysNext
<1> QED BY <1>1, <1>2, ScreenInvariant, ColoursInvariant, PTL DEF DisplaysSpec

\* vga_palette_lookup_colour finds the colours of the palette at power-on, and
\* finds none that is cleared.
LEMMA LookupDefault ==
  ASSUME vgaPalette = DefaultPalette, NEW n \in Entries, NEW colour,
         colour = DefaultPalette[n] \/ (n = 0 /\ colour = Cleared)
  PROVE  V!Lookup(colour) = n
<1>1. Shades \in Nat \ {0, 1} /\ WordSize \in Nat \ {0, 1}
  BY ColoursAssumption
<1>2. 0 \in Offsets /\ Last \in Offsets /\ 0 # Last
  BY <1>1 DEF Offsets, Last
<1> DEFINE named == {i \in Entries : DefaultPalette[i] = colour}
<1>3. V!Lookup(colour) = IF named = {} THEN 0 ELSE CHOOSE i \in named : \A j \in named : i <= j
  BY VgaNames DEF V!Lookup
<1>4. CASE colour = DefaultPalette[n]
  <2>1. \A i \in Entries : DefaultPalette[i][0] = i * (Shades + 1)
    BY <1>2 DEF DefaultPalette
  <2>2. \A i \in Entries : i * (Shades + 1) = n * (Shades + 1) => i = n
    BY <1>1 DEF Entries
  <2>3. named = {n}
    BY <1>4, <2>1, <2>2
  <2>4. n <= n
    BY <1>1 DEF Entries
  <2> QED BY <1>3, <2>3, <2>4
<1>5. CASE n = 0 /\ colour = Cleared
  <2>1. \A i \in Entries : DefaultPalette[i][Last] = ByteMax
    BY <1>2 DEF DefaultPalette
  <2>2. Cleared[Last] = 0 /\ ByteMax # 0
    BY <1>1, <1>2 DEF Cleared, ByteMax
  <2>3. named = {}
    BY <1>5, <2>1, <2>2
  <2> QED BY <1>3, <1>5, <2>3
<1> QED BY <1>4, <1>5

\* The halves of a byte, put together.
LEMMA HalvesOfByte ==
  ASSUME NEW b \in Byte
  PROVE  Nibble(b, 0) * Shades + Nibble(b, 1) = b
<1>1. Shades \in Nat \ {0} /\ b \in Nat
  BY ColoursAssumption DEF Byte, ByteMax
<1>2. PICK d \in Nat, m \in 0..(Shades - 1) : b = d * Shades + m
  BY <1>1, Division
<1>3. Nibble(b, 0) = d /\ Nibble(b, 1) = m
  BY <1>1, <1>2, Quotient DEF Nibble
<1> QED BY <1>2, <1>3

\* Until a program sets a mode, the M3P shows what the VGA controller in its
\* place would, and the program reads the same from both (m3p.c:79-162, vga.c:36-85).
THEOREM StandsForVga == DisplaysSpec => []LikeVga
<1>1. FrameInv /\ ScreenInv /\ LikeInv => LikeVga
  <2> SUFFICES ASSUME FrameInv, ScreenInv, LikeInv, ~switched
               PROVE  /\ \A p \in V!Pixels : Pixel(p) = vgaFb[p]
                      /\ \A i \in Entries : ReadPalette(i) = V!ReadPalette(i)
                      /\ ~recoloured => \A word \in Visible : ReadScreen(word) = V!ReadScreen(word)
    BY DEF LikeVga
  <2>1. mode = CompatMode /\ vgaPalette = palette
    BY DEF LikeInv
  <2>2. ASSUME NEW p \in V!Pixels PROVE Pixel(p) = vgaFb[p]
    <3>1. vgaFb[p] \in [Offsets -> Byte]
      BY DEF LikeInv, Colour, Bytes
    <3>2. \A k \in Offsets : fb[p * WordSize + k] = vgaFb[p][k]
      BY DEF LikeInv
    <3> QED BY <3>1, <3>2 DEF Pixel
  <2>3. ASSUME NEW i \in Entries PROVE ReadPalette(i) = V!ReadPalette(i)
    BY <2>1, VgaNames DEF ReadPalette, V!ReadPalette, Ordered
  <2>4. ASSUME ~recoloured, NEW word \in Visible
        PROVE  ReadScreen(word) = V!ReadScreen(word)
    <3>1. word \in Nat /\ word < WindowWords /\ palette = DefaultPalette
      BY <2>1, <2>4, ColoursAssumption DEF Visible, LikeInv
    <3>2. ASSUME NEW k \in Offsets
          PROVE  vram[word * WordSize + k] =
                   LET p == 2 * (word * WordSize + k)
                   IN  V!Lookup(vgaFb[p]) * Shades + V!Lookup(vgaFb[p + 1])
      <4> DEFINE o == word * WordSize + k
                 p == 2 * o
      <4>1. ASSUME NEW side \in {0, 1}
            PROVE  V!Lookup(vgaFb[p + side]) = Nibble(vram[o], side) /\ o \in VramBytes
        <5>1. (p + side) \div 2 = o /\ (p + side) % 2 = side /\ p + side \in V!Pixels
          <6>1. o = word * WordSize + k /\ p + side = 2 * o + side
            OBVIOUS
          <6> HIDE DEF o, p
          <6> QED BY <3>1, <6>1, WindowPixel
        <5>2. o \in VramBytes
          <6>1. p + side \in 0..(DefaultWidth * DefaultHeight - 1)
            BY <5>1, VgaPixel, M3pAssumption
          <6> QED BY <5>1, <6>1, PixelsByte, M3pAssumption
        <5>3. Nibble(vram[o], side) \in Entries
          BY <5>2, NibbleIsEntry DEF ScreenInv
        <5>4. NamedBy(p + side)
          BY <2>4, <5>1 DEF LikeInv
        <5> HIDE DEF o, p
        <5>5. \/ vgaFb[p + side] = DefaultPalette[Nibble(vram[o], side)]
              \/ Nibble(vram[o], side) = 0 /\ vgaFb[p + side] = Cleared
          BY <3>1, <5>1, <5>4 DEF NamedBy
        <5>6. vgaPalette = DefaultPalette
          BY <2>1, <3>1
        <5>7. V!Lookup(vgaFb[p + side]) = Nibble(vram[o], side)
          BY <5>3, <5>5, <5>6, LookupDefault
        <5> QED BY <5>2, <5>7
      <4>2. V!Lookup(vgaFb[p]) = Nibble(vram[o], 0) /\ V!Lookup(vgaFb[p + 1]) = Nibble(vram[o], 1)
        <5>1. p + 0 = p
          BY <3>1, ColoursAssumption DEF Offsets, Last
        <5> HIDE DEF o, p
        <5> QED BY <4>1, <5>1
      <4>3. vram[o] \in Byte
        BY <4>1 DEF ScreenInv
      <4> HIDE DEF o
      <4> QED BY <4>2, <4>3, HalvesOfByte DEF o
    <3> QED BY <2>1, <3>2, VgaNames DEF ReadScreen, V!ReadScreen, Ordered
  <2> QED BY <2>2, <2>3, <2>4
<1> QED BY <1>1, ScreenInvariant, LikeInvariant, PTL
=============================================================================
