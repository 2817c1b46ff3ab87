---------------------------- MODULE MachineProofs ----------------------------
(***************************************************************************)
(* Proofs about the CPU, for every size of byte and of memory, every       *)
(* program and every device on the memory bus.  A word and its four bytes  *)
(* determine each other; every instruction of Machine is then the          *)
(* instruction of Isa with the same fields.                                *)
(***************************************************************************)
EXTENDS Machine, TLAPS

-----------------------------------------------------------------------------
(* Numbers and their digits *)

LEMMA Division ==
  ASSUME NEW a \in Nat, NEW size \in Nat \ {0}
  PROVE  \E d \in Nat, m \in 0..(size - 1) :
           a = d * size + m /\ d = a \div size /\ m = a % size
<1>1. PICK d \in Nat, m \in 0..(size - 1) : d = a \div size /\ m = a % size
  OBVIOUS
<1>2. a = d * size + m
  BY <1>1
<1> QED BY <1>1, <1>2

LEMMA Quotient ==
  ASSUME NEW size \in Nat \ {0}, NEW q \in Nat, NEW r \in 0..(size - 1),
         NEW a, a = q * size + r
  PROVE  a \div size = q /\ a % size = r
<1>1. PICK d \in Int, m \in 0..(size - 1) :
        d = a \div size /\ m = a % size /\ a = d * size + m
  OBVIOUS
<1>2. (q - d) * size = m - r /\ (d - q) * size = r - m
  BY <1>1
<1>3. CASE q = d
  BY <1>1, <1>3
<1>4. CASE q > d
  <2>1. (q - d) * size >= size
    BY <1>4
  <2> QED BY <1>1, <1>2, <2>1
<1>5. CASE q < d
  <2>1. (d - q) * size >= size
    BY <1>5
  <2> QED BY <1>1, <1>2, <2>1
<1> QED BY <1>1, <1>3, <1>4, <1>5

\* A digit and what is below it are below the next power.
LEMMA Below ==
  ASSUME NEW n \in Nat \ {0}, NEW m \in Nat \ {0},
         NEW d \in 0..(n - 1), NEW r \in 0..(m - 1)
  PROVE  d * m + r \in 0..(n * m - 1)
<1>1. d * m \in Nat /\ (d + 1) * m =< n * m /\ (d + 1) * m = d * m + m
  OBVIOUS
<1> QED BY <1>1

LEMMA Digits ==
  ASSUME NEW n \in Nat \ {0}, NEW b1 \in 0..(n - 1), NEW b2 \in 0..(n - 1),
         NEW b3 \in 0..(n - 1), NEW b4 \in 0..(n - 1),
         NEW w, w = ((b1 * n + b2) * n + b3) * n + b4
  PROVE  /\ (w \div (n * (n * n))) % n = b1
         /\ (w \div (n * n)) % n = b2
         /\ (w \div n) % n = b3
         /\ (w \div 1) % n = b4
<1> DEFINE q2 == b1 * n + b2
           q  == q2 * n + b3
           r  == b3 * n + b4
           r3 == b2 * (n * n) + r
<1>1. q2 \in Nat /\ q \in Nat /\ w = q * n + b4 /\ w \in Nat
  OBVIOUS
<1>2. n * n \in Nat \ {0} /\ n * (n * n) \in Nat \ {0}
  OBVIOUS
<1>3. r \in 0..(n * n - 1)
  BY Below
<1>4. r3 \in 0..(n * (n * n) - 1)
  BY <1>2, <1>3, Below
<1>5. w = q2 * (n * n) + r
  OBVIOUS
<1>6. w = b1 * (n * (n * n)) + r3
  OBVIOUS
<1> HIDE DEF q2, q, r, r3
<1>7. w \div n = q /\ w % n = b4
  BY <1>1, Quotient
<1>8. w \div (n * n) = q2
  BY <1>1, <1>2, <1>3, <1>5, Quotient
<1>9. w \div (n * (n * n)) = b1
  BY <1>2, <1>4, <1>6, Quotient
<1>10. q % n = b3 /\ q2 % n = b2 /\ b1 % n = b1
  <2>1. q % n = b3
    BY <1>1, Quotient DEF q
  <2>2. q2 % n = b2
    BY Quotient DEF q2
  <2>3. b1 = 0 * n + b1
    OBVIOUS
  <2>4. b1 % n = b1
    BY <2>3, Quotient
  <2> QED BY <2>1, <2>2, <2>4
<1>11. w \div 1 = w
  BY <1>1
<1> QED BY <1>7, <1>8, <1>9, <1>10, <1>11

LEMMA Sizes ==
  /\ NibbleValues \in Nat \ {0} /\ ByteValues \in Nat \ {0}
  /\ ByteValues = NibbleValues * NibbleValues
  /\ HalfValues \in Nat \ {0} /\ HalfValues = ByteValues * ByteValues
  /\ WordValues \in Nat \ {0} /\ WordValues = HalfValues * HalfValues
  /\ ByteValues >= 4 /\ HalfValues >= 4
  /\ CellCount \in Nat \ {0}
<1>1. NibbleValues \in Nat /\ NibbleValues >= 2
  BY NibbleAssumption
<1>2. ByteValues \in Nat /\ ByteValues >= 4
  <2>1. NibbleValues * NibbleValues >= 2 * NibbleValues
    BY <1>1
  <2> QED BY <1>1, <2>1 DEF ByteValues
<1>3. HalfValues \in Nat /\ HalfValues >= 4
  <2>1. ByteValues * ByteValues >= 4 * ByteValues
    BY <1>2
  <2> QED BY <1>2, <2>1 DEF HalfValues
<1>4. WordValues \in Nat /\ WordValues >= 4
  <2>1. HalfValues * HalfValues >= 4 * HalfValues
    BY <1>3
  <2> QED BY <1>3, <2>1 DEF WordValues
<1>5. CellCount \in Nat \ {0}
  BY <1>4 DEF CellCount
<1> QED BY <1>1, <1>2, <1>3, <1>4, <1>5 DEF ByteValues, HalfValues, WordValues

\* A word of memory and the number it stands for determine each other.
LEMMA BytesOfWord ==
  ASSUME NEW b \in WordBytes
  PROVE  htonl(ntohl(b)) = b /\ ntohl(b) \in Word
<1>1. /\ b = <<b[1], b[2], b[3], b[4]>>
      /\ b[1] \in 0..(ByteValues - 1) /\ b[2] \in 0..(ByteValues - 1)
      /\ b[3] \in 0..(ByteValues - 1) /\ b[4] \in 0..(ByteValues - 1)
  BY DEF WordBytes, Byte
<1>2. htonl(ntohl(b)) = b
  BY <1>1, Sizes, Digits DEF htonl, ntohl, HalfValues
<1>3. ntohl(b) \in Word
  <2> DEFINE q2 == b[1] * ByteValues + b[2]
             r  == b[3] * ByteValues + b[4]
  <2>1. q2 \in 0..(HalfValues - 1) /\ r \in 0..(HalfValues - 1)
    BY <1>1, Sizes, Below
  <2>2. ntohl(b) = q2 * HalfValues + r
    BY <1>1, Sizes DEF ntohl
  <2> HIDE DEF q2, r
  <2>3. q2 * HalfValues + r \in 0..(WordValues - 1)
    BY <2>1, Sizes, Below
  <2> QED BY <2>2, <2>3 DEF Word
<1> QED BY <1>2, <1>3

LEMMA WordHasBytes ==
  ASSUME NEW w \in Word
  PROVE  htonl(w) \in WordBytes /\ ntohl(htonl(w)) = w
<1> DEFINE n == ByteValues
<1>0. n \in Nat \ {0} /\ w \in Nat
  BY Sizes DEF Word
<1> HIDE DEF n
<1>1. PICK q \in Nat, b4 \in 0..(n - 1) : w = q * n + b4
  BY <1>0, Division
<1>2. PICK q2 \in Nat, b3 \in 0..(n - 1) : q = q2 * n + b3
  BY <1>0, <1>1, Division
<1>3. PICK b1 \in Nat, b2 \in 0..(n - 1) : q2 = b1 * n + b2
  BY <1>0, <1>2, Division
<1>4. b1 \in 0..(n - 1)
  <2>1. w < n * (n * (n * n))
    BY Sizes DEF Word, n
  <2>2. w = b1 * (n * (n * n)) + (b2 * (n * n) + b3 * n + b4)
    BY <1>0, <1>1, <1>2, <1>3
  <2>3. b2 * (n * n) + b3 * n + b4 \in Nat /\ n * (n * n) \in Nat \ {0}
    BY <1>0
  <2>4. b1 >= n => b1 * (n * (n * n)) >= n * (n * (n * n))
    BY <1>0, <2>3
  <2> QED BY <1>0, <2>1, <2>2, <2>3, <2>4
<1> DEFINE b == <<b1, b2, b3, b4>>
<1>5. b \in WordBytes
  BY <1>4 DEF WordBytes, Byte, n
<1>6. ntohl(b) = w
  BY <1>1, <1>2, <1>3 DEF ntohl, n
<1> HIDE DEF b
<1> QED BY <1>5, <1>6, BytesOfWord

-----------------------------------------------------------------------------
(***************************************************************************)
(* The instance of Isa has its own copies of the operators of Words and    *)
(* Instructions: they are the ones Machine uses.                           *)
(***************************************************************************)
LEMMA SameSizes ==
  /\ ISA!ByteValues = ByteValues /\ ISA!HalfValues = HalfValues
  /\ ISA!WordValues = WordValues /\ ISA!HalfBits = HalfBits
  /\ ISA!WordBits = WordBits /\ ISA!CellCount = CellCount
  /\ ISA!Byte = Byte /\ ISA!Word = Word /\ ISA!Regs = Regs
BY DEF ISA!ByteValues, ByteValues, ISA!HalfValues, HalfValues, ISA!WordValues,
       WordValues, ISA!HalfBits, HalfBits, ISA!WordBits, WordBits,
       ISA!CellCount, CellCount, ISA!Byte, Byte, ISA!Word, Word, ISA!Regs, Regs

LEMMA SameConversions ==
  /\ \A n : ISA!Wrap(n) = Wrap(n)
  /\ \A h : ISA!Signed(h) = Signed(h)
  /\ \A b : ISA!ntohs(b) = ntohs(b)
  /\ \A w : ISA!htonl(w) = htonl(w)
BY SameSizes DEF ISA!Wrap, Wrap, ISA!Signed, Signed, ISA!ntohs, ntohs,
                 ISA!htonl, htonl

LEMMA SameOpcodes ==
  /\ ISA!RegisterForms = RegisterForms /\ ISA!ImmediateForm = ImmediateForm
  /\ ISA!ComputeOps = ComputeOps /\ ISA!JumpOps = JumpOps /\ ISA!Taken = Taken
  /\ \A op : ISA!Operation(op) = Operation(op)
  /\ \A d, a : ISA!Compare(d, a) = Compare(d, a)
  /\ \A b : ISA!Fields(b) = Fields(b)
BY DEF ISA!RegisterForms, RegisterForms, ISA!ImmediateForm, ImmediateForm,
       ISA!ComputeOps, ComputeOps, ISA!JumpOps, JumpOps, ISA!Taken, Taken,
       ISA!Operation, Operation, ISA!Compare, Compare, ISA!Fields, Fields,
       ISA!OpOf, OpOf

LEMMA SameBits ==
  /\ \A w, k : ISA!Bit(w, k) = Bit(w, k)
  /\ \A b : ISA!FromBits(b) = FromBits(b)
  /\ \A n : ISA!ShiftCounts(n) = ShiftCounts(n)
BY SameSizes DEF ISA!Bit, Bit, ISA!FromBits, FromBits, ISA!ShiftCounts, ShiftCounts

LEMMA SameResults ==
  \A op, x, y : ISA!Results(op, x, y) = Results(op, x, y)
<1> SUFFICES ASSUME NEW op, NEW x, NEW y
             PROVE  ISA!Results(op, x, y) = Results(op, x, y)
  OBVIOUS
<1>1. ISA!Bitwise(ISA!And, x, y) = Bitwise(And, x, y)
  BY SameSizes, SameBits DEF ISA!Bitwise, Bitwise, ISA!And, And
<1>2. ISA!Bitwise(ISA!Or, x, y) = Bitwise(Or, x, y)
  BY SameSizes, SameBits DEF ISA!Bitwise, Bitwise, ISA!Or, Or
<1>3. ISA!Bitwise(ISA!Xor, x, y) = Bitwise(Xor, x, y)
  BY SameSizes, SameBits DEF ISA!Bitwise, Bitwise, ISA!Xor, Xor
<1>4. ISA!ShiftLeft(x, y) = ShiftLeft(x, y)
  BY DEF ISA!ShiftLeft, ShiftLeft, ISA!ShiftCounts, ShiftCounts, ISA!Bit, Bit,
         ISA!FromBits, FromBits, ISA!WordBits, WordBits, ISA!HalfBits, HalfBits,
         ISA!Word, Word, ISA!WordValues, WordValues, ISA!HalfValues, HalfValues,
         ISA!ByteValues, ByteValues
<1>5. ISA!ShiftRight(x, y) = ShiftRight(x, y)
  BY DEF ISA!ShiftRight, ShiftRight, ISA!ShiftCounts, ShiftCounts, ISA!Bit, Bit,
         ISA!FromBits, FromBits, ISA!WordBits, WordBits, ISA!HalfBits, HalfBits,
         ISA!Word, Word, ISA!WordValues, WordValues, ISA!HalfValues, HalfValues,
         ISA!ByteValues, ByteValues
<1> QED BY <1>1, <1>2, <1>3, <1>4, <1>5, SameSizes, SameConversions
        DEF ISA!Results, Results

\* What an operation leaves in a register is a word.
LEMMA WrapsToWord ==
  ASSUME NEW n \in Int PROVE Wrap(n) \in Word
BY Sizes DEF Wrap, Word

LEMMA HighWord ==
  ASSUME NEW x \in Word, NEW y \in Word PROVE (x * y) \div WordValues \in Word
<1> DEFINE n == WordValues
           p == x * y
<1>1. n \in Nat \ {0} /\ x \in 0..(n - 1) /\ y \in 0..(n - 1)
  BY Sizes DEF Word
<1>2. p \in Nat /\ p < n * n
  <2> HIDE DEF n
  <2>1. x * y =< x * n /\ x * n =< (n - 1) * n /\ (n - 1) * n < n * n
    BY <1>1
  <2> QED BY <1>1, <2>1
<1> HIDE DEF n, p
<1>3. PICK d \in Nat, m \in 0..(n - 1) : p = d * n + m /\ d = p \div n
  BY <1>1, <1>2, Division
<1>4. d >= n => d * n >= n * n
  BY <1>1
<1>5. d \in 0..(n - 1)
  BY <1>1, <1>2, <1>3, <1>4
<1> QED BY <1>3, <1>5 DEF n, p, Word

\* What an operation leaves in a register is a word.
LEMMA ResultsAreWords ==
  ASSUME NEW op \in ComputeOps, NEW x \in Word, NEW y \in Word
  PROVE  Results(Operation(op), x, y) \subseteq Word
<1>1. Operation(op) \in RegisterForms
  BY DEF ComputeOps, Operation, ImmediateForm, RegisterForms
<1>2. \A b : FromBits(b) \subseteq Word
  BY Zenon DEF FromBits
<1>3. /\ Bitwise(And, x, y) \subseteq Word /\ Bitwise(Or, x, y) \subseteq Word
      /\ Bitwise(Xor, x, y) \subseteq Word
  BY <1>2 DEF Bitwise
<1>4. ShiftLeft(x, y) \subseteq Word /\ ShiftRight(x, y) \subseteq Word
  BY <1>2 DEF ShiftLeft, ShiftRight
<1>5. /\ {Wrap(x + y)} \subseteq Word /\ {Wrap(x - y)} \subseteq Word
      /\ {Wrap(x * y)} \subseteq Word
  <2>1. x + y \in Int /\ x - y \in Int /\ x * y \in Int
    BY DEF Word
  <2> QED BY <2>1, WrapsToWord
<1>6. {(x * y) \div WordValues} \subseteq Word
  BY HighWord
<1> QED BY <1>1, <1>3, <1>4, <1>5, <1>6 DEF Results, RegisterForms

-----------------------------------------------------------------------------
(* Fields, registers and memory *)

LEMMA FieldTypes ==
  ASSUME NEW b \in WordBytes
  PROVE  /\ Fields(b).dest \in Regs /\ Fields(b).reg_a \in Regs
         /\ Fields(b).reg_b \in Regs /\ IMM(Fields(b)) \in Half
         /\ Fields(b).op \in Ops
<1>1. \A x \in Byte : x \div NibbleValues \in Regs /\ x % NibbleValues \in Regs
  <2> SUFFICES ASSUME NEW x \in Byte
               PROVE  x \div NibbleValues \in Regs /\ x % NibbleValues \in Regs
    OBVIOUS
  <2> DEFINE n == NibbleValues
  <2>1. n \in Nat \ {0} /\ x \in Nat /\ x < n * n
    BY Sizes DEF Byte
  <2> HIDE DEF n
  <2>2. PICK d \in Nat, m \in 0..(n - 1) : x = d * n + m /\ d = x \div n /\ m = x % n
    BY <2>1, Division
  <2>3. d >= n => d * n >= n * n
    BY <2>1
  <2>4. d \in 0..(n - 1)
    BY <2>1, <2>2, <2>3
  <2> QED BY <2>2, <2>4 DEF Regs, n
<1>2. b[1] \in Byte /\ b[2] \in Byte /\ b[3] \in Byte /\ b[4] \in Byte
  BY DEF WordBytes
<1>3. b[3] * ByteValues + b[4] \in Half
  BY <1>2, Sizes, Below DEF Byte, Half
<1>4. OpOf(b[1]) \in Ops
  BY OpcodeAssumption DEF OpOf, Ops, OtherOps
<1> QED BY <1>1, <1>2, <1>3, <1>4 DEF Fields, IMM, ntohs

LEMMA RegisterWord ==
  ASSUME TypeOK, NEW r \in Regs PROVE RREGISTER(r) \in Word
BY BytesOfWord DEF TypeOK, RREGISTER

LEMMA SignedInt == \A h \in Half : Signed(h) \in Int /\ h \in Word
<1>1. HalfValues =< WordValues
  <2>1. HalfValues * HalfValues >= HalfValues
    BY Sizes
  <2> QED BY <2>1, Sizes
<1> QED BY <1>1, Sizes DEF Half, Signed, Word

LEMMA CellRange ==
  ASSUME NEW address \in Word
  PROVE  address % CellCount \in 0..(CellCount - 1)
BY Sizes DEF Word

\* What the bus gives is four bytes; where there is memory, the ones it holds.
LEMMA ReadIsMemory ==
  ASSUME TypeOK, NEW address \in Word, NEW bytes \in MemRead(address)
  PROVE  /\ bytes \in WordBytes
         /\ address % CellCount \in Cells => ntohl(bytes) = WordOf(address % CellCount)
<1> DEFINE c == address % CellCount
<1>1. c \in 0..(CellCount - 1)
  BY CellRange
<1>2. \A a \in Nat : ReadByte(a) \subseteq Byte
  BY RamAssumption, ForeignAssumption DEF ReadByte, TypeOK
<1>3. PICK b0 \in ReadByte(ByteAddress(address, 0)),
           b1 \in ReadByte(ByteAddress(address, 1)),
           b2 \in ReadByte(ByteAddress(address, 2)),
           b3 \in ReadByte(ByteAddress(address, 3)) : bytes = <<b0, b1, b2, b3>>
  BY DEF MemRead
<1>4. \A b \in 0..3 : ByteAddress(address, b) = 4 * c + b /\ 4 * c + b \in Nat
  BY <1>1, Sizes DEF ByteAddress
<1>5. bytes \in WordBytes
  <2>1. b0 \in Byte /\ b1 \in Byte /\ b2 \in Byte /\ b3 \in Byte
    BY <1>2, <1>3, <1>4
  <2> QED BY <1>3, <2>1 DEF WordBytes
<1>6. ASSUME c \in Cells PROVE ntohl(bytes) = WordOf(c)
  <2>1. c % CellCount = c
    BY <1>1, Sizes
  <2>2. \A b \in 0..3 : ByteAddress(c, b) = 4 * c + b
    BY <2>1 DEF ByteAddress
  <2>3. \A b \in 0..3 : 4 * c + b < RamSize /\ 4 * c + b \notin ReadClaims
    BY <1>6, <2>2 DEF Cells
  <2>4. \A b \in 0..3 : ReadByte(4 * c + b) = {ram[4 * c + b]}
    BY <1>4, <2>3, RamAssumption DEF ReadByte
  <2>5. b0 = ram[4 * c + 0] /\ b1 = ram[4 * c + 1] /\ b2 = ram[4 * c + 2] /\ b3 = ram[4 * c + 3]
    BY <1>3, <1>4, <2>4
  <2> QED BY <1>3, <2>2, <2>5 DEF WordOf, ntohl
<1> QED BY <1>5, <1>6

LEMMA WriteIsMemory ==
  ASSUME TypeOK, NEW address \in Word, NEW bytes \in WordBytes,
         MemWrite(address, bytes)
  PROVE  /\ ram' \in [0..(RamSize - 1) -> Byte]
         /\ \A c \in Cells : WordOf(c)' = IF c = address % CellCount THEN ntohl(bytes)
                                                                  ELSE WordOf(c)
         /\ \A a \in WriteClaims \cap DOMAIN ram : ram'[a] = ram[a]
<1>1. /\ DOMAIN ram = 0..(RamSize - 1) /\ ram \in [0..(RamSize - 1) -> Byte]
      /\ DOMAIN ram' = 0..(RamSize - 1)
      /\ \A a \in 0..(RamSize - 1) :
           ram'[a] = IF a \div 4 = address % CellCount /\ a \notin WriteClaims
                     THEN bytes[(a % 4) + 1] ELSE ram[a]
  BY DEF MemWrite, TypeOK
<1>2. \A k \in 1..4 : bytes[k] \in Byte
  BY DEF WordBytes
<1>3. ram' \in [0..(RamSize - 1) -> Byte]
  <2>1. \A a \in 0..(RamSize - 1) : (a % 4) + 1 \in 1..4
    BY RamAssumption
  <2>2. \A a \in 0..(RamSize - 1) : ram'[a] \in Byte
    BY <1>1, <1>2, <2>1
  <2>3. ram' = [a \in 0..(RamSize - 1) |-> ram'[a]]
    BY DEF MemWrite, TypeOK
  <2> QED BY <2>2, <2>3
<1>4. ASSUME NEW c \in Cells
      PROVE  WordOf(c)' = IF c = address % CellCount THEN ntohl(bytes) ELSE WordOf(c)
  <2>1. c \in 0..(CellCount - 1) /\ c % CellCount = c
    BY Sizes DEF Cells
  <2>2. \A b \in 0..3 : ByteAddress(c, b) = 4 * c + b
    BY <2>1 DEF ByteAddress
  <2>3. \A b \in 0..3 : 4 * c + b \in 0..(RamSize - 1) /\ 4 * c + b \notin WriteClaims
    BY <2>1, <2>2, RamAssumption, Sizes DEF Cells
  <2>4. \A b \in 0..3 : (4 * c + b) \div 4 = c /\ ((4 * c + b) % 4) + 1 = b + 1
    BY <2>1, Sizes
  <2>5. \A b \in 0..3 : ram'[4 * c + b] = IF c = address % CellCount
                                          THEN bytes[b + 1] ELSE ram[4 * c + b]
    BY <1>1, <2>3, <2>4
  <2>6. WordOf(c) = ((ram[4 * c + 0] * ByteValues + ram[4 * c + 1]) * ByteValues
                       + ram[4 * c + 2]) * ByteValues + ram[4 * c + 3]
    BY <2>2 DEF WordOf, ntohl
  <2>7. WordOf(c)' = ((ram'[4 * c + 0] * ByteValues + ram'[4 * c + 1]) * ByteValues
                       + ram'[4 * c + 2]) * ByteValues + ram'[4 * c + 3]
    BY <2>2 DEF WordOf, ntohl
  <2>8. CASE c = address % CellCount
    <3>1. /\ ram'[4 * c + 0] = bytes[1] /\ ram'[4 * c + 1] = bytes[2]
          /\ ram'[4 * c + 2] = bytes[3] /\ ram'[4 * c + 3] = bytes[4]
      BY <2>5, <2>8
    <3> QED BY <2>7, <2>8, <3>1 DEF ntohl
  <2>9. CASE c # address % CellCount
    BY <2>5, <2>6, <2>7, <2>9
  <2> QED BY <2>8, <2>9
<1>5. ASSUME NEW a \in WriteClaims \cap DOMAIN ram PROVE ram'[a] = ram[a]
  BY <1>1
<1> QED BY <1>3, <1>4, <1>5

-----------------------------------------------------------------------------
(* What a step does to the registers and the memory the program sees *)

isaRegs == [r \in Regs |-> RREGISTER(r)]
isaMem  == [c \in Cells |-> WordOf(c)]

LEMMA SetRegRefines ==
  ASSUME TypeOK, NEW r \in Regs, NEW b \in WordBytes, SetReg(r, b)
  PROVE  regs' \in [Regs -> WordBytes] /\ ISA!SetReg(r, ntohl(b))
<1>1. regs' = [regs EXCEPT ![r] = b] /\ regs \in [Regs -> WordBytes]
  BY DEF SetReg, TypeOK
<1>2. isaRegs' = [isaRegs EXCEPT ![r] = ntohl(b)]
  <2>1. \A q \in Regs : RREGISTER(q)' = IF q = r THEN ntohl(b) ELSE RREGISTER(q)
    BY <1>1 DEF RREGISTER
  <2> QED BY <2>1 DEF isaRegs
<1> QED BY <1>1, <1>2 DEF ISA!SetReg, isaRegs

LEMMA SameCell ==
  \A address : /\ ISA!Cell(address) = address % CellCount
               /\ ISA!IsCell(address) <=> address % CellCount \in Cells
BY SameSizes DEF ISA!Cell, ISA!IsCell

LEMMA WriteRefines ==
  ASSUME TypeOK, NEW address \in Word, NEW bytes \in WordBytes,
         MemWrite(address, bytes)
  PROVE  ISA!Write(address, ntohl(bytes))
<1>1. \A c \in Cells : WordOf(c)' = IF c = address % CellCount THEN ntohl(bytes)
                                                               ELSE WordOf(c)
  BY WriteIsMemory
<1>2. isaMem' = [c \in Cells |-> IF c = address % CellCount THEN ntohl(bytes)
                                                            ELSE isaMem[c]]
  BY <1>1 DEF isaMem
<1> QED BY <1>2, SameCell DEF ISA!Write, isaMem

LEMMA ReceiveRefines ==
  ASSUME TypeOK, NEW r \in Regs, NEW address \in Word,
         NEW bytes \in MemRead(address), SetReg(r, bytes)
  PROVE  ISA!Receive(r, address)
<1>1. /\ bytes \in WordBytes
      /\ address % CellCount \in Cells => ntohl(bytes) = WordOf(address % CellCount)
  BY ReadIsMemory
<1>2. ISA!SetReg(r, ntohl(bytes))
  BY <1>1, SetRegRefines
<1>3. CASE ISA!IsCell(address)
  <2>1. isaMem[ISA!Cell(address)] = ntohl(bytes)
    BY <1>1, <1>3, SameCell DEF isaMem
  <2> QED BY <1>2, <1>3, <2>1 DEF ISA!Receive, isaMem
<1>4. CASE ~ISA!IsCell(address)
  <2>1. isaRegs' = [isaRegs EXCEPT ![r] = ntohl(bytes)] /\ ntohl(bytes) \in Word
    BY <1>1, <1>2, BytesOfWord DEF ISA!SetReg, isaRegs
  <2>2. \A q \in Regs : isaRegs[q] \in Word
    BY RegisterWord DEF isaRegs
  <2>3. isaRegs' \in [Regs -> Word] /\ \A q \in Regs \ {r} : isaRegs'[q] = isaRegs[q]
    <3>1. isaRegs = [q \in Regs |-> isaRegs[q]]
      BY DEF isaRegs
    <3> HIDE DEF isaRegs
    <3> QED BY <2>1, <2>2, <3>1
  <2> QED BY <1>4, <2>3, SameSizes DEF ISA!Receive, isaRegs
<1> QED BY <1>3, <1>4

LEMMA StillRegs ==
  ASSUME UNCHANGED regs PROVE [r \in Regs |-> RREGISTER(r)]' = [r \in Regs |-> RREGISTER(r)]
BY DEF RREGISTER

LEMMA StillMem ==
  ASSUME UNCHANGED ram PROVE [c \in Cells |-> WordOf(c)]' = [c \in Cells |-> WordOf(c)]
BY DEF WordOf

-----------------------------------------------------------------------------
(* Type correctness *)

LEMMA NextAddresses ==
  ASSUME TypeOK, NEW b \in WordBytes
  PROVE  /\ PcNext \in Word /\ Displaced(Fields(b)) \in Word
         /\ Wrap(sp - 1) \in Word /\ Wrap(sp + 1) \in Word /\ Wrap(sp + 2) \in Word
         /\ IMM(Fields(b)) \in Word
<1>1. pc \in Int /\ sp \in Int
  BY DEF TypeOK, Word
<1>2. IMM(Fields(b)) \in Word /\ Signed(IMM(Fields(b))) \in Int
  BY FieldTypes, SignedInt
<1>3. \A n \in Int : Wrap(n) \in Word
  BY WrapsToWord
<1> QED BY <1>1, <1>2, <1>3 DEF PcNext, Displaced

LEMMA Accessed ==
  ASSUME TypeOK, NEW b \in WordBytes, NEW r \in Regs
  PROVE  Wrap(RREGISTER(r) + IMM(Fields(b))) \in Word
<1>1. RREGISTER(r) \in Int /\ IMM(Fields(b)) \in Int
  BY RegisterWord, NextAddresses DEF Word
<1> QED BY <1>1, WrapsToWord

LEMMA Operand ==
  ASSUME TypeOK, NEW b \in WordBytes, Fields(b).op \in ComputeOps
  PROVE  Results(Operation(Fields(b).op), RREGISTER(Fields(b).reg_a),
                 IF Fields(b).op \in RegisterForms THEN RREGISTER(Fields(b).reg_b)
                                                   ELSE IMM(Fields(b))) \subseteq Word
BY ResultsAreWords, FieldTypes, RegisterWord, NextAddresses

LEMMA SetRegType ==
  ASSUME TypeOK, NEW r \in Regs, NEW b \in WordBytes, SetReg(r, b)
  PROVE  regs' \in [Regs -> WordBytes]
BY SetRegRefines

LEMMA ExecuteKeepsType ==
  ASSUME TypeOK, NEW b \in WordBytes, Execute(Fields(b))
  PROVE  TypeOK'
<1> DEFINE i == Fields(b)
<1>0. /\ i.dest \in Regs /\ i.reg_a \in Regs /\ i.reg_b \in Regs
      /\ IMM(i) \in Word /\ PcNext \in Word /\ Displaced(i) \in Word
      /\ Wrap(sp - 1) \in Word /\ Wrap(sp + 1) \in Word /\ Wrap(sp + 2) \in Word
      /\ \A r \in Regs : RREGISTER(r) \in Word
      /\ \A r \in Regs : Wrap(RREGISTER(r) + IMM(i)) \in Word
      /\ \A w \in Word : htonl(w) \in WordBytes
  BY FieldTypes, NextAddresses, RegisterWord, Accessed, WordHasBytes
<1>a. \A r \in Regs, d \in WordBytes : SetReg(r, d) => regs' \in [Regs -> WordBytes]
  BY SetRegType
<1>b. \A a \in Word, d \in WordBytes : MemWrite(a, d) => ram' \in [0..(RamSize - 1) -> Byte]
  BY WriteIsMemory
<1>c. \A a \in Word : MemRead(a) \subseteq WordBytes
  BY ReadIsMemory
<1>d. regs \in [Regs -> WordBytes] /\ sp \in Word /\ pc \in Word
      /\ halt \in BOOLEAN /\ ram \in [0..(RamSize - 1) -> Byte]
  BY DEF TypeOK
<1>e. stall' \in 0..5
  BY DEF Execute, StallCycles
<1> SUFFICES /\ regs' \in [Regs -> WordBytes] /\ pc' \in Word /\ sp' \in Word
             /\ halt' \in BOOLEAN /\ ram' \in [0..(RamSize - 1) -> Byte]
  BY <1>e DEF TypeOK
<1>1. CASE Compute(i)
  <2>1. PICK w \in Word : SetReg(i.dest, htonl(w))
    BY <1>1, Operand DEF Compute
  <2> QED BY <1>0, <1>a, <1>d, <1>1, <2>1 DEF Compute
<1>2. CASE Load(i)
  <2>1. \E d \in WordBytes : SetReg(i.dest, d)
    <3>1. htonl(VersionWord) \in WordBytes /\ htonl(IdentWord) \in WordBytes
      BY <1>0, CpuWordsAssumption
    <3> QED BY <1>0, <1>c, <1>2, <3>1 DEF Load
  <2> QED BY <1>0, <1>a, <1>d, <1>2, <2>1 DEF Load
<1>3. CASE Store(i)
  <2>1. regs[i.reg_a] \in WordBytes
    BY <1>0, <1>d
  <2> QED BY <1>0, <1>b, <1>d, <1>3, <2>1 DEF Store
<1>4. CASE Branch(i)
  BY <1>0, <1>d, <1>4 DEF Branch
<1>5. CASE Jump(i)
  <2>1. pc' \in Word
    BY <1>0, <1>5 DEF Jump, JumpOps
  <2>2. regs' \in [Regs -> WordBytes]
    BY <1>0, <1>a, <1>d, <1>5 DEF Jump
  <2>3. halt' \in BOOLEAN
    BY <1>5 DEF Jump
  <2> QED BY <1>d, <1>5, <2>1, <2>2, <2>3 DEF Jump
<1>6. CASE Move(i)
  BY <1>0, <1>a, <1>d, <1>6 DEF Move
<1>7. CASE Push(i)
  <2>1. regs[i.reg_a] \in WordBytes /\ sp' \in Word
    BY <1>0, <1>d, <1>7 DEF Push
  <2> QED BY <1>0, <1>b, <1>d, <1>7, <2>1 DEF Push
<1>8. CASE Pop(i)
  BY <1>0, <1>a, <1>c, <1>d, <1>8 DEF Pop
<1>9. CASE Call(i)
  <2>1. htonl(PcNext) \in WordBytes /\ sp' \in Word
    BY <1>0, <1>9 DEF Call
  <2> QED BY <1>0, <1>b, <1>d, <1>9, <2>1 DEF Call
<1>10. CASE Ret(i)
  <2>1. pc' \in Word
    BY <1>c, <1>d, <1>10, BytesOfWord DEF Ret
  <2> QED BY <1>0, <1>d, <1>10, <2>1 DEF Ret
<1>11. CASE Iret(i)
  <2>1. PICK d \in MemRead(sp) : pc' = ntohl(<<d[4], d[3], d[2], d[1]>>)
    BY <1>11 DEF Iret
  <2>2. <<d[4], d[3], d[2], d[1]>> \in WordBytes
    BY <1>c, <1>d, <2>1 DEF WordBytes
  <2>3. pc' \in Word
    BY <2>1, <2>2, BytesOfWord
  <2> QED BY <1>0, <1>d, <1>11, <2>3 DEF Iret
<1>12. CASE Io(i)
  <2>1. <<0, 0, 0, 0>> \in WordBytes
    BY Sizes DEF WordBytes, Byte
  <2> QED BY <1>0, <1>a, <1>d, <1>12, <2>1 DEF Io
<1>13. CASE Idle(i)
  BY <1>0, <1>d, <1>13 DEF Idle
<1>14. CASE Halt(i)
  BY <1>0, <1>d, <1>14 DEF Halt
<1> QED BY <1>1, <1>2, <1>3, <1>4, <1>5, <1>6, <1>7, <1>8, <1>9, <1>10, <1>11,
           <1>12, <1>13, <1>14 DEF Execute

\* Every register, the program counter, the stack pointer and memory hold
\* words and bytes, whatever the program and the devices do.
THEOREM TypeCorrect == Spec => []TypeOK
<1>1. Init => TypeOK
  <2> SUFFICES ASSUME Init PROVE TypeOK
    OBVIOUS
  <2>1. <<0, 0, 0, 0>> \in WordBytes /\ 0 \in Word
    BY Sizes DEF WordBytes, Byte, Word
  <2>2. regs \in [Regs -> WordBytes] /\ pc \in Word /\ sp \in Word
    BY <2>1 DEF Init
  <2>3. stall \in 0..5 /\ halt = FALSE
    BY DEF Init
  <2>4. ram \in [0..(RamSize - 1) -> Byte]
    BY RamAssumption DEF Init
  <2> QED BY <2>2, <2>3, <2>4 DEF TypeOK
<1>2. TypeOK /\ [Next]_vars => TypeOK'
  <2> SUFFICES ASSUME TypeOK, [Next]_vars PROVE TypeOK'
    OBVIOUS
  <2>1. CASE Fetch
    <3>1. PICK bytes \in MemRead(pc) : Execute(Fields(bytes))
      BY <2>1 DEF Fetch
    <3>2. bytes \in WordBytes
      BY <3>1, ReadIsMemory DEF TypeOK
    <3> QED BY <3>1, <3>2, ExecuteKeepsType
  <2>2. CASE Stall
    BY <2>2 DEF Stall, TypeOK
  <2>3. CASE UNCHANGED vars
    BY <2>3 DEF vars, TypeOK
  <2> QED BY <2>1, <2>2, <2>3 DEF Next
<1> QED BY <1>1, <1>2, PTL DEF Spec

\* No instruction writes through a device to the RAM under it.
THEOREM DevicesShadowRam == Spec => Shadowed
<1>1. TypeOK /\ [Next]_vars =>
        [\A a \in WriteClaims \cap DOMAIN ram : ram'[a] = ram[a]]_vars
  <2> SUFFICES ASSUME TypeOK, Next
               PROVE  \A a \in WriteClaims \cap DOMAIN ram : ram'[a] = ram[a]
    OBVIOUS
  <2>1. CASE Stall
    BY <2>1 DEF Stall
  <2>2. CASE Fetch
    <3>1. PICK b \in MemRead(pc) : Execute(Fields(b))
      BY <2>2 DEF Fetch
    <3>2. b \in WordBytes
      BY <3>1, ReadIsMemory DEF TypeOK
    <3> DEFINE i == Fields(b)
    <3>3. /\ \A a \in Word, d \in WordBytes : MemWrite(a, d) =>
               \A x \in WriteClaims \cap DOMAIN ram : ram'[x] = ram[x]
      BY WriteIsMemory
    <3>4. /\ regs[i.reg_a] \in WordBytes /\ htonl(PcNext) \in WordBytes
          /\ Wrap(RREGISTER(i.dest) + IMM(i)) \in Word /\ Wrap(sp - 1) \in Word
      BY <3>2, FieldTypes, NextAddresses, Accessed, WordHasBytes DEF TypeOK
    <3>5. CASE Store(i)
      BY <3>3, <3>4, <3>5 DEF Store
    <3>6. CASE Push(i)
      BY <3>3, <3>4, <3>6 DEF Push
    <3>7. CASE Call(i)
      BY <3>3, <3>4, <3>7 DEF Call
    <3>8. CASE UNCHANGED ram
      BY <3>8
    <3> QED BY <3>1, <3>5, <3>6, <3>7, <3>8
            DEF Execute, Compute, Load, Branch, Jump, Move, Pop, Ret, Iret, Io,
                Idle, Halt
  <2> QED BY <2>1, <2>2 DEF Next
<1> QED BY <1>1, TypeCorrect, PTL DEF Spec, Shadowed

-----------------------------------------------------------------------------
(***************************************************************************)
(* Where Conforming holds every instruction is the instruction set's.      *)
(***************************************************************************)

\* What Isa decodes from the word is what Machine reads of its bytes.
Decoded(b) == [Fields(b) EXCEPT !.imm = IMM(Fields(b))]

LEMMA DecodesTheSame ==
  ASSUME NEW b \in WordBytes PROVE ISA!Decode(ntohl(b)) = Decoded(b)
BY BytesOfWord, SameConversions, SameOpcodes DEF ISA!Decode, Decoded, IMM

LEMMA DecodedFields ==
  ASSUME NEW b
  PROVE  /\ Decoded(b).op = Fields(b).op /\ Decoded(b).dest = Fields(b).dest
         /\ Decoded(b).reg_a = Fields(b).reg_a /\ Decoded(b).reg_b = Fields(b).reg_b
         /\ Decoded(b).imm = IMM(Fields(b))
BY DEF Decoded, Fields

LEMMA InstructionRefines ==
  ASSUME TypeOK, NEW b \in WordBytes, Execute(Fields(b)), ~halt,
         Fields(b).op # "jreg",
         Fields(b).op = "iret" => \A d \in MemRead(sp) : <<d[4], d[3], d[2], d[1]>> = d
  PROVE  ISA!Instruction(Decoded(b))
<1> DEFINE i == Fields(b)
           j == Decoded(b)
<1>0. /\ i.dest \in Regs /\ i.reg_a \in Regs /\ i.reg_b \in Regs
      /\ IMM(i) \in Word /\ PcNext \in Word /\ Displaced(i) \in Word
      /\ Wrap(sp - 1) \in Word /\ Wrap(sp + 1) \in Word /\ Wrap(sp + 2) \in Word
      /\ \A r \in Regs : RREGISTER(r) \in Word
      /\ \A r \in Regs : Wrap(RREGISTER(r) + IMM(i)) \in Word
      /\ \A w \in Word : htonl(w) \in WordBytes /\ ntohl(htonl(w)) = w
      /\ \A r \in Regs : regs[r] \in WordBytes
      /\ sp \in Word
  BY FieldTypes, NextAddresses, RegisterWord, Accessed, WordHasBytes DEF TypeOK
<1>a. \A r \in Regs, d \in WordBytes : SetReg(r, d) => ISA!SetReg(r, ntohl(d))
  BY SetRegRefines
<1>b. \A a \in Word, d \in WordBytes : MemWrite(a, d) => ISA!Write(a, ntohl(d))
  BY WriteRefines
<1>c. \A r \in Regs, a \in Word : \A d \in MemRead(a) : SetReg(r, d) => ISA!Receive(r, a)
  BY ReceiveRefines
<1>d. UNCHANGED regs => [r \in Regs |-> RREGISTER(r)]' = [r \in Regs |-> RREGISTER(r)]
  BY StillRegs
<1>e. UNCHANGED ram => [c \in Cells |-> WordOf(c)]' = [c \in Cells |-> WordOf(c)]
  BY StillMem
<1>f. /\ j.op = i.op /\ j.dest = i.dest /\ j.reg_a = i.reg_a /\ j.reg_b = i.reg_b
      /\ j.imm = IMM(i)
  BY DecodedFields
<1>g. /\ \A r \in Regs : [q \in Regs |-> RREGISTER(q)][r] = RREGISTER(r)
      /\ ISA!Next1 = PcNext /\ ISA!Reached(j) = Displaced(i)
  BY <1>f, SameConversions DEF ISA!Next1, PcNext, ISA!Reached, Displaced
<1>h. stall' = StallCycles(i.op) /\ i.op # "jreg"
  BY DEF Execute
<1> HIDE DEF i, j
<1>1. CASE Compute(i)
  <2> DEFINE y == IF i.op \in RegisterForms THEN RREGISTER(i.reg_b) ELSE IMM(i)
  <2>1. PICK w \in Results(Operation(i.op), RREGISTER(i.reg_a), y) :
              SetReg(i.dest, htonl(w))
    BY <1>1 DEF Compute
  <2>2. w \in Word
    BY <1>1, <2>1, Operand DEF Compute, i
  <2>3. ISA!SetReg(i.dest, w)
    BY <1>0, <1>a, <2>1, <2>2
  <2>4. w \in ISA!Results(ISA!Operation(j.op), [q \in Regs |-> RREGISTER(q)][j.reg_a],
               IF j.op \in ISA!RegisterForms THEN [q \in Regs |-> RREGISTER(q)][j.reg_b]
                                             ELSE j.imm)
    BY <1>0, <1>f, <1>g, <2>1, SameOpcodes, SameResults
  <2>5. ISA!Computes(j)
    BY <1>1, <1>e, <1>f, <1>g, <2>3, <2>4, SameOpcodes DEF ISA!Computes, Compute
  <2> QED BY <2>5 DEF ISA!Instruction, j
<1>2. CASE Load(i)
  <2> DEFINE address == Wrap(RREGISTER(i.reg_a) + IMM(i))
  <2>1. address \in Word /\ address = ISA!Wrap([q \in Regs |-> RREGISTER(q)][j.reg_a] + j.imm)
    BY <1>0, <1>f, <1>g, SameConversions
  <2>2. IF address \in DOMAIN CpuWords THEN ISA!SetReg(j.dest, CpuWords[address])
        ELSE ISA!Receive(j.dest, address)
    <3>1. DOMAIN CpuWords = {VersionAddr, IdentAddr}
      BY DEF CpuWords
    <3>2. CASE address = VersionAddr /\ SetReg(i.dest, htonl(VersionWord))
      <4>1. CpuWords[address] = VersionWord
        BY <3>2 DEF CpuWords
      <4> QED BY <1>0, <1>a, <1>f, <3>1, <3>2, <4>1, CpuWordsAssumption
    <3>3. CASE address = IdentAddr /\ SetReg(i.dest, htonl(IdentWord))
      <4>1. CpuWords[address] = IdentWord
        BY <3>3, Sizes DEF CpuWords, VersionAddr, IdentAddr
      <4> QED BY <1>0, <1>a, <1>f, <3>1, <3>3, <4>1, CpuWordsAssumption
    <3>4. CASE /\ address \notin {VersionAddr, IdentAddr}
               /\ \E bytes \in MemRead(address) : SetReg(i.dest, bytes)
      BY <1>0, <1>c, <1>f, <2>1, <3>1, <3>4
    <3> QED BY <1>2, <3>2, <3>3, <3>4 DEF Load
  <2> HIDE DEF address
  <2>3. ISA!Loads(j)
    BY <1>2, <1>e, <1>f, <1>g, <2>1, <2>2 DEF ISA!Loads, Load
  <2> QED BY <2>3 DEF ISA!Instruction, j
<1>3. CASE Store(i)
  <2> DEFINE address == Wrap(RREGISTER(i.dest) + IMM(i))
  <2>1. address \in Word /\ address = ISA!Wrap([q \in Regs |-> RREGISTER(q)][j.dest] + j.imm)
    BY <1>0, <1>f, <1>g, SameConversions
  <2>2. ISA!Write(address, [q \in Regs |-> RREGISTER(q)][j.reg_a])
    BY <1>0, <1>b, <1>f, <1>g, <1>3, <2>1 DEF Store, RREGISTER
  <2> HIDE DEF address
  <2>3. ISA!Stores(j)
    BY <1>3, <1>d, <1>f, <1>g, <2>1, <2>2 DEF ISA!Stores, Store
  <2> QED BY <2>3 DEF ISA!Instruction, j
<1>4. CASE Branch(i)
  <2>1. ISA!Branches(j)
    BY <1>0, <1>4, <1>d, <1>e, <1>f, <1>g, SameOpcodes DEF ISA!Branches, Branch
  <2> QED BY <2>1 DEF ISA!Instruction, j
<1>5. CASE Jump(i)
  <2>1. halt' = halt
    <3>1. halt = FALSE
      BY Zenon DEF TypeOK
    <3>2. halt' = FALSE
      BY <1>h, <1>5, Zenon DEF Jump
    <3> QED BY <3>1, <3>2
  <2>2. pc' = CASE j.op \in {"jmp", "jal"} -> j.imm
                [] j.op = "jrel"           -> ISA!Reached(j)
                [] j.op = "jreg"           -> [q \in Regs |-> RREGISTER(q)][j.dest]
    BY <1>0, <1>5, <1>f, <1>g, <1>h DEF Jump, JumpOps
  <2>3. IF j.op = "jal" THEN ISA!SetReg(j.dest, ISA!Next1)
        ELSE [q \in Regs |-> RREGISTER(q)]' = [q \in Regs |-> RREGISTER(q)]
    BY <1>0, <1>5, <1>a, <1>d, <1>f, <1>g DEF Jump
  <2>4. ISA!Jumps(j)
    BY <1>5, <1>e, <1>f, <2>1, <2>2, <2>3, SameOpcodes DEF ISA!Jumps, Jump
  <2> QED BY <2>4 DEF ISA!Instruction, j
<1>6. CASE Move(i)
  <2>1. ISA!Moves(j)
    BY <1>0, <1>6, <1>a, <1>d, <1>e, <1>f, <1>g DEF ISA!Moves, Move
  <2> QED BY <2>1 DEF ISA!Instruction, j
<1>7. CASE Push(i)
  <2>1. sp' \in Word /\ ISA!Write(sp', ntohl(regs[i.reg_a]))
    BY <1>0, <1>7, <1>b DEF Push
  <2>2. ISA!Pushes(j)
    BY <1>0, <1>7, <1>d, <1>f, <1>g, <2>1, SameConversions
       DEF ISA!Pushes, Push, RREGISTER
  <2> QED BY <2>2 DEF ISA!Instruction, j
<1>8. CASE Pop(i)
  <2>1. ISA!Pops(j)
    BY <1>0, <1>8, <1>c, <1>e, <1>f, <1>g, SameConversions DEF ISA!Pops, Pop
  <2> QED BY <2>1 DEF ISA!Instruction, j
<1>9. CASE Call(i)
  <2>1. sp' \in Word /\ ISA!Write(sp', PcNext)
    BY <1>0, <1>9, <1>b DEF Call
  <2>2. ISA!Calls(j)
    BY <1>0, <1>9, <1>d, <1>f, <1>g, <2>1, SameConversions DEF ISA!Calls, Call
  <2> QED BY <2>2 DEF ISA!Instruction, j
<1>10. ASSUME NEW d \in MemRead(sp), pc' = ntohl(d)
       PROVE  IF ISA!IsCell(sp) THEN pc' = [c \in Cells |-> WordOf(c)][ISA!Cell(sp)]
                                ELSE pc' \in ISA!Word
  <2>1. d \in WordBytes /\ (sp % CellCount \in Cells => ntohl(d) = WordOf(sp % CellCount))
    BY <1>0, ReadIsMemory
  <2>2. ntohl(d) \in Word
    BY <2>1, BytesOfWord
  <2> QED BY <1>10, <2>1, <2>2, SameCell, SameSizes
<1>11. CASE Ret(i)
  <2>1. PICK d \in MemRead(sp) : pc' = ntohl(d)
    BY <1>11 DEF Ret
  <2>2. ISA!Returns(j)
    BY <1>10, <1>11, <1>d, <1>e, <1>f, <2>1, SameConversions DEF ISA!Returns, Ret
  <2> QED BY <2>2 DEF ISA!Instruction, j
<1>12. CASE Iret(i)
  <2>1. PICK d \in MemRead(sp) : pc' = ntohl(<<d[4], d[3], d[2], d[1]>>)
    BY <1>12 DEF Iret
  <2>2. pc' = ntohl(d)
    BY <1>12, <2>1 DEF Iret, i
  <2>3. ISA!Returns(j)
    BY <1>10, <1>12, <1>d, <1>e, <1>f, <2>1, <2>2, SameConversions
       DEF ISA!Returns, Iret
  <2> QED BY <2>3 DEF ISA!Instruction, j
<1>13. CASE Io(i)
  <2>1. <<0, 0, 0, 0>> \in WordBytes /\ ntohl(<<0, 0, 0, 0>>) = 0
    BY Sizes DEF WordBytes, Byte, ntohl
  <2>2. SetReg(i.dest, <<0, 0, 0, 0>>) => ISA!SetReg(i.dest, 0)
    BY <1>0, <1>a, <2>1
  <2>3. ISA!DoesIo(j)
    BY <1>13, <1>d, <1>e, <1>f, <1>g, <2>2 DEF ISA!DoesIo, Io
  <2> QED BY <2>3 DEF ISA!Instruction, j
<1>14. CASE Idle(i)
  <2>1. ISA!Idles(j)
    BY <1>14, <1>d, <1>e, <1>f, <1>g DEF ISA!Idles, Idle
  <2> QED BY <2>1 DEF ISA!Instruction, j
<1>15. CASE Halt(i)
  <2>1. ISA!Halts(j)
    BY <1>15, <1>d, <1>e, <1>f, <1>g DEF ISA!Halts, Halt
  <2> QED BY <2>1 DEF ISA!Instruction, j
<1> QED BY <1>1, <1>2, <1>3, <1>4, <1>5, <1>6, <1>7, <1>8, <1>9, <1>11,
           <1>12, <1>13, <1>14, <1>15 DEF Execute, i

\* A clock is an instruction of the instruction set, or nothing that it sees.
LEMMA ClockRefines ==
  ASSUME TypeOK, Conforming, [Next]_vars
  PROVE  [ISA!Next]_(ISA!isaVars)
<1>1. CASE Fetch
  <2>1. PICK b \in MemRead(pc) : Execute(Fields(b))
    BY <1>1 DEF Fetch
  <2>2. /\ b \in WordBytes
        /\ pc % CellCount \in Cells => ntohl(b) = WordOf(pc % CellCount)
    BY <2>1, ReadIsMemory DEF TypeOK
  <2>3. ISA!Instruction(Decoded(b))
    BY <1>1, <2>1, <2>2, InstructionRefines DEF Conforming, Fetch
  <2>4. ISA!Decode(ntohl(b)) = Decoded(b)
    BY <2>2, DecodesTheSame
  <2>5. ntohl(b) \in IF ISA!IsCell(pc) THEN {[c \in Cells |-> WordOf(c)][ISA!Cell(pc)]}
                                       ELSE ISA!Word
    BY <2>2, BytesOfWord, SameCell, SameSizes
  <2>6. ISA!Next
    BY <1>1, <2>3, <2>4, <2>5 DEF ISA!Next, Fetch
  <2> QED BY <2>6
<1>2. CASE UNCHANGED <<regs, pc, sp, halt, ram>>
  BY <1>2, StillRegs, StillMem DEF ISA!isaVars
<1> QED BY <1>1, <1>2 DEF Next, Stall, vars

\* Whatever the sizes, the byte order, the devices and the stalls: a run in
\* which no JREG is reached, and no IRET to an address that reads differently
\* with its bytes reversed, is a run of the instruction set (rrisc.c:117-377).
THEOREM RunsAsIsa == Spec /\ []Conforming => ImplementsIsa
<1>1. Init => ISA!Init
  <2> SUFFICES ASSUME Init PROVE ISA!Init
    OBVIOUS
  <2>1. [r \in Regs |-> RREGISTER(r)] = [r \in Regs |-> 0]
    BY Sizes DEF Init, RREGISTER, ntohl
  <2>2. \A c \in Cells : WordOf(c) \in Word
    <3> SUFFICES ASSUME NEW c \in Cells PROVE WordOf(c) \in Word
      OBVIOUS
    <3>1. \A b \in 0..3 : ByteAddress(c, b) \in 0..(RamSize - 1)
      <4>1. c \in Nat /\ c % CellCount = c
        BY Sizes DEF Cells
      <4>2. \A b \in 0..3 : ByteAddress(c, b) = 4 * c + b
        BY <4>1 DEF ByteAddress
      <4> QED BY <4>1, <4>2, RamAssumption DEF Cells
    <3>2. ram \in [0..(RamSize - 1) -> Byte]
      BY RamAssumption DEF Init
    <3>3. \A k \in 1..4 : ram[ByteAddress(c, k - 1)] \in Byte
      BY <3>1, <3>2
    <3> DEFINE b == <<ram[ByteAddress(c, 0)], ram[ByteAddress(c, 1)],
                      ram[ByteAddress(c, 2)], ram[ByteAddress(c, 3)]>>
    <3>4. b \in WordBytes
      BY <3>1, <3>2 DEF WordBytes
    <3>5. WordOf(c) = ntohl(b)
      BY DEF WordOf, ntohl
    <3> HIDE DEF b
    <3> QED BY <3>4, <3>5, BytesOfWord
  <2> QED BY <2>1, <2>2, SameSizes DEF Init, ISA!Init
<1>2. TypeOK /\ Conforming /\ [Next]_vars => [ISA!Next]_(ISA!isaVars)
  BY ClockRefines
<1> QED BY <1>1, <1>2, TypeCorrect, PTL DEF Spec, ImplementsIsa, ISA!Spec
=============================================================================
