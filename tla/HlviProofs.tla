----------------------------- MODULE HlviProofs -----------------------------
(***************************************************************************)
(* Proofs about the encoding of instructions, for every width of word,     *)
(* every assignment of opcodes and every line at every place: what is      *)
(* encoded is disassembled to the same mnemonic and operands.              *)
(***************************************************************************)
EXTENDS Hlvi, SequenceTheorems, WellFoundedInduction, TLAPS

LEMMA LessIsWellFounded == IsWellFoundedOn({p \in Nat \X Nat : p[1] < p[2]}, Nat)
BY NatLessThanWellFounded DEF OpToRel

LEMMA NatSetInduction ==
  ASSUME NEW S, 0 \in S, \A n \in Nat : n \in S => n + 1 \in S
  PROVE  Nat \subseteq S
<1> DEFINE R == {p \in Nat \X Nat : p[1] < p[2]}
           T == Nat \ S
<1>1. IsWellFoundedOn(R, Nat)
  BY LessIsWellFounded
<1> HIDE DEF R
<1>2. ASSUME T # {} PROVE FALSE
  <2>1. PICK x \in T : \A y \in T : ~(<<y, x>> \in R)
    BY <1>1, <1>2, WFMin
  <2>2. x \in Nat /\ x # 0 /\ x - 1 \in Nat
    BY <2>1
  <2>3. <<x - 1, x>> \in R
    BY <2>2 DEF R
  <2>4. x - 1 \notin T
    BY <2>1, <2>3
  <2> QED BY <2>1, <2>2, <2>4
<1> QED BY <1>2

-----------------------------------------------------------------------------
(* The digits of a number and the fields of a word *)

LEMMA Quotient ==
  ASSUME NEW size \in Nat \ {0}, NEW q \in Nat, NEW r \in 0..(size - 1),
         NEW a, a = q * size + r
  PROVE  a \div size = q /\ a % size = r
<1>1. PICK d \in Int, m \in 0..(size - 1) :
        d = a \div size /\ m = a % size /\ a = d * size + m
  OBVIOUS
<1>2. (q - d) * size = m - r /\ (d - q) * size = r - m
  BY <1>1
<1>3. CASE q = d
  BY <1>1, <1>3
<1>4. CASE q > d
  <2>1. (q - d) * size >= size
    BY <1>4
  <2> QED BY <1>1, <1>2, <2>1
<1>5. CASE q < d
  <2>1. (d - q) * size >= size
    BY <1>5
  <2> QED BY <1>1, <1>2, <2>1
<1> QED BY <1>1, <1>3, <1>4, <1>5

\* A digit and what is below it are below the next power.
LEMMA Below ==
  ASSUME NEW n \in Nat \ {0}, NEW m \in Nat \ {0},
         NEW d \in 0..(n - 1), NEW r \in 0..(m - 1)
  PROVE  d * m + r \in 0..(n * m - 1)
<1>1. d * m \in Nat /\ (d + 1) * m =< n * m /\ (d + 1) * m = d * m + m
  OBVIOUS
<1> QED BY <1>1

LEMMA Digits ==
  ASSUME NEW n \in Nat \ {0}, NEW b1 \in 0..(n - 1), NEW b2 \in 0..(n - 1),
         NEW b3 \in 0..(n - 1), NEW b4 \in 0..(n - 1),
         NEW w, w = ((b1 * n + b2) * n + b3) * n + b4
  PROVE  /\ (w \div (n * (n * n))) % n = b1
         /\ (w \div (n * n)) % n = b2
         /\ (w \div n) % n = b3
         /\ (w \div 1) % n = b4
<1> DEFINE q2 == b1 * n + b2
           q  == q2 * n + b3
           r  == b3 * n + b4
           r3 == b2 * (n * n) + r
<1>1. q2 \in Nat /\ q \in Nat /\ w = q * n + b4 /\ w \in Nat
  OBVIOUS
<1>2. n * n \in Nat \ {0} /\ n * (n * n) \in Nat \ {0}
  OBVIOUS
<1>3. r \in 0..(n * n - 1)
  BY Below
<1>4. r3 \in 0..(n * (n * n) - 1)
  BY <1>2, <1>3, Below
<1>5. w = q2 * (n * n) + r
  OBVIOUS
<1>6. w = b1 * (n * (n * n)) + r3
  OBVIOUS
<1> HIDE DEF q2, q, r, r3
<1>7. w \div n = q /\ w % n = b4
  BY <1>1, Quotient
<1>8. w \div (n * n) = q2
  BY <1>1, <1>2, <1>3, <1>5, Quotient
<1>9. w \div (n * (n * n)) = b1
  BY <1>2, <1>4, <1>6, Quotient
<1>10. q % n = b3 /\ q2 % n = b2 /\ b1 % n = b1
  <2>1. q % n = b3
    BY <1>1, Quotient DEF q
  <2>2. q2 % n = b2
    BY Quotient DEF q2
  <2>3. b1 = 0 * n + b1
    OBVIOUS
  <2>4. b1 % n = b1
    BY <2>3, Quotient
  <2> QED BY <2>1, <2>2, <2>4
<1>11. w \div 1 = w
  BY <1>1
<1> QED BY <1>7, <1>8, <1>9, <1>10, <1>11

LEMMA Sizes ==
  /\ NibbleValues \in Nat \ {0} /\ ByteValues \in Nat \ {0}
  /\ ByteValues = NibbleValues * NibbleValues
  /\ HalfValues \in Nat \ {0} /\ HalfValues = ByteValues * ByteValues
  /\ WordValues \in Nat \ {0} /\ WordValues = HalfValues * HalfValues
  /\ ByteValues >= 4 /\ HalfValues >= 4
<1>1. NibbleValues \in Nat /\ NibbleValues >= 2
  BY NibbleAssumption
<1>2. ByteValues \in Nat /\ ByteValues >= 4
  <2>1. NibbleValues * NibbleValues >= 2 * NibbleValues
    BY <1>1
  <2> QED BY <1>1, <2>1 DEF ByteValues
<1>3. HalfValues \in Nat /\ HalfValues >= 4
  <2>1. ByteValues * ByteValues >= 4 * ByteValues
    BY <1>2
  <2> QED BY <1>2, <2>1 DEF HalfValues
<1>4. WordValues \in Nat /\ WordValues >= 4
  <2>1. HalfValues * HalfValues >= 4 * HalfValues
    BY <1>3
  <2> QED BY <1>3, <2>1 DEF WordValues
<1> QED BY <1>1, <1>2, <1>3, <1>4 DEF ByteValues, HalfValues, WordValues

\* The bytes that a word is put together from are the ones in it.
LEMMA BytesOfWord ==
  ASSUME NEW b \in WordBytes
  PROVE  htonl(ntohl(b)) = b
<1>1. /\ b = <<b[1], b[2], b[3], b[4]>>
      /\ b[1] \in 0..(ByteValues - 1) /\ b[2] \in 0..(ByteValues - 1)
      /\ b[3] \in 0..(ByteValues - 1) /\ b[4] \in 0..(ByteValues - 1)
  BY DEF WordBytes, Byte
<1> QED BY <1>1, Sizes, Digits DEF htonl, ntohl, HalfValues

\* An instruction's fields are the ones that its word was put together from.
LEMMA FieldsOfWord ==
  ASSUME NEW op \in DOMAIN Opcode, NEW d \in Regs, NEW a \in Regs, NEW low \in Half,
         NEW w, w = Opcode[op] * ByteValues * HalfValues + d * NibbleValues * HalfValues
                      + a * HalfValues + low
  PROVE  LET f == Fields(htonl(w)) IN
         /\ f.op = op /\ f.dest = d /\ f.reg_a = a
         /\ f.reg_b = (low \div ByteValues) \div NibbleValues
         /\ ntohs(f.imm) = low
<1> DEFINE N == NibbleValues
           B == ByteValues
           b1 == Opcode[op]
           b2 == d * N + a
           b3 == low \div B
           b4 == low % B
<1>1. /\ N \in Nat \ {0} /\ B \in Nat \ {0} /\ B = N * N /\ HalfValues = B * B
      /\ d \in 0..(N - 1) /\ a \in 0..(N - 1) /\ low \in 0..(B * B - 1)
  BY Sizes DEF Regs, Half
<1>2. b1 \in 0..(B - 1)
  BY OpcodeAssumption DEF Byte
<1>3. b2 \in 0..(B - 1)
  BY <1>1, Below
<1>4. b3 \in 0..(B - 1) /\ b4 \in 0..(B - 1) /\ low = b3 * B + b4
  <2> HIDE DEF B
  <2>1. low \in Nat /\ B \in Nat \ {0} /\ low < B * B
    BY <1>1
  <2>2. b3 \in Nat /\ b4 \in 0..(B - 1) /\ low = b3 * B + b4
    BY <2>1
  <2>3. b3 >= B => b3 * B >= B * B
    BY <2>1, <2>2
  <2> QED BY <2>1, <2>2, <2>3
<1>5. w = ((b1 * B + b2) * B + b3) * B + b4
  <2>1. w = b1 * B * (B * B) + d * N * (B * B) + a * (B * B) + (b3 * B + b4)
    BY <1>1, <1>4
  <2> HIDE DEF B, b1, b3, b4, N
  <2> QED BY <1>1, <1>2, <1>4, <2>1
<1>6. htonl(w) = <<b1, b2, b3, b4>>
  <2> DEFINE bytes == <<b1, b2, b3, b4>>
  <2>1. bytes \in WordBytes
    BY <1>2, <1>3, <1>4 DEF WordBytes, Byte
  <2>2. w = ntohl(bytes)
    <3> HIDE DEF B, b1, b2, b3, b4
    <3> QED BY <1>5 DEF ntohl, B
  <2> HIDE DEF bytes
  <2>3. htonl(w) = bytes
    BY <2>1, <2>2, BytesOfWord
  <2> QED BY <2>3 DEF bytes
<1>7. b2 \div N = d /\ b2 % N = a
  <2>1. d \in Nat
    BY <1>1
  <2> QED BY <1>1, <2>1, Quotient
<1>8. OpOf(b1) = op
  BY OpcodeAssumption DEF OpOf
<1> HIDE DEF b1, b2, b3, b4
<1>9. /\ Fields(htonl(w)).op = OpOf(b1) /\ Fields(htonl(w)).dest = b2 \div N
      /\ Fields(htonl(w)).reg_a = b2 % N /\ Fields(htonl(w)).reg_b = b3 \div N
      /\ Fields(htonl(w)).imm = <<b3, b4>>
  BY <1>6 DEF Fields
<1>10. ntohs(<<b3, b4>>) = low
  BY <1>4 DEF ntohs
<1> QED BY <1>7, <1>8, <1>9, <1>10 DEF b3

\* A third register lies in the upper half of the immediate's first byte.
LEMMA ThirdRegister ==
  ASSUME NEW b \in Regs
  PROVE  /\ b * NibbleValues * ByteValues \in Half
         /\ ((b * NibbleValues * ByteValues) \div ByteValues) \div NibbleValues = b
<1> DEFINE N == NibbleValues
           B == ByteValues
           q == b * N
<1>1. /\ N \in Nat \ {0} /\ B \in Nat \ {0} /\ B = N * N /\ HalfValues = B * B
      /\ b \in 0..(N - 1)
  BY Sizes DEF Regs
<1>2. q \in 0..(B - 1)
  <2>1. 0 \in 0..(N - 1) /\ q = b * N + 0
    BY <1>1
  <2> QED BY <1>1, <2>1, Below
<1>3. q * B \in 0..(B * B - 1)
  <2>1. 0 \in 0..(B - 1) /\ q * B = q * B + 0
    BY <1>1, <1>2
  <2> HIDE DEF q
  <2> QED BY <1>1, <1>2, <2>1, Below
<1>4. (q * B) \div B = q
  <2>1. 0 \in 0..(B - 1) /\ q * B = q * B + 0 /\ q \in Nat
    BY <1>1, <1>2
  <2> HIDE DEF q
  <2> QED BY <1>1, <2>1, Quotient
<1>5. q \div N = b
  <2>1. 0 \in 0..(N - 1) /\ q = b * N + 0 /\ b \in Nat
    BY <1>1
  <2> HIDE DEF q
  <2> QED BY <1>1, <2>1, Quotient
<1> QED BY <1>1, <1>3, <1>4, <1>5 DEF Half

-----------------------------------------------------------------------------
(* Memory references *)

\* The fold that Total is.
Folds(f, c, S) ==
  f = [s \in SUBSET S |-> IF s = {} THEN 0
                          ELSE c[CHOOSE x \in s : TRUE].value
                                 + f[s \ {CHOOSE x \in s : TRUE}]]

LEMMA TotalIsFold ==
  ASSUME NEW c, NEW S, \E f : Folds(f, c, S)
  PROVE  \E f : Folds(f, c, S) /\ Total(c, S) = f[S]
<1> DEFINE F == CHOOSE f : Folds(f, c, S)
<1>1. Folds(F, c, S)
  OBVIOUS
<1>2. Total(c, S) = F[S]
  BY DEF Total, MapThenSumSet, MapThenFoldSet, Folds
<1> QED BY <1>1, <1>2

LEMMA TotalOfNone ==
  ASSUME NEW c PROVE Total(c, {}) = 0
<1> DEFINE f == [s \in SUBSET {} |-> 0]
<1>1. Folds(f, c, {})
  BY DEF Folds
<1>2. PICK g : Folds(g, c, {}) /\ Total(c, {}) = g[{}]
  BY <1>1, TotalIsFold
<1>3. g[{}] = 0
  BY <1>2 DEF Folds
<1> QED BY <1>2, <1>3

LEMMA TotalOfOne ==
  ASSUME NEW c, NEW k, c[k].value \in Int
  PROVE  Total(c, {k}) = c[k].value
<1> DEFINE f == [s \in SUBSET {k} |-> IF s = {} THEN 0 ELSE c[k].value]
<1>1. (CHOOSE x \in {k} : TRUE) = k /\ {k} \ {k} = {}
  OBVIOUS
<1>2. \A s \in SUBSET {k} : s = {} \/ s = {k}
  OBVIOUS
<1>3. Folds(f, c, {k})
  <2> DEFINE g == [s \in SUBSET {k} |->
                     IF s = {} THEN 0 ELSE c[CHOOSE x \in s : TRUE].value
                                             + f[s \ {CHOOSE x \in s : TRUE}]]
  <2>1. ASSUME NEW s \in SUBSET {k} PROVE f[s] = g[s]
    BY <1>1, <1>2
  <2> QED BY <2>1 DEF Folds
<1>4. PICK g : Folds(g, c, {k}) /\ Total(c, {k}) = g[{k}]
  BY <1>3, TotalIsFold
<1>5. g[{}] = 0
  BY <1>4 DEF Folds
<1>6. g[{k}] = c[k].value + g[{}]
  BY <1>1, <1>4 DEF Folds
<1> QED BY <1>4, <1>5, <1>6
\* What precompute_mem_operand_components makes of the first i components.
Summed(s, c) ==
  IF c.type = "int" THEN [summed |-> s.summed + c.value, computed |-> s.computed]
  ELSE [summed |-> s.summed, computed |-> Append(s.computed, c)]

Sums(f, c, n) ==
  f = [i \in 0..n |-> IF i = 0 THEN [summed |-> 0, computed |-> <<>>]
                      ELSE Summed(f[i - 1], c[i])]

LEMMA SumsExist ==
  ASSUME NEW c PROVE \A n \in Nat : \E f : Sums(f, c, n)
<1> DEFINE S == {n \in Nat : \E f : Sums(f, c, n)}
           zero == [summed |-> 0, computed |-> <<>>]
<1>1. 0 \in S
  <2> DEFINE f == [i \in 0..0 |-> zero]
  <2>1. Sums(f, c, 0)
    BY DEF Sums
  <2> QED BY <2>1
<1>2. ASSUME NEW n \in Nat, n \in S PROVE n + 1 \in S
  <2>1. PICK f : Sums(f, c, n)
    BY <1>2
  <2> DEFINE g == [i \in 0..(n + 1) |-> IF i \in 0..n THEN f[i] ELSE Summed(f[i - 1], c[i])]
             h == [i \in 0..(n + 1) |-> IF i = 0 THEN zero ELSE Summed(g[i - 1], c[i])]
  <2> HIDE DEF zero
  <2>2. ASSUME NEW i \in 0..(n + 1) PROVE g[i] = h[i]
    <3>1. i # 0 => i - 1 \in 0..n /\ i - 1 \in 0..(n + 1)
      OBVIOUS
    <3>2. i # 0 => g[i - 1] = f[i - 1]
      BY <3>1
    <3>3. h[i] = IF i = 0 THEN zero ELSE Summed(f[i - 1], c[i])
      BY <3>2
    <3>4. CASE i \in 0..n
      <4>1. f[i] = IF i = 0 THEN zero ELSE Summed(f[i - 1], c[i])
        BY <2>1, <3>4 DEF Sums, zero
      <4> QED BY <3>3, <3>4, <4>1
    <3>5. CASE i \notin 0..n
      BY <3>3, <3>5
    <3> QED BY <3>4, <3>5
  <2>3. g = h
    BY <2>2
  <2>4. Sums(g, c, n + 1)
    <3> HIDE DEF g
    <3> QED BY <2>3 DEF Sums, zero
  <2> QED BY <2>4
<1> HIDE DEF S
<1>3. Nat \subseteq S
  BY <1>1, <1>2, NatSetInduction
<1> QED BY <1>3 DEF S

\* The components that are kept are components of the reference.
LEMMA SumsKeep ==
  ASSUME NEW c, NEW n \in Nat, NEW f, Sums(f, c, n), NEW E, \A i \in 1..n : c[i] \in E
  PROVE  \A i \in 0..n : f[i].computed \in Seq(E)
<1> DEFINE S == {i \in Nat : i \in 0..n => f[i].computed \in Seq(E)}
<1>1. 0 \in S
  <2>1. f[0] = [summed |-> 0, computed |-> <<>>]
    BY DEF Sums
  <2>2. f[0].computed = <<>> /\ <<>> \in Seq(E)
    BY <2>1
  <2> QED BY <2>2
<1>2. ASSUME NEW i \in Nat, i \in S PROVE i + 1 \in S
  <2> SUFFICES ASSUME i + 1 \in 0..n PROVE f[i + 1].computed \in Seq(E)
    OBVIOUS
  <2>1. f[i].computed \in Seq(E) /\ c[i + 1] \in E
    BY <1>2
  <2>2. f[i + 1] = Summed(f[i], c[i + 1])
    BY DEF Sums
  <2>3. Append(f[i].computed, c[i + 1]) \in Seq(E)
    BY <2>1
  <2> QED BY <2>1, <2>2, <2>3 DEF Summed
<1> HIDE DEF S
<1>3. Nat \subseteq S
  BY <1>1, <1>2, NatSetInduction
<1> QED BY <1>3 DEF S

LEMMA PrecomputedIsReference ==
  ASSUME NEW c, IsReference(c) PROVE IsReference(Precomputed(c))
<1> DEFINE E == {c[k] : k \in DOMAIN c}
           F == CHOOSE f : Sums(f, c, Len(c))
           last == F[Len(c)]
           D == E \cup {Imm(last.summed)}
<1>1. Len(c) \in Nat /\ DOMAIN c = 1..Len(c) /\ \A e \in E : e.type = "reg" => e.value \in Regs
  BY DEF IsReference
<1>2. Sums(F, c, Len(c))
  BY <1>1, SumsExist
<1>3. last.computed \in Seq(E)
  <2>1. \A i \in 1..Len(c) : c[i] \in E
    BY <1>1
  <2> HIDE DEF E, F
  <2> QED BY <1>1, <1>2, <2>1, SumsKeep
<1>4. Precomputed(c) = IF last.summed = 0 THEN last.computed
                       ELSE Append(last.computed, Imm(last.summed))
  BY DEF Precomputed, Sums, Summed
<1> HIDE DEF last, E
<1>5. Precomputed(c) \in Seq(D)
  <2>1. last.computed \in Seq(D)
    <3>1. E \subseteq D
      OBVIOUS
    <3> QED BY <1>3, <3>1, SeqMonotonic
  <2>2. Append(last.computed, Imm(last.summed)) \in Seq(D)
    BY <2>1
  <2> QED BY <1>4, <2>1, <2>2
<1>6. \A e \in D : e.type = "reg" => e.value \in Regs
  BY <1>1 DEF Imm
<1> HIDE DEF D
<1> QED BY <1>5, <1>6 DEF IsReference

LEMMA DecodedIsOperand ==
  ASSUME NEW o, IsOperand(o) PROVE IsOperand(Decoded(o))
<1>1. CASE o.type # "mem"
  BY <1>1 DEF Decoded
<1>2. CASE o.type = "mem"
  <2>1. Decoded(o) = Mem(Precomputed(o.value)) \/ Decoded(o) = Error
    BY <1>2 DEF Decoded
  <2>2. IsReference(Precomputed(o.value))
    BY <1>2, PrecomputedIsReference DEF IsOperand
  <2> QED BY <2>1, <2>2 DEF IsOperand, Mem, Error
<1> QED BY <1>1, <1>2
\* A reference that the encoder takes, its register and its offset.
Base(c)   == CHOOSE b \in DOMAIN c : c[b].type = "reg"
Offset(c) == IF Len(c) = 1 THEN 0 ELSE c[3 - Base(c)].value
Fitting(c) == /\ Len(c) \in {1, 2} /\ \E b \in DOMAIN c : c[b].type = "reg"
             /\ \A k \in DOMAIN c \ {Base(c)} : c[k].type \in {"sym", "int"}

\* The offset is the sum of all but the register.
LEMMA ReferredIsMapped ==
  ASSUME NEW c, IsReference(c), Fitting(c), Offset(c) \in Int
  PROVE  c[Base(c)].value \in Regs /\ Referred(c) = At(c[Base(c)].value, Offset(c))
<1> DEFINE others == {k \in DOMAIN c : c[k].type # "reg"}
<1>1. PICK base : base = Base(c)
  OBVIOUS
<1>2. base \in DOMAIN c /\ c[base].type = "reg" /\ DOMAIN c = 1..Len(c)
  BY <1>1 DEF IsReference, Fitting, Base
<1>3. others = DOMAIN c \ {base}
  BY <1>1, <1>2 DEF Fitting
<1>4. (CHOOSE k \in DOMAIN c : k \notin others) = base
  BY <1>2, <1>3
<1>5. Referred(c) = At(c[CHOOSE k \in DOMAIN c : k \notin others].value, Total(c, others))
  BY DEF Referred
<1> HIDE DEF others
<1>6. Total(c, others) = Offset(c)
  <2>1. CASE Len(c) = 1
    <3>1. others = {}
      BY <1>2, <1>3, <2>1
    <3> QED BY <2>1, <3>1, TotalOfNone DEF Offset
  <2>2. CASE Len(c) = 2
    <3>1. PICK k : k = 3 - base
      OBVIOUS
    <3>2. DOMAIN c = {1, 2}
      BY <1>2, <2>2
    <3>3. (base = 1 /\ k = 2) \/ (base = 2 /\ k = 1)
      <4>1. base = 1 \/ base = 2
        BY ONLY <1>2, <3>2
      <4> QED BY ONLY <3>1, <4>1
    <3>4. others = {k}
      BY <1>3, <3>2, <3>3
    <3>5. c[k].value = Offset(c)
      BY <1>1, <2>2, <3>1 DEF Offset
    <3> QED BY <3>4, <3>5, TotalOfOne
  <2> QED BY <2>1, <2>2 DEF Fitting
<1>7. c[base].value \in Regs
  BY <1>2 DEF IsReference
<1> QED BY <1>1, <1>4, <1>5, <1>6, <1>7

\* What an operand that the encoder takes says of the one it was made from.
LEMMA MappedOperand ==
  ASSUME NEW o, IsOperand(o), NEW m, m = Mapped(o)
  PROVE  /\ m.type = "reg" => m = o /\ m.value \in Regs /\ m = Reg(m.value)
         /\ m.type = "int" => o.type \in {"int", "sym"} /\ m.value = o.value /\ o.value \in Int
         /\ m.type = "mem" /\ FitsHalf(m.imm) =>
              o.type = "mem" /\ m.value \in Regs /\ m.imm \in Half /\ Referred(o.value) = m
<1>1. CASE o.type = "sym"
  <2>1. m = [type |-> "int", value |-> o.value]
    BY <1>1 DEF Mapped, Imm
  <2> QED BY <1>1, <2>1 DEF IsOperand
<1>2. CASE o.type \notin {"sym", "mem"}
  <2>1. m = o
    BY <1>2 DEF Mapped
  <2>2. o.type = "reg" => \E r \in Regs : o = [type |-> "reg", value |-> r]
    BY DEF IsOperand, Reg
  <2> QED BY <1>2, <2>1, <2>2 DEF IsOperand, Reg
<1>3. CASE o.type = "mem"
  <2>1. PICK c : c = o.value
    OBVIOUS
  <2>2. m = IF Fitting(c) THEN At(c[Base(c)].value, Offset(c)) ELSE Error
    BY <1>3, <2>1 DEF Mapped, Fitting, Base, Offset
  <2>3. CASE ~Fitting(c)
    <3>1. m.type = "error"
      BY <2>2, <2>3 DEF Error
    <3> QED BY <3>1
  <2>4. CASE Fitting(c)
    <3>1. m = At(c[Base(c)].value, Offset(c))
      BY <2>2, <2>4
    <3>2. m.type = "mem" /\ m.value = c[Base(c)].value /\ m.imm = Offset(c)
      BY <3>1 DEF At
    <3>3. FitsHalf(m.imm) => Offset(c) \in Int /\ Offset(c) \in Half
      BY <3>2, Sizes DEF FitsHalf, Half
    <3>4. IsReference(c)
      BY <1>3, <2>1 DEF IsOperand
    <3>5. Offset(c) \in Int => c[Base(c)].value \in Regs /\ Referred(c) = m
      BY <2>4, <3>1, <3>4, ReferredIsMapped
    <3> QED BY <1>3, <2>1, <3>2, <3>3, <3>5
  <2> QED BY <2>3, <2>4
<1> QED BY <1>1, <1>2, <1>3


-----------------------------------------------------------------------------
(* The word that is encoded *)

\* The sums of what the operands add to the opcode.
Adds(f, base, letters, operands, here, n) ==
  f = [k \in 0..n |-> IF k = 0 THEN base
                      ELSE f[k - 1] + Contribution(letters[k], operands[k], here)]

Part(letters, operands, here, k) == Contribution(letters[k], operands[k], here)

\* No instruction has more than three operands.
Parts(base, letters, operands, here, n) ==
  CASE n = 0 -> base
    [] n = 1 -> base + Part(letters, operands, here, 1)
    [] n = 2 -> base + Part(letters, operands, here, 1) + Part(letters, operands, here, 2)
    [] n = 3 -> base + Part(letters, operands, here, 1) + Part(letters, operands, here, 2)
                     + Part(letters, operands, here, 3)

LEMMA AddsIsParts ==
  ASSUME NEW base, NEW letters, NEW operands, NEW here, NEW n \in 0..3
  PROVE  /\ \E f : Adds(f, base, letters, operands, here, n)
         /\ \A f : Adds(f, base, letters, operands, here, n) =>
                     f[n] = Parts(base, letters, operands, here, n)
<1> DEFINE C(k) == Part(letters, operands, here, k)
           P1 == base + C(1)
           P2 == P1 + C(2)
           P3 == P2 + C(3)
           g == [k \in 0..n |-> CASE k = 0 -> base [] k = 1 -> P1 [] k = 2 -> P2 [] k = 3 -> P3]
           h == [k \in 0..n |-> IF k = 0 THEN base ELSE g[k - 1] + C(k)]
<1>1. ASSUME NEW f, Adds(f, base, letters, operands, here, n)
      PROVE  f[n] = Parts(base, letters, operands, here, n)
  <2> HIDE DEF C
  <2>1. \A k \in 0..n : f[k] = IF k = 0 THEN base ELSE f[k - 1] + C(k)
    BY <1>1 DEF Adds, Part, C
  <2>2. f[0] = base
    BY <2>1
  <2>3. n >= 1 => f[1] = P1
    BY <2>1, <2>2
  <2>4. n >= 2 => f[2] = P2
    BY <2>1, <2>3
  <2>5. n >= 3 => f[3] = P3
    BY <2>1, <2>4
  <2>6. n = 0 \/ n = 1 \/ n = 2 \/ n = 3
    OBVIOUS
  <2>7. CASE n = 0
    BY <2>2, <2>7 DEF Parts
  <2>8. CASE n = 1
    BY <2>3, <2>8 DEF Parts, C
  <2>9. CASE n = 2
    BY <2>4, <2>9 DEF Parts, C
  <2>10. CASE n = 3
    BY <2>5, <2>10 DEF Parts, C
  <2> QED BY <2>6, <2>7, <2>8, <2>9, <2>10
<1>2. g = h
  <2> HIDE DEF C
  <2>1. ASSUME NEW k \in 0..n PROVE g[k] = h[k]
    <3>1. k = 0 \/ k = 1 \/ k = 2 \/ k = 3
      OBVIOUS
    <3> QED BY <3>1
  <2> QED BY <2>1
<1>3. Adds(g, base, letters, operands, here, n)
  <2> HIDE DEF g
  <2> QED BY <1>2 DEF Adds, Part
<1> QED BY <1>1, <1>3

Encodable(decoded, n) == [k \in 1..n |-> Mapped(decoded[k])]

\* A number that is an instruction's word has passed the encoder's checks.
LEMMA EncodeIsParts ==
  ASSUME NEW future, NEW name, NEW decoded, NEW here, NEW n \in Nat, DOMAIN decoded = 1..n,
         NEW w, w = Encode(future, name, decoded, here), w # Error,
         NEW operands, operands = Encodable(decoded, n),
         NEW letters, letters = Letters(name), Len(letters) \in 0..3
  PROVE  /\ name \in Mnemonics(future) /\ Len(letters) = n
         /\ \A k \in 1..n : Accepts(letters[k], operands[k], here)
         /\ w = Imm(Parts(Opcode[OpNamed(name)] * ByteValues * HalfValues, letters, operands, here, n))
<1>1. Len(operands) = n
  <2>1. operands \in Seq({Mapped(decoded[k]) : k \in 1..n})
    BY DEF Encodable
  <2>2. DOMAIN operands = 1..n
    BY DEF Encodable
  <2> QED BY <2>1, <2>2
<1>2. operands = [k \in DOMAIN decoded |-> Mapped(decoded[k])] /\ DOMAIN operands = 1..n
  BY DEF Encodable
<1> DEFINE base == Opcode[OpNamed(name)] * ByteValues * HalfValues
           F == CHOOSE f : Adds(f, base, letters, operands, here, n)
           OK == /\ name \in Mnemonics(future)
                 /\ ~(future /\ name = "jal")
                 /\ Len(operands) = Len(letters)
                 /\ \A k \in DOMAIN operands : Accepts(letters[k], operands[k], here)
<1>3. w = IF OK THEN Imm(F[n]) ELSE Error
  BY <1>1, <1>2 DEF Encode, Adds
<1>4. OK /\ w = Imm(F[n])
  <2> HIDE DEF OK, F
  <2> QED BY <1>3
<1>5. n \in 0..3
  BY <1>1, <1>4
<1>6. Adds(F, base, letters, operands, here, n)
  <2> HIDE DEF base
  <2>1. \E f : Adds(f, base, letters, operands, here, n)
    BY <1>5, AddsIsParts
  <2> QED BY <2>1
<1>7. F[n] = Parts(base, letters, operands, here, n)
  <2> HIDE DEF base, F
  <2> QED BY <1>5, <1>6, AddsIsParts
<1> QED BY <1>1, <1>2, <1>4, <1>7

-----------------------------------------------------------------------------
(* The parts of an instruction *)

Shapes == {<<>>, <<"d", "a", "b">>, <<"d", "a", "i">>, <<"d", "m">>, <<"M", "a">>,
           <<"d", "a", "r">>, <<"i">>, <<"d", "i">>, <<"r">>, <<"d">>, <<"a">>}

LEMMA LettersAreShapes ==
  ASSUME NEW future, NEW name \in Mnemonics(future)
  PROVE  Letters(name) \in Shapes
<1>1. DOMAIN ImmediateForm = {"addi", "subi", "andi", "ori", "xori", "shli", "shri"}
  BY DEF ImmediateForm
<1>2. Mnemonics(future) \subseteq
        (RegisterForms \cup DOMAIN ImmediateForm
         \cup {"nop", "ld", "st", "beq", "bneq", "blt", "jmpabs", "jal", "jrel", "ldi", "lds",
               "sts", "push", "pop", "call", "ret", "mulu", "halt", "iret", "jreg"})
  BY DEF Mnemonics, BaseMnemonics
<1>3. CASE name \in {"nop", "ret", "halt", "iret"}
  BY <1>3 DEF Letters, Shapes
<1>4. CASE name \in RegisterForms \cup {"mulu"}
  <2>1. name \notin {"nop", "ret", "halt", "iret"}
    BY <1>4 DEF RegisterForms
  <2> QED BY <1>1, <1>4, <2>1 DEF Letters, Shapes, RegisterForms
<1>5. CASE name \in DOMAIN ImmediateForm
  BY <1>1, <1>5 DEF Letters, Shapes, RegisterForms
<1>6. CASE name \in {"ld", "st", "beq", "bneq", "blt", "jmpabs", "jal", "jrel", "ldi", "lds",
                     "sts", "push", "pop", "call", "jreg"}
  BY <1>1, <1>6 DEF Letters, Shapes, RegisterForms
<1> QED BY <1>2, <1>3, <1>4, <1>5, <1>6

\* Where each operand lies in an instruction.
Carries(letter, m, here, d, a, low) ==
  CASE letter = "d" -> m.value = d
    [] letter = "a" -> m.value = a
    [] letter = "b" -> low = m.value * NibbleValues * ByteValues
    [] letter = "i" -> low = m.value
    [] letter = "r" -> low = (m.value - here) % HalfValues
    [] letter = "m" -> m.value = a /\ m.imm = low
    [] letter = "M" -> m.value = d /\ m.imm = low

\* What is known of an operand that the encoder accepts.
Typed(m) ==
  /\ m.type = "reg" => m.value \in Regs
  /\ m.type = "int" => m.value \in Int
  /\ m.type = "mem" /\ FitsHalf(m.imm) => m.value \in Regs /\ m.imm \in Half

Laid(base, letters, operands, here, n, d, a, low) ==
  /\ Parts(base, letters, operands, here, n)
       = base + d * NibbleValues * HalfValues + a * HalfValues + low
  /\ \A k \in 1..n : Carries(letters[k], operands[k], here, d, a, low)

\* One operand: where it lies and that there is place for it.
LEMMA OperandLies ==
  ASSUME NEW letter, NEW m, Typed(m), NEW here \in Nat, Accepts(letter, m, here)
  PROVE  /\ letter = "d" => m.value \in Regs /\ Contribution(letter, m, here) = m.value * NibbleValues * HalfValues
         /\ letter = "a" => m.value \in Regs /\ Contribution(letter, m, here) = m.value * HalfValues
         /\ letter = "b" => m.value \in Regs /\ m.value * NibbleValues * ByteValues \in Half
                            /\ Contribution(letter, m, here) = m.value * NibbleValues * ByteValues
         /\ letter = "i" => m.value \in Half /\ Contribution(letter, m, here) = m.value
         /\ letter = "r" => (m.value - here) % HalfValues \in Half
                            /\ Contribution(letter, m, here) = (m.value - here) % HalfValues
         /\ letter = "m" => m.value \in Regs /\ m.imm \in Half
                            /\ Contribution(letter, m, here) = m.value * HalfValues + m.imm
         /\ letter = "M" => m.value \in Regs /\ m.imm \in Half
                            /\ Contribution(letter, m, here) = m.value * NibbleValues * HalfValues + m.imm
<1>1. CASE letter \in {"d", "a"}
  BY <1>1 DEF Accepts, Typed, Contribution
<1>2. CASE letter = "b"
  <2>1. m.value \in Regs
    BY <1>2 DEF Accepts, Typed
  <2> QED BY <1>2, <2>1, ThirdRegister DEF Contribution
<1>3. CASE letter = "i"
  BY <1>3 DEF Accepts, FitsHalf, Half, Contribution
<1>4. CASE letter = "r"
  <2>1. m.value - here \in Int /\ HalfValues \in Nat \ {0}
    BY <1>4, Sizes DEF Accepts, Typed
  <2>2. (m.value - here) % HalfValues \in 0..(HalfValues - 1)
    BY <2>1
  <2> QED BY <1>4, <2>2 DEF Contribution, Half
<1>5. CASE letter \in {"m", "M"}
  BY <1>5 DEF Accepts, Typed, Contribution
<1>6. CASE letter \notin {"d", "a", "b", "i", "r", "m", "M"}
  BY <1>6
<1> QED BY <1>1, <1>2, <1>3, <1>4, <1>5, <1>6

\* The operands lie side by side.
LEMMA InstructionIsLaid ==
  ASSUME NEW base \in Int, NEW letters \in Shapes, NEW operands, NEW here \in Nat,
         NEW n \in Nat, n = Len(letters),
         \A k \in 1..n : Typed(operands[k]) /\ Accepts(letters[k], operands[k], here)
  PROVE  \E d \in Regs, a \in Regs, low \in Half :
           Laid(base, letters, operands, here, n, d, a, low)
<1> DEFINE N == NibbleValues * HalfValues
           o(k) == operands[k].value
           relative(k) == (o(k) - here) % HalfValues
<1>1. /\ 0 \in Regs /\ 0 \in Half /\ Regs \subseteq Int /\ Half \subseteq Int
      /\ NibbleValues \in Int /\ HalfValues \in Int
  BY Sizes DEF Regs, Half
<1>2. \A r \in Int : r * NibbleValues * HalfValues \in Int /\ r * HalfValues \in Int
  BY <1>1
<1>3. 0 * NibbleValues * HalfValues = 0 /\ 0 * HalfValues = 0
  BY <1>1
<1>15. \A k \in 1..n : (n = 1 => k = 1) /\ (n = 2 => k \in {1, 2}) /\ (n = 3 => k \in {1, 2, 3})
  OBVIOUS
<1>4. CASE letters = <<>>
  <2>1. n = 0
    BY <1>4
  <2>2. Parts(base, letters, operands, here, n)
          = base + 0 * NibbleValues * HalfValues + 0 * HalfValues + 0
    BY <1>3, <2>1 DEF Parts, Part
  <2>3. Laid(base, letters, operands, here, n, 0, 0, 0)
    BY <1>15, <2>1, <2>2 DEF Laid, Carries
  <2> QED BY <1>1, <2>3
<1>5. CASE letters = <<"d", "a", "b">>
  <2>1. n = 3 /\ letters[1] = "d" /\ letters[2] = "a" /\ letters[3] = "b"
    BY <1>5
  <2> DEFINE low == o(3) * NibbleValues * ByteValues
  <2>2. o(1) \in Regs /\ Contribution(letters[1], operands[1], here) = o(1) * NibbleValues * HalfValues
    BY <2>1, OperandLies
  <2>3. o(2) \in Regs /\ Contribution(letters[2], operands[2], here) = o(2) * HalfValues
    BY <2>1, OperandLies
  <2>4. low \in Half /\ Contribution(letters[3], operands[3], here) = low
    BY <2>1, OperandLies
  <2>5. Parts(base, letters, operands, here, n)
          = base + o(1) * NibbleValues * HalfValues + o(2) * HalfValues + low
    BY <1>2, <2>1, <2>2, <2>3, <2>4 DEF Parts, Part
  <2>6. Laid(base, letters, operands, here, n, o(1), o(2), low)
    BY <1>15, <2>1, <2>5 DEF Laid, Carries
  <2> QED BY <2>2, <2>3, <2>4, <2>6
<1>6. CASE letters = <<"d", "a", "i">>
  <2>1. n = 3 /\ letters[1] = "d" /\ letters[2] = "a" /\ letters[3] = "i"
    BY <1>6
  <2>2. o(1) \in Regs /\ Contribution(letters[1], operands[1], here) = o(1) * NibbleValues * HalfValues
    BY <2>1, OperandLies
  <2>3. o(2) \in Regs /\ Contribution(letters[2], operands[2], here) = o(2) * HalfValues
    BY <2>1, OperandLies
  <2>4. o(3) \in Half /\ Contribution(letters[3], operands[3], here) = o(3)
    BY <2>1, OperandLies
  <2>5. Parts(base, letters, operands, here, n)
          = base + o(1) * NibbleValues * HalfValues + o(2) * HalfValues + o(3)
    BY <1>2, <2>1, <2>2, <2>3, <2>4 DEF Parts, Part
  <2>6. Laid(base, letters, operands, here, n, o(1), o(2), o(3))
    BY <1>15, <2>1, <2>5 DEF Laid, Carries
  <2> QED BY <2>2, <2>3, <2>4, <2>6
<1>7. CASE letters = <<"d", "m">>
  <2>1. n = 2 /\ letters[1] = "d" /\ letters[2] = "m"
    BY <1>7
  <2> DEFINE low == operands[2].imm
  <2>2. o(1) \in Regs /\ Contribution(letters[1], operands[1], here) = o(1) * NibbleValues * HalfValues
    BY <2>1, OperandLies
  <2>3. o(2) \in Regs /\ low \in Half /\ Contribution(letters[2], operands[2], here) = o(2) * HalfValues + low
    BY <2>1, OperandLies
  <2>4. Parts(base, letters, operands, here, n)
          = base + o(1) * NibbleValues * HalfValues + o(2) * HalfValues + low
    BY <1>1, <1>2, <2>1, <2>2, <2>3 DEF Parts, Part
  <2>5. Laid(base, letters, operands, here, n, o(1), o(2), low)
    BY <1>15, <2>1, <2>4 DEF Laid, Carries
  <2> QED BY <2>2, <2>3, <2>5
<1>8. CASE letters = <<"M", "a">>
  <2>1. n = 2 /\ letters[1] = "M" /\ letters[2] = "a"
    BY <1>8
  <2> DEFINE low == operands[1].imm
  <2>2. o(1) \in Regs /\ low \in Half
        /\ Contribution(letters[1], operands[1], here) = o(1) * NibbleValues * HalfValues + low
    BY <2>1, OperandLies
  <2>3. o(2) \in Regs /\ Contribution(letters[2], operands[2], here) = o(2) * HalfValues
    BY <2>1, OperandLies
  <2>4. Parts(base, letters, operands, here, n)
          = base + o(1) * NibbleValues * HalfValues + o(2) * HalfValues + low
    BY <1>1, <1>2, <2>1, <2>2, <2>3 DEF Parts, Part
  <2>5. Laid(base, letters, operands, here, n, o(1), o(2), low)
    BY <1>15, <2>1, <2>4 DEF Laid, Carries
  <2> QED BY <2>2, <2>3, <2>5
<1>9. CASE letters = <<"d", "a", "r">>
  <2>1. n = 3 /\ letters[1] = "d" /\ letters[2] = "a" /\ letters[3] = "r"
    BY <1>9
  <2>2. o(1) \in Regs /\ Contribution(letters[1], operands[1], here) = o(1) * NibbleValues * HalfValues
    BY <2>1, OperandLies
  <2>3. o(2) \in Regs /\ Contribution(letters[2], operands[2], here) = o(2) * HalfValues
    BY <2>1, OperandLies
  <2>4. relative(3) \in Half /\ Contribution(letters[3], operands[3], here) = relative(3)
    BY <2>1, OperandLies
  <2>5. Parts(base, letters, operands, here, n)
          = base + o(1) * NibbleValues * HalfValues + o(2) * HalfValues + relative(3)
    BY <1>2, <2>1, <2>2, <2>3, <2>4 DEF Parts, Part
  <2>6. Laid(base, letters, operands, here, n, o(1), o(2), relative(3))
    BY <1>15, <2>1, <2>5 DEF Laid, Carries
  <2> QED BY <2>2, <2>3, <2>4, <2>6
<1>10. CASE letters = <<"i">>
  <2>1. n = 1 /\ letters[1] = "i"
    BY <1>10
  <2>2. o(1) \in Half /\ Contribution(letters[1], operands[1], here) = o(1)
    BY <2>1, OperandLies
  <2>3. Parts(base, letters, operands, here, n)
          = base + 0 * NibbleValues * HalfValues + 0 * HalfValues + o(1)
    BY <1>1, <1>3, <2>1, <2>2 DEF Parts, Part
  <2>4. Laid(base, letters, operands, here, n, 0, 0, o(1))
    BY <1>15, <2>1, <2>3 DEF Laid, Carries
  <2> QED BY <1>1, <2>2, <2>4
<1>11. CASE letters = <<"d", "i">>
  <2>1. n = 2 /\ letters[1] = "d" /\ letters[2] = "i"
    BY <1>11
  <2>2. o(1) \in Regs /\ Contribution(letters[1], operands[1], here) = o(1) * NibbleValues * HalfValues
    BY <2>1, OperandLies
  <2>3. o(2) \in Half /\ Contribution(letters[2], operands[2], here) = o(2)
    BY <2>1, OperandLies
  <2>4. Parts(base, letters, operands, here, n)
          = base + o(1) * NibbleValues * HalfValues + 0 * HalfValues + o(2)
    BY <1>1, <1>2, <1>3, <2>1, <2>2, <2>3 DEF Parts, Part
  <2>5. Laid(base, letters, operands, here, n, o(1), 0, o(2))
    BY <1>15, <2>1, <2>4 DEF Laid, Carries
  <2> QED BY <1>1, <2>2, <2>3, <2>5
<1>12. CASE letters = <<"r">>
  <2>1. n = 1 /\ letters[1] = "r"
    BY <1>12
  <2>2. relative(1) \in Half /\ Contribution(letters[1], operands[1], here) = relative(1)
    BY <2>1, OperandLies
  <2>3. Parts(base, letters, operands, here, n)
          = base + 0 * NibbleValues * HalfValues + 0 * HalfValues + relative(1)
    BY <1>1, <1>3, <2>1, <2>2 DEF Parts, Part
  <2>4. Laid(base, letters, operands, here, n, 0, 0, relative(1))
    BY <1>15, <2>1, <2>3 DEF Laid, Carries
  <2> QED BY <1>1, <2>2, <2>4
<1>13. CASE letters = <<"d">>
  <2>1. n = 1 /\ letters[1] = "d"
    BY <1>13
  <2>2. o(1) \in Regs /\ Contribution(letters[1], operands[1], here) = o(1) * NibbleValues * HalfValues
    BY <2>1, OperandLies
  <2>3. Parts(base, letters, operands, here, n)
          = base + o(1) * NibbleValues * HalfValues + 0 * HalfValues + 0
    BY <1>1, <1>2, <1>3, <2>1, <2>2 DEF Parts, Part
  <2>4. Laid(base, letters, operands, here, n, o(1), 0, 0)
    BY <1>15, <2>1, <2>3 DEF Laid, Carries
  <2> QED BY <1>1, <2>2, <2>4
<1>14. CASE letters = <<"a">>
  <2>1. n = 1 /\ letters[1] = "a"
    BY <1>14
  <2>2. o(1) \in Regs /\ Contribution(letters[1], operands[1], here) = o(1) * HalfValues
    BY <2>1, OperandLies
  <2>3. Parts(base, letters, operands, here, n)
          = base + 0 * NibbleValues * HalfValues + o(1) * HalfValues + 0
    <3>1. Parts(base, letters, operands, here, n) = base + o(1) * HalfValues
      BY <2>1, <2>2 DEF Parts, Part
    <3>2. o(1) * HalfValues \in Int
      BY <1>1, <1>2, <2>2
    <3> QED BY <1>3, <3>1, <3>2
  <2>4. Laid(base, letters, operands, here, n, 0, o(1), 0)
    BY <1>15, <2>1, <2>3 DEF Laid, Carries
  <2> QED BY <1>1, <2>2, <2>4
<1> QED BY <1>4, <1>5, <1>6, <1>7, <1>8, <1>9, <1>10, <1>11, <1>12, <1>13, <1>14 DEF Shapes

-----------------------------------------------------------------------------
(* Disassembling it *)

\* A distance that fits has its sign back.
LEMMA SignBack ==
  ASSUME NEW n \in Int, FitsSigned(n)
  PROVE  Signed(n % HalfValues) = n
<1> DEFINE H == HalfValues
<1>1. H \in Nat \ {0} /\ 2 * n >= -H /\ 2 * n < H
  BY Sizes DEF FitsSigned
<1> HIDE DEF H
<1>2. CASE n >= 0
  <2>1. n = 0 * H + n /\ n \in 0..(H - 1)
    BY <1>1, <1>2
  <2>2. n % H = n
    BY <1>1, <2>1, Quotient
  <2> QED BY <1>1, <2>2 DEF Signed, H
<1>3. CASE n < 0
  <2>1. PICK d \in Int, m \in 0..(H - 1) : d = n \div H /\ m = n % H /\ n = d * H + m
    BY <1>1
  <2>2. d >= 0 => d * H >= 0
    BY <1>1
  <2>3. d =< -2 => d * H =< -2 * H
    <3>1. d =< -2 => (-2 - d) \in Nat
      OBVIOUS
    <3>2. d =< -2 => (-2 - d) * H >= 0
      BY <1>1, <3>1
    <3> QED BY <1>1, <3>2
  <2>4. d = -1
    BY <1>1, <1>3, <2>1, <2>2, <2>3
  <2>5. m = n + H
    BY <1>1, <2>1, <2>4
  <2>6. Signed(m) = n
    BY <1>1, <2>5 DEF Signed, H
  <2> QED BY <2>1, <2>6 DEF H
<1> QED BY <1>2, <1>3

\* What DisassemblesBack says a letter is printed as.
PrintedAs(letter, o, here) ==
  CASE letter = "r"          -> Imm(o.value - here)
    [] letter \in {"m", "M"} -> Referred(o.value)
    [] letter = "i"          -> Imm(o.value)
    [] OTHER                 -> o

LEMMA LetterBack ==
  ASSUME NEW letter \in {"d", "a", "b", "i", "r", "m", "M"},
         NEW o, IsOperand(o), NEW m, m = Mapped(o),
         NEW here \in Nat, Accepts(letter, m, here),
         NEW d, NEW a, NEW low, Carries(letter, m, here, d, a, low),
         NEW w, NEW f, f = Fields(htonl(w)), f.dest = d, f.reg_a = a,
         f.reg_b = (low \div ByteValues) \div NibbleValues, ntohs(f.imm) = low
  PROVE  DisassembleLetter(letter, w) = PrintedAs(letter, o, here)
<1>1. CASE letter \in {"d", "a", "b"}
  <2>1. m = o /\ m.value \in Regs /\ o = Reg(m.value)
    BY <1>1, MappedOperand DEF Accepts
  <2>2. CASE letter = "d"
    BY <2>1, <2>2 DEF DisassembleLetter, PrintedAs, Carries
  <2>3. CASE letter = "a"
    BY <2>1, <2>3 DEF DisassembleLetter, PrintedAs, Carries
  <2>4. CASE letter = "b"
    <3>1. low = m.value * NibbleValues * ByteValues
      BY <2>4 DEF Carries
    <3>2. f.reg_b = m.value
      BY <2>1, <3>1, ThirdRegister
    <3> QED BY <2>1, <2>4, <3>2 DEF DisassembleLetter, PrintedAs
  <2> QED BY <1>1, <2>2, <2>3, <2>4
<1>2. CASE letter = "i"
  <2>1. m.value = o.value /\ low = m.value
    BY <1>2, MappedOperand DEF Accepts, Carries
  <2> QED BY <1>2, <2>1 DEF DisassembleLetter, PrintedAs
<1>3. CASE letter = "r"
  <2>1. m.value = o.value /\ o.value \in Int
    BY <1>3, MappedOperand DEF Accepts
  <2>2. FitsSigned(m.value - here) /\ low = (m.value - here) % HalfValues
    BY <1>3 DEF Accepts, Carries
  <2>3. m.value - here \in Int
    BY <2>1
  <2>4. Signed(low) = m.value - here
    BY <2>2, <2>3, SignBack
  <2> QED BY <1>3, <2>1, <2>4 DEF DisassembleLetter, PrintedAs
<1>4. CASE letter \in {"m", "M"}
  <2>1. m.type = "mem" /\ FitsHalf(m.imm)
    BY <1>4 DEF Accepts
  <2>2. Referred(o.value) = m /\ o.type = "mem"
    BY <2>1, MappedOperand
  <2>3. m = At(m.value, m.imm)
    BY <2>2 DEF Referred, At
  <2>4. CASE letter = "m"
    <3>1. m.value = a /\ m.imm = low
      BY <2>4 DEF Carries
    <3> QED BY <2>2, <2>3, <2>4, <3>1 DEF DisassembleLetter, PrintedAs
  <2>5. CASE letter = "M"
    <3>1. m.value = d /\ m.imm = low
      BY <2>5 DEF Carries
    <3> QED BY <2>2, <2>3, <2>5, <3>1 DEF DisassembleLetter, PrintedAs
  <2> QED BY <1>4, <2>4, <2>5
<1> QED BY <1>1, <1>2, <1>3, <1>4

\* Mnemonics of a table have opcodes, and different ones.
LEMMA NamesApart ==
  ASSUME NEW future, NEW name \in Mnemonics(future)
  PROVE  /\ OpNamed(name) \in DOMAIN Opcode
         /\ \A n \in Mnemonics(future) : OpNamed(n) = OpNamed(name) => n = name
<1>1. DOMAIN ImmediateForm = {"addi", "subi", "andi", "ori", "xori", "shli", "shri"}
  BY DEF ImmediateForm
<1>2. DOMAIN Taken = {"beq", "bneq", "blt", "bgt"}
  BY DEF Taken
<1>3. DOMAIN Opcode = Ops \ {"invalid"}
  BY OpcodeAssumption
<1>4. "jmp" \notin Mnemonics(future) /\ "mulh" \notin Mnemonics(future)
  BY <1>1 DEF Mnemonics, BaseMnemonics, RegisterForms
<1>5. OpNamed(name) \in Ops \ {"invalid"}
  BY <1>1, <1>2 DEF OpNamed, Ops, ComputeOps, MemoryOps, JumpOps, OtherOps, Mnemonics,
                    BaseMnemonics, RegisterForms
<1>6. ASSUME NEW n \in Mnemonics(future), OpNamed(n) = OpNamed(name) PROVE n = name
  BY <1>4, <1>6 DEF OpNamed
<1> QED BY <1>3, <1>5, <1>6

\* An instruction that was encoded is disassembled to its name and operands.
LEMMA EncodedIsDisassembled ==
  ASSUME NEW future, NEW name, NEW decoded, NEW here \in Nat, NEW n \in Nat,
         DOMAIN decoded = 1..n, \A k \in 1..n : IsOperand(decoded[k]),
         Encode(future, name, decoded, here) # Error,
         future => name \in BeforeJal
  PROVE  Disassemble(future, Encode(future, name, decoded, here).value) =
           [name |-> name, operands |-> [k \in DOMAIN Letters(name) |->
                                          PrintedAs(Letters(name)[k], decoded[k], here)]]
<1> DEFINE letters  == Letters(name)
           operands == Encodable(decoded, n)
           op       == OpNamed(name)
           base     == Opcode[op] * ByteValues * HalfValues
           w        == Parts(base, letters, operands, here, n)
<1>1. name \in Mnemonics(future)
  <2>1. Encode(future, name, decoded, here) = Error \/ name \in Mnemonics(future)
    BY DEF Encode
  <2> QED BY <2>1
<1>2. letters \in Shapes
  BY <1>1, LettersAreShapes
<1>3. Len(letters) \in 0..3 /\ DOMAIN letters = 1..Len(letters)
      /\ \A k \in DOMAIN letters : letters[k] \in {"d", "a", "b", "i", "r", "m", "M"}
  <2> HIDE DEF letters
  <2> QED BY <1>2 DEF Shapes
<1>4. /\ Len(letters) = n
      /\ \A k \in 1..n : Accepts(letters[k], operands[k], here)
      /\ Encode(future, name, decoded, here) = Imm(w)
  <2>1. PICK e : e = Encode(future, name, decoded, here)
    OBVIOUS
  <2>2. e # Error
    BY <2>1
  <2>3. letters = Letters(name) /\ operands = Encodable(decoded, n)
    OBVIOUS
  <2> HIDE DEF letters, operands
  <2>4. /\ Len(letters) = n
        /\ \A k \in 1..n : Accepts(letters[k], operands[k], here)
        /\ e = Imm(Parts(Opcode[OpNamed(name)] * ByteValues * HalfValues, letters, operands, here, n))
    <3>1. n \in Nat /\ DOMAIN decoded = 1..n /\ Len(letters) \in 0..3
      BY <1>3
    <3> QED BY ONLY <3>1, <2>1, <2>2, <2>3, EncodeIsParts
  <2> QED BY <2>1, <2>4
<1>5. \A k \in 1..n : Typed(operands[k])
  BY MappedOperand DEF Typed, Encodable
<1>6. op \in DOMAIN Opcode /\ base \in Int
  <2>1. op \in DOMAIN Opcode
    BY <1>1, NamesApart
  <2>2. Opcode[op] \in Int /\ ByteValues \in Int /\ HalfValues \in Int
    BY <2>1, OpcodeAssumption, Sizes DEF Byte
  <2> HIDE DEF op
  <2> QED BY <2>1, <2>2
<1>7. PICK d \in Regs, a \in Regs, low \in Half :
        Laid(base, letters, operands, here, n, d, a, low)
  <2> HIDE DEF base, letters, operands
  <2> QED BY <1>2, <1>4, <1>5, <1>6, InstructionIsLaid
<1>8. PICK f : /\ f = Fields(htonl(w)) /\ f.op = op /\ f.dest = d /\ f.reg_a = a
               /\ f.reg_b = (low \div ByteValues) \div NibbleValues
               /\ ntohs(f.imm) = low
  <2>1. w = Opcode[op] * ByteValues * HalfValues + d * NibbleValues * HalfValues
              + a * HalfValues + low
    BY <1>7 DEF Laid
  <2> HIDE DEF w, op
  <2> QED BY <1>6, <2>1, FieldsOfWord
<1>9. ASSUME NEW k \in 1..n
      PROVE  DisassembleLetter(letters[k], w) = PrintedAs(letters[k], decoded[k], here)
  <2>1. Carries(letters[k], operands[k], here, d, a, low)
    BY <1>7 DEF Laid
  <2>2. operands[k] = Mapped(decoded[k]) /\ IsOperand(decoded[k])
    BY DEF Encodable
  <2>3. letters[k] \in {"d", "a", "b", "i", "r", "m", "M"} /\ Accepts(letters[k], operands[k], here)
    BY <1>3, <1>4
  <2> HIDE DEF letters, operands, w
  <2> QED BY <1>8, <2>1, <2>2, <2>3, LetterBack
<1>10. Disassemble(future, w) =
         [name |-> name, operands |-> [k \in DOMAIN letters |-> DisassembleLetter(letters[k], w)]]
  <2> DEFINE names == {m \in Mnemonics(future) : OpNamed(m) = f.op}
  <2>1. names = {name}
    BY <1>1, <1>8, NamesApart
  <2>2. (CHOOSE m \in names : TRUE) = name
    BY <2>1
  <2>3. ~(future /\ names \cap BeforeJal = {}) /\ names # {}
    BY <2>1
  <2> HIDE DEF names, w
  <2>4. names = {m \in Mnemonics(future) : OpNamed(m) = Fields(htonl(w)).op}
    BY <1>8 DEF names
  <2> QED BY <2>2, <2>3, <2>4 DEF Disassemble
<1>11. Encode(future, name, decoded, here).value = w
  <2> HIDE DEF w
  <2> QED BY <1>4 DEF Imm
<1> HIDE DEF w, letters
<1>12. [k \in DOMAIN letters |-> DisassembleLetter(letters[k], w)]
        = [k \in DOMAIN letters |-> PrintedAs(letters[k], decoded[k], here)]
  BY <1>3, <1>4, <1>9
<1> QED BY <1>10, <1>11, <1>12 DEF letters

-----------------------------------------------------------------------------
(* What lines are resolved to *)

Ready(operands) ==
  /\ Len(operands) \in Nat /\ DOMAIN operands = 1..Len(operands)
  /\ \A k \in 1..Len(operands) : IsOperand(operands[k])
Good(i)      == Ready(i[2]) /\ i[1] # "dd"
GoodCode(c)  == \A k \in DOMAIN c : k \in Nat \ {0} /\ Good(c[k])

LEMMA ReadyLists ==
  /\ Ready(<<>>)
  /\ \A a : IsOperand(a) => Ready(<<a>>)
  /\ \A a, b : IsOperand(a) /\ IsOperand(b) => Ready(<<a, b>>)
  /\ \A a, b, c : IsOperand(a) /\ IsOperand(b) /\ IsOperand(c) => Ready(<<a, b, c>>)
<1>1. ASSUME NEW a, IsOperand(a) PROVE Ready(<<a>>)
  BY <1>1 DEF Ready
<1>2. ASSUME NEW a, NEW b, IsOperand(a), IsOperand(b) PROVE Ready(<<a, b>>)
  BY <1>2 DEF Ready
<1>3. ASSUME NEW a, NEW b, NEW c, IsOperand(a), IsOperand(b), IsOperand(c)
      PROVE Ready(<<a, b, c>>)
  BY <1>3 DEF Ready
<1>4. Ready(<<>>)
  BY DEF Ready
<1> QED BY <1>1, <1>2, <1>3, <1>4

LEMMA GoodLists ==
  ASSUME NEW i, NEW j, NEW k, NEW l
  PROVE  /\ Good(i) => GoodCode(<<i>>)
         /\ Good(i) /\ Good(j) => GoodCode(<<i, j>>)
         /\ Good(i) /\ Good(j) /\ Good(k) => GoodCode(<<i, j, k>>)
         /\ Good(i) /\ Good(j) /\ Good(k) /\ Good(l) => GoodCode(<<i, j, k, l>>)
BY DEF GoodCode

LEMMA GoodIns ==
  ASSUME NEW name, name # "dd", NEW operands, Ready(operands)
  PROVE  Good(Ins(name, operands))
BY DEF Good, Ins

LEMMA NumbersAreOperands ==
  /\ \A n \in Int : IsOperand(Imm(n))
  /\ \A n \in Int : IsOperand(High(n)) /\ IsOperand(Low(n))
<1>1. ASSUME NEW n \in Int PROVE IsOperand(Imm(n))
  BY DEF IsOperand, Imm
<1>2. ASSUME NEW n \in Int PROVE n % HalfValues \in Int /\ (n \div HalfValues) % HalfValues \in Int
  <2>1. HalfValues \in Nat \ {0}
    BY Sizes
  <2> QED BY <2>1
<1> QED BY <1>1, <1>2 DEF High, Low

LEMMA WideIsGood ==
  ASSUME NEW a, IsOperand(a), NEW n \in Int
  PROVE  GoodCode(Wide(a, n))
<1>1. IsOperand(High(n)) /\ IsOperand(Imm(HalfBits)) /\ IsOperand(Low(n))
  <2>1. HalfBits \in Int
    BY NibbleAssumption DEF HalfBits
  <2> QED BY <2>1, NumbersAreOperands
<1>2. Ready(<<a, High(n)>>) /\ Ready(<<a, a, Imm(HalfBits)>>) /\ Ready(<<a, a, Low(n)>>)
  BY <1>1, ReadyLists
<1>3. Good(Ins("ldi", <<a, High(n)>>)) /\ Good(Ins("shli", <<a, a, Imm(HalfBits)>>))
      /\ Good(Ins("ori", <<a, a, Low(n)>>))
  BY <1>2, GoodIns
<1> QED BY <1>3, GoodLists DEF Wide

LEMMA JmpIsGood ==
  ASSUME NEW a, IsOperand(a), NEW p PROVE GoodCode(Jmp(a, p))
<1>1. Ready(<<a>>) /\ Ready(<<>>)
  BY ReadyLists
<1>2. /\ Good(Ins("jreg", <<a>>)) /\ Good(Ins("push", <<a>>)) /\ Good(Ins("ret", <<>>))
      /\ Good(Ins("jrel", <<a>>)) /\ Good(Ins("jmpabs", <<a>>))
  BY <1>1, GoodIns
<1> QED BY <1>2, GoodLists DEF Jmp

LEMMA CallIsGood ==
  ASSUME NEW a, IsOperand(a), NEW p \in Places PROVE GoodCode(Call(a, p))
<1> DEFINE to(n) == <<Imm(p.rroff + n)>>
<1>1. p.rroff \in Nat
  BY PlacesAssumption
<1>2. Ready(<<a>>) /\ Ready(<<>>) /\ Ready(to(2)) /\ Ready(to(4))
  BY <1>1, ReadyLists, NumbersAreOperands
<1> HIDE DEF to
<1>3. /\ Good(Ins("call", <<a>>)) /\ Good(Ins("call", to(2))) /\ Good(Ins("jrel", to(4)))
      /\ Good(Ins("push", <<a>>)) /\ Good(Ins("ret", <<>>)) /\ Good(Ins("jrel", to(2)))
      /\ Good(Ins("jreg", <<a>>))
  BY <1>2, GoodIns
<1> QED BY <1>3, GoodLists DEF Call, to

LEMMA UnsupportedIsGood == GoodCode(Unsupported)
<1>1. Good(Ins("error", <<>>))
  BY ReadyLists, GoodIns
<1> QED BY <1>1, GoodLists DEF Unsupported

LEMMA MovIsGood ==
  ASSUME NEW a, NEW b, IsOperand(a), IsOperand(b), NEW p \in Places
  PROVE  GoodCode(Mov(a, b, p))
<1> DEFINE next == Imm(p.rroff + 1)
<1>1. IsOperand(Imm(0)) /\ IsOperand(next)
  <2>1. p.rroff \in Nat
    BY PlacesAssumption
  <2> QED BY <2>1, NumbersAreOperands
<1> HIDE DEF next
<1>2. /\ Ready(<<a, b, Imm(0)>>) /\ Ready(<<a, b>>) /\ Ready(<<a>>) /\ Ready(<<b>>) /\ Ready(<<next>>)
  BY <1>1, ReadyLists
<1>3. /\ Good(Ins("ori", <<a, b, Imm(0)>>)) /\ Good(Ins("st", <<a, b>>)) /\ Good(Ins("ld", <<a, b>>))
      /\ Good(Ins("ldi", <<a, b>>)) /\ Good(Ins("sts", <<b>>)) /\ Good(Ins("lds", <<a>>))
      /\ Good(Ins("call", <<next>>)) /\ Good(Ins("pop", <<a>>)) /\ Good(Ins("jreg", <<a, b>>))
  BY <1>2, GoodIns
<1>4. /\ GoodCode(<<Ins("ori", <<a, b, Imm(0)>>)>>) /\ GoodCode(<<Ins("st", <<a, b>>)>>)
      /\ GoodCode(<<Ins("ld", <<a, b>>)>>) /\ GoodCode(<<Ins("ldi", <<a, b>>)>>)
      /\ GoodCode(<<Ins("sts", <<b>>)>>) /\ GoodCode(<<Ins("lds", <<a>>)>>)
      /\ GoodCode(<<Ins("call", <<next>>), Ins("pop", <<a>>)>>)
      /\ GoodCode(<<Ins("jreg", <<a, b>>)>>)
  BY <1>3, GoodLists
<1>5. b.type \in {"int", "sym"} => GoodCode(Wide(a, b.value))
  BY WideIsGood DEF IsOperand
<1>6. GoodCode(Jmp(b, p)) /\ GoodCode(Unsupported)
  BY JmpIsGood, UnsupportedIsGood
<1> QED BY <1>4, <1>5, <1>6 DEF Mov, next

LEMMA ThreeIsReady ==
  ASSUME NEW o, Ready(o), Len(o) \in {2, 3}
  PROVE  Ready(Three(o))
<1>1. CASE Len(o) = 2
  <2>1. IsOperand(o[1]) /\ IsOperand(o[2])
    BY <1>1 DEF Ready
  <2> QED BY <1>1, <2>1, ReadyLists DEF Three
<1>2. CASE Len(o) = 3
  BY <1>2 DEF Three
<1> QED BY <1>1, <1>2

LEMMA WithImmediateIsGood ==
  ASSUME NEW name, name # "dd", NEW o, Ready(o), Len(o) \in {2, 3}
  PROVE  GoodCode(WithImmediate(name, o))
<1>1. GoodCode(<<Ins(name, Three(o))>>)
  BY ThreeIsReady, GoodIns, GoodLists
<1> QED BY <1>1, UnsupportedIsGood DEF WithImmediate

LEMMA ArithmeticIsGood ==
  ASSUME NEW name \in ArithmeticNames, name # "dd", NEW o, Ready(o), Len(o) \in {2, 3}
  PROVE  GoodCode(Arithmetic(name, o))
<1> DEFINE m == CHOOSE m \in DOMAIN ImmediateForm : ImmediateForm[m] = name
<1>1. Ready(Three(o)) /\ GoodCode(<<Ins(name, Three(o))>>)
  BY ThreeIsReady, GoodIns, GoodLists
<1>2. m # "dd"
  <2>1. m \in DOMAIN ImmediateForm
    BY DEF ArithmeticNames
  <2> HIDE DEF m
  <2> QED BY <2>1 DEF ImmediateForm
<1>3. Len(Three(o)) = 3
  BY DEF Three
<1>4. GoodCode(WithImmediate(m, Three(o)))
  <2> HIDE DEF m
  <2> QED BY <1>1, <1>2, <1>3, WithImmediateIsGood
<1> QED BY <1>1, <1>4 DEF Arithmetic

LEMMA MulIsGood ==
  ASSUME NEW which \in {"mull", "mulh"}, NEW o, Ready(o), Len(o) \in {2, 3, 4}
  PROVE  GoodCode(Mul(which, o))
<1>1. CASE Len(o) = 4
  <2>1. IsOperand(o[1]) /\ IsOperand(o[2]) /\ IsOperand(o[3]) /\ IsOperand(o[4])
    BY <1>1 DEF Ready
  <2>2. Ready(<<o[1], o[3], o[4]>>) /\ Ready(<<o[2], o[3], o[4]>>)
    BY <2>1, ReadyLists
  <2>3. Good(Ins("mull", <<o[1], o[3], o[4]>>)) /\ Good(Ins("mulu", <<o[2], o[3], o[4]>>))
    BY <2>2, GoodIns
  <2> QED BY <1>1, <2>3, GoodLists DEF Mul
<1>2. CASE Len(o) \in {2, 3}
  <2>1. GoodCode(<<Ins(which, Three(o))>>)
    BY <1>2, ThreeIsReady, GoodIns, GoodLists
  <2> QED BY <1>2, <2>1 DEF Mul
<1> QED BY <1>1, <1>2

LEMMA ResolvedIsGood ==
  ASSUME NEW name, NEW o, Ready(o), Len(o) \in Counts(name), NEW p \in Places
  PROVE  GoodCode(Resolved(name, o, p))
<1>1. DOMAIN ImmediateForm = {"addi", "subi", "andi", "ori", "xori", "shli", "shri"}
  BY DEF ImmediateForm
<1>2. ArithmeticNames = {"add", "sub", "and", "or", "xor", "shl", "shr"}
  BY DEF ImmediateForm, ArithmeticNames
<1>3. CASE name = "mov"
  <2>1. Len(o) = 2
    BY <1>1, <1>2, <1>3 DEF Counts
  <2>2. IsOperand(o[1]) /\ IsOperand(o[2])
    BY <2>1 DEF Ready
  <2> QED BY <1>1, <1>2, <1>3, <2>2, MovIsGood DEF Resolved
<1>4. CASE name \in {"jmp", "call"}
  <2>1. Len(o) = 1
    BY <1>1, <1>2, <1>4 DEF Counts
  <2>2. IsOperand(o[1])
    BY <2>1 DEF Ready
  <2> QED BY <1>1, <1>2, <1>4, <2>2, JmpIsGood, CallIsGood DEF Resolved
<1>5. CASE name = "bgt"
  <2>1. Len(o) = 3
    BY <1>1, <1>2, <1>5 DEF Counts
  <2>2. IsOperand(o[1]) /\ IsOperand(o[2]) /\ IsOperand(o[3])
    BY <2>1 DEF Ready
  <2>3. Good(Ins("blt", <<o[2], o[1], o[3]>>))
    BY <2>2, ReadyLists, GoodIns
  <2> QED BY <1>1, <1>2, <1>5, <2>3, GoodLists DEF Resolved, Bgt
<1>6. CASE name \in {"mul", "mull", "mulh"}
  <2>1. Len(o) \in {2, 3, 4}
    BY <1>1, <1>2, <1>6 DEF Counts
  <2> QED BY <1>1, <1>2, <1>6, <2>1, MulIsGood DEF Resolved
<1>7. CASE name \in {"in", "out"}
  <2>1. Good(Ins("stio", o)) /\ Good(Ins("ldio", o))
    BY GoodIns
  <2> QED BY <1>1, <1>2, <1>7, <2>1, GoodLists DEF Resolved
<1>8. CASE name \in ArithmeticNames
  <2>1. Len(o) \in {2, 3} /\ name # "dd"
    BY <1>2, <1>8 DEF Counts
  <2>2. Resolved(name, o, p) = Arithmetic(name, o)
    BY <1>1, <1>2, <1>8 DEF Resolved
  <2> QED BY <1>8, <2>1, <2>2, ArithmeticIsGood
<1>9. CASE name \in DOMAIN ImmediateForm
  <2>1. Len(o) \in {2, 3} /\ name # "dd"
    BY <1>1, <1>9 DEF Counts
  <2>2. Resolved(name, o, p) = WithImmediate(name, o)
    BY <1>1, <1>2, <1>9 DEF Resolved
  <2> QED BY <2>1, <2>2, WithImmediateIsGood
<1>10. \/ name \in {"mov", "jmp", "call", "bgt", "mul", "mull", "mulh", "in", "out"}
       \/ name \in ArithmeticNames \/ name \in DOMAIN ImmediateForm
  BY DEF Counts
<1> QED BY <1>3, <1>4, <1>5, <1>6, <1>7, <1>8, <1>9, <1>10

\* Every instruction of a line has decoded operands, and only dd gives data.
LEMMA ResolveIsGood ==
  ASSUME NEW l \in Lines, l.name # "dd", NEW p \in Places
  PROVE  GoodCode(Resolve(l, p))
<1> DEFINE o == [k \in DOMAIN l.operands |-> Decoded(l.operands[k])]
<1>1. /\ Len(l.operands) \in Nat /\ DOMAIN o = 1..Len(l.operands)
      /\ \A k \in DOMAIN o : IsOperand(o[k])
  BY LinesAssumption, DecodedIsOperand
<1>2. Ready(o)
  <2>1. o \in Seq({o[k] : k \in DOMAIN o})
    BY <1>1
  <2>2. Len(o) = Len(l.operands)
    BY <1>1, <2>1
  <2> HIDE DEF o
  <2> QED BY <1>1, <2>2 DEF Ready
<1>3. Resolve(l, p) = IF Contains(o, Error) THEN Unsupported
                      ELSE IF Len(o) \in Counts(l.name) THEN Resolved(l.name, o, p)
                      ELSE <<Ins(l.name, o)>>
  BY DEF Resolve
<1> HIDE DEF o
<1>4. GoodCode(Unsupported)
  BY UnsupportedIsGood
<1>5. Len(o) \in Counts(l.name) => GoodCode(Resolved(l.name, o, p))
  BY <1>2, ResolvedIsGood
<1>6. GoodCode(<<Ins(l.name, o)>>)
  BY <1>2, GoodIns, GoodLists
<1> QED BY <1>3, <1>4, <1>5, <1>6

-----------------------------------------------------------------------------
(* The theorem *)

LEMMA LineBack ==
  ASSUME line \in Lines, place \in Places PROVE DisassemblesBack
<1> SUFFICES ASSUME NEW k \in DOMAIN Words, Words[k] # Error, line.name # "dd",
                    place.future => Resolve(line, place)[k][1] \in BeforeJal
             PROVE  LET code == Resolve(line, place)[k] IN
                    Disassemble(place.future, Words[k].value) =
                      [name |-> code[1], operands |-> [n \in DOMAIN Letters(code[1]) |->
                         PrintedAs(Letters(code[1])[n], code[2][n], FirstWord + k - 1)]]
  BY DEF DisassemblesBack, PrintedAs
<1> DEFINE code == Resolve(line, place)
           name == code[k][1]
           decoded == code[k][2]
           here == FirstWord + k - 1
<1>1. DOMAIN Words = DOMAIN code /\ GoodCode(code)
  BY ResolveIsGood DEF Words, Assembled
<1>2. k \in DOMAIN code /\ k \in Nat \ {0} /\ name # "dd" /\ Ready(decoded)
  BY <1>1 DEF GoodCode, Good
<1>3. Words[k] = Encode(place.future, name, decoded, here)
  BY <1>2 DEF Words, Assembled, FirstWord
<1>4. here \in Nat
  <2>1. place.vmembase \in Nat /\ place.rroff \in Nat
    BY PlacesAssumption
  <2> QED BY <1>2, <2>1 DEF FirstWord
<1> HIDE DEF code, name, decoded, here
<1>5. /\ Len(decoded) \in Nat /\ DOMAIN decoded = 1..Len(decoded)
      /\ \A j \in 1..Len(decoded) : IsOperand(decoded[j])
  BY <1>2 DEF Ready
<1>6. Encode(place.future, name, decoded, here) # Error
      /\ (place.future => name \in BeforeJal)
  BY <1>3 DEF name, code
<1>7. Disassemble(place.future, Encode(place.future, name, decoded, here).value) =
        [name |-> name, operands |-> [j \in DOMAIN Letters(name) |->
                                       PrintedAs(Letters(name)[j], decoded[j], here)]]
  BY ONLY <1>4, <1>5, <1>6, EncodedIsDisassembled
<1> QED BY <1>3, <1>7 DEF code, name, decoded, here

\* A line stays where it was assembled.
LinePlaced == line \in Lines /\ place \in Places

\* Whatever the width of a byte and the opcodes: an instruction of a line that was
\* accepted, with its word as the machine holds it, is disassembled to the
\* mnemonic and the operands it was encoded from.
THEOREM DisassembledAsEncoded == HlviSpec => []DisassemblesBack
<1>1. HlviInit => LinePlaced
  BY DEF HlviInit, LinePlaced
<1>2. LinePlaced /\ [HlviNext]_hlviVars => LinePlaced'
  BY DEF LinePlaced, HlviNext, RunLine, CalleeReturns, hlviVars
<1>3. LinePlaced => DisassemblesBack
  BY LineBack DEF LinePlaced
<1> QED BY <1>1, <1>2, <1>3, PTL DEF HlviSpec
=============================================================================
