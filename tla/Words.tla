------------------------------- MODULE Words -------------------------------
(***************************************************************************)
(* The words of the rrisc machine and what its instructions compute on     *)
(* them (rrvm/src/cpu/rrisc.c).  A word is four bytes, an immediate two;   *)
(* NibbleBits scales both down for TLC: the machine has 8-bit bytes.       *)
(***************************************************************************)
EXTENDS Integers, Sequences

CONSTANTS NibbleBits,     \* bits of half a byte, and of a register's number: 4
          NibbleValues    \* 16

ASSUME NibbleAssumption ==
  /\ NibbleBits \in Nat \ {0}
  /\ NibbleValues \in Nat \ {0, 1}
  /\ NibbleValues = 2^NibbleBits

ByteValues == NibbleValues * NibbleValues
HalfValues == ByteValues * ByteValues
WordValues == HalfValues * HalfValues
HalfBits   == 4 * NibbleBits
WordBits   == 2 * HalfBits

Byte == 0..(ByteValues - 1)
Half == 0..(HalfValues - 1)
Word == 0..(WordValues - 1)

\* A word and an immediate as they lie in memory.
WordBytes == Byte \X Byte \X Byte \X Byte
HalfBytes == Byte \X Byte

\* ntohs, ntohl and htonl on the little-endian host.
ntohs(b) == b[1] * ByteValues + b[2]
ntohl(b) == ((b[1] * ByteValues + b[2]) * ByteValues + b[3]) * ByteValues + b[4]
htonl(w) == LET Digit(d) == (w \div d) % ByteValues
            IN <<Digit(ByteValues * HalfValues), Digit(HalfValues), Digit(ByteValues), Digit(1)>>

\* uint32_t arithmetic wraps; an int16_t has a sign.
Wrap(n)   == n % WordValues
Signed(h) == IF 2 * h < HalfValues THEN h ELSE h - HalfValues

\* How many words the byte addresses of a bus hold: address << 2 drops bits.
CellCount == WordValues \div 4

Bit(w, k) == k < WordBits /\ (w \div 2^k) % 2 = 1

\* The word whose bit k is set exactly when b[k] holds.
FromBits(b) ==
  LET below[k \in 0..WordBits] ==
        IF k = 0 THEN 0 ELSE below[k - 1] + IF b[k - 1] THEN 2^(k - 1) ELSE 0
  IN  {below[WordBits]} \cap Word

Bitwise(F(_, _), x, y) ==
  FromBits([k \in 0..(WordBits - 1) |-> F(Bit(x, k), Bit(y, k))])

And(p, q) == p /\ q
Or(p, q)  == p \/ q
Xor(p, q) == p # q

\* C leaves shifts by the width of a word or more undefined.  Compiled code
\* masks the count or shifts everything out.
ShiftCounts(n) == IF n < WordBits THEN {n} ELSE {n % WordBits, WordBits}

ShiftLeft(x, n) ==
  UNION {FromBits([k \in 0..(WordBits - 1) |-> k >= c /\ Bit(x, k - c)]) : c \in ShiftCounts(n)}
ShiftRight(x, n) ==
  UNION {FromBits([k \in 0..(WordBits - 1) |-> Bit(x, k + c)]) : c \in ShiftCounts(n)}
=============================================================================
