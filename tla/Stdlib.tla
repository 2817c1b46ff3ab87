------------------------------- MODULE Stdlib -------------------------------
(***************************************************************************)
(* The standard library (stdlib/stdlib.asm): byteswap, memcpy32, memcpy,   *)
(* alpha_composite and strlen, each called once.  An action is the code    *)
(* from one label to the next or to the end of a routine, and a turn of a  *)
(* loop.  The bytes of a word are counted from the first one in memory,    *)
(* the most significant.                                                   *)
(***************************************************************************)
EXTENDS Words, FiniteSetsExt

CONSTANT Calls      \* routine, registers and memory when it is entered

Saved     == 1..5                    \* registers a routine leaves as they were
Registers == {0} \cup Saved \cup 13..15

ASSUME CallsAssumption ==
  \A c \in Calls : c.regs \in [Registers -> Word] /\ c.mem \in [DOMAIN c.mem -> Word]

VARIABLES
  call,       \* the call
  label,      \* the code reached; "caller" once the routine has returned
  regs, mem,
  stack       \* what was pushed, the last first: registers and labels

vars == <<call, label, regs, mem, stack>>

ByteBits == 2 * NibbleBits
MaxByte  == ByteValues - 1

\* Shifts by whole bytes, and the and with 0xff shifted to a place.
Shl(w, bytes) == Wrap(w * ByteValues ^ bytes)
Shr(w, bytes) == w \div ByteValues ^ bytes
Lane(w, place) == htonl(w)[place] * ByteValues ^ (4 - place)

Init ==
  /\ call \in Calls
  /\ label = call.name /\ regs = call.regs /\ mem = call.mem
  /\ stack = <<"caller">>

\* A routine's ret, to the address that was pushed last.
Ret(r, pushed) ==
  /\ label' = pushed[1] /\ stack' = Tail(pushed) /\ regs' = r

Byteswap ==
  /\ label = "byteswap"
  /\ LET x == regs[0]
         swapped == Lane(Shr(x, 3), 4) + Lane(Shr(x, 1), 3)
                      + Lane(Shl(x, 1), 2) + Lane(Shl(x, 3), 1)
     IN  Ret([regs EXCEPT ![0] = swapped, ![13] = Lane(Shl(x, 3), 1),
                          ![14] = Shl(MaxByte, 3), ![15] = x], stack)
  /\ UNCHANGED <<call, mem>>

-----------------------------------------------------------------------------
(* memcpy32 *)

CopyNothing ==
  /\ label = "memcpy32" /\ regs[2] = 0
  /\ Ret([regs EXCEPT ![15] = 0], stack)
  /\ UNCHANGED <<call, mem>>

Memcpy32 ==
  /\ label = "memcpy32" /\ regs[2] # 0
  /\ label' = "copyloop"
  /\ stack' = <<regs[3], regs[2]>> \o stack
  /\ regs' = [regs EXCEPT ![3] = 0, ![13] = regs[0], ![14] = regs[1], ![15] = 0]
  /\ UNCHANGED <<call, mem>>

\* A turn of the loop, which is repeated as long as `again' holds of the words
\* left.
CopyWord(again) ==
  /\ label = "copyloop"
  /\ mem' = [mem EXCEPT ![regs[13]] = mem[regs[14]]]
  /\ regs' = [regs EXCEPT ![2] = Wrap(regs[2] - 1), ![13] = Wrap(regs[13] + 1),
                          ![14] = Wrap(regs[14] + 1), ![15] = mem[regs[14]]]
  /\ label' = IF again THEN "copyloop" ELSE "copied"
  /\ UNCHANGED <<call, stack>>

\* Mutant of CopyLoop: bgt taken in the order its operands are written in.
CopyLoopInOrder == CopyWord(regs[3] > Wrap(regs[2] - 1))

CopyLoop == CopyWord(Wrap(regs[2] - 1) > regs[3])

Copied ==
  /\ label = "copied"
  /\ Ret([regs EXCEPT ![3] = stack[1], ![2] = stack[2]], SubSeq(stack, 3, Len(stack)))
  /\ UNCHANGED <<call, mem>>

-----------------------------------------------------------------------------
(* memcpy *)

Memcpy ==
  /\ label = "memcpy"
  /\ label' = "memcpy32"
  /\ stack' = <<"wordscopied", regs[2], regs[2]>> \o stack
  /\ regs' = [regs EXCEPT ![2] = regs[2] \div 4]
  /\ UNCHANGED <<call, mem>>

\* The first of a word's bytes, and the others of another.
Merged(w, first, v) == ntohl([k \in 1..4 |-> IF k =< first THEN htonl(w)[k] ELSE htonl(v)[k]])

\* The words are copied: what is left of the count is merged into the first
\* word of the destination.
CopyTail ==
  /\ label = "wordscopied"
  /\ LET left    == stack[1] % 4
         first   == Merged(mem[regs[1]], left, mem[regs[0]])
         pointed == [regs EXCEPT ![2] = stack[2], ![13] = Wrap(regs[0] + regs[2]),
                                 ![14] = Wrap(regs[1] + regs[2]),
                                 ![15] = IF left = 0 THEN 0 ELSE first]
     IN  /\ mem' = IF left = 0 THEN mem ELSE [mem EXCEPT ![regs[0]] = first]
         /\ Ret(pointed, SubSeq(stack, 3, Len(stack)))
  /\ UNCHANGED call

-----------------------------------------------------------------------------
(* alpha_composite *)

\* The byte above the lowest of a channel's sum, and 256.
Blended(sum) == htonl(Wrap(sum + ByteValues))[3]

\* The sums of red and green take r5 for the product that is in r15.
AlphaComposite ==
  /\ label = "alpha_composite"
  /\ LET bottom   == htonl(regs[0])
         top      == htonl(regs[1])
         inverted == MaxByte - top[1]
         red      == Blended(regs[5] + inverted * bottom[2])
         green    == Blended(regs[5] + inverted * bottom[3])
         blue     == Blended(top[1] * top[4] + inverted * bottom[4])
     IN  Ret([regs EXCEPT ![0] = ntohl(<<MaxByte, red, green, blue>>), ![13] = top[1],
                          ![14] = inverted, ![15] = top[1] * top[4]], stack)
  /\ UNCHANGED <<call, mem>>

-----------------------------------------------------------------------------
(* strlen: r0 counts, r2 is the shift of the next byte, r13 the word's address *)

Strlen ==
  /\ label = "strlen"
  /\ label' = "readloop"
  /\ stack' = <<regs[3], regs[2], regs[1]>> \o stack
  /\ regs' = [regs EXCEPT ![0] = 0, ![13] = regs[0], ![15] = 0]
  /\ UNCHANGED <<call, mem>>

ReadLoop ==
  /\ label = "readloop"
  /\ label' = "shiftloop"
  /\ regs' = [regs EXCEPT ![14] = mem[regs[13]], ![3] = Wrap(-ByteBits), ![2] = 3 * ByteBits]
  /\ UNCHANGED <<call, mem, stack>>

ShiftLoop ==
  /\ label = "shiftloop"
  /\ LET byte    == Shr(regs[14], regs[2] \div ByteBits) % ByteValues
         shift   == Wrap(regs[2] - ByteBits)
         counted == [regs EXCEPT ![0] = Wrap(regs[0] + 1), ![1] = byte, ![2] = shift]
     IN  \/ /\ byte = 0
            /\ Ret([regs EXCEPT ![3] = stack[1], ![2] = stack[2], ![1] = stack[3]],
                   SubSeq(stack, 4, Len(stack)))
         \/ /\ byte # 0 /\ shift # regs[3]
            /\ regs' = counted
            /\ UNCHANGED <<label, stack>>
         \/ /\ byte # 0 /\ shift = regs[3]
            /\ regs' = [counted EXCEPT ![13] = Wrap(regs[13] + 1)]
            /\ label' = "readloop"
            /\ UNCHANGED stack
  /\ UNCHANGED <<call, mem>>

Next ==
  \/ Byteswap \/ CopyNothing \/ Memcpy32 \/ CopyLoop \/ Copied \/ Memcpy \/ CopyTail
  \/ AlphaComposite \/ Strlen \/ ReadLoop \/ ShiftLoop

Spec == Init /\ [][Next]_vars /\ WF_vars(Next)

-----------------------------------------------------------------------------
(* What the routines promise *)

\* The byte of memory at a byte address.
ByteAt(m, b) == htonl(m[b \div 4])[(b % 4) + 1]
Bytes == {4 * a + k : a \in DOMAIN mem, k \in 0..3}

\* As many bytes as a call of memcpy or memcpy32 asks for.
Asked == IF call.name = "memcpy32" THEN 4 * call.regs[2] ELSE call.regs[2]

\* The byte at k of what is asked for is in the destination.
Arrived(k) ==
  LET to == 4 * call.regs[0] + k
  IN  to \in Bytes => ByteAt(mem, to) = ByteAt(call.mem, 4 * call.regs[1] + k)

\* It is behind the last whole word and that is not all there is: memcpy does not
\* copy it (MemcpyCopiesAllBytes).
BehindWords(k) == Asked >= 4 /\ k >= Asked - (Asked % 4)

\* The destination begins inside the source: the copy, which goes upward, reads
\* what it wrote.  And the other way round the first word of the source is no
\* longer what it was when bytes behind whole words are taken from it.
Overlaps ==
  LET to    == call.regs[0]
      from  == call.regs[1]
      words == (Asked + 3) \div 4
  IN  \/ from < to /\ to < from + words
      \/ BehindWords(Asked - 1) /\ to < from /\ from < to + words

Copies ==
  /\ \A k \in 0..(Asked - 1) : BehindWords(k) \/ Arrived(k)
  /\ \A b \in Bytes : b - 4 * call.regs[0] \notin 0..(Asked - 1) =>
                       ByteAt(mem, b) = ByteAt(call.mem, b)

Counts ==
  regs[0] = Min({k \in 0..(4 * Cardinality(DOMAIN mem)) :
                   4 * call.regs[0] + k \in Bytes /\ ByteAt(mem, 4 * call.regs[0] + k) = 0})

\* A channel is blended as the comments have it.
Blend(c) ==
  LET bottom == htonl(call.regs[0])
      top    == htonl(call.regs[1])
  IN  htonl(regs[0])[c] =
        (top[1] * top[c] + (MaxByte - top[1]) * bottom[c] + ByteValues) \div ByteValues

\* Red and green are added to r5 and not to r15, where their product is
\* (stdlib.asm:69 and 80): they are right if the caller happens to have it there.
Blends ==
  LET top == htonl(call.regs[1])
  IN  /\ htonl(regs[0])[1] = MaxByte
      /\ \A c \in 2..4 : (c = 4 \/ regs[5] = top[1] * top[c]) => Blend(c)

Promise ==
  CASE call.name = "byteswap" -> \A k \in 1..4 : htonl(regs[0])[k] = htonl(call.regs[0])[5 - k]
    [] call.name \in {"memcpy32", "memcpy"} -> regs[0] = call.regs[0] /\ (Overlaps \/ Copies)
    [] call.name = "alpha_composite" -> Blends
    [] call.name = "strlen" -> Counts

\* Every routine comes back to its caller, with the stack as it was, the
\* registers that are the caller's as they were, and what it promises done;
\* none but the copies writes to memory.  Not said of the bytes that a memcpy of
\* more than a word has behind its last whole word, nor of red and green.
DoesItsPart ==
  <>(/\ label = "caller" /\ stack = <<>>
     /\ \A r \in Saved : regs[r] = call.regs[r]
     /\ call.name \in {"memcpy32", "memcpy"} \/ mem = call.mem
     /\ Promise)

\* memcpy copies every byte it is asked for (stdlib.asm:108, "copy N bytes(!) from
\* src to dest").
MemcpyCopiesAllBytes ==
  label = "caller" /\ call.name = "memcpy" /\ ~Overlaps => \A k \in 0..(Asked - 1) : Arrived(k)

=============================================================================
