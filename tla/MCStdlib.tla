----------------------------- MODULE MCStdlib -----------------------------
(* Stdlib with bytes of two bits. *)
EXTENDS Stdlib

\* Memory with different words, and with strings of any four bytes first.
Filled        == [a \in 0..11 |-> (37 * a + 27) % WordValues]
Strings(w, v) == [Filled EXCEPT ![3] = w, ![4] = v, ![5] = 64]

Called(name, r0, r1, r2, r5, m) ==
  [name |-> name, mem |-> m,
   regs |-> [r \in Registers |->
               CASE r = 0 -> r0 [] r = 1 -> r1 [] r = 2 -> r2 [] r = 5 -> r5 [] OTHER -> 100 + r]]

MCCalls ==
  {Called("byteswap", x, 7, 9, 11, Filled) : x \in Word}
  \cup {Called("memcpy32", to, from, n, 11, Filled) : to \in 0..7, from \in 0..7, n \in 0..4}
  \cup {Called("memcpy", to, from, n, 11, Filled) : to \in 0..7, from \in 0..7, n \in 0..13}
  \cup {Called("alpha_composite", bottom, top, 9, r5, Filled) :
          bottom \in {0, 27, 228, 255}, top \in Word, r5 \in {0, 3, 6, 9, 255}}
  \cup {Called("strlen", 3, 7, 9, 11, Strings(w, v)) : w \in Word, v \in {0, 21, 81, 255}}
=============================================================================
