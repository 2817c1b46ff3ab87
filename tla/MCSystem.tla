------------------------------ MODULE MCSystem ------------------------------
(* A stream of three words, and displays with bytes of two bits, words of two *)
(* bytes and a frame of 2 x 2.                                                *)
EXTENDS System, Sequences

MCStream == <<0, 0, 0, 2,  10, 11, 12, 13,  20, 21, 22, 23>>

W(first, second) == [k \in Offsets |-> IF k = 0 THEN first ELSE second]

\* Resizing, resetting, an unknown command, both switches, and a status that is
\* written back as it was read.
MCControlStores ==
  {W(0, 0), W(0, 3), W(0, 1), W(WriteAdvanced, 0), W(WriteCompat, 3), W(1, 0)}
MCSizeStores    == {W(0, 1), W(0, 3)}
MCPaletteStores == {W(0, 2), W(1, 1)}
MCScreenStores  == {W(0, 0), W(1, 2)}
MCScreenWords   == {0, 3, 5}

\* The programs of this instance read the stream first and draw afterwards: UART
\* and displays share no state, so that how their uses alternate makes no difference.
Drained == taken = Len(MCStream) /\ offset = 0
ReadsThenDraws ==
  /\ vars' # vars => Drained /\ ~finished
  /\ ~finished /\ finished' => ~Drained
=============================================================================
