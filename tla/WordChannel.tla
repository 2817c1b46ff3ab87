---------------------------- MODULE WordChannel -----------------------------
(***************************************************************************)
(* What the UART and a guest that follows its protocol promise together: a *)
(* reliable channel of words.  The host offers words, the guest receives   *)
(* exactly those words, in order, each once and none before it was sent.   *)
(***************************************************************************)
EXTENDS Naturals, Sequences

CONSTANT WordOf(_)   \* the k-th word the host sends, from 0

VARIABLES sent,      \* whole words the host has written
          received   \* the words the guest has read

Init == sent = 0 /\ received = <<>>

Send == sent' = sent + 1 /\ UNCHANGED received

Receive ==
  /\ Len(received) < sent
  /\ received' = Append(received, WordOf(Len(received)))
  /\ UNCHANGED sent

Next == Send \/ Receive

Spec == Init /\ [][Next]_<<sent, received>>
=============================================================================
