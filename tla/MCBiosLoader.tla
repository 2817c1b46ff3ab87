---------------------------- MODULE MCBiosLoader ----------------------------
(* Two programs, of three and of four bytes: the first is padded by one     *)
(* byte, the second by a whole word.                                        *)
EXTENDS BiosLoader

MCPrograms == << <<10, 11, 12>>, <<20, 21, 22, 23>> >>

MCStream == Packet(MCPrograms[1]) \o Packet(MCPrograms[2])
=============================================================================
