---------------------------- MODULE MCWorkQueue ----------------------------
(* WorkQueue for TLC. *)
EXTENDS WorkQueue

CONSTANTS c1, c2, main, b1, b2, b3

MCPool == {c1, c2}
MCBlocks == {b1, b2, b3}

=============================================================================
