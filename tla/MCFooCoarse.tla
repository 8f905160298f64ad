---------------------------- MODULE MCFooCoarse ----------------------------
(* FooCoarse for TLC: two ids that share a chain and one that does not. *)
EXTENDS FooCoarse

CONSTANTS t1, t2, o1, o2, o3

MCThreads == {t1, t2}
MCObjs == {o1, o2, o3}
MCIds == {0, 1, 2}
MCSymmetry == Permutations(MCThreads) \cup Permutations(MCObjs)

=============================================================================
