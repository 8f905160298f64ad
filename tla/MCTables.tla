------------------------------ MODULE MCTables ------------------------------
(* Tables for TLC. *)
EXTENDS Tables, TLC

CONSTANTS r1, r2, r3, t1, t2, o1, o2, o3, j1, j2, j3, j4, f1, f2

\* the two threads of lock_test1 and a third
MCThreads == {r1, r2, r3}

MCWorkers == {t1, t2}
MCObjs == {o1, o2, o3}
MCJobs == {j1, j2, j3, j4}
MCFinders == {f1, f2}

\* two ids that share a chain and one that does not
MCIds == {0, 1, 2}

Symmetry == UNION {Permutations(S) : S \in {MCJobs, MCFinders}}

=============================================================================
