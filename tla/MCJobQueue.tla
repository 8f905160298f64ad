----------------------------- MODULE MCJobQueue -----------------------------
(* JobQueue for TLC. *)
EXTENDS JobQueue

CONSTANTS j1, j2, j3, j4, f1, f2

MCJobs == {j1, j2, j3, j4}
MCFinders == {f1, f2}
MCAppend == {"insert", "append"}
MCRemove == {"insert", "remove_end", "remove_middle"}
MCSymmetry == Permutations(MCJobs) \cup Permutations(MCFinders)

=============================================================================
