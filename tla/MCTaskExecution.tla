--------------------------- MODULE MCTaskExecution ---------------------------
(* A small instance of TaskExecution for TLC: two runs, of one job or two.  *)
EXTENDS TaskExecution, TLC

Symmetry == Permutations(Runs) \cup Permutations(Jobs)
=============================================================================
