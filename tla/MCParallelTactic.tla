-------------------------- MODULE MCParallelTactic --------------------------
(* The threads of a parallel tactic are interchangeable, and so are the     *)
(* leaves of its search space, as long as no liveness is checked.           *)
EXTENDS ParallelTactic, TLC

Symmetry == Permutations(Workers) \cup Permutations(Leaves)
=============================================================================
