---------------------------- MODULE MCApiObjects ----------------------------
(* Every kind whose life differs: solvers load texts, statistics reset the *)
(* register when they go, fixedpoint objects never go.                     *)
EXTENDS ApiObjects, TLC

Symmetry == Permutations(Object) \cup Permutations(Wrapper)
=============================================================================
