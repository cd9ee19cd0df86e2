-------------------------- MODULE MCOptimizeScopes --------------------------
(* Two identifiers that are interchangeable; formulas and names are only    *)
(* carried along, so that one of each is enough.                            *)
EXTENDS OptimizeScopes, TLC

Symmetry == Permutations(Id)
=============================================================================
