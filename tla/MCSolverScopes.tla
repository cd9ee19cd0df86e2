--------------------------- MODULE MCSolverScopes ---------------------------
(* Two interpretations, a formula for each of them, and one name.          *)
EXTENDS SolverScopes, TLC

CONSTANTS f, g, x, y

MCAllows == (f :> {x}) @@ (g :> {y})
MCAssumptionSets == {{}, {g}}
=============================================================================
