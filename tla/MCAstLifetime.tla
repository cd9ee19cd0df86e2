--------------------------- MODULE MCAstLifetime ---------------------------
(* One context with a sort s, two rounding modes m1 and m2, a constant k   *)
(* and an application f(k): depth and sharing enough for cascading         *)
(* deletions and for a child that outlives its parent.                     *)
EXTENDS AstLifetime, TLC

CONSTANTS c1, s, m1, m2, k, f

MCNode    == {s, m1, m2, k, f}
MCArgs    == (s :> {}) @@ (m1 :> {s}) @@ (m2 :> {s}) @@ (k :> {s})
                @@ (f :> {k, s})
MCSub     == [n \in MCNode |->
                {n} \cup MCArgs[n] \cup UNION {MCArgs[a] : a \in MCArgs[n]}]
MCHome    == [n \in MCNode |-> c1]
MCTwin    == [n \in MCNode |-> (c1 :> n)]
MCNearest == (c1 :> m1)
MCModes   == {m1, m2}
MCBatches == {{m2, f}, {s, k}}

WrapperSymmetry == Permutations(Wrapper)
=============================================================================
