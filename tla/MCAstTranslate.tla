--------------------------- MODULE MCAstTranslate ---------------------------
(* Two contexts, each with its rounding mode m of sort s and a constant k: *)
(* terms are translated both ways while either context may go away.        *)
EXTENDS AstLifetime, TLC

CONSTANTS a, b, sa, ma, ka, sb, mb, kb

MCNode    == {sa, ma, ka, sb, mb, kb}
MCArgs    == (sa :> {}) @@ (ma :> {sa}) @@ (ka :> {sa})
                @@ (sb :> {}) @@ (mb :> {sb}) @@ (kb :> {sb})
MCSub     == [n \in MCNode |-> {n} \cup MCArgs[n]]
MCHome    == [n \in MCNode |-> IF n \in {sa, ma, ka} THEN a ELSE b]
Pair(x, y) == (a :> x) @@ (b :> y)
MCTwin    == [n \in MCNode |->
                CASE n \in {sa, sb} -> Pair(sa, sb)
                  [] n \in {ma, mb} -> Pair(ma, mb)
                  [] n \in {ka, kb} -> Pair(ka, kb)]
MCNearest == Pair(ma, mb)
MCModes   == {ma, mb}
=============================================================================
