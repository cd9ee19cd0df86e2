----------------------------- MODULE Assertions -----------------------------
(* Assertions of a solver, told apart by the interpretations they allow and *)
(* the name they are tracked by.                                            *)
EXTENDS Naturals, Sequences

CONSTANTS
    Formula,
    Leaf,        \* interpretations
    Allows,      \* Allows[f]: the interpretations under which f holds
    Name,        \* Boolean constants that assertAndTrack takes
    NoName,      \* the name of a formula asserted with assert
    Nothing      \* no check, no model

ASSUME AllowsAssumption == Allows \in [Formula -> SUBSET Leaf]
ASSUME NoNameAssumption == NoName \notin Name
ASSUME NothingAssumption == Nothing \notin Leaf

Entry == [body : Formula, name : Name \cup {NoName}]
Verdict == {"sat", "unsat", "undef"}

\* The interpretations that satisfy a set of formulas.
Satisfying(fs) == {l \in Leaf : \A f \in fs : l \in Allows[f]}

Bodies(es) == {e.body : e \in es}
Names(es) == {e.name : e \in es} \ {NoName}

\* What a check with the answer v may say of a set of interpretations.
Right(v, ls) == (v = "sat" => ls # {}) /\ (v = "unsat" => ls = {})
=============================================================================
