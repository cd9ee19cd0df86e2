---------------------------- MODULE OptimizeStack ---------------------------
(* What Z3Optimize promises: push keeps the hard constraints, the names     *)
(* that track them and the objectives as they are, pop brings back exactly  *)
(* what the matching push kept, and a soft constraint joins the objective   *)
(* that has its identifier, or opens a new one whose index is returned.     *)
EXTENDS Naturals, Sequences

CONSTANTS
    Formula,     \* hard and soft constraints, and terms to optimise
    Name,        \* the constants that track hard constraints
    Id,          \* identifiers of soft constraints
    NoId         \* the identifier of a maximize or minimize objective

VARIABLES
    now,         \* the constraints and objectives that count
    kept,        \* what the pushes that are open have kept
    index        \* the index the last call has returned

Empty == [hard |-> <<>>, names |-> <<>>, objectives |-> <<>>]
Objective == [id : Id \cup {NoId}, terms : Seq(Formula)]

AbsInit == now = Empty /\ kept = <<>> /\ index = 0

AddHard ==
    \E f \in Formula, ns \in {<<>>} \cup {<<n>> : n \in Name} :
        /\ now' = [now EXCEPT !.hard = Append(@, f), !.names = @ \o ns]
        /\ UNCHANGED <<kept, index>>

\* weighted is FALSE for a weight of zero, which opens an objective only.
AddSoft(f, id, weighted) ==
    LET terms == IF weighted THEN <<f>> ELSE <<>> IN
    /\ \/ /\ \E i \in DOMAIN now.objectives :
                /\ now.objectives[i].id = id
                /\ now' = [now EXCEPT !.objectives[i].terms = @ \o terms]
                /\ index' = i
       \/ /\ \A i \in DOMAIN now.objectives : now.objectives[i].id # id
          /\ now' = [now EXCEPT !.objectives =
                         Append(@, [id |-> id, terms |-> terms])]
          /\ index' = Len(now'.objectives)
    /\ UNCHANGED kept

AddObjective(t) ==
    /\ now' = [now EXCEPT !.objectives =
                   Append(@, [id |-> NoId, terms |-> <<t>>])]
    /\ index' = Len(now'.objectives)
    /\ UNCHANGED kept

Keep == kept' = Append(kept, now) /\ UNCHANGED <<now, index>>

\* Without an open push there is nothing to bring back.
BringBack ==
    /\ kept # <<>>
    /\ now' = kept[Len(kept)]
    /\ kept' = SubSeq(kept, 1, Len(kept) - 1)
    /\ UNCHANGED index

AbsNext ==
    \/ AddHard \/ Keep \/ BringBack
    \/ \E t \in Formula : AddObjective(t)
    \/ \E f \in Formula, id \in Id, weighted \in BOOLEAN :
          AddSoft(f, id, weighted)

AbsSpec == AbsInit /\ [][AbsNext]_<<now, kept, index>>
=============================================================================
