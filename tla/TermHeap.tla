------------------------------ MODULE TermHeap ------------------------------
(***************************************************************************)
(* What a program that uses SwiftZ3 may rely on, without reference counts, *)
(* trails or wrappers: a heap of hash-consed terms, collected cell by      *)
(* cell, in which whatever the program can still name stays allocated.     *)
(***************************************************************************)
CONSTANTS Node, Sub

VARIABLES
    heap,     \* the allocated cells
    roots     \* the cells the program can name

Reach(S) == UNION {Sub[n] : n \in S}

Init == heap = {} /\ roots = {}

\* The program builds terms, keeps some and forgets others.  It can come to
\* name a cell only by building it or by following what it could name before;
\* the heap grows by whole terms.
Compute ==
    /\ heap \subseteq heap'
    /\ roots' \subseteq Reach(roots) \cup (heap' \ heap)
    /\ Reach(heap') = heap'

\* A cell the program cannot reach is freed.
Collect ==
    \E n \in heap \ Reach(roots) :
        /\ heap' = heap \ {n}
        /\ roots' = roots

Spec == Init /\ [][Compute \/ Collect]_<<heap, roots>>
=============================================================================
