--------------------------- MODULE AssertionStack ---------------------------
(* What a solver promises the user of Z3Solver: a stack of sets of          *)
(* assertions.  push opens a set, pop(n) closes the last n, reset closes    *)
(* all of them, a check answers for the union of the sets together with     *)
(* the assumptions of the call, and a model obtained after a satisfiable    *)
(* check is a model of exactly that union.                                  *)
EXTENDS Assertions

VARIABLES
    stack,       \* the sets of assertions, the innermost last
    checked,     \* the last check, while the assertions are those it was for
    model        \* the model obtained for that check

Asserted == UNION {stack[i] : i \in DOMAIN stack}
Asked(assumed) == Satisfying(Bodies(Asserted) \cup assumed)

AbsInit == stack = <<{}>> /\ checked = Nothing /\ model = Nothing

Forget == checked' = Nothing /\ model' = Nothing

Add(e) ==
    /\ e.name \notin Names(Asserted)
    /\ stack' = [stack EXCEPT ![Len(stack)] = @ \cup {e}]
    /\ Forget

\* A name can be used once: the call reports an error and changes nothing.
Refuse(e) ==
    /\ e.name \in Names(Asserted)
    /\ UNCHANGED stack
    /\ Forget

Open == stack' = Append(stack, {}) /\ Forget

Close(n) ==
    /\ n < Len(stack)
    /\ stack' = SubSeq(stack, 1, Len(stack) - n)
    /\ Forget

Clear == stack' = <<{}>> /\ Forget

\* A check may give up, but what it decides is right.
Answer ==
    /\ checked' \in [verdict : Verdict, assumed : SUBSET Formula]
    /\ Right(checked'.verdict, Asked(checked'.assumed))
    /\ model' = Nothing
    /\ UNCHANGED stack

\* After a satisfiable check there is a model, and it satisfies what was
\* checked; without one nothing is promised.
Produce ==
    /\ model' \in Leaf \cup {Nothing}
    /\ (checked # Nothing /\ checked.verdict = "sat")
           => model' \in Asked(checked.assumed)
    /\ UNCHANGED <<stack, checked>>

AbsNext ==
    \/ Answer \/ Produce \/ Open \/ Clear
    \/ \E n \in 1 .. Len(stack) : Close(n)
    \/ \E e \in Entry : Add(e) \/ Refuse(e)

AbsSpec == AbsInit /\ [][AbsNext]_<<stack, checked, model>>
=============================================================================
