---------------------------- MODULE SolverScopes ----------------------------
(* The solver behind Z3Solver: combined_solver keeps a tactic2solver        *)
(* (solver1) and an smt_solver (solver2), sends every assertion, push and   *)
(* pop to both, and lets one of them answer a check.  Both keep a flat      *)
(* vector of assertions with the sizes their scopes started at and, by      *)
(* solver_na2as, a second vector for the names of tracked assertions.       *)
(* smt_solver consults the cancellation count of the context's limit        *)
(* wherever it works: an interrupt that no check was there to receive is    *)
(* still counted when the next assertion or push comes.                     *)
EXTENDS Assertions, Functions

CONSTANTS
    MaxEntries,    \* bound: assertions solver1 holds
    MaxScopes,     \* bound: scopes solver1 has open
    AssumptionSets,  \* the assumptions a check may be given
    CheckFirst     \* whether the user, after an interrupt, lets a check
                   \* come before the next assertion, push or getModel

ASSUME BoundsAssumption == MaxEntries \in Nat /\ MaxScopes \in Nat
ASSUME AssumptionSetsAssumption == AssumptionSets \subseteq SUBSET Formula
ASSUME CheckFirstAssumption == CheckFirst \in BOOLEAN

VARIABLES
    solver1,                \* m_solver1
    solver2,                \* m_solver2
    m_inc_mode,
    m_check_sat_executed,
    m_use_solver1_results,
    m_cancel,               \* reslimit::m_cancel > 0
    checked,                \* the status the caller has, while it is current
    model                   \* the model the caller has for it

flags == <<m_inc_mode, m_check_sat_executed, m_use_solver1_results>>
answers == <<checked, model>>
vars == <<solver1, solver2, flags, m_cancel, answers>>

-----------------------------------------------------------------------------
(* What the two solvers hold.                                              *)

Holds(entries, names) ==
    {e \in Range(entries) : e.name \in Range(names) \cup {NoName}}

Meaning1 == Satisfying(Bodies(Holds(solver1.entries, solver1.assumptions)))

Meaning2(assumed) ==
    IF solver2.inconsistent THEN {}
    ELSE Satisfying(Bodies(Holds(solver2.entries, solver2.assumptions))
                        \cup assumed)

Fresh1 == [entries |-> <<>>, limits |-> <<>>,
           assumptions |-> <<>>, marks |-> <<>>,
           result |-> Nothing]

\* lazy: scopes asserted_formulas has not opened yet; search: what the state
\* of the last search satisfies; m_model: the model made of it.
Fresh2 == [entries |-> <<>>, limits |-> <<>>, lazy |-> 0,
           inconsistent |-> FALSE,
           assumptions |-> <<>>, marks |-> <<>>,
           search |-> Nothing, m_model |-> Nothing]

Init ==
    /\ solver1 = Fresh1
    /\ solver2 = Fresh2
    /\ m_inc_mode = FALSE
    /\ m_check_sat_executed = FALSE
    /\ m_use_solver1_results = TRUE
    /\ m_cancel = FALSE
    /\ checked = Nothing
    /\ model = Nothing

-----------------------------------------------------------------------------
(* solver_na2as: the names of tracked assertions, by scope.                *)

Named(s, e) ==
    IF e.name = NoName THEN s
    ELSE [s EXCEPT !.assumptions = Append(@, e.name)]

Marked(s) == [s EXCEPT !.marks = Append(@, Len(s.assumptions))]

Unmarked(s, n) ==
    LET level == Len(s.marks) - n IN
    [s EXCEPT !.assumptions = SubSeq(@, 1, s.marks[level + 1]),
              !.marks = SubSeq(@, 1, level)]

-----------------------------------------------------------------------------
(* solver1: every change drops the result of the last check.               *)

Assert1(e) ==
    solver1' = [Named(solver1, e) EXCEPT !.entries = Append(@, e),
                                         !.result = Nothing]

Push1 == solver1' = [Marked(solver1) EXCEPT
                        !.limits = Append(@, Len(solver1.entries)),
                        !.result = Nothing]

Pop1(n) ==
    LET level == Len(solver1.limits) - n IN
    solver1' = [Unmarked(solver1, n) EXCEPT
                   !.entries = SubSeq(@, 1, solver1.limits[level + 1]),
                   !.limits = SubSeq(@, 1, level),
                   !.result = Nothing]

\* The tactic may leave a model behind when it gives up.
Check1(verdict) ==
    /\ Right(verdict, Meaning1)
    /\ \E l \in CASE verdict = "sat" -> Meaning1
                  [] verdict = "unsat" -> {Nothing}
                  [] verdict = "undef" -> Leaf \cup {Nothing} :
           solver1' = [solver1 EXCEPT !.result = l]

-----------------------------------------------------------------------------
(* solver2: smt_solver, smt::context and asserted_formulas.                *)

\* Variant: scopes are left for later although an assertion arrives.
ForcePushLater(s) == s

\* Scopes are opened when the first assertion after them arrives.
ForcePush(s) ==
    LET limit == [size |-> Len(s.entries), inconsistent |-> s.inconsistent] IN
    [s EXCEPT !.limits = @ \o [i \in 1 .. s.lazy |-> limit], !.lazy = 0]

\* Simplification may find that what is asserted is false.
Reduced(s) ==
    {s} \cup {r \in {[s EXCEPT !.inconsistent = TRUE]} :
                  Satisfying(Bodies(Holds(s.entries, <<>>))) = {}}

\* Nothing is asserted to a context that is canceled, and what is asserted
\* to an inconsistent one is not kept.
Assert2(e) ==
    LET s == Named(solver2, e)
        opened == [ForcePush(s) EXCEPT !.search = Nothing]
    IN  IF m_cancel THEN solver2' = s
        ELSE IF solver2.inconsistent THEN solver2' = opened
        ELSE solver2' \in Reduced([opened EXCEPT !.entries = Append(@, e)])

\* push fails in a context that is canceled, before anything is opened.
Push2 ==
    LET s == [solver2 EXCEPT !.search = Nothing] IN
    IF m_cancel THEN solver2' = s
    ELSE \E r \in Reduced(s) :
             solver2' = [Marked(r) EXCEPT !.lazy = @ + 1]

\* Variant: the limits of closed scopes stay.
PopFormulasKeepLimits(s, n) ==
    IF n <= s.lazy THEN [s EXCEPT !.lazy = @ - n]
    ELSE LET limit == s.limits[Len(s.limits) - (n - s.lazy) + 1] IN
         [s EXCEPT !.lazy = 0,
                   !.entries = SubSeq(@, 1, limit.size),
                   !.inconsistent = limit.inconsistent]

PopFormulas(s, n) ==
    IF n <= s.lazy THEN [s EXCEPT !.lazy = @ - n]
    ELSE LET level == Len(s.limits) - (n - s.lazy)
             limit == s.limits[level + 1]
         IN  [s EXCEPT !.lazy = 0,
                       !.entries = SubSeq(@, 1, limit.size),
                       !.inconsistent = limit.inconsistent,
                       !.limits = SubSeq(@, 1, level)]

\* No more scopes are closed than there are.
Pop2(n) ==
    LET m == IF n <= Len(solver2.marks) THEN n ELSE Len(solver2.marks) IN
    IF m = 0 THEN UNCHANGED solver2
    ELSE solver2' = [PopFormulas(Unmarked(solver2, m), m)
                        EXCEPT !.search = Nothing]

\* A search drops the last model; one that ends before it starts does not.
Check2(verdict, assumed) ==
    /\ Right(verdict, Meaning2(assumed))
    /\ \E s \in Reduced(solver2) :
          \/ /\ verdict = "sat"
             /\ \E l \in Meaning2(assumed) :
                   solver2' = [s EXCEPT !.search = l, !.m_model = Nothing]
          \/ /\ verdict # "sat"
             /\ \E m \in {solver2.m_model, Nothing} :
                   solver2' = [s EXCEPT !.search = Nothing, !.m_model = m]

\* context::get_model: the model there is, or one of the state of the search;
\* when that is gone, of the state at the base level, whatever that holds.
GetModel2(l) ==
    \/ l = Nothing /\ Meaning2({}) = {} /\ UNCHANGED solver2
    \/ solver2.m_model # Nothing /\ l = solver2.m_model /\ UNCHANGED solver2
    \/ solver2.m_model = Nothing /\ m_cancel /\ l = Nothing
           /\ UNCHANGED solver2
    \/ /\ solver2.m_model = Nothing /\ ~m_cancel
       /\ l \in IF solver2.search # Nothing THEN {solver2.search}
                ELSE Leaf \cup {Nothing}
       /\ solver2' = [solver2 EXCEPT !.m_model = l]

-----------------------------------------------------------------------------
(* combined_solver and the calls of Z3Solver.                              *)

Forget == checked' = Nothing /\ model' = Nothing

MayCall == ~(CheckFirst /\ m_cancel)

\* assert_expr_core and assert_expr_core2.  solver2 refuses a name that is in
\* use after solver1 has taken the assertion.
AssertExpr(e) ==
    /\ MayCall
    /\ Len(solver1.entries) < MaxEntries
    /\ m_inc_mode' = (m_inc_mode \/ m_check_sat_executed)
    /\ Assert1(e)
    /\ IF e.name \in Range(solver2.assumptions) THEN UNCHANGED solver2
       ELSE Assert2(e)
    /\ Forget
    /\ UNCHANGED <<m_check_sat_executed, m_use_solver1_results, m_cancel>>

Push ==
    /\ MayCall
    /\ Len(solver1.limits) < MaxScopes
    /\ m_inc_mode' = TRUE
    /\ Push1
    /\ Push2
    /\ Forget
    /\ UNCHANGED <<m_check_sat_executed, m_use_solver1_results, m_cancel>>

\* The caller keeps to getNumScopes(), which is solver1's level.
Pop(n) ==
    /\ n \in 1 .. Len(solver1.marks)
    /\ m_inc_mode' = TRUE
    /\ Pop1(n)
    /\ Pop2(n)
    /\ Forget
    /\ UNCHANGED <<m_check_sat_executed, m_use_solver1_results, m_cancel>>

\* The solver is dropped; the next call makes a new one.
Reset ==
    /\ solver1' = Fresh1
    /\ solver2' = Fresh2
    /\ m_inc_mode' = FALSE
    /\ m_check_sat_executed' = FALSE
    /\ m_use_solver1_results' = TRUE
    /\ Forget
    /\ UNCHANGED m_cancel

\* scoped_rlimit sets the cancellation back before the search and after it.
Answered(verdict, assumed) ==
    /\ m_check_sat_executed' = TRUE
    /\ m_cancel' = FALSE
    /\ checked' = [verdict |-> verdict, assumed |-> assumed]
    /\ model' = Nothing

NeedsSolver2(assumed) ==
    solver1.assumptions \o solver2.assumptions # <<>> \/ assumed # {}

\* Variant: m_use_solver1_results is not reset.
CheckBySolver2KeepsResults(verdict, assumed) ==
    /\ NeedsSolver2(assumed) \/ m_inc_mode
    /\ Check2(verdict, assumed)
    /\ m_inc_mode' = TRUE
    /\ UNCHANGED <<solver1, m_use_solver1_results>>
    /\ Answered(verdict, assumed)

\* Assumptions, and every check after the first, are for solver2.
CheckBySolver2(verdict, assumed) ==
    /\ NeedsSolver2(assumed) \/ m_inc_mode
    /\ Check2(verdict, assumed)
    /\ m_inc_mode' = TRUE
    /\ m_use_solver1_results' = FALSE
    /\ UNCHANGED solver1
    /\ Answered(verdict, assumed)

\* solver1 is used when there was nothing incremental so far.
CheckBySolver1(verdict) ==
    /\ ~NeedsSolver2({}) /\ ~m_inc_mode
    /\ Check1(verdict)
    /\ m_use_solver1_results' = TRUE
    /\ UNCHANGED <<solver2, m_inc_mode>>
    /\ Answered(verdict, {})

\* It is also used when solver2 gives up, or takes too long, and nobody has
\* interrupted the check.
CheckByBoth(verdict) ==
    /\ ~NeedsSolver2({}) /\ m_inc_mode
    /\ \E v \in Verdict : Check2(v, {})
    /\ Check1(verdict)
    /\ m_use_solver1_results' = TRUE
    /\ UNCHANGED m_inc_mode
    /\ Answered(verdict, {})

GetModel ==
    /\ MayCall
    /\ IF m_use_solver1_results
       THEN model' = solver1.result /\ UNCHANGED solver2
       ELSE \E l \in Leaf \cup {Nothing} : GetModel2(l) /\ model' = l
    /\ UNCHANGED <<solver1, flags, m_cancel, checked>>

\* context::interrupt outside of a check, or too late for it.
Interrupt ==
    /\ ~m_cancel
    /\ m_cancel' = TRUE
    /\ UNCHANGED <<solver1, solver2, flags, answers>>

Next ==
    \/ \E e \in Entry : AssertExpr(e)
    \/ Push \/ Reset \/ GetModel \/ Interrupt
    \/ \E n \in 1 .. MaxScopes : Pop(n)
    \/ \E v \in Verdict :
          \/ CheckBySolver1(v) \/ CheckByBoth(v)
          \/ \E assumed \in AssumptionSets : CheckBySolver2(v, assumed)

Spec == Init /\ [][Next]_vars

-----------------------------------------------------------------------------
(* Types.                                                                  *)

\* The solvers and the flags have their types, and every limit is a size the
\* vector it belongs to still has.
TypeOK ==
    /\ solver1.entries \in Seq(Entry) /\ solver1.assumptions \in Seq(Name)
    /\ solver1.result \in Leaf \cup {Nothing}
    /\ \A i \in DOMAIN solver1.limits :
          solver1.limits[i] \in 0 .. Len(solver1.entries)
    /\ solver2.entries \in Seq(Entry) /\ solver2.assumptions \in Seq(Name)
    /\ {solver2.search, solver2.m_model} \subseteq Leaf \cup {Nothing}
    /\ \A i \in DOMAIN solver2.limits :
          solver2.limits[i].size \in 0 .. Len(solver2.entries)
    /\ Len(solver2.limits) + solver2.lazy = Len(solver2.marks)
    /\ \A s \in {solver1.marks, solver2.marks} : s \in Seq(Nat)
    /\ {m_inc_mode, m_check_sat_executed, m_use_solver1_results, m_cancel}
           \subseteq BOOLEAN

-----------------------------------------------------------------------------
(* Properties.                                                             *)

\* The assertions solver1 lists, without those whose name was in use.
Listed(i, j) ==
    {solver1.entries[k] : k \in
        {m \in i .. j : \A b \in 1 .. m - 1 :
            solver1.entries[m].name = NoName
                \/ solver1.entries[b].name # solver1.entries[m].name}}

ScopeStart(i) == IF i = 1 THEN 1 ELSE solver1.limits[i - 1] + 1
ScopeEnd(i) == IF i = Len(solver1.limits) + 1 THEN Len(solver1.entries)
               ELSE solver1.limits[i]

\* The scopes of assertions the user of the solver sees.
Stack == [i \in 1 .. Len(solver1.limits) + 1 |->
             Listed(ScopeStart(i), ScopeEnd(i))]

\* What solver2 will hold when all scopes above a level are closed.
HeldAt(level) ==
    LET n == Len(solver2.marks) - level
        s == IF n = 0 THEN solver2 ELSE PopFormulas(Unmarked(solver2, n), n)
    IN  IF s.inconsistent THEN {}
        ELSE Satisfying(Bodies(Holds(s.entries, s.assumptions)))

\* The two solvers have the same scopes open and, at every one of them that
\* a later pop may return to, hold assertions of the same meaning: any
\* answer is for the assertions getAssertions lists (combined_solver.cpp:162).
SolversAgree ==
    /\ Len(solver1.marks) = Len(solver1.limits)
    /\ Len(solver1.marks) = Len(solver2.marks)
    /\ \A level \in 0 .. Len(solver2.marks) :
          HeldAt(level) =
              Satisfying(Bodies(Listed(1, ScopeEnd(level + 1))))

\* A status that is still current is right for the assertions the solver
\* lists and the assumptions of the check (Z3Solver.swift:119 and :214).
AnswerFitsAssertions ==
    checked # Nothing =>
        Right(checked.verdict,
              Satisfying(Bodies(Listed(1, Len(solver1.entries)))
                             \cup checked.assumed))

Promised == INSTANCE AssertionStack WITH stack <- Stack

\* The solver is a stack of assertions: every call does what it does to the
\* stack, a name is refused when it is in use, answers are right and models
\* are models of what was checked, whichever of the two solvers gave them.
KeepsAssertionStack == Promised!AbsSpec
=============================================================================
