----------------------------- MODULE Interrupt -----------------------------
(***************************************************************************)
(* How a Z3 call is made to stop: Z3Context.interrupt(),                   *)
(* Z3Solver.interrupt() and the "timeout" parameter.                       *)
(*                                                                         *)
(* One thread at a time uses a context for calls.  Each call that searches *)
(* puts a cancel_eh on its stack and makes it known: to its solver         *)
(* (set_eh), to the context (set_interruptable) and to the thread of a     *)
(* scoped_timer.  Program threads and the timer thread then call the       *)
(* handler, which counts up m_cancel of the manager's reslimit, and the    *)
(* search gives up when it sees a count above zero.  What undoes all this  *)
(* at the end of the call runs in the order of the C++ destructors.        *)
(*                                                                         *)
(* The steps are those another thread can tell apart.  The searches are    *)
(* abstract: they end whenever they like, and may notice m_cancel.         *)
(***************************************************************************)
EXTENDS Integers, FiniteSets

CONSTANTS
    Solver,         \* the solvers of the context
    Interrupter,    \* program threads that interrupt
    Timer,          \* the worker thread of scoped_timer
    MaxInterrupts   \* bound: how often the program interrupts in a behaviour

ASSUME InterruptAssumption ==
    /\ Timer \notin Interrupter
    /\ Solver \cap {"none", "context", "timeout"} = {}
    /\ Solver # {}
    /\ MaxInterrupts \in Nat

(* The calls, by what they set up: Z3_solver_check and its variants, the   *)
(* unsat core, Z3_optimize_check, Z3_simplify and Z3_tactic_apply, and     *)
(* Z3_model_eval, which sets up nothing but reads m_cancel as they do.     *)
Kind        == {"check", "core", "optimize", "apply", "eval"}
OfSolver    == {"check", "core"}
Registering == {"check", "optimize", "apply"}
Limited     == {"check", "core", "optimize"}

Caller == Interrupter \cup {Timer}
Job    == Solver \cup {"context", "timeout"}

VARIABLES
    pc,             \* what the calling thread does next
    kind, cur,      \* its call, and the solver of the call
    alive,          \* its cancel_eh has been constructed and not destroyed
    canceled,       \* m_canceled of that handler
    eh,             \* Z3_solver_ref::m_eh: the solvers that point to a handler
    interruptable,  \* context::m_interruptable is not empty
    cancel,         \* reslimit::m_cancel of the manager
    loaded,         \* m_cancel as read by the thread that will store it
    phase, job,     \* per caller: where it is, and on whose behalf
    threw,          \* the search left with an exception
    aborted,        \* the search gave up because of m_cancel
    sent,           \* interrupts so far
    asked,          \* jobs at work at some time of the present call
    raised          \* jobs that counted m_cancel up since a call found it 0

mainVars    == <<kind, cur, threw, aborted>>
handlerVars == <<alive, canceled, eh, interruptable>>
limitVars   == <<cancel, loaded>>
callerVars  == <<phase, job, sent>>
history     == <<asked, raised>>
vars == <<pc, mainVars, handlerVars, limitVars, callerVars, history>>

InHandler == {"test", "mark", "inc", "incStore"}
Storing   == {"incStore", "cancelStore"}
Phase     == InHandler \cup Storing \cup {"idle", "armed", "cancel"}
Main      == {"idle", "setEh", "register", "startTimer", "push", "run", "pop",
              "stopTimer", "unsetEh", "unregister", "destroy"}

(* The mutexes, by who holds them: m_mux of the context and of a solver    *)
(* while an interrupt is delivered, g_rlimit_mux between load and store.   *)
ContextMuxFree   == \A t \in Interrupter : job[t] # "context"
SolverMuxFree(s) == \A t \in Interrupter : job[t] # s
LimitMuxFree     == \A t \in Caller : phase[t] \notin Storing

Init ==
    /\ pc = "idle"
    /\ kind = "eval"
    /\ cur \in Solver
    /\ threw = FALSE /\ aborted = FALSE
    /\ alive = FALSE /\ canceled = FALSE
    /\ eh = {} /\ interruptable = FALSE
    /\ cancel = 0 /\ loaded = 0
    /\ phase = [t \in Caller |-> "idle"]
    /\ job = [t \in Caller |-> "none"]
    /\ sent = 0
    /\ asked = {} /\ raised = {}

---------------------------------------------------------------------------
(* The calling thread.                                                     *)

Begin(k, s) ==
    /\ pc = "idle"
    /\ kind' = k
    /\ cur' = IF k \in OfSolver THEN s ELSE cur
    /\ threw' = FALSE /\ aborted' = FALSE
    /\ alive' = (k # "eval")
    /\ canceled' = FALSE
    /\ pc' = CASE k \in OfSolver -> "setEh"
               [] k \in Registering \ OfSolver -> "register"
               [] OTHER -> "run"
    /\ asked' = {job[t] : t \in Caller} \ {"none"}
    /\ raised' = IF cancel = 0 THEN {} ELSE raised
    /\ UNCHANGED <<eh, interruptable, limitVars, callerVars>>

SetEh ==
    /\ pc = "setEh"
    /\ SolverMuxFree(cur)
    /\ eh' = eh \cup {cur}
    /\ pc' = IF kind \in Registering THEN "register" ELSE "startTimer"
    /\ UNCHANGED <<mainVars, alive, canceled, interruptable, limitVars,
                   callerVars, history>>

Register ==
    /\ pc = "register"
    /\ ContextMuxFree
    /\ interruptable' = TRUE
    /\ pc' = "startTimer"
    /\ UNCHANGED <<mainVars, alive, canceled, eh, limitVars, callerVars, history>>

(* A timeout of 0 or UINT_MAX starts no timer.                             *)
StartTimer ==
    /\ pc = "startTimer"
    /\ \/ /\ phase' = [phase EXCEPT ![Timer] = "armed"]
          /\ job' = [job EXCEPT ![Timer] = "timeout"]
       \/ UNCHANGED <<phase, job>>
    /\ pc' = IF kind \in Limited THEN "push" ELSE "run"
    /\ UNCHANGED <<mainVars, handlerVars, limitVars, sent, history>>

(* reslimit::push and pop write m_cancel without taking g_rlimit_mux.      *)
Push ==
    /\ pc = "push"
    /\ cancel' = 0
    /\ pc' = "run"
    /\ UNCHANGED <<mainVars, handlerVars, loaded, callerVars, history>>

Pop ==
    /\ pc = "pop"
    /\ cancel' = 0
    /\ pc' = "stopTimer"
    /\ UNCHANGED <<mainVars, handlerVars, loaded, callerVars, history>>

\* Variant: the catch block does not unset the solver's handler.
LeaveKeepsEh(thrown) ==
    /\ threw' = thrown
    /\ pc' = CASE kind \in Limited -> "pop"
               [] kind = "apply" -> "stopTimer"
               [] OTHER -> "idle"
    /\ UNCHANGED <<kind, cur, handlerVars, limitVars, callerVars, history>>

(* A solver's catch block unsets the handler first; a normal end does so   *)
(* after the block that holds the timer and the limit.                     *)
Leave(thrown) ==
    /\ threw' = thrown
    /\ pc' = CASE thrown /\ kind \in OfSolver -> "unsetEh"
               [] ~thrown /\ kind \in OfSolver -> "pop"
               [] kind = "optimize" -> "pop"
               [] kind = "apply" -> "stopTimer"
               [] OTHER -> "idle"
    /\ UNCHANGED <<kind, cur, handlerVars, limitVars, callerVars, history>>

Finish ==
    /\ pc = "run"
    /\ \E thrown \in BOOLEAN : Leave(thrown)
    /\ UNCHANGED aborted

GiveUp ==
    /\ pc = "run"
    /\ cancel > 0
    /\ aborted' = TRUE
    /\ \E thrown \in BOOLEAN : Leave(thrown)

AfterBlock == IF kind \in Registering THEN "unregister" ELSE "destroy"

\* Variant: the destructor does not wait for a timer that is at work.
StopTimerNoWait ==
    /\ pc = "stopTimer"
    /\ IF phase[Timer] = "armed"
       THEN /\ phase' = [phase EXCEPT ![Timer] = "idle"]
            /\ job' = [job EXCEPT ![Timer] = "none"]
       ELSE UNCHANGED <<phase, job>>
    /\ pc' = IF kind \in OfSolver /\ ~threw THEN "unsetEh" ELSE AfterBlock
    /\ UNCHANGED <<mainVars, handlerVars, limitVars, sent, history>>

(* ~scoped_timer wakes a timer that still waits and waits for one at work. *)
StopTimer ==
    /\ pc = "stopTimer"
    /\ phase[Timer] \in {"idle", "armed"}
    /\ phase' = [phase EXCEPT ![Timer] = "idle"]
    /\ job' = [job EXCEPT ![Timer] = "none"]
    /\ pc' = IF kind \in OfSolver /\ ~threw THEN "unsetEh" ELSE AfterBlock
    /\ UNCHANGED <<mainVars, handlerVars, limitVars, sent, history>>

UnsetEh ==
    /\ pc = "unsetEh"
    /\ SolverMuxFree(cur)
    /\ eh' = eh \ {cur}
    /\ pc' = IF threw THEN "pop" ELSE AfterBlock
    /\ UNCHANGED <<mainVars, alive, canceled, interruptable, limitVars,
                   callerVars, history>>

\* Variant: the handler leaves the list without the mutex of the context.
UnregisterUnlocked ==
    /\ pc = "unregister"
    /\ interruptable' = FALSE
    /\ pc' = "destroy"
    /\ UNCHANGED <<mainVars, alive, canceled, eh, limitVars, callerVars, history>>

Unregister ==
    /\ pc = "unregister"
    /\ ContextMuxFree
    /\ interruptable' = FALSE
    /\ pc' = "destroy"
    /\ UNCHANGED <<mainVars, alive, canceled, eh, limitVars, callerVars, history>>

\* Variant: dec_cancel without its test for 0.
DestroyUnderflow ==
    /\ pc = "destroy"
    /\ canceled => LimitMuxFree
    /\ cancel' = IF canceled THEN cancel - 1 ELSE cancel
    /\ alive' = FALSE
    /\ pc' = "idle"
    /\ UNCHANGED <<mainVars, canceled, eh, interruptable, loaded, callerVars,
                   history>>

\* Variant: ~cancel_eh does not take its count back.
DestroyKeepsCount ==
    /\ pc = "destroy"
    /\ alive' = FALSE
    /\ pc' = "idle"
    /\ UNCHANGED <<mainVars, canceled, eh, interruptable, limitVars, callerVars,
                   history>>

Destroy ==
    /\ pc = "destroy"
    /\ canceled => LimitMuxFree
    /\ cancel' = IF canceled /\ cancel > 0 THEN cancel - 1 ELSE cancel
    /\ alive' = FALSE
    /\ pc' = "idle"
    /\ UNCHANGED <<mainVars, canceled, eh, interruptable, loaded, callerVars,
                   history>>

---------------------------------------------------------------------------
(* The callers.                                                            *)

Ask(j) == asked' = asked \cup {j}

(* m_mux is taken here and kept until the job is over.                     *)
InterruptContext(t) ==
    /\ phase[t] = "idle" /\ sent < MaxInterrupts
    /\ ContextMuxFree
    /\ sent' = sent + 1
    /\ job' = [job EXCEPT ![t] = "context"]
    /\ phase' = [phase EXCEPT ![t] = IF interruptable THEN "test" ELSE "cancel"]
    /\ Ask("context")
    /\ UNCHANGED <<pc, mainVars, handlerVars, limitVars, raised>>

(* With m_eh null the call has no effect.                                  *)
InterruptSolver(t, s) ==
    /\ phase[t] = "idle" /\ sent < MaxInterrupts
    /\ SolverMuxFree(s)
    /\ s \in eh
    /\ sent' = sent + 1
    /\ job' = [job EXCEPT ![t] = s]
    /\ phase' = [phase EXCEPT ![t] = "test"]
    /\ Ask(s)
    /\ UNCHANGED <<pc, mainVars, handlerVars, limitVars, raised>>

Expire ==
    /\ phase[Timer] = "armed"
    /\ phase' = [phase EXCEPT ![Timer] = "test"]
    /\ Ask("timeout")
    /\ UNCHANGED <<pc, mainVars, handlerVars, limitVars, job, sent, raised>>

\* Variant: context::interrupt relies on the handlers alone.
ReturnHandlersOnly(t) ==
    /\ phase' = [phase EXCEPT ![t] = "idle"]
    /\ job' = [job EXCEPT ![t] = "none"]

(* The handler has returned: context::interrupt goes on to the limit, the  *)
(* others are done.                                                        *)
Return(t) ==
    IF job[t] = "context"
    THEN /\ phase' = [phase EXCEPT ![t] = "cancel"]
         /\ UNCHANGED job
    ELSE /\ phase' = [phase EXCEPT ![t] = "idle"]
         /\ job' = [job EXCEPT ![t] = "none"]

\* Variant: a second caller waits until the handler has been reset.
TestSpins(t) ==
    /\ phase[t] = "test"
    /\ IF canceled
       THEN UNCHANGED <<phase, job>>
       ELSE phase' = [phase EXCEPT ![t] = "mark"] /\ UNCHANGED job
    /\ UNCHANGED <<pc, mainVars, handlerVars, limitVars, sent, history>>

(* m_canceled is a plain bool: two callers may both find it false.         *)
Test(t) ==
    /\ phase[t] = "test"
    /\ IF canceled
       THEN Return(t)
       ELSE phase' = [phase EXCEPT ![t] = "mark"] /\ UNCHANGED job
    /\ UNCHANGED <<pc, mainVars, handlerVars, limitVars, sent, history>>

Mark(t) ==
    /\ phase[t] = "mark"
    /\ canceled' = TRUE
    /\ phase' = [phase EXCEPT ![t] = "inc"]
    /\ UNCHANGED <<pc, mainVars, alive, eh, interruptable, limitVars, job, sent,
                   history>>

(* inc_cancel and cancel: set_cancel(m_cancel + 1) under g_rlimit_mux.     *)
Load(t) ==
    /\ phase[t] \in {"inc", "cancel"}
    /\ LimitMuxFree
    /\ loaded' = cancel
    /\ phase' = [phase EXCEPT ![t] = IF phase[t] = "inc" THEN "incStore"
                                                        ELSE "cancelStore"]
    /\ UNCHANGED <<pc, mainVars, handlerVars, cancel, job, sent, history>>

\* Variant: inc_cancel stores what it has read.
StoreSame(t) ==
    /\ phase[t] \in Storing
    /\ cancel' = loaded
    /\ raised' = raised \cup {job[t]}
    /\ IF phase[t] = "incStore"
       THEN Return(t)
       ELSE /\ phase' = [phase EXCEPT ![t] = "idle"]
            /\ job' = [job EXCEPT ![t] = "none"]
    /\ UNCHANGED <<pc, mainVars, handlerVars, loaded, sent, asked>>

Store(t) ==
    /\ phase[t] \in Storing
    /\ cancel' = loaded + 1
    /\ raised' = raised \cup {job[t]}
    /\ IF phase[t] = "incStore"
       THEN Return(t)
       ELSE /\ phase' = [phase EXCEPT ![t] = "idle"]
            /\ job' = [job EXCEPT ![t] = "none"]
    /\ UNCHANGED <<pc, mainVars, handlerVars, loaded, sent, asked>>

---------------------------------------------------------------------------

Deliver(t) == Test(t) \/ Mark(t) \/ Load(t) \/ Store(t)

SetUp   == SetEh \/ Register \/ StartTimer \/ Push
CleanUp == Pop \/ StopTimer \/ UnsetEh \/ Unregister \/ Destroy

Next ==
    \/ \E k \in Kind, s \in Solver : Begin(k, s)
    \/ SetUp
    \/ Finish
    \/ GiveUp
    \/ CleanUp
    \/ \E t \in Interrupter : InterruptContext(t)
    \/ \E t \in Interrupter, s \in Solver : InterruptSolver(t, s)
    \/ Expire
    \/ \E t \in Caller : Deliver(t)

Spec == Init /\ [][Next]_vars

(* Every thread runs, an armed timer expires, and a search that has been   *)
(* canceled notices; nothing makes a search end by itself, a program begin *)
(* a call or interrupt one.                                                *)
Fairness ==
    /\ WF_vars(SetUp) /\ WF_vars(CleanUp)
    /\ WF_vars(GiveUp)
    /\ WF_vars(Expire)
    /\ \A t \in Caller : WF_vars(Deliver(t))

FairSpec == Spec /\ Fairness

---------------------------------------------------------------------------
(* Properties.                                                             *)

TypeOK ==
    /\ pc \in Main /\ kind \in Kind /\ cur \in Solver
    /\ alive \in BOOLEAN /\ canceled \in BOOLEAN /\ interruptable \in BOOLEAN
    /\ threw \in BOOLEAN /\ aborted \in BOOLEAN
    /\ eh \subseteq Solver
    /\ cancel \in Nat /\ loaded \in Nat /\ sent \in 0..MaxInterrupts
    /\ phase \in [Caller -> Phase]
    /\ job \in [Caller -> Job \cup {"none"}]
    /\ asked \subseteq Job /\ raised \subseteq Job

(* The cancel_eh is a local of the API function.  Whoever can reach it, a  *)
(* solver's m_eh, the context's list, a timer that waits, or a thread that *)
(* is executing it, finds it alive: the mutexes and the order in which the *)
(* function takes things down hold back its destruction.                   *)
HandlerAlive ==
    ~alive => /\ eh = {}
              /\ ~interruptable
              /\ phase[Timer] = "idle"
              /\ \A t \in Caller : phase[t] \notin InHandler

(* Z3Solver.interrupt(): "Solvers that are not selected for interrupts are *)
(* left alone."  A search on a solver or optimizer that gives up does so   *)
(* for a timeout of its own, for an interrupt of its own solver, or for    *)
(* one of the whole context, at work during the call.                      *)
OthersLeftAlone ==
    aborted /\ kind \in Limited =>
        \/ asked \cap {"context", "timeout"} # {}
        \/ kind \in OfSolver /\ cur \in asked

(* Between calls the count is back at 0 unless a context interrupt left it *)
(* there, or a timeout and an interrupt of the solver both got past the    *)
(* unlocked test of m_canceled: the destructor then takes one away of two. *)
LeftoverHasCause ==
    pc = "idle" /\ cancel > 0 =>
        \/ "context" \in raised
        \/ "timeout" \in raised /\ raised \cap Solver # {}

(* Z3Context.interrupt() "can be used to interrupt: solvers, simplifiers   *)
(* and tactics": one that arrives while the search runs ends it, whether   *)
(* or not the handler has been used up before.                             *)
InterruptEndsCall ==
    (pc = "run" /\ \E t \in Interrupter : job[t] = "context") ~> pc # "run"

(* A timer that is waiting when the search starts ends it, if nobody has   *)
(* used the handler before.                                                *)
TimeoutEndsCall ==
    (pc = "run" /\ phase[Timer] = "armed" /\ ~canceled) ~> pc # "run"

(* Setting up and taking down never wait for ever: not for a mutex, nor    *)
(* for the timer, nor for a thread that waits for the caller in turn.      *)
CallGoesOn == pc \notin {"idle", "run"} ~> pc \in {"idle", "run"}

---------------------------------------------------------------------------
(* The inductive invariant behind HandlerAlive, OthersLeftAlone and        *)
(* LeftoverHasCause.                                                       *)

(* What a call does next fits its kind, and the handler lives exactly as   *)
(* long as the call.                                                       *)
CallInv ==
    /\ pc \in {"setEh", "unsetEh"} => kind \in OfSolver
    /\ pc \in {"register", "unregister"} => kind \in Registering
    /\ pc \in {"push", "pop"} => kind \in Limited
    /\ pc \in {"startTimer", "stopTimer", "destroy"} => kind # "eval"
    /\ alive = (pc # "idle" /\ kind # "eval")

(* Where in the call the handler is known to the context, to its solver,   *)
(* and to the timer.                                                       *)
KnownInv ==
    /\ interruptable =>
        /\ kind \in Registering
        /\ pc \in {"startTimer", "push", "run", "unsetEh", "pop", "stopTimer",
                   "unregister"}
    /\ eh \subseteq {cur}
    /\ eh # {} =>
        /\ kind \in OfSolver
        /\ \/ pc \in {"register", "startTimer", "push", "run", "unsetEh"}
           \/ pc \in {"pop", "stopTimer"} /\ ~threw
    /\ phase[Timer] # "idle" =>
        /\ kind # "eval"
        /\ \/ pc \in {"push", "run", "pop", "stopTimer"}
           \/ pc = "unsetEh" /\ threw

(* Every caller works for somebody, and one inside the handler works for   *)
(* somebody through whom the handler is still known.                       *)
JobInv ==
    /\ \A t \in Caller :
        /\ phase[t] = "idle" <=> job[t] = "none"
        /\ job[t] = "timeout" => t = Timer
        /\ phase[t] = "armed" => t = Timer
        /\ phase[t] \in {"cancel", "cancelStore"} => job[t] = "context"
        /\ phase[t] \in InHandler /\ job[t] = "context" => interruptable
        /\ phase[t] \in InHandler /\ job[t] \in Solver => job[t] \in eh
    /\ job[Timer] \in {"none", "timeout"}

CauseAsked ==
    \/ asked \cap {"context", "timeout"} # {}
    \/ kind \in OfSolver /\ cur \in asked

(* Who is at work has asked, and a limited search finds the count above 0  *)
(* only if somebody who may stop it has.                                   *)
CauseInv ==
    /\ \A t \in Caller : phase[t] \notin {"idle", "armed"} => job[t] \in asked
    /\ pc = "run" /\ kind \in Limited /\ cancel > 0 => CauseAsked
    /\ aborted /\ kind \in Limited => CauseAsked

HandlerInv == TypeOK /\ CallInv /\ KnownInv /\ JobInv /\ CauseInv

(* What each mutex keeps: one caller at a time for the context and for     *)
(* every solver, one between load and store.                               *)
MutexInv ==
    /\ \A t, u \in Interrupter : job[t] # "none" /\ job[t] = job[u] => t = u
    /\ \A t, u \in Caller : phase[t] \in Storing /\ phase[u] \in Storing => t = u

Counting == {"mark", "inc", "incStore"}

Explained ==
    \/ "context" \in raised
    \/ "timeout" \in raised /\ raised \cap Solver # {}

(* Unless one of the two explanations applies, the handler has been used   *)
(* once at most in the present call: by its timer or by an interrupt of    *)
(* its solver, which then has marked it and left the count at 1.           *)
CountInv ==
    /\ \A t \in Caller : phase[t] \in {"inc", "incStore"} => canceled
    /\ ~Explained =>
        /\ pc = "idle" \/ kind = "eval" => cancel = 0
        /\ cancel > 0 => cancel = 1 /\ canceled /\ raised # {}
        /\ \A t \in Caller :
              phase[t] = "incStore" /\ raised = {} => loaded = 0
        /\ pc # "idle" =>
            /\ raised # {} => canceled
            /\ "timeout" \in raised =>
                  /\ pc \notin {"setEh", "register", "startTimer"}
                  /\ phase[Timer] \notin Counting \cup {"armed"}
            /\ raised \cap Solver # {} =>
                  \A t \in Caller : job[t] \in Solver => phase[t] \notin Counting

IInv == HandlerInv /\ MutexInv /\ CountInv
=============================================================================
