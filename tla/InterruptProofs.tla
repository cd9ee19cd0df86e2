-------------------------- MODULE InterruptProofs --------------------------
(***************************************************************************)
(* Proofs about Interrupt: a cancel_eh is never reached after it has been  *)
(* destroyed, a search gives up only for a cause that may stop it, and a   *)
(* count left between calls has one of two causes, for any number of       *)
(* solvers, interrupting threads and interrupts.                           *)
(***************************************************************************)
EXTENDS Interrupt, TLAPS

---------------------------------------------------------------------------
(* One lemma per action, one step per conjunct of HandlerInv.              *)

\* A call begins with nothing left of the previous one.
LEMMA BeginInv ==
    ASSUME HandlerInv, NEW k \in Kind, NEW s \in Solver, Begin(k, s)
    PROVE  HandlerInv'
<1>1. TypeOK'
  BY DEF HandlerInv, Begin, limitVars, callerVars, TypeOK, Main
<1>2. CallInv'
  BY DEF HandlerInv, Begin, CallInv
<1>3. KnownInv'
  BY DEF HandlerInv, Begin, callerVars, KnownInv
<1>4. JobInv'
  BY DEF HandlerInv, Begin, callerVars, JobInv
<1>5. CauseInv'
  BY DEF HandlerInv, Begin, callerVars, CauseInv, JobInv, OfSolver, Registering,
     Limited
<1> QED  BY <1>1, <1>2, <1>3, <1>4, <1>5 DEF HandlerInv

\* The solver points to the handler of its running call.
LEMMA SetEhInv ==
    ASSUME HandlerInv, SetEh
    PROVE  HandlerInv'
<1>1. TypeOK'
  BY DEF HandlerInv, SetEh, mainVars, limitVars, callerVars, history, TypeOK,
     Main
<1>2. CallInv'
  BY DEF HandlerInv, SetEh, mainVars, CallInv, OfSolver
<1>3. KnownInv'
  BY DEF HandlerInv, SetEh, mainVars, callerVars, KnownInv, CallInv
<1>4. JobInv'
  BY DEF HandlerInv, SetEh, callerVars, JobInv
<1>5. CauseInv'
  BY DEF HandlerInv, SetEh, mainVars, callerVars, history, CauseInv, CauseAsked
<1> QED  BY <1>1, <1>2, <1>3, <1>4, <1>5 DEF HandlerInv

\* The handler enters the list of the context.
LEMMA RegisterInv ==
    ASSUME HandlerInv, Register
    PROVE  HandlerInv'
<1>1. TypeOK'
  BY DEF HandlerInv, Register, mainVars, limitVars, callerVars, history, TypeOK,
     Main
<1>2. CallInv'
  BY DEF HandlerInv, Register, mainVars, CallInv, Registering
<1>3. KnownInv'
  BY DEF HandlerInv, Register, mainVars, callerVars, KnownInv, CallInv
<1>4. JobInv'
  BY DEF HandlerInv, Register, callerVars, JobInv
<1>5. CauseInv'
  BY DEF HandlerInv, Register, mainVars, callerVars, history, CauseInv,
     CauseAsked
<1> QED  BY <1>1, <1>2, <1>3, <1>4, <1>5 DEF HandlerInv

\* The timer, if there is one, knows the handler.
LEMMA StartTimerInv ==
    ASSUME HandlerInv, StartTimer
    PROVE  HandlerInv'
<1>1. TypeOK'
  BY DEF HandlerInv, StartTimer, mainVars, handlerVars, limitVars, history,
     TypeOK,
     Main, Phase, Job
<1>2. CallInv'
  BY DEF HandlerInv, StartTimer, mainVars, handlerVars, CallInv
<1>3. KnownInv'
  BY DEF HandlerInv, StartTimer, mainVars, handlerVars, KnownInv, CallInv
<1>4. JobInv'
  BY InterruptAssumption DEF HandlerInv, StartTimer, handlerVars, JobInv, TypeOK
<1>5. CauseInv'
  BY DEF HandlerInv, StartTimer, mainVars, history, CauseInv, CauseAsked, TypeOK
<1> QED  BY <1>1, <1>2, <1>3, <1>4, <1>5 DEF HandlerInv

\* A search on a solver starts with the count at 0.
LEMMA PushInv ==
    ASSUME HandlerInv, Push
    PROVE  HandlerInv'
<1>1. TypeOK'
  BY DEF HandlerInv, Push, mainVars, handlerVars, callerVars, history, TypeOK,
     Main
<1>2. CallInv'
  BY DEF HandlerInv, Push, mainVars, handlerVars, CallInv
<1>3. KnownInv'
  BY DEF HandlerInv, Push, mainVars, handlerVars, callerVars, KnownInv
<1>4. JobInv'
  BY DEF HandlerInv, Push, handlerVars, callerVars, JobInv
<1>5. CauseInv'
  BY DEF HandlerInv, Push, mainVars, callerVars, history, CauseInv, CauseAsked
<1> QED  BY <1>1, <1>2, <1>3, <1>4, <1>5 DEF HandlerInv

\* A search that ends leaves its handler known as it was.
LEMMA FinishInv ==
    ASSUME HandlerInv, Finish
    PROVE  HandlerInv'
<1>1. TypeOK'
  BY DEF HandlerInv, Finish, Leave, handlerVars, limitVars, callerVars, history,
     TypeOK, Main
<1>2. CallInv'
  BY DEF HandlerInv, Finish, Leave, handlerVars, CallInv, TypeOK, Kind,
     OfSolver,
     Limited
<1>3. KnownInv'
  BY DEF HandlerInv, Finish, Leave, handlerVars, callerVars, KnownInv, TypeOK,
     Kind,
     OfSolver, Registering
<1>4. JobInv'
  BY DEF HandlerInv, Finish, Leave, handlerVars, callerVars, JobInv
<1>5. CauseInv'
  BY DEF HandlerInv, Finish, Leave, callerVars, history, CauseInv, CauseAsked
<1> QED  BY <1>1, <1>2, <1>3, <1>4, <1>5 DEF HandlerInv

\* A search that gives up saw a count somebody had asked for.
LEMMA GiveUpInv ==
    ASSUME HandlerInv, GiveUp
    PROVE  HandlerInv'
<1>1. TypeOK'
  BY DEF HandlerInv, GiveUp, Leave, handlerVars, limitVars, callerVars, history,
     TypeOK, Main
<1>2. CallInv'
  BY DEF HandlerInv, GiveUp, Leave, handlerVars, CallInv, TypeOK, Kind,
     OfSolver,
     Limited
<1>3. KnownInv'
  BY DEF HandlerInv, GiveUp, Leave, handlerVars, callerVars, KnownInv, TypeOK,
     Kind,
     OfSolver, Registering
<1>4. JobInv'
  BY DEF HandlerInv, GiveUp, Leave, handlerVars, callerVars, JobInv
<1>5. CauseInv'
  BY DEF HandlerInv, GiveUp, Leave, callerVars, history, CauseInv, CauseAsked
<1> QED  BY <1>1, <1>2, <1>3, <1>4, <1>5 DEF HandlerInv

\* The limit is given back.
LEMMA PopInv ==
    ASSUME HandlerInv, Pop
    PROVE  HandlerInv'
<1>1. TypeOK'
  BY DEF HandlerInv, Pop, mainVars, handlerVars, callerVars, history, TypeOK,
     Main
<1>2. CallInv'
  BY DEF HandlerInv, Pop, mainVars, handlerVars, CallInv, Limited
<1>3. KnownInv'
  BY DEF HandlerInv, Pop, mainVars, handlerVars, callerVars, KnownInv
<1>4. JobInv'
  BY DEF HandlerInv, Pop, handlerVars, callerVars, JobInv
<1>5. CauseInv'
  BY DEF HandlerInv, Pop, mainVars, callerVars, history, CauseInv, CauseAsked
<1> QED  BY <1>1, <1>2, <1>3, <1>4, <1>5 DEF HandlerInv

\* The timer no longer knows the handler, and is not inside it.
LEMMA StopTimerInv ==
    ASSUME HandlerInv, StopTimer
    PROVE  HandlerInv'
<1>1. TypeOK'
  BY DEF HandlerInv, StopTimer, AfterBlock, mainVars, handlerVars, limitVars,
     history, TypeOK, Main, Phase
<1>2. CallInv'
  BY DEF HandlerInv, StopTimer, AfterBlock, mainVars, handlerVars, CallInv
<1>3. KnownInv'
  BY DEF HandlerInv, StopTimer, AfterBlock, mainVars, handlerVars, KnownInv,
     TypeOK,
     Caller
<1>4. JobInv'
  BY InterruptAssumption DEF HandlerInv, StopTimer, handlerVars, JobInv, TypeOK
<1>5. CauseInv'
  BY DEF HandlerInv, StopTimer, AfterBlock, mainVars, history, CauseInv,
     CauseAsked
<1> QED  BY <1>1, <1>2, <1>3, <1>4, <1>5 DEF HandlerInv

\* The solver no longer knows the handler; nobody is inside it for the solver.
LEMMA UnsetEhInv ==
    ASSUME HandlerInv, UnsetEh
    PROVE  HandlerInv'
<1>1. TypeOK'
  BY DEF HandlerInv, UnsetEh, AfterBlock, mainVars, limitVars, callerVars,
     history,
     TypeOK, Main
<1>2. CallInv'
  BY DEF HandlerInv, UnsetEh, AfterBlock, mainVars, CallInv, OfSolver, Limited
<1>3. KnownInv'
  BY DEF HandlerInv, UnsetEh, AfterBlock, mainVars, callerVars, KnownInv
<1>4. JobInv'
  BY InterruptAssumption DEF HandlerInv, UnsetEh, SolverMuxFree, callerVars,
     JobInv,
     Caller
<1>5. CauseInv'
  BY DEF HandlerInv, UnsetEh, AfterBlock, mainVars, callerVars, history,
     CauseInv,
     CauseAsked
<1> QED  BY <1>1, <1>2, <1>3, <1>4, <1>5 DEF HandlerInv

\* The context no longer knows the handler; nobody is inside it for it.
LEMMA UnregisterInv ==
    ASSUME HandlerInv, Unregister
    PROVE  HandlerInv'
<1>1. TypeOK'
  BY DEF HandlerInv, Unregister, mainVars, limitVars, callerVars, history,
     TypeOK,
     Main
<1>2. CallInv'
  BY DEF HandlerInv, Unregister, mainVars, CallInv, Registering
<1>3. KnownInv'
  BY DEF HandlerInv, Unregister, callerVars, KnownInv
<1>4. JobInv'
  BY DEF HandlerInv, Unregister, ContextMuxFree, callerVars, JobInv, Caller
<1>5. CauseInv'
  BY DEF HandlerInv, Unregister, mainVars, callerVars, history, CauseInv,
     CauseAsked
<1> QED  BY <1>1, <1>2, <1>3, <1>4, <1>5 DEF HandlerInv

\* The handler ends when nobody knows it.
LEMMA DestroyInv ==
    ASSUME HandlerInv, Destroy
    PROVE  HandlerInv'
<1>1. TypeOK'
  <2>1. cancel \in Nat
    BY DEF HandlerInv, TypeOK
  <2>2. (cancel' = cancel - 1 /\ cancel > 0) \/ cancel' = cancel
    BY Zenon DEF Destroy
  <2>3. cancel' \in Nat
    BY <2>1, <2>2
  <2> QED
    BY <2>3 DEF HandlerInv, TypeOK, Destroy, Main, mainVars, handlerVars,
       callerVars,
                history
<1>2. CallInv'
  BY DEF HandlerInv, Destroy, CallInv
<1>3. KnownInv'
  BY DEF HandlerInv, Destroy, callerVars, KnownInv
<1>4. JobInv'
  BY DEF HandlerInv, Destroy, callerVars, JobInv
<1>5. CauseInv'
  BY DEF HandlerInv, Destroy, mainVars, callerVars, history, CauseInv,
     CauseAsked
<1> QED  BY <1>1, <1>2, <1>3, <1>4, <1>5 DEF HandlerInv

\* An interrupt of the context enters a handler only through the list.
LEMMA InterruptContextInv ==
    ASSUME HandlerInv, NEW t \in Interrupter, InterruptContext(t)
    PROVE  HandlerInv'
<1>1. TypeOK'
  BY InterruptAssumption DEF HandlerInv, InterruptContext, Ask, mainVars,
     handlerVars, limitVars, TypeOK, Phase, Job, InHandler, Caller
<1>2. CallInv'
  BY DEF HandlerInv, InterruptContext, mainVars, handlerVars, CallInv
<1>3. KnownInv'
  BY InterruptAssumption DEF HandlerInv, InterruptContext, mainVars,
     handlerVars,
     KnownInv
<1>4. JobInv'
  BY InterruptAssumption DEF HandlerInv, InterruptContext, handlerVars, JobInv,
     TypeOK, InHandler
<1>5. CauseInv'
  BY DEF HandlerInv, InterruptContext, Ask, CauseInv, CauseAsked, TypeOK
<1> QED  BY <1>1, <1>2, <1>3, <1>4, <1>5 DEF HandlerInv

\* An interrupt of a solver enters the handler the solver points to.
LEMMA InterruptSolverInv ==
    ASSUME HandlerInv, NEW t \in Interrupter, NEW s \in Solver, InterruptSolver(t, s)
    PROVE  HandlerInv'
<1>1. TypeOK'
  BY InterruptAssumption DEF HandlerInv, InterruptSolver, Ask, mainVars,
     handlerVars, limitVars, TypeOK, Phase, Job, InHandler, Caller
<1>2. CallInv'
  BY DEF HandlerInv, InterruptSolver, mainVars, handlerVars, CallInv
<1>3. KnownInv'
  BY InterruptAssumption DEF HandlerInv, InterruptSolver, mainVars, handlerVars,
     KnownInv
<1>4. JobInv'
  BY InterruptAssumption DEF HandlerInv, InterruptSolver, handlerVars, JobInv,
     TypeOK
<1>5. CauseInv'
  BY DEF HandlerInv, InterruptSolver, Ask, mainVars, limitVars, CauseInv,
     CauseAsked, TypeOK
<1> QED  BY <1>1, <1>2, <1>3, <1>4, <1>5 DEF HandlerInv

\* The timer enters the handler it was started with.
LEMMA ExpireInv ==
    ASSUME HandlerInv, Expire
    PROVE  HandlerInv'
<1>1. TypeOK'
  BY DEF HandlerInv, Expire, Ask, mainVars, handlerVars, limitVars, TypeOK,
     Phase,
     Job, InHandler
<1>2. CallInv'
  BY DEF HandlerInv, Expire, mainVars, handlerVars, CallInv
<1>3. KnownInv'
  BY DEF HandlerInv, Expire, mainVars, handlerVars, KnownInv
<1>4. JobInv'
  BY InterruptAssumption DEF HandlerInv, Expire, handlerVars, JobInv
<1>5. CauseInv'
  BY DEF HandlerInv, Expire, Ask, CauseInv, CauseAsked, JobInv
<1> QED  BY <1>1, <1>2, <1>3, <1>4, <1>5 DEF HandlerInv

\* A caller that finds the handler used leaves it.
LEMMA TestInv ==
    ASSUME HandlerInv, NEW t \in Caller, Test(t)
    PROVE  HandlerInv'
<1>1. TypeOK'
  BY DEF HandlerInv, Test, Return, mainVars, handlerVars, limitVars, history,
     TypeOK, Phase, InHandler
<1>2. CallInv'
  BY DEF HandlerInv, Test, mainVars, handlerVars, CallInv
<1>3. KnownInv'
  BY DEF HandlerInv, Test, Return, mainVars, handlerVars, KnownInv, TypeOK,
     Caller
<1>4. JobInv'
  BY DEF HandlerInv, Test, Return, handlerVars, JobInv, TypeOK, InHandler,
     Caller
<1>5. CauseInv'
  BY DEF HandlerInv, Test, Return, mainVars, limitVars, history, CauseInv,
     CauseAsked, TypeOK
<1> QED  BY <1>1, <1>2, <1>3, <1>4, <1>5 DEF HandlerInv

\* A caller marks the handler as used.
LEMMA MarkInv ==
    ASSUME HandlerInv, NEW t \in Caller, Mark(t)
    PROVE  HandlerInv'
<1>1. TypeOK'
  BY DEF HandlerInv, Mark, mainVars, limitVars, history, TypeOK, Phase,
     InHandler
<1>2. CallInv'
  BY DEF HandlerInv, Mark, mainVars, CallInv
<1>3. KnownInv'
  BY DEF HandlerInv, Mark, mainVars, KnownInv
<1>4. JobInv'
  BY DEF HandlerInv, Mark, JobInv, InHandler
<1>5. CauseInv'
  BY DEF HandlerInv, Mark, mainVars, limitVars, history, CauseInv, CauseAsked
<1> QED  BY <1>1, <1>2, <1>3, <1>4, <1>5 DEF HandlerInv

\* A caller reads the count.
LEMMA LoadInv ==
    ASSUME HandlerInv, NEW t \in Caller, Load(t)
    PROVE  HandlerInv'
<1>1. TypeOK'
  BY DEF HandlerInv, Load, mainVars, handlerVars, history, TypeOK, Phase,
     Storing
<1>2. CallInv'
  BY DEF HandlerInv, Load, mainVars, handlerVars, CallInv
<1>3. KnownInv'
  BY DEF HandlerInv, Load, mainVars, handlerVars, KnownInv
<1>4. JobInv'
  BY DEF HandlerInv, Load, handlerVars, JobInv, InHandler
<1>5. CauseInv'
  BY DEF HandlerInv, Load, mainVars, history, CauseInv, CauseAsked
<1> QED  BY <1>1, <1>2, <1>3, <1>4, <1>5 DEF HandlerInv

\* A caller counts up on behalf of its job, which has asked.
LEMMA StoreInv ==
    ASSUME HandlerInv, NEW t \in Caller, Store(t)
    PROVE  HandlerInv'
<1>1. TypeOK'
  BY DEF HandlerInv, Store, Return, mainVars, handlerVars, TypeOK, Phase,
     Storing,
     JobInv
<1>2. CallInv'
  BY DEF HandlerInv, Store, mainVars, handlerVars, CallInv
<1>3. KnownInv'
  BY DEF HandlerInv, Store, Return, mainVars, handlerVars, KnownInv, TypeOK,
     Caller
<1>4. JobInv'
  BY DEF HandlerInv, Store, Return, handlerVars, JobInv, TypeOK, InHandler,
     Caller
<1>5. CauseInv'
  BY DEF HandlerInv, Store, Return, mainVars, CauseInv, CauseAsked, JobInv,
     TypeOK,
     KnownInv, InHandler, Storing, Job
<1> QED  BY <1>1, <1>2, <1>3, <1>4, <1>5 DEF HandlerInv

---------------------------------------------------------------------------
(* Putting the steps together.                                             *)

\* Nothing is going on at the start.
LEMMA InitInv == Init => HandlerInv
<1> SUFFICES ASSUME Init PROVE HandlerInv
  OBVIOUS
<1>1. TypeOK
  <2>1. phase \in [Caller -> Phase] /\ job \in [Caller -> Job \cup {"none"}]
    BY DEF Init, Phase
  <2>2. cancel \in Nat /\ loaded \in Nat /\ sent \in 0..MaxInterrupts
    BY InterruptAssumption DEF Init
  <2>3. asked \subseteq Job /\ raised \subseteq Job /\ eh \subseteq Solver
    BY DEF Init
  <2> QED  BY <2>1, <2>2, <2>3, Zenon DEF Init, TypeOK, Main, Kind
<1>2. CallInv
  BY DEF Init, CallInv
<1>3. KnownInv
  BY DEF Init, KnownInv, Caller
<1>4. JobInv /\ CauseInv
  BY InterruptAssumption DEF Init, JobInv, CauseInv, Caller, InHandler
<1> QED  BY <1>1, <1>2, <1>3, <1>4 DEF HandlerInv

\* Every step of the program's threads and of the timer preserves HandlerInv.
LEMMA NextInv == HandlerInv /\ [Next]_vars => HandlerInv'
<1> SUFFICES ASSUME HandlerInv, [Next]_vars PROVE HandlerInv'
  OBVIOUS
<1>1. ASSUME NEW k \in Kind, NEW s \in Solver, Begin(k, s) PROVE HandlerInv'
  BY <1>1, BeginInv
<1>2. CASE SetUp
  BY <1>2, SetEhInv, RegisterInv, StartTimerInv, PushInv DEF SetUp
<1>3. CASE Finish
  BY <1>3, FinishInv
<1>4. CASE GiveUp
  BY <1>4, GiveUpInv
<1>5. CASE CleanUp
  BY <1>5, PopInv, StopTimerInv, UnsetEhInv, UnregisterInv, DestroyInv
     DEF CleanUp
<1>6. ASSUME NEW t \in Interrupter, InterruptContext(t) PROVE HandlerInv'
  BY <1>6, InterruptContextInv
<1>7. ASSUME NEW t \in Interrupter, NEW s \in Solver, InterruptSolver(t, s)
      PROVE  HandlerInv'
  BY <1>7, InterruptSolverInv
<1>8. CASE Expire
  BY <1>8, ExpireInv
<1>9. ASSUME NEW t \in Caller, Deliver(t) PROVE HandlerInv'
  BY <1>9, TestInv, MarkInv, LoadInv, StoreInv DEF Deliver
<1>10. CASE UNCHANGED vars
  BY <1>10 DEF vars, mainVars, handlerVars, limitVars, callerVars, history,
               HandlerInv, TypeOK, CallInv, KnownInv, JobInv, CauseInv, CauseAsked
<1> QED
  BY <1>1, <1>2, <1>3, <1>4, <1>5, <1>6, <1>7, <1>8, <1>9, <1>10 DEF Next

\* A cancel_eh that has been destroyed is neither registered nor being called.
LEMMA InvHandlerAlive == HandlerInv => HandlerAlive
<1> SUFFICES ASSUME HandlerInv, ~alive PROVE HandlerAlive
  BY DEF HandlerAlive
<1>1. pc = "idle" \/ kind = "eval"
  BY DEF HandlerInv, CallInv
<1>2. pc \notin {"setEh", "unsetEh", "register", "unregister", "push", "pop",
                 "startTimer", "stopTimer", "destroy"}
  BY <1>1 DEF HandlerInv, CallInv, OfSolver, Registering, Limited
<1>3. eh = {} /\ ~interruptable /\ phase[Timer] = "idle"
  BY <1>1, <1>2 DEF HandlerInv, KnownInv, OfSolver, Registering
<1>4. ASSUME NEW t \in Caller PROVE phase[t] \notin InHandler
  BY <1>3, <1>4 DEF HandlerInv, JobInv, TypeOK, Job, InHandler
<1> QED  BY <1>3, <1>4 DEF HandlerAlive

---------------------------------------------------------------------------
(* How often the handler counts in one call.                               *)

\* Between calls nobody is in the handler.
LEMMA IdleQuiet ==
    ASSUME HandlerInv, pc = "idle"
    PROVE  \A t \in Caller : phase[t] \notin InHandler
  BY InvHandlerAlive DEF HandlerInv, CallInv, HandlerAlive

\* A call that finds the count at 0 forgets who raised it.
LEMMA BeginCount ==
    ASSUME HandlerInv, MutexInv, CountInv, NEW k \in Kind, NEW s \in Solver, Begin(k, s)
    PROVE  MutexInv' /\ CountInv'
<1> USE InterruptAssumption DEF Caller, InHandler, Storing, Counting
<1>1. MutexInv'
  BY DEF HandlerInv, TypeOK, CallInv, KnownInv, JobInv, MutexInv, Begin,
     mainVars, handlerVars, limitVars, callerVars, history,
     ContextMuxFree, SolverMuxFree, LimitMuxFree
<1>2. \A u \in Caller : phase'[u] \notin {"inc", "incStore"}
  BY IdleQuiet DEF Begin, callerVars
<1>3. ASSUME ~Explained'
      PROVE  /\ pc' = "idle" \/ kind' = "eval" => cancel' = 0
             /\ cancel' > 0 => cancel' = 1 /\ canceled' /\ raised' # {}
  BY <1>3 DEF HandlerInv, TypeOK, CallInv, KnownInv, JobInv, CountInv,
     Explained, OfSolver, Registering, Limited, Kind, Begin, mainVars,
     handlerVars, limitVars, callerVars, history
<1>4. ASSUME ~Explained', NEW u \in Caller, phase'[u] = "incStore", raised' = {}
      PROVE  loaded' = 0
  BY <1>2, <1>4
<1>5. ASSUME ~Explained', pc' # "idle", raised' # {}
      PROVE  canceled'
  BY <1>5 DEF HandlerInv, TypeOK, CallInv, KnownInv, JobInv, CountInv,
     Explained, Begin, mainVars, handlerVars, limitVars, callerVars, history
<1>6. ASSUME ~Explained', pc' # "idle", "timeout" \in raised'
      PROVE  /\ pc' \notin {"setEh", "register", "startTimer"}
             /\ phase'[Timer] \notin Counting \cup {"armed"}
  BY <1>6 DEF HandlerInv, TypeOK, CallInv, KnownInv, JobInv, CountInv,
     Explained, Begin, mainVars, handlerVars, limitVars, callerVars, history
<1>7. ASSUME ~Explained', pc' # "idle", raised' \cap Solver # {},
             NEW u \in Caller, job'[u] \in Solver
      PROVE  phase'[u] \notin Counting
  BY <1>7 DEF HandlerInv, TypeOK, CallInv, KnownInv, JobInv, CountInv,
     Explained, Begin, mainVars, handlerVars, limitVars, callerVars, history
<1> QED  BY <1>1, <1>2, <1>3, <1>4, <1>5, <1>6, <1>7 DEF CountInv

LEMMA SetEhCount ==
    ASSUME HandlerInv, MutexInv, CountInv, SetEh
    PROVE  MutexInv' /\ CountInv'
<1> USE InterruptAssumption DEF Caller, InHandler, Storing, Counting
<1>1. MutexInv'
  BY DEF HandlerInv, TypeOK, CallInv, KnownInv, JobInv, MutexInv, SetEh,
     mainVars, handlerVars, limitVars, callerVars, history,
     ContextMuxFree, SolverMuxFree, LimitMuxFree
<1>2. \A u \in Caller : phase'[u] \in {"inc", "incStore"} => canceled'
  BY DEF HandlerInv, TypeOK, CallInv, KnownInv, JobInv, CountInv, SetEh,
     mainVars, handlerVars, limitVars, callerVars, history
<1>3. ASSUME ~Explained'
      PROVE  /\ pc' = "idle" \/ kind' = "eval" => cancel' = 0
             /\ cancel' > 0 => cancel' = 1 /\ canceled' /\ raised' # {}
  BY <1>3 DEF HandlerInv, TypeOK, CallInv, KnownInv, JobInv, CountInv,
     Explained, OfSolver, Registering, Limited, Kind, SetEh, mainVars,
     handlerVars, limitVars, callerVars, history
<1>4. ASSUME ~Explained', NEW u \in Caller, phase'[u] = "incStore", raised' = {}
      PROVE  loaded' = 0
  BY <1>4 DEF HandlerInv, TypeOK, CallInv, KnownInv, JobInv, CountInv,
     Explained, MutexInv, SetEh, mainVars, handlerVars, limitVars, callerVars,
     history
<1>5. ASSUME ~Explained', pc' # "idle", raised' # {}
      PROVE  canceled'
  BY <1>5 DEF HandlerInv, TypeOK, CallInv, KnownInv, JobInv, CountInv,
     Explained, SetEh, mainVars, handlerVars, limitVars, callerVars, history
<1>6. ASSUME ~Explained', pc' # "idle", "timeout" \in raised'
      PROVE  /\ pc' \notin {"setEh", "register", "startTimer"}
             /\ phase'[Timer] \notin Counting \cup {"armed"}
  BY <1>6 DEF HandlerInv, TypeOK, CallInv, KnownInv, JobInv, CountInv,
     Explained, SetEh, mainVars, handlerVars, limitVars, callerVars, history
<1>7. ASSUME ~Explained', pc' # "idle", raised' \cap Solver # {},
             NEW u \in Caller, job'[u] \in Solver
      PROVE  phase'[u] \notin Counting
  BY <1>7 DEF HandlerInv, TypeOK, CallInv, KnownInv, JobInv, CountInv,
     Explained, SetEh, mainVars, handlerVars, limitVars, callerVars, history
<1> QED  BY <1>1, <1>2, <1>3, <1>4, <1>5, <1>6, <1>7 DEF CountInv

LEMMA RegisterCount ==
    ASSUME HandlerInv, MutexInv, CountInv, Register
    PROVE  MutexInv' /\ CountInv'
<1> USE InterruptAssumption DEF Caller, InHandler, Storing, Counting
<1>1. MutexInv'
  BY DEF HandlerInv, TypeOK, CallInv, KnownInv, JobInv, MutexInv, Register,
     mainVars, handlerVars, limitVars, callerVars, history,
     ContextMuxFree, SolverMuxFree, LimitMuxFree
<1>2. \A u \in Caller : phase'[u] \in {"inc", "incStore"} => canceled'
  BY DEF HandlerInv, TypeOK, CallInv, KnownInv, JobInv, CountInv, Register,
     mainVars, handlerVars, limitVars, callerVars, history
<1>3. ASSUME ~Explained'
      PROVE  /\ pc' = "idle" \/ kind' = "eval" => cancel' = 0
             /\ cancel' > 0 => cancel' = 1 /\ canceled' /\ raised' # {}
  BY <1>3 DEF HandlerInv, TypeOK, CallInv, KnownInv, JobInv, CountInv,
     Explained, OfSolver, Registering, Limited, Kind, Register, mainVars,
     handlerVars, limitVars, callerVars, history
<1>4. ASSUME ~Explained', NEW u \in Caller, phase'[u] = "incStore", raised' = {}
      PROVE  loaded' = 0
  BY <1>4 DEF HandlerInv, TypeOK, CallInv, KnownInv, JobInv, CountInv,
     Explained, MutexInv, Register, mainVars, handlerVars, limitVars,
     callerVars, history
<1>5. ASSUME ~Explained', pc' # "idle", raised' # {}
      PROVE  canceled'
  BY <1>5 DEF HandlerInv, TypeOK, CallInv, KnownInv, JobInv, CountInv,
     Explained, Register, mainVars, handlerVars, limitVars, callerVars,
     history
<1>6. ASSUME ~Explained', pc' # "idle", "timeout" \in raised'
      PROVE  /\ pc' \notin {"setEh", "register", "startTimer"}
             /\ phase'[Timer] \notin Counting \cup {"armed"}
  BY <1>6 DEF HandlerInv, TypeOK, CallInv, KnownInv, JobInv, CountInv,
     Explained, Register, mainVars, handlerVars, limitVars, callerVars,
     history
<1>7. ASSUME ~Explained', pc' # "idle", raised' \cap Solver # {},
             NEW u \in Caller, job'[u] \in Solver
      PROVE  phase'[u] \notin Counting
  BY <1>7 DEF HandlerInv, TypeOK, CallInv, KnownInv, JobInv, CountInv,
     Explained, Register, mainVars, handlerVars, limitVars, callerVars,
     history
<1> QED  BY <1>1, <1>2, <1>3, <1>4, <1>5, <1>6, <1>7 DEF CountInv

\* A timer is set up once in a call.
LEMMA StartTimerCount ==
    ASSUME HandlerInv, MutexInv, CountInv, StartTimer
    PROVE  MutexInv' /\ CountInv'
<1> USE InterruptAssumption DEF Caller, InHandler, Storing, Counting
<1>1. MutexInv'
  BY DEF HandlerInv, TypeOK, CallInv, KnownInv, JobInv, MutexInv, StartTimer,
     mainVars, handlerVars, limitVars, callerVars, history,
     ContextMuxFree, SolverMuxFree, LimitMuxFree
<1>2. \A u \in Caller : phase'[u] \in {"inc", "incStore"} => canceled'
  BY DEF HandlerInv, TypeOK, CallInv, KnownInv, JobInv, CountInv, StartTimer,
     mainVars, handlerVars, limitVars, callerVars, history
<1>3. ASSUME ~Explained'
      PROVE  /\ pc' = "idle" \/ kind' = "eval" => cancel' = 0
             /\ cancel' > 0 => cancel' = 1 /\ canceled' /\ raised' # {}
  BY <1>3 DEF HandlerInv, TypeOK, CallInv, KnownInv, JobInv, CountInv,
     Explained, OfSolver, Registering, Limited, Kind, StartTimer, mainVars,
     handlerVars, limitVars, callerVars, history
<1>4. ASSUME ~Explained', NEW u \in Caller, phase'[u] = "incStore", raised' = {}
      PROVE  loaded' = 0
  BY <1>4 DEF HandlerInv, TypeOK, CallInv, KnownInv, JobInv, CountInv,
     Explained, MutexInv, StartTimer, mainVars, handlerVars, limitVars,
     callerVars, history
<1>5. ASSUME ~Explained', pc' # "idle", raised' # {}
      PROVE  canceled'
  BY <1>5 DEF HandlerInv, TypeOK, CallInv, KnownInv, JobInv, CountInv,
     Explained, StartTimer, mainVars, handlerVars, limitVars, callerVars,
     history
<1>6. ASSUME ~Explained', pc' # "idle", "timeout" \in raised'
      PROVE  /\ pc' \notin {"setEh", "register", "startTimer"}
             /\ phase'[Timer] \notin Counting \cup {"armed"}
  BY <1>6 DEF HandlerInv, TypeOK, CallInv, KnownInv, JobInv, CountInv,
     Explained, StartTimer, mainVars, handlerVars, limitVars, callerVars,
     history
<1>7. ASSUME ~Explained', pc' # "idle", raised' \cap Solver # {},
             NEW u \in Caller, job'[u] \in Solver
      PROVE  phase'[u] \notin Counting
  BY <1>7 DEF HandlerInv, TypeOK, CallInv, KnownInv, JobInv, CountInv,
     Explained, StartTimer, mainVars, handlerVars, limitVars, callerVars,
     history
<1> QED  BY <1>1, <1>2, <1>3, <1>4, <1>5, <1>6, <1>7 DEF CountInv

LEMMA PushCount ==
    ASSUME HandlerInv, MutexInv, CountInv, Push
    PROVE  MutexInv' /\ CountInv'
<1> USE InterruptAssumption DEF Caller, InHandler, Storing, Counting
<1>1. MutexInv'
  BY DEF HandlerInv, TypeOK, CallInv, KnownInv, JobInv, MutexInv, Push,
     mainVars, handlerVars, limitVars, callerVars, history,
     ContextMuxFree, SolverMuxFree, LimitMuxFree
<1>2. \A u \in Caller : phase'[u] \in {"inc", "incStore"} => canceled'
  BY DEF HandlerInv, TypeOK, CallInv, KnownInv, JobInv, CountInv, Push,
     mainVars, handlerVars, limitVars, callerVars, history
<1>3. ASSUME ~Explained'
      PROVE  /\ pc' = "idle" \/ kind' = "eval" => cancel' = 0
             /\ cancel' > 0 => cancel' = 1 /\ canceled' /\ raised' # {}
  BY <1>3 DEF HandlerInv, TypeOK, CallInv, KnownInv, JobInv, CountInv,
     Explained, OfSolver, Registering, Limited, Kind, Push, mainVars,
     handlerVars, limitVars, callerVars, history
<1>4. ASSUME ~Explained', NEW u \in Caller, phase'[u] = "incStore", raised' = {}
      PROVE  loaded' = 0
  BY <1>4 DEF HandlerInv, TypeOK, CallInv, KnownInv, JobInv, CountInv,
     Explained, MutexInv, Push, mainVars, handlerVars, limitVars, callerVars,
     history
<1>5. ASSUME ~Explained', pc' # "idle", raised' # {}
      PROVE  canceled'
  BY <1>5 DEF HandlerInv, TypeOK, CallInv, KnownInv, JobInv, CountInv,
     Explained, Push, mainVars, handlerVars, limitVars, callerVars, history
<1>6. ASSUME ~Explained', pc' # "idle", "timeout" \in raised'
      PROVE  /\ pc' \notin {"setEh", "register", "startTimer"}
             /\ phase'[Timer] \notin Counting \cup {"armed"}
  BY <1>6 DEF HandlerInv, TypeOK, CallInv, KnownInv, JobInv, CountInv,
     Explained, Push, mainVars, handlerVars, limitVars, callerVars, history
<1>7. ASSUME ~Explained', pc' # "idle", raised' \cap Solver # {},
             NEW u \in Caller, job'[u] \in Solver
      PROVE  phase'[u] \notin Counting
  BY <1>7 DEF HandlerInv, TypeOK, CallInv, KnownInv, JobInv, CountInv,
     Explained, Push, mainVars, handlerVars, limitVars, callerVars, history
<1> QED  BY <1>1, <1>2, <1>3, <1>4, <1>5, <1>6, <1>7 DEF CountInv

\* A call that sets nothing up ends here.
LEMMA FinishCount ==
    ASSUME HandlerInv, MutexInv, CountInv, Finish
    PROVE  MutexInv' /\ CountInv'
<1> USE InterruptAssumption DEF Caller, InHandler, Storing, Counting
<1>1. MutexInv'
  BY DEF HandlerInv, TypeOK, CallInv, KnownInv, JobInv, MutexInv, Finish,
     mainVars, handlerVars, limitVars, callerVars, history, Leave,
     ContextMuxFree, SolverMuxFree, LimitMuxFree
<1>2. \A u \in Caller : phase'[u] \in {"inc", "incStore"} => canceled'
  BY DEF HandlerInv, TypeOK, CallInv, KnownInv, JobInv, CountInv, Finish,
     mainVars, handlerVars, limitVars, callerVars, history, Leave
<1>3. ASSUME ~Explained'
      PROVE  /\ pc' = "idle" \/ kind' = "eval" => cancel' = 0
             /\ cancel' > 0 => cancel' = 1 /\ canceled' /\ raised' # {}
  BY <1>3 DEF HandlerInv, TypeOK, CallInv, KnownInv, JobInv, CountInv,
     Explained, OfSolver, Registering, Limited, Kind, Finish, mainVars,
     handlerVars, limitVars, callerVars, history, Leave
<1>4. ASSUME ~Explained', NEW u \in Caller, phase'[u] = "incStore", raised' = {}
      PROVE  loaded' = 0
  BY <1>4 DEF HandlerInv, TypeOK, CallInv, KnownInv, JobInv, CountInv,
     Explained, MutexInv, Finish, mainVars, handlerVars, limitVars,
     callerVars, history, Leave
<1>5. ASSUME ~Explained', pc' # "idle", raised' # {}
      PROVE  canceled'
  BY <1>5 DEF HandlerInv, TypeOK, CallInv, KnownInv, JobInv, CountInv,
     Explained, Finish, mainVars, handlerVars, limitVars, callerVars, history,
     Leave
<1>6. ASSUME ~Explained', pc' # "idle", "timeout" \in raised'
      PROVE  /\ pc' \notin {"setEh", "register", "startTimer"}
             /\ phase'[Timer] \notin Counting \cup {"armed"}
  BY <1>6 DEF HandlerInv, TypeOK, CallInv, KnownInv, JobInv, CountInv,
     Explained, Finish, mainVars, handlerVars, limitVars, callerVars, history,
     Leave
<1>7. ASSUME ~Explained', pc' # "idle", raised' \cap Solver # {},
             NEW u \in Caller, job'[u] \in Solver
      PROVE  phase'[u] \notin Counting
  BY <1>7 DEF HandlerInv, TypeOK, CallInv, KnownInv, JobInv, CountInv,
     Explained, Finish, mainVars, handlerVars, limitVars, callerVars, history,
     Leave
<1> QED  BY <1>1, <1>2, <1>3, <1>4, <1>5, <1>6, <1>7 DEF CountInv

LEMMA GiveUpCount ==
    ASSUME HandlerInv, MutexInv, CountInv, GiveUp
    PROVE  MutexInv' /\ CountInv'
<1> USE InterruptAssumption DEF Caller, InHandler, Storing, Counting
<1>1. MutexInv'
  BY DEF HandlerInv, TypeOK, CallInv, KnownInv, JobInv, MutexInv, GiveUp,
     mainVars, handlerVars, limitVars, callerVars, history, Leave,
     ContextMuxFree, SolverMuxFree, LimitMuxFree
<1>2. \A u \in Caller : phase'[u] \in {"inc", "incStore"} => canceled'
  BY DEF HandlerInv, TypeOK, CallInv, KnownInv, JobInv, CountInv, GiveUp,
     mainVars, handlerVars, limitVars, callerVars, history, Leave
<1>3. ASSUME ~Explained'
      PROVE  /\ pc' = "idle" \/ kind' = "eval" => cancel' = 0
             /\ cancel' > 0 => cancel' = 1 /\ canceled' /\ raised' # {}
  BY <1>3 DEF HandlerInv, TypeOK, CallInv, KnownInv, JobInv, CountInv,
     Explained, OfSolver, Registering, Limited, Kind, GiveUp, mainVars,
     handlerVars, limitVars, callerVars, history, Leave
<1>4. ASSUME ~Explained', NEW u \in Caller, phase'[u] = "incStore", raised' = {}
      PROVE  loaded' = 0
  BY <1>4 DEF HandlerInv, TypeOK, CallInv, KnownInv, JobInv, CountInv,
     Explained, MutexInv, GiveUp, mainVars, handlerVars, limitVars,
     callerVars, history, Leave
<1>5. ASSUME ~Explained', pc' # "idle", raised' # {}
      PROVE  canceled'
  BY <1>5 DEF HandlerInv, TypeOK, CallInv, KnownInv, JobInv, CountInv,
     Explained, GiveUp, mainVars, handlerVars, limitVars, callerVars, history,
     Leave
<1>6. ASSUME ~Explained', pc' # "idle", "timeout" \in raised'
      PROVE  /\ pc' \notin {"setEh", "register", "startTimer"}
             /\ phase'[Timer] \notin Counting \cup {"armed"}
  BY <1>6 DEF HandlerInv, TypeOK, CallInv, KnownInv, JobInv, CountInv,
     Explained, GiveUp, mainVars, handlerVars, limitVars, callerVars, history,
     Leave
<1>7. ASSUME ~Explained', pc' # "idle", raised' \cap Solver # {},
             NEW u \in Caller, job'[u] \in Solver
      PROVE  phase'[u] \notin Counting
  BY <1>7 DEF HandlerInv, TypeOK, CallInv, KnownInv, JobInv, CountInv,
     Explained, GiveUp, mainVars, handlerVars, limitVars, callerVars, history,
     Leave
<1> QED  BY <1>1, <1>2, <1>3, <1>4, <1>5, <1>6, <1>7 DEF CountInv

LEMMA PopCount ==
    ASSUME HandlerInv, MutexInv, CountInv, Pop
    PROVE  MutexInv' /\ CountInv'
<1> USE InterruptAssumption DEF Caller, InHandler, Storing, Counting
<1>1. MutexInv'
  BY DEF HandlerInv, TypeOK, CallInv, KnownInv, JobInv, MutexInv, Pop,
     mainVars, handlerVars, limitVars, callerVars, history,
     ContextMuxFree, SolverMuxFree, LimitMuxFree
<1>2. \A u \in Caller : phase'[u] \in {"inc", "incStore"} => canceled'
  BY DEF HandlerInv, TypeOK, CallInv, KnownInv, JobInv, CountInv, Pop,
     mainVars, handlerVars, limitVars, callerVars, history
<1>3. ASSUME ~Explained'
      PROVE  /\ pc' = "idle" \/ kind' = "eval" => cancel' = 0
             /\ cancel' > 0 => cancel' = 1 /\ canceled' /\ raised' # {}
  BY <1>3 DEF HandlerInv, TypeOK, CallInv, KnownInv, JobInv, CountInv,
     Explained, OfSolver, Registering, Limited, Kind, Pop, mainVars,
     handlerVars, limitVars, callerVars, history
<1>4. ASSUME ~Explained', NEW u \in Caller, phase'[u] = "incStore", raised' = {}
      PROVE  loaded' = 0
  BY <1>4 DEF HandlerInv, TypeOK, CallInv, KnownInv, JobInv, CountInv,
     Explained, MutexInv, Pop, mainVars, handlerVars, limitVars, callerVars,
     history
<1>5. ASSUME ~Explained', pc' # "idle", raised' # {}
      PROVE  canceled'
  BY <1>5 DEF HandlerInv, TypeOK, CallInv, KnownInv, JobInv, CountInv,
     Explained, Pop, mainVars, handlerVars, limitVars, callerVars, history
<1>6. ASSUME ~Explained', pc' # "idle", "timeout" \in raised'
      PROVE  /\ pc' \notin {"setEh", "register", "startTimer"}
             /\ phase'[Timer] \notin Counting \cup {"armed"}
  BY <1>6 DEF HandlerInv, TypeOK, CallInv, KnownInv, JobInv, CountInv,
     Explained, Pop, mainVars, handlerVars, limitVars, callerVars, history
<1>7. ASSUME ~Explained', pc' # "idle", raised' \cap Solver # {},
             NEW u \in Caller, job'[u] \in Solver
      PROVE  phase'[u] \notin Counting
  BY <1>7 DEF HandlerInv, TypeOK, CallInv, KnownInv, JobInv, CountInv,
     Explained, Pop, mainVars, handlerVars, limitVars, callerVars, history
<1> QED  BY <1>1, <1>2, <1>3, <1>4, <1>5, <1>6, <1>7 DEF CountInv

LEMMA StopTimerCount ==
    ASSUME HandlerInv, MutexInv, CountInv, StopTimer
    PROVE  MutexInv' /\ CountInv'
<1> USE InterruptAssumption DEF Caller, InHandler, Storing, Counting
<1>1. MutexInv'
  BY DEF HandlerInv, TypeOK, CallInv, KnownInv, JobInv, MutexInv, StopTimer,
     AfterBlock, mainVars, handlerVars, limitVars, callerVars, history,
     ContextMuxFree, SolverMuxFree, LimitMuxFree
<1>2. \A u \in Caller : phase'[u] \in {"inc", "incStore"} => canceled'
  BY DEF HandlerInv, TypeOK, CallInv, KnownInv, JobInv, CountInv, StopTimer,
     AfterBlock, mainVars, handlerVars, limitVars, callerVars, history
<1>3. ASSUME ~Explained'
      PROVE  /\ pc' = "idle" \/ kind' = "eval" => cancel' = 0
             /\ cancel' > 0 => cancel' = 1 /\ canceled' /\ raised' # {}
  BY <1>3 DEF HandlerInv, TypeOK, CallInv, KnownInv, JobInv, CountInv,
     Explained, OfSolver, Registering, Limited, Kind, StopTimer, AfterBlock,
     mainVars, handlerVars, limitVars, callerVars, history
<1>4. ASSUME ~Explained', NEW u \in Caller, phase'[u] = "incStore", raised' = {}
      PROVE  loaded' = 0
  BY <1>4 DEF HandlerInv, TypeOK, CallInv, KnownInv, JobInv, CountInv,
     Explained, MutexInv, StopTimer, AfterBlock, mainVars, handlerVars,
     limitVars, callerVars, history
<1>5. ASSUME ~Explained', pc' # "idle", raised' # {}
      PROVE  canceled'
  BY <1>5 DEF HandlerInv, TypeOK, CallInv, KnownInv, JobInv, CountInv,
     Explained, StopTimer, AfterBlock, mainVars, handlerVars, limitVars,
     callerVars, history
<1>6. ASSUME ~Explained', pc' # "idle", "timeout" \in raised'
      PROVE  /\ pc' \notin {"setEh", "register", "startTimer"}
             /\ phase'[Timer] \notin Counting \cup {"armed"}
  BY <1>6 DEF HandlerInv, TypeOK, CallInv, KnownInv, JobInv, CountInv,
     Explained, StopTimer, AfterBlock, mainVars, handlerVars, limitVars,
     callerVars, history
<1>7. ASSUME ~Explained', pc' # "idle", raised' \cap Solver # {},
             NEW u \in Caller, job'[u] \in Solver
      PROVE  phase'[u] \notin Counting
  BY <1>7 DEF HandlerInv, TypeOK, CallInv, KnownInv, JobInv, CountInv,
     Explained, StopTimer, AfterBlock, mainVars, handlerVars, limitVars,
     callerVars, history
<1> QED  BY <1>1, <1>2, <1>3, <1>4, <1>5, <1>6, <1>7 DEF CountInv

LEMMA UnsetEhCount ==
    ASSUME HandlerInv, MutexInv, CountInv, UnsetEh
    PROVE  MutexInv' /\ CountInv'
<1> USE InterruptAssumption DEF Caller, InHandler, Storing, Counting
<1>1. MutexInv'
  BY DEF HandlerInv, TypeOK, CallInv, KnownInv, JobInv, MutexInv, UnsetEh,
     AfterBlock, mainVars, handlerVars, limitVars, callerVars, history,
     ContextMuxFree, SolverMuxFree, LimitMuxFree
<1>2. \A u \in Caller : phase'[u] \in {"inc", "incStore"} => canceled'
  BY DEF HandlerInv, TypeOK, CallInv, KnownInv, JobInv, CountInv, UnsetEh,
     AfterBlock, mainVars, handlerVars, limitVars, callerVars, history
<1>3. ASSUME ~Explained'
      PROVE  /\ pc' = "idle" \/ kind' = "eval" => cancel' = 0
             /\ cancel' > 0 => cancel' = 1 /\ canceled' /\ raised' # {}
  BY <1>3 DEF HandlerInv, TypeOK, CallInv, KnownInv, JobInv, CountInv,
     Explained, OfSolver, Registering, Limited, Kind, UnsetEh, AfterBlock,
     mainVars, handlerVars, limitVars, callerVars, history
<1>4. ASSUME ~Explained', NEW u \in Caller, phase'[u] = "incStore", raised' = {}
      PROVE  loaded' = 0
  BY <1>4 DEF HandlerInv, TypeOK, CallInv, KnownInv, JobInv, CountInv,
     Explained, MutexInv, UnsetEh, AfterBlock, mainVars, handlerVars,
     limitVars, callerVars, history
<1>5. ASSUME ~Explained', pc' # "idle", raised' # {}
      PROVE  canceled'
  BY <1>5 DEF HandlerInv, TypeOK, CallInv, KnownInv, JobInv, CountInv,
     Explained, UnsetEh, AfterBlock, mainVars, handlerVars, limitVars,
     callerVars, history
<1>6. ASSUME ~Explained', pc' # "idle", "timeout" \in raised'
      PROVE  /\ pc' \notin {"setEh", "register", "startTimer"}
             /\ phase'[Timer] \notin Counting \cup {"armed"}
  BY <1>6 DEF HandlerInv, TypeOK, CallInv, KnownInv, JobInv, CountInv,
     Explained, UnsetEh, AfterBlock, mainVars, handlerVars, limitVars,
     callerVars, history
<1>7. ASSUME ~Explained', pc' # "idle", raised' \cap Solver # {},
             NEW u \in Caller, job'[u] \in Solver
      PROVE  phase'[u] \notin Counting
  BY <1>7 DEF HandlerInv, TypeOK, CallInv, KnownInv, JobInv, CountInv,
     Explained, UnsetEh, AfterBlock, mainVars, handlerVars, limitVars,
     callerVars, history
<1> QED  BY <1>1, <1>2, <1>3, <1>4, <1>5, <1>6, <1>7 DEF CountInv

LEMMA UnregisterCount ==
    ASSUME HandlerInv, MutexInv, CountInv, Unregister
    PROVE  MutexInv' /\ CountInv'
<1> USE InterruptAssumption DEF Caller, InHandler, Storing, Counting
<1>1. MutexInv'
  BY DEF HandlerInv, TypeOK, CallInv, KnownInv, JobInv, MutexInv, Unregister,
     mainVars, handlerVars, limitVars, callerVars, history,
     ContextMuxFree, SolverMuxFree, LimitMuxFree
<1>2. \A u \in Caller : phase'[u] \in {"inc", "incStore"} => canceled'
  BY DEF HandlerInv, TypeOK, CallInv, KnownInv, JobInv, CountInv, Unregister,
     mainVars, handlerVars, limitVars, callerVars, history
<1>3. ASSUME ~Explained'
      PROVE  /\ pc' = "idle" \/ kind' = "eval" => cancel' = 0
             /\ cancel' > 0 => cancel' = 1 /\ canceled' /\ raised' # {}
  BY <1>3 DEF HandlerInv, TypeOK, CallInv, KnownInv, JobInv, CountInv,
     Explained, OfSolver, Registering, Limited, Kind, Unregister, mainVars,
     handlerVars, limitVars, callerVars, history
<1>4. ASSUME ~Explained', NEW u \in Caller, phase'[u] = "incStore", raised' = {}
      PROVE  loaded' = 0
  BY <1>4 DEF HandlerInv, TypeOK, CallInv, KnownInv, JobInv, CountInv,
     Explained, MutexInv, Unregister, mainVars, handlerVars, limitVars,
     callerVars, history
<1>5. ASSUME ~Explained', pc' # "idle", raised' # {}
      PROVE  canceled'
  BY <1>5 DEF HandlerInv, TypeOK, CallInv, KnownInv, JobInv, CountInv,
     Explained, Unregister, mainVars, handlerVars, limitVars, callerVars,
     history
<1>6. ASSUME ~Explained', pc' # "idle", "timeout" \in raised'
      PROVE  /\ pc' \notin {"setEh", "register", "startTimer"}
             /\ phase'[Timer] \notin Counting \cup {"armed"}
  BY <1>6 DEF HandlerInv, TypeOK, CallInv, KnownInv, JobInv, CountInv,
     Explained, Unregister, mainVars, handlerVars, limitVars, callerVars,
     history
<1>7. ASSUME ~Explained', pc' # "idle", raised' \cap Solver # {},
             NEW u \in Caller, job'[u] \in Solver
      PROVE  phase'[u] \notin Counting
  BY <1>7 DEF HandlerInv, TypeOK, CallInv, KnownInv, JobInv, CountInv,
     Explained, Unregister, mainVars, handlerVars, limitVars, callerVars,
     history
<1> QED  BY <1>1, <1>2, <1>3, <1>4, <1>5, <1>6, <1>7 DEF CountInv

\* The destructor takes back what the handler has counted.
LEMMA DestroyCount ==
    ASSUME HandlerInv, MutexInv, CountInv, Destroy
    PROVE  MutexInv' /\ CountInv'
<1> USE InterruptAssumption DEF Caller, InHandler, Storing, Counting
<1>1. MutexInv'
  BY DEF HandlerInv, TypeOK, CallInv, KnownInv, JobInv, MutexInv, Destroy,
     mainVars, handlerVars, limitVars, callerVars, history,
     ContextMuxFree, SolverMuxFree, LimitMuxFree
<1>2. \A u \in Caller : phase'[u] \in {"inc", "incStore"} => canceled'
  BY DEF HandlerInv, TypeOK, CallInv, KnownInv, JobInv, CountInv, Destroy,
     mainVars, handlerVars, limitVars, callerVars, history
<1>3. ASSUME ~Explained'
      PROVE  /\ pc' = "idle" \/ kind' = "eval" => cancel' = 0
             /\ cancel' > 0 => cancel' = 1 /\ canceled' /\ raised' # {}
  BY <1>3 DEF HandlerInv, TypeOK, CallInv, KnownInv, JobInv, CountInv,
     Explained, OfSolver, Registering, Limited, Kind, Destroy, mainVars,
     handlerVars, limitVars, callerVars, history
<1>4. ASSUME ~Explained', NEW u \in Caller, phase'[u] = "incStore", raised' = {}
      PROVE  loaded' = 0
  BY <1>4 DEF HandlerInv, TypeOK, CallInv, KnownInv, JobInv, CountInv,
     Explained, MutexInv, Destroy, mainVars, handlerVars, limitVars,
     callerVars, history
<1>5. ASSUME ~Explained', pc' # "idle", raised' # {}
      PROVE  canceled'
  BY <1>5 DEF HandlerInv, TypeOK, CallInv, KnownInv, JobInv, CountInv,
     Explained, Destroy, mainVars, handlerVars, limitVars, callerVars, history
<1>6. ASSUME ~Explained', pc' # "idle", "timeout" \in raised'
      PROVE  /\ pc' \notin {"setEh", "register", "startTimer"}
             /\ phase'[Timer] \notin Counting \cup {"armed"}
  BY <1>6 DEF HandlerInv, TypeOK, CallInv, KnownInv, JobInv, CountInv,
     Explained, Destroy, mainVars, handlerVars, limitVars, callerVars, history
<1>7. ASSUME ~Explained', pc' # "idle", raised' \cap Solver # {},
             NEW u \in Caller, job'[u] \in Solver
      PROVE  phase'[u] \notin Counting
  BY <1>7 DEF HandlerInv, TypeOK, CallInv, KnownInv, JobInv, CountInv,
     Explained, Destroy, mainVars, handlerVars, limitVars, callerVars, history
<1> QED  BY <1>1, <1>2, <1>3, <1>4, <1>5, <1>6, <1>7 DEF CountInv

\* The mutex of the context keeps the second one out.
LEMMA InterruptContextCount ==
    ASSUME HandlerInv, MutexInv, CountInv, NEW t \in Interrupter, InterruptContext(t)
    PROVE  MutexInv' /\ CountInv'
<1> USE InterruptAssumption DEF Caller, InHandler, Storing, Counting
<1>1. MutexInv'
  BY DEF HandlerInv, TypeOK, CallInv, KnownInv, JobInv, MutexInv,
     InterruptContext, mainVars, handlerVars, limitVars, callerVars, history,
     Ask,
     ContextMuxFree, SolverMuxFree, LimitMuxFree
<1>2. \A u \in Caller : phase'[u] \in {"inc", "incStore"} => canceled'
  BY DEF HandlerInv, TypeOK, CallInv, KnownInv, JobInv, CountInv,
     InterruptContext, mainVars, handlerVars, limitVars, callerVars, history,
     Ask
<1>3. ASSUME ~Explained'
      PROVE  /\ pc' = "idle" \/ kind' = "eval" => cancel' = 0
             /\ cancel' > 0 => cancel' = 1 /\ canceled' /\ raised' # {}
  BY <1>3 DEF HandlerInv, TypeOK, CallInv, KnownInv, JobInv, CountInv,
     Explained, OfSolver, Registering, Limited, Kind, InterruptContext,
     mainVars, handlerVars, limitVars, callerVars, history, Ask
<1>4. ASSUME ~Explained', NEW u \in Caller, phase'[u] = "incStore", raised' = {}
      PROVE  loaded' = 0
  BY <1>4 DEF HandlerInv, TypeOK, CallInv, KnownInv, JobInv, CountInv,
     Explained, MutexInv, InterruptContext, mainVars, handlerVars, limitVars,
     callerVars, history, Ask
<1>5. ASSUME ~Explained', pc' # "idle", raised' # {}
      PROVE  canceled'
  BY <1>5 DEF HandlerInv, TypeOK, CallInv, KnownInv, JobInv, CountInv,
     Explained, InterruptContext, mainVars, handlerVars, limitVars,
     callerVars, history, Ask
<1>6. ASSUME ~Explained', pc' # "idle", "timeout" \in raised'
      PROVE  /\ pc' \notin {"setEh", "register", "startTimer"}
             /\ phase'[Timer] \notin Counting \cup {"armed"}
  BY <1>6 DEF HandlerInv, TypeOK, CallInv, KnownInv, JobInv, CountInv,
     Explained, InterruptContext, mainVars, handlerVars, limitVars,
     callerVars, history, Ask
<1>7. ASSUME ~Explained', pc' # "idle", raised' \cap Solver # {},
             NEW u \in Caller, job'[u] \in Solver
      PROVE  phase'[u] \notin Counting
  BY <1>7 DEF HandlerInv, TypeOK, CallInv, KnownInv, JobInv, CountInv,
     Explained, InterruptContext, mainVars, handlerVars, limitVars,
     callerVars, history, Ask
<1> QED  BY <1>1, <1>2, <1>3, <1>4, <1>5, <1>6, <1>7 DEF CountInv

\* The mutex of the solver does.
LEMMA InterruptSolverCount ==
    ASSUME HandlerInv, MutexInv, CountInv, NEW t \in Interrupter, NEW s \in Solver, InterruptSolver(t, s)
    PROVE  MutexInv' /\ CountInv'
<1> USE InterruptAssumption DEF Caller, InHandler, Storing, Counting
<1>1. MutexInv'
  BY DEF HandlerInv, TypeOK, CallInv, KnownInv, JobInv, MutexInv,
     InterruptSolver, mainVars, handlerVars, limitVars, callerVars, history,
     Ask,
     ContextMuxFree, SolverMuxFree, LimitMuxFree
<1>2. \A u \in Caller : phase'[u] \in {"inc", "incStore"} => canceled'
  BY DEF HandlerInv, TypeOK, CallInv, KnownInv, JobInv, CountInv,
     InterruptSolver, mainVars, handlerVars, limitVars, callerVars, history,
     Ask
<1>3. ASSUME ~Explained'
      PROVE  /\ pc' = "idle" \/ kind' = "eval" => cancel' = 0
             /\ cancel' > 0 => cancel' = 1 /\ canceled' /\ raised' # {}
  BY <1>3 DEF HandlerInv, TypeOK, CallInv, KnownInv, JobInv, CountInv,
     Explained, OfSolver, Registering, Limited, Kind, InterruptSolver,
     mainVars, handlerVars, limitVars, callerVars, history, Ask
<1>4. ASSUME ~Explained', NEW u \in Caller, phase'[u] = "incStore", raised' = {}
      PROVE  loaded' = 0
  BY <1>4 DEF HandlerInv, TypeOK, CallInv, KnownInv, JobInv, CountInv,
     Explained, MutexInv, InterruptSolver, mainVars, handlerVars, limitVars,
     callerVars, history, Ask
<1>5. ASSUME ~Explained', pc' # "idle", raised' # {}
      PROVE  canceled'
  BY <1>5 DEF HandlerInv, TypeOK, CallInv, KnownInv, JobInv, CountInv,
     Explained, InterruptSolver, mainVars, handlerVars, limitVars, callerVars,
     history, Ask
<1>6. ASSUME ~Explained', pc' # "idle", "timeout" \in raised'
      PROVE  /\ pc' \notin {"setEh", "register", "startTimer"}
             /\ phase'[Timer] \notin Counting \cup {"armed"}
  BY <1>6 DEF HandlerInv, TypeOK, CallInv, KnownInv, JobInv, CountInv,
     Explained, InterruptSolver, mainVars, handlerVars, limitVars, callerVars,
     history, Ask
<1>7. ASSUME ~Explained', pc' # "idle", raised' \cap Solver # {},
             NEW u \in Caller, job'[u] \in Solver
      PROVE  phase'[u] \notin Counting
  BY <1>7 DEF HandlerInv, TypeOK, CallInv, KnownInv, JobInv, CountInv,
     Explained, InterruptSolver, mainVars, handlerVars, limitVars, callerVars,
     history, Ask
<1> QED  BY <1>1, <1>2, <1>3, <1>4, <1>5, <1>6, <1>7 DEF CountInv

LEMMA ExpireCount ==
    ASSUME HandlerInv, MutexInv, CountInv, Expire
    PROVE  MutexInv' /\ CountInv'
<1> USE InterruptAssumption DEF Caller, InHandler, Storing, Counting
<1>1. MutexInv'
  BY DEF HandlerInv, TypeOK, CallInv, KnownInv, JobInv, MutexInv, Expire,
     mainVars, handlerVars, limitVars, callerVars, history, Ask,
     ContextMuxFree, SolverMuxFree, LimitMuxFree
<1>2. \A u \in Caller : phase'[u] \in {"inc", "incStore"} => canceled'
  BY DEF HandlerInv, TypeOK, CallInv, KnownInv, JobInv, CountInv, Expire,
     mainVars, handlerVars, limitVars, callerVars, history, Ask
<1>3. ASSUME ~Explained'
      PROVE  /\ pc' = "idle" \/ kind' = "eval" => cancel' = 0
             /\ cancel' > 0 => cancel' = 1 /\ canceled' /\ raised' # {}
  BY <1>3 DEF HandlerInv, TypeOK, CallInv, KnownInv, JobInv, CountInv,
     Explained, OfSolver, Registering, Limited, Kind, Expire, mainVars,
     handlerVars, limitVars, callerVars, history, Ask
<1>4. ASSUME ~Explained', NEW u \in Caller, phase'[u] = "incStore", raised' = {}
      PROVE  loaded' = 0
  BY <1>4 DEF HandlerInv, TypeOK, CallInv, KnownInv, JobInv, CountInv,
     Explained, MutexInv, Expire, mainVars, handlerVars, limitVars,
     callerVars, history, Ask
<1>5. ASSUME ~Explained', pc' # "idle", raised' # {}
      PROVE  canceled'
  BY <1>5 DEF HandlerInv, TypeOK, CallInv, KnownInv, JobInv, CountInv,
     Explained, Expire, mainVars, handlerVars, limitVars, callerVars, history,
     Ask
<1>6. ASSUME ~Explained', pc' # "idle", "timeout" \in raised'
      PROVE  /\ pc' \notin {"setEh", "register", "startTimer"}
             /\ phase'[Timer] \notin Counting \cup {"armed"}
  BY <1>6 DEF HandlerInv, TypeOK, CallInv, KnownInv, JobInv, CountInv,
     Explained, Expire, mainVars, handlerVars, limitVars, callerVars, history,
     Ask
<1>7. ASSUME ~Explained', pc' # "idle", raised' \cap Solver # {},
             NEW u \in Caller, job'[u] \in Solver
      PROVE  phase'[u] \notin Counting
  BY <1>7 DEF HandlerInv, TypeOK, CallInv, KnownInv, JobInv, CountInv,
     Explained, Expire, mainVars, handlerVars, limitVars, callerVars, history,
     Ask
<1> QED  BY <1>1, <1>2, <1>3, <1>4, <1>5, <1>6, <1>7 DEF CountInv

\* A handler that has been used is left alone.
LEMMA TestCount ==
    ASSUME HandlerInv, MutexInv, CountInv, NEW t \in Caller, Test(t)
    PROVE  MutexInv' /\ CountInv'
<1> USE InterruptAssumption DEF Caller, InHandler, Storing, Counting
<1>1. MutexInv'
  BY DEF HandlerInv, TypeOK, CallInv, KnownInv, JobInv, MutexInv, Test,
     mainVars, handlerVars, limitVars, callerVars, history, Return,
     ContextMuxFree, SolverMuxFree, LimitMuxFree
<1>2. \A u \in Caller : phase'[u] \in {"inc", "incStore"} => canceled'
  BY DEF HandlerInv, TypeOK, CallInv, KnownInv, JobInv, CountInv, Test,
     mainVars, handlerVars, limitVars, callerVars, history, Return
<1>3. ASSUME ~Explained'
      PROVE  /\ pc' = "idle" \/ kind' = "eval" => cancel' = 0
             /\ cancel' > 0 => cancel' = 1 /\ canceled' /\ raised' # {}
  BY <1>3 DEF HandlerInv, TypeOK, CallInv, KnownInv, JobInv, CountInv,
     Explained, OfSolver, Registering, Limited, Kind, Test, mainVars,
     handlerVars, limitVars, callerVars, history, Return
<1>4. ASSUME ~Explained', NEW u \in Caller, phase'[u] = "incStore", raised' = {}
      PROVE  loaded' = 0
  BY <1>4 DEF HandlerInv, TypeOK, CallInv, KnownInv, JobInv, CountInv,
     Explained, MutexInv, Test, mainVars, handlerVars, limitVars, callerVars,
     history, Return
<1>5. ASSUME ~Explained', pc' # "idle", raised' # {}
      PROVE  canceled'
  BY <1>5 DEF HandlerInv, TypeOK, CallInv, KnownInv, JobInv, CountInv,
     Explained, Test, mainVars, handlerVars, limitVars, callerVars, history,
     Return
<1>6. ASSUME ~Explained', pc' # "idle", "timeout" \in raised'
      PROVE  /\ pc' \notin {"setEh", "register", "startTimer"}
             /\ phase'[Timer] \notin Counting \cup {"armed"}
  BY <1>6 DEF HandlerInv, TypeOK, CallInv, KnownInv, JobInv, CountInv,
     Explained, Test, mainVars, handlerVars, limitVars, callerVars, history,
     Return
<1>7. ASSUME ~Explained', pc' # "idle", raised' \cap Solver # {},
             NEW u \in Caller, job'[u] \in Solver
      PROVE  phase'[u] \notin Counting
  BY <1>7 DEF HandlerInv, TypeOK, CallInv, KnownInv, JobInv, CountInv,
     Explained, Test, mainVars, handlerVars, limitVars, callerVars, history,
     Return
<1> QED  BY <1>1, <1>2, <1>3, <1>4, <1>5, <1>6, <1>7 DEF CountInv

LEMMA MarkCount ==
    ASSUME HandlerInv, MutexInv, CountInv, NEW t \in Caller, Mark(t)
    PROVE  MutexInv' /\ CountInv'
<1> USE InterruptAssumption DEF Caller, InHandler, Storing, Counting
<1>1. MutexInv'
  BY DEF HandlerInv, TypeOK, CallInv, KnownInv, JobInv, MutexInv, Mark,
     mainVars, handlerVars, limitVars, callerVars, history,
     ContextMuxFree, SolverMuxFree, LimitMuxFree
<1>2. \A u \in Caller : phase'[u] \in {"inc", "incStore"} => canceled'
  BY DEF HandlerInv, TypeOK, CallInv, KnownInv, JobInv, CountInv, Mark,
     mainVars, handlerVars, limitVars, callerVars, history
<1>3. ASSUME ~Explained'
      PROVE  /\ pc' = "idle" \/ kind' = "eval" => cancel' = 0
             /\ cancel' > 0 => cancel' = 1 /\ canceled' /\ raised' # {}
  BY <1>3 DEF HandlerInv, TypeOK, CallInv, KnownInv, JobInv, CountInv,
     Explained, OfSolver, Registering, Limited, Kind, Mark, mainVars,
     handlerVars, limitVars, callerVars, history
<1>4. ASSUME ~Explained', NEW u \in Caller, phase'[u] = "incStore", raised' = {}
      PROVE  loaded' = 0
  BY <1>4 DEF HandlerInv, TypeOK, CallInv, KnownInv, JobInv, CountInv,
     Explained, MutexInv, Mark, mainVars, handlerVars, limitVars, callerVars,
     history
<1>5. ASSUME ~Explained', pc' # "idle", raised' # {}
      PROVE  canceled'
  BY <1>5 DEF HandlerInv, TypeOK, CallInv, KnownInv, JobInv, CountInv,
     Explained, Mark, mainVars, handlerVars, limitVars, callerVars, history
<1>6. ASSUME ~Explained', pc' # "idle", "timeout" \in raised'
      PROVE  /\ pc' \notin {"setEh", "register", "startTimer"}
             /\ phase'[Timer] \notin Counting \cup {"armed"}
  BY <1>6 DEF HandlerInv, TypeOK, CallInv, KnownInv, JobInv, CountInv,
     Explained, Mark, mainVars, handlerVars, limitVars, callerVars, history
<1>7. ASSUME ~Explained', pc' # "idle", raised' \cap Solver # {},
             NEW u \in Caller, job'[u] \in Solver
      PROVE  phase'[u] \notin Counting
  BY <1>7 DEF HandlerInv, TypeOK, CallInv, KnownInv, JobInv, CountInv,
     Explained, Mark, mainVars, handlerVars, limitVars, callerVars, history
<1> QED  BY <1>1, <1>2, <1>3, <1>4, <1>5, <1>6, <1>7 DEF CountInv

\* One caller at a time reads the count.
LEMMA LoadCount ==
    ASSUME HandlerInv, MutexInv, CountInv, NEW t \in Caller, Load(t)
    PROVE  MutexInv' /\ CountInv'
<1> USE InterruptAssumption DEF Caller, InHandler, Storing, Counting
<1>1. MutexInv'
  BY DEF HandlerInv, TypeOK, CallInv, KnownInv, JobInv, MutexInv, Load,
     mainVars, handlerVars, limitVars, callerVars, history,
     ContextMuxFree, SolverMuxFree, LimitMuxFree
<1>2. \A u \in Caller : phase'[u] \in {"inc", "incStore"} => canceled'
  BY DEF HandlerInv, TypeOK, CallInv, KnownInv, JobInv, CountInv, Load,
     mainVars, handlerVars, limitVars, callerVars, history
<1>3. ASSUME ~Explained'
      PROVE  /\ pc' = "idle" \/ kind' = "eval" => cancel' = 0
             /\ cancel' > 0 => cancel' = 1 /\ canceled' /\ raised' # {}
  BY <1>3 DEF HandlerInv, TypeOK, CallInv, KnownInv, JobInv, CountInv,
     Explained, OfSolver, Registering, Limited, Kind, Load, mainVars,
     handlerVars, limitVars, callerVars, history
<1>4. ASSUME ~Explained', NEW u \in Caller, phase'[u] = "incStore", raised' = {}
      PROVE  loaded' = 0
  BY <1>4 DEF HandlerInv, TypeOK, CallInv, KnownInv, JobInv, CountInv,
     Explained, MutexInv, Load, mainVars, handlerVars, limitVars, callerVars,
     history
<1>5. ASSUME ~Explained', pc' # "idle", raised' # {}
      PROVE  canceled'
  BY <1>5 DEF HandlerInv, TypeOK, CallInv, KnownInv, JobInv, CountInv,
     Explained, Load, mainVars, handlerVars, limitVars, callerVars, history
<1>6. ASSUME ~Explained', pc' # "idle", "timeout" \in raised'
      PROVE  /\ pc' \notin {"setEh", "register", "startTimer"}
             /\ phase'[Timer] \notin Counting \cup {"armed"}
  BY <1>6 DEF HandlerInv, TypeOK, CallInv, KnownInv, JobInv, CountInv,
     Explained, Load, mainVars, handlerVars, limitVars, callerVars, history
<1>7. ASSUME ~Explained', pc' # "idle", raised' \cap Solver # {},
             NEW u \in Caller, job'[u] \in Solver
      PROVE  phase'[u] \notin Counting
  BY <1>7 DEF HandlerInv, TypeOK, CallInv, KnownInv, JobInv, CountInv,
     Explained, Load, mainVars, handlerVars, limitVars, callerVars, history
<1> QED  BY <1>1, <1>2, <1>3, <1>4, <1>5, <1>6, <1>7 DEF CountInv

\* The first to store finds the count at 0.
LEMMA StoreCount ==
    ASSUME HandlerInv, MutexInv, CountInv, NEW t \in Caller, Store(t)
    PROVE  MutexInv' /\ CountInv'
<1> USE InterruptAssumption DEF Caller, InHandler, Storing, Counting
<1>1. MutexInv'
  BY DEF HandlerInv, TypeOK, CallInv, KnownInv, JobInv, MutexInv, Store,
     mainVars, handlerVars, limitVars, callerVars, history, Return,
     ContextMuxFree, SolverMuxFree, LimitMuxFree
<1>2. \A u \in Caller : phase'[u] \in {"inc", "incStore"} => canceled'
  BY DEF HandlerInv, TypeOK, CallInv, KnownInv, JobInv, CountInv, Store,
     mainVars, handlerVars, limitVars, callerVars, history, Return
<1>3. ASSUME ~Explained'
      PROVE  /\ pc' = "idle" \/ kind' = "eval" => cancel' = 0
             /\ cancel' > 0 => cancel' = 1 /\ canceled' /\ raised' # {}
  <2>1. /\ job[t] # "context" /\ phase[t] = "incStore" /\ ~Explained
        /\ raised' = raised \cup {job[t]} /\ cancel' = loaded + 1
    BY <1>3 DEF HandlerInv, JobInv, Explained, Store
  <2>2. (job[t] = "timeout" /\ t = Timer) \/ job[t] \in Solver
    BY <2>1 DEF HandlerInv, TypeOK, JobInv, Job
  <2>3. pc # "idle" /\ kind # "eval"
    BY <2>1, <2>2 DEF HandlerInv, CallInv, KnownInv, JobInv, OfSolver
  <2>4. raised = {}
    <3>1. "timeout" \notin raised \/ job[t] # "timeout"
      BY <2>1, <2>2, <2>3 DEF CountInv
    <3>2. raised \cap Solver = {} \/ job[t] \notin Solver
      BY <2>1, <2>3 DEF CountInv
    <3>3. raised \subseteq Solver \cup {"timeout"}
      BY <2>1 DEF HandlerInv, TypeOK, Job, Explained
    <3>4. "timeout" \in raised \/ job[t] = "timeout" => raised \cap Solver = {}
      BY <1>3, <2>1 DEF Explained
    <3> QED  BY <1>3, <2>1, <2>2, <3>1, <3>2, <3>3, <3>4 DEF Explained
  <2>5. loaded = 0 /\ canceled
    BY <2>1, <2>4 DEF CountInv
  <2>6. pc' = pc /\ kind' = kind /\ canceled' = canceled
    BY DEF Store, mainVars, handlerVars
  <2> QED  BY <2>1, <2>3, <2>5, <2>6
<1>4. ASSUME ~Explained', NEW u \in Caller, phase'[u] = "incStore", raised' = {}
      PROVE  loaded' = 0
  BY <1>4 DEF HandlerInv, TypeOK, CallInv, KnownInv, JobInv, CountInv,
     Explained, MutexInv, Store, mainVars, handlerVars, limitVars, callerVars,
     history, Return
<1>5. ASSUME ~Explained', pc' # "idle", raised' # {}
      PROVE  canceled'
  BY <1>5 DEF HandlerInv, TypeOK, CallInv, KnownInv, JobInv, CountInv,
     Explained, Store, mainVars, handlerVars, limitVars, callerVars, history,
     Return
<1>6. ASSUME ~Explained', pc' # "idle", "timeout" \in raised'
      PROVE  /\ pc' \notin {"setEh", "register", "startTimer"}
             /\ phase'[Timer] \notin Counting \cup {"armed"}
  BY <1>6 DEF HandlerInv, TypeOK, CallInv, KnownInv, JobInv, CountInv,
     Explained, Store, mainVars, handlerVars, limitVars, callerVars, history,
     Return
<1>7. ASSUME ~Explained', pc' # "idle", raised' \cap Solver # {},
             NEW u \in Caller, job'[u] \in Solver
      PROVE  phase'[u] \notin Counting
  <2>1. /\ job[t] # "context" /\ phase[t] = "incStore" /\ ~Explained
        /\ raised' = raised \cup {job[t]} /\ pc # "idle"
    BY <1>7 DEF HandlerInv, JobInv, Explained, Store
  <2>2. /\ job' = [job EXCEPT ![t] = "none"]
        /\ phase' = [phase EXCEPT ![t] = "idle"]
    BY <2>1 DEF Store, Return
  <2>3. u # t /\ job[u] \in Solver /\ phase'[u] = phase[u]
    BY <1>7, <2>2 DEF HandlerInv, TypeOK
  <2>4. CASE raised \cap Solver # {}
    BY <2>1, <2>3, <2>4 DEF CountInv
  <2>5. CASE job[t] \in Solver
    <3>1. phase[u] \in Counting => job[u] = job[t]
      BY <2>1, <2>3, <2>5 DEF HandlerInv, JobInv, KnownInv
    <3>2. t \in Interrupter /\ u \in Interrupter
      BY <2>3, <2>5 DEF HandlerInv, JobInv
    <3>3. job[t] # "none"
      BY <2>5
    <3> QED  BY <2>3, <3>1, <3>2, <3>3 DEF MutexInv
  <2> QED  BY <1>7, <2>1, <2>4, <2>5
<1> QED  BY <1>1, <1>2, <1>3, <1>4, <1>5, <1>6, <1>7 DEF CountInv

\* Nobody is at work at the start and the count is 0.
LEMMA InitCount == Init => MutexInv /\ CountInv
<1> SUFFICES ASSUME Init PROVE MutexInv /\ CountInv
  OBVIOUS
<1>1. \A t \in Caller : phase[t] = "idle" /\ job[t] = "none"
  BY DEF Init
<1>2. MutexInv
  BY <1>1 DEF MutexInv, Storing, Caller
<1>3. CountInv
  BY <1>1 DEF Init, CountInv
<1> QED  BY <1>2, <1>3

\* Every step keeps the count explained.
LEMMA NextCount ==
    ASSUME HandlerInv, MutexInv, CountInv, [Next]_vars
    PROVE  MutexInv' /\ CountInv'
<1>1. ASSUME NEW k \in Kind, NEW s \in Solver, Begin(k, s)
      PROVE  MutexInv' /\ CountInv'
  BY <1>1, BeginCount
<1>2. CASE SetUp
  BY <1>2, SetEhCount, RegisterCount, StartTimerCount, PushCount DEF SetUp
<1>3. CASE Finish \/ GiveUp
  BY <1>3, FinishCount, GiveUpCount
<1>4. CASE CleanUp
  BY <1>4, PopCount, StopTimerCount, UnsetEhCount, UnregisterCount, DestroyCount
     DEF CleanUp
<1>5. ASSUME NEW t \in Interrupter, InterruptContext(t)
      PROVE  MutexInv' /\ CountInv'
  BY <1>5, InterruptContextCount
<1>6. ASSUME NEW t \in Interrupter, NEW s \in Solver, InterruptSolver(t, s)
      PROVE  MutexInv' /\ CountInv'
  BY <1>6, InterruptSolverCount
<1>7. CASE Expire
  BY <1>7, ExpireCount
<1>8. ASSUME NEW t \in Caller, Deliver(t) PROVE MutexInv' /\ CountInv'
  BY <1>8, TestCount, MarkCount, LoadCount, StoreCount DEF Deliver
<1>9. CASE UNCHANGED vars
  BY <1>9 DEF vars, mainVars, handlerVars, limitVars, callerVars, history,
              MutexInv, CountInv, Explained
<1> QED
  BY <1>1, <1>2, <1>3, <1>4, <1>5, <1>6, <1>7, <1>8, <1>9 DEF Next

---------------------------------------------------------------------------
(* The theorems.                                                           *)

\* The invariant of cancel_eh, its registrations and the count in reslimit
\* holds in every reachable state.
THEOREM InductiveInvariant == Spec => []IInv
<1>1. Init => IInv
  BY InitInv, InitCount DEF IInv
<1>2. IInv /\ [Next]_vars => IInv'
  BY NextInv, NextCount DEF IInv
<1> QED  BY <1>1, <1>2, PTL DEF Spec

\* Every reachable state is well typed; m_cancel never goes below 0.
THEOREM TypeCorrect == Spec => []TypeOK
<1>1. IInv => TypeOK
  BY DEF IInv, HandlerInv
<1> QED  BY <1>1, InductiveInvariant, PTL

\* No thread, solver, list or timer reaches a cancel_eh that is gone.
THEOREM HandlersAlive == Spec => []HandlerAlive
<1>1. IInv => HandlerAlive
  BY InvHandlerAlive DEF IInv
<1> QED  BY <1>1, InductiveInvariant, PTL

\* A search gives up only for an interrupt of its own solver or of the
\* context, or for a timeout, at work during the call.
THEOREM OnlyAskedAborts == Spec => []OthersLeftAlone
<1>1. IInv => OthersLeftAlone
  BY DEF IInv, HandlerInv, CauseInv, CauseAsked, OthersLeftAlone
<1> QED  BY <1>1, InductiveInvariant, PTL

\* Between calls m_cancel of the limit is 0 unless a context interrupt left it,
\* or a timeout and an interrupt of the solver that both passed the unlocked
\* test of m_canceled: nothing else makes the next call give up.
THEOREM LeftoversExplained == Spec => []LeftoverHasCause
<1>1. IInv => LeftoverHasCause
  BY DEF IInv, HandlerInv, TypeOK, CountInv, Explained, LeftoverHasCause
<1> QED  BY <1>1, InductiveInvariant, PTL
=============================================================================
