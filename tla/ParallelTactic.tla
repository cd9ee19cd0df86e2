--------------------------- MODULE ParallelTactic ---------------------------
(***************************************************************************)
(* The parallel tactic (solver/parallel_tactical.cpp): a task queue shared *)
(* by worker threads, the cube-and-conquer loop each worker runs on a      *)
(* task, and solve(), which joins the workers and turns what they reported *)
(* into one answer.                                                        *)
(*                                                                         *)
(* The search space is a finite set of Leaves.  A cube is a set of leaves, *)
(* a solver state the set of leaves its assertions leave open.  The solver *)
(* a state owns is an oracle: it may give up on any space, and a definite  *)
(* verdict of it is right.  Everything else is the code's control.         *)
(***************************************************************************)
EXTENDS Integers, Sequences, SequencesExt, FiniteSets

CONSTANTS
    Workers,          \* the threads of solve(); m_num_threads of them
    Leaves,           \* the points of the search space
    Assumptions,      \* m_assumptions of the root state; {} for a plain check
    MaxDepth,         \* bound: nested simplifications before a state gives up
    BatchSize,        \* conquer_batch_size()
    MaxApplications,  \* bound: applications of one tactic object
    MayInterrupt      \* whether Z3_interrupt may reach the caller's manager

ASSUME ParallelAssumption ==
    /\ IsFiniteSet(Workers)
    /\ MaxDepth \in Nat \ {0}
    /\ BatchSize \in Nat \ {0}
    /\ MaxApplications \in Nat \ {0}
    /\ MayInterrupt \in BOOLEAN

VARIABLES
    base, kills,      \* the goal: leaves its clauses allow, leaves each assumption rules out
    m_tasks,          \* queued states; taken from the back
    m_active,         \* workers whose state is on the active list
    m_num_waiters, m_shutdown,
    waitSet,          \* workers blocked in m_cond.wait
    pc, st,           \* where a worker is, and the solver_state it works on
    loc,              \* its locals of cube_and_conquer
    after,            \* where it goes on after task_queue::shutdown
    cancel,           \* limit of the cloned manager of its state
    cancelM,          \* limit of the caller's manager, used by the root state
    m_branches, m_has_undef, m_models, m_core, m_exn_code,
    answer, applications,
    interrupted       \* history: Z3_interrupt reached this application

goal == <<base, kills>>
queue == <<m_tasks, m_active, m_num_waiters, m_shutdown, waitSet>>
report == <<m_branches, m_has_undef, m_models, m_core, m_exn_code>>
caller == <<answer, applications, interrupted>>
vars == <<goal, queue, pc, st, loc, after, cancel, cancelM, report, caller>>

-----------------------------------------------------------------------------

NoExn == 0
Exn == 1
NoTask == [root |-> FALSE, space |-> {}, cubes |-> <<>>, depth |-> 0]

\* The leaves that satisfy the goal together with its assumptions.
Truth == base \ UNION {kills[a] : a \in Assumptions}

Union(q) == UNION {q[i] : i \in 1..Len(q)}

\* What a state that has not yet split its cubes stands for.
Covers(t) == IF t.cubes = <<>> THEN t.space ELSE t.space \cap Union(t.cubes)

\* clone(): the same assertions and the given cubes under a manager of its own.
clone(t, cubes) == [t EXCEPT !.root = FALSE, !.cubes = cubes]

\* m().inc() of the worker's state.
Canceled(w) == IF st[w].root THEN cancelM ELSE cancel[w]

Goto(w, label) == pc' = [pc EXCEPT ![w] = label]

\* Wakes one waiter, if there is one; the code asks for it only when someone
\* announced to wait.
NotifyOne ==
    IF m_num_waiters > 0 /\ waitSet # {}
    THEN \E v \in waitSet : waitSet' = waitSet \ {v}
    ELSE UNCHANGED waitSet

add_task(t) ==
    /\ m_tasks' = Append(m_tasks, t)
    /\ NotifyOne
    /\ UNCHANGED <<m_active, m_num_waiters, m_shutdown>>

-----------------------------------------------------------------------------
(* task_queue::get_task *)

\* Variant: the loop does not look at the shutdown flag.
EnterUntested(w) ==
    /\ pc[w] = "idle"
    /\ Goto(w, "try") /\ m_num_waiters' = m_num_waiters + 1
    /\ UNCHANGED <<goal, m_tasks, m_active, m_shutdown, waitSet, st, loc, after,
                   cancel, cancelM, report, caller>>

\* The test of the loop and inc_wait.
EnterGetTask(w) ==
    /\ pc[w] = "idle"
    /\ IF m_shutdown
       THEN Goto(w, "exit") /\ UNCHANGED m_num_waiters
       ELSE Goto(w, "try") /\ m_num_waiters' = m_num_waiters + 1
    /\ UNCHANGED <<goal, m_tasks, m_active, m_shutdown, waitSet, st, loc, after,
                   cancel, cancelM, report, caller>>

TryGetTask(w) ==
    /\ pc[w] = "try"
    /\ IF m_tasks = <<>>
       THEN /\ Goto(w, "lock")
            /\ UNCHANGED <<m_tasks, m_active, st, cancel>>
       ELSE /\ st' = [st EXCEPT ![w] = Last(m_tasks)]
            /\ m_tasks' = Front(m_tasks)
            /\ m_active' = m_active \cup {w}
            /\ cancel' = [cancel EXCEPT ![w] = FALSE]
            /\ Goto(w, "got")
    /\ UNCHANGED <<goal, m_num_waiters, m_shutdown, waitSet, loc, after, cancelM,
                   report, caller>>

\* Variant: the flag is not tested again under the lock.
WaitUntested(w) ==
    /\ pc[w] = "lock"
    /\ Goto(w, "blocked") /\ waitSet' = waitSet \cup {w}
    /\ UNCHANGED <<goal, m_tasks, m_active, m_num_waiters, m_shutdown, st, loc,
                   after, cancel, cancelM, report, caller>>

\* Second test under the lock, then m_cond.wait.
WaitForTask(w) ==
    /\ pc[w] = "lock"
    /\ IF m_shutdown
       THEN Goto(w, "dec") /\ UNCHANGED waitSet
       ELSE Goto(w, "blocked") /\ waitSet' = waitSet \cup {w}
    /\ UNCHANGED <<goal, m_tasks, m_active, m_num_waiters, m_shutdown, st, loc,
                   after, cancel, cancelM, report, caller>>

WakeUp(w) ==
    /\ pc[w] = "blocked"
    /\ w \notin waitSet
    /\ Goto(w, "dec")
    /\ UNCHANGED <<goal, queue, st, loc, after, cancel, cancelM, report, caller>>

\* Variant: the sleeper leaves without leaving the wait set.
WakeUpStaysListed(w) ==
    /\ pc[w] = "blocked"
    /\ Goto(w, "dec")
    /\ UNCHANGED <<goal, queue, st, loc, after, cancel, cancelM, report, caller>>

\* A condition variable may also wake without a notification.
SpuriousWakeUp(w) ==
    /\ pc[w] = "blocked"
    /\ w \in waitSet
    /\ waitSet' = waitSet \ {w}
    /\ Goto(w, "dec")
    /\ UNCHANGED <<goal, m_tasks, m_active, m_num_waiters, m_shutdown, st, loc,
                   after, cancel, cancelM, report, caller>>

\* Variant: a worker that got a task at once stays announced.
DecOnlyAfterWait(w) ==
    /\ pc[w] \in {"got", "dec"}
    /\ m_num_waiters' = IF pc[w] = "got" THEN m_num_waiters ELSE m_num_waiters - 1
    /\ Goto(w, IF pc[w] = "got" THEN "split" ELSE "idle")
    /\ UNCHANGED <<goal, m_tasks, m_active, m_shutdown, waitSet, st, loc, after,
                   cancel, cancelM, report, caller>>

dec_wait(w) ==
    /\ pc[w] \in {"got", "dec"}
    /\ m_num_waiters' = m_num_waiters - 1
    /\ Goto(w, IF pc[w] = "got" THEN "split" ELSE "idle")
    /\ UNCHANGED <<goal, m_tasks, m_active, m_shutdown, waitSet, st, loc, after,
                   cancel, cancelM, report, caller>>

-----------------------------------------------------------------------------
(* cube_and_conquer *)

\* Variant: the remaining cubes are not put back on the queue.
SplitDropsRest(w) ==
    /\ pc[w] = "split"
    /\ LET t == st[w] IN
       IF Canceled(w)
       THEN m_has_undef' = TRUE /\ Goto(w, "ran") /\ UNCHANGED <<st, loc>>
       ELSE /\ IF t.cubes = <<>> THEN UNCHANGED st
               ELSE st' = [st EXCEPT ![w].cubes = Front(@),
                                     ![w].space = @ \cap Last(t.cubes)]
            /\ loc' = [loc EXCEPT ![w].simplifications = 0]
            /\ Goto(w, "simplify")
            /\ UNCHANGED m_has_undef
    /\ UNCHANGED <<goal, queue, after, cancel, cancelM, m_branches, m_models, m_core,
                   m_exn_code, caller>>

\* cube_again: leave when cancelled, put the cubes but the last back on the
\* queue under a clone, assert the last one.
Split(w) ==
    /\ pc[w] = "split"
    /\ LET t == st[w]
           rest == Front(t.cubes) IN
       IF Canceled(w)
       THEN /\ m_has_undef' = TRUE
            /\ Goto(w, "ran")
            /\ UNCHANGED <<queue, st, loc>>
       ELSE /\ IF t.cubes = <<>>
               THEN UNCHANGED <<queue, st>>
               ELSE /\ IF rest = <<>> THEN UNCHANGED queue
                                      ELSE add_task(clone(t, rest))
                    /\ st' = [st EXCEPT ![w].cubes = rest,
                                        ![w].space = @ \cap Last(t.cubes)]
            /\ loc' = [loc EXCEPT ![w].simplifications = 0]
            /\ Goto(w, "simplify")
            /\ UNCHANGED m_has_undef
    /\ UNCHANGED <<goal, after, cancel, cancelM, m_branches, m_models, m_core,
                   m_exn_code, caller>>

\* simplify_again: one round of check_sat, and what follows an undecided one:
\* give up, simplify again under memory pressure, or go on to the cubes.
Simplify(w) ==
    /\ pc[w] = "simplify"
    /\ st' = [st EXCEPT ![w].depth = @ + 1]
    /\ IF Canceled(w)
       THEN m_has_undef' = TRUE /\ Goto(w, "ran") /\ UNCHANGED loc
       ELSE /\ UNCHANGED m_has_undef
            /\ loc' = [loc EXCEPT ![w] =
                   [simplifications |-> @.simplifications + 1, first |-> TRUE,
                    rest |-> st[w].space, cubes |-> <<>>]]
            /\ \/ st[w].space \cap Truth # {} /\ Goto(w, "sat")
               \/ st[w].space \cap Truth = {} /\ Goto(w, "unsat")
               \/ Goto(w, "undef")
               \/ st[w].depth + 1 < MaxDepth /\ Goto(w, "simplify")
               \/ st[w].depth + 1 < MaxDepth /\ Goto(w, "cube")
    /\ UNCHANGED <<goal, queue, after, cancel, cancelM, m_branches, m_models, m_core,
                   m_exn_code, caller>>

\* Variant: the branch of the state itself is counted again.
LeaveLoopCountsTwice(w) ==
    LET l == loc[w] IN
    \/ l.cubes = <<>> /\ l.first /\ Goto(w, "unsat") /\ UNCHANGED <<m_branches, st>>
    \/ /\ l.cubes = <<>> /\ ~l.first
       /\ m_branches' = m_branches - 1
       /\ Goto(w, "ran")
       /\ UNCHANGED st
    \/ /\ l.cubes # <<>>
       /\ m_branches' = m_branches + Len(l.cubes)
       /\ st' = [st EXCEPT ![w].cubes = l.cubes]
       /\ Goto(w, "split")

\* What follows the cube loop: nothing was left open, everything left was
\* spawned, or the cubes collected become the cubes of this state.
LeaveLoop(w) ==
    LET l == loc[w] IN
    \/ /\ l.cubes = <<>> /\ l.first
       /\ Goto(w, "unsat")
       /\ UNCHANGED <<m_branches, st>>
    \/ /\ l.cubes = <<>> /\ ~l.first
       /\ m_branches' = m_branches - 1
       /\ Goto(w, "ran")
       /\ UNCHANGED st
    \/ /\ l.cubes # <<>>
       /\ m_branches' = m_branches + Len(l.cubes) - 1
       /\ st' = [st EXCEPT ![w].cubes = l.cubes]
       /\ Goto(w, "split")

\* The loop ends: cancelled, or the cuber reports that nothing is left.
EndCubes(w) ==
    /\ pc[w] = "cube"
    /\ \/ Canceled(w) /\ m_has_undef' = TRUE
       \/ ~Canceled(w) /\ loc[w].rest \cap Truth = {} /\ UNCHANGED m_has_undef
    /\ LeaveLoop(w)
    /\ UNCHANGED <<goal, queue, loc, after, cancel, cancelM, m_models, m_core,
                   m_exn_code, caller>>

\* The cuber has no cube to offer: simplify once more, give up the second time.
NoCube(w) ==
    /\ pc[w] = "cube"
    /\ ~Canceled(w)
    /\ Goto(w, IF loc[w].simplifications > 1 THEN "undef" ELSE "simplify")
    /\ UNCHANGED <<goal, queue, st, loc, after, cancel, cancelM, report, caller>>

\* A cube the conquer solver refutes; there is one only without assumptions.
\* backtrack() may widen the refuted part; when the core is empty the cutoff is
\* 0 and the loop ends at once.
RefuteCube(w) ==
    /\ pc[w] = "cube"
    /\ ~Canceled(w) /\ Assumptions = {}
    /\ \E c \in SUBSET loc[w].rest :
          /\ c # {}
          /\ c \cap Truth = {}
          /\ loc' = [loc EXCEPT ![w].rest = @ \ c]
    /\ \/ UNCHANGED <<pc, st, m_branches>>
       \/ st[w].space \cap Truth = {} /\ LeaveLoop(w)
    /\ UNCHANGED <<goal, queue, after, cancel, cancelM, m_has_undef, m_models, m_core,
                   m_exn_code, caller>>

\* A cube the conquer solver satisfies.
SatisfyCube(w) ==
    /\ pc[w] = "cube"
    /\ ~Canceled(w) /\ Assumptions = {}
    /\ loc[w].rest \cap Truth # {}
    /\ Goto(w, "sat")
    /\ UNCHANGED <<goal, queue, st, loc, after, cancel, cancelM, report, caller>>

\* A cube nobody decides: kept for this state, or spawned with its batch.
KeepCube(w) ==
    /\ pc[w] = "cube"
    /\ ~Canceled(w)
    /\ \E c \in SUBSET loc[w].rest :
          LET batch == Append(loc[w].cubes, c)
              spawn == Len(batch) >= BatchSize IN
          /\ c # {}
          /\ loc' = [loc EXCEPT ![w].rest = @ \ c,
                                ![w].cubes = IF spawn THEN <<>> ELSE batch,
                                ![w].first = @ /\ ~spawn]
          /\ IF spawn
             THEN /\ m_branches' = m_branches + Len(batch)
                  /\ st' = [st EXCEPT ![w].cubes = batch]
                  /\ add_task(clone(st[w], batch))
             ELSE UNCHANGED <<m_branches, st, queue>>
    /\ UNCHANGED <<goal, pc, after, cancel, cancelM, m_has_undef, m_models, m_core,
                   m_exn_code, caller>>

-----------------------------------------------------------------------------
(* Reports *)

\* close_branch, then the model, if the solver has one, goes on the list.
report_sat(w) ==
    /\ pc[w] = "sat"
    /\ m_branches' = m_branches - 1
    /\ \/ /\ m_models' \in {m_models \cup {m} : m \in st[w].space \cap Truth}
          /\ UNCHANGED m_has_undef
       \/ /\ m_has_undef' = (m_has_undef \/ m_models = {})
          /\ UNCHANGED m_models
    /\ after' = [after EXCEPT ![w] = "ran"]
    /\ Goto(w, "shutdown")
    /\ UNCHANGED <<goal, queue, st, loc, cancel, cancelM, m_core, m_exn_code, caller>>

\* Sets of assumptions that refute a space together with the clauses.
Cores(space) ==
    {C \in SUBSET Assumptions : space \cap base \subseteq UNION {kills[a] : a \in C}}

\* collect_core replaces the core an earlier cube left.
report_unsat(w) ==
    /\ pc[w] = "unsat"
    /\ m_branches' = m_branches - 1
    /\ IF Assumptions = {} THEN UNCHANGED m_core
       ELSE m_core' \in IF Cores(st[w].space) = {} THEN SUBSET Assumptions
                                                 ELSE Cores(st[w].space)
    /\ Goto(w, "ran")
    /\ UNCHANGED <<goal, queue, st, loc, after, cancel, cancelM, m_has_undef, m_models,
                   m_exn_code, caller>>

report_undef(w) ==
    /\ pc[w] = "undef"
    /\ m_has_undef' = TRUE
    /\ m_branches' = m_branches - 1
    /\ Goto(w, "ran")
    /\ UNCHANGED <<goal, queue, st, loc, after, cancel, cancelM, m_models, m_core,
                   m_exn_code, caller>>

-----------------------------------------------------------------------------
(* run_solver and task_queue::shutdown *)

\* The handler around the loop: it leaves a queue alone that is shut down.
Caught(w) ==
    IF m_shutdown
    THEN Goto(w, "exit") /\ UNCHANGED after
    ELSE Goto(w, "shutdown") /\ after' = [after EXCEPT ![w] = "exn"]

\* A solver, a translation or the cuber throws.
Throw(w) ==
    /\ pc[w] \in {"split", "simplify", "cube"}
    /\ Caught(w)
    /\ UNCHANGED <<goal, queue, st, loc, cancel, cancelM, report, caller>>

\* Taking the model or the core of a branch just closed throws; collect_core
\* has forgotten the earlier core by then, or not yet.
ThrowInReport(w) ==
    /\ \/ pc[w] = "sat" /\ UNCHANGED m_core
       \/ pc[w] = "unsat" /\ Assumptions # {} /\ m_core' \in {m_core, {}}
    /\ m_branches' = m_branches - 1
    /\ Caught(w)
    /\ UNCHANGED <<goal, queue, st, loc, cancel, cancelM, m_has_undef, m_models,
                   m_exn_code, caller>>

\* The test of shutdown(), which holds no lock.
TestShutdown(w) ==
    /\ pc[w] = "shutdown"
    /\ Goto(w, IF m_shutdown THEN after[w] ELSE "cancelling")
    /\ UNCHANGED <<goal, queue, st, loc, after, cancel, cancelM, report, caller>>

\* Variant: only cloned managers are cancelled.
ShutdownSparesRoot(w) ==
    /\ pc[w] = "cancelling"
    /\ m_shutdown' = TRUE
    /\ waitSet' = {}
    /\ cancel' = [v \in Workers |-> cancel[v] \/ (v \in m_active /\ ~st[v].root)]
    /\ Goto(w, after[w])
    /\ UNCHANGED <<goal, m_tasks, m_active, m_num_waiters, st, loc, after, cancelM,
                   report, caller>>

\* Its body, under the lock: wake all waiters, cancel every active state.
shutdown(w) ==
    /\ pc[w] = "cancelling"
    /\ m_shutdown' = TRUE
    /\ waitSet' = {}
    /\ cancel' = [v \in Workers |-> cancel[v] \/ (v \in m_active /\ ~st[v].root)]
    /\ cancelM' = (cancelM \/ \E v \in m_active : st[v].root)
    /\ Goto(w, after[w])
    /\ UNCHANGED <<goal, m_tasks, m_active, m_num_waiters, st, loc, after, report,
                   caller>>

\* Variant: the exception is not recorded.
ForgetException(w) ==
    /\ pc[w] = "exn"
    /\ Goto(w, "exit")
    /\ UNCHANGED <<goal, queue, st, loc, after, cancel, cancelM, report, caller>>

SetException(w) ==
    /\ pc[w] = "exn"
    /\ m_exn_code' = Exn
    /\ Goto(w, "exit")
    /\ UNCHANGED <<goal, queue, st, loc, after, cancel, cancelM, m_branches, m_has_undef,
                   m_models, m_core, caller>>

task_done(w) ==
    /\ pc[w] = "ran"
    /\ m_active' = m_active \ {w}
    /\ IF m_tasks = <<>> /\ m_active' = {}
       THEN m_shutdown' = TRUE /\ waitSet' = {}
       ELSE UNCHANGED <<m_shutdown, waitSet>>
    /\ Goto(w, "done")
    /\ UNCHANGED <<goal, m_tasks, m_num_waiters, st, loc, after, cancel, cancelM,
                   report, caller>>

\* A state whose limit is exhausted stops the queue; then the state is freed.
EndTask(w) ==
    /\ pc[w] = "done"
    /\ IF Canceled(w)
       THEN Goto(w, "shutdown") /\ after' = [after EXCEPT ![w] = "idle"]
       ELSE Goto(w, "idle") /\ UNCHANGED after
    /\ st' = [st EXCEPT ![w] = NoTask]
    /\ UNCHANGED <<goal, queue, loc, cancel, cancelM, report, caller>>

-----------------------------------------------------------------------------
(* solve and operator() *)

\* solve() joins the workers, forgets the cancellation and reads the reports:
\* an exception first, then a model, then an undecided part.
solve ==
    /\ answer = "none"
    /\ \A w \in Workers : pc[w] = "exit"
    /\ cancelM' = FALSE
    /\ answer' = IF m_exn_code # NoExn THEN "throw"
                 ELSE IF m_models # {} THEN "sat"
                 ELSE IF m_has_undef THEN "undef" ELSE "unsat"
    /\ UNCHANGED <<goal, queue, pc, st, loc, after, cancel, report, applications,
                   interrupted>>

\* The root state: all leaves the clauses and the assumptions speak about.
RootTask == [root |-> TRUE, space |-> Leaves, cubes |-> <<>>, depth |-> 0]

\* Variant: the models of the previous application are kept.
ApplyKeepsModels ==
    /\ answer # "none"
    /\ applications < MaxApplications
    /\ base' \in SUBSET Leaves
    /\ kills' \in [Assumptions -> SUBSET Leaves]
    /\ m_tasks' = <<RootTask>>
    /\ m_active' = {} /\ m_num_waiters' = 0 /\ m_shutdown' = FALSE /\ waitSet' = {}
    /\ m_branches' = m_branches + 1
    /\ pc' = [w \in Workers |-> "idle"]
    /\ answer' = "none"
    /\ applications' = applications + 1
    /\ interrupted' = FALSE
    /\ UNCHANGED <<st, loc, after, cancel, cancelM, m_has_undef, m_models, m_core,
                   m_exn_code>>

\* operator() on a new goal: cleanup() empties the queue and the models and
\* nothing else.
Apply ==
    /\ answer # "none"
    /\ applications < MaxApplications
    /\ base' \in SUBSET Leaves
    /\ kills' \in [Assumptions -> SUBSET Leaves]
    /\ m_tasks' = <<RootTask>>
    /\ m_active' = {} /\ m_num_waiters' = 0 /\ m_shutdown' = FALSE /\ waitSet' = {}
    /\ m_models' = {}
    /\ m_branches' = m_branches + 1
    /\ pc' = [w \in Workers |-> "idle"]
    /\ answer' = "none"
    /\ applications' = applications + 1
    /\ interrupted' = FALSE
    /\ UNCHANGED <<st, loc, after, cancel, cancelM, m_has_undef, m_core, m_exn_code>>

\* Z3_interrupt, or a timer, cancels the manager the tactic was called with.
Interrupt ==
    /\ MayInterrupt
    /\ answer = "none"
    /\ cancelM' = TRUE
    /\ interrupted' = TRUE
    /\ UNCHANGED <<goal, queue, pc, st, loc, after, cancel, report, answer, applications>>

Init ==
    /\ base \in SUBSET Leaves
    /\ kills \in [Assumptions -> SUBSET Leaves]
    /\ m_tasks = <<RootTask>>
    /\ m_active = {} /\ m_num_waiters = 0 /\ m_shutdown = FALSE /\ waitSet = {}
    /\ pc = [w \in Workers |-> "idle"]
    /\ st = [w \in Workers |-> NoTask]
    /\ loc = [w \in Workers |->
                [simplifications |-> 0, first |-> TRUE, rest |-> {}, cubes |-> <<>>]]
    /\ after = [w \in Workers |-> "idle"]
    /\ cancel = [w \in Workers |-> FALSE]
    /\ cancelM = FALSE
    /\ m_branches = 1
    /\ m_has_undef = FALSE /\ m_models = {} /\ m_core = {} /\ m_exn_code = NoExn
    /\ answer = "none" /\ applications = 1 /\ interrupted = FALSE

GetTask(w) ==
    EnterGetTask(w) \/ TryGetTask(w) \/ WaitForTask(w) \/ WakeUp(w) \/ dec_wait(w)

CubeAndConquer(w) ==
    Split(w) \/ Simplify(w) \/ EndCubes(w) \/ NoCube(w) \/ RefuteCube(w)
    \/ SatisfyCube(w) \/ KeepCube(w)

Report(w) == report_sat(w) \/ report_unsat(w) \/ report_undef(w)

RunSolver(w) ==
    Throw(w) \/ ThrowInReport(w) \/ TestShutdown(w) \/ shutdown(w) \/ SetException(w)
    \/ task_done(w) \/ EndTask(w)

Step(w) == GetTask(w) \/ CubeAndConquer(w) \/ Report(w) \/ RunSolver(w)

\* All applications made and answered: the system rests.
Rest ==
    /\ answer # "none" /\ applications = MaxApplications
    /\ UNCHANGED vars

Next ==
    \/ \E w \in Workers : Step(w) \/ SpuriousWakeUp(w)
    \/ solve \/ Apply \/ Interrupt \/ Rest

Spec == Init /\ [][Next]_vars

\* Every thread is scheduled, and a call into the solver a state owns returns.
FairSpec == Spec /\ (\A w \in Workers : WF_vars(Step(w))) /\ WF_vars(solve)

-----------------------------------------------------------------------------
(* Properties *)

Labels == {"idle", "try", "got", "lock", "blocked", "dec", "split", "simplify", "cube",
           "sat", "unsat", "undef", "shutdown", "cancelling", "exn", "ran", "done", "exit"}

Task == [root : BOOLEAN, space : SUBSET Leaves, cubes : Seq(SUBSET Leaves), depth : Nat]

Locals == [simplifications : Nat, first : BOOLEAN, rest : SUBSET Leaves,
           cubes : Seq(SUBSET Leaves)]

\* The types of the variables of the tactic; only a blocked worker is in the wait set.
TypeOK ==
    /\ base \in SUBSET Leaves /\ kills \in [Assumptions -> SUBSET Leaves]
    /\ m_tasks \in Seq(Task)
    /\ m_active \in SUBSET Workers /\ waitSet \in SUBSET {w \in Workers : pc[w] = "blocked"}
    /\ m_num_waiters \in Int /\ m_branches \in Int
    /\ m_shutdown \in BOOLEAN /\ cancelM \in BOOLEAN
    /\ m_has_undef \in BOOLEAN /\ interrupted \in BOOLEAN
    /\ pc \in [Workers -> Labels]
    /\ st \in [Workers -> Task]
    /\ loc \in [Workers -> Locals]
    /\ after \in [Workers -> {"idle", "ran", "exn"}]
    /\ cancel \in [Workers -> BOOLEAN]
    /\ m_models \in SUBSET Leaves /\ m_core \in SUBSET Assumptions
    /\ m_exn_code \in {NoExn, Exn}
    /\ answer \in {"none", "throw", "sat", "undef", "unsat"}
    /\ applications \in Nat

(* What a worker's state still has to answer for.  Before the split this is *)
(* all its cubes, during the cube loop what is neither refuted nor spawned; *)
(* a refuted space answers for itself.                                      *)
Open(w) ==
    IF pc[w] \in {"got", "split"} THEN Covers(st[w])
    ELSE IF pc[w] = "cube" THEN loc[w].rest \cup Union(loc[w].cubes)
    ELSE IF pc[w] \in {"simplify", "sat", "undef"} THEN st[w].space
    ELSE {}

TasksCover(q) == UNION {Covers(q[i]) : i \in 1..Len(q)}

OpenLeaves ==
    TasksCover(m_tasks) \cup UNION {Open(w) : w \in Workers}

\* Somebody said why a definite refutation is off the table, or is about to.
Excused ==
    \/ m_has_undef \/ m_models # {} \/ m_exn_code # NoExn \/ interrupted
    \/ \E w \in Workers : pc[w] \in {"shutdown", "cancelling", "exn"} /\ after[w] = "exn"

\* The queue and the workers lose no cube: as long as no model, undecided part,
\* exception or interrupt is on record, every satisfying leaf is still covered by
\* a queued state or by what a worker has left to do (Split, KeepCube, EndCubes,
\* Throw: the clone must be queued before the worker's own share shrinks).
NoCubeLost == answer = "none" /\ ~Excused => Truth \subseteq OpenLeaves

\* The answer of an application is right: unsat is answered only for a goal with
\* no satisfying leaf (or after an interrupt, see UnsatIsRight), sat only with a
\* model of this goal (solve, report_sat, run_solver, cleanup).
AnswerSound ==
    /\ answer = "unsat" => Truth = {} \/ interrupted
    /\ answer = "sat" => Truth # {}

\* z3_api.h reads Z3_L_FALSE as "the assertions are unsatisfiable"; here also of
\* an application that is interrupted.
UnsatIsRight == answer = "unsat" => Truth = {}

\* Once the queue is shut down nobody sleeps on its condition: a worker tests the
\* flag again under the lock before it waits (get_task, shutdown, task_done).
ShutdownWakesAll == m_shutdown => waitSet = {}

\* The number of announced waiters, on which add_task decides whether to notify,
\* is the number of workers between inc_wait and dec_wait: no early return skips
\* the decrement.
Announced == {w \in Workers : pc[w] \in {"try", "got", "lock", "blocked", "dec"}}
WaitersCounted == m_num_waiters = Cardinality(Announced)

Branches(t) == IF t.cubes = <<>> THEN 1 ELSE Len(t.cubes)

\* The branches a worker's state accounts for.
OpenBranches(w) ==
    IF pc[w] \in {"got", "split"} THEN Branches(st[w])
    ELSE IF pc[w] \in {"simplify", "cube", "sat", "unsat", "undef"} THEN 1 ELSE 0

\* The number of all things of which there are b[i] for every i.
Total(b) == Cardinality(UNION {{i} \X (1..b[i]) : i \in DOMAIN b})

QueuedBranches == Total([i \in 1..Len(m_tasks) |-> Branches(m_tasks[i])])
WorkerBranches == Total([w \in Workers |-> OpenBranches(w)])

\* The first application of a tactic object, with nothing cut short.
Whole == applications = 1 /\ ~m_shutdown /\ ~interrupted /\ \A w \in Workers : after[w] # "exn"

\* The branch counter counts what is open, as long as nothing was cut short:
\* spawned cubes, cubes kept, and the branch of the state itself are each
\* counted once (add_branches, dec_branch, close_branch).
BranchesAgree == Whole => m_branches = QueuedBranches + WorkerBranches

\* Shutting down leaves no active state running uncancelled: neither the first
\* shutdown, by shutdown() or the end of the last task, nor any later pass through
\* the body of shutdown(), when states have become active since the first.
ShutsDown ==
    /\ m_shutdown'
    /\ \/ ~m_shutdown
       \/ \E w \in Workers : pc[w] = "cancelling" /\ pc'[w] # "cancelling"

ShutdownReachesActive ==
    [][ShutsDown => \A w \in m_active' : Canceled(w)']_vars

\* Every application is answered: the notification that add_task may lose between
\* a worker's failed try_get_task and its wait never leaves the join waiting.
EveryApplicationAnswered == []<>(answer # "none")

-----------------------------------------------------------------------------
(* The inductive invariant behind the properties above.                     *)

\* A worker that still answers for a space is on the active list, and its cubes
\* stay inside that space.
WorkerInv ==
    \A w \in Workers :
        /\ pc[w] \in {"got", "split", "simplify", "cube", "sat", "undef"} => w \in m_active
        /\ pc[w] = "cube" => loc[w].rest \cup Union(loc[w].cubes) \subseteq st[w].space

\* Why a worker is about to shut the queue down, or has left.
StopInv ==
    \A w \in Workers :
        /\ pc[w] \in {"shutdown", "cancelling"} /\ after[w] = "ran"
             => m_has_undef \/ m_models # {}
        /\ pc[w] \in {"shutdown", "cancelling"} /\ after[w] = "idle"
             => m_shutdown \/ interrupted
        /\ pc[w] = "exn" => after[w] = "exn" /\ m_shutdown
        /\ pc[w] = "exit" => m_shutdown
        /\ answer # "none" => pc[w] = "exit"

\* Only the shutdown and Z3_interrupt cancel a limit.
CancelInv ==
    /\ cancelM => m_shutdown \/ interrupted
    /\ answer # "none" => ~cancelM
    /\ \A w \in Workers :
          cancel[w] /\ pc[w] \notin {"idle", "try", "lock", "blocked", "dec", "exit"}
            => m_shutdown

\* An early shutdown has its excuse.
ShutdownInv == answer = "none" /\ m_shutdown /\ ~Excused => Truth = {}

ModelInv == m_models \subseteq Truth

\* The cover of the search space: every step keeps it, for any number of
\* workers, leaves and applications.
CoverInv ==
    /\ TypeOK /\ WorkerInv /\ StopInv /\ CancelInv /\ ShutdownInv /\ ModelInv
    /\ ShutdownWakesAll /\ NoCubeLost /\ AnswerSound

\* In the first application a worker that met an exception is on its way out.
LeaverInv ==
    /\ applications # 0
    /\ applications = 1 =>
          \A w \in Workers :
              after[w] = "exn" => pc[w] \in {"shutdown", "cancelling", "exn", "exit"}

\* The counters of the queue and of the branches.
CountInv == WaitersCounted /\ BranchesAgree /\ LeaverInv

IInv == CoverInv /\ CountInv

=============================================================================
