------------------------ MODULE ParallelTacticProofs ------------------------
(***************************************************************************)
(* Proofs about ParallelTactic: no cube is lost between the queue and the  *)
(* workers, and an answer is right unless an interrupt came, for any       *)
(* number of workers, leaves, cubes and applications.                      *)
(***************************************************************************)
EXTENDS ParallelTactic, SequenceTheorems, FiniteSetTheorems, TLAPS

---------------------------------------------------------------------------
(* The sequences of cubes and tasks.                                       *)

\* The length of a prefix.
LEMMA PrefixLen ==
    ASSUME NEW S, NEW q \in Seq(S), NEW n \in Nat, n <= Len(q)
    PROVE  Len(SubSeq(q, 1, n)) = n
<1>1. Len(q) \in Nat
  BY LenProperties
<1>2. \A i \in 1..n : q[i] \in S
  BY <1>1, ElementOfSeq
<1>3. 1 \in Int /\ n \in Int
  OBVIOUS
<1> QED  BY <1>2, <1>3, SubSeqProperties

\* What Last and Front return.
LEMMA LastFront ==
    ASSUME NEW S, NEW q \in Seq(S), q # <<>>
    PROVE  /\ Last(q) \in S
           /\ Front(q) \in Seq(S)
           /\ Len(q) \in Nat \ {0}
           /\ Len(Front(q)) = Len(q) - 1
           /\ \A i \in 1..Len(q) - 1 : Front(q)[i] = q[i]
           /\ Last(q) = q[Len(q)]
<1>1. Len(q) \in Nat \ {0}
  BY EmptySeq, LenProperties
<1>2. \A i \in 1..Len(q) : q[i] \in S
  BY ElementOfSeq
<1>3. Front(q) = SubSeq(q, 1, Len(q) - 1)
  BY DEF Front
<1>4. Front(q) \in Seq(S)
  BY <1>1, <1>2, <1>3
<1>5. Len(Front(q)) = Len(q) - 1
  <2>1. Len(q) - 1 \in Nat /\ Len(q) - 1 <= Len(q)
    BY <1>1
  <2>2. Len(SubSeq(q, 1, Len(q) - 1)) = Len(q) - 1
    BY <2>1, PrefixLen, Zenon
  <2> QED  BY <1>3, <2>2, Zenon
<1>6. \A i \in 1..Len(q) - 1 : Front(q)[i] = q[i]
  BY <1>1, <1>3
<1> QED  BY <1>1, <1>2, <1>4, <1>5, <1>6 DEF Last

\* The cubes of a state are those split off and the last one.
LEMMA UnionFront ==
    ASSUME NEW q \in Seq(SUBSET Leaves), q # <<>>
    PROVE  Union(q) = Union(Front(q)) \cup Last(q)
<1>1. 1..Len(q) = (1..Len(Front(q))) \cup {Len(q)}
  BY LastFront
<1> QED  BY <1>1, LastFront DEF Union

LEMMA UnionAppend ==
    ASSUME NEW q \in Seq(SUBSET Leaves), NEW c \in SUBSET Leaves
    PROVE  /\ Append(q, c) \in Seq(SUBSET Leaves)
           /\ Append(q, c) # <<>>
           /\ Union(Append(q, c)) = Union(q) \cup c
<1> DEFINE a == Append(q, c)
<1>1. /\ a \in Seq(SUBSET Leaves) /\ Len(a) = Len(q) + 1 /\ Len(q) \in Nat
      /\ \A i \in 1..Len(q) : a[i] = q[i]
      /\ a[Len(q) + 1] = c
  BY AppendProperties, LenProperties
<1>2. 1..Len(a) = (1..Len(q)) \cup {Len(q) + 1}
  BY <1>1
<1>3. Union(a) = Union(q) \cup c
  BY <1>1, <1>2 DEF Union
<1>4. a # <<>>
  BY <1>1, EmptySeq
<1> QED  BY <1>1, <1>3, <1>4

\* What a queue stands for when a task is taken from it or added to it.
LEMMA TasksFront ==
    ASSUME NEW q \in Seq(Task), q # <<>>
    PROVE  TasksCover(q) = TasksCover(Front(q)) \cup Covers(Last(q))
<1>1. 1..Len(q) = (1..Len(Front(q))) \cup {Len(q)}
  BY LastFront
<1> QED  BY <1>1, LastFront DEF TasksCover

LEMMA TasksAppend ==
    ASSUME NEW q \in Seq(Task), NEW t \in Task
    PROVE  /\ Append(q, t) \in Seq(Task)
           /\ TasksCover(Append(q, t)) = TasksCover(q) \cup Covers(t)
<1> DEFINE a == Append(q, t)
<1>1. /\ a \in Seq(Task) /\ Len(a) = Len(q) + 1 /\ Len(q) \in Nat
      /\ \A i \in 1..Len(q) : a[i] = q[i]
      /\ a[Len(q) + 1] = t
  BY AppendProperties, LenProperties
<1>2. 1..Len(a) = (1..Len(q)) \cup {Len(q) + 1}
  BY <1>1
<1> QED  BY <1>1, <1>2 DEF TasksCover

LEMMA EmptySequences ==
    /\ <<>> \in Seq(SUBSET Leaves)
    /\ Union(<<>>) = {}
    /\ TasksCover(<<>>) = {}
    /\ NoTask \in Task
    /\ RootTask \in Task
    /\ <<RootTask>> \in Seq(Task)
    /\ TasksCover(<<RootTask>>) = Leaves
<1>1. Union(<<>>) = {} /\ TasksCover(<<>>) = {}
  BY DEF Union, TasksCover
<1>2. NoTask \in Task /\ RootTask \in Task
  BY DEF NoTask, RootTask, Task
<1>3. TasksCover(<<RootTask>>) = Leaves
  BY DEF TasksCover, Covers, RootTask
<1> QED  BY <1>1, <1>2, <1>3

---------------------------------------------------------------------------
(* Every step keeps the types.                                             *)

LEMMA EnterGetTaskType ==
    ASSUME TypeOK, NEW w \in Workers, EnterGetTask(w)
    PROVE  TypeOK'
  BY SMTT(60) DEF TypeOK, EnterGetTask, Goto, goal, queue, report, caller, Labels

LEMMA TryGetTaskType ==
    ASSUME TypeOK, NEW w \in Workers, TryGetTask(w)
    PROVE  TypeOK'
<1>1. /\ m_tasks' \in Seq(Task)
      /\ st' \in [Workers -> Task]
  <2>1. CASE m_tasks = <<>>
    BY <2>1 DEF TypeOK, TryGetTask
  <2>2. CASE m_tasks # <<>>
    <3>1. Last(m_tasks) \in Task /\ Front(m_tasks) \in Seq(Task)
      BY <2>2, LastFront DEF TypeOK
    <3> QED  BY <2>2, <3>1 DEF TypeOK, TryGetTask
  <2> QED  BY <2>1, <2>2
<1>2. pc' \in [Workers -> Labels]
  BY DEF TypeOK, TryGetTask, Goto, Labels
<1>3. waitSet' \in SUBSET {v \in Workers : pc'[v] = "blocked"}
  BY DEF TypeOK, TryGetTask, Goto
<1>4. m_active' \in SUBSET Workers /\ cancel' \in [Workers -> BOOLEAN]
  BY DEF TypeOK, TryGetTask
<1> QED  BY <1>1, <1>2, <1>3, <1>4 DEF TypeOK, TryGetTask, goal, report, caller

LEMMA WaitForTaskType ==
    ASSUME TypeOK, NEW w \in Workers, WaitForTask(w)
    PROVE  TypeOK'
  BY SMTT(60) DEF TypeOK, WaitForTask, Goto, goal, queue, report, caller, Labels

LEMMA WakeUpType ==
    ASSUME TypeOK, NEW w \in Workers, WakeUp(w)
    PROVE  TypeOK'
  BY SMTT(60) DEF TypeOK, WakeUp, Goto, goal, queue, report, caller, Labels

LEMMA SpuriousWakeUpType ==
    ASSUME TypeOK, NEW w \in Workers, SpuriousWakeUp(w)
    PROVE  TypeOK'
  BY SMTT(60) DEF TypeOK, SpuriousWakeUp, Goto, goal, queue, report, caller, Labels

LEMMA dec_waitType ==
    ASSUME TypeOK, NEW w \in Workers, dec_wait(w)
    PROVE  TypeOK'
  BY SMTT(60) DEF TypeOK, dec_wait, Goto, goal, queue, report, caller, Labels

LEMMA SplitType ==
    ASSUME TypeOK, NEW w \in Workers, Split(w)
    PROVE  TypeOK'
<1>1. st[w] \in Task /\ loc[w] \in Locals /\ st[w].cubes \in Seq(SUBSET Leaves)
  BY DEF TypeOK, Task
<1>2. pc' \in [Workers -> Labels] /\ m_has_undef' \in BOOLEAN
  BY DEF TypeOK, Split, Goto, Labels
<1>3. loc' \in [Workers -> Locals]
  <2>1. [loc[w] EXCEPT !.simplifications = 0] \in Locals
    BY <1>1 DEF Locals
  <2> QED  BY <2>1 DEF TypeOK, Split
<1>4. st' \in [Workers -> Task] /\ m_tasks' \in Seq(Task)
  <2>1. CASE Canceled(w) \/ st[w].cubes = <<>>
    BY <2>1 DEF TypeOK, Split, queue
  <2>2. CASE ~Canceled(w) /\ st[w].cubes # <<>>
    <3>1. Front(st[w].cubes) \in Seq(SUBSET Leaves) /\ Last(st[w].cubes) \in SUBSET Leaves
      BY <1>1, <2>2, LastFront
    <3>2. /\ [st[w] EXCEPT !.cubes = Front(st[w].cubes),
                           !.space = @ \cap Last(st[w].cubes)] \in Task
          /\ clone(st[w], Front(st[w].cubes)) \in Task
      BY <1>1, <3>1 DEF Task, clone
    <3>3. st' \in [Workers -> Task]
      BY <2>2, <3>2 DEF TypeOK, Split
    <3>4. m_tasks' \in Seq(Task)
      <4>1. m_tasks' = m_tasks \/ m_tasks' = Append(m_tasks, clone(st[w], Front(st[w].cubes)))
        BY <2>2 DEF Split, queue, add_task
      <4>2. Append(m_tasks, clone(st[w], Front(st[w].cubes))) \in Seq(Task)
        BY <3>2, TasksAppend DEF TypeOK
      <4> QED  BY <4>1, <4>2 DEF TypeOK
    <3> QED  BY <3>3, <3>4
  <2> QED  BY <2>1, <2>2
<1>5. waitSet' \in SUBSET {v \in Workers : pc'[v] = "blocked"}
  BY DEF TypeOK, Split, Goto, queue, add_task, NotifyOne
<1>6. m_active' = m_active /\ m_num_waiters' = m_num_waiters /\ m_shutdown' = m_shutdown
  BY DEF Split, queue, add_task
<1> QED  BY <1>2, <1>3, <1>4, <1>5, <1>6 DEF TypeOK, Split, goal, caller

LEMMA SimplifyType ==
    ASSUME TypeOK, NEW w \in Workers, Simplify(w)
    PROVE  TypeOK'
<1>1. st[w] \in Task /\ loc[w] \in Locals
  BY DEF TypeOK
<1>2. [st[w] EXCEPT !.depth = @ + 1] \in Task
  BY <1>1 DEF Task
<1>3. st' \in [Workers -> Task]
  BY <1>2 DEF TypeOK, Simplify
<1>4. [simplifications |-> loc[w].simplifications + 1, first |-> TRUE,
       rest |-> st[w].space, cubes |-> <<>>] \in Locals
  BY <1>1, EmptySequences DEF Task, Locals
<1>5. loc' \in [Workers -> Locals]
  BY <1>4 DEF TypeOK, Simplify
<1>6. pc' \in [Workers -> Labels] /\ m_has_undef' \in BOOLEAN
  BY DEF TypeOK, Simplify, Goto, Labels
<1>7. waitSet' \in SUBSET {v \in Workers : pc'[v] = "blocked"}
  BY DEF TypeOK, Simplify, Goto, queue
<1> QED  BY <1>3, <1>5, <1>6, <1>7 DEF TypeOK, Simplify, goal, queue, caller

LEMMA EndCubesType ==
    ASSUME TypeOK, NEW w \in Workers, EndCubes(w)
    PROVE  TypeOK'
<1>1. st[w] \in Task /\ loc[w] \in Locals
  BY DEF TypeOK
<1>2. pc' \in [Workers -> Labels]
  BY DEF TypeOK, EndCubes, LeaveLoop, Goto, Labels
<1>3. waitSet' \in SUBSET {v \in Workers : pc'[v] = "blocked"}
  BY DEF TypeOK, EndCubes, LeaveLoop, Goto, queue
<1>4. st' \in [Workers -> Task] /\ m_branches' \in Int
  <2>1. /\ [st[w] EXCEPT !.cubes = loc[w].cubes] \in Task
        /\ Len(loc[w].cubes) \in Nat
    BY <1>1, LenProperties DEF Task, Locals
  <2>2. st' \in [Workers -> Task]
    BY <2>1 DEF TypeOK, EndCubes, LeaveLoop
  <2>3. m_branches' \in Int
    BY <2>1 DEF TypeOK, EndCubes, LeaveLoop
  <2> QED  BY <2>2, <2>3
<1>5. m_has_undef' \in BOOLEAN
  BY DEF TypeOK, EndCubes
<1> QED  BY <1>2, <1>3, <1>4, <1>5 DEF TypeOK, EndCubes, goal, queue, caller

LEMMA NoCubeType ==
    ASSUME TypeOK, NEW w \in Workers, NoCube(w)
    PROVE  TypeOK'
  BY SMTT(60) DEF TypeOK, NoCube, Goto, goal, queue, report, caller, Labels

LEMMA RefuteCubeType ==
    ASSUME TypeOK, NEW w \in Workers, RefuteCube(w)
    PROVE  TypeOK'
<1>1. st[w] \in Task /\ loc[w] \in Locals
  BY DEF TypeOK
<1>2. pc' \in [Workers -> Labels]
  BY DEF TypeOK, RefuteCube, LeaveLoop, Goto, Labels
<1>3. waitSet' \in SUBSET {v \in Workers : pc'[v] = "blocked"}
  BY DEF TypeOK, RefuteCube, LeaveLoop, Goto, queue
<1>4. st' \in [Workers -> Task] /\ m_branches' \in Int
  <2>1. /\ [st[w] EXCEPT !.cubes = loc[w].cubes] \in Task
        /\ Len(loc[w].cubes) \in Nat
    BY <1>1, LenProperties DEF Task, Locals
  <2> QED  BY <2>1 DEF TypeOK, RefuteCube, LeaveLoop
<1>5. loc' \in [Workers -> Locals]
  <2>1. PICK c \in SUBSET loc[w].rest : loc' = [loc EXCEPT ![w].rest = @ \ c]
    BY DEF RefuteCube
  <2>2. [loc[w] EXCEPT !.rest = @ \ c] \in Locals
    BY <1>1 DEF Locals
  <2> QED  BY <2>1, <2>2 DEF TypeOK
<1> QED  BY <1>2, <1>3, <1>4, <1>5 DEF TypeOK, RefuteCube, goal, queue, caller

LEMMA SatisfyCubeType ==
    ASSUME TypeOK, NEW w \in Workers, SatisfyCube(w)
    PROVE  TypeOK'
  BY SMTT(60) DEF TypeOK, SatisfyCube, Goto, goal, queue, report, caller, Labels

LEMMA KeepCubeType ==
    ASSUME TypeOK, NEW w \in Workers, KeepCube(w)
    PROVE  TypeOK'
<1>1. st[w] \in Task /\ loc[w] \in Locals
  BY DEF TypeOK
<1> DEFINE batch(c) == Append(loc[w].cubes, c)
           spawn(c) == Len(batch(c)) >= BatchSize
<1>2. PICK c \in SUBSET loc[w].rest :
         /\ loc' = [loc EXCEPT ![w].rest = @ \ c,
                               ![w].cubes = IF spawn(c) THEN <<>> ELSE batch(c),
                               ![w].first = @ /\ ~spawn(c)]
         /\ IF spawn(c)
            THEN /\ m_branches' = m_branches + Len(batch(c))
                 /\ st' = [st EXCEPT ![w].cubes = batch(c)]
                 /\ add_task(clone(st[w], batch(c)))
            ELSE UNCHANGED <<m_branches, st, queue>>
  BY Zenon DEF KeepCube
<1>3. c \in SUBSET Leaves /\ batch(c) \in Seq(SUBSET Leaves) /\ Len(batch(c)) \in Nat
  BY <1>1, UnionAppend, LenProperties DEF Locals
<1> HIDE DEF batch
<1>4. loc' \in [Workers -> Locals]
  <2>1. [loc[w] EXCEPT !.rest = @ \ c, !.cubes = IF spawn(c) THEN <<>> ELSE batch(c),
                       !.first = @ /\ ~spawn(c)] \in Locals
    BY <1>1, <1>3, EmptySequences DEF Locals
  <2> QED  BY <1>2, <2>1 DEF TypeOK
<1>5. /\ st' \in [Workers -> Task] /\ m_branches' \in Int /\ m_tasks' \in Seq(Task)
      /\ waitSet' \subseteq waitSet
      /\ m_active' = m_active /\ m_num_waiters' = m_num_waiters /\ m_shutdown' = m_shutdown
  <2>1. CASE spawn(c)
    <3>1. [st[w] EXCEPT !.cubes = batch(c)] \in Task /\ clone(st[w], batch(c)) \in Task
      BY <1>1, <1>3 DEF Task, clone
    <3>2. m_branches' \in Int
      BY <1>2, <1>3, <2>1 DEF TypeOK
    <3>6. st' \in [Workers -> Task]
      BY <1>2, <2>1, <3>1 DEF TypeOK
    <3>3. add_task(clone(st[w], batch(c)))
      BY <1>2, <2>1
    <3>4. m_tasks' \in Seq(Task)
      BY <3>1, <3>3, TasksAppend DEF TypeOK, add_task
    <3>5. /\ waitSet' \subseteq waitSet
          /\ m_active' = m_active /\ m_num_waiters' = m_num_waiters
          /\ m_shutdown' = m_shutdown
      BY <3>3 DEF add_task, NotifyOne
    <3> QED  BY <3>2, <3>4, <3>5, <3>6
  <2>2. CASE ~spawn(c)
    BY <1>2, <2>2 DEF TypeOK, queue
  <2> QED  BY <2>1, <2>2
<1> QED  BY <1>4, <1>5 DEF TypeOK, KeepCube, goal, caller

LEMMA report_satType ==
    ASSUME TypeOK, NEW w \in Workers, report_sat(w)
    PROVE  TypeOK'
<1>1. pc' \in [Workers -> Labels] /\ after' \in [Workers -> {"idle", "ran", "exn"}]
  BY DEF TypeOK, report_sat, Goto, Labels
<1>2. waitSet' \in SUBSET {v \in Workers : pc'[v] = "blocked"}
  BY DEF TypeOK, report_sat, Goto, queue
<1>3. m_models' \in SUBSET Leaves /\ m_has_undef' \in BOOLEAN /\ m_branches' \in Int
  <2>1. st[w].space \in SUBSET Leaves
    BY DEF TypeOK, Task
  <2>2. m_models' \in {m_models \cup {m} : m \in st[w].space \cap Truth} \/ m_models' = m_models
    BY DEF report_sat
  <2>3. m_models' \in SUBSET Leaves
    BY <2>1, <2>2 DEF TypeOK
  <2>4. m_branches' \in Int
    BY DEF TypeOK, report_sat
  <2>5. m_has_undef' \in BOOLEAN
    <3>1. m_has_undef' = (m_has_undef \/ m_models = {}) \/ m_has_undef' = m_has_undef
      BY Zenon DEF report_sat
    <3> QED  BY <3>1 DEF TypeOK
  <2> QED  BY <2>3, <2>4, <2>5
<1> QED  BY <1>1, <1>2, <1>3 DEF TypeOK, report_sat, goal, queue, caller

LEMMA report_unsatType ==
    ASSUME TypeOK, NEW w \in Workers, report_unsat(w)
    PROVE  TypeOK'
  BY SMTT(60) DEF TypeOK, report_unsat, Goto, goal, queue, report, caller, Labels, Cores

LEMMA report_undefType ==
    ASSUME TypeOK, NEW w \in Workers, report_undef(w)
    PROVE  TypeOK'
  BY SMTT(60) DEF TypeOK, report_undef, Goto, goal, queue, report, caller, Labels

LEMMA ThrowType ==
    ASSUME TypeOK, NEW w \in Workers, Throw(w)
    PROVE  TypeOK'
  BY SMTT(60) DEF TypeOK, Throw, Caught, Goto, goal, queue, report, caller, Labels

LEMMA ThrowInReportType ==
    ASSUME TypeOK, NEW w \in Workers, ThrowInReport(w)
    PROVE  TypeOK'
  BY SMTT(60) DEF TypeOK, ThrowInReport, Caught, Goto, goal, queue, caller, Labels

LEMMA TestShutdownType ==
    ASSUME TypeOK, NEW w \in Workers, TestShutdown(w)
    PROVE  TypeOK'
  BY SMTT(60) DEF TypeOK, TestShutdown, Goto, goal, queue, report, caller, Labels

LEMMA shutdownType ==
    ASSUME TypeOK, NEW w \in Workers, shutdown(w)
    PROVE  TypeOK'
  BY SMTT(60) DEF TypeOK, shutdown, Goto, goal, queue, report, caller, Labels

LEMMA SetExceptionType ==
    ASSUME TypeOK, NEW w \in Workers, SetException(w)
    PROVE  TypeOK'
  BY SMTT(60) DEF TypeOK, SetException, Goto, goal, queue, report, caller, Labels, Exn

LEMMA task_doneType ==
    ASSUME TypeOK, NEW w \in Workers, task_done(w)
    PROVE  TypeOK'
<1>1. pc' \in [Workers -> Labels]
  BY DEF TypeOK, task_done, Goto, Labels
<1>2. /\ m_shutdown' \in BOOLEAN
      /\ waitSet' \in SUBSET {v \in Workers : pc'[v] = "blocked"}
  BY DEF TypeOK, task_done, Goto
<1> QED  BY <1>1, <1>2 DEF TypeOK, task_done, goal, report, caller

LEMMA EndTaskType ==
    ASSUME TypeOK, NEW w \in Workers, EndTask(w)
    PROVE  TypeOK'
  BY EmptySequences, SMTT(60) DEF TypeOK, EndTask, Goto, goal, queue, report, caller, Labels

LEMMA solveType ==
    ASSUME TypeOK, solve
    PROVE  TypeOK'
  BY DEF TypeOK, solve, goal, queue, report

LEMMA ApplyType ==
    ASSUME TypeOK, Apply
    PROVE  TypeOK'
<1>1. m_tasks' \in Seq(Task)
  BY EmptySequences DEF Apply
<1>2. /\ base' \in SUBSET Leaves /\ kills' \in [Assumptions -> SUBSET Leaves]
      /\ m_active' = {} /\ waitSet' = {} /\ m_models' = {}
      /\ m_num_waiters' = 0
      /\ m_shutdown' = FALSE /\ interrupted' = FALSE
      /\ answer' = "none"
  BY Zenon DEF Apply
<1>3. m_branches' \in Int /\ applications' \in Nat
  BY DEF TypeOK, Apply
<1>4. pc' \in [Workers -> Labels]
  BY DEF Apply, Labels
<1>5. /\ st' \in [Workers -> Task] /\ loc' \in [Workers -> Locals]
      /\ after' \in [Workers -> {"idle", "ran", "exn"}] /\ cancel' \in [Workers -> BOOLEAN]
      /\ cancelM' \in BOOLEAN /\ m_has_undef' \in BOOLEAN
      /\ m_core' \in SUBSET Assumptions /\ m_exn_code' \in {NoExn, Exn}
  BY DEF TypeOK, Apply
<1>6. /\ m_active' \in SUBSET Workers
      /\ waitSet' \in SUBSET {w \in Workers : pc'[w] = "blocked"}
      /\ m_models' \in SUBSET Leaves
  BY <1>2
<1>7. /\ m_shutdown' \in BOOLEAN /\ interrupted' \in BOOLEAN
      /\ answer' \in {"none", "throw", "sat", "undef", "unsat"}
  BY <1>2, Zenon
<1>8. m_num_waiters' \in Int
  BY <1>2
<1> QED  BY <1>1, <1>2, <1>3, <1>4, <1>5, <1>6, <1>7, <1>8, Zenon DEF TypeOK

LEMMA InterruptType ==
    ASSUME TypeOK, Interrupt
    PROVE  TypeOK'
  BY DEF TypeOK, Interrupt, goal, queue, report

---------------------------------------------------------------------------
(* What is left open.  A step of a worker leaves the share of the others   *)
(* as it was; NoCubeLost then only depends on its own share and the queue. *)

\* Nothing of the others moves.
LocalStep(w) ==
    /\ \A v \in Workers \ {w} : pc'[v] = pc[v] /\ st'[v] = st[v] /\ loc'[v] = loc[v]
    /\ Truth' = Truth /\ answer' = answer

\* What the worker and the queue cover together, as far as it matters.
ShareKept(w) ==
    Truth \cap (TasksCover(m_tasks) \cup Open(w)) \subseteq (TasksCover(m_tasks) \cup Open(w))'

LEMMA CoverKept ==
    ASSUME NoCubeLost, NEW w \in Workers, LocalStep(w),
           Excused => Excused',
           ~Excused' => ShareKept(w)
    PROVE  NoCubeLost'
<1> SUFFICES ASSUME answer = "none", ~Excused', ~Excused
             PROVE  Truth \subseteq OpenLeaves'
  BY DEF NoCubeLost, LocalStep
<1>1. \A v \in Workers \ {w} : Open(v)' = Open(v)
  BY DEF LocalStep, Open
<1>2. Truth \subseteq TasksCover(m_tasks) \cup UNION {Open(v) : v \in Workers}
  BY DEF NoCubeLost, OpenLeaves
<1>3. ASSUME NEW l \in Truth
      PROVE  l \in OpenLeaves'
  <2>1. CASE l \in TasksCover(m_tasks) \cup Open(w)
    BY <2>1 DEF ShareKept, OpenLeaves
  <2>2. CASE \E v \in Workers \ {w} : l \in Open(v)
    BY <1>1, <2>2 DEF OpenLeaves
  <2> QED  BY <1>2, <2>1, <2>2
<1> QED  BY <1>3

---------------------------------------------------------------------------
(* One lemma per step of a worker, one step of the proof per conjunct of   *)
(* CoverInv.                                                                   *)

\* A worker announces itself, or leaves once the queue is shut down.
LEMMA EnterGetTaskInv ==
    ASSUME CoverInv, NEW w \in Workers, EnterGetTask(w)
    PROVE  CoverInv'
<1>1. TypeOK'
  BY EnterGetTaskType DEF CoverInv
<1>2. WorkerInv'
  BY DEF CoverInv, TypeOK, WorkerInv, CancelInv, EnterGetTask, Canceled, Goto, goal,
    queue, report, caller
<1>3. StopInv'
  BY DEF CoverInv, TypeOK, StopInv, CancelInv, EnterGetTask, Canceled, Goto, goal,
    queue, report, caller
<1>4. CancelInv'
  BY DEF CoverInv, TypeOK, CancelInv, StopInv, EnterGetTask, Canceled, Goto, goal,
    queue, report, caller
<1>5. ModelInv'
  BY DEF CoverInv, TypeOK, ModelInv, Truth, CancelInv, EnterGetTask, Canceled, Goto,
    goal, queue, report, caller
<1>6. ShutdownWakesAll'
  BY DEF CoverInv, TypeOK, ShutdownWakesAll, StopInv, CancelInv, EnterGetTask,
    Canceled, Goto, goal, queue, report, caller
<1>7. LocalStep(w)
  BY DEF CoverInv, TypeOK, EnterGetTask, LocalStep, Truth, Goto, goal, queue,
    report, caller
<1>8. Excused => Excused'
  BY DEF CoverInv, TypeOK, StopInv, EnterGetTask, Excused, Goto, goal, queue,
    report, caller
<1>9. ShutdownInv'
  BY DEF CoverInv, TypeOK, ShutdownInv, Excused, Truth, StopInv, CancelInv,
    EnterGetTask, Goto, goal, queue, report, caller
<1>10. NoCubeLost'
  <2>1. ~Excused' => ShareKept(w)
    BY DEF CoverInv, TypeOK, ShareKept, Open, Excused, WorkerInv, Truth, Canceled,
      EnterGetTask, Goto, goal, queue, report, caller
  <2> QED  BY <1>7, <1>8, <2>1, CoverKept DEF CoverInv
<1>11. AnswerSound'
  BY DEF CoverInv, StopInv, AnswerSound, EnterGetTask, caller
<1> QED
  BY <1>1, <1>2, <1>3, <1>4, <1>5, <1>6, <1>9, <1>10, <1>11 DEF CoverInv

\* The last task of the queue becomes the share of the worker.
LEMMA TryGetTaskInv ==
    ASSUME CoverInv, NEW w \in Workers, TryGetTask(w)
    PROVE  CoverInv'
<1>1. TypeOK'
  BY TryGetTaskType DEF CoverInv
<1>2. WorkerInv'
  BY DEF CoverInv, TypeOK, WorkerInv, CancelInv, TryGetTask, Canceled, Goto, goal,
    queue, report, caller
<1>3. StopInv'
  BY DEF CoverInv, TypeOK, StopInv, CancelInv, TryGetTask, Canceled, Goto, goal,
    queue, report, caller
<1>4. CancelInv'
  BY DEF CoverInv, TypeOK, CancelInv, StopInv, TryGetTask, Canceled, Goto, goal,
    queue, report, caller
<1>5. ModelInv'
  BY DEF CoverInv, TypeOK, ModelInv, Truth, CancelInv, TryGetTask, Canceled, Goto,
    goal, queue, report, caller
<1>6. ShutdownWakesAll'
  BY DEF CoverInv, TypeOK, ShutdownWakesAll, StopInv, CancelInv, TryGetTask,
    Canceled, Goto, goal, queue, report, caller
<1>7. LocalStep(w)
  BY DEF CoverInv, TypeOK, TryGetTask, LocalStep, Truth, Goto, goal, queue, report,
    caller
<1>8. Excused => Excused'
  BY DEF CoverInv, TypeOK, StopInv, TryGetTask, Excused, Goto, goal, queue, report,
    caller
<1>9. ShutdownInv'
  BY DEF CoverInv, TypeOK, ShutdownInv, Excused, Truth, StopInv, CancelInv,
    TryGetTask, Goto, goal, queue, report, caller
<1>10. NoCubeLost'
  <2>1. ~Excused' => ShareKept(w)
    <3>1. Open(w) = {} /\ Truth' = Truth
      BY DEF TryGetTask, Open, Truth, goal
    <3>2. CASE m_tasks = <<>>
      BY <3>1, <3>2 DEF TryGetTask, ShareKept
    <3>3. CASE m_tasks # <<>>
      <4>1. TasksCover(m_tasks) = TasksCover(Front(m_tasks)) \cup Covers(Last(m_tasks))
        BY <3>3, TasksFront DEF CoverInv, TypeOK
      <4>2. m_tasks' = Front(m_tasks) /\ Open(w)' = Covers(Last(m_tasks))
        BY <3>3 DEF CoverInv, TypeOK, TryGetTask, Open, Goto
      <4> QED  BY <3>1, <4>1, <4>2 DEF ShareKept
    <3> QED  BY <3>2, <3>3
  <2> QED  BY <1>7, <1>8, <2>1, CoverKept DEF CoverInv
<1>11. AnswerSound'
  BY DEF CoverInv, StopInv, AnswerSound, TryGetTask, caller
<1> QED
  BY <1>1, <1>2, <1>3, <1>4, <1>5, <1>6, <1>9, <1>10, <1>11 DEF CoverInv

\* Only a worker that saw no shutdown under the lock goes to sleep.
LEMMA WaitForTaskInv ==
    ASSUME CoverInv, NEW w \in Workers, WaitForTask(w)
    PROVE  CoverInv'
<1>1. TypeOK'
  BY WaitForTaskType DEF CoverInv
<1>2. WorkerInv'
  BY DEF CoverInv, TypeOK, WorkerInv, CancelInv, WaitForTask, Canceled, Goto, goal,
    queue, report, caller
<1>3. StopInv'
  BY DEF CoverInv, TypeOK, StopInv, CancelInv, WaitForTask, Canceled, Goto, goal,
    queue, report, caller
<1>4. CancelInv'
  BY DEF CoverInv, TypeOK, CancelInv, StopInv, WaitForTask, Canceled, Goto, goal,
    queue, report, caller
<1>5. ModelInv'
  BY DEF CoverInv, TypeOK, ModelInv, Truth, CancelInv, WaitForTask, Canceled, Goto,
    goal, queue, report, caller
<1>6. ShutdownWakesAll'
  BY DEF CoverInv, TypeOK, ShutdownWakesAll, StopInv, CancelInv, WaitForTask,
    Canceled, Goto, goal, queue, report, caller
<1>7. LocalStep(w)
  BY DEF CoverInv, TypeOK, WaitForTask, LocalStep, Truth, Goto, goal, queue, report,
    caller
<1>8. Excused => Excused'
  BY DEF CoverInv, TypeOK, StopInv, WaitForTask, Excused, Goto, goal, queue, report,
    caller
<1>9. ShutdownInv'
  BY DEF CoverInv, TypeOK, ShutdownInv, Excused, Truth, StopInv, CancelInv,
    WaitForTask, Goto, goal, queue, report, caller
<1>10. NoCubeLost'
  <2>1. ~Excused' => ShareKept(w)
    BY DEF CoverInv, TypeOK, ShareKept, Open, Excused, WorkerInv, Truth, Canceled,
      WaitForTask, Goto, goal, queue, report, caller
  <2> QED  BY <1>7, <1>8, <2>1, CoverKept DEF CoverInv
<1>11. AnswerSound'
  BY DEF CoverInv, StopInv, AnswerSound, WaitForTask, caller
<1> QED
  BY <1>1, <1>2, <1>3, <1>4, <1>5, <1>6, <1>9, <1>10, <1>11 DEF CoverInv

\* A notified worker goes on.
LEMMA WakeUpInv ==
    ASSUME CoverInv, NEW w \in Workers, WakeUp(w)
    PROVE  CoverInv'
<1>1. TypeOK'
  BY WakeUpType DEF CoverInv
<1>2. WorkerInv'
  BY DEF CoverInv, TypeOK, WorkerInv, CancelInv, WakeUp, Canceled, Goto, goal,
    queue, report, caller
<1>3. StopInv'
  BY DEF CoverInv, TypeOK, StopInv, CancelInv, WakeUp, Canceled, Goto, goal, queue,
    report, caller
<1>4. CancelInv'
  BY DEF CoverInv, TypeOK, CancelInv, StopInv, WakeUp, Canceled, Goto, goal, queue,
    report, caller
<1>5. ModelInv'
  BY DEF CoverInv, TypeOK, ModelInv, Truth, CancelInv, WakeUp, Canceled, Goto, goal,
    queue, report, caller
<1>6. ShutdownWakesAll'
  BY DEF CoverInv, TypeOK, ShutdownWakesAll, StopInv, CancelInv, WakeUp, Canceled,
    Goto, goal, queue, report, caller
<1>7. LocalStep(w)
  BY DEF CoverInv, TypeOK, WakeUp, LocalStep, Truth, Goto, goal, queue, report,
    caller
<1>8. Excused => Excused'
  BY DEF CoverInv, TypeOK, StopInv, WakeUp, Excused, Goto, goal, queue, report,
    caller
<1>9. ShutdownInv'
  BY DEF CoverInv, TypeOK, ShutdownInv, Excused, Truth, StopInv, CancelInv, WakeUp,
    Goto, goal, queue, report, caller
<1>10. NoCubeLost'
  <2>1. ~Excused' => ShareKept(w)
    BY DEF CoverInv, TypeOK, ShareKept, Open, Excused, WorkerInv, Truth, Canceled,
      WakeUp, Goto, goal, queue, report, caller
  <2> QED  BY <1>7, <1>8, <2>1, CoverKept DEF CoverInv
<1>11. AnswerSound'
  BY DEF CoverInv, StopInv, AnswerSound, WakeUp, caller
<1> QED
  BY <1>1, <1>2, <1>3, <1>4, <1>5, <1>6, <1>9, <1>10, <1>11 DEF CoverInv

\* A worker that wakes by itself leaves the wait set.
LEMMA SpuriousWakeUpInv ==
    ASSUME CoverInv, NEW w \in Workers, SpuriousWakeUp(w)
    PROVE  CoverInv'
<1>1. TypeOK'
  BY SpuriousWakeUpType DEF CoverInv
<1>2. WorkerInv'
  BY DEF CoverInv, TypeOK, WorkerInv, CancelInv, SpuriousWakeUp, Canceled, Goto,
    goal, queue, report, caller
<1>3. StopInv'
  BY DEF CoverInv, TypeOK, StopInv, CancelInv, SpuriousWakeUp, Canceled, Goto, goal,
    queue, report, caller
<1>4. CancelInv'
  BY DEF CoverInv, TypeOK, CancelInv, StopInv, SpuriousWakeUp, Canceled, Goto, goal,
    queue, report, caller
<1>5. ModelInv'
  BY DEF CoverInv, TypeOK, ModelInv, Truth, CancelInv, SpuriousWakeUp, Canceled,
    Goto, goal, queue, report, caller
<1>6. ShutdownWakesAll'
  BY DEF CoverInv, TypeOK, ShutdownWakesAll, StopInv, CancelInv, SpuriousWakeUp,
    Canceled, Goto, goal, queue, report, caller
<1>7. LocalStep(w)
  BY DEF CoverInv, TypeOK, SpuriousWakeUp, LocalStep, Truth, Goto, goal, queue,
    report, caller
<1>8. Excused => Excused'
  BY DEF CoverInv, TypeOK, StopInv, SpuriousWakeUp, Excused, Goto, goal, queue,
    report, caller
<1>9. ShutdownInv'
  BY DEF CoverInv, TypeOK, ShutdownInv, Excused, Truth, StopInv, CancelInv,
    SpuriousWakeUp, Goto, goal, queue, report, caller
<1>10. NoCubeLost'
  <2>1. ~Excused' => ShareKept(w)
    BY DEF CoverInv, TypeOK, ShareKept, Open, Excused, WorkerInv, Truth, Canceled,
      SpuriousWakeUp, Goto, goal, queue, report, caller
  <2> QED  BY <1>7, <1>8, <2>1, CoverKept DEF CoverInv
<1>11. AnswerSound'
  BY DEF CoverInv, StopInv, AnswerSound, SpuriousWakeUp, caller
<1> QED
  BY <1>1, <1>2, <1>3, <1>4, <1>5, <1>6, <1>9, <1>10, <1>11 DEF CoverInv

\* A worker withdraws its announcement.
LEMMA dec_waitInv ==
    ASSUME CoverInv, NEW w \in Workers, dec_wait(w)
    PROVE  CoverInv'
<1>1. TypeOK'
  BY dec_waitType DEF CoverInv
<1>2. WorkerInv'
  BY DEF CoverInv, TypeOK, WorkerInv, CancelInv, dec_wait, Canceled, Goto, goal,
    queue, report, caller
<1>3. StopInv'
  BY DEF CoverInv, TypeOK, StopInv, CancelInv, dec_wait, Canceled, Goto, goal,
    queue, report, caller
<1>4. CancelInv'
  BY DEF CoverInv, TypeOK, CancelInv, StopInv, dec_wait, Canceled, Goto, goal,
    queue, report, caller
<1>5. ModelInv'
  BY DEF CoverInv, TypeOK, ModelInv, Truth, CancelInv, dec_wait, Canceled, Goto,
    goal, queue, report, caller
<1>6. ShutdownWakesAll'
  BY DEF CoverInv, TypeOK, ShutdownWakesAll, StopInv, CancelInv, dec_wait, Canceled,
    Goto, goal, queue, report, caller
<1>7. LocalStep(w)
  BY DEF CoverInv, TypeOK, dec_wait, LocalStep, Truth, Goto, goal, queue, report,
    caller
<1>8. Excused => Excused'
  BY DEF CoverInv, TypeOK, StopInv, dec_wait, Excused, Goto, goal, queue, report,
    caller
<1>9. ShutdownInv'
  BY DEF CoverInv, TypeOK, ShutdownInv, Excused, Truth, StopInv, CancelInv,
    dec_wait, Goto, goal, queue, report, caller
<1>10. NoCubeLost'
  <2>1. ~Excused' => ShareKept(w)
    BY DEF CoverInv, TypeOK, ShareKept, Open, Excused, WorkerInv, Truth, Canceled,
      dec_wait, Goto, goal, queue, report, caller
  <2> QED  BY <1>7, <1>8, <2>1, CoverKept DEF CoverInv
<1>11. AnswerSound'
  BY DEF CoverInv, StopInv, AnswerSound, dec_wait, caller
<1> QED
  BY <1>1, <1>2, <1>3, <1>4, <1>5, <1>6, <1>9, <1>10, <1>11 DEF CoverInv

\* The cubes put back and the one asserted are all cubes of the state.
LEMMA SplitInv ==
    ASSUME CoverInv, NEW w \in Workers, Split(w)
    PROVE  CoverInv'
<1>1. TypeOK'
  BY SplitType DEF CoverInv
<1>2. WorkerInv'
  BY DEF CoverInv, TypeOK, WorkerInv, CancelInv, Split, Canceled, Goto, goal, queue,
    report, caller, add_task, NotifyOne
<1>3. StopInv'
  BY DEF CoverInv, TypeOK, StopInv, CancelInv, Split, Canceled, Goto, goal, queue,
    report, caller, add_task, NotifyOne
<1>4. CancelInv'
  BY DEF CoverInv, TypeOK, CancelInv, StopInv, Split, Canceled, Goto, goal, queue,
    report, caller, add_task, NotifyOne
<1>5. ModelInv'
  BY DEF CoverInv, TypeOK, ModelInv, Truth, CancelInv, Split, Canceled, Goto, goal,
    queue, report, caller, add_task, NotifyOne
<1>6. ShutdownWakesAll'
  BY DEF CoverInv, TypeOK, ShutdownWakesAll, StopInv, CancelInv, Split, Canceled,
    Goto, goal, queue, report, caller, add_task, NotifyOne
<1>7. LocalStep(w)
  BY DEF CoverInv, TypeOK, Split, LocalStep, Truth, Goto, goal, queue, report,
    caller, add_task, NotifyOne
<1>8. Excused => Excused'
  BY DEF CoverInv, TypeOK, StopInv, Split, Excused, Goto, goal, queue, report,
    caller, add_task, NotifyOne
<1>9. ShutdownInv'
  <2>1. m_shutdown' = m_shutdown
    BY DEF Split, queue, add_task
  <2> QED  BY <2>1, <1>7, <1>8 DEF CoverInv, ShutdownInv, LocalStep
<1>10. NoCubeLost'
  <2>1. ASSUME ~Excused'
        PROVE  ShareKept(w)
    <3> DEFINE t == st[w]
               rest == Front(t.cubes)
    <3>1. ~Canceled(w) /\ Open(w) = Covers(t) /\ t.cubes \in Seq(SUBSET Leaves)
      BY <2>1 DEF CoverInv, TypeOK, Task, Split, Excused, Open
    <3>2. CASE t.cubes = <<>>
      BY <3>1, <3>2 DEF CoverInv, TypeOK, Split, queue, ShareKept, Open, Covers, Goto
    <3>3. CASE t.cubes # <<>>
      <4>1. Open(w)' = t.space \cap Last(t.cubes)
        <5>1. pc'[w] = "simplify"
          BY <3>1 DEF CoverInv, TypeOK, Split, Goto
        <5>2. st' = [st EXCEPT ![w].cubes = rest, ![w].space = @ \cap Last(t.cubes)]
          BY <3>1, <3>3 DEF Split
        <5>3. st'[w].space = t.space \cap Last(t.cubes)
          BY <5>2 DEF CoverInv, TypeOK, Task
        <5> QED  BY <5>1, <5>3 DEF Open
      <4>2. Covers(t) = (t.space \cap Last(t.cubes)) \cup (t.space \cap Union(rest))
        BY <3>1, <3>3, UnionFront DEF Covers
      <4>3. CASE rest = <<>>
        BY <3>1, <3>3, <4>1, <4>2, <4>3, EmptySequences DEF Split, queue, ShareKept
      <4>4. CASE rest # <<>>
        <5>1. m_tasks' = Append(m_tasks, clone(t, rest))
          BY <3>1, <3>3, <4>4 DEF Split, add_task
        <5>2. clone(t, rest) \in Task /\ Covers(clone(t, rest)) = t.space \cap Union(rest)
          <6>1. t \in Task /\ rest \in Seq(SUBSET Leaves)
            BY <3>1, <3>3, LastFront DEF CoverInv, TypeOK
          <6> HIDE DEF t, rest
          <6>2. /\ clone(t, rest) \in Task
                /\ clone(t, rest).cubes = rest /\ clone(t, rest).space = t.space
            BY <6>1 DEF Task, clone
          <6> QED  BY <4>4, <6>2 DEF Covers
        <5>3. TasksCover(m_tasks)' = TasksCover(m_tasks) \cup (t.space \cap Union(rest))
          BY <5>1, <5>2, TasksAppend DEF CoverInv, TypeOK
        <5> QED  BY <3>1, <4>1, <4>2, <5>3 DEF ShareKept
      <4> QED  BY <4>3, <4>4
    <3> QED  BY <3>2, <3>3
  <2> QED  BY <1>7, <1>8, <2>1, CoverKept DEF CoverInv
<1>11. AnswerSound'
  BY DEF CoverInv, StopInv, AnswerSound, Split, caller
<1> QED
  BY <1>1, <1>2, <1>3, <1>4, <1>5, <1>6, <1>9, <1>10, <1>11 DEF CoverInv

\* A verdict is right, and an undecided space stays the share of the worker.
LEMMA SimplifyInv ==
    ASSUME CoverInv, NEW w \in Workers, Simplify(w)
    PROVE  CoverInv'
<1>1. TypeOK'
  BY SimplifyType DEF CoverInv
<1>2. WorkerInv'
  <2>1. st'[w].space = st[w].space
    BY DEF CoverInv, TypeOK, Task, Simplify
  <2>2. pc'[w] = "cube" => loc'[w].rest = st[w].space /\ Union(loc'[w].cubes) = {}
    BY EmptySequences DEF CoverInv, TypeOK, Simplify, Goto
  <2>3. pc'[w] = "cube" => loc'[w].rest \cup Union(loc'[w].cubes) \subseteq st'[w].space
    BY <2>1, <2>2
  <2>4. m_active' = m_active /\ w \in m_active
    BY DEF CoverInv, WorkerInv, Simplify, queue
  <2>5. \A v \in Workers \ {w} : pc'[v] = pc[v] /\ st'[v] = st[v] /\ loc'[v] = loc[v]
    BY DEF CoverInv, TypeOK, Simplify, Goto
  <2> QED  BY <2>3, <2>4, <2>5 DEF CoverInv, WorkerInv
<1>3. StopInv'
  BY DEF CoverInv, TypeOK, StopInv, CancelInv, Simplify, Canceled, Goto, goal,
    queue, report, caller
<1>4. CancelInv'
  BY DEF CoverInv, TypeOK, CancelInv, StopInv, Simplify, Canceled, Goto, goal,
    queue, report, caller
<1>5. ModelInv'
  BY DEF CoverInv, TypeOK, ModelInv, Truth, CancelInv, Simplify, Canceled, Goto,
    goal, queue, report, caller
<1>6. ShutdownWakesAll'
  BY DEF CoverInv, TypeOK, ShutdownWakesAll, StopInv, CancelInv, Simplify, Canceled,
    Goto, goal, queue, report, caller
<1>7. LocalStep(w)
  BY DEF CoverInv, TypeOK, Simplify, LocalStep, Truth, Goto, goal, queue, report,
    caller
<1>8. Excused => Excused'
  BY DEF CoverInv, TypeOK, StopInv, Simplify, Excused, Goto, goal, queue, report,
    caller
<1>9. ShutdownInv'
  BY DEF CoverInv, TypeOK, ShutdownInv, Excused, Truth, StopInv, CancelInv,
    Simplify, Goto, goal, queue, report, caller
<1>10. NoCubeLost'
  <2>1. ~Excused' => ShareKept(w)
    BY DEF CoverInv, TypeOK, ShareKept, Open, Excused, WorkerInv, Truth, Canceled,
      Simplify, Goto, goal, queue, report, caller
  <2> QED  BY <1>7, <1>8, <2>1, CoverKept DEF CoverInv
<1>11. AnswerSound'
  BY DEF CoverInv, StopInv, AnswerSound, Simplify, caller
<1> QED
  BY <1>1, <1>2, <1>3, <1>4, <1>5, <1>6, <1>9, <1>10, <1>11 DEF CoverInv

\* What the cuber leaves open are the cubes kept.
LEMMA EndCubesInv ==
    ASSUME CoverInv, NEW w \in Workers, EndCubes(w)
    PROVE  CoverInv'
<1>1. TypeOK'
  BY EndCubesType DEF CoverInv
<1>2. WorkerInv'
  BY DEF CoverInv, TypeOK, WorkerInv, CancelInv, EndCubes, Canceled, Goto, goal,
    queue, report, caller, LeaveLoop
<1>3. StopInv'
  BY DEF CoverInv, TypeOK, StopInv, CancelInv, EndCubes, Canceled, Goto, goal,
    queue, report, caller, LeaveLoop
<1>4. CancelInv'
  BY DEF CoverInv, TypeOK, CancelInv, StopInv, EndCubes, Canceled, Goto, goal,
    queue, report, caller, LeaveLoop
<1>5. ModelInv'
  BY DEF CoverInv, TypeOK, ModelInv, Truth, CancelInv, EndCubes, Canceled, Goto,
    goal, queue, report, caller, LeaveLoop
<1>6. ShutdownWakesAll'
  BY DEF CoverInv, TypeOK, ShutdownWakesAll, StopInv, CancelInv, EndCubes, Canceled,
    Goto, goal, queue, report, caller, LeaveLoop
<1>7. LocalStep(w)
  BY DEF CoverInv, TypeOK, EndCubes, LocalStep, Truth, Goto, goal, queue, report,
    caller, LeaveLoop
<1>8. Excused => Excused'
  BY DEF CoverInv, TypeOK, StopInv, EndCubes, Excused, Goto, goal, queue, report,
    caller, LeaveLoop
<1>9. ShutdownInv'
  BY DEF CoverInv, TypeOK, ShutdownInv, Excused, Truth, StopInv, CancelInv,
    EndCubes, Goto, goal, queue, report, caller, LeaveLoop
<1>10. NoCubeLost'
  <2>1. ASSUME ~Excused'
        PROVE  ShareKept(w)
    <3> DEFINE l == loc[w]
    <3>1. l.rest \cap Truth = {} /\ Open(w) = l.rest \cup Union(l.cubes)
      BY <2>1 DEF EndCubes, Excused, Open
    <3>2. m_tasks' = m_tasks
      BY DEF EndCubes, queue
    <3>3. CASE l.cubes = <<>>
      BY <3>1, <3>2, <3>3, EmptySequences DEF ShareKept
    <3>4. CASE l.cubes # <<>>
      <4>1. Open(w)' = st[w].space \cap Union(l.cubes)
        <5>1. pc'[w] = "split" /\ st' = [st EXCEPT ![w].cubes = l.cubes]
          BY <3>4 DEF CoverInv, TypeOK, EndCubes, LeaveLoop, Goto
        <5>2. st[w] \in Task /\ st'[w].cubes = l.cubes /\ st'[w].space = st[w].space
          BY <5>1 DEF CoverInv, TypeOK, Task
        <5> QED  BY <3>4, <5>1, <5>2 DEF Open, Covers
      <4>2. Union(l.cubes) \subseteq st[w].space
        BY DEF CoverInv, WorkerInv, EndCubes
      <4> QED  BY <3>1, <3>2, <4>1, <4>2 DEF ShareKept
    <3> QED  BY <3>3, <3>4
  <2> QED  BY <1>7, <1>8, <2>1, CoverKept DEF CoverInv
<1>11. AnswerSound'
  BY DEF CoverInv, StopInv, AnswerSound, EndCubes, caller
<1> QED
  BY <1>1, <1>2, <1>3, <1>4, <1>5, <1>6, <1>9, <1>10, <1>11 DEF CoverInv

\* The whole space is the share of the worker again.
LEMMA NoCubeInv ==
    ASSUME CoverInv, NEW w \in Workers, NoCube(w)
    PROVE  CoverInv'
<1>1. TypeOK'
  BY NoCubeType DEF CoverInv
<1>2. WorkerInv'
  BY DEF CoverInv, TypeOK, WorkerInv, CancelInv, NoCube, Canceled, Goto, goal,
    queue, report, caller
<1>3. StopInv'
  BY DEF CoverInv, TypeOK, StopInv, CancelInv, NoCube, Canceled, Goto, goal, queue,
    report, caller
<1>4. CancelInv'
  BY DEF CoverInv, TypeOK, CancelInv, StopInv, NoCube, Canceled, Goto, goal, queue,
    report, caller
<1>5. ModelInv'
  BY DEF CoverInv, TypeOK, ModelInv, Truth, CancelInv, NoCube, Canceled, Goto, goal,
    queue, report, caller
<1>6. ShutdownWakesAll'
  BY DEF CoverInv, TypeOK, ShutdownWakesAll, StopInv, CancelInv, NoCube, Canceled,
    Goto, goal, queue, report, caller
<1>7. LocalStep(w)
  BY DEF CoverInv, TypeOK, NoCube, LocalStep, Truth, Goto, goal, queue, report,
    caller
<1>8. Excused => Excused'
  BY DEF CoverInv, TypeOK, StopInv, NoCube, Excused, Goto, goal, queue, report,
    caller
<1>9. ShutdownInv'
  BY DEF CoverInv, TypeOK, ShutdownInv, Excused, Truth, StopInv, CancelInv, NoCube,
    Goto, goal, queue, report, caller
<1>10. NoCubeLost'
  <2>1. ~Excused' => ShareKept(w)
    BY DEF CoverInv, TypeOK, ShareKept, Open, Excused, WorkerInv, Truth, Canceled,
      NoCube, Goto, goal, queue, report, caller
  <2> QED  BY <1>7, <1>8, <2>1, CoverKept DEF CoverInv
<1>11. AnswerSound'
  BY DEF CoverInv, StopInv, AnswerSound, NoCube, caller
<1> QED
  BY <1>1, <1>2, <1>3, <1>4, <1>5, <1>6, <1>9, <1>10, <1>11 DEF CoverInv

\* A refuted cube holds no satisfying leaf.
LEMMA RefuteCubeInv ==
    ASSUME CoverInv, NEW w \in Workers, RefuteCube(w)
    PROVE  CoverInv'
<1>1. TypeOK'
  BY RefuteCubeType DEF CoverInv
<1>2. WorkerInv'
  BY DEF CoverInv, TypeOK, WorkerInv, CancelInv, RefuteCube, Canceled, Goto, goal,
    queue, report, caller, LeaveLoop
<1>3. StopInv'
  BY DEF CoverInv, TypeOK, StopInv, CancelInv, RefuteCube, Canceled, Goto, goal,
    queue, report, caller, LeaveLoop
<1>4. CancelInv'
  BY DEF CoverInv, TypeOK, CancelInv, StopInv, RefuteCube, Canceled, Goto, goal,
    queue, report, caller, LeaveLoop
<1>5. ModelInv'
  BY DEF CoverInv, TypeOK, ModelInv, Truth, CancelInv, RefuteCube, Canceled, Goto,
    goal, queue, report, caller, LeaveLoop
<1>6. ShutdownWakesAll'
  BY DEF CoverInv, TypeOK, ShutdownWakesAll, StopInv, CancelInv, RefuteCube,
    Canceled, Goto, goal, queue, report, caller, LeaveLoop
<1>7. LocalStep(w)
  BY DEF CoverInv, TypeOK, RefuteCube, LocalStep, Truth, Goto, goal, queue, report,
    caller, LeaveLoop
<1>8. Excused => Excused'
  BY DEF CoverInv, TypeOK, StopInv, RefuteCube, Excused, Goto, goal, queue, report,
    caller, LeaveLoop
<1>9. ShutdownInv'
  BY DEF CoverInv, TypeOK, ShutdownInv, Excused, Truth, StopInv, CancelInv,
    RefuteCube, Goto, goal, queue, report, caller, LeaveLoop
<1>10. NoCubeLost'
  <2>1. ~Excused' => ShareKept(w)
    BY DEF CoverInv, TypeOK, ShareKept, Open, Excused, WorkerInv, Truth, Canceled,
      RefuteCube, Goto, goal, queue, report, caller, LeaveLoop
  <2> QED  BY <1>7, <1>8, <2>1, CoverKept DEF CoverInv
<1>11. AnswerSound'
  BY DEF CoverInv, StopInv, AnswerSound, RefuteCube, caller
<1> QED
  BY <1>1, <1>2, <1>3, <1>4, <1>5, <1>6, <1>9, <1>10, <1>11 DEF CoverInv

\* A satisfied cube keeps the share until its model is on record.
LEMMA SatisfyCubeInv ==
    ASSUME CoverInv, NEW w \in Workers, SatisfyCube(w)
    PROVE  CoverInv'
<1>1. TypeOK'
  BY SatisfyCubeType DEF CoverInv
<1>2. WorkerInv'
  BY DEF CoverInv, TypeOK, WorkerInv, CancelInv, SatisfyCube, Canceled, Goto, goal,
    queue, report, caller
<1>3. StopInv'
  BY DEF CoverInv, TypeOK, StopInv, CancelInv, SatisfyCube, Canceled, Goto, goal,
    queue, report, caller
<1>4. CancelInv'
  BY DEF CoverInv, TypeOK, CancelInv, StopInv, SatisfyCube, Canceled, Goto, goal,
    queue, report, caller
<1>5. ModelInv'
  BY DEF CoverInv, TypeOK, ModelInv, Truth, CancelInv, SatisfyCube, Canceled, Goto,
    goal, queue, report, caller
<1>6. ShutdownWakesAll'
  BY DEF CoverInv, TypeOK, ShutdownWakesAll, StopInv, CancelInv, SatisfyCube,
    Canceled, Goto, goal, queue, report, caller
<1>7. LocalStep(w)
  BY DEF CoverInv, TypeOK, SatisfyCube, LocalStep, Truth, Goto, goal, queue, report,
    caller
<1>8. Excused => Excused'
  BY DEF CoverInv, TypeOK, StopInv, SatisfyCube, Excused, Goto, goal, queue, report,
    caller
<1>9. ShutdownInv'
  BY DEF CoverInv, TypeOK, ShutdownInv, Excused, Truth, StopInv, CancelInv,
    SatisfyCube, Goto, goal, queue, report, caller
<1>10. NoCubeLost'
  <2>1. ~Excused' => ShareKept(w)
    BY DEF CoverInv, TypeOK, ShareKept, Open, Excused, WorkerInv, Truth, Canceled,
      SatisfyCube, Goto, goal, queue, report, caller
  <2> QED  BY <1>7, <1>8, <2>1, CoverKept DEF CoverInv
<1>11. AnswerSound'
  BY DEF CoverInv, StopInv, AnswerSound, SatisfyCube, caller
<1> QED
  BY <1>1, <1>2, <1>3, <1>4, <1>5, <1>6, <1>9, <1>10, <1>11 DEF CoverInv

\* A cube is kept, or queued with its batch, as it leaves the rest.
LEMMA KeepCubeInv ==
    ASSUME CoverInv, NEW w \in Workers, KeepCube(w)
    PROVE  CoverInv'
<1> DEFINE batch(c) == Append(loc[w].cubes, c)
           spawn(c) == Len(batch(c)) >= BatchSize
<1>a. PICK c \in SUBSET loc[w].rest :
         /\ loc' = [loc EXCEPT ![w].rest = @ \ c,
                               ![w].cubes = IF spawn(c) THEN <<>> ELSE batch(c),
                               ![w].first = @ /\ ~spawn(c)]
         /\ IF spawn(c)
            THEN /\ m_branches' = m_branches + Len(batch(c))
                 /\ st' = [st EXCEPT ![w].cubes = batch(c)]
                 /\ add_task(clone(st[w], batch(c)))
            ELSE UNCHANGED <<m_branches, st, queue>>
  BY Zenon DEF KeepCube
<1>b. /\ loc[w] \in Locals /\ st[w] \in Task
      /\ loc[w].rest \cup Union(loc[w].cubes) \subseteq st[w].space
      /\ batch(c) \in Seq(SUBSET Leaves) /\ batch(c) # <<>>
      /\ Union(batch(c)) = Union(loc[w].cubes) \cup c
  BY <1>a, UnionAppend DEF CoverInv, TypeOK, WorkerInv, KeepCube, Locals
<1> HIDE DEF batch
<1>c. /\ pc' = pc /\ m_active' = m_active
      /\ loc'[w].rest = loc[w].rest \ c
      /\ loc'[w].cubes = IF spawn(c) THEN <<>> ELSE batch(c)
      /\ st'[w].space = st[w].space
      /\ \A v \in Workers \ {w} : loc'[v] = loc[v] /\ st'[v] = st[v]
  <2>1. pc' = pc /\ m_active' = m_active
    BY DEF KeepCube, add_task, queue
  <2>2. /\ loc'[w].rest = loc[w].rest \ c
        /\ loc'[w].cubes = IF spawn(c) THEN <<>> ELSE batch(c)
        /\ \A v \in Workers \ {w} : loc'[v] = loc[v]
    BY <1>a, <1>b DEF CoverInv, TypeOK, Locals
  <2>3. st'[w].space = st[w].space /\ \A v \in Workers \ {w} : st'[v] = st[v]
    BY <1>a, <1>b DEF CoverInv, TypeOK, Task
  <2> QED  BY <2>1, <2>2, <2>3
<1>1. TypeOK'
  BY KeepCubeType DEF CoverInv
<1>2. WorkerInv'
  <2>1. loc'[w].rest \cup Union(loc'[w].cubes) \subseteq st'[w].space
    BY <1>b, <1>c, EmptySequences
  <2> QED  BY <1>c, <2>1 DEF CoverInv, WorkerInv
<1>3. StopInv'
  BY DEF CoverInv, TypeOK, StopInv, CancelInv, KeepCube, Canceled, Goto, goal,
    queue, report, caller, add_task, NotifyOne
<1>4. CancelInv'
  BY DEF CoverInv, TypeOK, CancelInv, StopInv, KeepCube, Canceled, Goto, goal,
    queue, report, caller, add_task, NotifyOne
<1>5. ModelInv'
  BY DEF CoverInv, TypeOK, ModelInv, Truth, CancelInv, KeepCube, Canceled, Goto,
    goal, queue, report, caller, add_task, NotifyOne
<1>6. ShutdownWakesAll'
  BY DEF CoverInv, TypeOK, ShutdownWakesAll, StopInv, CancelInv, KeepCube, Canceled,
    Goto, goal, queue, report, caller, add_task, NotifyOne
<1>7. LocalStep(w)
  BY DEF CoverInv, TypeOK, KeepCube, LocalStep, Truth, Goto, goal, queue, report,
    caller, add_task, NotifyOne
<1>8. Excused => Excused'
  BY DEF CoverInv, TypeOK, StopInv, KeepCube, Excused, Goto, goal, queue, report,
    caller, add_task, NotifyOne
<1>9. ShutdownInv'
  <2>1. m_shutdown' = m_shutdown
    BY DEF KeepCube, queue, add_task
  <2> QED  BY <2>1, <1>7, <1>8 DEF CoverInv, ShutdownInv, LocalStep
<1>10. NoCubeLost'
  <2>1. ~Excused' => ShareKept(w)
    <3>1. pc[w] = "cube" /\ Truth' = Truth
      BY DEF KeepCube, Truth, goal
    <3>2. /\ Open(w) = loc[w].rest \cup Union(loc[w].cubes)
          /\ Open(w)' = (loc[w].rest \ c) \cup Union(IF spawn(c) THEN <<>> ELSE batch(c))
      BY <1>c, <3>1 DEF Open
    <3>3. CASE ~spawn(c)
      BY <1>a, <1>b, <3>1, <3>2, <3>3 DEF ShareKept, queue
    <3>4. CASE spawn(c)
      <4>1. m_tasks' = Append(m_tasks, clone(st[w], batch(c)))
        BY <1>a, <3>4 DEF add_task
      <4>2. /\ clone(st[w], batch(c)) \in Task
            /\ Covers(clone(st[w], batch(c))) = st[w].space \cap Union(batch(c))
        BY <1>b DEF Task, clone, Covers
      <4>3. TasksCover(m_tasks)' = TasksCover(m_tasks) \cup (st[w].space \cap Union(batch(c)))
        BY <4>1, <4>2, TasksAppend DEF CoverInv, TypeOK
      <4> QED  BY <1>b, <3>1, <3>2, <4>3 DEF ShareKept
    <3> QED  BY <3>3, <3>4
  <2> QED  BY <1>7, <1>8, <2>1, CoverKept DEF CoverInv
<1>11. AnswerSound'
  BY DEF CoverInv, StopInv, AnswerSound, KeepCube, caller
<1> QED
  BY <1>1, <1>2, <1>3, <1>4, <1>5, <1>6, <1>9, <1>10, <1>11 DEF CoverInv

\* A model, or an undecided part, is on record.
LEMMA report_satInv ==
    ASSUME CoverInv, NEW w \in Workers, report_sat(w)
    PROVE  CoverInv'
<1>1. TypeOK'
  BY report_satType DEF CoverInv
<1>2. WorkerInv'
  BY DEF CoverInv, TypeOK, WorkerInv, CancelInv, report_sat, Canceled, Goto, goal,
    queue, report, caller
<1>3. StopInv'
  BY DEF CoverInv, TypeOK, StopInv, CancelInv, report_sat, Canceled, Goto, goal,
    queue, report, caller
<1>4. CancelInv'
  BY DEF CoverInv, TypeOK, CancelInv, StopInv, report_sat, Canceled, Goto, goal,
    queue, report, caller
<1>5. ModelInv'
  BY DEF CoverInv, TypeOK, ModelInv, Truth, CancelInv, report_sat, Canceled, Goto,
    goal, queue, report, caller
<1>6. ShutdownWakesAll'
  BY DEF CoverInv, TypeOK, ShutdownWakesAll, StopInv, CancelInv, report_sat,
    Canceled, Goto, goal, queue, report, caller
<1>7. LocalStep(w)
  BY DEF CoverInv, TypeOK, report_sat, LocalStep, Truth, Goto, goal, queue, report,
    caller
<1>8. Excused => Excused'
  BY DEF CoverInv, TypeOK, StopInv, report_sat, Excused, Goto, goal, queue, report,
    caller
<1>9. ShutdownInv'
  BY DEF CoverInv, TypeOK, ShutdownInv, Excused, Truth, StopInv, CancelInv,
    report_sat, Goto, goal, queue, report, caller
<1>10. NoCubeLost'
  <2>1. Excused'
    BY DEF report_sat, Excused
  <2> QED  BY <1>7, <1>8, <2>1, CoverKept DEF CoverInv
<1>11. AnswerSound'
  BY DEF CoverInv, StopInv, AnswerSound, report_sat, caller
<1> QED
  BY <1>1, <1>2, <1>3, <1>4, <1>5, <1>6, <1>9, <1>10, <1>11 DEF CoverInv

\* A refuted state has no share.
LEMMA report_unsatInv ==
    ASSUME CoverInv, NEW w \in Workers, report_unsat(w)
    PROVE  CoverInv'
<1>1. TypeOK'
  BY report_unsatType DEF CoverInv
<1>2. WorkerInv'
  BY DEF CoverInv, TypeOK, WorkerInv, CancelInv, report_unsat, Canceled, Goto, goal,
    queue, report, caller
<1>3. StopInv'
  BY DEF CoverInv, TypeOK, StopInv, CancelInv, report_unsat, Canceled, Goto, goal,
    queue, report, caller
<1>4. CancelInv'
  BY DEF CoverInv, TypeOK, CancelInv, StopInv, report_unsat, Canceled, Goto, goal,
    queue, report, caller
<1>5. ModelInv'
  BY DEF CoverInv, TypeOK, ModelInv, Truth, CancelInv, report_unsat, Canceled, Goto,
    goal, queue, report, caller
<1>6. ShutdownWakesAll'
  BY DEF CoverInv, TypeOK, ShutdownWakesAll, StopInv, CancelInv, report_unsat,
    Canceled, Goto, goal, queue, report, caller
<1>7. LocalStep(w)
  BY DEF CoverInv, TypeOK, report_unsat, LocalStep, Truth, Goto, goal, queue,
    report, caller
<1>8. Excused => Excused'
  BY DEF CoverInv, TypeOK, StopInv, report_unsat, Excused, Goto, goal, queue,
    report, caller
<1>9. ShutdownInv'
  BY DEF CoverInv, TypeOK, ShutdownInv, Excused, Truth, StopInv, CancelInv,
    report_unsat, Goto, goal, queue, report, caller
<1>10. NoCubeLost'
  <2>1. ~Excused' => ShareKept(w)
    BY DEF CoverInv, TypeOK, ShareKept, Open, Excused, WorkerInv, Truth, Canceled,
      report_unsat, Goto, goal, queue, report, caller
  <2> QED  BY <1>7, <1>8, <2>1, CoverKept DEF CoverInv
<1>11. AnswerSound'
  BY DEF CoverInv, StopInv, AnswerSound, report_unsat, caller
<1> QED
  BY <1>1, <1>2, <1>3, <1>4, <1>5, <1>6, <1>9, <1>10, <1>11 DEF CoverInv

\* The undecided part is on record.
LEMMA report_undefInv ==
    ASSUME CoverInv, NEW w \in Workers, report_undef(w)
    PROVE  CoverInv'
<1>1. TypeOK'
  BY report_undefType DEF CoverInv
<1>2. WorkerInv'
  BY DEF CoverInv, TypeOK, WorkerInv, CancelInv, report_undef, Canceled, Goto, goal,
    queue, report, caller
<1>3. StopInv'
  BY DEF CoverInv, TypeOK, StopInv, CancelInv, report_undef, Canceled, Goto, goal,
    queue, report, caller
<1>4. CancelInv'
  BY DEF CoverInv, TypeOK, CancelInv, StopInv, report_undef, Canceled, Goto, goal,
    queue, report, caller
<1>5. ModelInv'
  BY DEF CoverInv, TypeOK, ModelInv, Truth, CancelInv, report_undef, Canceled, Goto,
    goal, queue, report, caller
<1>6. ShutdownWakesAll'
  BY DEF CoverInv, TypeOK, ShutdownWakesAll, StopInv, CancelInv, report_undef,
    Canceled, Goto, goal, queue, report, caller
<1>7. LocalStep(w)
  BY DEF CoverInv, TypeOK, report_undef, LocalStep, Truth, Goto, goal, queue,
    report, caller
<1>8. Excused => Excused'
  BY DEF CoverInv, TypeOK, StopInv, report_undef, Excused, Goto, goal, queue,
    report, caller
<1>9. ShutdownInv'
  BY DEF CoverInv, TypeOK, ShutdownInv, Excused, Truth, StopInv, CancelInv,
    report_undef, Goto, goal, queue, report, caller
<1>10. NoCubeLost'
  <2>1. ~Excused' => ShareKept(w)
    BY DEF CoverInv, TypeOK, ShareKept, Open, Excused, WorkerInv, Truth, Canceled,
      report_undef, Goto, goal, queue, report, caller
  <2> QED  BY <1>7, <1>8, <2>1, CoverKept DEF CoverInv
<1>11. AnswerSound'
  BY DEF CoverInv, StopInv, AnswerSound, report_undef, caller
<1> QED
  BY <1>1, <1>2, <1>3, <1>4, <1>5, <1>6, <1>9, <1>10, <1>11 DEF CoverInv

\* A worker leaves after a shutdown, or is about to record its exception.
LEMMA ThrowInv ==
    ASSUME CoverInv, NEW w \in Workers, Throw(w)
    PROVE  CoverInv'
<1>1. TypeOK'
  BY ThrowType DEF CoverInv
<1>2. WorkerInv'
  BY DEF CoverInv, TypeOK, WorkerInv, CancelInv, Throw, Caught, Canceled, Goto, goal, queue,
    report, caller
<1>3. StopInv'
  BY DEF CoverInv, TypeOK, StopInv, CancelInv, Throw, Caught, Canceled, Goto, goal, queue,
    report, caller
<1>4. CancelInv'
  BY DEF CoverInv, TypeOK, CancelInv, StopInv, Throw, Caught, Canceled, Goto, goal, queue,
    report, caller
<1>5. ModelInv'
  BY DEF CoverInv, TypeOK, ModelInv, Truth, CancelInv, Throw, Caught, Canceled, Goto, goal,
    queue, report, caller
<1>6. ShutdownWakesAll'
  BY DEF CoverInv, TypeOK, ShutdownWakesAll, StopInv, CancelInv, Throw, Caught, Canceled,
    Goto, goal, queue, report, caller
<1>7. LocalStep(w)
  BY DEF CoverInv, TypeOK, Throw, Caught, LocalStep, Truth, Goto, goal, queue, report,
    caller
<1>8. Excused => Excused'
  BY DEF CoverInv, TypeOK, StopInv, Throw, Caught, Excused, Goto, goal, queue, report,
    caller
<1>9. ShutdownInv'
  <2>1. m_shutdown' = m_shutdown /\ answer' = answer /\ Truth' = Truth
    BY DEF Throw, Truth, goal, queue, caller
  <2> QED  BY <1>8, <2>1 DEF CoverInv, ShutdownInv
<1>10. NoCubeLost'
  <2>1. ASSUME ~Excused'
        PROVE  ShareKept(w)
    <3>1. m_shutdown /\ ~Excused
      BY <1>8, <2>1 DEF CoverInv, TypeOK, Throw, Caught, Goto, Excused
    <3>2. answer = "none"
      BY DEF CoverInv, StopInv, Throw
    <3> QED  BY <3>1, <3>2 DEF CoverInv, ShutdownInv, ShareKept
  <2> QED  BY <1>7, <1>8, <2>1, CoverKept DEF CoverInv
<1>11. AnswerSound'
  BY DEF CoverInv, StopInv, AnswerSound, Throw, Caught, caller
<1> QED
  BY <1>1, <1>2, <1>3, <1>4, <1>5, <1>6, <1>9, <1>10, <1>11 DEF CoverInv

\* The same when it throws in a report: the exception, or the shutdown before it,
\* excuses what is not recorded.
LEMMA ThrowInReportInv ==
    ASSUME CoverInv, NEW w \in Workers, ThrowInReport(w)
    PROVE  CoverInv'
<1>1. TypeOK'
  BY ThrowInReportType DEF CoverInv
<1>2. WorkerInv'
  BY DEF CoverInv, TypeOK, WorkerInv, CancelInv, ThrowInReport, Caught, Canceled, Goto, goal, queue,
    report, caller
<1>3. StopInv'
  BY DEF CoverInv, TypeOK, StopInv, CancelInv, ThrowInReport, Caught, Canceled, Goto, goal, queue,
    report, caller
<1>4. CancelInv'
  BY DEF CoverInv, TypeOK, CancelInv, StopInv, ThrowInReport, Caught, Canceled, Goto, goal, queue,
    report, caller
<1>5. ModelInv'
  BY DEF CoverInv, TypeOK, ModelInv, Truth, CancelInv, ThrowInReport, Caught, Canceled, Goto, goal,
    queue, report, caller
<1>6. ShutdownWakesAll'
  BY DEF CoverInv, TypeOK, ShutdownWakesAll, StopInv, CancelInv, ThrowInReport, Caught, Canceled,
    Goto, goal, queue, report, caller
<1>7. LocalStep(w)
  BY DEF CoverInv, TypeOK, ThrowInReport, Caught, LocalStep, Truth, Goto, goal, queue, report,
    caller
<1>8. Excused => Excused'
  BY DEF CoverInv, TypeOK, StopInv, ThrowInReport, Caught, Excused, Goto, goal, queue, report,
    caller
<1>9. ShutdownInv'
  <2>1. m_shutdown' = m_shutdown /\ answer' = answer /\ Truth' = Truth
    BY DEF ThrowInReport, Truth, goal, queue, caller
  <2> QED  BY <1>8, <2>1 DEF CoverInv, ShutdownInv
<1>10. NoCubeLost'
  <2>1. ASSUME ~Excused'
        PROVE  ShareKept(w)
    <3>1. m_shutdown /\ ~Excused
      BY <1>8, <2>1 DEF CoverInv, TypeOK, ThrowInReport, Caught, Goto, Excused
    <3>2. answer = "none"
      BY DEF CoverInv, StopInv, ThrowInReport
    <3> QED  BY <3>1, <3>2 DEF CoverInv, ShutdownInv, ShareKept
  <2> QED  BY <1>7, <1>8, <2>1, CoverKept DEF CoverInv
<1>11. AnswerSound'
  BY DEF CoverInv, StopInv, AnswerSound, ThrowInReport, Caught, caller
<1> QED
  BY <1>1, <1>2, <1>3, <1>4, <1>5, <1>6, <1>9, <1>10, <1>11 DEF CoverInv

\* The test changes nothing.
LEMMA TestShutdownInv ==
    ASSUME CoverInv, NEW w \in Workers, TestShutdown(w)
    PROVE  CoverInv'
<1>1. TypeOK'
  BY TestShutdownType DEF CoverInv
<1>2. WorkerInv'
  BY DEF CoverInv, TypeOK, WorkerInv, CancelInv, TestShutdown, Canceled, Goto, goal,
    queue, report, caller
<1>3. StopInv'
  BY DEF CoverInv, TypeOK, StopInv, CancelInv, TestShutdown, Canceled, Goto, goal,
    queue, report, caller
<1>4. CancelInv'
  BY DEF CoverInv, TypeOK, CancelInv, StopInv, TestShutdown, Canceled, Goto, goal,
    queue, report, caller
<1>5. ModelInv'
  BY DEF CoverInv, TypeOK, ModelInv, Truth, CancelInv, TestShutdown, Canceled, Goto,
    goal, queue, report, caller
<1>6. ShutdownWakesAll'
  BY DEF CoverInv, TypeOK, ShutdownWakesAll, StopInv, CancelInv, TestShutdown,
    Canceled, Goto, goal, queue, report, caller
<1>7. LocalStep(w)
  BY DEF CoverInv, TypeOK, TestShutdown, LocalStep, Truth, Goto, goal, queue,
    report, caller
<1>8. Excused => Excused'
  BY DEF CoverInv, TypeOK, StopInv, TestShutdown, Excused, Goto, goal, queue,
    report, caller
<1>9. ShutdownInv'
  BY DEF CoverInv, TypeOK, ShutdownInv, Excused, Truth, StopInv, CancelInv,
    TestShutdown, Goto, goal, queue, report, caller
<1>10. NoCubeLost'
  <2>1. ~Excused' => ShareKept(w)
    BY DEF CoverInv, TypeOK, ShareKept, Open, Excused, WorkerInv, Truth, Canceled,
      TestShutdown, Goto, goal, queue, report, caller
  <2> QED  BY <1>7, <1>8, <2>1, CoverKept DEF CoverInv
<1>11. AnswerSound'
  BY DEF CoverInv, StopInv, AnswerSound, TestShutdown, caller
<1> QED
  BY <1>1, <1>2, <1>3, <1>4, <1>5, <1>6, <1>9, <1>10, <1>11 DEF CoverInv

\* Whoever shuts the queue down has a reason.
LEMMA shutdownInv ==
    ASSUME CoverInv, NEW w \in Workers, shutdown(w)
    PROVE  CoverInv'
<1>1. TypeOK'
  BY shutdownType DEF CoverInv
<1>2. WorkerInv'
  BY DEF CoverInv, TypeOK, WorkerInv, CancelInv, shutdown, Canceled, Goto, goal,
    queue, report, caller
<1>3. StopInv'
  BY DEF CoverInv, TypeOK, StopInv, CancelInv, shutdown, Canceled, Goto, goal,
    queue, report, caller
<1>4. CancelInv'
  BY DEF CoverInv, TypeOK, CancelInv, StopInv, shutdown, Canceled, Goto, goal,
    queue, report, caller
<1>5. ModelInv'
  BY DEF CoverInv, TypeOK, ModelInv, Truth, CancelInv, shutdown, Canceled, Goto,
    goal, queue, report, caller
<1>6. ShutdownWakesAll'
  BY DEF CoverInv, TypeOK, ShutdownWakesAll, StopInv, CancelInv, shutdown, Canceled,
    Goto, goal, queue, report, caller
<1>7. LocalStep(w)
  BY DEF CoverInv, TypeOK, shutdown, LocalStep, Truth, Goto, goal, queue, report,
    caller
<1>8. Excused => Excused'
  BY DEF CoverInv, TypeOK, StopInv, shutdown, Excused, Goto, goal, queue, report,
    caller
<1>9. ShutdownInv'
  BY DEF CoverInv, TypeOK, ShutdownInv, Excused, Truth, StopInv, CancelInv,
    shutdown, Goto, goal, queue, report, caller
<1>10. NoCubeLost'
  <2>1. ~Excused' => ShareKept(w)
    BY DEF CoverInv, TypeOK, ShareKept, Open, Excused, WorkerInv, Truth, Canceled,
      shutdown, Goto, goal, queue, report, caller
  <2> QED  BY <1>7, <1>8, <2>1, CoverKept DEF CoverInv
<1>11. AnswerSound'
  BY DEF CoverInv, StopInv, AnswerSound, shutdown, caller
<1> QED
  BY <1>1, <1>2, <1>3, <1>4, <1>5, <1>6, <1>9, <1>10, <1>11 DEF CoverInv

\* The exception is on record.
LEMMA SetExceptionInv ==
    ASSUME CoverInv, NEW w \in Workers, SetException(w)
    PROVE  CoverInv'
<1>1. TypeOK'
  BY SetExceptionType DEF CoverInv
<1>2. WorkerInv'
  BY DEF CoverInv, TypeOK, WorkerInv, CancelInv, SetException, Canceled, Goto, goal,
    queue, report, caller, Exn, NoExn
<1>3. StopInv'
  BY DEF CoverInv, TypeOK, StopInv, CancelInv, SetException, Canceled, Goto, goal,
    queue, report, caller, Exn, NoExn
<1>4. CancelInv'
  BY DEF CoverInv, TypeOK, CancelInv, StopInv, SetException, Canceled, Goto, goal,
    queue, report, caller, Exn, NoExn
<1>5. ModelInv'
  BY DEF CoverInv, TypeOK, ModelInv, Truth, CancelInv, SetException, Canceled, Goto,
    goal, queue, report, caller, Exn, NoExn
<1>6. ShutdownWakesAll'
  BY DEF CoverInv, TypeOK, ShutdownWakesAll, StopInv, CancelInv, SetException,
    Canceled, Goto, goal, queue, report, caller, Exn, NoExn
<1>7. LocalStep(w)
  BY DEF CoverInv, TypeOK, SetException, LocalStep, Truth, Goto, goal, queue,
    report, caller, Exn, NoExn
<1>8. Excused => Excused'
  BY DEF CoverInv, TypeOK, StopInv, SetException, Excused, Goto, goal, queue,
    report, caller, Exn, NoExn
<1>9. ShutdownInv'
  BY DEF CoverInv, TypeOK, ShutdownInv, Excused, Truth, StopInv, CancelInv,
    SetException, Goto, goal, queue, report, caller, Exn, NoExn
<1>10. NoCubeLost'
  <2>1. ~Excused' => ShareKept(w)
    BY DEF CoverInv, TypeOK, ShareKept, Open, Excused, WorkerInv, Truth, Canceled,
      SetException, Goto, goal, queue, report, caller, Exn, NoExn
  <2> QED  BY <1>7, <1>8, <2>1, CoverKept DEF CoverInv
<1>11. AnswerSound'
  BY DEF CoverInv, StopInv, AnswerSound, SetException, caller
<1> QED
  BY <1>1, <1>2, <1>3, <1>4, <1>5, <1>6, <1>9, <1>10, <1>11 DEF CoverInv

\* The queue is shut down when no share is left.
LEMMA task_doneInv ==
    ASSUME CoverInv, NEW w \in Workers, task_done(w)
    PROVE  CoverInv'
<1>1. TypeOK'
  BY task_doneType DEF CoverInv
<1>2. WorkerInv'
  BY DEF CoverInv, TypeOK, WorkerInv, CancelInv, task_done, Canceled, Goto, goal,
    queue, report, caller
<1>3. StopInv'
  BY DEF CoverInv, TypeOK, StopInv, CancelInv, task_done, Canceled, Goto, goal,
    queue, report, caller
<1>4. CancelInv'
  BY DEF CoverInv, TypeOK, CancelInv, StopInv, task_done, Canceled, Goto, goal,
    queue, report, caller
<1>5. ModelInv'
  BY DEF CoverInv, TypeOK, ModelInv, Truth, CancelInv, task_done, Canceled, Goto,
    goal, queue, report, caller
<1>6. ShutdownWakesAll'
  BY DEF CoverInv, TypeOK, ShutdownWakesAll, StopInv, CancelInv, task_done,
    Canceled, Goto, goal, queue, report, caller
<1>7. LocalStep(w)
  BY DEF CoverInv, TypeOK, task_done, LocalStep, Truth, Goto, goal, queue, report,
    caller
<1>8. Excused => Excused'
  BY DEF CoverInv, TypeOK, StopInv, task_done, Excused, Goto, goal, queue, report,
    caller
<1>9. ShutdownInv'
  <2>1. CASE m_tasks = <<>> /\ m_active' = {}
    <3>1. \A v \in Workers : Open(v) = {}
      BY <2>1 DEF CoverInv, WorkerInv, task_done, Open
    <3>2. OpenLeaves = {}
      BY <2>1, <3>1, EmptySequences DEF OpenLeaves
    <3> QED  BY <1>7, <1>8, <3>2 DEF CoverInv, NoCubeLost, ShutdownInv, LocalStep
  <2>2. CASE ~(m_tasks = <<>> /\ m_active' = {})
    <3>1. m_shutdown' = m_shutdown
      BY <2>2 DEF task_done
    <3> QED  BY <1>7, <1>8, <3>1 DEF CoverInv, ShutdownInv, LocalStep
  <2> QED  BY <2>1, <2>2
<1>10. NoCubeLost'
  <2>1. ~Excused' => ShareKept(w)
    BY DEF CoverInv, TypeOK, ShareKept, Open, Excused, WorkerInv, Truth, Canceled,
      task_done, Goto, goal, queue, report, caller
  <2> QED  BY <1>7, <1>8, <2>1, CoverKept DEF CoverInv
<1>11. AnswerSound'
  BY DEF CoverInv, StopInv, AnswerSound, task_done, caller
<1> QED
  BY <1>1, <1>2, <1>3, <1>4, <1>5, <1>6, <1>9, <1>10, <1>11 DEF CoverInv

\* A state whose limit is exhausted was cancelled by a shutdown or an interrupt.
LEMMA EndTaskInv ==
    ASSUME CoverInv, NEW w \in Workers, EndTask(w)
    PROVE  CoverInv'
<1>1. TypeOK'
  BY EndTaskType DEF CoverInv
<1>2. WorkerInv'
  BY DEF CoverInv, TypeOK, WorkerInv, CancelInv, EndTask, Canceled, Goto, goal,
    queue, report, caller, NoTask
<1>3. StopInv'
  BY DEF CoverInv, TypeOK, StopInv, CancelInv, EndTask, Canceled, Goto, goal, queue,
    report, caller, NoTask
<1>4. CancelInv'
  BY DEF CoverInv, TypeOK, CancelInv, StopInv, EndTask, Canceled, Goto, goal, queue,
    report, caller, NoTask
<1>5. ModelInv'
  BY DEF CoverInv, TypeOK, ModelInv, Truth, CancelInv, EndTask, Canceled, Goto,
    goal, queue, report, caller, NoTask
<1>6. ShutdownWakesAll'
  BY DEF CoverInv, TypeOK, ShutdownWakesAll, StopInv, CancelInv, EndTask, Canceled,
    Goto, goal, queue, report, caller, NoTask
<1>7. LocalStep(w)
  BY DEF CoverInv, TypeOK, EndTask, LocalStep, Truth, Goto, goal, queue, report,
    caller, NoTask
<1>8. Excused => Excused'
  BY DEF CoverInv, TypeOK, StopInv, EndTask, Excused, Goto, goal, queue, report,
    caller, NoTask
<1>9. ShutdownInv'
  BY DEF CoverInv, TypeOK, ShutdownInv, Excused, Truth, StopInv, CancelInv, EndTask,
    Goto, goal, queue, report, caller, NoTask
<1>10. NoCubeLost'
  <2>1. ~Excused' => ShareKept(w)
    BY DEF CoverInv, TypeOK, ShareKept, Open, Excused, WorkerInv, Truth, Canceled,
      EndTask, Goto, goal, queue, report, caller, NoTask
  <2> QED  BY <1>7, <1>8, <2>1, CoverKept DEF CoverInv
<1>11. AnswerSound'
  BY DEF CoverInv, StopInv, AnswerSound, EndTask, caller
<1> QED
  BY <1>1, <1>2, <1>3, <1>4, <1>5, <1>6, <1>9, <1>10, <1>11 DEF CoverInv

---------------------------------------------------------------------------
(* solve, operator() and the caller.                                       *)

\* The root state covers all leaves.
LEMMA InitInv == Init => CoverInv
<1> SUFFICES ASSUME Init PROVE CoverInv
  OBVIOUS
<1>1. TypeOK
  <2>1. m_tasks \in Seq(Task)
    BY EmptySequences DEF Init
  <2>2. /\ base \in SUBSET Leaves /\ kills \in [Assumptions -> SUBSET Leaves]
        /\ m_active = {} /\ waitSet = {} /\ m_models = {} /\ m_core = {}
        /\ m_num_waiters = 0
        /\ m_shutdown = FALSE /\ interrupted = FALSE /\ cancelM = FALSE
        /\ m_has_undef = FALSE /\ m_exn_code = NoExn
        /\ answer = "none"
    BY Zenon DEF Init
  <2>3. NoTask \in Task
    BY EmptySequences
  <2>4. /\ m_branches \in Int /\ applications \in Nat
        /\ pc \in [Workers -> Labels]
    BY ParallelAssumption DEF Init, Labels
  <2>5. loc \in [Workers -> Locals]
    BY EmptySequences DEF Init, Locals
  <2>6. st \in [Workers -> Task]
    BY <2>3 DEF Init
  <2>7. after \in [Workers -> {"idle", "ran", "exn"}] /\ cancel \in [Workers -> BOOLEAN]
    BY DEF Init
  <2>8. /\ m_active \in SUBSET Workers
        /\ waitSet \in SUBSET {w \in Workers : pc[w] = "blocked"}
        /\ m_models \in SUBSET Leaves /\ m_core \in SUBSET Assumptions
    BY <2>2
  <2>9. /\ m_shutdown \in BOOLEAN /\ interrupted \in BOOLEAN /\ cancelM \in BOOLEAN
        /\ m_has_undef \in BOOLEAN /\ m_exn_code \in {NoExn, Exn}
        /\ answer \in {"none", "throw", "sat", "undef", "unsat"}
    BY <2>2, Zenon
  <2>10. m_num_waiters \in Int
    BY <2>2
  <2> QED
    BY <2>1, <2>2, <2>4, <2>5, <2>6, <2>7, <2>8, <2>9, <2>10, Zenon DEF TypeOK
<1>2. WorkerInv /\ StopInv /\ CancelInv /\ ShutdownInv /\ ModelInv /\ ShutdownWakesAll
      /\ AnswerSound
  BY DEF Init, WorkerInv, StopInv, CancelInv, ShutdownInv, ModelInv, ShutdownWakesAll,
     AnswerSound
<1>3. NoCubeLost
  BY EmptySequences DEF Init, NoCubeLost, OpenLeaves, Truth
<1> QED  BY <1>1, <1>2, <1>3 DEF CoverInv

\* Without a record of a model, an undecided part or an exception the queue was
\* shut down because nothing was left.
LEMMA solveInv ==
    ASSUME CoverInv, Workers # {}, solve
    PROVE  CoverInv'
<1>1. TypeOK'
  BY solveType DEF CoverInv
<1>2. WorkerInv' /\ StopInv' /\ CancelInv' /\ ModelInv' /\ ShutdownWakesAll'
  BY DEF CoverInv, TypeOK, WorkerInv, StopInv, CancelInv, ModelInv, ShutdownWakesAll, Truth,
     solve, goal, queue, report
<1>3. ShutdownInv' /\ NoCubeLost'
  BY DEF ShutdownInv, NoCubeLost, solve
<1>4. AnswerSound'
  <2>1. Truth' = Truth /\ interrupted' = interrupted
    BY DEF solve, goal, Truth
  <2>2. answer' = "sat" => Truth # {}
    BY DEF CoverInv, ModelInv, solve
  <2>3. ASSUME answer' = "unsat", ~interrupted
        PROVE  Truth = {}
    <3>1. m_exn_code = NoExn /\ m_models = {} /\ ~m_has_undef
      BY <2>3 DEF solve
    <3>2. m_shutdown
      BY DEF CoverInv, StopInv, solve
    <3>3. ~Excused
      BY <2>3, <3>1 DEF Excused, solve
    <3> QED  BY <3>2, <3>3 DEF CoverInv, ShutdownInv, solve
  <2> QED  BY <2>1, <2>2, <2>3 DEF AnswerSound
<1> QED  BY <1>1, <1>2, <1>3, <1>4 DEF CoverInv

\* A new application starts with its root state and without models.
LEMMA ApplyInv ==
    ASSUME CoverInv, Apply
    PROVE  CoverInv'
<1>1. TypeOK'
  BY ApplyType DEF CoverInv
<1>2. WorkerInv' /\ StopInv' /\ CancelInv' /\ ModelInv' /\ ShutdownWakesAll'
  BY DEF CoverInv, CancelInv, WorkerInv, StopInv, ModelInv, ShutdownWakesAll, Apply
<1>3. ShutdownInv' /\ AnswerSound'
  BY DEF ShutdownInv, AnswerSound, Apply
<1>4. NoCubeLost'
  <2>1. Truth' \subseteq Leaves
    BY <1>1 DEF TypeOK, Truth
  <2>2. TasksCover(m_tasks)' = Leaves
    BY EmptySequences DEF Apply
  <2> QED  BY <2>1, <2>2 DEF NoCubeLost, OpenLeaves
<1> QED  BY <1>1, <1>2, <1>3, <1>4 DEF CoverInv

\* An interrupt is an excuse.
LEMMA InterruptInv ==
    ASSUME CoverInv, Interrupt
    PROVE  CoverInv'
<1>1. TypeOK'
  BY InterruptType DEF CoverInv
<1>2. WorkerInv' /\ StopInv' /\ CancelInv' /\ ModelInv' /\ ShutdownWakesAll'
  BY DEF CoverInv, CancelInv, WorkerInv, StopInv, ModelInv, ShutdownWakesAll, Truth, Interrupt,
     goal, queue, report
<1>3. Excused'
  BY DEF Excused, Interrupt
<1>4. ShutdownInv' /\ NoCubeLost' /\ AnswerSound'
  BY <1>3 DEF ShutdownInv, NoCubeLost, AnswerSound, Interrupt
<1> QED  BY <1>1, <1>2, <1>4 DEF CoverInv

\* Every step keeps the invariant.
LEMMA NextInv ==
    ASSUME CoverInv, Workers # {}, [Next]_vars
    PROVE  CoverInv'
<1>1. ASSUME NEW w \in Workers, Step(w) \/ SpuriousWakeUp(w)
      PROVE  CoverInv'
  <2>1. CASE GetTask(w) \/ SpuriousWakeUp(w)
    BY <2>1, EnterGetTaskInv, TryGetTaskInv, WaitForTaskInv, WakeUpInv, SpuriousWakeUpInv,
       dec_waitInv DEF GetTask
  <2>2. CASE CubeAndConquer(w)
    BY <2>2, SplitInv, SimplifyInv, EndCubesInv, NoCubeInv, RefuteCubeInv, SatisfyCubeInv,
       KeepCubeInv DEF CubeAndConquer
  <2>3. CASE Report(w)
    BY <2>3, report_satInv, report_unsatInv, report_undefInv DEF Report
  <2>4. CASE RunSolver(w)
    BY <2>4, ThrowInv, ThrowInReportInv, TestShutdownInv, shutdownInv, SetExceptionInv,
       task_doneInv, EndTaskInv DEF RunSolver
  <2> QED  BY <1>1, <2>1, <2>2, <2>3, <2>4 DEF Step
<1>2. CASE UNCHANGED vars
  BY <1>2 DEF CoverInv, TypeOK, WorkerInv, StopInv, CancelInv, ShutdownInv, ModelInv,
     ShutdownWakesAll, NoCubeLost, AnswerSound, Excused, OpenLeaves, TasksCover, Open, Covers,
     Union, Truth, vars, goal, queue, report, caller
<1> QED  BY <1>1, <1>2, solveInv, ApplyInv, InterruptInv DEF Next, Rest

---------------------------------------------------------------------------
(* Counting: a sum as the number of pairs.                                 *)

Column(b, i) == {i} \X (1..b[i])

LEMMA ColumnCount ==
    ASSUME NEW I, NEW b \in [I -> Nat], NEW i \in I
    PROVE  IsFiniteSet(Column(b, i)) /\ Cardinality(Column(b, i)) = b[i]
<1>1. PICK n \in Nat : n = b[i]
  OBVIOUS
<1>2. IsFiniteSet({i}) /\ Cardinality({i}) = 1
  BY FS_Singleton
<1>3. IsFiniteSet(1..n) /\ Cardinality(1..n) = n
  BY FS_Interval
<1>4. IsFiniteSet({i} \X (1..n)) /\ Cardinality({i} \X (1..n)) = 1 * n
  BY <1>2, <1>3, FS_Product
<1> QED  BY <1>1, <1>4 DEF Column

\* The pairs counted by a total.
LEMMA TotalFinite ==
    ASSUME NEW I, IsFiniteSet(I), NEW b \in [I -> Nat]
    PROVE  /\ IsFiniteSet(UNION {Column(b, i) : i \in I})
           /\ Total(b) = Cardinality(UNION {Column(b, i) : i \in I})
           /\ Total(b) \in Nat
<1> DEFINE S == {Column(b, i) : i \in I}
           f == [i \in I |-> Column(b, i)]
<1>1. f \in Surjection(I, S)
  BY DEF Surjection
<1>2. IsFiniteSet(S)
  <2> HIDE DEF f, S
  <2> QED  BY <1>1, FS_Surjection
<1>3. \A T \in S : IsFiniteSet(T)
  BY ColumnCount
<1>4. IsFiniteSet(UNION S)
  <2> HIDE DEF S
  <2> QED  BY <1>2, <1>3, FS_UNION
<1>5. Total(b) = Cardinality(UNION S)
  <2>1. DOMAIN b = I
    OBVIOUS
  <2> QED  BY <2>1 DEF Total, Column
<1> QED  BY <1>4, <1>5, FS_CardinalityType

\* One more addend.
LEMMA TotalExtend ==
    ASSUME NEW I, IsFiniteSet(I), NEW i, i \notin I,
           NEW b \in [I -> Nat], NEW c \in [I \cup {i} -> Nat],
           \A j \in I : c[j] = b[j]
    PROVE  Total(c) = Total(b) + c[i]
<1> DEFINE B == UNION {Column(b, j) : j \in I}
           C == UNION {Column(c, j) : j \in I \cup {i}}
<1>1. IsFiniteSet(B) /\ Total(b) = Cardinality(B) /\ Total(b) \in Nat
  BY TotalFinite
<1>2. Total(c) = Cardinality(C)
  <2>1. IsFiniteSet(I \cup {i})
    BY FS_AddElement
  <2> QED  BY <2>1, TotalFinite
<1>3. IsFiniteSet(Column(c, i)) /\ Cardinality(Column(c, i)) = c[i] /\ c[i] \in Nat
  <2>1. i \in I \cup {i}
    OBVIOUS
  <2> QED  BY <2>1, ColumnCount
<1>4. C = B \cup Column(c, i)
  BY DEF Column
<1>5. B \cap Column(c, i) = {}
  BY DEF Column
<1> HIDE DEF B, C
<1>6. Cardinality(B \cup Column(c, i)) = Cardinality(B) + Cardinality(Column(c, i))
  <2>1. Cardinality(B \cup Column(c, i))
          = Cardinality(B) + Cardinality(Column(c, i)) - Cardinality(B \cap Column(c, i))
    BY <1>1, <1>3, FS_Union
  <2>2. Cardinality(B \cap Column(c, i)) = 0
    BY <1>5, FS_EmptySet
  <2> QED  BY <1>1, <1>3, <2>1, <2>2
<1> QED  BY <1>1, <1>2, <1>3, <1>4, <1>6

\* The same for a set named otherwise.
Addends(I) == [I -> Nat]

LEMMA TotalMore ==
    ASSUME NEW I, IsFiniteSet(I), NEW D, NEW i \in D, I = D \ {i},
           NEW b, b \in Addends(I), NEW c, c \in Addends(D),
           \A j \in I : c[j] = b[j]
    PROVE  Total(c) = Total(b) + c[i]
<1>1. i \notin I /\ D = I \cup {i}
  OBVIOUS
<1>2. b \in [I -> Nat] /\ c \in [I \cup {i} -> Nat]
  BY <1>1 DEF Addends
<1> QED  BY <1>1, <1>2, TotalExtend

\* One addend changes.
LEMMA TotalChange ==
    ASSUME NEW I, IsFiniteSet(I), NEW i \in I,
           NEW b \in [I -> Nat], NEW c \in [I -> Nat],
           \A j \in I \ {i} : c[j] = b[j]
    PROVE  /\ Total(c) = Total(b) - b[i] + c[i]
           /\ Total(b) \in Nat /\ Total(c) \in Nat
<1> DEFINE J == I \ {i}
           d == [j \in J |-> b[j]]
<1>1. IsFiniteSet(J) /\ i \notin J /\ J \cup {i} = I
  BY FS_RemoveElement
<1>2. d \in [J -> Nat] /\ \A j \in J : b[j] = d[j] /\ c[j] = d[j]
  OBVIOUS
<1> HIDE DEF J, d
<1>3. b \in [J \cup {i} -> Nat] /\ c \in [J \cup {i} -> Nat]
  BY <1>1
<1>4. Total(b) = Total(d) + b[i]
  BY <1>1, <1>2, <1>3, TotalExtend
<1>5. Total(c) = Total(d) + c[i]
  BY <1>1, <1>2, <1>3, TotalExtend
<1>6. Total(b) \in Nat /\ Total(c) \in Nat /\ Total(d) \in Nat
  BY <1>1, <1>2, TotalFinite
<1> QED  BY <1>4, <1>5, <1>6

\* An empty and a one element sum.
LEMMA TotalNothing ==
    ASSUME NEW I, IsFiniteSet(I), NEW b \in [I -> {0}]
    PROVE  Total(b) = 0
<1>1. \A i \in I : Column(b, i) = {}
  BY DEF Column
<1>2. Total(b) = Cardinality(UNION {Column(b, i) : i \in I})
  BY TotalFinite
<1>3. UNION {Column(b, i) : i \in I} = {}
  BY <1>1
<1> QED  BY <1>2, <1>3, FS_EmptySet

---------------------------------------------------------------------------
(* The counters.  A step of a worker changes its own entry of each sum and *)
(* at most one end of the queue.                                           *)

Waiting == {"try", "got", "lock", "blocked", "dec"}
Leaving == {"shutdown", "cancelling", "exn", "exit"}

LEMMA OpenBranchesType ==
    ASSUME TypeOK, NEW w \in Workers
    PROVE  OpenBranches(w) \in Nat
  BY LenProperties DEF TypeOK, Task, OpenBranches, Branches

LEMMA AllOpenBranches == TypeOK => \A w \in Workers : OpenBranches(w) \in Nat
  BY OpenBranchesType

LEMMA AllOpenBranchesThen == (TypeOK => \A w \in Workers : OpenBranches(w) \in Nat)'
  BY AllOpenBranches, PTL

LEMMA BranchesType ==
    ASSUME NEW t \in Task
    PROVE  Branches(t) \in Nat
  BY LenProperties DEF Task, Branches

\* The sum over the workers changes by what one of them changes.
LEMMA WorkerShare ==
    ASSUME TypeOK, TypeOK', NEW w \in Workers, LocalStep(w)
    PROVE  /\ WorkerBranches' = WorkerBranches - OpenBranches(w) + OpenBranches(w)'
           /\ WorkerBranches \in Nat /\ WorkerBranches' \in Nat
           /\ OpenBranches(w) \in Nat /\ OpenBranches(w)' \in Nat
<1> DEFINE b == [v \in Workers |-> OpenBranches(v)]
<1>1. IsFiniteSet(Workers)
  BY ParallelAssumption
<1>2. \A v \in Workers : OpenBranches(v) \in Nat
  BY OpenBranchesType
<1>3. \A v \in Workers : OpenBranches(v)' \in Nat
  BY AllOpenBranchesThen
<1>4. \A v \in Workers \ {w} : OpenBranches(v)' = OpenBranches(v)
  BY DEF LocalStep, OpenBranches
<1>5. PICK c : c = b'
  OBVIOUS
<1>6. c \in [Workers -> Nat] /\ c[w] = OpenBranches(w)'
      /\ \A v \in Workers \ {w} : c[v] = b[v]
  BY <1>3, <1>4, <1>5
<1>7. b \in [Workers -> Nat] /\ b[w] = OpenBranches(w)
  BY <1>2
<1>8. WorkerBranches' = Total(c) /\ WorkerBranches = Total(b)
  BY <1>5 DEF WorkerBranches, Total
<1> HIDE DEF b
<1>9. Total(c) = Total(b) - b[w] + c[w] /\ Total(b) \in Nat /\ Total(c) \in Nat
  BY <1>1, <1>6, <1>7, TotalChange
<1> QED  BY <1>2, <1>3, <1>6, <1>7, <1>8, <1>9

\* The sum over a queue.
QueueTotal(q) == Total([i \in 1..Len(q) |-> Branches(q[i])])

LEMMA QueueTotalType ==
    ASSUME NEW q \in Seq(Task)
    PROVE  QueueTotal(q) \in Nat
<1>1. Len(q) \in Nat /\ \A i \in 1..Len(q) : q[i] \in Task
  BY LenProperties, ElementOfSeq
<1>2. [i \in 1..Len(q) |-> Branches(q[i])] \in [1..Len(q) -> Nat]
  BY <1>1, BranchesType
<1>3. IsFiniteSet(1..Len(q))
  BY <1>1, FS_Interval
<1> QED  BY <1>2, <1>3, TotalFinite DEF QueueTotal

\* A task more at the end.
LEMMA QueueTotalMore ==
    ASSUME NEW q \in Seq(Task), NEW r \in Seq(Task), Len(r) = Len(q) + 1,
           \A i \in 1..Len(q) : r[i] = q[i]
    PROVE  QueueTotal(r) = QueueTotal(q) + Branches(r[Len(r)])
<1>1. PICK n \in Nat : n = Len(q)
  BY LenProperties
<1>2. /\ \A i \in 1..n : q[i] \in Task
      /\ \A i \in 1..n + 1 : r[i] \in Task
  BY <1>1, ElementOfSeq
<1>3. PICK I, m : I = 1..n /\ m = n + 1
  OBVIOUS
<1>4. PICK D : D = 1..n + 1
  OBVIOUS
<1>5. m \in D /\ I = D \ {m} /\ I \subseteq D
  BY ONLY n \in Nat, <1>3, <1>4
<1>6. PICK b : b = [i \in I |-> Branches(q[i])]
  OBVIOUS
<1>7. PICK c : c = [i \in D |-> Branches(r[i])]
  OBVIOUS
<1>8. Total(c) = Total(b) + c[m]
  <2>1. IsFiniteSet(I)
    BY ONLY n \in Nat, <1>3, FS_Interval
  <2>2. b \in Addends(I) /\ c \in Addends(D)
    BY <1>2, <1>3, <1>4, <1>6, <1>7, BranchesType DEF Addends
  <2>3. \A i \in I : c[i] = b[i]
    BY <1>1, <1>3, <1>5, <1>6, <1>7
  <2> QED  BY ONLY <1>5, <2>1, <2>2, <2>3, TotalMore
<1>9. c[m] = Branches(r[m])
  BY <1>5, <1>7
<1>10. QueueTotal(q) = Total(b) /\ QueueTotal(r) = Total(c) /\ Len(r) = m
  BY <1>1, <1>3, <1>4, <1>6, <1>7 DEF QueueTotal
<1> QED  BY <1>8, <1>9, <1>10

\* A task at the end of the queue.
LEMMA QueueTotalAppend ==
    ASSUME NEW q \in Seq(Task), NEW t \in Task
    PROVE  QueueTotal(Append(q, t)) = QueueTotal(q) + Branches(t)
<1>1. PICK r \in Seq(Task) : r = Append(q, t)
  BY AppendProperties
<1>2. Len(r) = Len(q) + 1 /\ r[Len(q) + 1] = t /\ \A i \in 1..Len(q) : r[i] = q[i]
  BY <1>1, AppendProperties
<1>3. QueueTotal(r) = QueueTotal(q) + Branches(r[Len(r)])
  BY <1>2, QueueTotalMore
<1> QED  BY <1>1, <1>2, <1>3

LEMMA QueueTotalFront ==
    ASSUME NEW q \in Seq(Task), q # <<>>
    PROVE  QueueTotal(q) = QueueTotal(Front(q)) + Branches(Last(q))
<1>1. PICK r \in Seq(Task) : r = Front(q)
  BY LastFront
<1>2. Len(q) = Len(r) + 1 /\ Last(q) = q[Len(q)] /\ \A i \in 1..Len(r) : q[i] = r[i]
  BY <1>1, LastFront
<1>3. QueueTotal(q) = QueueTotal(r) + Branches(q[Len(q)])
  BY <1>2, QueueTotalMore
<1> QED  BY <1>1, <1>2, <1>3

\* How a step of a worker has to balance.
Balanced(w) ==
    /\ LocalStep(w)
    /\ applications' = applications
    /\ \A v \in Workers \ {w} : after'[v] = after[v]
    /\ applications = 1 /\ after'[w] = "exn" => pc'[w] \in Leaving
    /\ Whole' => /\ Whole
                 /\ m_branches' - QueuedBranches' - OpenBranches(w)'
                      = m_branches - QueuedBranches - OpenBranches(w)

WaitersKept(w) ==
    /\ m_num_waiters' = m_num_waiters
    /\ pc'[w] \in Waiting <=> pc[w] \in Waiting

LEMMA QueuedIsTotal == QueuedBranches = QueueTotal(m_tasks)
  BY DEF QueuedBranches, QueueTotal

LEMMA QueuedIsNat == TypeOK => QueuedBranches \in Nat
  BY QueuedIsTotal, QueueTotalType DEF TypeOK

LEMMA QueuedIsNatThen == (TypeOK => QueuedBranches \in Nat)'
  BY QueuedIsNat, PTL

LEMMA CountersKept ==
    ASSUME TypeOK, TypeOK', CountInv, NEW w \in Workers, Balanced(w), WaitersCounted'
    PROVE  CountInv'
<1>1. LeaverInv'
  BY DEF CountInv, LeaverInv, Balanced, LocalStep, Leaving
<1>2. BranchesAgree'
  <2> SUFFICES ASSUME Whole'
               PROVE  m_branches' = QueuedBranches' + WorkerBranches'
    BY DEF BranchesAgree
  <2>1. m_branches = QueuedBranches + WorkerBranches
    BY DEF CountInv, BranchesAgree, Balanced
  <2>2. m_branches' - QueuedBranches' - OpenBranches(w)'
          = m_branches - QueuedBranches - OpenBranches(w)
    BY DEF Balanced
  <2>3. /\ WorkerBranches' = WorkerBranches - OpenBranches(w) + OpenBranches(w)'
        /\ WorkerBranches \in Nat /\ WorkerBranches' \in Nat
        /\ OpenBranches(w) \in Nat /\ OpenBranches(w)' \in Nat
    BY WorkerShare DEF Balanced
  <2>4. QueuedBranches \in Nat /\ QueuedBranches' \in Nat
    BY QueuedIsNat, QueuedIsNatThen
  <2>5. m_branches' \in Int /\ m_branches \in Int
    BY DEF TypeOK
  <2> HIDE DEF CountInv, Balanced, TypeOK
  <2> QED  BY <2>1, <2>2, <2>3, <2>4, <2>5
<1> QED  BY <1>1, <1>2 DEF CountInv

LEMMA SameWaiters ==
    ASSUME TypeOK, TypeOK', CountInv, NEW w \in Workers, Balanced(w), WaitersKept(w)
    PROVE  CountInv'
<1>1. Announced' = Announced
  BY DEF Announced, Balanced, LocalStep, WaitersKept, Waiting
<1>2. WaitersCounted'
  BY <1>1 DEF CountInv, WaitersCounted, WaitersKept
<1> QED  BY <1>2, CountersKept

\* A step that leaves the queue alone.
LEMMA QueueKept ==
    ASSUME TypeOK, TypeOK', CountInv, NEW w \in Workers, LocalStep(w),
           m_tasks' = m_tasks, applications' = applications,
           \A v \in Workers \ {w} : after'[v] = after[v],
           applications = 1 /\ after'[w] = "exn" => pc'[w] \in Leaving,
           Whole' => Whole,
           Whole' => m_branches' - OpenBranches(w)' = m_branches - OpenBranches(w)
    PROVE  Balanced(w)
<1>1. QueuedBranches' = QueuedBranches
  BY DEF QueuedBranches
<1>2. /\ QueuedBranches \in Nat
      /\ OpenBranches(w) \in Nat /\ OpenBranches(w)' \in Nat
      /\ m_branches \in Int /\ m_branches' \in Int
  BY QueuedIsNat, WorkerShare DEF TypeOK
<1>3. Whole' => m_branches' - QueuedBranches' - OpenBranches(w)'
                   = m_branches - QueuedBranches - OpenBranches(w)
  BY <1>1, <1>2
<1> QED  BY <1>3 DEF Balanced

\* While the tactic is whole nobody at work is cancelled.
LEMMA WholeRuns ==
    ASSUME CoverInv, Whole, NEW w \in Workers,
           pc[w] \in {"got", "split", "simplify", "cube", "sat", "unsat", "undef",
                      "shutdown", "cancelling", "exn", "ran", "done"}
    PROVE  ~Canceled(w)
  BY DEF CoverInv, TypeOK, CancelInv, Whole, Canceled

\* get_task tests and waits: it stays announced.
LEMMA WaitForTaskCount ==
    ASSUME CoverInv, CountInv, TypeOK', NEW w \in Workers, WaitForTask(w)
    PROVE  CountInv'
<1>1. LocalStep(w)
  BY DEF CoverInv, TypeOK, LocalStep, Truth, WaitForTask, Goto, goal, queue, report, caller
<1>2. m_tasks' = m_tasks /\ applications' = applications
      /\ \A v \in Workers \ {w} : after'[v] = after[v]
  BY DEF CoverInv, TypeOK, WaitForTask, Goto, goal, queue, report, caller
<1>3. applications = 1 /\ after'[w] = "exn" => pc'[w] \in Leaving
  BY DEF CoverInv, TypeOK, CountInv, LeaverInv, Leaving, WaitForTask, Goto, goal, queue, report, caller
<1>4. Whole' => Whole
  BY DEF CoverInv, TypeOK, CountInv, LeaverInv, Whole, WaitForTask, Goto, goal, queue, report, caller
<1>5. Whole' => m_branches' - OpenBranches(w)' = m_branches - OpenBranches(w)
  BY <1>4, WholeRuns, EmptySequences
     DEF CoverInv, TypeOK, OpenBranches, Branches, WaitForTask, Goto, goal, queue, report, caller
<1>6. WaitersKept(w)
  BY DEF CoverInv, TypeOK, WaitersKept, Waiting, WaitForTask, Goto, goal, queue, report, caller
<1>7. Balanced(w)
  BY <1>1, <1>2, <1>3, <1>4, <1>5, QueueKept DEF CoverInv
<1> QED  BY <1>6, <1>7, SameWaiters DEF CoverInv

\* Waking changes no announcement.
LEMMA WakeUpCount ==
    ASSUME CoverInv, CountInv, TypeOK', NEW w \in Workers, WakeUp(w)
    PROVE  CountInv'
<1>1. LocalStep(w)
  BY DEF CoverInv, TypeOK, LocalStep, Truth, WakeUp, Goto, goal, queue, report, caller
<1>2. m_tasks' = m_tasks /\ applications' = applications
      /\ \A v \in Workers \ {w} : after'[v] = after[v]
  BY DEF CoverInv, TypeOK, WakeUp, Goto, goal, queue, report, caller
<1>3. applications = 1 /\ after'[w] = "exn" => pc'[w] \in Leaving
  BY DEF CoverInv, TypeOK, CountInv, LeaverInv, Leaving, WakeUp, Goto, goal, queue, report, caller
<1>4. Whole' => Whole
  BY DEF CoverInv, TypeOK, CountInv, LeaverInv, Whole, WakeUp, Goto, goal, queue, report, caller
<1>5. Whole' => m_branches' - OpenBranches(w)' = m_branches - OpenBranches(w)
  BY <1>4, WholeRuns, EmptySequences
     DEF CoverInv, TypeOK, OpenBranches, Branches, WakeUp, Goto, goal, queue, report, caller
<1>6. WaitersKept(w)
  BY DEF CoverInv, TypeOK, WaitersKept, Waiting, WakeUp, Goto, goal, queue, report, caller
<1>7. Balanced(w)
  BY <1>1, <1>2, <1>3, <1>4, <1>5, QueueKept DEF CoverInv
<1> QED  BY <1>6, <1>7, SameWaiters DEF CoverInv

\* Nor does waking unasked.
LEMMA SpuriousWakeUpCount ==
    ASSUME CoverInv, CountInv, TypeOK', NEW w \in Workers, SpuriousWakeUp(w)
    PROVE  CountInv'
<1>1. LocalStep(w)
  BY DEF CoverInv, TypeOK, LocalStep, Truth, SpuriousWakeUp, Goto, goal, queue, report, caller
<1>2. m_tasks' = m_tasks /\ applications' = applications
      /\ \A v \in Workers \ {w} : after'[v] = after[v]
  BY DEF CoverInv, TypeOK, SpuriousWakeUp, Goto, goal, queue, report, caller
<1>3. applications = 1 /\ after'[w] = "exn" => pc'[w] \in Leaving
  BY DEF CoverInv, TypeOK, CountInv, LeaverInv, Leaving, SpuriousWakeUp, Goto, goal, queue, report, caller
<1>4. Whole' => Whole
  BY DEF CoverInv, TypeOK, CountInv, LeaverInv, Whole, SpuriousWakeUp, Goto, goal, queue, report, caller
<1>5. Whole' => m_branches' - OpenBranches(w)' = m_branches - OpenBranches(w)
  BY <1>4, WholeRuns, EmptySequences
     DEF CoverInv, TypeOK, OpenBranches, Branches, SpuriousWakeUp, Goto, goal, queue, report, caller
<1>6. WaitersKept(w)
  BY DEF CoverInv, TypeOK, WaitersKept, Waiting, SpuriousWakeUp, Goto, goal, queue, report, caller
<1>7. Balanced(w)
  BY <1>1, <1>2, <1>3, <1>4, <1>5, QueueKept DEF CoverInv
<1> QED  BY <1>6, <1>7, SameWaiters DEF CoverInv

\* A simplified state is still one branch.
LEMMA SimplifyCount ==
    ASSUME CoverInv, CountInv, TypeOK', NEW w \in Workers, Simplify(w)
    PROVE  CountInv'
<1>1. LocalStep(w)
  BY DEF CoverInv, TypeOK, LocalStep, Truth, Simplify, Goto, goal, queue, report, caller
<1>2. m_tasks' = m_tasks /\ applications' = applications
      /\ \A v \in Workers \ {w} : after'[v] = after[v]
  BY DEF CoverInv, TypeOK, Simplify, Goto, goal, queue, report, caller
<1>3. applications = 1 /\ after'[w] = "exn" => pc'[w] \in Leaving
  BY DEF CoverInv, TypeOK, CountInv, LeaverInv, Leaving, Simplify, Goto, goal, queue, report, caller
<1>4. Whole' => Whole
  BY DEF CoverInv, TypeOK, CountInv, LeaverInv, Whole, Simplify, Goto, goal, queue, report, caller
<1>5. Whole' => m_branches' - OpenBranches(w)' = m_branches - OpenBranches(w)
  BY <1>4, WholeRuns, EmptySequences
     DEF CoverInv, TypeOK, OpenBranches, Branches, Simplify, Goto, goal, queue, report, caller
<1>6. WaitersKept(w)
  BY DEF CoverInv, TypeOK, WaitersKept, Waiting, Simplify, Goto, goal, queue, report, caller
<1>7. Balanced(w)
  BY <1>1, <1>2, <1>3, <1>4, <1>5, QueueKept DEF CoverInv
<1> QED  BY <1>6, <1>7, SameWaiters DEF CoverInv

\* However the loop ends, the branches left are counted.
LEMMA LeaveLoopCount ==
    ASSUME TypeOK, NEW w \in Workers, LeaveLoop(w)
    PROVE  m_branches' - OpenBranches(w)' = m_branches - 1
<1>1. PICK l \in Locals : l = loc[w]
  BY DEF TypeOK
<1>2. PICK n \in Nat : n = Len(l.cubes)
  BY <1>1, LenProperties DEF Locals
<1>3. PICK k \in Int : k = m_branches
  BY DEF TypeOK
<1>4. CASE l.cubes = <<>> /\ l.first
  <2>1. m_branches' = k /\ OpenBranches(w)' = 1
    BY <1>1, <1>3, <1>4 DEF TypeOK, LeaveLoop, Goto, OpenBranches
  <2> QED  BY <1>3, <2>1
<1>5. CASE l.cubes = <<>> /\ ~l.first
  <2>1. m_branches' = k - 1 /\ OpenBranches(w)' = 0
    BY <1>1, <1>3, <1>5 DEF TypeOK, LeaveLoop, Goto, OpenBranches
  <2> QED  BY <1>3, <2>1
<1>6. CASE l.cubes # <<>>
  <2>1. m_branches' = k + n - 1 /\ pc'[w] = "split" /\ st'[w].cubes = l.cubes
    BY <1>1, <1>2, <1>3, <1>6 DEF TypeOK, Task, LeaveLoop, Goto
  <2>2. OpenBranches(w)' = n
    BY <1>2, <1>6, <2>1 DEF OpenBranches, Branches
  <2> QED  BY <1>2, <1>3, <2>1, <2>2
<1> QED  BY <1>4, <1>5, <1>6

\* At the end of the loop the branch of the state is closed or split.
LEMMA EndCubesCount ==
    ASSUME CoverInv, CountInv, TypeOK', NEW w \in Workers, EndCubes(w)
    PROVE  CountInv'
<1>1. LocalStep(w)
  BY DEF CoverInv, TypeOK, LocalStep, Truth, EndCubes, LeaveLoop, Goto, goal, queue, report, caller
<1>2. m_tasks' = m_tasks /\ applications' = applications
      /\ \A v \in Workers \ {w} : after'[v] = after[v]
  BY DEF CoverInv, TypeOK, EndCubes, LeaveLoop, Goto, goal, queue, report, caller
<1>3. applications = 1 /\ after'[w] = "exn" => pc'[w] \in Leaving
  BY DEF CoverInv, TypeOK, CountInv, LeaverInv, Leaving, EndCubes, LeaveLoop, Goto, goal, queue, report, caller
<1>4. Whole' => Whole
  BY DEF CoverInv, TypeOK, CountInv, LeaverInv, Whole, EndCubes, LeaveLoop, Goto, goal, queue, report, caller
<1>5. Whole' => m_branches' - OpenBranches(w)' = m_branches - OpenBranches(w)
  <2> SUFFICES ASSUME Whole'
               PROVE  m_branches' - OpenBranches(w)' = m_branches - OpenBranches(w)
    OBVIOUS
  <2>1. OpenBranches(w) = 1 /\ m_branches \in Int
    BY DEF CoverInv, TypeOK, EndCubes, OpenBranches
  <2>2. LeaveLoop(w)
    BY DEF EndCubes
  <2>3. m_branches' - OpenBranches(w)' = m_branches - 1
    BY <2>2, LeaveLoopCount DEF CoverInv
  <2> QED  BY <2>1, <2>3
<1>6. WaitersKept(w)
  BY DEF CoverInv, TypeOK, WaitersKept, Waiting, EndCubes, LeaveLoop, Goto, goal, queue, report, caller
<1>7. Balanced(w)
  BY <1>1, <1>2, <1>3, <1>4, <1>5, QueueKept DEF CoverInv
<1> QED  BY <1>6, <1>7, SameWaiters DEF CoverInv

\* Without a cube the branch is still open.
LEMMA NoCubeCount ==
    ASSUME CoverInv, CountInv, TypeOK', NEW w \in Workers, NoCube(w)
    PROVE  CountInv'
<1>1. LocalStep(w)
  BY DEF CoverInv, TypeOK, LocalStep, Truth, NoCube, Goto, goal, queue, report, caller
<1>2. m_tasks' = m_tasks /\ applications' = applications
      /\ \A v \in Workers \ {w} : after'[v] = after[v]
  BY DEF CoverInv, TypeOK, NoCube, Goto, goal, queue, report, caller
<1>3. applications = 1 /\ after'[w] = "exn" => pc'[w] \in Leaving
  BY DEF CoverInv, TypeOK, CountInv, LeaverInv, Leaving, NoCube, Goto, goal, queue, report, caller
<1>4. Whole' => Whole
  BY DEF CoverInv, TypeOK, CountInv, LeaverInv, Whole, NoCube, Goto, goal, queue, report, caller
<1>5. Whole' => m_branches' - OpenBranches(w)' = m_branches - OpenBranches(w)
  BY <1>4, WholeRuns, EmptySequences
     DEF CoverInv, TypeOK, OpenBranches, Branches, NoCube, Goto, goal, queue, report, caller
<1>6. WaitersKept(w)
  BY DEF CoverInv, TypeOK, WaitersKept, Waiting, NoCube, Goto, goal, queue, report, caller
<1>7. Balanced(w)
  BY <1>1, <1>2, <1>3, <1>4, <1>5, QueueKept DEF CoverInv
<1> QED  BY <1>6, <1>7, SameWaiters DEF CoverInv

\* A refuted cube was no branch yet.
LEMMA RefuteCubeCount ==
    ASSUME CoverInv, CountInv, TypeOK', NEW w \in Workers, RefuteCube(w)
    PROVE  CountInv'
<1>1. LocalStep(w)
  BY DEF CoverInv, TypeOK, LocalStep, Truth, RefuteCube, LeaveLoop, Goto, goal, queue, report, caller
<1>2. m_tasks' = m_tasks /\ applications' = applications
      /\ \A v \in Workers \ {w} : after'[v] = after[v]
  BY DEF CoverInv, TypeOK, RefuteCube, LeaveLoop, Goto, goal, queue, report, caller
<1>3. applications = 1 /\ after'[w] = "exn" => pc'[w] \in Leaving
  BY DEF CoverInv, TypeOK, CountInv, LeaverInv, Leaving, RefuteCube, LeaveLoop, Goto, goal, queue, report, caller
<1>4. Whole' => Whole
  BY DEF CoverInv, TypeOK, CountInv, LeaverInv, Whole, RefuteCube, LeaveLoop, Goto, goal, queue, report, caller
<1>5. Whole' => m_branches' - OpenBranches(w)' = m_branches - OpenBranches(w)
  <2> SUFFICES ASSUME Whole'
               PROVE  m_branches' - OpenBranches(w)' = m_branches - OpenBranches(w)
    OBVIOUS
  <2>1. OpenBranches(w) = 1 /\ m_branches \in Int
    BY DEF CoverInv, TypeOK, RefuteCube, OpenBranches
  <2>2. CASE LeaveLoop(w)
    BY <2>1, <2>2, LeaveLoopCount DEF CoverInv
  <2>3. CASE UNCHANGED <<pc, st, m_branches>>
    <3>1. OpenBranches(w)' = 1
      BY <2>3 DEF RefuteCube, OpenBranches
    <3> QED  BY <2>1, <2>3, <3>1
  <2> QED  BY <2>2, <2>3 DEF RefuteCube
<1>6. WaitersKept(w)
  BY DEF CoverInv, TypeOK, WaitersKept, Waiting, RefuteCube, LeaveLoop, Goto, goal, queue, report, caller
<1>7. Balanced(w)
  BY <1>1, <1>2, <1>3, <1>4, <1>5, QueueKept DEF CoverInv
<1> QED  BY <1>6, <1>7, SameWaiters DEF CoverInv

\* The branch is closed by the report only.
LEMMA SatisfyCubeCount ==
    ASSUME CoverInv, CountInv, TypeOK', NEW w \in Workers, SatisfyCube(w)
    PROVE  CountInv'
<1>1. LocalStep(w)
  BY DEF CoverInv, TypeOK, LocalStep, Truth, SatisfyCube, Goto, goal, queue, report, caller
<1>2. m_tasks' = m_tasks /\ applications' = applications
      /\ \A v \in Workers \ {w} : after'[v] = after[v]
  BY DEF CoverInv, TypeOK, SatisfyCube, Goto, goal, queue, report, caller
<1>3. applications = 1 /\ after'[w] = "exn" => pc'[w] \in Leaving
  BY DEF CoverInv, TypeOK, CountInv, LeaverInv, Leaving, SatisfyCube, Goto, goal, queue, report, caller
<1>4. Whole' => Whole
  BY DEF CoverInv, TypeOK, CountInv, LeaverInv, Whole, SatisfyCube, Goto, goal, queue, report, caller
<1>5. Whole' => m_branches' - OpenBranches(w)' = m_branches - OpenBranches(w)
  BY <1>4, WholeRuns, EmptySequences
     DEF CoverInv, TypeOK, OpenBranches, Branches, SatisfyCube, Goto, goal, queue, report, caller
<1>6. WaitersKept(w)
  BY DEF CoverInv, TypeOK, WaitersKept, Waiting, SatisfyCube, Goto, goal, queue, report, caller
<1>7. Balanced(w)
  BY <1>1, <1>2, <1>3, <1>4, <1>5, QueueKept DEF CoverInv
<1> QED  BY <1>6, <1>7, SameWaiters DEF CoverInv

\* A report closes the branch.
LEMMA report_satCount ==
    ASSUME CoverInv, CountInv, TypeOK', NEW w \in Workers, report_sat(w)
    PROVE  CountInv'
<1>1. LocalStep(w)
  BY DEF CoverInv, TypeOK, LocalStep, Truth, report_sat, Goto, goal, queue, report, caller
<1>2. m_tasks' = m_tasks /\ applications' = applications
      /\ \A v \in Workers \ {w} : after'[v] = after[v]
  BY DEF CoverInv, TypeOK, report_sat, Goto, goal, queue, report, caller
<1>3. applications = 1 /\ after'[w] = "exn" => pc'[w] \in Leaving
  BY DEF CoverInv, TypeOK, CountInv, LeaverInv, Leaving, report_sat, Goto, goal, queue, report, caller
<1>4. Whole' => Whole
  BY DEF CoverInv, TypeOK, CountInv, LeaverInv, Whole, report_sat, Goto, goal, queue, report, caller
<1>5. Whole' => m_branches' - OpenBranches(w)' = m_branches - OpenBranches(w)
  BY <1>4, WholeRuns, EmptySequences
     DEF CoverInv, TypeOK, OpenBranches, Branches, report_sat, Goto, goal, queue, report, caller
<1>6. WaitersKept(w)
  BY DEF CoverInv, TypeOK, WaitersKept, Waiting, report_sat, Goto, goal, queue, report, caller
<1>7. Balanced(w)
  BY <1>1, <1>2, <1>3, <1>4, <1>5, QueueKept DEF CoverInv
<1> QED  BY <1>6, <1>7, SameWaiters DEF CoverInv

LEMMA report_unsatCount ==
    ASSUME CoverInv, CountInv, TypeOK', NEW w \in Workers, report_unsat(w)
    PROVE  CountInv'
<1>1. LocalStep(w)
  BY DEF CoverInv, TypeOK, LocalStep, Truth, report_unsat, Goto, goal, queue, report, caller
<1>2. m_tasks' = m_tasks /\ applications' = applications
      /\ \A v \in Workers \ {w} : after'[v] = after[v]
  BY DEF CoverInv, TypeOK, report_unsat, Goto, goal, queue, report, caller
<1>3. applications = 1 /\ after'[w] = "exn" => pc'[w] \in Leaving
  BY DEF CoverInv, TypeOK, CountInv, LeaverInv, Leaving, report_unsat, Goto, goal, queue, report, caller
<1>4. Whole' => Whole
  BY DEF CoverInv, TypeOK, CountInv, LeaverInv, Whole, report_unsat, Goto, goal, queue, report, caller
<1>5. Whole' => m_branches' - OpenBranches(w)' = m_branches - OpenBranches(w)
  BY <1>4, WholeRuns, EmptySequences
     DEF CoverInv, TypeOK, OpenBranches, Branches, report_unsat, Goto, goal, queue, report, caller
<1>6. WaitersKept(w)
  BY DEF CoverInv, TypeOK, WaitersKept, Waiting, report_unsat, Goto, goal, queue, report, caller
<1>7. Balanced(w)
  BY <1>1, <1>2, <1>3, <1>4, <1>5, QueueKept DEF CoverInv
<1> QED  BY <1>6, <1>7, SameWaiters DEF CoverInv

LEMMA report_undefCount ==
    ASSUME CoverInv, CountInv, TypeOK', NEW w \in Workers, report_undef(w)
    PROVE  CountInv'
<1>1. LocalStep(w)
  BY DEF CoverInv, TypeOK, LocalStep, Truth, report_undef, Goto, goal, queue, report, caller
<1>2. m_tasks' = m_tasks /\ applications' = applications
      /\ \A v \in Workers \ {w} : after'[v] = after[v]
  BY DEF CoverInv, TypeOK, report_undef, Goto, goal, queue, report, caller
<1>3. applications = 1 /\ after'[w] = "exn" => pc'[w] \in Leaving
  BY DEF CoverInv, TypeOK, CountInv, LeaverInv, Leaving, report_undef, Goto, goal, queue, report, caller
<1>4. Whole' => Whole
  BY DEF CoverInv, TypeOK, CountInv, LeaverInv, Whole, report_undef, Goto, goal, queue, report, caller
<1>5. Whole' => m_branches' - OpenBranches(w)' = m_branches - OpenBranches(w)
  BY <1>4, WholeRuns, EmptySequences
     DEF CoverInv, TypeOK, OpenBranches, Branches, report_undef, Goto, goal, queue, report, caller
<1>6. WaitersKept(w)
  BY DEF CoverInv, TypeOK, WaitersKept, Waiting, report_undef, Goto, goal, queue, report, caller
<1>7. Balanced(w)
  BY <1>1, <1>2, <1>3, <1>4, <1>5, QueueKept DEF CoverInv
<1> QED  BY <1>6, <1>7, SameWaiters DEF CoverInv

\* An exception cuts the counting short.
LEMMA ThrowCount ==
    ASSUME CoverInv, CountInv, TypeOK', NEW w \in Workers, Throw(w)
    PROVE  CountInv'
<1>1. LocalStep(w)
  BY DEF CoverInv, TypeOK, LocalStep, Truth, Throw, Caught, Goto, goal, queue, report, caller
<1>2. m_tasks' = m_tasks /\ applications' = applications
      /\ \A v \in Workers \ {w} : after'[v] = after[v]
  BY DEF CoverInv, TypeOK, Throw, Caught, Goto, goal, queue, report, caller
<1>3. applications = 1 /\ after'[w] = "exn" => pc'[w] \in Leaving
  BY DEF CoverInv, TypeOK, CountInv, LeaverInv, Leaving, Throw, Caught, Goto, goal, queue, report, caller
<1>4. Whole' => Whole
  BY DEF CoverInv, TypeOK, CountInv, LeaverInv, Whole, Throw, Caught, Goto, goal, queue, report, caller
<1>5. Whole' => m_branches' - OpenBranches(w)' = m_branches - OpenBranches(w)
  <2>1. ~Whole'
    BY DEF CoverInv, TypeOK, Whole, Throw, Caught, Goto, queue, caller
  <2> QED  BY <2>1
<1>6. WaitersKept(w)
  BY DEF CoverInv, TypeOK, WaitersKept, Waiting, Throw, Caught, Goto, goal, queue, report, caller
<1>7. Balanced(w)
  BY <1>1, <1>2, <1>3, <1>4, <1>5, QueueKept DEF CoverInv
<1> QED  BY <1>6, <1>7, SameWaiters DEF CoverInv

LEMMA ThrowInReportCount ==
    ASSUME CoverInv, CountInv, TypeOK', NEW w \in Workers, ThrowInReport(w)
    PROVE  CountInv'
<1>1. LocalStep(w)
  BY DEF CoverInv, TypeOK, LocalStep, Truth, ThrowInReport, Caught, Goto, goal, queue, report, caller
<1>2. m_tasks' = m_tasks /\ applications' = applications
      /\ \A v \in Workers \ {w} : after'[v] = after[v]
  BY DEF CoverInv, TypeOK, ThrowInReport, Caught, Goto, goal, queue, report, caller
<1>3. applications = 1 /\ after'[w] = "exn" => pc'[w] \in Leaving
  BY DEF CoverInv, TypeOK, CountInv, LeaverInv, Leaving, ThrowInReport, Caught, Goto, goal, queue, report, caller
<1>4. Whole' => Whole
  BY DEF CoverInv, TypeOK, CountInv, LeaverInv, Whole, ThrowInReport, Caught, Goto, goal, queue, report, caller
<1>5. Whole' => m_branches' - OpenBranches(w)' = m_branches - OpenBranches(w)
  <2>1. ~Whole'
    BY DEF CoverInv, TypeOK, Whole, ThrowInReport, Caught, Goto, queue, caller
  <2> QED  BY <2>1
<1>6. WaitersKept(w)
  BY DEF CoverInv, TypeOK, WaitersKept, Waiting, ThrowInReport, Caught, Goto, goal, queue, report, caller
<1>7. Balanced(w)
  BY <1>1, <1>2, <1>3, <1>4, <1>5, QueueKept DEF CoverInv
<1> QED  BY <1>6, <1>7, SameWaiters DEF CoverInv

LEMMA TestShutdownCount ==
    ASSUME CoverInv, CountInv, TypeOK', NEW w \in Workers, TestShutdown(w)
    PROVE  CountInv'
<1>1. LocalStep(w)
  BY DEF CoverInv, TypeOK, LocalStep, Truth, TestShutdown, Goto, goal, queue, report, caller
<1>2. m_tasks' = m_tasks /\ applications' = applications
      /\ \A v \in Workers \ {w} : after'[v] = after[v]
  BY DEF CoverInv, TypeOK, TestShutdown, Goto, goal, queue, report, caller
<1>3. applications = 1 /\ after'[w] = "exn" => pc'[w] \in Leaving
  BY DEF CoverInv, TypeOK, CountInv, LeaverInv, Leaving, TestShutdown, Goto, goal, queue, report, caller
<1>4. Whole' => Whole
  BY DEF CoverInv, TypeOK, CountInv, LeaverInv, Whole, TestShutdown, Goto, goal, queue, report, caller
<1>5. Whole' => m_branches' - OpenBranches(w)' = m_branches - OpenBranches(w)
  BY <1>4, WholeRuns, EmptySequences
     DEF CoverInv, TypeOK, OpenBranches, Branches, TestShutdown, Goto, goal, queue, report, caller
<1>6. WaitersKept(w)
  BY DEF CoverInv, TypeOK, WaitersKept, Waiting, TestShutdown, Goto, goal, queue, report, caller
<1>7. Balanced(w)
  BY <1>1, <1>2, <1>3, <1>4, <1>5, QueueKept DEF CoverInv
<1> QED  BY <1>6, <1>7, SameWaiters DEF CoverInv

LEMMA shutdownCount ==
    ASSUME CoverInv, CountInv, TypeOK', NEW w \in Workers, shutdown(w)
    PROVE  CountInv'
<1>1. LocalStep(w)
  BY DEF CoverInv, TypeOK, LocalStep, Truth, shutdown, Goto, goal, queue, report, caller
<1>2. m_tasks' = m_tasks /\ applications' = applications
      /\ \A v \in Workers \ {w} : after'[v] = after[v]
  BY DEF CoverInv, TypeOK, shutdown, Goto, goal, queue, report, caller
<1>3. applications = 1 /\ after'[w] = "exn" => pc'[w] \in Leaving
  BY DEF CoverInv, TypeOK, CountInv, LeaverInv, Leaving, shutdown, Goto, goal, queue, report, caller
<1>4. Whole' => Whole
  BY DEF CoverInv, TypeOK, CountInv, LeaverInv, Whole, shutdown, Goto, goal, queue, report, caller
<1>5. Whole' => m_branches' - OpenBranches(w)' = m_branches - OpenBranches(w)
  BY <1>4, WholeRuns, EmptySequences
     DEF CoverInv, TypeOK, OpenBranches, Branches, shutdown, Goto, goal, queue, report, caller
<1>6. WaitersKept(w)
  BY DEF CoverInv, TypeOK, WaitersKept, Waiting, shutdown, Goto, goal, queue, report, caller
<1>7. Balanced(w)
  BY <1>1, <1>2, <1>3, <1>4, <1>5, QueueKept DEF CoverInv
<1> QED  BY <1>6, <1>7, SameWaiters DEF CoverInv

LEMMA SetExceptionCount ==
    ASSUME CoverInv, CountInv, TypeOK', NEW w \in Workers, SetException(w)
    PROVE  CountInv'
<1>1. LocalStep(w)
  BY DEF CoverInv, TypeOK, LocalStep, Truth, SetException, Goto, goal, queue, report, caller, Exn, NoExn
<1>2. m_tasks' = m_tasks /\ applications' = applications
      /\ \A v \in Workers \ {w} : after'[v] = after[v]
  BY DEF CoverInv, TypeOK, SetException, Goto, goal, queue, report, caller, Exn, NoExn
<1>3. applications = 1 /\ after'[w] = "exn" => pc'[w] \in Leaving
  BY DEF CoverInv, TypeOK, CountInv, LeaverInv, Leaving, SetException, Goto, goal, queue, report, caller, Exn, NoExn
<1>4. Whole' => Whole
  BY DEF CoverInv, TypeOK, CountInv, LeaverInv, Whole, SetException, Goto, goal, queue, report, caller, Exn, NoExn
<1>5. Whole' => m_branches' - OpenBranches(w)' = m_branches - OpenBranches(w)
  BY <1>4, WholeRuns, EmptySequences
     DEF CoverInv, TypeOK, OpenBranches, Branches, SetException, Goto, goal, queue, report, caller, Exn, NoExn
<1>6. WaitersKept(w)
  BY DEF CoverInv, TypeOK, WaitersKept, Waiting, SetException, Goto, goal, queue, report, caller, Exn, NoExn
<1>7. Balanced(w)
  BY <1>1, <1>2, <1>3, <1>4, <1>5, QueueKept DEF CoverInv
<1> QED  BY <1>6, <1>7, SameWaiters DEF CoverInv

LEMMA task_doneCount ==
    ASSUME CoverInv, CountInv, TypeOK', NEW w \in Workers, task_done(w)
    PROVE  CountInv'
<1>1. LocalStep(w)
  BY DEF CoverInv, TypeOK, LocalStep, Truth, task_done, Goto, goal, queue, report, caller
<1>2. m_tasks' = m_tasks /\ applications' = applications
      /\ \A v \in Workers \ {w} : after'[v] = after[v]
  BY DEF CoverInv, TypeOK, task_done, Goto, goal, queue, report, caller
<1>3. applications = 1 /\ after'[w] = "exn" => pc'[w] \in Leaving
  BY DEF CoverInv, TypeOK, CountInv, LeaverInv, Leaving, task_done, Goto, goal, queue, report, caller
<1>4. Whole' => Whole
  BY DEF CoverInv, TypeOK, CountInv, LeaverInv, Whole, task_done, Goto, goal, queue, report, caller
<1>5. Whole' => m_branches' - OpenBranches(w)' = m_branches - OpenBranches(w)
  BY <1>4, WholeRuns, EmptySequences
     DEF CoverInv, TypeOK, OpenBranches, Branches, task_done, Goto, goal, queue, report, caller
<1>6. WaitersKept(w)
  BY DEF CoverInv, TypeOK, WaitersKept, Waiting, task_done, Goto, goal, queue, report, caller
<1>7. Balanced(w)
  BY <1>1, <1>2, <1>3, <1>4, <1>5, QueueKept DEF CoverInv
<1> QED  BY <1>6, <1>7, SameWaiters DEF CoverInv

LEMMA EndTaskCount ==
    ASSUME CoverInv, CountInv, TypeOK', NEW w \in Workers, EndTask(w)
    PROVE  CountInv'
<1>1. LocalStep(w)
  BY DEF CoverInv, TypeOK, LocalStep, Truth, EndTask, Goto, goal, queue, report, caller, NoTask
<1>2. m_tasks' = m_tasks /\ applications' = applications
      /\ \A v \in Workers \ {w} : after'[v] = after[v]
  BY DEF CoverInv, TypeOK, EndTask, Goto, goal, queue, report, caller, NoTask
<1>3. applications = 1 /\ after'[w] = "exn" => pc'[w] \in Leaving
  BY DEF CoverInv, TypeOK, CountInv, LeaverInv, Leaving, EndTask, Goto, goal, queue, report, caller, NoTask
<1>4. Whole' => Whole
  BY DEF CoverInv, TypeOK, CountInv, LeaverInv, Whole, EndTask, Goto, goal, queue, report, caller, NoTask
<1>5. Whole' => m_branches' - OpenBranches(w)' = m_branches - OpenBranches(w)
  BY <1>4, WholeRuns, EmptySequences
     DEF CoverInv, TypeOK, OpenBranches, Branches, EndTask, Goto, goal, queue, report, caller, NoTask
<1>6. WaitersKept(w)
  BY DEF CoverInv, TypeOK, WaitersKept, Waiting, EndTask, Goto, goal, queue, report, caller, NoTask
<1>7. Balanced(w)
  BY <1>1, <1>2, <1>3, <1>4, <1>5, QueueKept DEF CoverInv
<1> QED  BY <1>6, <1>7, SameWaiters DEF CoverInv

\* inc_wait counts one worker more.
LEMMA EnterGetTaskCount ==
    ASSUME CoverInv, CountInv, TypeOK', NEW w \in Workers, EnterGetTask(w)
    PROVE  CountInv'
<1>1. LocalStep(w)
  BY DEF CoverInv, TypeOK, LocalStep, Truth, EnterGetTask, Goto, goal, queue, report, caller
<1>2. applications' = applications
      /\ \A v \in Workers \ {w} : after'[v] = after[v]
  BY DEF CoverInv, TypeOK, EnterGetTask, Goto, goal, queue, report, caller
<1>3. applications = 1 /\ after'[w] = "exn" => pc'[w] \in Leaving
  BY DEF CoverInv, TypeOK, CountInv, LeaverInv, Leaving, EnterGetTask, Goto, goal, queue, report, caller
<1>4. Whole' => Whole
  BY DEF CoverInv, TypeOK, CountInv, LeaverInv, Whole, EnterGetTask, Goto, goal, queue, report, caller
<1>5. Whole' => m_branches' - OpenBranches(w)' = m_branches - OpenBranches(w)
  BY DEF CoverInv, TypeOK, OpenBranches, EnterGetTask, Goto, report
<1>6. Balanced(w)
  <2>1. m_tasks' = m_tasks
    BY DEF EnterGetTask
  <2> QED  BY <1>1, <1>2, <1>3, <1>4, <1>5, <2>1, QueueKept DEF CoverInv
<1>7. CASE m_shutdown
  <2>1. WaitersKept(w)
    BY <1>7 DEF CoverInv, TypeOK, WaitersKept, Waiting, EnterGetTask, Goto
  <2> QED  BY <1>6, <2>1, SameWaiters DEF CoverInv
<1>8. CASE ~m_shutdown
  <2>1. PICK A, n : A = Announced /\ n = m_num_waiters
    OBVIOUS
  <2>2. A \in SUBSET Workers /\ w \notin A /\ n = Cardinality(A)
    BY <2>1 DEF Announced, EnterGetTask, CountInv, WaitersCounted
  <2>3. Announced' = A \cup {w} /\ m_num_waiters' = n + 1
    BY <1>8, <2>1 DEF CoverInv, TypeOK, Announced, EnterGetTask, Goto
  <2>4. IsFiniteSet(A)
    BY <2>2, ParallelAssumption, FS_Subset
  <2>5. Cardinality(A \cup {w}) = Cardinality(A) + 1
    BY <2>2, <2>4, FS_AddElement
  <2>6. WaitersCounted'
    BY <2>2, <2>3, <2>5 DEF WaitersCounted
  <2> QED  BY <1>6, <2>6, CountersKept DEF CoverInv
<1> QED  BY <1>7, <1>8

\* dec_wait counts one worker less.
LEMMA dec_waitCount ==
    ASSUME CoverInv, CountInv, TypeOK', NEW w \in Workers, dec_wait(w)
    PROVE  CountInv'
<1>1. LocalStep(w)
  BY DEF CoverInv, TypeOK, LocalStep, Truth, dec_wait, Goto, goal, queue, report, caller
<1>2. applications' = applications
      /\ \A v \in Workers \ {w} : after'[v] = after[v]
  BY DEF CoverInv, TypeOK, dec_wait, Goto, goal, queue, report, caller
<1>3. applications = 1 /\ after'[w] = "exn" => pc'[w] \in Leaving
  BY DEF CoverInv, TypeOK, CountInv, LeaverInv, Leaving, dec_wait, Goto, goal, queue, report, caller
<1>4. Whole' => Whole
  BY DEF CoverInv, TypeOK, CountInv, LeaverInv, Whole, dec_wait, Goto, goal, queue, report, caller
<1>5. Whole' => m_branches' - OpenBranches(w)' = m_branches - OpenBranches(w)
  BY DEF CoverInv, TypeOK, OpenBranches, dec_wait, Goto, report
<1>6. Balanced(w)
  <2>1. m_tasks' = m_tasks
    BY DEF dec_wait
  <2> QED  BY <1>1, <1>2, <1>3, <1>4, <1>5, <2>1, QueueKept DEF CoverInv
<1>7. WaitersCounted'
  <2>1. PICK A, n : A = Announced /\ n = m_num_waiters
    OBVIOUS
  <2>2. A \in SUBSET Workers /\ w \in A /\ n = Cardinality(A)
    BY <2>1 DEF Announced, dec_wait, CountInv, WaitersCounted
  <2>3. Announced' = A \ {w} /\ m_num_waiters' = n - 1
    BY <2>1 DEF CoverInv, TypeOK, Announced, dec_wait, Goto
  <2>4. IsFiniteSet(A)
    BY <2>2, ParallelAssumption, FS_Subset
  <2>5. Cardinality(A \ {w}) = Cardinality(A) - 1
    BY <2>2, <2>4, FS_RemoveElement
  <2> QED  BY <2>2, <2>3, <2>5 DEF WaitersCounted
<1> QED  BY <1>6, <1>7, CountersKept DEF CoverInv

\* A task taken moves its branches from the queue to the worker.
LEMMA TryGetTaskCount ==
    ASSUME CoverInv, CountInv, TypeOK', NEW w \in Workers, TryGetTask(w)
    PROVE  CountInv'
<1>1. LocalStep(w)
  BY DEF CoverInv, TypeOK, LocalStep, Truth, TryGetTask, Goto, goal, queue, report, caller
<1>2. applications' = applications
      /\ \A v \in Workers \ {w} : after'[v] = after[v]
  BY DEF CoverInv, TypeOK, TryGetTask, Goto, goal, queue, report, caller
<1>3. applications = 1 /\ after'[w] = "exn" => pc'[w] \in Leaving
  BY DEF CoverInv, TypeOK, CountInv, LeaverInv, Leaving, TryGetTask, Goto, goal, queue, report, caller
<1>4. Whole' => Whole
  BY DEF CoverInv, TypeOK, CountInv, LeaverInv, Whole, TryGetTask, Goto, goal, queue, report, caller
<1>5. m_branches' = m_branches /\ m_branches \in Int
  BY DEF CoverInv, TypeOK, TryGetTask, report
<1>6. OpenBranches(w) = 0
  BY DEF TryGetTask, OpenBranches
<1>7. m_branches' - QueuedBranches' - OpenBranches(w)'
        = m_branches - QueuedBranches - OpenBranches(w)
  <2>1. CASE m_tasks = <<>>
    <3>1. QueuedBranches' = QueuedBranches /\ OpenBranches(w)' = 0
      BY <2>1 DEF CoverInv, TypeOK, TryGetTask, Goto, OpenBranches, QueuedBranches
    <3> QED  BY <1>5, <1>6, <3>1
  <2>2. CASE m_tasks # <<>>
    <3>1. PICK q \in Seq(Task) : q = m_tasks
      BY DEF CoverInv, TypeOK
    <3>2. m_tasks' = Front(q) /\ st'[w] = Last(q) /\ pc'[w] = "got"
      BY <2>2, <3>1 DEF CoverInv, TypeOK, TryGetTask, Goto
    <3>3. QueueTotal(q) = QueueTotal(Front(q)) + Branches(Last(q))
      BY <2>2, <3>1, QueueTotalFront
    <3>4. QueuedBranches' = QueueTotal(Front(q)) /\ QueuedBranches = QueueTotal(q)
      BY <3>1, <3>2 DEF QueuedBranches, QueueTotal
    <3>5. OpenBranches(w)' = Branches(Last(q))
      BY <3>2 DEF OpenBranches, Branches
    <3>6. Front(q) \in Seq(Task) /\ Last(q) \in Task
      BY <2>2, <3>1, LastFront
    <3>7. QueueTotal(Front(q)) \in Nat /\ Branches(Last(q)) \in Nat
      BY <3>6, QueueTotalType, BranchesType
    <3> QED  BY <1>5, <1>6, <3>3, <3>4, <3>5, <3>7
  <2> QED  BY <2>1, <2>2
<1>8. Balanced(w)
  BY <1>1, <1>2, <1>3, <1>4, <1>7 DEF Balanced
<1>9. WaitersKept(w)
  BY DEF CoverInv, TypeOK, WaitersKept, Waiting, TryGetTask, Goto
<1> QED  BY <1>8, <1>9, SameWaiters DEF CoverInv

\* cube_again: what is put back and what is asserted make up the cubes of the state.
LEMMA SplitCount ==
    ASSUME CoverInv, CountInv, TypeOK', NEW w \in Workers, Split(w)
    PROVE  CountInv'
<1>1. LocalStep(w)
  BY DEF CoverInv, TypeOK, LocalStep, Truth, Split, add_task, NotifyOne, Goto, goal, queue, report, caller
<1>2. applications' = applications
      /\ \A v \in Workers \ {w} : after'[v] = after[v]
  BY DEF CoverInv, TypeOK, Split, add_task, NotifyOne, Goto, goal, queue, report, caller
<1>3. applications = 1 /\ after'[w] = "exn" => pc'[w] \in Leaving
  BY DEF CoverInv, TypeOK, CountInv, LeaverInv, Leaving, Split, add_task, NotifyOne, Goto, goal, queue, report, caller
<1>4. Whole' => Whole
  BY DEF CoverInv, TypeOK, CountInv, LeaverInv, Whole, Split, add_task, NotifyOne, Goto, goal, queue, report, caller
<1>5. m_branches' = m_branches /\ m_branches \in Int
  BY DEF CoverInv, TypeOK, Split
<1>6. PICK q \in Seq(Task) : q = m_tasks
  BY DEF CoverInv, TypeOK
<1>7. PICK t \in Task : t = st[w]
  BY DEF CoverInv, TypeOK
<1>8. QueueTotal(q) \in Nat /\ QueuedBranches = QueueTotal(q)
  BY <1>6, QueueTotalType DEF QueuedBranches, QueueTotal
<1>9. ASSUME Whole'
      PROVE  m_branches' - QueuedBranches' - OpenBranches(w)'
               = m_branches - QueuedBranches - OpenBranches(w)
  <2>1. ~Canceled(w)
    BY <1>4, <1>9, WholeRuns DEF Split
  <2>2. OpenBranches(w) = Branches(t) /\ OpenBranches(w)' = 1
    <3>1. pc[w] = "split" /\ pc'[w] = "simplify"
      BY <2>1 DEF CoverInv, TypeOK, Split, Goto
    <3> QED  BY <1>7, <3>1 DEF OpenBranches
  <2>3. CASE t.cubes = <<>>
    <3>1. m_tasks' = m_tasks
      BY <1>7, <2>1, <2>3 DEF Split, queue
    <3> QED  BY <1>5, <2>2, <2>3, <3>1 DEF QueuedBranches, Branches
  <2>4. CASE t.cubes # <<>>
    <3>1. PICK rest \in Seq(SUBSET Leaves) :
             rest = Front(t.cubes) /\ Len(rest) = Len(t.cubes) - 1
      BY <2>4, LastFront DEF Task
    <3>2. PICK n \in Nat : n = Len(rest)
      BY LenProperties
    <3>3. Branches(t) = n + 1
      <4>1. Len(t.cubes) \in Nat
        BY LenProperties DEF Task
      <4> QED  BY <2>4, <3>1, <3>2, <4>1 DEF Branches
    <3>4. CASE rest = <<>>
      <4>1. n = 0
        BY <3>2, <3>4
      <4>2. m_tasks' = m_tasks
        BY <1>7, <2>1, <2>4, <3>1, <3>4 DEF Split, queue
      <4> QED  BY <1>5, <2>2, <3>3, <4>1, <4>2 DEF QueuedBranches
    <3>5. CASE rest # <<>>
      <4>1. PICK u \in Task : u = clone(t, rest) /\ u.cubes = rest
        <5>1. clone(t, rest) \in Task
          BY DEF Task, clone
        <5>2. clone(t, rest).cubes = rest
          BY DEF Task, clone
        <5> QED  BY <5>1, <5>2
      <4>2. m_tasks' = Append(q, u)
        BY <1>6, <1>7, <2>1, <2>4, <3>1, <3>5, <4>1 DEF Split, add_task
      <4>3. QueuedBranches' = QueueTotal(q) + Branches(u)
        <5>1. QueuedBranches' = QueueTotal(Append(q, u))
          BY <4>2 DEF QueuedBranches, QueueTotal
        <5>2. QueueTotal(Append(q, u)) = QueueTotal(q) + Branches(u)
          BY QueueTotalAppend
        <5> QED  BY <5>1, <5>2
      <4>4. Branches(u) = n
        BY <3>2, <3>5, <4>1 DEF Branches
      <4>5. PICK k \in Int, a \in Nat : k = m_branches /\ a = QueueTotal(q)
        BY <1>5, <1>8
      <4>6. /\ m_branches' = k /\ QueuedBranches' = a + n /\ OpenBranches(w)' = 1
            /\ m_branches = k /\ QueuedBranches = a /\ OpenBranches(w) = n + 1
        BY <1>5, <1>8, <2>2, <3>3, <4>3, <4>4, <4>5
      <4>7. k - (a + n) - 1 = k - a - (n + 1)
        OBVIOUS
      <4> QED  BY <4>6, <4>7
    <3> QED  BY <3>4, <3>5
  <2> QED  BY <2>3, <2>4
<1>10. Balanced(w)
  BY <1>1, <1>2, <1>3, <1>4, <1>9 DEF Balanced
<1>11. WaitersKept(w)
  BY DEF CoverInv, TypeOK, WaitersKept, Waiting, Split, Goto, queue, add_task
<1> QED  BY <1>10, <1>11, SameWaiters DEF CoverInv

\* Spawned cubes are counted when they are queued.
LEMMA KeepCubeCount ==
    ASSUME CoverInv, CountInv, TypeOK', NEW w \in Workers, KeepCube(w)
    PROVE  CountInv'
<1>1. LocalStep(w)
  BY DEF CoverInv, TypeOK, LocalStep, Truth, KeepCube, add_task, NotifyOne, Goto, goal, queue, report, caller
<1>2. applications' = applications
      /\ \A v \in Workers \ {w} : after'[v] = after[v]
  BY DEF CoverInv, TypeOK, KeepCube, add_task, NotifyOne, Goto, goal, queue, report, caller
<1>3. applications = 1 /\ after'[w] = "exn" => pc'[w] \in Leaving
  BY DEF CoverInv, TypeOK, CountInv, LeaverInv, Leaving, KeepCube, add_task, NotifyOne, Goto, goal, queue, report, caller
<1>4. Whole' => Whole
  BY DEF CoverInv, TypeOK, CountInv, LeaverInv, Whole, KeepCube, add_task, NotifyOne, Goto, goal, queue, report, caller
<1>5. PICK q \in Seq(Task) : q = m_tasks
  BY DEF CoverInv, TypeOK
<1>6. PICK t \in Task : t = st[w]
  BY DEF CoverInv, TypeOK
<1>7. PICK k \in Int : k = m_branches
  BY DEF CoverInv, TypeOK
<1>8. QueueTotal(q) \in Nat /\ QueuedBranches = QueueTotal(q)
  BY <1>5, QueueTotalType DEF QueuedBranches, QueueTotal
<1>9. OpenBranches(w) = 1 /\ OpenBranches(w)' = 1
  BY DEF KeepCube, OpenBranches
<1>10. m_branches' - QueuedBranches' = m_branches - QueuedBranches
  <2>1. PICK batch : /\ \E c \in SUBSET loc[w].rest : batch = Append(loc[w].cubes, c)
                     /\ IF Len(batch) >= BatchSize
                        THEN /\ m_branches' = m_branches + Len(batch)
                             /\ add_task(clone(st[w], batch))
                        ELSE UNCHANGED <<m_branches, queue>>
    BY DEF KeepCube
  <2>2. batch \in Seq(SUBSET Leaves) /\ batch # <<>>
    BY <2>1, UnionAppend DEF CoverInv, TypeOK, Locals
  <2>3. PICK n \in Nat : n = Len(batch)
    BY <2>2, LenProperties
  <2>4. CASE n >= BatchSize
    <3>1. PICK u \in Task : u = clone(t, batch) /\ u.cubes = batch
      <4>1. clone(t, batch) \in Task
        BY <2>2 DEF Task, clone
      <4>2. clone(t, batch).cubes = batch
        BY DEF Task, clone
      <4> QED  BY <4>1, <4>2
    <3>2. m_tasks' = Append(q, u) /\ m_branches' = k + n
      BY <1>5, <1>6, <1>7, <2>1, <2>3, <2>4, <3>1 DEF add_task
    <3>3. QueuedBranches' = QueueTotal(q) + Branches(u)
      <4>1. QueuedBranches' = QueueTotal(Append(q, u))
        BY <3>2 DEF QueuedBranches, QueueTotal
      <4>2. QueueTotal(Append(q, u)) = QueueTotal(q) + Branches(u)
        BY QueueTotalAppend
      <4> QED  BY <4>1, <4>2
    <3>4. Branches(u) = n
      BY <2>2, <2>3, <3>1 DEF Branches
    <3> QED  BY <1>7, <1>8, <3>2, <3>3, <3>4
  <2>5. CASE ~(n >= BatchSize)
    <3>1. m_tasks' = m_tasks /\ m_branches' = m_branches
      BY <2>1, <2>3, <2>5 DEF queue
    <3> QED  BY <3>1 DEF QueuedBranches
  <2> QED  BY <2>4, <2>5
<1>11. Balanced(w)
  BY <1>1, <1>2, <1>3, <1>4, <1>9, <1>10 DEF Balanced
<1>12. WaitersKept(w)
  BY DEF CoverInv, TypeOK, WaitersKept, Waiting, KeepCube, Goto, queue, add_task
<1> QED  BY <1>11, <1>12, SameWaiters DEF CoverInv

\* The root state is one branch.
LEMMA RootCount == QueueTotal(<<RootTask>>) = 1
<1>1. PICK q \in Seq(Task) : q = <<>>
  <2>1. <<>> \in Seq(Task)
    OBVIOUS
  <2> QED  BY <2>1
<1>2. PICK r \in Seq(Task) : r = <<RootTask>>
  BY EmptySequences
<1>3. QueueTotal(q) = 0
  <2>1. IsFiniteSet(1..0)
    <3>1. 1..0 = {}
      OBVIOUS
    <3> QED  BY <3>1, FS_EmptySet
  <2>2. [i \in 1..0 |-> Branches(q[i])] \in [1..0 -> {0}]
    OBVIOUS
  <2>3. Total([i \in 1..0 |-> Branches(q[i])]) = 0
    BY <2>1, <2>2, TotalNothing
  <2>4. Len(q) = 0
    BY <1>1
  <2> QED  BY <2>3, <2>4 DEF QueueTotal
<1>4. Len(r) = 1 /\ Len(q) = 0 /\ r[1] = RootTask
  BY <1>1, <1>2
<1>5. QueueTotal(r) = QueueTotal(q) + Branches(r[Len(r)])
  <2>1. Len(r) = Len(q) + 1 /\ \A i \in 1..Len(q) : r[i] = q[i]
    BY <1>4
  <2> QED  BY <2>1, QueueTotalMore
<1>6. Branches(RootTask) = 1
  BY DEF Branches, RootTask
<1> QED  BY <1>2, <1>3, <1>4, <1>5, <1>6

\* Nobody is announced at the start, and the root state is the only branch.
LEMMA InitCount == Init => CountInv
<1> SUFFICES ASSUME Init PROVE CountInv
  OBVIOUS
<1>1. IsFiniteSet(Workers)
  BY ParallelAssumption
<1>2. WaitersCounted
  <2>1. Announced = {}
    BY DEF Init, Announced
  <2> QED  BY <2>1, FS_EmptySet DEF Init, WaitersCounted
<1>3. QueuedBranches = 1
  BY QueuedIsTotal, RootCount DEF Init
<1>4. WorkerBranches = 0
  <2>1. [w \in Workers |-> OpenBranches(w)] \in [Workers -> {0}]
    BY DEF Init, OpenBranches
  <2> QED  BY <1>1, <2>1, TotalNothing DEF WorkerBranches
<1>5. BranchesAgree
  BY <1>3, <1>4 DEF Init, BranchesAgree
<1>6. LeaverInv
  BY DEF Init, LeaverInv
<1> QED  BY <1>2, <1>5, <1>6 DEF CountInv

\* solve reads the reports and moves no counter; nor does an interrupt.
LEMMA CallerCount ==
    ASSUME CoverInv, CountInv, solve \/ Interrupt \/ UNCHANGED vars
    PROVE  CountInv'
<1>1. /\ pc' = pc /\ st' = st /\ m_tasks' = m_tasks /\ after' = after
      /\ m_num_waiters' = m_num_waiters /\ m_branches' = m_branches
      /\ applications' = applications /\ m_shutdown' = m_shutdown
  BY DEF solve, Interrupt, vars, goal, queue, report, caller
<1>2. Whole' => Whole
  <2>1. interrupted' = interrupted \/ interrupted' = TRUE
    BY DEF solve, Interrupt, vars, caller
  <2> QED  BY <1>1, <2>1 DEF Whole
<1>3. WaitersCounted' /\ LeaverInv'
  BY <1>1 DEF CountInv, WaitersCounted, Announced, LeaverInv
<1>4. QueuedBranches' = QueuedBranches /\ WorkerBranches' = WorkerBranches
  BY <1>1 DEF QueuedBranches, WorkerBranches, OpenBranches
<1>5. BranchesAgree'
  BY <1>1, <1>2, <1>4 DEF CountInv, BranchesAgree
<1> QED  BY <1>3, <1>5 DEF CountInv

\* A further application starts the announcements anew; nothing is said of its
\* branches.
LEMMA ApplyCount ==
    ASSUME CoverInv, CountInv, Apply
    PROVE  CountInv'
<1>1. applications' # 0 /\ applications' # 1
  BY DEF CoverInv, TypeOK, CountInv, LeaverInv, Apply
<1>2. Announced' = {} /\ m_num_waiters' = 0
  BY DEF Apply, Announced
<1> QED
  BY <1>1, <1>2, FS_EmptySet DEF CountInv, WaitersCounted, BranchesAgree, Whole, LeaverInv

\* Every step keeps the counters right.
LEMMA NextCount ==
    ASSUME CoverInv, CountInv, TypeOK', [Next]_vars
    PROVE  CountInv'
<1>1. ASSUME NEW w \in Workers, Step(w) \/ SpuriousWakeUp(w)
      PROVE  CountInv'
  <2>1. CASE GetTask(w) \/ SpuriousWakeUp(w)
    BY <2>1, EnterGetTaskCount, TryGetTaskCount, WaitForTaskCount, WakeUpCount,
       SpuriousWakeUpCount, dec_waitCount DEF GetTask
  <2>2. CASE CubeAndConquer(w)
    BY <2>2, SplitCount, SimplifyCount, EndCubesCount, NoCubeCount, RefuteCubeCount,
       SatisfyCubeCount, KeepCubeCount DEF CubeAndConquer
  <2>3. CASE Report(w)
    BY <2>3, report_satCount, report_unsatCount, report_undefCount DEF Report
  <2>4. CASE RunSolver(w)
    BY <2>4, ThrowCount, ThrowInReportCount, TestShutdownCount, shutdownCount,
       SetExceptionCount, task_doneCount, EndTaskCount DEF RunSolver
  <2> QED  BY <1>1, <2>1, <2>2, <2>3, <2>4 DEF Step
<1> QED  BY <1>1, CallerCount, ApplyCount DEF Next, Rest

---------------------------------------------------------------------------
(* The theorems.                                                           *)

\* The inductive invariant of the parallel tactic holds whenever there is a
\* thread to run it: the cover of the search space and both counters.
THEOREM Invariance ==
    ASSUME Workers # {}
    PROVE  Spec => []IInv
<1>1. Init => IInv
  BY InitInv, InitCount DEF IInv
<1>2. IInv /\ [Next]_vars => IInv'
  <2> SUFFICES ASSUME IInv, [Next]_vars PROVE IInv'
    OBVIOUS
  <2>1. CoverInv'
    BY NextInv DEF IInv
  <2>2. CountInv'
    BY <2>1, NextCount DEF IInv, CoverInv
  <2> QED  BY <2>1, <2>2 DEF IInv
<1> QED  BY <1>1, <1>2, PTL DEF Spec

\* The variables of the task queue, the workers and solve() keep their types.
THEOREM TypeCorrect ==
    ASSUME Workers # {}
    PROVE  Spec => []TypeOK
<1>1. IInv => TypeOK
  BY DEF IInv, CoverInv
<1> QED  BY <1>1, Invariance, PTL

\* Between the queue and the workers no cube is lost: cube_and_conquer queues
\* the clone before its own share shrinks.
THEOREM NoCubeIsLost ==
    ASSUME Workers # {}
    PROVE  Spec => []NoCubeLost
<1>1. IInv => NoCubeLost
  BY DEF IInv, CoverInv
<1> QED  BY <1>1, Invariance, PTL

\* The answer of an application that is not interrupted is right: solve() says
\* unsat only of a goal without a satisfying leaf.
THEOREM AnswersAreSound ==
    ASSUME Workers # {}
    PROVE  Spec => []AnswerSound
<1>1. IInv => AnswerSound
  BY DEF IInv, CoverInv
<1> QED  BY <1>1, Invariance, PTL

\* Nobody sleeps on the condition of the queue once it is shut down.
THEOREM ShutdownLeavesNoSleeper ==
    ASSUME Workers # {}
    PROVE  Spec => []ShutdownWakesAll
<1>1. IInv => ShutdownWakesAll
  BY DEF IInv, CoverInv
<1> QED  BY <1>1, Invariance, PTL

\* m_num_waiters, read by add_task, is the number of workers between inc_wait
\* and dec_wait, however they get there.
THEOREM WaitersAreCounted ==
    ASSUME Workers # {}
    PROVE  Spec => []WaitersCounted
<1>1. IInv => WaitersCounted
  BY DEF IInv, CountInv
<1> QED  BY <1>1, Invariance, PTL

\* m_branches is the number of open branches, queued and in work, for any
\* number of workers and any way of splitting, until something is cut short.
THEOREM BranchesAreCounted ==
    ASSUME Workers # {}
    PROVE  Spec => []BranchesAgree
<1>1. IInv => BranchesAgree
  BY DEF IInv, CountInv
<1> QED  BY <1>1, Invariance, PTL

\* The body of shutdown() is left by shutdown() only.
LEMMA OnlyShutdownLeaves ==
    ASSUME TypeOK, NEW w \in Workers, Step(w) \/ SpuriousWakeUp(w), ~shutdown(w)
    PROVE  /\ \A v \in Workers : pc[v] = "cancelling" => pc'[v] = "cancelling"
           /\ ~m_shutdown /\ m_shutdown' => task_done(w)
<1> SUFFICES pc[w] # "cancelling" /\ (\E l : Goto(w, l) \/ UNCHANGED pc)
                 /\ (~m_shutdown /\ m_shutdown' => task_done(w))
  BY DEF TypeOK, Goto
<1>1. CASE GetTask(w) \/ SpuriousWakeUp(w)
  BY <1>1 DEF GetTask, EnterGetTask, TryGetTask, WaitForTask, WakeUp, dec_wait,
              SpuriousWakeUp, queue
<1>2. CASE CubeAndConquer(w)
  <2>1. CASE Split(w)
    BY <2>1 DEF Split, add_task, queue
  <2>2. CASE KeepCube(w)
    BY <2>2 DEF KeepCube, add_task, queue
  <2>3. CASE Simplify(w) \/ NoCube(w) \/ SatisfyCube(w)
    BY <2>3 DEF Simplify, NoCube, SatisfyCube, queue
  <2>4. CASE EndCubes(w) \/ RefuteCube(w)
    BY <2>4 DEF EndCubes, RefuteCube, LeaveLoop, queue
  <2> QED  BY <1>2, <2>1, <2>2, <2>3, <2>4 DEF CubeAndConquer
<1>3. CASE Report(w)
  BY <1>3 DEF Report, report_sat, report_unsat, report_undef, queue
<1>4. CASE RunSolver(w)
  <2>1. CASE Throw(w) \/ ThrowInReport(w)
    BY <2>1 DEF Throw, ThrowInReport, Caught, queue
  <2>2. CASE TestShutdown(w) \/ SetException(w) \/ EndTask(w)
    BY <2>2 DEF TestShutdown, SetException, EndTask, queue
  <2>3. CASE task_done(w)
    BY <2>3 DEF task_done
  <2> QED  BY <1>4, <2>1, <2>2, <2>3 DEF RunSolver
<1> QED  BY <1>1, <1>2, <1>3, <1>4 DEF Step

\* Whichever worker runs the body of shutdown(), and however often, it cancels
\* every state active by then; the shutdown by task_done finds none.
THEOREM ActiveAreCancelled ==
    ASSUME Workers # {}
    PROVE  Spec => ShutdownReachesActive
<1>1. TypeOK /\ [Next]_vars
        => [ShutsDown => \A w \in m_active' : Canceled(w)']_vars
  <2> SUFFICES ASSUME TypeOK, Next, ShutsDown, NEW v \in m_active'
               PROVE  Canceled(v)'
    OBVIOUS
  <2>1. CASE \E w \in Workers : shutdown(w)
    BY <2>1 DEF TypeOK, shutdown, Canceled
  <2>2. ASSUME NEW w \in Workers, Step(w) \/ SpuriousWakeUp(w), ~shutdown(w)
        PROVE  m_active' = {}
    <3>1. ~m_shutdown /\ m_shutdown' /\ task_done(w)
      BY <2>2, OnlyShutdownLeaves DEF ShutsDown
    <3> QED  BY <3>1 DEF task_done
  <2>3. CASE solve \/ Apply \/ Interrupt \/ Rest
    BY <2>3 DEF solve, Apply, Interrupt, Rest, ShutsDown, vars, queue
  <2> QED  BY <2>1, <2>2, <2>3 DEF Next
<1> QED  BY <1>1, TypeCorrect, PTL DEF Spec, ShutdownReachesActive

=============================================================================
