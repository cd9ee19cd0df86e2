# SwiftZ3: a TLA+ development

SwiftZ3 (`Sources/SwiftZ3`) wraps the C API of the Z3 theorem prover, whose
sources are vendored under `Sources/CZ3`. The wrapper's own logic is small and
almost entirely about *ownership*: Swift objects hold raw pointers into a native
context, ARC decides when they go, and every raw pointer has to stay valid in
between. Solvers and optimizers are stacks of assertions whose scopes the native
side keeps in several places at once. Concurrency comes from interrupts and
timeouts, which reach a running call from other threads, and from the parallel
tactic, the one part of Z3 that runs a search on threads of its own. This
directory models all of these together with the native code they rely on
(`api_context.cpp`, `ast.cpp`, the `api_*.cpp` entry points, `rlimit.cpp`,
`scoped_timer.cpp`, `combined_solver.cpp` and what is below it,
`opt_context.cpp`, `parallel_tactical.cpp`), checks them with TLC and proves the
central invariants with TLAPS.

## 1. Inventory

| Component | State | Operations | What can go wrong |
|---|---|---|---|
| Term lifetime (`Z3AstBase`, `Z3RefCountedObject`, `Z3Context`, `ast_manager`) | `ast` and `context` of each wrapper, `m_ast_table`, `m_ref_count`, `m_ast_trail`, `_cachedFpaRoundingMode` | make…, accessors, `translate(to:)`, multi-result calls, `currentFpaRoundingMode`, `init`/`deinit`, context creation and deletion | dangling pointers, double releases, leaks, wrong order at the end of a context |
| API objects and error register (`Z3Solver`, `Z3Model`, `Z3AstVector`, `Z3Tactic`, …, `api::object`) | `m_allocated_objects`, `m_ref_count`, `m_last_obj`, `m_error_code` | create, wrap, throw, `deinit`, deletion of the context | a result freed before it is wrapped, leaked objects, errors lost or blamed on the wrong call |
| Datatype constructors (`Z3Constructor`, `Z3ConstructorList`) | raw `constructor*`, a list of raw pointers | make, query, use in `mk_datatypes`, `deinit` | lists that outlive their constructors |
| Solver assertions and scopes (`Z3Solver`, `combined_solver`, `tactic2solver`, `smt_solver`, `smt::context`, `asserted_formulas`) | two solvers with a vector of assertions, sizes at scope starts and tracking names each; the flags that choose between them | `assert`, `assertAndTrack`, `push`, `pop`, `reset`, `check`, `getModel`, an interrupt between calls | the two solvers hold different assertions, a pop restores too much or too little, a model of other assertions |
| Optimize contexts (`Z3Optimize`, `opt::context`) | `scoped_state`: constraints, names, objectives, sizes, a trail of terms, identifiers; results and enumerations of the last check | `assert…`, `assertSoft`, `maximize`, `minimize`, `push`, `pop`, `check` | a term or an identifier survives its scope, a result survives its constraints |
| Parallel tactic (`parallel_tactical.cpp`) | task queue with counters and a condition variable, a `solver_state` per worker, the reports | `get_task`, `cube_and_conquer`, `report_…`, `shutdown`, `solve` | a cube never looked at (a wrong unsat), a sleeper never woken, a report that is lost or stale |
| Interrupts, timer, resource limit (`cancel_eh`, `scoped_timer`, `reslimit`) | `m_interruptable`, `m_eh`, `m_cancel`, `m_limits` | check, `interrupt`, timeout | an interrupt lost, a handler called after its death, a cancel that hits the next check |
| Concurrent dec_ref (`flush_objects`) | two pairs of queues, `m_mux` | enqueue from any thread, flush from the main one | an object freed twice or never |
| Containers (`Z3AstVector`, `Z3AstMap`, iterators) | native vector or map, iterator index | push, set, resize, iterate, translate | iteration under modification |
| Parser contexts, probes, goals, parameters | native objects | one forwarded call each | the wrong call forwarded |
| Typed front end, generated enumerations | none | static typing, one forwarded call each | (checked by the Swift compiler) |
| Z3's decision procedures | — | — | vendored upstream code |

How they interact: every wrapper holds a strong reference to its `Z3Context`;
every method makes one or a few native calls with `context.context` and the raw
pointers of its arguments; the native context keeps the *last* result alive
(terms on `m_ast_trail`, objects in `m_last_obj`) until the Swift `init` has
taken its own reference; errors come back through a register in the context.
There is no callback into Swift but the error handler, which prints.

The hard behaviours are orders: of release and reference, of a `deinit` between
two calls, of the check of the register and the wrapping of the result, of the
destructors at the end of a context; then cascading deletion; scopes that are
opened lazily and restored in flat vectors; and threads, which
interrupt a call, whose timer does, or which split a search among them. `PROJECT.json` lists each one at the line where it bites.

## 2. Modules

| Module | Content |
|---|---|
| `TermHeap` | Abstract specification: a heap of hash-consed terms in which whatever the program can name stays allocated. No counts, trails or wrappers. |
| `AstLifetime` | The detailed model of term lifetime, with `Heap == INSTANCE TermHeap` as refinement. |
| `MCAstLifetime`, `MCAstTranslate` | Term graphs for TLC: one context with sharing and depth; two contexts and translation. |
| `AstLifetimeProofs` | The inductive invariant of `AstLifetime`, what follows from it, and the refinement of `TermHeap`, proved. |
| `ApiObjects`, `MCApiObjects` | Life of `api::object`s and the error register under the Swift methods. |
| `ApiObjectsProofs` | The inductive invariant of `ApiObjects` and what follows from it, proved. |
| `Interrupt`, `MCInterrupt` | Calls with their handler, timer and limit against the threads that interrupt them. |
| `InterruptProofs` | The inductive invariant of `Interrupt` and what follows from it, proved. |
| `ParallelTactic`, `MCParallelTactic` | The task queue, the cube-and-conquer loop, the reports and `solve` of the parallel tactic. |
| `ParallelTacticProofs` | The inductive invariant of `ParallelTactic` and what follows from it, proved. |
| `Assertions`, `AssertionStack` | Abstract specification of a solver: a stack of sets of assertions, right answers, models of what was checked. |
| `SolverScopes`, `MCSolverScopes` | The combined solver behind `Z3Solver`, with `Promised == INSTANCE AssertionStack` as refinement. |
| `SolverScopesProofs` | The inductive invariants of `SolverScopes`, what follows from them, and the refinement of `AssertionStack`, proved. |
| `OptimizeStack` | Abstract specification of `Z3Optimize`: push keeps constraints and objectives, pop brings them back. |
| `OptimizeScopes`, `MCOptimizeScopes` | `opt::context`, with `Promised == INSTANCE OptimizeStack` as refinement. |
| `OptimizeScopesProofs` | The inductive invariant of `OptimizeScopes` and what follows from it, proved. |
| `OptimizeStackProofs` | Proof that `OptimizeScopes` implements `OptimizeStack`. |
| `DataLemmas` | What the proofs share: the least element of a set of numbers, prefixes and `Append`, vectors with the sizes recorded at scope starts. |

### AstLifetime

State and code:

| Variable | Code |
|---|---|
| `ctx` | the native context: `"alive"` after `Z3_mk_context_rc`; `"deinit"` after the first call of `Z3Context.deinit`; `"closing"` in `~context` after the trail is gone; `"deleted"` after `~ast_manager` |
| `userRef` | the program's own reference to the `Z3Context` |
| `table`, `rc`, `erase` | `m_ast_table`, `m_ref_count`, the worklist of `delete_node` |
| `trail`, `mode` | `m_ast_trail`, `_cachedFpaRoundingMode` |
| `handle`, `owner` | `ast` and `context` of each wrapper; `handle` is cleared by `deinit`, `owner` when ARC then releases the stored properties |
| `returned`, `via`, `borrowed` | raw results of the running method, the `Z3Context` it will wrap them with, and the wrappers its caller keeps alive until it returns |
| `batch` | a call with several results, between `reset_last_result` and the rest |

A term is abstract: a node of `Node` is the hash-consed cell itself, `Args` are
the cells it holds references to (sort, declaration, arguments), `Sub` all the
cells below it, `Home` the context it belongs to and `Twin` the same term
elsewhere. Building a term allocates what hash-consing does not find (`Missing`)
and counts the children of the new cells only (`Register`), as
`register_node_core` does. Each step is one API call or one ARC event, except
that `delete_node` takes one step per freed cell (`DeleteNode`) and a
multi-result call two (`BeginBatch`, `EndBatch`). No other native call runs in
between (`NativeIdle`): the program calls a context from one thread. A wrapper
that is not a parameter of the running method may be dropped while the result is
still raw, which is the interesting window. `Wrap` takes the owner from `via`, as
`init(context:ast:)` takes the context it is passed: that this is the context of
the term is not built in, and a `translate(to:)` that passed the receiver's
context would violate `OwnerAlive` and `NoDanglingHandle` in `ast_translate`.

Definitions marked "Variant" are the deviations the checks are tested against;
no action uses them.

### ApiObjects

The native call, the wrapping (`Wrap`, which includes the `inc_ref` and so a
reset of the register) and the check of the register (`Throw`, `Pass`) are
separate steps, in the order each Swift method makes them: `makeTactic` checks
before it wraps, the parse methods after, `fromString` has nothing to wrap,
`getModel` and the factories never check. Addresses are reused after `dealloc`.
`kind` tells apart what behaves differently: the objects whose `dec_ref` resets
the register (`Z3Stats`, `Z3ParserContext`), and `Z3FixedPoint`. A null result
where Swift expects an object ends the program: the call is left `"trapped"`,
which is why this module is checked without deadlock detection.

### Interrupt

One thread calls into the context; interrupting threads and the timer's worker
run against it. Five kinds of call differ in what they set up, in this order
(`Begin` has constructed the `cancel_eh`, `Destroy` ends it):

| Kind | API functions | `SetEh` | `Register` | `StartTimer` | `Push`/`Pop` |
|---|---|---|---|---|---|
| `check` | `_solver_check`, `get_consequences`, `cube` | x | x | x | x |
| `core` | `get_unsat_core` | x | | x | x |
| `optimize` | `Z3_optimize_check` | | x | x | x |
| `apply` | `simplify`, `_tactic_apply` | | x | x | |
| `eval` | `Z3_model_eval` | | | | |

After the search (`Finish`, or `GiveUp` when it sees `m_cancel`) the steps of
`CleanUp` follow in the order of the destructors; a solver call left by an
exception unsets `m_eh` first, otherwise after the timer. The steps of a caller
are those another thread can observe: the test and the setting of the plain
`m_canceled`, and the load and the store of `m_cancel` under `g_rlimit_mux`,
which `push` and `pop` overwrite without it. A mutex is not a variable: who
delivers an interrupt holds `m_mux` (of the context or the solver) until `job`
is `"none"` again. `~scoped_timer` is enabled when the worker is not inside the
handler: it wakes one that waits, and spins for one that works. `asked` and
`raised` are history variables for the properties.

### ParallelTactic

The goal is a set of leaves of a search space (`Truth` are those that satisfy
it), a cube a set of leaves, and a `solver_state` the space its assertions leave
open with the cubes it has to split. The solver of a state may give up at any
time, and what it decides is right; everything else is the code's control.

| Variable | Code |
|---|---|
| `m_tasks`, `m_active`, `m_num_waiters`, `m_shutdown`, `waitSet` | the fields of `task_queue`; `waitSet` are the threads inside `m_cond.wait` |
| `pc`, `loc`, `after` | where a worker is in `run_solver` and `cube_and_conquer`, its locals, where `shutdown()` returns to |
| `st` | the `solver_state` it works on |
| `cancel`, `cancelM` | the limits of the cloned managers and of the caller's |
| `m_branches`, `m_has_undef`, `m_models`, `m_core`, `m_exn_code` | the reports |
| `answer`, `applications`, `interrupted` | the result of `solve`, the goals one tactic object was applied to, and a history variable |

A step is what one critical section or one unlocked access does: the test of the
loop and `inc_wait` (`EnterGetTask`), `try_get_task`, the second test and the
wait (`WaitForTask`), the return from it (`WakeUp`, or `SpuriousWakeUp`),
`dec_wait`; then one round of `check_sat` (`Simplify`), one cube (`RefuteCube`,
`SatisfyCube`, `KeepCube`), one report; then the test of `shutdown()`, its body,
`task_done` and the end of the task. `Throw` is an exception in one of
the solver's own steps, `ThrowInReport` one while the model or the core of a
branch is taken, after `close_branch`; both end in the handler of `run_solver`
(`Caught`). `Interrupt` is `Z3_interrupt` or a timer.

### SolverScopes

| Variable | Code |
|---|---|
| `solver1` | `tactic2solver`: `m_assertions`, `m_scopes`, and of `solver_na2as` `m_assumptions`, `m_scopes`; `result` is the model of its last check |
| `solver2` | `smt_solver`: the same of `solver_na2as`; of `asserted_formulas` `m_formulas`, `m_scopes`, `m_lazy_scopes`, `m_inconsistent`; `search` and `m_model` of `smt::context` |
| `m_inc_mode`, `m_check_sat_executed`, `m_use_solver1_results` | the flags of `combined_solver` |
| `m_cancel` | whether the count of the context's limit is above zero |
| `checked`, `model` | what the caller has been told, as long as the assertions are those it was told of |

A formula is the set of interpretations it allows, a tracked assertion a formula
with a name; what a set of assertions means is the set of interpretations all
allow. Each action is a call of `Z3Solver` with all it makes the two solvers do:
`solver2` opens scopes lazily (`ForcePush`), may find its assertions
inconsistent early (`Reduced`), refuses a name in use after `solver1` has taken
the assertion, and does nothing in a canceled context. Which solver answers
follows `check_sat_core`: `CheckBySolver2` with names, assumptions or in
incremental mode, `CheckBySolver1` otherwise, `CheckByBoth` when `solver2` gives
up. `CheckFirst` is an assumption about the user, see section 6.

### OptimizeScopes

The variables have the names of the code, except that `m_objectives` of
`scoped_state` is `m_scoped_objectives` and `m_maxsmts` is the set `engines` of
indices it has an entry for. An objective is its identifier and its terms;
`maximize` and `minimize` have `NoId`. A model is what it was found for (`Now`):
the properties ask nothing else of it. `Import` is `import_scoped_state` with
`normalize`, which may turn an objective over 0-1 terms into soft constraints.
A check starts anew (`CheckAnew`) or goes on with an enumeration (`CheckBox`,
`CheckPareto`). `maximizeAny` and `minimizeAny` of a term that is neither a number
nor a bit-vector are refused after the state has been cleared
(`RefuseObjective`); the call then returns 0, which is also the number of the
first objective, and only the error register tells.

## 3. Runs

| Run | Instance | Shows |
|---|---|---|
| `ast_lifetime` | one context; sort `s`, rounding modes `m1`, `m2`, constant `k`, application `f(k)`; 3 wrappers; batches `{m2, f}` and `{s, k}` | `TypeOK`, `RefCountExact`, `NoDanglingHandle`, `OwnerAlive`, `TableIsReachable`, `IInv`; refinement `CollectedHeap`; `ManagerEmptyAtEnd` |
| `ast_translate` | two contexts, three terms each, 2 wrappers | the same safety across contexts, and `ContextIsDeleted` under fairness |
| `api_objects` | 4 addresses, 3 wrappers, kinds solver, stats, fixedpoint, tactic, model, vector | `HeldExactly`, `ResultAllocated`, `OwnErrorThrown`, `OthersCollected` |
| `api_parse_error` | the same | a statement of the comments that the code violates (section 6) |
| `interrupt` | 2 solvers, 2 interrupters, 2 interrupts, any number of calls, fair threads | `HandlerAlive`, `OthersLeftAlone`, `LeftoverHasCause`, `IInv`; `InterruptEndsCall`, `TimeoutEndsCall`, `CallGoesOn` |
| `parallel_tactic` | 3 workers, 2 leaves, batches of 2, depth 2, interrupts and exceptions | `NoCubeLost`, `AnswerSound`, `ShutdownWakesAll`, `WaitersCounted`, `BranchesAgree`, `IInv`, `ShutdownReachesActive` |
| `parallel_live` | 2 workers, 1 leaf, 1 assumption (hence cores), batches of 1, 2 applications, exceptions, fair threads | `EveryApplicationAnswered`; `AnswerSound` although reports of the first application stay |
| `parallel_interrupted` | 2 workers, 2 leaves, interrupts | a wrong unsat after an interrupt (section 6) |
| `solver_scopes` | 2 interpretations with a formula for each, 1 name, 3 assertions, 2 scopes, checks with and without assumptions | `SolversAgree`; refinement `KeepsAssertionStack` |
| `solver_interrupted` | the same, with a user who does not check first after an interrupt | a wrong sat after an interrupt (section 6) |
| `optimize_scopes` | 2 identifiers, 1 formula, 1 name, 1 hard constraint, 2 objectives, 3 soft terms, 2 scopes | `ResultsAreCurrent`; refinement `RestoresStack` |
| `optimize_bounds` | the same | an index without an engine after a pop (section 6) |

Why the bounds are enough. The term graph has what the deletion loop can tell
apart: a cell that two others share, a child that dies with its parent, one
that survives it, a chain of depth two, and two values for the cached mode.
Three wrappers are one more than any operation needs (parameter, result, and a
bystander dropped in between); two contexts are what translation needs, and
there two wrappers are enough for a source and its translation. In
`ApiObjects`, three held objects and the last result fit into four addresses,
so an address can be reused while another object is pending. In `Interrupt`,
two interrupting threads can be inside the same handler together with the
timer, or one deliver to the context and one to a solver; the second solver is
the bystander of `OthersLeftAlone`. `MaxInterrupts` is the only cap of this
module: calls, and with them expiries, go on for ever, and every call that
pushes a limit forgets earlier cancellations, so that two interrupts reach
every combination with the timer (three give the same results).

In `ParallelTactic`, three workers are one that works, one that waits and one
that shuts the queue down; two leaves let a cube be refuted while the other is
spawned. `MaxDepth` bounds the rounds of simplification (the code has no bound
of its own but memory), `MaxApplications` the goals. In `SolverScopes`, two
interpretations with a formula for each make a pair of assertions inconsistent,
either alone not; with two scopes and three assertions there is one at every
level, and a scope without any, which is where lazily opened scopes differ from
open ones; one name is enough to be in use. In `OptimizeScopes`, two
identifiers and two objectives let a soft constraint join an outer objective or
open an inner one; three terms give the trail an entry of either kind above and
below a scope. `MaxEntries`, `MaxScopes`, `MaxHard`, `MaxObjectives` and
`MaxTerms` bound lengths of vectors only; checks, pops and resets go on for
ever. In the modules of object lifetime nothing is capped: counts are
bounded because holders are (fixedpoint objects leak one address per wrapper
life, and each address at most grows by one while it is wrapped).

Symmetry is used over wrappers, objects, workers, leaves and identifiers in
the runs without liveness. `CHECK_DEADLOCK FALSE` in the runs of `AstLifetime`
and `ApiObjects`: a program may stop once its contexts are deleted. All other
modules are checked for deadlock; `ParallelTactic` rests (`Rest`) only when every
application is answered, so that a join that waits for ever would be one.

Fairness of `AstLifetime` (`FairSpec`, used by `ast_translate` only). A native call that has
begun finishes on its own: weak fairness of `EndBatch` and `DeleteNode`. The
release of an object's stored properties follows its `deinit`, and the `deinit`
of a `Z3Context` follows the release of its last reference, both as part of the
release that made them due; in the model another context may run a call between
them, so that these actions are enabled again and again rather than for ever,
hence strong fairness of `Release`, `DeinitContext`, `DelContext`, `DelManager`.
Calls, wrapping and drops by the program have no fairness.

Fairness of `Interrupt`: each thread that can take its next step eventually
does, an armed timer expires, and a search that finds `m_cancel` above zero
gives up, since Z3's loops poll `reslimit::inc`. A search that is not canceled
need not end, and no call or interrupt need be made. Weak fairness is enough
although mutexes are contended, because a program interrupts finitely often.

Fairness of `ParallelTactic` (`FairSpec`, used by `parallel_live` only): weak
fairness of each worker's `Step`, which is the scheduler, and the assumption that
a call into the solver of a state returns; weak fairness of `solve`. A wait is
fair only once it has been notified (`WakeUp` is part of `Step`,
`SpuriousWakeUp` is not), so that a lost wake-up would be seen. `add_task` does
notify nobody while a worker is between its failed `try_get_task` and its wait;
`EveryApplicationAnswered` shows that the worker that added the task then takes
it itself. The second `parallel_live` application starts from the stale
`m_has_undef`, `m_exn_code` and `m_core` of the first: the first two can only
weaken its answer, the third is a core and no property is about cores (section 6).

## 4. Proofs

Every invariant, action property and refinement that a passing run checks is
also proved, for every value of the constants that meets the assumptions named
below. Each invariant is proved from an inductive strengthening `IInv`; the
proofs have one lemma per action.

| Module | Theorems (and the property of the runs they state) |
|---|---|
| `AstLifetimeProofs` | `InductiveInvariant` (`IInv`), `TypeCorrect` (`TypeOK`), `CountsExact` (`RefCountExact`), `OwnersAlive` (`OwnerAlive`), `NoDangling` (`NoDanglingHandle`), `TableReachable` (`TableIsReachable`), `ManagersEmpty` (`ManagerEmptyAtEnd`), `Collected` (`CollectedHeap`) |
| `ApiObjectsProofs` | `Invariance`, `TypeCorrect` (`TypeOK`), `HoldersExact` (`HeldExactly`), `ResultsLive` (`ResultAllocated`), `ErrorsOwned` (`OwnErrorThrown`), `NothingLeft` (`OthersCollected`) |
| `InterruptProofs` | `InductiveInvariant` (`IInv`), `TypeCorrect` (`TypeOK`), `HandlersAlive` (`HandlerAlive`), `OnlyAskedAborts` (`OthersLeftAlone`), `LeftoversExplained` (`LeftoverHasCause`) |
| `ParallelTacticProofs` | `Invariance` (`IInv`), `TypeCorrect` (`TypeOK`), `NoCubeIsLost` (`NoCubeLost`), `AnswersAreSound` (`AnswerSound`), `ShutdownLeavesNoSleeper` (`ShutdownWakesAll`), `WaitersAreCounted` (`WaitersCounted`), `BranchesAreCounted` (`BranchesAgree`), `ActiveAreCancelled` (`ShutdownReachesActive`) |
| `SolverScopesProofs` | `WellFormed`, `TypeCorrect` (`TypeOK`), `Invariance`, `Agreement` (`SolversAgree`), `AnswersFit` (`AnswerFitsAssertions`), `Implements` (`KeepsAssertionStack`) |
| `OptimizeScopesProofs` | `Invariance`, `TypeCorrect` (`TypeOK`), `ResultsStayCurrent` (`ResultsAreCurrent`) |
| `OptimizeStackProofs` | `Implements` (`RestoresStack`) |

### AstLifetimeProofs

For every finite set of terms and of wrappers, any set of contexts, and every
term graph that meets `TermAssumption` (a term contains its children and theirs
and nothing else, all of one context), `AcyclicAssumption` (no term is part of
its children) and `ContextAssumption`. That is what hash-consing gives: a cell is
built from existing cells and never changes.

`NoDanglingHandle` is not inductive: that a wrapper's cell is in
the table depends on its count being positive, hence on counts being exact
(`RefCountExact`); that a count of zero means deletion, and nothing else does,
is `EraseExact`; that dropping the children of an erased cell never touches a
cell outside the table is `TableClosed`; that a holder is always a holder of an
allocated cell, in a context at the right stage of its life, is `HoldersValid`;
that a raw result has *some* holder the program cannot drop is `ResultsHeld`
(the trail, the cached mode, or a borrowed wrapper whose term contains it); and
`BatchPending` describes the gap in a multi-result call. Their conjunction is
`HeapInv`. `ViaHome` says that results in flight belong to the context they will
be wrapped with; `ViaStep` proves it beside `HeapInv`, whose `HoldersValid` needs
it when a wrapper takes its owner. `IInv` is both, and is checked by TLC in
`ast_lifetime`. The work is in
`RefCountExact`: each action changes one kind of holder, and general lemmas say
how the cardinality of the sets of wrappers and parents changes with it. The
theorems up to `NoDangling` do not use acyclicity.

The others are about the heap as a whole and need it: a cycle would keep itself
alive. `Outermost` finds in any set of cells one that no cell of the set holds
(the one with the largest term; sizes of terms are numbers, and any set of numbers
has a least element). Applied to the allocated cells nobody can reach, it gives a
cell without parents and without holders, whose count is zero although it is not
being erased (`AllReachable`); applied to the missing cells of a term, it shows
that terms are allocated as wholes (`WholeTerms`), so that what is being erased
cannot be reached (`ErasedUnreachable`). `TableReachable` is both together. Once
the trail of a context is gone nothing in it can be named (`RootsAtHome`), so its
table is empty when nothing is left to erase (`ClosingIsEmpty`), which is
`ManagersEmpty`. `Collected` maps each step to one of `TermHeap`: a call computes
terms, `delete_node` collects one unreachable cell, everything else forgets
names or keeps the heap.

### ApiObjectsProofs

For any finite sets of wrappers and of addresses. `HeldExactly` and
`ResultAllocated` are not inductive: they need to know, for each place a Swift
method can be in, that a result it has yet to wrap is held by `m_last_obj` and
nobody else (`Fresh`), and which of them may have failed (`CallInv`). Then
`Wrap` adds the first holder of its own, a later native call takes
`m_last_obj` away from an object that has one, and only a `dec_ref` by the last
holder frees. `NothingLeft` follows from the counts: a context is dropped after its
wrappers, and without wrappers only `m_last_obj` holds anything.

### InterruptProofs

For any number of solvers, interrupting threads and interrupts. `HandlerAlive`
is not inductive: that nobody is inside a handler when it is destroyed follows
from where the call is (`CallInv`), which says through whom the handler can still
be reached (`KnownInv`), and from every thread inside it working for one of those
(`JobInv`), whose mutex the call must take to cut that way off. `CauseInv` adds
that a count above zero during a limited search has been asked for.

`LeftoverHasCause` is about how often one handler counts: `m_canceled` is
tested and set without a lock, so two threads may pass the test. `MutexInv` says
that two of a kind cannot, since who interrupts the context, or one solver,
holds its mutex, and that only one thread is between the load and the store of
`m_cancel`. `CountInv` says that as long as the context has not been interrupted
and not both the timer and an interrupt of the solver have counted
(`Explained`), the handler has counted at most once in the present call: the
count is then at most 1, the handler marked, and `~cancel_eh` takes off what has
been added. `IInv` includes both and is checked by TLC in `interrupt`.

### ParallelTacticProofs

For at least one worker (section 6 says what happens without), any number of
leaves, any batch size, depth and number of applications. That unsat is
answered only for an unsatisfiable goal is not inductive: it follows from
`NoCubeLost` once all workers have left, and a worker leaves only when the queue
is shut down (`StopInv`), which happens early only with an excuse on record, or
with nothing left (`ShutdownInv`); that a canceled state is one of those cases is
`CancelInv`, that the cubes of a state stay inside what it answers for is
`WorkerInv`, and that reported models are models is `ModelInv`. Together they are
`CoverInv`.

`CountInv` adds the two counters. `m_num_waiters` is a cardinality.
`m_branches` is a sum, over the queue and over the workers: `Total` writes it
as the number of pairs of an index and a branch, so that the theorems on finite sets
apply and no induction is needed (`TotalExtend`, `TotalChange`, and for the queue
`QueueTotalAppend`, `QueueTotalFront`). A step of a worker then only has to
balance its own branches, what it puts into the queue and what it adds to the
counter (`Balanced`). After an exception the counter is given up, which is why
`LeaverInv` keeps track of the workers that had one. `ActiveAreCancelled` looks at
every pass through the body of `shutdown()` (`ShutsDown`), the first worker's or
a later one's: each leaves all active states canceled. A task taken after the
last pass is not; that the application still ends is `EveryApplicationAnswered`.

### SolverScopesProofs

For any interpretations, formulas, names and bounds. Two invariants. `WellInv` holds
whatever the user does, interrupts included: the recorded sizes
never exceed the vectors and never shrink inwards, and in `solver2` the open and
the lazy scopes add up to those of `solver_na2as`. It gives `TypeCorrect`.

The second holds under `CheckFirst`, the assumption that a user lets a check
come before other calls after an interrupt; without it `solver_interrupted`
refutes it (section 6, number 3), so the hypothesis of the theorems
cannot be dropped. `SolversAgree` compares the solvers as they are; a pop
makes what they held at an outer level visible again, so `Agree` compares them
at every level from 0 to the present one: `View1` and `View2` are what each will
have after popping to it, and `Same` says that `solver2` holds what `solver1`
lists under the same names, or is known to be inconsistent and no
interpretation satisfies what `solver1` lists. Each operation has a lemma that says
what it does to the view of each level: assertions change the innermost one only,
`ForcePush` and `Push` add a level equal to the last, `Pop` cuts levels off,
`Reduced` may turn the flag of the innermost. `AnswerInv` adds that a current
status is right for what the solvers hold and that the solver that will be asked
for the model has one of it.

For `Implements` the stack of `AssertionStack` is read off `solver1`
(`StackOf`): the listed assertions between two limits are one level. `StackAssert`,
`StackPush` and `StackPop` say how it changes; that the levels together are what
is listed (`StackUnion`) turns `AnswerInv` into the promise on answers and models.

### OptimizeScopesProofs and OptimizeStackProofs

For any formulas, names, identifiers and bounds. `TypeOK` is not inductive:
that what a pop leaves is within bounds needs the limits of inner scopes to be no
smaller than those of outer ones (`LimitsInv`), the trail before a scope to name
objectives before it (`TrailInv`), and the identifier map to lead to the one
objective that has the identifier (`IndicesInv`), or an identifier of a popped
objective could keep its index. The refinement has one lemma per operation. The
work is in the terms a pop takes from objectives of outer scopes, which the code
counts on the trail: a term added counts once, for its objective only
(`RestAfterTerm`, `RestOfOthers`); what a scope has to drop splits at any inner
scope, so that dropping twice is dropping once (`RestOfRest`); and behind the end
of the trail there is nothing (`RestIsAll`). The proof uses `NoIdAssumption`:
the identifier maximize and minimize objectives have is not one a soft constraint
can have.

### What is only model-checked

Liveness: `ContextIsDeleted`, `InterruptEndsCall`, `TimeoutEndsCall`,
`CallGoesOn` and `EveryApplicationAnswered`. It rests on fairness, hence on
`ENABLED`, which the prover does not handle. The disagreements of section 6 are
counterexamples and need no proof. The induction principles of the library cannot
be used (they take an operator as a parameter); where a proof has to go
through all sizes, it takes a least counterexample instead (`LeastNatural` of
`DataLemmas`, from the well-foundedness of `<`, which the library states without
an operator parameter).

## 5. What is not modelled

- Failing constructions: a call that raises a native exception returns null and
  the forced unwrap in Swift traps; there is no state after it.
- Several calls at a time on one context, which Z3 forbids, `deinit` on other
  threads (section 7), and contexts created with
  `init(borrowing:)`, which no public method makes.
- Accessors that do put their result on the trail behave like `Make` and need no
  action of their own. Symbols are interned for ever and have no life.
- Types that are not collected by counts: configurations, constructors.
- Around interrupts: the count limit `rlimit`, ctrl-C handlers, child limits of
  parallel solvers, the second timer of a `try_for` tactic, and which reason a
  solver reports for an unknown result.
- Of solvers: unsat cores, consequences, cubes, `translate`, parameters, text
  input, `makeSimpleSolver` (the second half of `SolverScopes` alone) and the
  parameters that change how the two halves are used. Of optimizers: the values of
  bounds, initial values, parameters, callbacks and text input. Of the parallel
  tactic: progress estimates, and how a goal is turned into clauses.
- The contents of models, goals, vectors, maps and parameters, and parser
  contexts: each method forwards one call. `Z3AstMap.push` and `translate` forward
  to functions of another type, which no model can give a meaning.
- Datatype constructors and the queue of `flush_objects`, which SwiftZ3 never
  turns on.
- Generated enumerations and the scripts that update the vendored sources.
- Z3's algorithms. Nearly all of the 640 thousand lines below `Sources/CZ3` are
  decision procedures, rewriters, arithmetic and generated logging: sequential
  code on large data, whose correctness is a matter of mathematics rather than
  of control, and out of reach of enumeration. The map therefore covers a small
  share of the repository, though much of what is stateful above the solvers.

## 6. Disagreements between the code and its comments

Shown by runs:

1. `parseSmtlib2String` and `parseSmtlib2File` (`Z3Context+Parse.swift:31`, `:64`)
   wrap the result before they read the error register, and wrapping resets it:
   a parse error is never thrown (`api_parse_error`).
2. An interrupt of the parallel tactic after the last test of a state stops the
   queue (`parallel_tactical.cpp:707`) without a record that cubes are left, and
   `solve` answers unsat (`parallel_interrupted`). `AnswerSound` holds of
   applications that are not interrupted.
3. `Z3Context.interrupt()` outside of a call leaves `m_cancel` above zero until
   the next check. An assertion made meanwhile is dropped by
   `smt::context::assert_expr_core` (`smt_context.cpp:3068`) without an error, and
   kept by `solver1`; a push fails in `solver2` only, after which pops restore the
   wrong assertions. The next check answers sat for an unsatisfiable set
   (`solver_interrupted`). `solver_scopes` shows that all is well for a user who
   lets a check come first (`CheckFirst`).
4. After `Z3Optimize.pop()` the objectives of the last check are still known, but
   their engines are gone (`opt_context.cpp:174`): `getLower` of a soft objective
   dereferences an entry that is not there, and that of a maximized term is 0
   (`optimize_bounds`).

Seen while modelling, without a run:

- `Z3FixedPoint.decRef` (`Z3FixedPoint.swift:18`) calls `Z3_fixedpoint_inc_ref`;
  its objects live as long as the context. `OthersCollected` exempts them.
- `Z3Solver.fromString` and `fromFile` (`Z3Solver.swift:160`, `:169`) rethrow a
  register the native call does not reset: an earlier error is reported for a
  text that was loaded. `Z3_optimize_from_string` does not reset it either.
- The API functions start the timer (`api_solver.cpp:654`) before they push the
  limit (`:655`), and `reslimit::push` (`rlimit.cpp:58`) erases a cancellation
  that has come in between, while the handler stays marked as used: the check
  then has no timeout and ignores `Z3Solver.interrupt()`. `TimeoutEndsCall` says
  when a timeout does work, and `InterruptEndsCall` that
  `Z3Context.interrupt()` gets through even then.
- For the reason of number 3, evaluations of a model fail until the next check
  although nothing was invoked during them (`Z3Model.swift:43`).
- With no thread (`hardware_concurrency()` may return 0, and so may
  `parallel.threads.max`, `parallel_tactical.cpp:402`) `solve` answers unsat for
  every goal; the core it reports for a goal that was split is that of the
  last refuted cube alone (`:442`); and a goal without assumptions gets the core
  an earlier application of the same tactic object has left (`:822`).
- `Z3Optimize.getModel` does not report an error when there is no model, it
  returns an empty one (`api_opt.cpp`, `Z3_optimize_get_model`). A check while an
  enumeration is open ignores the assumptions it is given. `m_pareto1` is reset
  at the start of each check, so that a Pareto enumeration of one objective never
  ends.
- `Z3Solver.getAssertions` lists a tracked assertion that `solver2` has refused
  because its name was in use; `SolversAgree` leaves these out (`Listed`).
- The parallel tactic reads `m_models.empty()` and `m_has_undef` unlocked
  (`parallel_tactical.cpp:480`), and a worker may take a task after the shutdown
  body has run, which is then not canceled; both are harmless.

## 7. Plan

The modules of the plan's core are written, and what their runs check of safety
is proved. What is left, the most useful first:

1. Abstract specifications for the two concurrent components, and proofs that they
   are implemented: an application of the parallel tactic as one answer that the
   goal determines, a call with interrupts as one that ends or is given up on
   request.
2. Weaker hypotheses: `Workers # {}` only where a theorem of
   `ParallelTacticProofs` is about cubes and answers; for `SolverScopesProofs` a
   proviso on assertions and pushes alone in place of `CheckFirst`.
3. Modules: the queue of `flush_objects` composed with the counts of
   `AstLifetime`; vectors and their iterators; datatype constructors and
   their lists.
