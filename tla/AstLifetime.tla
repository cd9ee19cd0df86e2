---------------------------- MODULE AstLifetime ----------------------------
(***************************************************************************)
(* The lifetime of Z3 terms seen through SwiftZ3.                          *)
(*                                                                         *)
(* A Z3AstBase object is a raw Z3_ast and a strong reference to the        *)
(* Z3Context it came from; init calls Z3_inc_ref, deinit Z3_dec_ref.  The  *)
(* terms themselves are hash-consed, reference counted cells of the        *)
(* ast_manager of that context, and what an API call has just returned is  *)
(* kept alive by nothing but the context's "trail" until a wrapper has     *)
(* taken its own reference.                                                *)
(*                                                                         *)
(* One API call or one ARC event is one step, except that the loop of      *)
(* ast_manager::delete_node takes one step per deleted cell and the calls  *)
(* that return several terms one step for the reset of the trail and one   *)
(* for the rest.  Terms are abstract: a node is its own hash-consed cell,  *)
(* and Args gives the cells it holds references to.                        *)
(***************************************************************************)
EXTENDS Integers, FiniteSets

CONSTANTS
    Context,      \* Z3Context objects with the Z3_context each one owns
    Node,         \* cells of the AST tables, all contexts together
    Wrapper,      \* Z3AstBase objects (slots, reused after deinit)
    Args,         \* the children a cell references: sorts, decl, arguments
    Sub,          \* the cells of the term rooted at a cell, itself included
    Home,         \* the context whose manager allocates a cell
    Twin,         \* Twin[n][c]: the same term in the manager of context c
    Nearest,      \* the RNE rounding mode term of each context
    Modes,        \* the terms of sort RoundingMode
    Batches,      \* the term sets returned together by one API call
    NoNode,
    NoContext

ASSUME FiniteAssumption == IsFiniteSet(Node) /\ IsFiniteSet(Wrapper)

ASSUME TermAssumption ==
    /\ Home \in [Node -> Context]
    /\ Args \in [Node -> SUBSET Node]
    /\ Sub \in [Node -> SUBSET Node]
    /\ \A n \in Node : /\ n \in Sub[n]
                       /\ \A p \in Sub[n] : Args[p] \subseteq Sub[n]
                       /\ \A p \in Sub[n] : Home[p] = Home[n]
                       /\ \A m \in Sub[n] \ {n} :
                             \E p \in Sub[n] : m \in Args[p]

\* A cell is allocated after its children: a term is part of none of them.
ASSUME AcyclicAssumption ==
    \A n \in Node : /\ \A m \in Sub[n] : Sub[m] \subseteq Sub[n]
                    /\ \A m \in Args[n] : n \notin Sub[m]

ASSUME ContextAssumption ==
    /\ Nearest \in [Context -> Node]
    /\ \A c \in Context : Home[Nearest[c]] = c
    /\ Modes \subseteq Node
    /\ Twin \in [Node -> [Context -> Node]]
    /\ \A n \in Node, c \in Context : Home[Twin[n][c]] = c
    /\ Batches \subseteq SUBSET Node
    /\ \A S \in Batches : \A m, n \in S : Home[m] = Home[n]
    /\ NoNode \notin Node
    /\ NoContext \notin Context

VARIABLES
    ctx,        \* the native Z3_context: its life, and the steps of its end
    userRef,    \* the program itself still holds the Z3Context object
    table,      \* m_ast_table of every manager: the allocated cells
    rc,         \* m_ref_count
    erase,      \* cells pushed for erasure by delete_node, not yet popped
    trail,      \* m_ast_trail of each context
    mode,       \* _cachedFpaRoundingMode
    handle,     \* the raw Z3_ast of each wrapper
    owner,      \* the strong reference of each wrapper to its Z3Context
    returned,   \* raw results of the running method, not yet wrapped
    via,        \* the Z3Context the running method wraps its results with
    borrowed,   \* wrappers the running method's caller keeps alive
    batch       \* a several-result call between its two steps

vars == <<ctx, userRef, table, rc, erase, trail, mode, handle, owner,
          returned, via, borrowed, batch>>

swiftVars == <<handle, owner, returned, via, borrowed>>

-----------------------------------------------------------------------------
(* Reference counting in the ast_manager.                                  *)

\* ast_manager::inc_ref on every cell of S.
Inc(r, S) == [n \in Node |-> IF n \in S THEN r[n] + 1 ELSE r[n]]

\* ast_manager::dec_ref on every cell of S; Dying are those it hands to
\* delete_node because the count becomes zero.
Dec(r, S) == [n \in Node |-> IF n \in S THEN r[n] - 1 ELSE r[n]]
Dying(r, S) == {n \in S : r[n] = 1}

\* The cells among S that hold a reference to n.
ParentsIn(S, n) == {p \in S : n \in Args[p]}

\* Variant: a new cell does not reference its children.
RegisterUncounted(r, New) == r

\* register_node_core: a new cell takes a reference on each of its children.
Register(r, New) == [n \in Node |-> r[n] + Cardinality(ParentsIn(New, n))]

\* The cells a call that builds the terms S has to allocate: hash-consing
\* finds the others in the table.
Missing(S) == (UNION {Sub[n] : n \in S}) \ table

\* Variant: the children that reach zero are not pushed.
DeleteNodeShallow(n) ==
    /\ n \in erase
    /\ table' = table \ {n}
    /\ rc' = Dec(rc, Args[n])
    /\ erase' = erase \ {n}
    /\ UNCHANGED <<ctx, userRef, trail, mode, batch, swiftVars>>

\* One iteration of the loop of delete_node: pop a cell, drop the references
\* it holds, push the children that reach zero, free the cell.
DeleteNode(n) ==
    /\ n \in erase
    /\ table' = table \ {n}
    /\ rc' = Dec(rc, Args[n])
    /\ erase' = (erase \ {n}) \cup Dying(rc, Args[n])
    /\ UNCHANGED <<ctx, userRef, trail, mode, batch, swiftVars>>

\* No native code is running: no deletion under way, no call in two steps.
NativeIdle == erase = {} /\ batch = {}

\* Variant: wrappers hold their context unowned.
InUseByProgram(c) == userRef[c] \/ via = c

\* A strong reference to the Z3Context object is left: the program's, that of
\* a wrapper, or that of a method whose result is not wrapped yet.
InUse(c) ==
    \/ userRef[c]
    \/ \E w \in Wrapper : owner[w] = c
    \/ via = c

\* The program can name the context, itself or through a live wrapper.
Reachable(c) ==
    userRef[c] \/ \E w \in Wrapper : handle[w] # NoNode /\ owner[w] = c

\* A method of the context can be entered.  The program makes its calls on
\* one thread: the result of the previous one has been wrapped.
CanCall(c) ==
    ctx[c] = "alive" /\ Reachable(c) /\ NativeIdle /\ returned = {}

-----------------------------------------------------------------------------
(* The life of a context.                                                  *)

\* Z3Context.init: the native context, then the default rounding mode, which
\* the call leaves on the trail and the cached field references.
CreateContext(c) ==
    LET new == Missing({Nearest[c]})
    IN  /\ ctx[c] = "none" /\ NativeIdle /\ returned = {}
        /\ ctx' = [ctx EXCEPT ![c] = "alive"]
        /\ userRef' = [userRef EXCEPT ![c] = TRUE]
        /\ table' = table \cup new
        /\ rc' = Inc(Inc(Register(rc, new), {Nearest[c]}), {Nearest[c]})
        /\ trail' = [trail EXCEPT ![c] = {Nearest[c]}]
        /\ mode' = [mode EXCEPT ![c] = Nearest[c]]
        /\ UNCHANGED <<erase, batch, swiftVars>>

\* The program lets go of its reference to the Z3Context.
DropContext(c) ==
    /\ userRef[c]
    /\ userRef' = [userRef EXCEPT ![c] = FALSE]
    /\ UNCHANGED <<ctx, table, rc, erase, trail, mode, batch, swiftVars>>

\* Variant: deinit does not release the cached rounding mode.
DeinitContextKeepsMode(c) ==
    /\ ctx[c] = "alive" /\ ~InUse(c) /\ NativeIdle
    /\ ctx' = [ctx EXCEPT ![c] = "deinit"]
    /\ mode' = [mode EXCEPT ![c] = NoNode]
    /\ UNCHANGED <<userRef, table, rc, erase, trail, batch, swiftVars>>

\* Variant: an owned context is taken for a borrowed one.
DeinitContextBorrowed(c) ==
    /\ ctx[c] = "alive" /\ ~InUse(c) /\ NativeIdle
    /\ mode[c] # NoNode
    /\ rc' = Dec(rc, {mode[c]})
    /\ erase' = Dying(rc, {mode[c]})
    /\ mode' = [mode EXCEPT ![c] = NoNode]
    /\ UNCHANGED <<ctx, userRef, table, trail, batch, swiftVars>>

\* Z3Context.deinit, first call: the cached rounding mode is released.
DeinitContext(c) ==
    /\ ctx[c] = "alive" /\ ~InUse(c) /\ NativeIdle
    /\ ctx' = [ctx EXCEPT ![c] = "deinit"]
    /\ rc' = Dec(rc, {mode[c]})
    /\ erase' = Dying(rc, {mode[c]})
    /\ mode' = [mode EXCEPT ![c] = NoNode]
    /\ UNCHANGED <<userRef, table, trail, batch, swiftVars>>

\* Z3_del_context: the members of api::context are destroyed, the trail
\* before the manager it refers to.
DelContext(c) ==
    /\ ctx[c] = "deinit" /\ NativeIdle
    /\ ctx' = [ctx EXCEPT ![c] = "closing"]
    /\ rc' = Dec(rc, trail[c])
    /\ erase' = Dying(rc, trail[c])
    /\ trail' = [trail EXCEPT ![c] = {}]
    /\ UNCHANGED <<userRef, table, mode, batch, swiftVars>>

\* ~ast_manager: whatever is still in the table is freed, referenced or not.
DelManager(c) ==
    /\ ctx[c] = "closing" /\ NativeIdle
    /\ ctx' = [ctx EXCEPT ![c] = "deleted"]
    /\ table' = {n \in table : Home[n] # c}
    /\ rc' = [n \in Node |-> IF Home[n] = c THEN 0 ELSE rc[n]]
    /\ UNCHANGED <<userRef, erase, trail, mode, batch, swiftVars>>

-----------------------------------------------------------------------------
(* API calls that return terms.                                            *)

\* Variant: the trail is reset before the new result is referenced.
SaveAstTrailResetFirst(c, n, r) ==
    /\ rc' = Inc(Dec(r, trail[c]), {n})
    /\ erase' = Dying(r, trail[c])
    /\ trail' = [trail EXCEPT ![c] = {n}]

\* context::save_ast_trail: the new result is referenced before the old one
\* is released, for they may be the same cell.
SaveAstTrail(c, n, r) ==
    LET bumped == Inc(r, {n})
    IN  /\ rc' = Dec(bumped, trail[c])
        /\ erase' = Dying(bumped, trail[c])
        /\ trail' = [trail EXCEPT ![c] = {n}]

\* Z3_mk_...: build term n in context c, or find it, and return it.
Build(c, n) ==
    LET new == Missing({n})
    IN  /\ table' = table \cup new
        /\ SaveAstTrail(c, n, Register(rc, new))
        /\ returned' = {n}
        /\ UNCHANGED <<ctx, userRef, mode, handle, owner, batch>>

\* A make... method of Z3Context or an operator of a wrapper: the wrappers
\* whose terms are passed are parameters, alive until the method returns.
Make(c, n) ==
    /\ CanCall(c) /\ Home[n] = c
    /\ Build(c, n)
    /\ via' = c
    /\ borrowed' = {w \in Wrapper : handle[w] \in Args[n]}

\* Variant: the copy is wrapped with the context of the receiver.
TranslateKeepsContext(w, c) ==
    /\ handle[w] # NoNode /\ owner[w] # c
    /\ CanCall(c)
    /\ Build(c, Twin[handle[w]][c])
    /\ via' = owner[w]
    /\ borrowed' = {w}

\* Z3AstBase.translate(to:): copy the term into another context, with which
\* the copy is wrapped.  The same context returns self and calls nothing.
Translate(w, c) ==
    /\ handle[w] # NoNode /\ owner[w] # c
    /\ CanCall(c)
    /\ Build(c, Twin[handle[w]][c])
    /\ via' = c
    /\ borrowed' = {w}

\* Z3_mk_tuple_sort and the other calls with several results first drop the
\* last result ...
BeginBatch(c, S) ==
    /\ CanCall(c) /\ S # {} /\ \A n \in S : Home[n] = c
    /\ batch' = S
    /\ rc' = Dec(rc, trail[c])
    /\ erase' = Dying(rc, trail[c])
    /\ trail' = [trail EXCEPT ![c] = {}]
    /\ via' = c
    /\ UNCHANGED <<ctx, userRef, table, mode, handle, owner, returned, borrowed>>

\* ... and then build the terms and put each one on the trail.
EndBatch ==
    LET new == Missing(batch)
    IN  /\ batch # {} /\ erase = {}
        /\ table' = table \cup new
        /\ rc' = Inc(Register(rc, new), batch)
        /\ trail' = [c \in Context |->
                        trail[c] \cup {n \in batch : Home[n] = c}]
        /\ returned' = batch
        /\ batch' = {}
        /\ UNCHANGED <<ctx, userRef, erase, mode, handle, owner, via, borrowed>>

\* Variant: the receiver is not kept alive until the result is wrapped.
AccessUnowned(w) ==
    /\ handle[w] # NoNode /\ CanCall(owner[w])
    /\ returned' \in (SUBSET (Args[handle[w]] \cup {handle[w]})) \ {{}}
    /\ via' = owner[w]
    /\ UNCHANGED <<ctx, userRef, table, rc, erase, trail, mode, handle,
                   owner, borrowed, batch>>

\* An accessor (sort, range, domain, argument) or a cast of a wrapper returns
\* terms that only the receiver keeps alive: the trail is left alone.
Access(w) ==
    /\ handle[w] # NoNode /\ CanCall(owner[w])
    /\ returned' \in (SUBSET (Args[handle[w]] \cup {handle[w]})) \ {{}}
    /\ via' = owner[w]
    /\ borrowed' = {w}
    /\ UNCHANGED <<ctx, userRef, table, rc, erase, trail, mode, handle,
                   owner, batch>>

\* The getter of currentFpaRoundingMode hands out the cached term.
GetMode(c) ==
    /\ CanCall(c)
    /\ returned' = {mode[c]}
    /\ via' = c
    /\ UNCHANGED <<ctx, userRef, table, rc, erase, trail, mode, handle,
                   owner, borrowed, batch>>

\* The setter references the new mode before it releases the old one.
SetMode(c, w) ==
    LET bumped == Inc(rc, {handle[w]})
    IN  /\ CanCall(c) /\ owner[w] = c /\ handle[w] \in Modes
        /\ rc' = Dec(bumped, {mode[c]})
        /\ erase' = Dying(bumped, {mode[c]})
        /\ mode' = [mode EXCEPT ![c] = handle[w]]
        /\ UNCHANGED <<ctx, userRef, table, trail, batch, swiftVars>>

-----------------------------------------------------------------------------
(* Wrappers.                                                               *)

\* Variant: init does not call incRef.
WrapUncounted(w, n) ==
    /\ NativeIdle /\ n \in returned
    /\ handle[w] = NoNode /\ owner[w] = NoContext
    /\ handle' = [handle EXCEPT ![w] = n]
    /\ owner' = [owner EXCEPT ![w] = via]
    /\ returned' = returned \ {n}
    /\ borrowed' = IF returned = {n} THEN {} ELSE borrowed
    /\ via' = IF returned = {n} THEN NoContext ELSE via
    /\ UNCHANGED <<ctx, userRef, table, rc, erase, trail, mode, batch>>

\* Z3AstBase.init with Z3RefCountedObject.init: store the raw result and the
\* context the method passes, then Z3_inc_ref.
Wrap(w, n) ==
    /\ NativeIdle /\ n \in returned
    /\ handle[w] = NoNode /\ owner[w] = NoContext
    /\ handle' = [handle EXCEPT ![w] = n]
    /\ owner' = [owner EXCEPT ![w] = via]
    /\ rc' = Inc(rc, {n})
    /\ returned' = returned \ {n}
    /\ borrowed' = IF returned = {n} THEN {} ELSE borrowed
    /\ via' = IF returned = {n} THEN NoContext ELSE via
    /\ UNCHANGED <<ctx, userRef, table, erase, trail, mode, batch>>

\* Variant: decRef increments, as in Z3FixedPoint.
DeinitIncrements(w) ==
    LET n == handle[w]
    IN  /\ n # NoNode /\ w \notin borrowed /\ NativeIdle
        /\ rc' = Inc(rc, {n})
        /\ handle' = [handle EXCEPT ![w] = NoNode]
        /\ UNCHANGED <<ctx, userRef, table, erase, trail, mode, owner,
                       returned, via, borrowed, batch>>

\* Z3RefCountedObject.deinit: ARC drops a wrapper nobody is using, possibly
\* while a result is waiting to be wrapped; Z3_dec_ref refuses a cell whose
\* count is already zero.
Deinit(w) ==
    LET n == handle[w]
    IN  /\ n # NoNode /\ w \notin borrowed /\ NativeIdle
        /\ rc' = IF rc[n] = 0 THEN rc ELSE Dec(rc, {n})
        /\ erase' = Dying(rc, {n})
        /\ handle' = [handle EXCEPT ![w] = NoNode]
        /\ UNCHANGED <<ctx, userRef, table, trail, mode, owner, returned,
                       via, borrowed, batch>>

\* Variant: the context is released while the term is still held.
ReleaseEarly(w) ==
    /\ owner[w] # NoContext /\ NativeIdle
    /\ owner' = [owner EXCEPT ![w] = NoContext]
    /\ UNCHANGED <<ctx, userRef, table, rc, erase, trail, mode, handle,
                   returned, via, borrowed, batch>>

\* After deinit has run, the object's strong reference to the context goes.
Release(w) ==
    /\ handle[w] = NoNode /\ owner[w] # NoContext /\ NativeIdle
    /\ owner' = [owner EXCEPT ![w] = NoContext]
    /\ UNCHANGED <<ctx, userRef, table, rc, erase, trail, mode, handle,
                   returned, via, borrowed, batch>>

-----------------------------------------------------------------------------

Init ==
    /\ ctx = [c \in Context |-> "none"]
    /\ userRef = [c \in Context |-> FALSE]
    /\ table = {}
    /\ rc = [n \in Node |-> 0]
    /\ erase = {}
    /\ trail = [c \in Context |-> {}]
    /\ mode = [c \in Context |-> NoNode]
    /\ handle = [w \in Wrapper |-> NoNode]
    /\ owner = [w \in Wrapper |-> NoContext]
    /\ returned = {}
    /\ via = NoContext
    /\ borrowed = {}
    /\ batch = {}

ContextStep(c) ==
    \/ CreateContext(c) \/ DropContext(c)
    \/ DeinitContext(c) \/ DelContext(c) \/ DelManager(c)

CallStep(c) ==
    \/ \E n \in Node : Make(c, n)
    \/ \E w \in Wrapper : Translate(w, c)
    \/ \E S \in Batches : BeginBatch(c, S)
    \/ GetMode(c)
    \/ \E w \in Wrapper : SetMode(c, w)

WrapperStep(w) ==
    \/ \E n \in Node : Wrap(w, n)
    \/ Access(w) \/ Deinit(w) \/ Release(w)

Next ==
    \/ \E c \in Context : ContextStep(c) \/ CallStep(c)
    \/ \E w \in Wrapper : WrapperStep(w)
    \/ EndBatch
    \/ \E n \in Node : DeleteNode(n)

Spec == Init /\ [][Next]_vars

\* A native call that has begun runs to its end, and a deinit runs as part of
\* the release that makes it due: calls made elsewhere cannot put it off for
\* ever.  Calls and drops are the program's choice and have no fairness.
FairSpec ==
    /\ Spec
    /\ WF_vars(EndBatch)
    /\ WF_vars(\E n \in Node : DeleteNode(n))
    /\ \A w \in Wrapper : SF_vars(Release(w))
    /\ \A c \in Context : /\ SF_vars(DeinitContext(c))
                          /\ SF_vars(DelContext(c))
                          /\ SF_vars(DelManager(c))

-----------------------------------------------------------------------------
(* Properties.                                                             *)

TypeOK ==
    /\ ctx \in [Context -> {"none", "alive", "deinit", "closing", "deleted"}]
    /\ userRef \in [Context -> BOOLEAN]
    /\ table \subseteq Node
    /\ rc \in [Node -> Nat]
    /\ erase \subseteq Node
    /\ trail \in [Context -> SUBSET Node]
    /\ mode \in [Context -> Node \cup {NoNode}]
    /\ handle \in [Wrapper -> Node \cup {NoNode}]
    /\ owner \in [Wrapper -> Context \cup {NoContext}]
    /\ returned \subseteq Node
    /\ via \in Context \cup {NoContext}
    /\ borrowed \subseteq Wrapper
    /\ batch \subseteq Node

WrappersOf(n) == {w \in Wrapper : handle[w] = n}
ParentsOf(n)  == ParentsIn(table, n)
OnTrail(n)    == IF n \in trail[Home[n]] THEN 1 ELSE 0
Cached(n)     == IF mode[Home[n]] = n THEN 1 ELSE 0

\* The count of every cell is exactly the number of its holders: wrappers,
\* parent cells, the trail and the cached rounding mode of its context.  An
\* inc_ref or dec_ref too many or too few anywhere breaks it for good.
RefCountExact ==
    \A n \in Node :
        rc[n] = Cardinality(WrappersOf(n)) + Cardinality(ParentsOf(n))
                    + OnTrail(n) + Cached(n)

\* Every raw pointer the program may still pass to Z3 - of a live wrapper, of
\* a result on its way to its wrapper, of the cached rounding mode - is an
\* allocated cell that is not being deleted, in a context not deleted either.
NoDanglingHandle ==
    \A n \in {handle[w] : w \in Wrapper} \cup {mode[c] : c \in Context}
                \cup returned :
        n # NoNode => n \in table \ erase /\ ctx[Home[n]] = "alive"

\* A wrapper keeps the context of its term, and no other, alive until its
\* deinit is over, the release of the reference to the context included.
OwnerAlive ==
    \A w \in Wrapper :
        /\ owner[w] # NoContext => ctx[owner[w]] = "alive"
        /\ handle[w] # NoNode => owner[w] = Home[handle[w]]

\* The strengthening that makes these inductive.  The cells waiting to be
\* erased are those without a holder; a cell's children are allocated with
\* it; holders only hold allocated cells of contexts in the right state; a
\* result in flight is held by the trail, by the cached mode or by a wrapper
\* that cannot go away, and is wrapped with the context it belongs to.
EraseExact ==
    /\ erase \subseteq table
    /\ \A n \in table : n \in erase <=> rc[n] = 0

TableClosed == \A p \in table : Args[p] \subseteq table

HoldersValid ==
    /\ \A w \in Wrapper : handle[w] # NoNode => handle[w] \in table
    /\ \A c \in Context :
          /\ \A n \in trail[c] : n \in table /\ Home[n] = c
          /\ trail[c] # {} => ctx[c] \in {"alive", "deinit"}
          /\ mode[c] # NoNode => mode[c] \in table /\ Home[mode[c]] = c
          /\ mode[c] # NoNode <=> ctx[c] = "alive"

ResultsHeld ==
    \A n \in returned :
        /\ n \in table /\ ctx[Home[n]] = "alive"
        /\ \/ n \in trail[Home[n]]
           \/ mode[Home[n]] = n
           \/ \E w \in borrowed :
                 handle[w] # NoNode /\ n \in Args[handle[w]] \cup {handle[w]}

BatchPending ==
    batch # {} =>
        /\ returned = {}
        /\ \A n \in batch : ctx[Home[n]] = "alive" /\ trail[Home[n]] = {}

ViaHome ==
    IF returned \cup batch = {} THEN via = NoContext
    ELSE \A n \in returned \cup batch : via = Home[n]

HeapInv ==
    /\ TypeOK
    /\ RefCountExact
    /\ EraseExact
    /\ TableClosed
    /\ OwnerAlive
    /\ HoldersValid
    /\ ResultsHeld
    /\ BatchPending

IInv == HeapInv /\ ViaHome

\* When no deletion is under way the table is exactly what can be reached
\* from the wrappers, the results in flight, the trails and the cached modes:
\* reference counting neither leaks a term nor frees a subterm in use.
Roots == ({handle[w] : w \in Wrapper} \cup {mode[c] : c \in Context}
            \cup returned \cup UNION {trail[c] : c \in Context}) \ {NoNode}

TableIsReachable == NativeIdle => table = UNION {Sub[n] : n \in Roots}

\* The counted heap implements the collected one of TermHeap: every step that
\* frees a cell frees one the program cannot reach, whatever mixture of calls,
\* returns and deinits led to it.
Heap == INSTANCE TermHeap WITH heap <- table, roots <- Roots

CollectedHeap == Heap!Spec

\* The manager is destroyed only when its table is empty: ~ast_manager has
\* nothing to report as leaked.
ManagerEmptyAtEnd ==
    [][\A c \in Context :
          ctx[c] = "closing" /\ ctx'[c] = "deleted"
              => \A n \in table : Home[n] # c]_vars

\* A context that neither the program nor any undisposed wrapper uses is
\* deleted in the end.
ContextIsDeleted ==
    \A c \in Context :
        (/\ ctx[c] = "alive" /\ ~userRef[c]
         /\ \A w \in Wrapper : handle[w] = NoNode \/ Home[handle[w]] # c
         /\ returned = {})
        ~> ctx[c] = "deleted"
=============================================================================
