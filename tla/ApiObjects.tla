----------------------------- MODULE ApiObjects -----------------------------
(***************************************************************************)
(* The api::objects of one context (solvers, models, vectors, tactics,     *)
(* statistics, ...) and its error register, under the methods of the Swift *)
(* classes that wrap them.                                                 *)
(*                                                                         *)
(* A native call that returns an object leaves one reference to it, in     *)
(* m_last_obj; the wrapper's init takes another one with Z3_..._inc_ref,   *)
(* which is an API call like any other and resets the error register.  A   *)
(* method that throws reads that register after the native call: whether   *)
(* before or after the wrapping is the method's choice.  The native call,  *)
(* the wrapping and the check are separate steps.  The program is          *)
(* sequential: wrappers are dropped between methods.                       *)
(***************************************************************************)
EXTENDS Integers, FiniteSets

CONSTANTS
    Object,     \* addresses of api::objects, reused after dealloc
    Wrapper,    \* Swift objects (slots, reused after deinit)
    Plain,      \* kinds created by a call that cannot fail
    NoObject

ASSUME FiniteAssumption == IsFiniteSet(Object) /\ IsFiniteSet(Wrapper)

ASSUME KindAssumption ==
    /\ Plain \subseteq {"solver", "params", "stats", "parserContext",
                        "fixedpoint"}
    /\ NoObject \notin Object

Kind == Plain \cup {"tactic", "model", "vector"}

\* The dec_ref functions of these kinds reset the error register; those of
\* the others leave it as it is.
ResettingDecRef == {"stats", "parserContext"}

VARIABLES
    live,       \* the native context has not been deleted
    userRef,    \* the program holds the Z3Context
    kind,       \* what is allocated at each address
    count,      \* m_ref_count
    lastObj,    \* m_last_obj
    error,      \* m_error_code
    handle,     \* the object of each wrapper
    call,       \* the running method
    done        \* how the last method ended

vars == <<live, userRef, kind, count, lastObj, error, handle, call, done>>

Allocated == {o \in Object : kind[o] # "free"}

Idle == [step |-> "idle", method |-> "none", result |-> NoObject,
         failed |-> FALSE]

Running(s, m, o, f) ==
    [step |-> s, method |-> m, result |-> o, failed |-> f]

Ended(m, f, out) == [method |-> m, failed |-> f, outcome |-> out]

CanCall ==
    /\ live /\ call = Idle
    /\ userRef \/ \E w \in Wrapper : handle[w] # NoObject

-----------------------------------------------------------------------------
(* Reference counts of api::object.                                        *)

IncRef(r, o) == [r EXCEPT ![o] = r[o] + 1]
DecRef(r, o) == IF o = NoObject THEN r ELSE [r EXCEPT ![o] = r[o] - 1]

\* object::dec_ref deletes the object when its count becomes zero.
Free(k, r, o) == IF o # NoObject /\ r[o] = 1
                 THEN [k EXCEPT ![o] = "free"] ELSE k

\* Variant: the last object is not released when another one is saved.
SaveObjectKeepsOld(o, k) ==
    /\ kind' = [kind EXCEPT ![o] = k]
    /\ count' = IncRef(count, o)
    /\ lastObj' = o

\* alloc of a new api::object and context::save_object.
SaveObject(o, k) ==
    /\ kind[o] = "free"
    /\ kind' = Free([kind EXCEPT ![o] = k], count, lastObj)
    /\ count' = DecRef(IncRef(count, o), lastObj)
    /\ lastObj' = o

-----------------------------------------------------------------------------
(* Methods: the native call.                                               *)

\* makeSolver, makeParams, getStatistics, createParserContext, ...: the
\* result is wrapped as it is.
Create(o, k) ==
    /\ CanCall
    /\ SaveObject(o, k)
    /\ error' = "ok"
    /\ call' = Running("wrap", "create", o, FALSE)
    /\ UNCHANGED <<live, userRef, handle, done>>

\* Variant: Z3_mk_tactic does not reset the register.
MakeTacticStale(o) ==
    /\ CanCall
    /\ SaveObject(o, "tactic")
    /\ call' = Running("check", "makeTactic", o, FALSE)
    /\ UNCHANGED <<live, userRef, error, handle, done>>

\* makeTactic with a known name: the error is checked before the wrapping.
MakeTactic(o) ==
    /\ CanCall
    /\ SaveObject(o, "tactic")
    /\ error' = "ok"
    /\ call' = Running("check", "makeTactic", o, FALSE)
    /\ UNCHANGED <<live, userRef, handle, done>>

\* makeTactic with an unknown one: a null result and Z3_INVALID_ARG.
MakeTacticUnknown ==
    /\ CanCall
    /\ error' = "failed"
    /\ call' = Running("check", "makeTactic", NoObject, TRUE)
    /\ UNCHANGED <<live, userRef, kind, count, lastObj, handle, done>>

\* getModel: an optional result.  Without a model the method ends with nil
\* and leaves Z3_INVALID_USAGE in the register.
GetModel(o) ==
    /\ CanCall
    /\ SaveObject(o, "model")
    /\ error' = "ok"
    /\ call' = Running("wrap", "getModel", o, FALSE)
    /\ UNCHANGED <<live, userRef, handle, done>>

GetModelMissing ==
    /\ CanCall
    /\ error' = "failed"
    /\ done' = Ended("getModel", TRUE, "nil")
    /\ UNCHANGED <<live, userRef, kind, count, lastObj, handle, call>>

\* parseSmtlib2String: a vector whether or not the text parses, and no reset
\* of the register at the start.
Parse(o, bad) ==
    /\ CanCall
    /\ SaveObject(o, "vector")
    /\ error' = IF bad THEN "failed" ELSE error
    /\ call' = Running("wrap", "parse", o, bad)
    /\ UNCHANGED <<live, userRef, handle, done>>

\* parseSmtlib2File on a file that cannot be read: the null result is passed
\* where Swift expects an object, and the program traps.
ParseFileMissing ==
    /\ CanCall
    /\ error' = "failed"
    /\ call' = Running("trapped", "parse", NoObject, TRUE)
    /\ UNCHANGED <<live, userRef, kind, count, lastObj, handle, done>>

\* Z3Solver.fromString and fromFile: no result, and no reset either.
SolverFromString(w, bad) ==
    /\ CanCall
    /\ handle[w] # NoObject /\ kind[handle[w]] = "solver"
    /\ error' = IF bad THEN "failed" ELSE error
    /\ call' = Running("check", "fromString", NoObject, bad)
    /\ UNCHANGED <<live, userRef, kind, count, lastObj, handle, done>>

-----------------------------------------------------------------------------
(* Methods: the rest.                                                      *)

\* Variant: the init of the wrapper does not take a reference.
WrapUncounted(w) ==
    /\ call.step = "wrap" /\ handle[w] = NoObject
    /\ handle' = [handle EXCEPT ![w] = call.result]
    /\ error' = "ok"
    /\ IF call.method = "parse"
       THEN call' = [call EXCEPT !.step = "check"] /\ done' = done
       ELSE call' = Idle /\ done' = Ended(call.method, call.failed, "value")
    /\ UNCHANGED <<live, userRef, kind, count, lastObj>>

\* Init of the wrapper, Z3_..._inc_ref included.  Only the parse methods have
\* something left to do then.
Wrap(w) ==
    /\ call.step = "wrap" /\ handle[w] = NoObject
    /\ handle' = [handle EXCEPT ![w] = call.result]
    /\ count' = IncRef(count, call.result)
    /\ error' = "ok"
    /\ IF call.method = "parse"
       THEN call' = [call EXCEPT !.step = "check"] /\ done' = done
       ELSE call' = Idle /\ done' = Ended(call.method, call.failed, "value")
    /\ UNCHANGED <<live, userRef, kind, lastObj>>

\* rethrowCurrentErrorCodeIfAvailable with an error in the register: the
\* method ends; a vector already wrapped is dropped like any other wrapper.
Throw ==
    /\ call.step = "check" /\ error # "ok"
    /\ call' = Idle
    /\ done' = Ended(call.method, call.failed, "thrown")
    /\ UNCHANGED <<live, userRef, kind, count, lastObj, error, handle>>

\* ... and without one.
Pass ==
    /\ call.step = "check" /\ error = "ok"
    /\ IF call.method = "makeTactic"
       THEN call' = [call EXCEPT !.step = "wrap"] /\ done' = done
       ELSE call' = Idle /\ done' = Ended(call.method, call.failed, "value")
    /\ UNCHANGED <<live, userRef, kind, count, lastObj, error, handle>>

-----------------------------------------------------------------------------
(* ARC, and the end of the context.                                        *)

\* Variant: deinit forgets to give the reference back.
DeinitForgets(w) ==
    /\ call = Idle /\ handle[w] # NoObject
    /\ kind[handle[w]] # "fixedpoint"
    /\ handle' = [handle EXCEPT ![w] = NoObject]
    /\ UNCHANGED <<live, userRef, kind, count, lastObj, error, call, done>>

\* The last reference to a wrapper goes: decRef of its class.
Deinit(w) ==
    LET o == handle[w]
    IN  /\ call = Idle /\ o # NoObject
        /\ kind[o] # "fixedpoint"
        /\ kind' = Free(kind, count, o)
        /\ count' = DecRef(count, o)
        /\ error' = IF kind[o] \in ResettingDecRef THEN "ok" ELSE error
        /\ handle' = [handle EXCEPT ![w] = NoObject]
        /\ UNCHANGED <<live, userRef, lastObj, call, done>>

\* decRef of Z3FixedPoint calls Z3_fixedpoint_inc_ref.
DeinitFixedPoint(w) ==
    LET o == handle[w]
    IN  /\ call = Idle /\ o # NoObject
        /\ kind[o] = "fixedpoint"
        /\ count' = IncRef(count, o)
        /\ error' = "ok"
        /\ handle' = [handle EXCEPT ![w] = NoObject]
        /\ UNCHANGED <<live, userRef, kind, lastObj, call, done>>

DropContext ==
    /\ call = Idle /\ userRef
    /\ userRef' = FALSE
    /\ UNCHANGED <<live, kind, count, lastObj, error, handle, call, done>>

\* Z3_del_context, once neither the program nor a wrapper refers to the
\* Z3Context: ~context lets go of the last object, then deallocates whatever
\* is left in m_allocated_objects.
DeleteContext ==
    /\ live /\ call = Idle /\ ~userRef
    /\ \A w \in Wrapper : handle[w] = NoObject
    /\ live' = FALSE
    /\ kind' = [o \in Object |-> "free"]
    /\ count' = [o \in Object |-> 0]
    /\ lastObj' = NoObject
    /\ error' = "ok"
    /\ UNCHANGED <<userRef, handle, call, done>>

-----------------------------------------------------------------------------

Init ==
    /\ live = TRUE /\ userRef = TRUE
    /\ kind = [o \in Object |-> "free"]
    /\ count = [o \in Object |-> 0]
    /\ lastObj = NoObject
    /\ error = "ok"
    /\ handle = [w \in Wrapper |-> NoObject]
    /\ call = Idle
    /\ done = Ended("none", FALSE, "value")

NativeCall ==
    \/ \E o \in Object :
          \/ \E k \in Plain : Create(o, k)
          \/ MakeTactic(o)
          \/ GetModel(o)
          \/ \E bad \in BOOLEAN : Parse(o, bad)
    \/ MakeTacticUnknown
    \/ GetModelMissing
    \/ ParseFileMissing
    \/ \E w \in Wrapper, bad \in BOOLEAN : SolverFromString(w, bad)

Next ==
    \/ NativeCall
    \/ \E w \in Wrapper : Wrap(w) \/ Deinit(w) \/ DeinitFixedPoint(w)
    \/ Throw \/ Pass
    \/ DropContext \/ DeleteContext

Spec == Init /\ [][Next]_vars

-----------------------------------------------------------------------------
(* Properties.                                                             *)

Methods == {"none", "create", "makeTactic", "getModel", "parse", "fromString"}

TypeOK ==
    /\ live \in BOOLEAN /\ userRef \in BOOLEAN
    /\ kind \in [Object -> Kind \cup {"free"}]
    /\ count \in [Object -> Nat]
    /\ lastObj \in Object \cup {NoObject}
    /\ error \in {"ok", "failed"}
    /\ handle \in [Wrapper -> Object \cup {NoObject}]
    /\ call \in [step : {"idle", "wrap", "check", "trapped"},
                 method : Methods, result : Object \cup {NoObject},
                 failed : BOOLEAN]
    /\ done \in [method : Methods, failed : BOOLEAN,
                 outcome : {"value", "nil", "thrown"}]

HandlesOf(o) == {w \in Wrapper : handle[w] = o}
LastHolds(o) == IF lastObj = o THEN 1 ELSE 0

\* An object is counted once for its wrapper and once while it is m_last_obj,
\* and is allocated exactly as long as one of them holds it: neither a result
\* that is never wrapped (a throw after the native call) nor a later call
\* that replaces m_last_obj may break that.  Z3FixedPoint objects, whose
\* count only grows, can outlive their holders but not be freed under them.
HeldExactly ==
    \A o \in Object :
        LET held == Cardinality(HandlesOf(o)) + LastHolds(o)
        IN  IF kind[o] = "fixedpoint" THEN count[o] >= held
            ELSE count[o] = held /\ (kind[o] # "free" <=> held > 0)

\* The object a method is about to wrap is still allocated, and every wrapper
\* has an object to itself.
ResultAllocated ==
    /\ call.step = "wrap" => call.result \in Allocated
    /\ \A w \in Wrapper : handle[w] # NoObject => handle[w] \in Allocated
    /\ \A v, w \in Wrapper : handle[v] = handle[w] /\ v # w
                                => handle[v] = NoObject

\* The methods that check the register before they wrap anything report
\* their own failures: a tactic is refused exactly when its name is unknown,
\* whatever an earlier call left in the register, and a text a solver could
\* not load never goes unnoticed.
OwnErrorThrown ==
    /\ done.method = "makeTactic" => (done.outcome = "thrown" <=> done.failed)
    /\ done.method = "fromString" /\ done.failed => done.outcome = "thrown"

\* When the context is deleted nothing but the last result is left for
\* ~context to collect, apart from fixedpoint objects.
OthersCollected ==
    [][live /\ ~live'
        => \A o \in Allocated : o = lastObj \/ kind[o] = "fixedpoint"]_vars

-----------------------------------------------------------------------------
(* What the documentation says and the code does not do.                   *)

\* "Return `true` if the last API call resulted in an error", of hasError:
\* a parse method, which throws what hasError reports, fails by throwing.
ParseErrorThrown ==
    done.method = "parse" /\ done.failed => done.outcome = "thrown"
=============================================================================
