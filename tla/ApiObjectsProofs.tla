--------------------------- MODULE ApiObjectsProofs ---------------------------
(***************************************************************************)
(* Proofs about ApiObjects: m_last_obj and the wrappers hold every object  *)
(* exactly, whichever method is in whatever step, so that what a method is *)
(* about to wrap, and whatever has been wrapped, is still allocated.       *)
(***************************************************************************)
EXTENDS ApiObjects, FiniteSetTheorems, TLAPS

-----------------------------------------------------------------------------
(* The inductive invariant.                                                *)

\* A result nobody but m_last_obj holds yet.
Fresh(o) == o \in Allocated /\ lastObj = o /\ HandlesOf(o) = {}

\* Where a method is determines what it still has to do.
CallInv ==
    /\ call.step = "idle" => call = Idle
    /\ call.step = "wrap" => /\ Fresh(call.result)
                             /\ call.method \notin {"none", "fromString"}
                             /\ call.method = "makeTactic" => ~call.failed
    /\ call.step = "check" =>
          /\ call.method \in {"makeTactic", "parse", "fromString"}
          /\ call.method = "makeTactic" =>
                /\ call.failed <=> error # "ok"
                /\ error = "ok" => Fresh(call.result)
          /\ call.method = "fromString" /\ call.failed => error # "ok"

IInv == TypeOK /\ HeldExactly /\ ResultAllocated /\ CallInv /\ OwnErrorThrown

-----------------------------------------------------------------------------
(* Counting the holders of an object.                                      *)

\* What a count has to do with the number of holders.
Exact(k, r, n) == IF k = "fixedpoint" THEN r >= n
                  ELSE r = n /\ (k # "free" <=> n > 0)

\* The wrappers of an object are finitely many.
LEMMA HandlesCounted ==
    ASSUME NEW h, NEW o
    PROVE  LET held == {w \in Wrapper : h[w] = o}
           IN  /\ IsFiniteSet(held) /\ Cardinality(held) \in Nat
               /\ Cardinality(held) = 0 <=> held = {}
<1> DEFINE held == {w \in Wrapper : h[w] = o}
<1>1. IsFiniteSet(held)
  BY FiniteAssumption, FS_Subset
<1> HIDE DEF held
<1> QED  BY <1>1, FS_CardinalityType, FS_EmptySet DEF held

\* A wrapper that takes an object adds one to its holders, ...
LEMMA HandleTaken ==
    ASSUME NEW h \in [Wrapper -> Object \cup {NoObject}], NEW w \in Wrapper,
           h[w] = NoObject, NEW o \in Object, NEW p \in Object
    PROVE  Cardinality({v \in Wrapper : [h EXCEPT ![w] = o][v] = p}) =
               Cardinality({v \in Wrapper : h[v] = p})
                   + (IF p = o THEN 1 ELSE 0)
<1> DEFINE old == {v \in Wrapper : h[v] = p}
           new == {v \in Wrapper : [h EXCEPT ![w] = o][v] = p}
<1>1. IsFiniteSet(old) /\ Cardinality(old) \in Nat
  BY HandlesCounted
<1>2. w \notin old
  BY KindAssumption
<1>3. CASE p = o
  <2>1. new = old \cup {w}
    BY <1>3
  <2> HIDE DEF old, new
  <2> QED  BY <1>1, <1>2, <1>3, <2>1, FS_AddElement DEF old, new
<1>4. CASE p # o
  <2>1. new = old
    BY <1>4, KindAssumption
  <2> HIDE DEF old, new
  <2>2. Cardinality(new) = Cardinality(old) + (IF p = o THEN 1 ELSE 0)
    BY <1>1, <1>4, <2>1
  <2> QED  BY <2>2 DEF old, new
<1> QED  BY <1>3, <1>4

\* ... and one that drops it takes one away.
LEMMA HandleDropped ==
    ASSUME NEW h \in [Wrapper -> Object \cup {NoObject}], NEW w \in Wrapper,
           NEW p \in Object
    PROVE  Cardinality({v \in Wrapper : [h EXCEPT ![w] = NoObject][v] = p}) =
               Cardinality({v \in Wrapper : h[v] = p})
                   - (IF p = h[w] THEN 1 ELSE 0)
<1> DEFINE old == {v \in Wrapper : h[v] = p}
           new == {v \in Wrapper : [h EXCEPT ![w] = NoObject][v] = p}
<1>1. IsFiniteSet(old) /\ Cardinality(old) \in Nat
  BY HandlesCounted
<1>2. new = old \ {w} /\ (w \in old <=> p = h[w])
  BY KindAssumption
<1> HIDE DEF old, new
<1>3. Cardinality(old \ {w})
          = IF w \in old THEN Cardinality(old) - 1 ELSE Cardinality(old)
  BY <1>1, FS_RemoveElement
<1>4. Cardinality(new) = Cardinality(old) - (IF p = h[w] THEN 1 ELSE 0)
  BY <1>1, <1>2, <1>3
<1> QED  BY <1>4 DEF old, new

\* HeldExactly, object by object.
LEMMA HeldIsExact ==
    HeldExactly <=> \A o \in Object :
        Exact(kind[o], count[o], Cardinality(HandlesOf(o)) + LastHolds(o))
  BY DEF HeldExactly, Exact

LEMMA HeldIsExactNext ==
    HeldExactly' <=> \A o \in Object :
        Exact(kind'[o], count'[o], Cardinality(HandlesOf(o)') + LastHolds(o)')
  BY DEF HeldExactly, Exact

\* The numbers HeldExactly adds.
LEMMA HolderCounts ==
    ASSUME NEW o
    PROVE  /\ Cardinality(HandlesOf(o)) \in Nat /\ LastHolds(o) \in {0, 1}
           /\ Cardinality(HandlesOf(o)) = 0 <=> HandlesOf(o) = {}
  BY HandlesCounted DEF HandlesOf, LastHolds

\* What is counted exactly is allocated while a wrapper refers to it.
WrappersHold ==
    \A w \in Wrapper : handle[w] # NoObject => handle[w] \in Allocated

LEMMA WrappedAllocated == TypeOK /\ HeldExactly => WrappersHold
<1> SUFFICES ASSUME TypeOK, HeldExactly,
                    NEW w \in Wrapper, handle[w] # NoObject
             PROVE  handle[w] \in Allocated
  BY DEF WrappersHold
<1> DEFINE o == handle[w]
<1>1. o \in Object /\ w \in HandlesOf(o)
  BY DEF TypeOK, HandlesOf
<1>2. Cardinality(HandlesOf(o)) + LastHolds(o) > 0
  <2>1. HandlesOf(o) # {}
    BY <1>1
  <2> HIDE DEF o
  <2> QED  BY <2>1, HolderCounts
<1>3. kind[o] # "free"
  BY <1>1, <1>2, HeldIsExact DEF Exact
<1> QED  BY <1>1, <1>3 DEF Allocated

\* An address that is free has no holders and is not counted.
LEMMA FreeUnheld ==
    ASSUME TypeOK, HeldExactly, NEW o \in Object, kind[o] = "free"
    PROVE  HandlesOf(o) = {} /\ lastObj # o /\ count[o] = 0
<1>1. Cardinality(HandlesOf(o)) + LastHolds(o) = 0 /\ count[o] = 0
  <2>1. Exact("free", count[o], Cardinality(HandlesOf(o)) + LastHolds(o))
    BY HeldIsExact
  <2> QED  BY <2>1, HolderCounts DEF Exact
<1>2. Cardinality(HandlesOf(o)) = 0 /\ LastHolds(o) = 0
  BY <1>1, HolderCounts
<1> QED  BY <1>1, <1>2, HolderCounts DEF LastHolds

-----------------------------------------------------------------------------
(* The steps actions are made of.                                          *)

\* A new object takes the place of the last one, which goes unless a wrapper
\* has taken it in the meantime.
LEMMA SaveStep ==
    ASSUME IInv, NEW o \in Object, NEW k \in Kind, SaveObject(o, k),
           UNCHANGED handle
    PROVE  /\ kind' \in [Object -> Kind \cup {"free"}]
           /\ count' \in [Object -> Nat]
           /\ lastObj' = o
           /\ HeldExactly'
           /\ Fresh(o)'
<1> DEFINE old == lastObj
           held(p) == Cardinality(HandlesOf(p))
<1>1. /\ kind \in [Object -> Kind \cup {"free"}]
      /\ count \in [Object -> Nat] /\ old \in Object \cup {NoObject}
      /\ k # "free" /\ NoObject \notin Object
  BY KindAssumption DEF IInv, TypeOK, Kind
<1>2. /\ HandlesOf(o) = {} /\ old # o /\ count[o] = 0
      /\ kind[o] = "free" /\ lastObj' = o
  BY FreeUnheld DEF IInv, SaveObject
<1>3. \A p \in Object :
          /\ held(p) \in Nat
          /\ Exact(kind[p], count[p], held(p) + (IF p = old THEN 1 ELSE 0))
          /\ HandlesOf(p)' = HandlesOf(p)
          /\ LastHolds(p)' = IF p = o THEN 1 ELSE 0
  BY <1>2, HolderCounts, HeldIsExact DEF IInv, LastHolds, HandlesOf
<1>4. \A p \in Object :
          /\ kind'[p] = IF p = old /\ count[p] = 1 THEN "free"
                        ELSE IF p = o THEN k ELSE kind[p]
          /\ count'[p] = IF p = o THEN 1
                         ELSE IF p = old THEN count[p] - 1 ELSE count[p]
  <2>1. CASE old = NoObject
    BY <1>1, <1>2, <2>1 DEF SaveObject, Free, IncRef, DecRef
  <2>2. CASE old # NoObject
    BY <1>1, <1>2, <2>2 DEF SaveObject, Free, IncRef, DecRef
  <2> QED  BY <2>1, <2>2
<1>5. kind' \in [Object -> Kind \cup {"free"}]
  BY <1>1 DEF SaveObject, Free
<1>6. DOMAIN count' = Object /\ count' = [p \in Object |-> count'[p]]
  BY <1>1 DEF SaveObject, IncRef, DecRef
<1> HIDE DEF held
<1>7. ASSUME NEW p \in Object
      PROVE  /\ count'[p] \in Nat
             /\ Exact(kind'[p], count'[p], held(p) + (IF p = o THEN 1 ELSE 0))
  <2>1. CASE p = o
    <3>1. held(o) = 0
      BY <1>2, HolderCounts DEF held
    <3> QED  BY <1>1, <1>2, <1>4, <2>1, <3>1 DEF Exact
  <2>2. CASE p = old
    <3>1. /\ count[p] \in Nat /\ held(p) \in Nat
          /\ Exact(kind[p], count[p], held(p) + 1)
      BY <1>1, <1>3, <2>2
    <3>2. p # o
      BY <1>2, <2>2
    <3> QED  BY <1>4, <2>2, <3>1, <3>2 DEF Exact
  <2>3. CASE p # o /\ p # old
    BY <1>1, <1>3, <1>4, <2>3
  <2> QED  BY <2>1, <2>2, <2>3
<1>8. count' \in [Object -> Nat]
  BY <1>6, <1>7
<1>9. HeldExactly'
  BY <1>3, <1>7, HeldIsExactNext DEF held
<1>10. Fresh(o)'
  <2>1. kind'[o] = k
    BY <1>2, <1>4
  <2> QED  BY <1>1, <1>2, <1>3, <2>1 DEF Fresh, Allocated
<1> QED  BY <1>2, <1>5, <1>8, <1>9, <1>10

\* As long as wrappers and the counts of their objects are right, what they
\* refer to is allocated.
LEMMA ResultsAllocated ==
    ASSUME TypeOK', HeldExactly', CallInv',
           \A v, w \in Wrapper : handle'[v] = handle'[w] /\ v # w
                                     => handle'[v] = NoObject
    PROVE  ResultAllocated'
<1>1. WrappersHold'
  BY WrappedAllocated, PTL
<1> QED  BY <1>1 DEF WrappersHold, ResultAllocated, CallInv, Fresh

\* What no method changes stays held.
LEMMA HeldUnchanged ==
    ASSUME HeldExactly, UNCHANGED <<kind, count, lastObj, handle>>
    PROVE  HeldExactly' /\ \A o : Fresh(o) => Fresh(o)'
<1>1. HeldExactly'
  BY DEF HeldExactly, HandlesOf, LastHolds
<1> QED  BY <1>1 DEF Fresh, Allocated, HandlesOf

\* Wrappers that stay as they are do not come to share an object.
LEMMA HandlesUnshared ==
    ASSUME ResultAllocated, UNCHANGED handle
    PROVE  \A v, w \in Wrapper : handle'[v] = handle'[w] /\ v # w
                                     => handle'[v] = NoObject
  BY DEF ResultAllocated

-----------------------------------------------------------------------------
(* One lemma per action, one step per conjunct of IInv.                    *)

\* Native calls that return an object.
LEMMA ObjectCallInv ==
    ASSUME IInv, NEW o \in Object, NEW k \in Kind, NEW m \in Methods,
           NEW failed \in BOOLEAN, NEW step \in {"wrap", "check"},
           CanCall, SaveObject(o, k), call' = Running(step, m, o, failed),
           step = "wrap" => /\ m \notin {"none", "fromString"}
                            /\ m = "makeTactic" => ~failed,
           step = "check" => m = "makeTactic" /\ (failed <=> error' # "ok"),
           error' \in {"ok", "failed"},
           UNCHANGED <<live, userRef, handle, done>>
    PROVE  IInv'
<1>1. /\ kind' \in [Object -> Kind \cup {"free"}]
      /\ count' \in [Object -> Nat] /\ lastObj' = o
      /\ HeldExactly' /\ Fresh(o)'
  BY SaveStep
<1>2. TypeOK'
  BY <1>1 DEF IInv, TypeOK, Running
<1>3. CallInv'
  BY <1>1 DEF CallInv, Running
<1>4. OwnErrorThrown'
  BY DEF IInv, OwnErrorThrown
<1>5. ResultAllocated'
  BY <1>1, <1>2, <1>3, HandlesUnshared, ResultsAllocated DEF IInv
<1> QED  BY <1>1, <1>2, <1>3, <1>4, <1>5 DEF IInv

\* The running method and the end of the last one have their types.
CallType == [step : {"idle", "wrap", "check", "trapped"}, method : Methods,
             result : Object \cup {NoObject}, failed : BOOLEAN]
DoneType == [method : Methods, failed : BOOLEAN,
             outcome : {"value", "nil", "thrown"}]

LEMMA StepChanged ==
    ASSUME NEW c \in CallType, NEW s \in {"wrap", "check"}
    PROVE  LET d == [c EXCEPT !.step = s]
           IN  /\ d \in CallType /\ d.step = s /\ d.method = c.method
               /\ d.result = c.result /\ d.failed = c.failed
  BY DEF CallType

\* Native calls without a result, each with what it leaves in the register.
LEMMA PlainCallInv ==
    ASSUME IInv, UNCHANGED <<live, userRef, kind, count, lastObj, handle>>,
           error' \in {"ok", "failed"},
           call' \in CallType, done' \in DoneType, CallInv', OwnErrorThrown'
    PROVE  IInv'
<1>1. HeldExactly'
  BY HeldUnchanged DEF IInv
<1>2. TypeOK'
  BY DEF IInv, TypeOK, CallType, DoneType
<1>3. ResultAllocated'
  BY <1>1, <1>2, HandlesUnshared, ResultsAllocated DEF IInv
<1> QED  BY <1>1, <1>2, <1>3 DEF IInv

LEMMA MakeTacticUnknownInv ==
    ASSUME IInv, MakeTacticUnknown
    PROVE  IInv'
<1>1. call' \in CallType /\ done' \in DoneType
  BY DEF IInv, TypeOK, MakeTacticUnknown, Running, CallType, DoneType, Methods
<1>2. CallInv'
  BY DEF CallInv, MakeTacticUnknown, Running
<1>3. OwnErrorThrown'
  BY DEF IInv, OwnErrorThrown, MakeTacticUnknown
<1> QED  BY <1>1, <1>2, <1>3, PlainCallInv DEF MakeTacticUnknown

LEMMA GetModelMissingInv ==
    ASSUME IInv, GetModelMissing
    PROVE  IInv'
<1>1. call' \in CallType /\ done' \in DoneType
  BY DEF IInv, TypeOK, GetModelMissing, Ended, CallType, DoneType, Methods
<1>2. CallInv'
  <2>1. call' = Idle
    BY DEF GetModelMissing, CanCall
  <2> QED  BY <2>1 DEF CallInv, Idle
<1>3. OwnErrorThrown'
  BY DEF OwnErrorThrown, GetModelMissing, Ended
<1> QED  BY <1>1, <1>2, <1>3, PlainCallInv DEF GetModelMissing

LEMMA ParseFileMissingInv ==
    ASSUME IInv, ParseFileMissing
    PROVE  IInv'
<1>1. call' \in CallType /\ done' \in DoneType
  BY DEF IInv, TypeOK, ParseFileMissing, Running, CallType, DoneType, Methods
<1>2. CallInv'
  BY DEF CallInv, ParseFileMissing, Running
<1>3. OwnErrorThrown'
  BY DEF IInv, OwnErrorThrown, ParseFileMissing
<1> QED  BY <1>1, <1>2, <1>3, PlainCallInv DEF ParseFileMissing

LEMMA SolverFromStringInv ==
    ASSUME IInv, NEW w \in Wrapper, NEW bad \in BOOLEAN,
           SolverFromString(w, bad)
    PROVE  IInv'
<1>1. call' \in CallType /\ done' \in DoneType
  BY DEF IInv, TypeOK, SolverFromString, Running, CallType, DoneType, Methods
<1>2. CallInv'
  BY DEF CallInv, SolverFromString, Running
<1>3. OwnErrorThrown'
  BY DEF IInv, OwnErrorThrown, SolverFromString
<1>4. error' \in {"ok", "failed"}
  BY DEF IInv, TypeOK, SolverFromString
<1> QED  BY <1>1, <1>2, <1>3, <1>4, PlainCallInv DEF SolverFromString

\* The wrapper becomes a second holder of the last result.
LEMMA WrapInv ==
    ASSUME IInv, NEW w \in Wrapper, Wrap(w)
    PROVE  IInv'
<1> DEFINE o == call.result
<1>1. /\ o \in Object /\ Fresh(o) /\ handle[w] = NoObject
      /\ handle \in [Wrapper -> Object \cup {NoObject}]
      /\ count \in [Object -> Nat] /\ kind[o] # "free"
      /\ handle' = [handle EXCEPT ![w] = o]
      /\ count' = [count EXCEPT ![o] = count[o] + 1]
      /\ UNCHANGED <<live, userRef, kind, lastObj>> /\ error' = "ok"
  BY DEF IInv, CallInv, Fresh, Allocated, Wrap, TypeOK, IncRef
<1> HIDE DEF o
<1>2. HeldExactly'
  <2>1. ASSUME NEW p \in Object
        PROVE  Exact(kind'[p], count'[p],
                     Cardinality(HandlesOf(p)') + LastHolds(p)')
    <3>1. Cardinality(HandlesOf(p)')
              = Cardinality(HandlesOf(p)) + (IF p = o THEN 1 ELSE 0)
      BY <1>1, HandleTaken DEF HandlesOf
    <3>2. LastHolds(p)' = LastHolds(p) /\ kind'[p] = kind[p]
          /\ count'[p] = IF p = o THEN count[p] + 1 ELSE count[p]
      BY <1>1 DEF LastHolds
    <3>3. /\ Cardinality(HandlesOf(p)) \in Nat /\ LastHolds(p) \in {0, 1}
          /\ count[p] \in Nat
          /\ Exact(kind[p], count[p], Cardinality(HandlesOf(p)) + LastHolds(p))
      BY <1>1, HolderCounts, HeldIsExact DEF IInv
    <3> QED  BY <1>1, <3>1, <3>2, <3>3 DEF Exact
  <2> QED  BY <2>1, HeldIsExactNext
<1>3. TypeOK'
  <2>1. call' \in CallType
    <3>1. Idle \in CallType /\ call \in CallType
      BY DEF Idle, CallType, Methods, IInv, TypeOK
    <3>2. call' = Idle \/ call' = [call EXCEPT !.step = "check"]
      BY DEF Wrap
    <3> QED  BY <3>1, <3>2, StepChanged
  <2>2. done' \in DoneType
    BY DEF IInv, TypeOK, Wrap, Ended, DoneType
  <2> QED  BY <1>1, <2>1, <2>2 DEF IInv, TypeOK, CallType, DoneType
<1>4. CallInv'
  <2>1. CASE call.method = "parse"
    <3>1. call'.step = "check" /\ call'.method = "parse"
      BY <2>1, StepChanged DEF IInv, TypeOK, Wrap, CallType
    <3> QED  BY <3>1 DEF CallInv
  <2>2. CASE call.method # "parse"
    BY <2>2 DEF CallInv, Wrap, Idle
  <2> QED  BY <2>1, <2>2
<1>5. OwnErrorThrown'
  BY DEF IInv, CallInv, OwnErrorThrown, Wrap, Ended
<1>6. \A v, u \in Wrapper : handle'[v] = handle'[u] /\ v # u
                                => handle'[v] = NoObject
  <2>1. \A v \in Wrapper : handle[v] # o
    BY <1>1 DEF Fresh, HandlesOf
  <2> QED  BY <1>1, <2>1 DEF IInv, ResultAllocated
<1> QED  BY <1>2, <1>3, <1>4, <1>5, <1>6, ResultsAllocated DEF IInv

\* The check of the register after the call.
LEMMA CheckInv ==
    ASSUME IInv, Throw \/ Pass
    PROVE  IInv'
<1>1. /\ UNCHANGED <<live, userRef, kind, count, lastObj, handle, error>>
      /\ call.step = "check"
  BY DEF Throw, Pass
<1>2. HeldExactly' /\ \A o : Fresh(o) => Fresh(o)'
  BY <1>1, HeldUnchanged DEF IInv
<1>3. TypeOK'
  <2>1. call' \in CallType
    <3>1. Idle \in CallType /\ call \in CallType
      BY DEF Idle, CallType, Methods, IInv, TypeOK
    <3>2. call' = Idle \/ call' = [call EXCEPT !.step = "wrap"]
      BY DEF Throw, Pass
    <3> QED  BY <3>1, <3>2, StepChanged
  <2>2. done' \in DoneType
    BY DEF IInv, TypeOK, Throw, Pass, Ended, DoneType
  <2> QED  BY <1>1, <2>1, <2>2 DEF IInv, TypeOK, CallType, DoneType
<1>4. CallInv'
  <2>1. CASE call' = Idle
    BY <2>1 DEF CallInv, Idle
  <2>2. CASE /\ call' = [call EXCEPT !.step = "wrap"] /\ error = "ok"
             /\ call.method = "makeTactic"
    <3>1. Fresh(call.result) /\ ~call.failed
      BY <1>1, <2>2 DEF IInv, CallInv
    <3>2. call'.step = "wrap" /\ call'.result = call.result
          /\ call'.method = "makeTactic" /\ call'.failed = call.failed
      BY <2>2 DEF IInv, TypeOK
    <3> QED  BY <1>2, <3>1, <3>2 DEF CallInv
  <2> QED  BY <2>1, <2>2 DEF Throw, Pass
<1>5. OwnErrorThrown'
  BY DEF IInv, CallInv, OwnErrorThrown, Throw, Pass, Ended
<1>6. ResultAllocated'
  BY <1>1, <1>2, <1>3, <1>4, HandlesUnshared, ResultsAllocated DEF IInv
<1> QED  BY <1>2, <1>3, <1>4, <1>5, <1>6 DEF IInv

\* A wrapper that goes takes its reference with it, and the object unless it
\* is still the last result.
LEMMA DeinitInv ==
    ASSUME IInv, NEW w \in Wrapper, Deinit(w)
    PROVE  IInv'
<1> DEFINE o == handle[w]
<1>1. /\ o \in Object /\ kind[o] # "fixedpoint" /\ o # NoObject
      /\ handle \in [Wrapper -> Object \cup {NoObject}]
      /\ count \in [Object -> Nat]
      /\ kind \in [Object -> Kind \cup {"free"}]
      /\ handle' = [handle EXCEPT ![w] = NoObject]
      /\ count' = [count EXCEPT ![o] = count[o] - 1]
      /\ kind' = IF count[o] = 1 THEN [kind EXCEPT ![o] = "free"] ELSE kind
      /\ UNCHANGED <<live, userRef, lastObj, call, done>> /\ call = Idle
  BY DEF IInv, Deinit, TypeOK, DecRef, Free
<1>2. /\ w \in HandlesOf(o)
      /\ Cardinality(HandlesOf(o)) \in Nat \ {0}
  <2>1. w \in HandlesOf(o)
    BY DEF HandlesOf
  <2> HIDE DEF o
  <2> QED  BY <2>1, HolderCounts
<1> HIDE DEF o
<1>3. \A p \in Object :
          /\ Cardinality(HandlesOf(p)) \in Nat /\ LastHolds(p) \in {0, 1}
          /\ count[p] \in Nat
          /\ Exact(kind[p], count[p], Cardinality(HandlesOf(p)) + LastHolds(p))
  BY <1>1, HolderCounts, HeldIsExact DEF IInv
<1>4. ASSUME NEW p \in Object
      PROVE  /\ count'[p] \in Nat
             /\ Exact(kind'[p], count'[p],
                      Cardinality(HandlesOf(p)') + LastHolds(p)')
  <2>1. Cardinality(HandlesOf(p)')
            = Cardinality(HandlesOf(p)) - (IF p = o THEN 1 ELSE 0)
    BY <1>1, HandleDropped DEF HandlesOf, o
  <2>2. /\ LastHolds(p)' = LastHolds(p)
        /\ count'[p] = IF p = o THEN count[p] - 1 ELSE count[p]
        /\ kind'[p] = IF p = o /\ count[p] = 1 THEN "free" ELSE kind[p]
    BY <1>1 DEF LastHolds
  <2> QED  BY <1>1, <1>2, <1>3, <2>1, <2>2 DEF Exact
<1>5. HeldExactly'
  BY <1>4, HeldIsExactNext
<1>6. TypeOK'
  <2>1. count' \in [Object -> Nat]
    BY <1>1, <1>4
  <2>2. kind' \in [Object -> Kind \cup {"free"}]
    BY <1>1
  <2>3. error' \in {"ok", "failed"}
    BY DEF IInv, TypeOK, Deinit
  <2> QED  BY <1>1, <2>1, <2>2, <2>3 DEF IInv, TypeOK
<1>7. CallInv'
  BY <1>1 DEF CallInv, Idle
<1>8. OwnErrorThrown'
  BY <1>1 DEF IInv, OwnErrorThrown
<1>9. \A v, u \in Wrapper : handle'[v] = handle'[u] /\ v # u
                                => handle'[v] = NoObject
  BY <1>1 DEF IInv, ResultAllocated
<1> QED  BY <1>5, <1>6, <1>7, <1>8, <1>9, ResultsAllocated DEF IInv

\* The count of a fixedpoint object only grows.
LEMMA DeinitFixedPointInv ==
    ASSUME IInv, NEW w \in Wrapper, DeinitFixedPoint(w)
    PROVE  IInv'
<1> DEFINE o == handle[w]
<1>1. /\ o \in Object /\ kind[o] = "fixedpoint"
      /\ handle \in [Wrapper -> Object \cup {NoObject}]
      /\ count \in [Object -> Nat]
      /\ handle' = [handle EXCEPT ![w] = NoObject]
      /\ count' = [count EXCEPT ![o] = count[o] + 1] /\ error' = "ok"
      /\ UNCHANGED <<live, userRef, kind, lastObj, call, done>> /\ call = Idle
  BY DEF IInv, DeinitFixedPoint, TypeOK, IncRef
<1>2. ASSUME NEW p \in Object
      PROVE  Exact(kind'[p], count'[p],
                   Cardinality(HandlesOf(p)') + LastHolds(p)')
  <2>1. Cardinality(HandlesOf(p)')
            = Cardinality(HandlesOf(p)) - (IF p = o THEN 1 ELSE 0)
    BY <1>1, HandleDropped DEF HandlesOf
  <2> HIDE DEF o
  <2>2. /\ LastHolds(p)' = LastHolds(p) /\ kind'[p] = kind[p]
        /\ count'[p] = IF p = o THEN count[p] + 1 ELSE count[p]
    BY <1>1 DEF LastHolds
  <2>3. /\ Cardinality(HandlesOf(p)) \in Nat /\ LastHolds(p) \in {0, 1}
        /\ count[p] \in Nat
        /\ Exact(kind[p], count[p], Cardinality(HandlesOf(p)) + LastHolds(p))
    BY <1>1, HolderCounts, HeldIsExact DEF IInv
  <2> QED  BY <1>1, <2>1, <2>2, <2>3 DEF Exact
<1>3. HeldExactly'
  BY <1>2, HeldIsExactNext
<1>4. TypeOK'
  BY <1>1 DEF IInv, TypeOK
<1>5. CallInv'
  BY <1>1 DEF CallInv, Idle
<1>6. OwnErrorThrown'
  BY <1>1 DEF IInv, OwnErrorThrown
<1>7. \A v, u \in Wrapper : handle'[v] = handle'[u] /\ v # u
                                => handle'[v] = NoObject
  BY <1>1 DEF IInv, ResultAllocated
<1> QED  BY <1>3, <1>4, <1>5, <1>6, <1>7, ResultsAllocated DEF IInv

\* Nothing is held in a context that has no objects.
Empty ==
    /\ kind = [o \in Object |-> "free"] /\ count = [o \in Object |-> 0]
    /\ lastObj = NoObject /\ \A w \in Wrapper : handle[w] = NoObject

LEMMA EmptyExact == Empty /\ call = Idle => HeldExactly /\ ResultAllocated
<1> SUFFICES ASSUME Empty, call = Idle
             PROVE  HeldExactly /\ ResultAllocated
  OBVIOUS
<1>1. \A o \in Object : HandlesOf(o) = {} /\ LastHolds(o) = 0
  BY KindAssumption DEF Empty, HandlesOf, LastHolds
<1>2. HeldExactly
  BY <1>1, HolderCounts, HeldIsExact DEF Empty, Exact
<1>3. ResultAllocated
  BY DEF Empty, ResultAllocated, Idle
<1> QED  BY <1>2, <1>3

LEMMA EmptyExactNext ==
    (Empty /\ call = Idle)' => HeldExactly' /\ ResultAllocated'
  BY EmptyExact, PTL

LEMMA DeleteContextInv ==
    ASSUME IInv, DeleteContext
    PROVE  IInv'
<1>1. Empty' /\ call' = Idle
  BY DEF DeleteContext, Empty
<1>2. TypeOK'
  BY DEF IInv, TypeOK, DeleteContext
<1>3. CallInv'
  BY <1>1 DEF CallInv, Idle
<1>4. OwnErrorThrown'
  BY DEF IInv, OwnErrorThrown, DeleteContext
<1> QED  BY <1>1, <1>2, <1>3, <1>4, EmptyExactNext DEF IInv

LEMMA InitInv == Init => IInv
<1> SUFFICES ASSUME Init
             PROVE  IInv
  OBVIOUS
<1>1. Empty /\ call = Idle
  BY DEF Init, Empty
<1>2. TypeOK
  BY DEF Init, TypeOK, Idle, Ended, Methods
<1>3. CallInv
  BY <1>1 DEF CallInv, Idle
<1>4. OwnErrorThrown
  BY DEF Init, OwnErrorThrown, Ended
<1> QED  BY <1>1, <1>2, <1>3, <1>4, EmptyExact DEF IInv

LEMMA NextInv == IInv /\ [Next]_vars => IInv'
<1> SUFFICES ASSUME IInv, [Next]_vars
             PROVE  IInv'
  OBVIOUS
<1>1. ASSUME NEW o \in Object, NEW k \in Plain, Create(o, k)
      PROVE  IInv'
  BY <1>1, ObjectCallInv DEF Create, Kind, Methods
<1>2. ASSUME NEW o \in Object, MakeTactic(o)
      PROVE  IInv'
  BY <1>2, ObjectCallInv DEF MakeTactic, Kind, Methods
<1>3. ASSUME NEW o \in Object, GetModel(o)
      PROVE  IInv'
  BY <1>3, ObjectCallInv DEF GetModel, Kind, Methods
<1>4. ASSUME NEW o \in Object, NEW bad \in BOOLEAN, Parse(o, bad)
      PROVE  IInv'
  <2>1. error' \in {"ok", "failed"}
    BY <1>4 DEF IInv, TypeOK, Parse
  <2> QED  BY <1>4, <2>1, ObjectCallInv DEF Parse, Kind, Methods
<1>5. CASE NativeCall
  BY <1>1, <1>2, <1>3, <1>4, <1>5, MakeTacticUnknownInv, GetModelMissingInv,
     ParseFileMissingInv, SolverFromStringInv DEF NativeCall
<1>6. CASE DropContext
  <2>1. /\ UNCHANGED <<live, kind, count, lastObj, error, handle, call, done>>
        /\ userRef' = FALSE
    BY <1>6 DEF DropContext
  <2>2. HeldExactly' /\ \A o : Fresh(o) => Fresh(o)'
    BY <2>1, HeldUnchanged DEF IInv
  <2>3. TypeOK' /\ OwnErrorThrown'
    BY <2>1 DEF IInv, TypeOK, OwnErrorThrown
  <2>4. CallInv'
    BY <2>1, <2>2 DEF IInv, CallInv
  <2> QED  BY <2>1, <2>2, <2>3, <2>4, HandlesUnshared, ResultsAllocated DEF IInv
<1>7. CASE UNCHANGED vars
  <2>1. HeldExactly' /\ \A o : Fresh(o) => Fresh(o)'
    BY <1>7, HeldUnchanged DEF IInv, vars
  <2>2. TypeOK' /\ OwnErrorThrown'
    BY <1>7 DEF IInv, TypeOK, OwnErrorThrown, vars
  <2>3. CallInv'
    BY <1>7, <2>1 DEF IInv, CallInv, vars
  <2> QED  BY <1>7, <2>1, <2>2, <2>3, HandlesUnshared, ResultsAllocated
           DEF IInv, vars
<1> QED  BY <1>5, <1>6, <1>7, WrapInv, CheckInv, DeinitInv,
            DeinitFixedPointInv, DeleteContextInv DEF Next

-----------------------------------------------------------------------------
(* Theorems.                                                               *)

\* Whatever step the running Swift method is in, counts are exact, and a result
\* it has yet to wrap is held by m_last_obj alone; for any objects and wrappers.
THEOREM Invariance == Spec => []IInv
  BY InitInv, NextInv, PTL DEF Spec

\* The registers, counts and handles of a context have their types; no count
\* of an api::object ever falls below zero.
THEOREM TypeCorrect == Spec => []TypeOK
<1>1. IInv => TypeOK
  BY DEF IInv
<1> QED  BY <1>1, Invariance, PTL

\* m_last_obj and the Swift wrappers hold every object exactly: dec_ref
\* deletes an object when its last holder goes, and not before.
THEOREM HoldersExact == Spec => []HeldExactly
<1>1. IInv => HeldExactly
  BY DEF IInv
<1> QED  BY <1>1, Invariance, PTL

\* The init of a wrapper never calls inc_ref on an object that is gone, and
\* no wrapper ever refers to one, or to that of another wrapper.
THEOREM ResultsLive == Spec => []ResultAllocated
<1>1. IInv => ResultAllocated
  BY DEF IInv
<1> QED  BY <1>1, Invariance, PTL

\* makeTactic throws for an unknown name and nothing else, and fromString never
\* loses its own error: both read the register before anything resets it.
THEOREM ErrorsOwned == Spec => []OwnErrorThrown
<1>1. IInv => OwnErrorThrown
  BY DEF IInv
<1> QED  BY <1>1, Invariance, PTL

\* Z3_del_context finds nothing to collect but the last result and the
\* fixedpoint objects whose wrappers gave no reference back.
THEOREM NothingLeft == Spec => OthersCollected
<1>1. ASSUME IInv, live /\ ~live', [Next]_vars
      PROVE  \A o \in Allocated : o = lastObj \/ kind[o] = "fixedpoint"
  <2>1. \A w \in Wrapper : handle[w] = NoObject
    BY <1>1 DEF Next, NativeCall, Create, MakeTactic, GetModel, Parse,
       MakeTacticUnknown, GetModelMissing, ParseFileMissing, SolverFromString,
       Wrap, Deinit, DeinitFixedPoint, Throw, Pass, DropContext,
       DeleteContext, vars
  <2>2. ASSUME NEW o \in Allocated, kind[o] # "fixedpoint"
        PROVE  o = lastObj
    <3>1. o \in Object /\ kind[o] # "free" /\ HandlesOf(o) = {}
      BY <2>1, KindAssumption DEF Allocated, HandlesOf
    <3>2. Cardinality(HandlesOf(o)) + LastHolds(o) > 0
      BY <1>1, <2>2, <3>1, HeldIsExact DEF IInv, Exact
    <3>3. LastHolds(o) # 0
      BY <3>1, <3>2, HolderCounts
    <3> QED  BY <3>3 DEF LastHolds
  <2> QED  BY <2>2
<1>2. IInv /\ [Next]_vars
         => [live /\ ~live'
               => \A o \in Allocated : o = lastObj \/ kind[o] = "fixedpoint"]_vars
  BY <1>1
<1> QED  BY <1>2, Invariance, PTL DEF Spec, OthersCollected
=============================================================================
