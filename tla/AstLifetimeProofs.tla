------------------------- MODULE AstLifetimeProofs -------------------------
(***************************************************************************)
(* Proofs about AstLifetime: the reference counts are exact in every       *)
(* reachable state, whatever the terms, wrappers and contexts are, and     *)
(* therefore no raw pointer the program holds is ever dangling.            *)
(***************************************************************************)
EXTENDS AstLifetime, DataLemmas, FiniteSetTheorems, TLAPS

-----------------------------------------------------------------------------
(* Counting.                                                               *)

\* Sets of cells and sets of wrappers have a natural number of elements.
LEMMA CountIsNat ==
    /\ \A S \in SUBSET Node : IsFiniteSet(S) /\ Cardinality(S) \in Nat
    /\ \A S \in SUBSET Wrapper : IsFiniteSet(S) /\ Cardinality(S) \in Nat
BY FiniteAssumption, FS_Subset, FS_CardinalityType

\* A set has no elements exactly if its count is zero.
LEMMA CountZero ==
    /\ \A S \in SUBSET Node : Cardinality(S) = 0 <=> S = {}
    /\ \A S \in SUBSET Wrapper : Cardinality(S) = 0 <=> S = {}
BY CountIsNat, FS_EmptySet

\* A wrapper that takes a term adds one to the wrappers of that term.
LEMMA WrapperTakes ==
    ASSUME NEW h \in [Wrapper -> Node \cup {NoNode}], NEW w \in Wrapper,
           NEW x \in Node, h[w] = NoNode, NEW m \in Node
    PROVE  Cardinality({v \in Wrapper : [h EXCEPT ![w] = x][v] = m}) =
             Cardinality({v \in Wrapper : h[v] = m}) + (IF m = x THEN 1 ELSE 0)
<1> DEFINE old == {v \in Wrapper : h[v] = m}
           new == {v \in Wrapper : [h EXCEPT ![w] = x][v] = m}
<1>1. IsFiniteSet(old) /\ Cardinality(old) \in Nat
  BY CountIsNat
<1>2. w \notin old
  BY ContextAssumption
<1>3. CASE m = x
  <2>1. new = old \cup {w}
    BY <1>3
  <2> QED  BY <1>1, <1>2, <1>3, <2>1, FS_AddElement
<1>4. CASE m # x
  <2>1. new = old
    BY <1>4, ContextAssumption
  <2> QED  BY <1>1, <1>4, <2>1
<1> QED  BY <1>3, <1>4

\* A wrapper that gives up its term takes one away from them.
LEMMA WrapperDrops ==
    ASSUME NEW h \in [Wrapper -> Node \cup {NoNode}], NEW w \in Wrapper,
           h[w] # NoNode, NEW m \in Node
    PROVE  Cardinality({v \in Wrapper : [h EXCEPT ![w] = NoNode][v] = m}) =
             Cardinality({v \in Wrapper : h[v] = m})
               - (IF m = h[w] THEN 1 ELSE 0)
<1> DEFINE old == {v \in Wrapper : h[v] = m}
           new == {v \in Wrapper : [h EXCEPT ![w] = NoNode][v] = m}
<1>1. IsFiniteSet(old) /\ Cardinality(old) \in Nat
  BY CountIsNat
<1>2. new = old \ {w}
  BY ContextAssumption
<1>3. w \in old <=> m = h[w]
  OBVIOUS
<1> QED  BY <1>1, <1>2, <1>3, FS_RemoveElement

\* Allocating new cells adds them to the parents of their children ...
LEMMA ParentsAdded ==
    ASSUME NEW tab \in SUBSET Node, NEW new \in SUBSET Node,
           tab \cap new = {}, NEW m \in Node
    PROVE  /\ Cardinality(ParentsIn(new, m)) \in Nat
           /\ Cardinality(ParentsIn(tab \cup new, m)) =
                Cardinality(ParentsIn(tab, m)) + Cardinality(ParentsIn(new, m))
<1> DEFINE S == ParentsIn(tab, m)
           T == ParentsIn(new, m)
<1>1. S \in SUBSET Node /\ T \in SUBSET Node /\ S \cap T = {}
  BY DEF ParentsIn
<1>2. ParentsIn(tab \cup new, m) = S \cup T
  BY DEF ParentsIn
<1> HIDE DEF S, T
<1>3. /\ IsFiniteSet(S) /\ Cardinality(S) \in Nat
      /\ IsFiniteSet(T) /\ Cardinality(T) \in Nat
  BY <1>1, CountIsNat
<1>4. Cardinality(S \cap T) = 0
  BY <1>1, FS_EmptySet
<1>5. Cardinality(S \cup T) =
         Cardinality(S) + Cardinality(T) - Cardinality(S \cap T)
  BY <1>3, FS_Union
<1>6. Cardinality(S \cup T) = Cardinality(S) + Cardinality(T)
  BY <1>3, <1>4, <1>5
<1> QED  BY <1>2, <1>3, <1>6 DEF S, T

\* ... and freeing one removes it from the parents of its children.
LEMMA ParentRemoved ==
    ASSUME NEW tab \in SUBSET Node, NEW n \in tab, NEW m \in Node
    PROVE  Cardinality(ParentsIn(tab \ {n}, m)) =
             Cardinality(ParentsIn(tab, m)) - (IF m \in Args[n] THEN 1 ELSE 0)
<1> DEFINE S == ParentsIn(tab, m)
<1>1. ParentsIn(tab \ {n}, m) = S \ {n} /\ (n \in S <=> m \in Args[n])
  BY DEF ParentsIn
<1>2. S \in SUBSET Node
  BY DEF ParentsIn
<1> HIDE DEF S
<1>3. IsFiniteSet(S) /\ Cardinality(S) \in Nat
  BY <1>2, CountIsNat
<1>4. Cardinality(S \ {n}) =
         IF n \in S THEN Cardinality(S) - 1 ELSE Cardinality(S)
  BY <1>3, FS_RemoveElement
<1>5. Cardinality(S \ {n}) =
         Cardinality(S) - (IF m \in Args[n] THEN 1 ELSE 0)
  BY <1>1, <1>3, <1>4
<1> QED  BY <1>1, <1>5 DEF S

-----------------------------------------------------------------------------
(* What the invariant says of one cell.                                    *)

\* The four kinds of holders are counted by natural numbers.
LEMMA HolderCounts ==
    ASSUME TypeOK, NEW n \in Node
    PROVE  /\ Cardinality(WrappersOf(n)) \in Nat
           /\ Cardinality(ParentsOf(n)) \in Nat
           /\ OnTrail(n) \in {0, 1} /\ Cached(n) \in {0, 1}
<1>1. WrappersOf(n) \in SUBSET Wrapper /\ ParentsOf(n) \in SUBSET Node
  BY DEF WrappersOf, ParentsOf, ParentsIn, TypeOK
<1> QED  BY <1>1, CountIsNat DEF OnTrail, Cached

\* A count of zero means that nobody holds the cell.
LEMMA ZeroMeansUnheld ==
    ASSUME HeapInv, NEW n \in Node, rc[n] = 0
    PROVE  /\ \A w \in Wrapper : handle[w] # n
           /\ \A p \in table : n \notin Args[p]
           /\ n \notin trail[Home[n]] /\ mode[Home[n]] # n
<1>1. rc[n] = Cardinality(WrappersOf(n)) + Cardinality(ParentsOf(n))
                + OnTrail(n) + Cached(n)
  BY DEF HeapInv, RefCountExact
<1>2. /\ Cardinality(WrappersOf(n)) = 0 /\ Cardinality(ParentsOf(n)) = 0
      /\ OnTrail(n) = 0 /\ Cached(n) = 0
  BY <1>1, HolderCounts DEF HeapInv
<1>3. WrappersOf(n) \in SUBSET Wrapper /\ ParentsOf(n) \in SUBSET Node
  BY DEF WrappersOf, ParentsOf, ParentsIn, TypeOK, HeapInv
<1>4. WrappersOf(n) = {} /\ ParentsOf(n) = {}
  BY <1>2, <1>3, CountZero
<1> QED  BY <1>2, <1>4 DEF WrappersOf, ParentsOf, ParentsIn, OnTrail, Cached

\* A cell that is not in the table has no holder.
LEMMA FreshIsZero ==
    ASSUME HeapInv, NEW n \in Node \ table
    PROVE  rc[n] = 0
<1>1. WrappersOf(n) = {}
  BY ContextAssumption DEF HeapInv, HoldersValid, WrappersOf
<1>2. ParentsOf(n) = {}
  BY DEF HeapInv, TableClosed, ParentsOf, ParentsIn
<1>3. OnTrail(n) = 0 /\ Cached(n) = 0
  BY TermAssumption, ContextAssumption DEF HeapInv, HoldersValid, OnTrail, Cached
<1>4. Cardinality(WrappersOf(n)) = 0 /\ Cardinality(ParentsOf(n)) = 0
  BY <1>1, <1>2, FS_EmptySet
<1> QED  BY <1>3, <1>4 DEF HeapInv, RefCountExact

\* A result in flight has a holder.
LEMMA ResultPositive ==
    ASSUME HeapInv, NEW n \in returned
    PROVE  n \in Node /\ rc[n] > 0
<1>1. n \in Node /\ rc[n] \in Nat
  BY DEF HeapInv, TypeOK
<1>2. ASSUME rc[n] = 0 PROVE FALSE
  <2>1. PICK w \in borrowed :
            handle[w] # NoNode /\ n \in Args[handle[w]] \cup {handle[w]}
    BY <1>1, <1>2, ZeroMeansUnheld DEF HeapInv, ResultsHeld
  <2>2. w \in Wrapper /\ handle[w] \in table
    BY <2>1 DEF HeapInv, HoldersValid, TypeOK
  <2> QED  BY <1>1, <1>2, <2>1, <2>2, ZeroMeansUnheld
<1> QED  BY <1>1, <1>2

-----------------------------------------------------------------------------
(* One lemma for every action.                                             *)

\* Deinit gives back exactly the reference the wrapper took.
LEMMA DeinitStep ==
    ASSUME HeapInv, NEW w \in Wrapper, Deinit(w)
    PROVE  HeapInv'
<1> DEFINE x == handle[w]
<1>1. /\ x \in table /\ x \in Node /\ w \notin borrowed
      /\ erase = {} /\ batch = {}
  BY DEF HeapInv, TypeOK, HoldersValid, Deinit, NativeIdle
<1>2. rc[x] # 0
  BY <1>1, ZeroMeansUnheld
<1>3. /\ rc' = [n \in Node |-> IF n = x THEN rc[n] - 1 ELSE rc[n]]
      /\ handle' = [handle EXCEPT ![w] = NoNode]
      /\ erase' = {n \in {x} : rc[n] = 1}
      /\ UNCHANGED <<ctx, userRef, table, trail, mode, owner, returned, via,
                     borrowed, batch>>
  BY <1>2 DEF Deinit, Dec, Dying
<1>4. TypeOK'
  BY <1>1, <1>2, <1>3 DEF HeapInv, TypeOK
<1>5. RefCountExact'
  <2> SUFFICES ASSUME NEW n \in Node
               PROVE  rc'[n] = Cardinality(WrappersOf(n)')
                        + Cardinality(ParentsOf(n)') + OnTrail(n)' + Cached(n)'
    BY DEF RefCountExact
  <2>1. Cardinality(WrappersOf(n)') =
          Cardinality(WrappersOf(n)) - (IF n = x THEN 1 ELSE 0)
    <3>1. handle \in [Wrapper -> Node \cup {NoNode}] /\ handle[w] # NoNode
      BY <1>1, ContextAssumption DEF HeapInv, TypeOK
    <3> QED  BY <1>3, <3>1, WrapperDrops DEF WrappersOf
  <2>2. /\ ParentsOf(n)' = ParentsOf(n) /\ OnTrail(n)' = OnTrail(n)
        /\ Cached(n)' = Cached(n)
    BY <1>3 DEF ParentsOf, OnTrail, Cached
  <2> QED
    BY <1>1, <1>3, <2>1, <2>2, HolderCounts DEF HeapInv, RefCountExact, TypeOK
<1>6. EraseExact'
  BY <1>1, <1>2, <1>3 DEF HeapInv, TypeOK, EraseExact
<1>7. TableClosed' /\ OwnerAlive' /\ HoldersValid' /\ BatchPending'
  BY <1>1, <1>3 DEF HeapInv, TypeOK, TableClosed, OwnerAlive, HoldersValid,
                    BatchPending
<1>8. ResultsHeld'
  BY <1>1, <1>3 DEF HeapInv, TypeOK, ResultsHeld
<1> QED  BY <1>4, <1>5, <1>6, <1>7, <1>8 DEF HeapInv

\* Init takes the reference that Deinit gives back.
LEMMA WrapStep ==
    ASSUME HeapInv, ViaHome, NEW w \in Wrapper, NEW x \in Node, Wrap(w, x)
    PROVE  HeapInv'
<1>1. /\ x \in returned /\ x \in table /\ rc[x] > 0
      /\ ctx[Home[x]] = "alive" /\ Home[x] \in Context
      /\ handle[w] = NoNode /\ erase = {} /\ batch = {} /\ via = Home[x]
  BY ResultPositive, TermAssumption
     DEF HeapInv, ResultsHeld, ViaHome, Wrap, NativeIdle
<1>2. /\ rc' = [n \in Node |-> IF n = x THEN rc[n] + 1 ELSE rc[n]]
      /\ handle' = [handle EXCEPT ![w] = x]
      /\ owner' = [owner EXCEPT ![w] = Home[x]]
      /\ returned' = returned \ {x}
      /\ borrowed' = IF returned = {x} THEN {} ELSE borrowed
      /\ via' = IF returned = {x} THEN NoContext ELSE via
      /\ UNCHANGED <<ctx, userRef, table, erase, trail, mode, batch>>
  BY <1>1 DEF Wrap, Inc
<1>3. TypeOK'
  BY <1>1, <1>2 DEF HeapInv, TypeOK
<1>4. RefCountExact'
  <2> SUFFICES ASSUME NEW n \in Node
               PROVE  rc'[n] = Cardinality(WrappersOf(n)')
                        + Cardinality(ParentsOf(n)') + OnTrail(n)' + Cached(n)'
    BY DEF RefCountExact
  <2>1. Cardinality(WrappersOf(n)') =
          Cardinality(WrappersOf(n)) + (IF n = x THEN 1 ELSE 0)
    <3>1. handle \in [Wrapper -> Node \cup {NoNode}] /\ handle[w] = NoNode
      BY <1>1 DEF HeapInv, TypeOK
    <3> QED  BY <1>2, <3>1, WrapperTakes DEF WrappersOf
  <2>2. /\ ParentsOf(n)' = ParentsOf(n) /\ OnTrail(n)' = OnTrail(n)
        /\ Cached(n)' = Cached(n)
    BY <1>2 DEF ParentsOf, OnTrail, Cached
  <2> QED
    BY <1>2, <2>1, <2>2, HolderCounts DEF HeapInv, RefCountExact, TypeOK
<1>5. EraseExact'
  BY <1>1, <1>2 DEF HeapInv, TypeOK, EraseExact
<1>6. TableClosed' /\ BatchPending'
  BY <1>1, <1>2 DEF HeapInv, TableClosed, BatchPending
<1>7. OwnerAlive'
  <2> SUFFICES ASSUME NEW v \in Wrapper
               PROVE  /\ owner'[v] # NoContext => ctx'[owner'[v]] = "alive"
                      /\ handle'[v] # NoNode => owner'[v] = Home[handle'[v]]
    BY DEF OwnerAlive
  <2>1. CASE v = w
    BY <1>1, <1>2, <2>1 DEF HeapInv, TypeOK
  <2>2. CASE v # w
    BY <1>2, <2>2 DEF HeapInv, TypeOK, OwnerAlive
  <2> QED  BY <2>1, <2>2
<1>8. HoldersValid'
  <2>1. \A v \in Wrapper : handle'[v] # NoNode => handle'[v] \in table
    BY <1>1, <1>2 DEF HeapInv, TypeOK, HoldersValid
  <2> QED  BY <1>2, <2>1 DEF HeapInv, HoldersValid
<1>9. ResultsHeld'
  <2> SUFFICES ASSUME NEW n \in returned, n # x
               PROVE  /\ n \in table /\ ctx[Home[n]] = "alive"
                      /\ \/ n \in trail[Home[n]]
                         \/ mode[Home[n]] = n
                         \/ \E v \in borrowed' :
                              /\ handle'[v] # NoNode
                              /\ n \in Args[handle'[v]] \cup {handle'[v]}
    BY <1>2 DEF ResultsHeld
  <2>1. borrowed' = borrowed
    BY <1>1, <1>2
  <2>2. \A v \in borrowed : handle[v] # NoNode => handle'[v] = handle[v]
    BY <1>1, <1>2 DEF HeapInv, TypeOK
  <2> QED  BY <2>1, <2>2 DEF HeapInv, ResultsHeld
<1> QED  BY <1>3, <1>4, <1>5, <1>6, <1>7, <1>8, <1>9 DEF HeapInv

\* The last strong reference of a finished wrapper holds no cell.
LEMMA ReleaseStep ==
    ASSUME HeapInv, NEW w \in Wrapper, Release(w)
    PROVE  HeapInv'
<1> USE DEF Release
<1>1. TypeOK'
  BY DEF HeapInv, TypeOK
<1>2. RefCountExact'
  BY DEF HeapInv, RefCountExact, WrappersOf, ParentsOf, OnTrail, Cached
<1>3. OwnerAlive'
  BY DEF HeapInv, TypeOK, OwnerAlive
<1> QED
  BY <1>1, <1>2, <1>3 DEF HeapInv, EraseExact, TableClosed, HoldersValid,
                          ResultsHeld, BatchPending

\* One iteration of delete_node moves the counts of the children down by the
\* one reference the freed cell held.
LEMMA DeleteNodeStep ==
    ASSUME HeapInv, NEW x \in Node, DeleteNode(x)
    PROVE  HeapInv'
<1>1. /\ x \in erase /\ x \in table /\ rc[x] = 0
      /\ Args[x] \in SUBSET Node /\ Args[x] \subseteq table
      /\ x \notin Args[x]
  <2>1. Args[x] \in SUBSET Node /\ x \notin Args[x]
    BY TermAssumption, AcyclicAssumption
  <2> QED
    BY <2>1 DEF HeapInv, TypeOK, EraseExact, TableClosed, DeleteNode
<1>2. /\ \A w \in Wrapper : handle[w] # x
      /\ \A p \in table : x \notin Args[p]
      /\ x \notin trail[Home[x]] /\ mode[Home[x]] # x
  BY <1>1, ZeroMeansUnheld
<1>3. /\ table' = table \ {x}
      /\ rc' = [n \in Node |-> IF n \in Args[x] THEN rc[n] - 1 ELSE rc[n]]
      /\ erase' = (erase \ {x}) \cup {n \in Args[x] : rc[n] = 1}
      /\ UNCHANGED <<ctx, userRef, trail, mode, handle, owner, returned, via,
                     borrowed, batch>>
  BY DEF DeleteNode, Dec, Dying, swiftVars
<1>4. \A n \in Args[x] : rc[n] # 0
  BY <1>1, ZeroMeansUnheld
<1>5. TypeOK'
  BY <1>1, <1>3, <1>4 DEF HeapInv, TypeOK
<1>6. RefCountExact'
  <2> SUFFICES ASSUME NEW n \in Node
               PROVE  rc'[n] = Cardinality(WrappersOf(n)')
                        + Cardinality(ParentsOf(n)') + OnTrail(n)' + Cached(n)'
    BY DEF RefCountExact
  <2>1. Cardinality(ParentsOf(n)') =
          Cardinality(ParentsOf(n)) - (IF n \in Args[x] THEN 1 ELSE 0)
    <3>1. table \in SUBSET Node /\ x \in table
      BY <1>1 DEF HeapInv, TypeOK
    <3> QED  BY <1>3, <3>1, ParentRemoved DEF ParentsOf
  <2>2. /\ WrappersOf(n)' = WrappersOf(n) /\ OnTrail(n)' = OnTrail(n)
        /\ Cached(n)' = Cached(n)
    BY <1>3 DEF WrappersOf, OnTrail, Cached
  <2> QED
    BY <1>1, <1>3, <2>1, <2>2, HolderCounts DEF HeapInv, RefCountExact, TypeOK
<1>7. EraseExact'
  BY <1>1, <1>3, <1>4 DEF HeapInv, TypeOK, EraseExact
<1>8. TableClosed'
  BY <1>2, <1>3 DEF HeapInv, TableClosed
<1>9. HoldersValid'
  <2>1. \A c \in Context : x \notin trail[c] /\ mode[c] # x
    BY <1>2, ContextAssumption DEF HeapInv, HoldersValid
  <2> QED  BY <1>2, <1>3, <2>1 DEF HeapInv, HoldersValid
<1>10. ResultsHeld'
  <2>1. x \notin returned
    BY <1>1, ResultPositive
  <2> QED  BY <1>3, <2>1 DEF HeapInv, ResultsHeld
<1>11. OwnerAlive' /\ BatchPending'
  BY <1>3 DEF HeapInv, OwnerAlive, BatchPending
<1> QED
  BY <1>5, <1>6, <1>7, <1>8, <1>9, <1>10, <1>11 DEF HeapInv

\* The cells a call allocates complete the table: their children are there,
\* and each of them is a root of the call or the child of another new cell.
LEMMA MissingComplete ==
    ASSUME HeapInv, NEW S \in SUBSET Node
    PROVE  LET new == Missing(S)
           IN  /\ new \in SUBSET Node /\ table \in SUBSET Node
               /\ table \cap new = {} /\ S \subseteq table \cup new
               /\ \A p \in table \cup new : Args[p] \subseteq table \cup new
               /\ \A m \in new : rc[m] = 0
               /\ \A m \in new \ S : \E p \in new : m \in Args[p]
<1> DEFINE new == Missing(S)
<1>0. /\ \A m : m \in new <=> (m \notin table /\ \E b \in S : m \in Sub[b])
      /\ S \subseteq Node /\ table \in SUBSET Node
  BY DEF Missing, HeapInv, TypeOK
<1> HIDE DEF new
<1>1. /\ new \in SUBSET Node /\ table \cap new = {}
      /\ S \subseteq table \cup new
  BY <1>0, TermAssumption
<1>2. \A p \in table \cup new : Args[p] \subseteq table \cup new
  <2>1. \A p \in table : Args[p] \subseteq table
    BY DEF HeapInv, TableClosed
  <2>2. ASSUME NEW p \in new PROVE Args[p] \subseteq table \cup new
    <3>1. PICK b \in S : p \in Sub[b]
      BY <1>0, <2>2
    <3>2. b \in Node /\ Args[p] \subseteq Sub[b]
      BY <1>0, <3>1, TermAssumption
    <3> QED  BY <1>0, <3>2
  <2> QED  BY <2>1, <2>2
<1>3. \A m \in new : rc[m] = 0
  BY <1>1, FreshIsZero
<1>4. ASSUME NEW m \in new, m \notin S
      PROVE  \E p \in new : m \in Args[p]
  <2>1. PICK b \in S : m \in Sub[b]
    BY <1>0, <1>4
  <2>2. b \in Node /\ m # b /\ m \notin table
    BY <1>0, <1>4, <2>1
  <2>3. PICK p \in Sub[b] : m \in Args[p]
    BY <2>1, <2>2, TermAssumption
  <2>4. p \notin table
    BY <2>2, <2>3 DEF HeapInv, TableClosed
  <2> QED  BY <1>0, <2>1, <2>3, <2>4
<1> QED  BY <1>0, <1>1, <1>2, <1>3, <1>4 DEF new

\* Registering them counts one reference for every new parent, and leaves no
\* cell that is neither held nor a root of the call.
LEMMA RegisterCounts ==
    ASSUME HeapInv, erase = {}, NEW S \in SUBSET Node
    PROVE  LET new == Missing(S)
               r   == Register(rc, new)
           IN  /\ r \in [Node -> Nat]
               /\ \A m \in Node :
                     /\ r[m] - rc[m] =
                          Cardinality(ParentsIn(table \cup new, m))
                            - Cardinality(ParentsOf(m))
                     /\ Cardinality(ParentsIn(table \cup new, m)) \in Nat
               /\ \A m \in (table \cup new) \ S : r[m] > 0
<1> DEFINE new == Missing(S)
<1>1. /\ new \in SUBSET Node /\ table \in SUBSET Node /\ table \cap new = {}
      /\ \A m \in new \ S : \E p \in new : m \in Args[p]
  BY MissingComplete
<1>2. rc \in [Node -> Nat]
  BY DEF HeapInv, TypeOK
<1>3. \A m \in Node :
        /\ Cardinality(ParentsIn(new, m)) \in Nat
        /\ Cardinality(ParentsOf(m)) \in Nat
        /\ Cardinality(ParentsIn(table \cup new, m)) =
             Cardinality(ParentsOf(m)) + Cardinality(ParentsIn(new, m))
  <2> SUFFICES ASSUME NEW m \in Node
               PROVE  /\ Cardinality(ParentsIn(new, m)) \in Nat
                      /\ Cardinality(ParentsOf(m)) \in Nat
                      /\ Cardinality(ParentsIn(table \cup new, m)) =
                           Cardinality(ParentsOf(m))
                             + Cardinality(ParentsIn(new, m))
    OBVIOUS
  <2>1. Cardinality(ParentsOf(m)) \in Nat
    BY HolderCounts DEF HeapInv
  <2> QED  BY <1>1, <2>1, ParentsAdded DEF ParentsOf
<1>4. \A m \in new \ S : Cardinality(ParentsIn(new, m)) # 0
  <2>1. \A m \in new \ S : ParentsIn(new, m) # {}
    BY <1>1 DEF ParentsIn
  <2>2. \A m \in Node : ParentsIn(new, m) \in SUBSET Node
    BY <1>1 DEF ParentsIn
  <2> QED  BY <1>1, <2>1, <2>2, CountZero
<1>5. \A m \in table : rc[m] # 0
  BY DEF HeapInv, EraseExact
<1>6. /\ Register(rc, new) \in [Node -> Nat]
      /\ \A m \in Node : Register(rc, new)[m] =
                           rc[m] + Cardinality(ParentsIn(new, m))
  BY <1>2, <1>3 DEF Register
<1> HIDE DEF new
<1>7. ASSUME NEW m \in (table \cup new) \ S
      PROVE  Register(rc, new)[m] > 0
  <2>1. m \in Node /\ rc[m] \in Nat /\ Cardinality(ParentsIn(new, m)) \in Nat
    BY <1>1, <1>2, <1>3
  <2>2. rc[m] # 0 \/ Cardinality(ParentsIn(new, m)) # 0
    BY <1>4, <1>5, <1>7
  <2> QED  BY <1>6, <2>1, <2>2
<1>8. ASSUME NEW m \in Node
      PROVE  /\ Register(rc, new)[m] - rc[m] =
                  Cardinality(ParentsIn(table \cup new, m))
                    - Cardinality(ParentsOf(m))
             /\ Cardinality(ParentsIn(table \cup new, m)) \in Nat
  <2>1. /\ rc[m] \in Nat /\ Cardinality(ParentsIn(new, m)) \in Nat
        /\ Cardinality(ParentsOf(m)) \in Nat
    BY <1>2, <1>3
  <2>2. Cardinality(ParentsIn(table \cup new, m)) =
          Cardinality(ParentsOf(m)) + Cardinality(ParentsIn(new, m))
    BY <1>3
  <2>3. Register(rc, new)[m] = rc[m] + Cardinality(ParentsIn(new, m))
    BY <1>6
  <2> QED  BY <2>1, <2>2, <2>3
<1> QED  BY <1>6, <1>7, <1>8 DEF new

\* A call that returns one term: the new cells are counted, the result takes
\* the place of the previous one on the trail.
LEMMA BuildStep ==
    ASSUME HeapInv, NEW c \in Context, NEW x \in Node, Home[x] = c,
           ctx[c] = "alive", NativeIdle, returned = {}, Build(c, x),
           borrowed' \in SUBSET Wrapper, via' \in Context
    PROVE  HeapInv'
<1> DEFINE new == Missing({x})
           r == Register(rc, new)
           up(m) == IF m = x THEN 1 ELSE 0
           down(m) == IF m \in trail[c] THEN 1 ELSE 0
<1>0. {x} \in SUBSET Node
  OBVIOUS
<1>3. /\ table' = table \cup new
      /\ rc' = Dec(Inc(r, {x}), trail[c])
      /\ erase' = Dying(Inc(r, {x}), trail[c])
      /\ trail' = [trail EXCEPT ![c] = {x}]
      /\ returned' = {x} /\ batch = {}
      /\ UNCHANGED <<ctx, userRef, mode, handle, owner, batch>>
  BY DEF Build, SaveAstTrail, NativeIdle
<1>1. /\ new \in SUBSET Node /\ table \in SUBSET Node
      /\ {x} \subseteq table \cup new
      /\ \A p \in table \cup new : Args[p] \subseteq table \cup new
  BY <1>0, MissingComplete
<1>2. /\ r \in [Node -> Nat]
      /\ \A m \in Node :
            /\ r[m] - rc[m] = Cardinality(ParentsIn(table \cup new, m))
                                - Cardinality(ParentsOf(m))
            /\ Cardinality(ParentsIn(table \cup new, m)) \in Nat
      /\ \A m \in (table \cup new) \ {x} : r[m] > 0
  <2>1. erase = {}
    BY DEF NativeIdle
  <2> QED  BY <1>0, <2>1, RegisterCounts
<1> HIDE DEF new, r
<1>4. /\ rc' = [m \in Node |-> rc'[m]]
      /\ \A m \in Node : rc'[m] = r[m] + up(m) - down(m)
      /\ erase' = {m \in trail[c] : r[m] + up(m) = 1}
  <2>1. \A m \in Node : Inc(r, {x})[m] = r[m] + up(m) /\ r[m] \in Nat
    BY <1>2 DEF Inc
  <2>2. trail[c] \in SUBSET Node
    BY DEF HeapInv, TypeOK
  <2>3. rc' = [m \in Node |-> IF m \in trail[c] THEN Inc(r, {x})[m] - 1
                                                ELSE Inc(r, {x})[m]]
    BY <1>3 DEF Dec
  <2>4. ASSUME NEW m \in Node
        PROVE  rc'[m] = r[m] + up(m) - down(m)
    <3>1. rc'[m] = IF m \in trail[c] THEN Inc(r, {x})[m] - 1
                                     ELSE Inc(r, {x})[m]
      BY <2>3
    <3>2. Inc(r, {x})[m] = r[m] + up(m) /\ r[m] \in Nat
      BY <2>1
    <3> QED  BY <3>1, <3>2
  <2>5. rc' = [m \in Node |-> rc'[m]]
    BY <2>3
  <2>6. erase' = {m \in trail[c] : r[m] + up(m) = 1}
    BY <1>3, <2>1, <2>2 DEF Dying
  <2> QED  BY <2>4, <2>5, <2>6
<1>5. \A m \in trail[c] : m \in table /\ Home[m] = c
  BY DEF HeapInv, HoldersValid
<1>6. /\ rc' \in [Node -> Nat]
      /\ \A m \in table \cup new : m \in erase' <=> rc'[m] = 0
  <2>1. ASSUME NEW m \in Node
        PROVE  /\ rc'[m] = r[m] + up(m) - down(m)
               /\ r[m] \in Nat
               /\ m \in trail[c] /\ m # x => r[m] > 0
    BY <1>1, <1>2, <1>4, <1>5
  <2>2. \A m \in Node : rc'[m] \in Nat
    BY <2>1
  <2>3. rc' \in [Node -> Nat]
    BY <1>4, <2>2
  <2>4. ASSUME NEW m \in table \cup new
        PROVE  m \in erase' <=> rc'[m] = 0
    <3>1. m \in Node /\ (m # x => r[m] > 0)
      BY <1>1, <1>2
    <3> QED  BY <1>4, <2>1, <3>1
  <2> QED  BY <2>3, <2>4
<1>7. TypeOK'
  <2>1. table' \subseteq Node /\ returned' \subseteq Node
    BY <1>1, <1>3
  <2>2. trail \in [Context -> SUBSET Node]
    BY DEF HeapInv, TypeOK
  <2>3. trail' \in [Context -> SUBSET Node]
    BY <1>3, <2>2
  <2>4. erase' \subseteq Node
    BY <1>4, <2>2
  <2> QED  BY <1>3, <1>6, <2>1, <2>3, <2>4 DEF HeapInv, TypeOK
<1>8. RefCountExact'
  <2> SUFFICES ASSUME NEW m \in Node
               PROVE  rc'[m] = Cardinality(WrappersOf(m)')
                        + Cardinality(ParentsOf(m)') + OnTrail(m)' + Cached(m)'
    BY DEF RefCountExact
  <2>1. /\ WrappersOf(m)' = WrappersOf(m) /\ Cached(m)' = Cached(m)
        /\ ParentsOf(m)' = ParentsIn(table \cup new, m)
    BY <1>3 DEF WrappersOf, Cached, ParentsOf
  <2>2. OnTrail(m)' = OnTrail(m) + up(m) - down(m)
    <3>1. CASE Home[m] = c
      BY <1>3, <3>1 DEF OnTrail, HeapInv, TypeOK
    <3>2. CASE Home[m] # c
      <4>1. trail'[Home[m]] = trail[Home[m]] /\ m # x /\ m \notin trail[c]
        BY <1>3, <1>5, <3>2, TermAssumption DEF HeapInv, TypeOK
      <4> QED  BY <4>1 DEF OnTrail
    <3> QED  BY <3>1, <3>2
  <2>3. OnTrail(m)' \in {0, 1}
    BY DEF OnTrail
  <2>4. rc[m] \in Nat /\ r[m] \in Nat
    BY <1>2 DEF HeapInv, TypeOK
  <2>5. rc'[m] = r[m] + up(m) - down(m)
    BY <1>4
  <2>6. rc[m] = Cardinality(WrappersOf(m)) + Cardinality(ParentsOf(m))
                  + OnTrail(m) + Cached(m)
    BY DEF HeapInv, RefCountExact
  <2>7. /\ Cardinality(WrappersOf(m)) \in Nat
        /\ Cardinality(ParentsOf(m)) \in Nat
        /\ OnTrail(m) \in {0, 1} /\ Cached(m) \in {0, 1}
    BY HolderCounts DEF HeapInv
  <2>8. /\ r[m] - rc[m] = Cardinality(ParentsIn(table \cup new, m))
                            - Cardinality(ParentsOf(m))
        /\ Cardinality(ParentsIn(table \cup new, m)) \in Nat
    BY <1>2
  <2>9. up(m) \in {0, 1} /\ down(m) \in {0, 1}
    OBVIOUS
  <2> HIDE DEF up, down
  <2>10. r[m] = Cardinality(WrappersOf(m))
                  + Cardinality(ParentsIn(table \cup new, m))
                  + OnTrail(m) + Cached(m)
    BY <2>4, <2>6, <2>7, <2>8
  <2>11. rc'[m] = Cardinality(WrappersOf(m))
                   + Cardinality(ParentsIn(table \cup new, m))
                   + OnTrail(m)' + Cached(m)
    BY <2>2, <2>3, <2>5, <2>7, <2>8, <2>9, <2>10
  <2> QED  BY <2>1, <2>11
<1>9. EraseExact'
  BY <1>3, <1>4, <1>5, <1>6 DEF EraseExact
<1>10. TableClosed'
  BY <1>1, <1>3 DEF TableClosed
<1>11. OwnerAlive'
  BY <1>3 DEF HeapInv, OwnerAlive
<1>12. HoldersValid'
  BY <1>1, <1>3 DEF HeapInv, TypeOK, HoldersValid
<1>13. ResultsHeld' /\ BatchPending'
  BY <1>1, <1>3 DEF HeapInv, TypeOK, ResultsHeld, BatchPending
<1> QED
  BY <1>7, <1>8, <1>9, <1>10, <1>11, <1>12, <1>13 DEF HeapInv

\* Both calls that build a term of one context return it on that trail.
LEMMA MakeStep ==
    ASSUME HeapInv, NEW c \in Context, NEW x \in Node, Make(c, x)
    PROVE  HeapInv'
<1>1. /\ Home[x] = c /\ ctx[c] = "alive" /\ NativeIdle /\ returned = {}
      /\ Build(c, x) /\ borrowed' \in SUBSET Wrapper /\ via' = c
  BY DEF Make, CanCall
<1> QED  BY <1>1, BuildStep

\* A translated term is one that is built in the other context.
LEMMA TranslateStep ==
    ASSUME HeapInv, NEW c \in Context, NEW w \in Wrapper, Translate(w, c)
    PROVE  HeapInv'
<1> DEFINE x == Twin[handle[w]][c]
<1>1. handle[w] \in Node /\ x \in Node /\ Home[x] = c
  BY ContextAssumption DEF HeapInv, TypeOK, Translate
<1>2. /\ ctx[c] = "alive" /\ NativeIdle /\ returned = {}
      /\ Build(c, x) /\ borrowed' \in SUBSET Wrapper /\ via' = c
  BY DEF Translate, CanCall
<1> HIDE DEF x
<1> QED  BY <1>1, <1>2, BuildStep

\* The default rounding mode is counted twice, for the trail of the new
\* context and for its cache; nothing held a cell of the context before.
LEMMA CreateContextStep ==
    ASSUME HeapInv, NEW c \in Context, CreateContext(c)
    PROVE  HeapInv'
<1> DEFINE x == Nearest[c]
           new == Missing({x})
           r == Register(rc, new)
           up(m) == IF m = x THEN 1 ELSE 0
<1>0. /\ x \in Node /\ Home[x] = c /\ {x} \in SUBSET Node
      /\ ctx[c] = "none" /\ erase = {} /\ batch = {} /\ returned = {}
  BY ContextAssumption DEF CreateContext, NativeIdle
<1>1. /\ new \in SUBSET Node /\ table \in SUBSET Node
      /\ {x} \subseteq table \cup new
      /\ \A p \in table \cup new : Args[p] \subseteq table \cup new
  BY <1>0, MissingComplete
<1>2. /\ r \in [Node -> Nat]
      /\ \A m \in Node :
            /\ r[m] - rc[m] = Cardinality(ParentsIn(table \cup new, m))
                                - Cardinality(ParentsOf(m))
            /\ Cardinality(ParentsIn(table \cup new, m)) \in Nat
      /\ \A m \in (table \cup new) \ {x} : r[m] > 0
  BY <1>0, RegisterCounts
<1>3. /\ table' = table \cup new
      /\ rc' = Inc(Inc(r, {x}), {x})
      /\ ctx' = [ctx EXCEPT ![c] = "alive"]
      /\ userRef' = [userRef EXCEPT ![c] = TRUE]
      /\ trail' = [trail EXCEPT ![c] = {x}]
      /\ mode' = [mode EXCEPT ![c] = x]
      /\ UNCHANGED <<erase, batch, handle, owner, returned, via, borrowed>>
  BY DEF CreateContext, swiftVars
<1> HIDE DEF new, r, x
<1>4. /\ rc' \in [Node -> Nat]
      /\ \A m \in Node : rc'[m] = r[m] + up(m) + up(m)
  BY <1>2, <1>3 DEF Inc
<1>5. /\ trail[c] = {} /\ mode[c] = NoNode
  <2>1. ctx[c] # "alive" /\ ctx[c] \notin {"alive", "deinit"}
    BY <1>0
  <2>2. /\ trail[c] # {} => ctx[c] \in {"alive", "deinit"}
        /\ mode[c] # NoNode <=> ctx[c] = "alive"
    BY DEF HeapInv, HoldersValid
  <2> QED  BY <2>1, <2>2
<1>6. TypeOK'
  BY <1>0, <1>1, <1>3, <1>4 DEF HeapInv, TypeOK
<1>7. RefCountExact'
  <2> SUFFICES ASSUME NEW m \in Node
               PROVE  rc'[m] = Cardinality(WrappersOf(m)')
                        + Cardinality(ParentsOf(m)') + OnTrail(m)' + Cached(m)'
    BY DEF RefCountExact
  <2>1. /\ WrappersOf(m)' = WrappersOf(m)
        /\ ParentsOf(m)' = ParentsIn(table \cup new, m)
    BY <1>3 DEF WrappersOf, ParentsOf
  <2>2. /\ OnTrail(m)' = OnTrail(m) + up(m)
        /\ Cached(m)' = Cached(m) + up(m)
    <3>1. CASE Home[m] = c
      <4>1. /\ trail'[c] = {x} /\ mode'[c] = x
            /\ trail[c] = {} /\ mode[c] # m
        BY <1>3, <1>5, ContextAssumption DEF HeapInv, TypeOK
      <4> QED  BY <3>1, <4>1 DEF OnTrail, Cached
    <3>2. CASE Home[m] # c
      <4>1. /\ trail'[Home[m]] = trail[Home[m]]
            /\ mode'[Home[m]] = mode[Home[m]] /\ m # x
        BY <1>0, <1>3, <3>2, TermAssumption DEF HeapInv, TypeOK
      <4> QED  BY <4>1 DEF OnTrail, Cached
    <3> QED  BY <3>1, <3>2
  <2>3. rc[m] \in Nat /\ r[m] \in Nat /\ up(m) \in {0, 1}
    BY <1>2 DEF HeapInv, TypeOK
  <2>4. rc[m] = Cardinality(WrappersOf(m)) + Cardinality(ParentsOf(m))
                  + OnTrail(m) + Cached(m)
    BY DEF HeapInv, RefCountExact
  <2>5. /\ Cardinality(WrappersOf(m)) \in Nat
        /\ Cardinality(ParentsOf(m)) \in Nat
        /\ OnTrail(m) \in {0, 1} /\ Cached(m) \in {0, 1}
    BY HolderCounts DEF HeapInv
  <2>6. /\ r[m] - rc[m] = Cardinality(ParentsIn(table \cup new, m))
                            - Cardinality(ParentsOf(m))
        /\ Cardinality(ParentsIn(table \cup new, m)) \in Nat
    BY <1>2
  <2>7. rc'[m] = r[m] + up(m) + up(m)
    BY <1>4
  <2> HIDE DEF up
  <2>8. rc'[m] = Cardinality(WrappersOf(m))
                   + Cardinality(ParentsIn(table \cup new, m))
                   + (OnTrail(m) + up(m)) + (Cached(m) + up(m))
    BY <2>3, <2>4, <2>5, <2>6, <2>7
  <2> QED  BY <2>1, <2>2, <2>8
<1>8. EraseExact'
  <2>1. \A m \in table \cup new : rc'[m] # 0
    BY <1>0, <1>1, <1>2, <1>4
  <2> QED  BY <1>0, <1>3, <2>1 DEF EraseExact
<1>9. TableClosed'
  BY <1>1, <1>3 DEF TableClosed
<1>10. OwnerAlive'
  BY <1>3 DEF HeapInv, TypeOK, OwnerAlive
<1>11. HoldersValid'
  <2>1. \A w \in Wrapper : handle'[w] # NoNode => handle'[w] \in table'
    BY <1>3 DEF HeapInv, HoldersValid
  <2>2. ASSUME NEW d \in Context
        PROVE  /\ \A m \in trail'[d] : m \in table' /\ Home[m] = d
               /\ trail'[d] # {} => ctx'[d] \in {"alive", "deinit"}
               /\ mode'[d] # NoNode => mode'[d] \in table' /\ Home[mode'[d]] = d
               /\ mode'[d] # NoNode <=> ctx'[d] = "alive"
    <3>1. CASE d = c
      <4>1. trail'[c] = {x} /\ mode'[c] = x /\ ctx'[c] = "alive"
        BY <1>3 DEF HeapInv, TypeOK
      <4> QED  BY <1>0, <1>1, <1>3, <3>1, <4>1, ContextAssumption
    <3>2. CASE d # c
      <4>1. trail'[d] = trail[d] /\ mode'[d] = mode[d] /\ ctx'[d] = ctx[d]
        BY <1>3, <3>2 DEF HeapInv, TypeOK
      <4> QED  BY <1>3, <4>1 DEF HeapInv, HoldersValid
    <3> QED  BY <3>1, <3>2
  <2> QED  BY <2>1, <2>2 DEF HoldersValid
<1>12. ResultsHeld' /\ BatchPending'
  BY <1>0, <1>3 DEF ResultsHeld, BatchPending
<1> QED
  BY <1>6, <1>7, <1>8, <1>9, <1>10, <1>11, <1>12 DEF HeapInv

\* The second half of a call with several results: the trails it found empty
\* hold the results, and nothing else.
LEMMA EndBatchStep ==
    ASSUME HeapInv, EndBatch
    PROVE  HeapInv'
<1> DEFINE new == Missing(batch)
           r == Register(rc, new)
           up(m) == IF m \in batch THEN 1 ELSE 0
<1>0. /\ batch \in SUBSET Node /\ erase = {} /\ returned = {}
      /\ \A m \in batch : ctx[Home[m]] = "alive" /\ trail[Home[m]] = {}
  BY DEF EndBatch, HeapInv, TypeOK, BatchPending
<1>1. /\ new \in SUBSET Node /\ table \in SUBSET Node
      /\ batch \subseteq table \cup new
      /\ \A p \in table \cup new : Args[p] \subseteq table \cup new
  BY <1>0, MissingComplete
<1>2. /\ r \in [Node -> Nat]
      /\ \A m \in Node :
            /\ r[m] - rc[m] = Cardinality(ParentsIn(table \cup new, m))
                                - Cardinality(ParentsOf(m))
            /\ Cardinality(ParentsIn(table \cup new, m)) \in Nat
      /\ \A m \in (table \cup new) \ batch : r[m] > 0
  BY <1>0, RegisterCounts
<1>3. /\ table' = table \cup new
      /\ rc' = Inc(r, batch)
      /\ trail' = [c \in Context |->
                      trail[c] \cup {n \in batch : Home[n] = c}]
      /\ returned' = batch /\ batch' = {}
      /\ UNCHANGED <<ctx, userRef, erase, mode, handle, owner, via, borrowed>>
  BY DEF EndBatch
<1> HIDE DEF new, r
<1>4. /\ rc' \in [Node -> Nat]
      /\ \A m \in Node : rc'[m] = r[m] + up(m)
  BY <1>2, <1>3 DEF Inc
<1>5. TypeOK'
  <2>1. trail' \in [Context -> SUBSET Node]
    BY <1>0, <1>3 DEF HeapInv, TypeOK
  <2> QED  BY <1>0, <1>1, <1>3, <1>4, <2>1 DEF HeapInv, TypeOK
<1>6. RefCountExact'
  <2> SUFFICES ASSUME NEW m \in Node
               PROVE  rc'[m] = Cardinality(WrappersOf(m)')
                        + Cardinality(ParentsOf(m)') + OnTrail(m)' + Cached(m)'
    BY DEF RefCountExact
  <2>1. /\ WrappersOf(m)' = WrappersOf(m) /\ Cached(m)' = Cached(m)
        /\ ParentsOf(m)' = ParentsIn(table \cup new, m)
    BY <1>3 DEF WrappersOf, ParentsOf, Cached
  <2>2. OnTrail(m)' = OnTrail(m) + up(m)
    <3>1. Home[m] \in Context
      BY TermAssumption
    <3>2. trail'[Home[m]] = trail[Home[m]] \cup {n \in batch : Home[n] = Home[m]}
      BY <1>3, <3>1
    <3>3. m \in batch => m \notin trail[Home[m]]
      BY <1>0
    <3> QED  BY <3>2, <3>3 DEF OnTrail
  <2>3. rc[m] \in Nat /\ r[m] \in Nat /\ up(m) \in {0, 1}
    BY <1>2 DEF HeapInv, TypeOK
  <2>4. rc[m] = Cardinality(WrappersOf(m)) + Cardinality(ParentsOf(m))
                  + OnTrail(m) + Cached(m)
    BY DEF HeapInv, RefCountExact
  <2>5. /\ Cardinality(WrappersOf(m)) \in Nat
        /\ Cardinality(ParentsOf(m)) \in Nat
        /\ OnTrail(m) \in {0, 1} /\ Cached(m) \in {0, 1}
    BY HolderCounts DEF HeapInv
  <2>6. /\ r[m] - rc[m] = Cardinality(ParentsIn(table \cup new, m))
                            - Cardinality(ParentsOf(m))
        /\ Cardinality(ParentsIn(table \cup new, m)) \in Nat
    BY <1>2
  <2>7. rc'[m] = r[m] + up(m)
    BY <1>4
  <2> HIDE DEF up
  <2>8. rc'[m] = Cardinality(WrappersOf(m))
                   + Cardinality(ParentsIn(table \cup new, m))
                   + (OnTrail(m) + up(m)) + Cached(m)
    BY <2>3, <2>4, <2>5, <2>6, <2>7
  <2> QED  BY <2>1, <2>2, <2>8
<1>7. EraseExact'
  <2>1. \A m \in table \cup new : rc'[m] # 0
    BY <1>0, <1>1, <1>2, <1>4
  <2> QED  BY <1>0, <1>3, <2>1 DEF EraseExact
<1>8. TableClosed'
  BY <1>1, <1>3 DEF TableClosed
<1>9. OwnerAlive'
  BY <1>3 DEF HeapInv, OwnerAlive
<1>10. HoldersValid'
  <2>1. \A w \in Wrapper : handle'[w] # NoNode => handle'[w] \in table'
    BY <1>3 DEF HeapInv, HoldersValid
  <2>2. ASSUME NEW d \in Context
        PROVE  /\ \A m \in trail'[d] : m \in table' /\ Home[m] = d
               /\ trail'[d] # {} => ctx'[d] \in {"alive", "deinit"}
               /\ mode'[d] # NoNode => mode'[d] \in table' /\ Home[mode'[d]] = d
               /\ mode'[d] # NoNode <=> ctx'[d] = "alive"
    <3>1. /\ trail'[d] = trail[d] \cup {n \in batch : Home[n] = d}
          /\ mode'[d] = mode[d] /\ ctx'[d] = ctx[d]
      BY <1>3
    <3> QED  BY <1>0, <1>1, <1>3, <3>1 DEF HeapInv, HoldersValid
  <2> QED  BY <2>1, <2>2 DEF HoldersValid
<1>11. ResultsHeld'
  <2> SUFFICES ASSUME NEW n \in batch
               PROVE  /\ n \in table' /\ ctx'[Home[n]] = "alive"
                      /\ n \in trail'[Home[n]]
    BY <1>3 DEF ResultsHeld
  <2>1. Home[n] \in Context
    BY <1>0, TermAssumption
  <2> QED  BY <1>0, <1>1, <1>3, <2>1
<1>12. BatchPending'
  BY <1>3 DEF BatchPending
<1> QED
  BY <1>5, <1>6, <1>7, <1>8, <1>9, <1>10, <1>11, <1>12 DEF HeapInv

\* Releasing the trail of a context takes one reference from each cell on it.
LEMMA TrailDropped ==
    ASSUME HeapInv, NativeIdle, NEW c \in Context,
           rc' = Dec(rc, trail[c]), erase' = Dying(rc, trail[c]),
           trail' = [trail EXCEPT ![c] = {}],
           UNCHANGED <<table, mode, handle>>
    PROVE  rc' \in [Node -> Nat] /\ RefCountExact' /\ EraseExact'
<1> DEFINE down(m) == IF m \in trail[c] THEN 1 ELSE 0
<1>1. \A m \in trail[c] : m \in table /\ m \in Node /\ Home[m] = c
  BY DEF HeapInv, TypeOK, HoldersValid
<1>2. \A m \in table : m \in Node /\ rc[m] # 0
  BY DEF HeapInv, TypeOK, EraseExact, NativeIdle
<1>3. /\ rc' \in [Node -> Nat]
      /\ \A m \in Node : rc'[m] = rc[m] - down(m)
      /\ erase' = {m \in trail[c] : rc[m] = 1}
  BY <1>1, <1>2 DEF Dec, Dying, HeapInv, TypeOK
<1>4. RefCountExact'
  <2> SUFFICES ASSUME NEW m \in Node
               PROVE  rc'[m] = Cardinality(WrappersOf(m)')
                        + Cardinality(ParentsOf(m)') + OnTrail(m)' + Cached(m)'
    BY DEF RefCountExact
  <2>1. /\ WrappersOf(m)' = WrappersOf(m) /\ Cached(m)' = Cached(m)
        /\ ParentsOf(m)' = ParentsOf(m)
    BY DEF WrappersOf, Cached, ParentsOf
  <2>2. OnTrail(m) = OnTrail(m)' + down(m)
    <3>1. CASE Home[m] = c
      <4>1. trail'[c] = {}
        BY DEF HeapInv, TypeOK
      <4> QED  BY <3>1, <4>1 DEF OnTrail
    <3>2. CASE Home[m] # c
      <4>1. trail'[Home[m]] = trail[Home[m]] /\ m \notin trail[c]
        BY <1>1, <3>2, TermAssumption DEF HeapInv, TypeOK
      <4> QED  BY <4>1 DEF OnTrail
    <3> QED  BY <3>1, <3>2
  <2>3. OnTrail(m)' \in {0, 1} /\ down(m) \in {0, 1}
    BY DEF OnTrail
  <2>4. rc[m] = Cardinality(WrappersOf(m)) + Cardinality(ParentsOf(m))
                  + OnTrail(m) + Cached(m)
    BY DEF HeapInv, RefCountExact
  <2>5. /\ Cardinality(WrappersOf(m)) \in Nat
        /\ Cardinality(ParentsOf(m)) \in Nat
        /\ Cached(m) \in {0, 1} /\ rc'[m] = rc[m] - down(m)
    BY <1>3, HolderCounts DEF HeapInv
  <2> HIDE DEF down
  <2>6. rc'[m] = Cardinality(WrappersOf(m)) + Cardinality(ParentsOf(m))
                   + OnTrail(m)' + Cached(m)
    BY <2>2, <2>3, <2>4, <2>5
  <2> QED  BY <2>1, <2>6
<1>5. EraseExact'
  BY <1>1, <1>2, <1>3 DEF EraseExact, HeapInv, TypeOK
<1> QED  BY <1>3, <1>4, <1>5

\* The first half of a call with several results.
LEMMA BeginBatchStep ==
    ASSUME HeapInv, NEW c \in Context, NEW S \in Batches, BeginBatch(c, S)
    PROVE  HeapInv'
<1>1. /\ NativeIdle /\ ctx[c] = "alive" /\ returned = {}
      /\ \A n \in S : Home[n] = c
      /\ batch' = S /\ rc' = Dec(rc, trail[c])
      /\ erase' = Dying(rc, trail[c])
      /\ trail' = [trail EXCEPT ![c] = {}] /\ via' = c
      /\ UNCHANGED <<ctx, userRef, table, mode, handle, owner, returned,
                     borrowed>>
  BY DEF BeginBatch, CanCall
<1>2. rc' \in [Node -> Nat] /\ RefCountExact' /\ EraseExact'
  BY <1>1, TrailDropped
<1>3. TypeOK'
  BY <1>1, <1>2, ContextAssumption DEF HeapInv, TypeOK, EraseExact
<1>4. HoldersValid'
  BY <1>1 DEF HeapInv, TypeOK, HoldersValid
<1>5. TableClosed' /\ OwnerAlive' /\ ResultsHeld'
  BY <1>1 DEF HeapInv, TableClosed, OwnerAlive, ResultsHeld
<1>6. BatchPending'
  BY <1>1 DEF HeapInv, TypeOK, BatchPending
<1> QED  BY <1>2, <1>3, <1>4, <1>5, <1>6 DEF HeapInv

\* Z3_del_context releases the trail of a context nothing refers to.
LEMMA DelContextStep ==
    ASSUME HeapInv, NEW c \in Context, DelContext(c)
    PROVE  HeapInv'
<1>1. /\ NativeIdle /\ batch = {} /\ ctx[c] = "deinit"
      /\ ctx' = [ctx EXCEPT ![c] = "closing"]
      /\ rc' = Dec(rc, trail[c]) /\ erase' = Dying(rc, trail[c])
      /\ trail' = [trail EXCEPT ![c] = {}]
      /\ UNCHANGED <<userRef, table, mode, batch, handle, owner, returned,
                     via, borrowed>>
  BY DEF DelContext, swiftVars, NativeIdle
<1>2. rc' \in [Node -> Nat] /\ RefCountExact' /\ EraseExact'
  BY <1>1, TrailDropped
<1>3. TypeOK'
  BY <1>1, <1>2 DEF HeapInv, TypeOK, EraseExact
<1>4. HoldersValid'
  BY <1>1 DEF HeapInv, TypeOK, HoldersValid
<1>5. OwnerAlive' /\ TableClosed' /\ BatchPending'
  BY <1>1 DEF HeapInv, TypeOK, OwnerAlive, TableClosed, BatchPending
<1>6. ResultsHeld'
  <2>1. \A n \in returned : Home[n] # c /\ Home[n] \in Context
    BY <1>1, TermAssumption DEF HeapInv, TypeOK, ResultsHeld
  <2> QED  BY <1>1, <2>1 DEF HeapInv, TypeOK, ResultsHeld
<1> QED  BY <1>2, <1>3, <1>4, <1>5, <1>6 DEF HeapInv

\* The cached rounding mode of an unused context is released by its deinit.
LEMMA DeinitContextStep ==
    ASSUME HeapInv, ViaHome, NEW c \in Context, DeinitContext(c)
    PROVE  HeapInv'
<1> DEFINE x == mode[c]
<1>1. /\ erase = {} /\ batch = {} /\ ctx[c] = "alive"
      /\ x \in table /\ x \in Node /\ Home[x] = c
      /\ \A w \in Wrapper : owner[w] # c
      /\ \A n \in returned : Home[n] # c
  BY DEF DeinitContext, NativeIdle, InUse, ViaHome, HeapInv, TypeOK,
         HoldersValid
<1>2. rc[x] # 0
  BY <1>1, ZeroMeansUnheld
<1>3. /\ ctx' = [ctx EXCEPT ![c] = "deinit"]
      /\ rc' = [n \in Node |-> IF n = x THEN rc[n] - 1 ELSE rc[n]]
      /\ erase' = {n \in {x} : rc[n] = 1}
      /\ mode' = [mode EXCEPT ![c] = NoNode]
      /\ UNCHANGED <<userRef, table, trail, batch, handle, owner, returned,
                     via, borrowed>>
  BY DEF DeinitContext, Dec, Dying, swiftVars
<1> HIDE DEF x
<1>4. TypeOK'
  BY <1>1, <1>2, <1>3 DEF HeapInv, TypeOK
<1>5. RefCountExact'
  <2> SUFFICES ASSUME NEW m \in Node
               PROVE  rc'[m] = Cardinality(WrappersOf(m)')
                        + Cardinality(ParentsOf(m)') + OnTrail(m)' + Cached(m)'
    BY DEF RefCountExact
  <2>1. /\ WrappersOf(m)' = WrappersOf(m) /\ OnTrail(m)' = OnTrail(m)
        /\ ParentsOf(m)' = ParentsOf(m)
    BY <1>3 DEF WrappersOf, OnTrail, ParentsOf
  <2>2. Cached(m)' = Cached(m) - (IF m = x THEN 1 ELSE 0)
    <3>1. CASE Home[m] = c
      <4>1. mode'[c] = NoNode /\ mode[c] = x /\ m # NoNode
        BY <1>3, ContextAssumption DEF HeapInv, TypeOK, x
      <4> QED  BY <3>1, <4>1 DEF Cached
    <3>2. CASE Home[m] # c
      <4>1. mode'[Home[m]] = mode[Home[m]] /\ m # x
        BY <1>1, <1>3, <3>2, TermAssumption DEF HeapInv, TypeOK
      <4> QED  BY <4>1 DEF Cached
    <3> QED  BY <3>1, <3>2
  <2> QED
    BY <1>1, <1>3, <2>1, <2>2, HolderCounts DEF HeapInv, RefCountExact, TypeOK
<1>6. EraseExact'
  BY <1>1, <1>2, <1>3 DEF HeapInv, TypeOK, EraseExact
<1>7. TableClosed' /\ OwnerAlive' /\ BatchPending'
  BY <1>1, <1>3 DEF HeapInv, TypeOK, TableClosed, OwnerAlive, BatchPending
<1>8. HoldersValid'
  BY <1>1, <1>3 DEF HeapInv, TypeOK, HoldersValid
<1>9. ResultsHeld'
  <2>1. \A n \in returned : Home[n] # c /\ Home[n] \in Context
    BY <1>1, TermAssumption DEF HeapInv, TypeOK
  <2> QED  BY <1>3, <2>1 DEF HeapInv, TypeOK, ResultsHeld
<1> QED
  BY <1>4, <1>5, <1>6, <1>7, <1>8, <1>9 DEF HeapInv

\* The setter moves one reference from the old rounding mode to the new one.
LEMMA SetModeStep ==
    ASSUME HeapInv, NEW c \in Context, NEW w \in Wrapper, SetMode(c, w)
    PROVE  HeapInv'
<1> DEFINE x == handle[w]
           y == mode[c]
           up(m) == IF m = x THEN 1 ELSE 0
           down(m) == IF m = y THEN 1 ELSE 0
<1>1. /\ erase = {} /\ batch = {} /\ returned = {} /\ ctx[c] = "alive"
      /\ x \in table /\ x \in Node /\ Home[x] = c
      /\ y \in table /\ y \in Node /\ Home[y] = c
  BY ContextAssumption
     DEF SetMode, CanCall, NativeIdle, HeapInv, TypeOK, HoldersValid, OwnerAlive
<1>2. rc[x] # 0 /\ rc[y] # 0
  BY <1>1, ZeroMeansUnheld
<1>3. /\ rc' = Dec(Inc(rc, {x}), {y}) /\ erase' = Dying(Inc(rc, {x}), {y})
      /\ mode' = [mode EXCEPT ![c] = x]
      /\ UNCHANGED <<ctx, userRef, table, trail, batch, handle, owner,
                     returned, via, borrowed>>
  BY DEF SetMode, swiftVars
<1> HIDE DEF x, y
<1>4. /\ rc' \in [Node -> Nat]
      /\ \A m \in Node : rc'[m] = rc[m] + up(m) - down(m)
      /\ erase' = {m \in {y} : rc[m] + up(m) = 1}
  <2>1. rc \in [Node -> Nat]
    BY DEF HeapInv, TypeOK
  <2>2. /\ Inc(rc, {x}) \in [Node -> Nat]
        /\ \A m \in Node : Inc(rc, {x})[m] = rc[m] + up(m)
    BY <2>1 DEF Inc
  <2>3. /\ rc' = [m \in Node |-> IF m \in {y} THEN Inc(rc, {x})[m] - 1
                                              ELSE Inc(rc, {x})[m]]
        /\ erase' = {m \in {y} : Inc(rc, {x})[m] = 1}
    BY <1>3 DEF Dec, Dying
  <2>4. \A m \in Node : rc'[m] = rc[m] + up(m) - down(m)
    <3> SUFFICES ASSUME NEW m \in Node
                 PROVE  rc'[m] = rc[m] + up(m) - down(m)
      OBVIOUS
    <3>1. /\ rc'[m] = IF m = y THEN Inc(rc, {x})[m] - 1
                              ELSE Inc(rc, {x})[m]
          /\ Inc(rc, {x})[m] = rc[m] + up(m)
          /\ rc[m] \in Nat
      BY <2>1, <2>2, <2>3
    <3> QED  BY <3>1
  <2>5. \A m \in Node : rc'[m] \in Nat
    BY <1>1, <1>2, <2>1, <2>4
  <2>6. rc' \in [Node -> Nat]
    BY <2>3, <2>5
  <2>7. erase' = {m \in {y} : rc[m] + up(m) = 1}
    BY <1>1, <2>2, <2>3
  <2> QED  BY <2>4, <2>6, <2>7
<1>5. TypeOK'
  BY <1>1, <1>3, <1>4 DEF HeapInv, TypeOK
<1>6. RefCountExact'
  <2> SUFFICES ASSUME NEW m \in Node
               PROVE  rc'[m] = Cardinality(WrappersOf(m)')
                        + Cardinality(ParentsOf(m)') + OnTrail(m)' + Cached(m)'
    BY DEF RefCountExact
  <2>1. /\ WrappersOf(m)' = WrappersOf(m) /\ OnTrail(m)' = OnTrail(m)
        /\ ParentsOf(m)' = ParentsOf(m)
    BY <1>3 DEF WrappersOf, OnTrail, ParentsOf
  <2>2. Cached(m)' = Cached(m) + up(m) - down(m)
    <3>1. CASE Home[m] = c
      <4>1. mode'[c] = x /\ mode[c] = y
        BY <1>3 DEF HeapInv, TypeOK, y
      <4> QED  BY <3>1, <4>1 DEF Cached
    <3>2. CASE Home[m] # c
      <4>1. mode'[Home[m]] = mode[Home[m]] /\ m # x /\ m # y
        BY <1>1, <1>3, <3>2, TermAssumption DEF HeapInv, TypeOK
      <4> QED  BY <4>1 DEF Cached
    <3> QED  BY <3>1, <3>2
  <2>3. /\ rc[m] \in Nat /\ up(m) \in {0, 1} /\ down(m) \in {0, 1}
        /\ rc'[m] = rc[m] + up(m) - down(m)
    BY <1>4 DEF HeapInv, TypeOK
  <2>4. rc[m] = Cardinality(WrappersOf(m)) + Cardinality(ParentsOf(m))
                  + OnTrail(m) + Cached(m)
    BY DEF HeapInv, RefCountExact
  <2>5. /\ Cardinality(WrappersOf(m)) \in Nat
        /\ Cardinality(ParentsOf(m)) \in Nat
        /\ OnTrail(m) \in {0, 1} /\ Cached(m) \in {0, 1}
    BY HolderCounts DEF HeapInv
  <2> HIDE DEF up, down
  <2>6. rc'[m] = Cardinality(WrappersOf(m)) + Cardinality(ParentsOf(m))
                   + OnTrail(m) + (Cached(m) + up(m) - down(m))
    BY <2>3, <2>4, <2>5
  <2> QED  BY <2>1, <2>2, <2>6
<1>7. EraseExact'
  <2> SUFFICES ASSUME NEW m \in table
               PROVE  m \in erase' <=> rc'[m] = 0
    BY <1>1, <1>3, <1>4 DEF EraseExact
  <2>1. m \in Node /\ rc[m] \in Nat /\ rc[m] # 0
    BY <1>1 DEF HeapInv, TypeOK, EraseExact
  <2>2. rc'[m] = rc[m] + up(m) - down(m)
    BY <1>4, <2>1
  <2>3. m \in erase' <=> m = y /\ rc[m] + up(m) = 1
    BY <1>4
  <2> QED  BY <2>1, <2>2, <2>3
<1>8. TableClosed' /\ OwnerAlive' /\ BatchPending' /\ ResultsHeld'
  BY <1>1, <1>3 DEF HeapInv, TableClosed, OwnerAlive, BatchPending, ResultsHeld
<1>9. HoldersValid'
  <2>1. \A d \in Context : mode'[d] = IF d = c THEN x ELSE mode[d]
    BY <1>3 DEF HeapInv, TypeOK
  <2> QED  BY <1>1, <1>3, <2>1, ContextAssumption DEF HeapInv, HoldersValid
<1> QED  BY <1>5, <1>6, <1>7, <1>8, <1>9 DEF HeapInv

\* The manager takes its cells with it: no wrapper, trail, cached mode or
\* cell of another context refers to them any more.
LEMMA DelManagerStep ==
    ASSUME HeapInv, NEW c \in Context, DelManager(c)
    PROVE  HeapInv'
<1>1. /\ ctx[c] = "closing" /\ erase = {} /\ batch = {}
      /\ ctx' = [ctx EXCEPT ![c] = "deleted"]
      /\ table' = {n \in table : Home[n] # c}
      /\ rc' = [n \in Node |-> IF Home[n] = c THEN 0 ELSE rc[n]]
      /\ UNCHANGED <<userRef, erase, trail, mode, batch, handle, owner,
                     returned, via, borrowed>>
  BY DEF DelManager, NativeIdle, swiftVars
<1>2. ctx[c] \notin {"alive", "deinit"}
  BY <1>1
<1>3. trail[c] = {} /\ mode[c] = NoNode
  BY <1>1, <1>2 DEF HeapInv, HoldersValid
<1>4. \A w \in Wrapper : handle[w] # NoNode =>
          handle[w] \in Node /\ Home[handle[w]] # c
  <2>1. SUFFICES ASSUME NEW w \in Wrapper, handle[w] # NoNode
                 PROVE  handle[w] \in Node /\ Home[handle[w]] # c
    OBVIOUS
  <2>2. handle[w] \in Node /\ Home[handle[w]] \in Context
    BY <2>1, TermAssumption DEF HeapInv, TypeOK
  <2>3. owner[w] = Home[handle[w]] /\ owner[w] # NoContext
    BY <2>1, <2>2, ContextAssumption DEF HeapInv, OwnerAlive
  <2>4. ctx[Home[handle[w]]] = "alive"
    BY <2>3 DEF HeapInv, OwnerAlive
  <2> QED  BY <1>2, <2>2, <2>4
<1>5. \A p \in Node : \A m \in Args[p] : m \in Node /\ Home[m] = Home[p]
  BY TermAssumption
<1>6. TypeOK'
  BY <1>1 DEF HeapInv, TypeOK
<1>7. RefCountExact'
  <2> SUFFICES ASSUME NEW m \in Node
               PROVE  rc'[m] = Cardinality(WrappersOf(m)')
                        + Cardinality(ParentsOf(m)') + OnTrail(m)' + Cached(m)'
    BY DEF RefCountExact
  <2>1. /\ WrappersOf(m)' = WrappersOf(m) /\ OnTrail(m)' = OnTrail(m)
        /\ Cached(m)' = Cached(m)
    BY <1>1 DEF WrappersOf, OnTrail, Cached
  <2>2. CASE Home[m] = c
    <3>1. WrappersOf(m) = {}
      BY <1>4, <2>2, ContextAssumption DEF WrappersOf
    <3>2. ParentsOf(m)' = {}
      BY <1>1, <1>5, <2>2 DEF ParentsOf, ParentsIn, HeapInv, TypeOK
    <3>3. OnTrail(m) = 0 /\ Cached(m) = 0
      BY <1>3, <2>2, ContextAssumption DEF OnTrail, Cached
    <3>4. Cardinality({}) = 0
      BY FS_EmptySet
    <3> QED  BY <1>1, <2>1, <2>2, <3>1, <3>2, <3>3, <3>4
  <2>3. CASE Home[m] # c
    <3>1. ParentsOf(m)' = ParentsOf(m)
      BY <1>1, <1>5, <2>3 DEF ParentsOf, ParentsIn, HeapInv, TypeOK
    <3>2. rc'[m] = rc[m]
      BY <1>1, <2>3
    <3> QED  BY <2>1, <3>1, <3>2 DEF HeapInv, RefCountExact
  <2> QED  BY <2>2, <2>3
<1>8. EraseExact'
  BY <1>1 DEF HeapInv, TypeOK, EraseExact
<1>9. TableClosed'
  BY <1>1, <1>5 DEF HeapInv, TypeOK, TableClosed
<1>10. OwnerAlive' /\ BatchPending'
  BY <1>1 DEF HeapInv, TypeOK, OwnerAlive, BatchPending
<1>11. HoldersValid'
  <2>1. \A w \in Wrapper : handle'[w] # NoNode => handle'[w] \in table'
    BY <1>1, <1>4 DEF HeapInv, HoldersValid
  <2>2. ASSUME NEW d \in Context
        PROVE  /\ \A m \in trail'[d] : m \in table' /\ Home[m] = d
               /\ trail'[d] # {} => ctx'[d] \in {"alive", "deinit"}
               /\ mode'[d] # NoNode => mode'[d] \in table' /\ Home[mode'[d]] = d
               /\ mode'[d] # NoNode <=> ctx'[d] = "alive"
    <3>1. CASE d = c
      <4>1. ctx'[c] = "deleted"
        BY <1>1 DEF HeapInv, TypeOK
      <4> QED  BY <1>1, <1>3, <3>1, <4>1
    <3>2. CASE d # c
      <4>1. ctx'[d] = ctx[d] /\ trail'[d] = trail[d] /\ mode'[d] = mode[d]
        BY <1>1, <3>2 DEF HeapInv, TypeOK
      <4> QED  BY <1>1, <3>2, <4>1 DEF HeapInv, HoldersValid
    <3> QED  BY <3>1, <3>2
  <2> QED  BY <2>1, <2>2 DEF HoldersValid
<1>12. ResultsHeld'
  <2>1. \A n \in returned : n \in Node /\ Home[n] # c /\ Home[n] \in Context
    BY <1>2, TermAssumption DEF HeapInv, TypeOK, ResultsHeld
  <2> QED  BY <1>1, <2>1 DEF HeapInv, TypeOK, ResultsHeld
<1> QED
  BY <1>6, <1>7, <1>8, <1>9, <1>10, <1>11, <1>12 DEF HeapInv

\* The program's own reference to a context holds no cell.
LEMMA DropContextStep ==
    ASSUME HeapInv, NEW c \in Context, DropContext(c)
    PROVE  HeapInv'
<1>1. /\ userRef' = [userRef EXCEPT ![c] = FALSE]
      /\ UNCHANGED <<ctx, table, rc, erase, trail, mode, batch, handle, owner,
                     returned, via, borrowed>>
  BY DEF DropContext, swiftVars
<1>2. TypeOK'
  BY <1>1 DEF HeapInv, TypeOK
<1>3. RefCountExact'
  BY <1>1 DEF HeapInv, RefCountExact, WrappersOf, ParentsOf, OnTrail, Cached
<1> QED
  BY <1>1, <1>2, <1>3 DEF HeapInv, EraseExact, TableClosed, OwnerAlive,
                          HoldersValid, ResultsHeld, BatchPending

\* Nothing but the results changes, and those have a holder.
LEMMA ReturnStep ==
    ASSUME HeapInv, batch = {},
           UNCHANGED <<ctx, userRef, table, rc, erase, trail, mode, handle,
                       owner, batch>>,
           borrowed' \subseteq Wrapper, returned' \subseteq Node,
           via' \in Context, ResultsHeld'
    PROVE  HeapInv'
<1>1. TypeOK'
  BY DEF HeapInv, TypeOK
<1>2. RefCountExact'
  BY DEF HeapInv, RefCountExact, WrappersOf, ParentsOf, OnTrail, Cached
<1> QED
  BY <1>1, <1>2 DEF HeapInv, EraseExact, TableClosed, OwnerAlive,
                    HoldersValid, BatchPending

\* An accessor returns a cell its receiver holds, and keeps the receiver.
LEMMA AccessStep ==
    ASSUME HeapInv, NEW w \in Wrapper, Access(w)
    PROVE  HeapInv'
<1> DEFINE x == handle[w]
<1>1. /\ batch = {} /\ x # NoNode /\ ctx[owner[w]] = "alive"
      /\ returned' \subseteq Args[x] \cup {x} /\ borrowed' = {w}
      /\ via' = owner[w]
      /\ UNCHANGED <<ctx, userRef, table, rc, erase, trail, mode, handle,
                     owner, batch>>
  BY DEF Access, CanCall, NativeIdle
<1>2. /\ x \in Node /\ x \in table /\ Args[x] \subseteq table
      /\ Args[x] \subseteq Node
      /\ Home[x] = owner[w]
      /\ \A n \in Args[x] : Home[n] = owner[w]
  BY <1>1, TermAssumption
     DEF HeapInv, TypeOK, HoldersValid, TableClosed, OwnerAlive
<1>3. ResultsHeld'
  BY <1>1, <1>2 DEF ResultsHeld
<1>4. /\ borrowed' \subseteq Wrapper /\ returned' \subseteq Node
      /\ via' \in Context
  BY <1>1, <1>2, TermAssumption
<1> HIDE DEF x
<1> QED  BY <1>1, <1>3, <1>4, ReturnStep

\* The getter returns the cell the cache of its context holds.
LEMMA GetModeStep ==
    ASSUME HeapInv, NEW c \in Context, GetMode(c)
    PROVE  HeapInv'
<1>1. /\ batch = {} /\ ctx[c] = "alive" /\ returned' = {mode[c]}
      /\ via' = c
      /\ UNCHANGED <<ctx, userRef, table, rc, erase, trail, mode, handle,
                     owner, borrowed, batch>>
  BY DEF GetMode, CanCall, NativeIdle
<1>2. mode[c] \in Node /\ mode[c] \in table /\ Home[mode[c]] = c
  BY <1>1 DEF HeapInv, TypeOK, HoldersValid
<1>3. ResultsHeld'
  BY <1>1, <1>2 DEF ResultsHeld
<1>4. /\ borrowed' \subseteq Wrapper /\ returned' \subseteq Node
      /\ via' \in Context
  BY <1>1, <1>2 DEF HeapInv, TypeOK
<1> QED  BY <1>1, <1>3, <1>4, ReturnStep

\* Every result that waits for its wrapper belongs to the context the method
\* wraps it with: a made, translated or accessed term, the cached rounding
\* mode, each member of a batch.
LEMMA ViaStep ==
    ASSUME HeapInv, ViaHome, Next
    PROVE  ViaHome'
<1>1. ASSUME NEW c \in Context, ContextStep(c) PROVE ViaHome'
  BY <1>1 DEF ContextStep, CreateContext, DropContext, DeinitContext,
              DelContext, DelManager, swiftVars, ViaHome
<1>2. ASSUME NEW c \in Context, CallStep(c) PROVE ViaHome'
  <2>1. ASSUME NEW n \in Node, Make(c, n) PROVE ViaHome'
    BY <2>1 DEF Make, Build, CanCall, NativeIdle, ViaHome
  <2>2. ASSUME NEW w \in Wrapper, Translate(w, c) PROVE ViaHome'
    <3>1. handle[w] \in Node /\ Home[Twin[handle[w]][c]] = c
      BY <2>2, ContextAssumption DEF Translate, HeapInv, TypeOK
    <3> QED
      BY <2>2, <3>1 DEF Translate, Build, CanCall, NativeIdle, ViaHome
  <2>3. ASSUME NEW S \in Batches, BeginBatch(c, S) PROVE ViaHome'
    BY <2>3 DEF BeginBatch, CanCall, ViaHome
  <2>4. CASE GetMode(c)
    <3>1. Home[mode[c]] = c
      BY <2>4 DEF GetMode, CanCall, HeapInv, HoldersValid
    <3> QED  BY <2>4, <3>1 DEF GetMode, CanCall, NativeIdle, ViaHome
  <2>5. ASSUME NEW w \in Wrapper, SetMode(c, w) PROVE ViaHome'
    BY <2>5 DEF SetMode, swiftVars, ViaHome
  <2> QED  BY <1>2, <2>1, <2>2, <2>3, <2>4, <2>5 DEF CallStep
<1>3. ASSUME NEW w \in Wrapper, WrapperStep(w) PROVE ViaHome'
  <2>1. ASSUME NEW n \in Node, Wrap(w, n) PROVE ViaHome'
    BY <2>1 DEF Wrap, NativeIdle, ViaHome
  <2>2. CASE Access(w)
    <3>1. /\ batch' = {} /\ via' = owner[w] /\ returned' # {}
          /\ returned' \subseteq Args[handle[w]] \cup {handle[w]}
      BY <2>2 DEF Access, CanCall, NativeIdle
    <3>2. handle[w] \in Node /\ owner[w] = Home[handle[w]]
      BY <2>2 DEF Access, HeapInv, TypeOK, OwnerAlive
    <3>3. \A n \in Args[handle[w]] : Home[n] = owner[w]
      BY <3>2, TermAssumption
    <3> QED  BY <3>1, <3>2, <3>3 DEF ViaHome
  <2>3. CASE Deinit(w) \/ Release(w)
    BY <2>3 DEF Deinit, Release, ViaHome
  <2> QED  BY <1>3, <2>1, <2>2, <2>3 DEF WrapperStep
<1>4. CASE EndBatch
  BY <1>4 DEF EndBatch, HeapInv, BatchPending, ViaHome
<1>5. ASSUME NEW n \in Node, DeleteNode(n) PROVE ViaHome'
  BY <1>5 DEF DeleteNode, swiftVars, ViaHome
<1> QED  BY <1>1, <1>2, <1>3, <1>4, <1>5 DEF Next

-----------------------------------------------------------------------------
(* The theorems.                                                           *)

\* Nothing is allocated, held or returned before the first context exists.
LEMMA InitIInv == Init => IInv
<1> SUFFICES ASSUME Init PROVE IInv
  OBVIOUS
<1> USE DEF Init
<1>1. TypeOK
  BY DEF TypeOK
<1>2. RefCountExact
  <2>1. \A n \in Node : WrappersOf(n) = {} /\ ParentsOf(n) = {}
    BY ContextAssumption DEF WrappersOf, ParentsOf, ParentsIn
  <2>2. \A n \in Node : OnTrail(n) = 0 /\ Cached(n) = 0
    BY ContextAssumption, TermAssumption DEF OnTrail, Cached
  <2>3. Cardinality({}) = 0
    BY FS_EmptySet
  <2> QED  BY <2>1, <2>2, <2>3 DEF RefCountExact
<1>3. EraseExact /\ TableClosed /\ OwnerAlive /\ ResultsHeld /\ BatchPending
  BY DEF EraseExact, TableClosed, OwnerAlive, ResultsHeld, BatchPending
<1>4. HoldersValid
  BY DEF HoldersValid
<1>5. ViaHome
  BY DEF ViaHome
<1> QED  BY <1>1, <1>2, <1>3, <1>4, <1>5 DEF IInv, HeapInv

\* Every step of the next-state relation preserves the invariant.
LEMMA NextIInv == IInv /\ [Next]_vars => IInv'
<1> SUFFICES ASSUME HeapInv, ViaHome, [Next]_vars PROVE HeapInv' /\ ViaHome'
  BY DEF IInv
<1>1. ASSUME NEW c \in Context, ContextStep(c) PROVE HeapInv'
  BY <1>1, CreateContextStep, DropContextStep, DeinitContextStep,
     DelContextStep, DelManagerStep DEF ContextStep
<1>2. ASSUME NEW c \in Context, CallStep(c) PROVE HeapInv'
  BY <1>2, MakeStep, TranslateStep, BeginBatchStep, GetModeStep, SetModeStep
     DEF CallStep
<1>3. ASSUME NEW w \in Wrapper, WrapperStep(w) PROVE HeapInv'
  BY <1>3, WrapStep, AccessStep, DeinitStep, ReleaseStep DEF WrapperStep
<1>4. ASSUME EndBatch PROVE HeapInv'
  BY <1>4, EndBatchStep
<1>5. ASSUME NEW n \in Node, DeleteNode(n) PROVE HeapInv'
  BY <1>5, DeleteNodeStep
<1>6. Next => ViaHome'
  BY ViaStep
<1>7. CASE UNCHANGED vars
  <2> USE <1>7 DEF vars
  <2>1. TypeOK'
    BY DEF HeapInv, TypeOK
  <2>2. RefCountExact'
    BY DEF HeapInv, RefCountExact, WrappersOf, ParentsOf, OnTrail, Cached
  <2> QED
    BY <2>1, <2>2 DEF HeapInv, EraseExact, TableClosed, OwnerAlive,
                      HoldersValid, ResultsHeld, BatchPending, ViaHome
<1> QED  BY <1>1, <1>2, <1>3, <1>4, <1>5, <1>6, <1>7 DEF Next

\* The inductive invariant holds in every reachable state, whatever the
\* contexts, terms and wrappers are: what Z3_inc_ref, Z3_dec_ref, the trail
\* and delete_node maintain together.
THEOREM InductiveInvariant == Spec => []IInv
  BY InitIInv, NextIInv, PTL DEF Spec

\* Every variable has its type; in particular no m_ref_count goes below zero.
THEOREM TypeCorrect == Spec => []TypeOK
<1>1. IInv => TypeOK
  BY DEF IInv, HeapInv
<1> QED  BY <1>1, InductiveInvariant, PTL

\* Every m_ref_count is the number of the cell's holders in every reachable
\* state, in the middle of a cascade of deletions too.
THEOREM CountsExact == Spec => []RefCountExact
<1>1. IInv => RefCountExact
  BY DEF IInv, HeapInv
<1> QED  BY <1>1, InductiveInvariant, PTL

\* A wrapper's context is alive, and is the one its term belongs to.
THEOREM OwnersAlive == Spec => []OwnerAlive
<1>1. IInv => OwnerAlive
  BY DEF IInv, HeapInv
<1> QED  BY <1>1, InductiveInvariant, PTL

\* No raw Z3_ast a program can still pass to Z3 - a wrapper's, a result's on
\* its way to its wrapper, the cached rounding mode - is ever dangling.
THEOREM NoDangling == Spec => []NoDanglingHandle
<1>1. IInv => NoDanglingHandle
  <2> SUFFICES ASSUME HeapInv,
                      NEW n \in {handle[w] : w \in Wrapper}
                                  \cup {mode[c] : c \in Context} \cup returned,
                      n # NoNode
               PROVE  n \in table \ erase /\ ctx[Home[n]] = "alive"
    BY DEF IInv, NoDanglingHandle
  <2>1. /\ n \in Node /\ n \in table /\ ctx[Home[n]] = "alive" /\ rc[n] # 0
    <3>1. CASE \E w \in Wrapper : n = handle[w]
      <4>1. PICK w \in Wrapper : n = handle[w]
        BY <3>1
      <4>2. n \in Node /\ n \in table /\ Home[n] = owner[w]
        BY <4>1 DEF HeapInv, TypeOK, HoldersValid, OwnerAlive
      <4>3. Home[n] \in Context
        BY <4>2, TermAssumption
      <4>4. ctx[Home[n]] = "alive"
        BY <4>2, <4>3, ContextAssumption DEF HeapInv, OwnerAlive
      <4> QED  BY <4>1, <4>2, <4>4, ZeroMeansUnheld
    <3>2. CASE \E c \in Context : n = mode[c]
      <4>1. PICK c \in Context : n = mode[c]
        BY <3>2
      <4>2. n \in Node /\ n \in table /\ Home[n] = c /\ ctx[c] = "alive"
        BY <4>1 DEF HeapInv, TypeOK, HoldersValid
      <4> QED  BY <4>1, <4>2, ZeroMeansUnheld
    <3>3. CASE n \in returned
      <4>1. n \in Node /\ rc[n] > 0 /\ rc[n] \in Nat
        BY <3>3, ResultPositive DEF HeapInv, TypeOK
      <4>2. n \in table /\ ctx[Home[n]] = "alive"
        BY <3>3 DEF HeapInv, ResultsHeld
      <4> QED  BY <4>1, <4>2
    <3> QED  BY <3>1, <3>2, <3>3
  <2> QED  BY <2>1 DEF HeapInv, EraseExact
<1> QED  BY <1>1, InductiveInvariant, PTL

-----------------------------------------------------------------------------
(* What the counts say of the heap as a whole.                             *)

\* A cell is smaller than the cells that hold it: of the cells of a set, one
\* has no parent in it.
LEMMA Outermost ==
    ASSUME NEW S \in SUBSET Node, S # {}
    PROVE  \E n \in S : \A p \in S : n \notin Args[p]
<1> DEFINE Size(n) == Cardinality(Sub[n])
           Room(n) == Cardinality(Node) - Size(n)
<1>1. Cardinality(Node) \in Nat
  BY FiniteAssumption, FS_CardinalityType
<1>2. \A n \in Node : Size(n) \in Nat /\ Size(n) <= Cardinality(Node)
  BY TermAssumption, FiniteAssumption, FS_Subset, FS_CardinalityType
<1>3. \A n \in Node : Room(n) \in Nat
  BY <1>1, <1>2
<1>4. ASSUME NEW p \in Node, NEW n \in Args[p]
      PROVE  n \in Node /\ Size(n) < Size(p)
  <2>1. n \in Node /\ p \in Sub[p] /\ n \in Sub[p]
    BY TermAssumption
  <2>2. Sub[n] \subseteq Sub[p] /\ p \notin Sub[n]
    BY <2>1, AcyclicAssumption
  <2>3. IsFiniteSet(Sub[p])
    BY TermAssumption, FiniteAssumption, FS_Subset
  <2>4. Sub[n] # Sub[p]
    BY <2>1, <2>2
  <2>5. Size(n) <= Size(p) /\ Size(n) # Size(p)
    BY <2>2, <2>3, <2>4, FS_Subset
  <2>6. Size(n) \in Nat /\ Size(p) \in Nat
    BY <1>2, <2>1
  <2> HIDE DEF Size
  <2> QED  BY <2>1, <2>5, <2>6
<1> HIDE DEF Size
<1>5. PICK k \in {Room(n) : n \in S} : \A j \in {Room(n) : n \in S} : k <= j
  <2>1. {Room(n) : n \in S} \in SUBSET Nat /\ {Room(n) : n \in S} # {}
    BY <1>3
  <2> HIDE DEF Room
  <2> QED  BY <2>1, LeastNatural
<1>6. PICK n \in S : k = Room(n)
  OBVIOUS
<1>7. ASSUME NEW p \in S, n \in Args[p]
      PROVE  FALSE
  <2>1. Size(n) < Size(p) /\ Room(n) <= Room(p) /\ n \in Node /\ p \in Node
    BY <1>4, <1>5, <1>6, <1>7
  <2> QED  BY <1>1, <1>2, <2>1
<1> QED  BY <1>7

\* With a cell all cells of its term are allocated.
LEMMA WholeTerms ==
    ASSUME TableClosed, NEW r \in Node, r \in table
    PROVE  Sub[r] \subseteq table
<1> DEFINE S == Sub[r] \ table
<1>1. S \in SUBSET Node
  BY TermAssumption
<1> SUFFICES ASSUME S # {} PROVE FALSE
  OBVIOUS
<1>2. PICK n \in S : \A p \in S : n \notin Args[p]
  BY <1>1, Outermost
<1>3. PICK p \in Sub[r] : n \in Args[p]
  BY TermAssumption
<1> QED  BY <1>2, <1>3 DEF TableClosed

\* What the program can name is allocated.
LEMMA RootsAllocated ==
    ASSUME HeapInv
    PROVE  Roots \subseteq table
  BY DEF HeapInv, HoldersValid, ResultsHeld, Roots

\* Nothing that is being erased can be reached.
LEMMA ErasedUnreachable ==
    ASSUME HeapInv, NEW n \in erase
    PROVE  n \in table \ Heap!Reach(Roots)
<1>1. n \in Node /\ n \in table /\ rc[n] = 0
  BY DEF HeapInv, TypeOK, EraseExact
<1>2. ASSUME NEW r \in Roots, n \in Sub[r]
      PROVE  FALSE
  <2>1. r \in table /\ r \in Node /\ Sub[r] \subseteq table
    BY RootsAllocated, WholeTerms DEF HeapInv, TypeOK
  <2>2. CASE n # r
    <3>1. PICK p \in Sub[r] : n \in Args[p]
      BY <1>2, <2>1, <2>2, TermAssumption
    <3> QED  BY <1>1, <2>1, <3>1, ZeroMeansUnheld
  <2>3. CASE n = r
    <3>1. n \notin returned
      BY <1>1, ResultPositive
    <3>2. \A c \in Context : n \notin trail[c] /\ n # mode[c]
      <4>1. n # NoNode
        BY <1>1, ContextAssumption
      <4>2. \A c \in Context : n \in trail[c] \/ n = mode[c] => Home[n] = c
        BY <4>1 DEF HeapInv, HoldersValid
      <4> QED  BY <1>1, <4>2, ZeroMeansUnheld
    <3>3. \A w \in Wrapper : handle[w] # n
      BY <1>1, ZeroMeansUnheld
    <3> QED  BY <2>3, <3>1, <3>2, <3>3 DEF Roots
  <2> QED  BY <2>2, <2>3
<1> QED  BY <1>1, <1>2 DEF Heap!Reach

\* Once every cell without a holder has been erased, all that is left can be
\* reached.
LEMMA AllReachable ==
    ASSUME HeapInv, erase = {}
    PROVE  table = Heap!Reach(Roots)
<1> DEFINE S == table \ Heap!Reach(Roots)
<1>1. Heap!Reach(Roots) \subseteq table
  BY RootsAllocated, WholeTerms DEF Heap!Reach, HeapInv, TypeOK
<1>2. S \in SUBSET Node
  BY DEF HeapInv, TypeOK
<1> SUFFICES ASSUME S # {} PROVE FALSE
  BY <1>1
<1>3. PICK n \in S : \A p \in S : n \notin Args[p]
  BY <1>2, Outermost
<1>4. n \in Node /\ n \in table /\ n \notin Heap!Reach(Roots)
  BY <1>2
<1>5. n \notin Roots
  BY <1>4, TermAssumption DEF Heap!Reach
<1>6. rc[n] # 0
  BY <1>4 DEF HeapInv, EraseExact
<1>7. WrappersOf(n) = {} /\ OnTrail(n) = 0 /\ Cached(n) = 0
  <2>1. Home[n] \in Context /\ n # NoNode
    BY <1>4, TermAssumption, ContextAssumption
  <2> QED  BY <1>5, <2>1 DEF Roots, WrappersOf, OnTrail, Cached
<1>8. ParentsOf(n) # {}
  <2>1. Cardinality(WrappersOf(n)) = 0
    BY <1>7, FS_EmptySet
  <2>2. Cardinality(ParentsOf(n)) # 0
    BY <1>4, <1>6, <1>7, <2>1 DEF HeapInv, RefCountExact
  <2> QED  BY <2>2, FS_EmptySet
<1>9. PICK p \in table : n \in Args[p]
  BY <1>8 DEF ParentsOf, ParentsIn
<1>10. PICK r \in Roots : p \in Sub[r]
  <2>1. p \in Heap!Reach(Roots)
    BY <1>3, <1>9
  <2> QED  BY <2>1 DEF Heap!Reach
<1>11. r \in Node
  BY RootsAllocated DEF HeapInv, TypeOK
<1>12. n \in Sub[r]
  BY <1>9, <1>10, <1>11, TermAssumption
<1> QED  BY <1>4, <1>12 DEF Heap!Reach

\* When no native code runs, the table of the managers is exactly what wrappers,
\* results, trails and cached modes lead to: Z3_inc_ref and Z3_dec_ref as
\* SwiftZ3 calls them leak no term and free none that is in use.
THEOREM TableReachable == Spec => []TableIsReachable
<1>1. IInv => TableIsReachable
  BY AllReachable DEF IInv, TableIsReachable, NativeIdle, Heap!Reach
<1> QED  BY <1>1, InductiveInvariant, PTL

\* Everything the program can name belongs to a context that is alive or about
\* to give up its trail.
LEMMA RootsAtHome ==
    ASSUME HeapInv, NEW r \in Roots
    PROVE  r \in Node /\ ctx[Home[r]] \in {"alive", "deinit"}
<1>1. r \in Node
  BY RootsAllocated DEF HeapInv, TypeOK
<1>2. CASE r \in returned
  BY <1>1, <1>2 DEF HeapInv, ResultsHeld
<1>3. CASE \E w \in Wrapper : r = handle[w]
  <2>1. PICK w \in Wrapper : r = handle[w]
    BY <1>3
  <2>2. handle[w] # NoNode
    BY <1>1, <2>1, ContextAssumption
  <2>3. owner[w] = Home[r] /\ Home[r] \in Context
    BY <1>1, <2>1, <2>2, TermAssumption DEF HeapInv, OwnerAlive
  <2>4. ctx[owner[w]] = "alive"
    BY <2>3, ContextAssumption DEF HeapInv, OwnerAlive
  <2> QED  BY <1>1, <2>3, <2>4
<1>4. CASE \E c \in Context : r = mode[c]
  <2>1. PICK c \in Context : r = mode[c]
    BY <1>4
  <2>2. mode[c] # NoNode
    BY <1>1, <2>1, ContextAssumption
  <2>3. Home[r] = c /\ ctx[c] = "alive"
    BY <2>1, <2>2 DEF HeapInv, HoldersValid
  <2> QED  BY <1>1, <2>3
<1>5. CASE \E c \in Context : r \in trail[c]
  <2>1. PICK c \in Context : r \in trail[c]
    BY <1>5
  <2>2. Home[r] = c /\ ctx[c] \in {"alive", "deinit"}
    BY <2>1 DEF HeapInv, HoldersValid
  <2> QED  BY <1>1, <2>1, <2>2
<1> QED  BY <1>1, <1>2, <1>3, <1>4, <1>5 DEF Roots

\* A context whose api::context has gone has nothing left in its manager.
LEMMA ClosingIsEmpty ==
    ASSUME HeapInv, erase = {}, NEW c \in Context, ctx[c] = "closing"
    PROVE  \A n \in table : Home[n] # c
<1> SUFFICES ASSUME NEW n \in table, Home[n] = c PROVE FALSE
  OBVIOUS
<1>1. PICK r \in Roots : n \in Sub[r]
  BY AllReachable DEF Heap!Reach
<1>2. r \in Node /\ ctx[Home[r]] \in {"alive", "deinit"}
  BY RootsAtHome
<1>3. Home[n] = Home[r]
  BY <1>1, <1>2, TermAssumption
<1> QED  BY <1>2, <1>3

\* ~ast_manager finds an empty table: by the time the last reference to a
\* Z3Context goes, every term of its manager has been released, in whatever
\* order ARC ran the deinits.
THEOREM ManagersEmpty == Spec => ManagerEmptyAtEnd
<1> DEFINE Ends(c) == ctx[c] = "closing" /\ ctx'[c] = "deleted"
<1>1. ASSUME HeapInv, [Next]_vars
      PROVE  [\A c \in Context : Ends(c) => \A n \in table : Home[n] # c]_vars
  <2> SUFFICES ASSUME Next, NEW c \in Context, Ends(c)
               PROVE  \A n \in table : Home[n] # c
    BY <1>1
  <2>1. erase = {}
    <3>1. CASE \E d \in Context : ContextStep(d)
      BY <3>1 DEF ContextStep, CreateContext, DropContext, DeinitContext,
                  DelContext, DelManager, NativeIdle
    <3>2. CASE \E d \in Context : CallStep(d)
      BY <3>2 DEF CallStep, Make, Translate, Build, BeginBatch, GetMode,
                  SetMode
    <3>3. CASE \E w \in Wrapper : WrapperStep(w)
      BY <3>3 DEF WrapperStep, Wrap, Access, Deinit, Release
    <3>4. CASE EndBatch
      BY <3>4 DEF EndBatch
    <3>5. CASE \E n \in Node : DeleteNode(n)
      BY <3>5 DEF DeleteNode
    <3> QED  BY <3>1, <3>2, <3>3, <3>4, <3>5 DEF Next
  <2> QED  BY <1>1, <2>1, ClosingIsEmpty
<1>2. IInv /\ [Next]_vars
        => [\A c \in Context :
              ctx[c] = "closing" /\ ctx'[c] = "deleted"
                 => \A n \in table : Home[n] # c]_vars
  BY <1>1 DEF IInv
<1> QED  BY <1>2, InductiveInvariant, PTL DEF Spec, ManagerEmptyAtEnd

-----------------------------------------------------------------------------
(* The counted heap implements the collected one.                          *)

\* A step that frees nothing is a computation of the program.
LEMMA ComputeStep ==
    ASSUME HeapInv, HeapInv', erase = {}, table \subseteq table'
    PROVE  Heap!Compute
<1>1. table = Heap!Reach(Roots)
  BY AllReachable
<1>2. Roots' \subseteq table'
  BY DEF HeapInv, HoldersValid, ResultsHeld, Roots
<1>3. table' \subseteq Node /\ \A p \in table' : Args[p] \subseteq table'
  BY DEF HeapInv, TypeOK, TableClosed
<1>4. \A r \in table' : Sub[r] \subseteq table'
  <2>1. PICK T \in SUBSET Node : T = table'
    BY <1>3
  <2> SUFFICES ASSUME NEW r \in T, Sub[r] \ T # {} PROVE FALSE
    BY <2>1
  <2>2. Sub[r] \ T \in SUBSET Node
    BY TermAssumption
  <2>3. PICK n \in Sub[r] \ T : \A p \in Sub[r] \ T : n \notin Args[p]
    BY <2>2, Outermost
  <2>4. PICK p \in Sub[r] : n \in Args[p]
    BY <2>3, TermAssumption
  <2> QED  BY <1>3, <2>1, <2>3, <2>4
<1>5. \A r \in table' : r \in Sub[r]
  BY <1>3, TermAssumption
<1>6. Heap!Reach(table') = table'
  BY <1>4, <1>5 DEF Heap!Reach
<1> QED  BY <1>1, <1>2, <1>6 DEF Heap!Compute

\* An iteration of the loop of delete_node frees a cell out of reach.
LEMMA CollectStep ==
    ASSUME HeapInv, NEW n \in Node, DeleteNode(n)
    PROVE  Heap!Collect
<1>1. n \in table \ Heap!Reach(Roots)
  BY ErasedUnreachable DEF DeleteNode
<1>2. table' = table \ {n} /\ Roots' = Roots
  BY DEF DeleteNode, Roots, swiftVars
<1> QED  BY <1>1, <1>2 DEF Heap!Collect

\* The other steps free nothing, and none runs in the middle of a deletion
\* except that the program may let go of a context.
LEMMA KeepStep ==
    ASSUME HeapInv, Next, ~ \E n \in Node : DeleteNode(n)
    PROVE  \/ erase = {} /\ table \subseteq table'
           \/ table' = table /\ Roots' = Roots
<1>1. CASE \E c \in Context : ContextStep(c)
  <2>1. PICK c \in Context : ContextStep(c)
    BY <1>1
  <2>2. CASE CreateContext(c)
    BY <2>2 DEF CreateContext, NativeIdle
  <2>3. CASE DropContext(c)
    BY <2>3 DEF DropContext, swiftVars, Roots
  <2>4. CASE DeinitContext(c)
    BY <2>4 DEF DeinitContext, NativeIdle
  <2>5. CASE DelContext(c)
    BY <2>5 DEF DelContext, NativeIdle
  <2>6. CASE DelManager(c)
    BY <2>6, ClosingIsEmpty DEF DelManager, NativeIdle
  <2> QED  BY <2>1, <2>2, <2>3, <2>4, <2>5, <2>6 DEF ContextStep
<1>2. CASE \E c \in Context : CallStep(c)
  BY <1>2 DEF CallStep, Make, Translate, Build, BeginBatch, GetMode, SetMode,
              CanCall, NativeIdle
<1>3. CASE \E w \in Wrapper : WrapperStep(w)
  BY <1>3 DEF WrapperStep, Wrap, Access, Deinit, Release, CanCall, NativeIdle
<1>4. CASE EndBatch
  BY <1>4 DEF EndBatch
<1> QED  BY <1>1, <1>2, <1>3, <1>4 DEF Next

\* The reference counted heap behaves as a collected one: the program sees a
\* cell disappear only when no sequence of accessors could name it any more.
THEOREM Collected == Spec => CollectedHeap
<1>1. Init => Heap!Init
  BY DEF Init, Heap!Init, Roots
<1>2. IInv /\ IInv' /\ [Next]_vars
        => [Heap!Compute \/ Heap!Collect]_<<table, Roots>>
  <2> SUFFICES ASSUME HeapInv, HeapInv', [Next]_vars
               PROVE  [Heap!Compute \/ Heap!Collect]_<<table, Roots>>
    BY DEF IInv
  <2>1. CASE \E n \in Node : DeleteNode(n)
    BY <2>1, CollectStep
  <2>2. CASE Next /\ ~ \E n \in Node : DeleteNode(n)
    BY <2>2, KeepStep, ComputeStep
  <2>3. CASE UNCHANGED vars
    BY <2>3 DEF vars, Roots
  <2> QED  BY <2>1, <2>2, <2>3
<1> QED
  BY <1>1, <1>2, InductiveInvariant, PTL DEF Spec, CollectedHeap, Heap!Spec
=============================================================================
