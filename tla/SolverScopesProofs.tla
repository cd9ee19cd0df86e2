-------------------------- MODULE SolverScopesProofs --------------------------
(***************************************************************************)
(* Proofs about SolverScopes: the two solvers of combined_solver keep      *)
(* their types whatever is called and interrupted and, provided that no    *)
(* interrupt is left pending outside of a check, hold the same assertions  *)
(* at every scope and together implement AssertionStack.                   *)
(***************************************************************************)
EXTENDS SolverScopes, DataLemmas

-----------------------------------------------------------------------------
(* Well-formed solvers.                                                    *)

Limit == [size : Nat, inconsistent : BOOLEAN]

Solver1 == [entries : Seq(Entry), limits : Seq(Nat),
            assumptions : Seq(Name), marks : Seq(Nat),
            result : Leaf \cup {Nothing}]

Solver2 == [entries : Seq(Entry), limits : Seq(Limit), lazy : Nat,
            inconsistent : BOOLEAN,
            assumptions : Seq(Name), marks : Seq(Nat),
            search : Leaf \cup {Nothing}, m_model : Leaf \cup {Nothing}]

Well1(s) ==
    /\ s \in Solver1
    /\ Marks(s.limits, s.entries) /\ Marks(s.marks, s.assumptions)
    /\ Len(s.limits) = Len(s.marks)

\* Sizes do not shrink inwards, and a scope is either open or left for later.
Sized(limits, size) ==
    /\ limits \in Seq(Limit)
    /\ \A i \in DOMAIN limits : limits[i].size <= size
    /\ \A i, j \in DOMAIN limits : i <= j => limits[i].size <= limits[j].size

Well2(s) ==
    /\ s \in Solver2
    /\ Sized(s.limits, Len(s.entries)) /\ Marks(s.marks, s.assumptions)
    /\ Len(s.limits) + s.lazy = Len(s.marks)

FlagsInv ==
    /\ {m_inc_mode, m_check_sat_executed, m_use_solver1_results, m_cancel}
           \subseteq BOOLEAN
    /\ checked # Nothing =>
           checked \in [verdict : Verdict, assumed : SUBSET Formula]
    /\ model \in Leaf \cup {Nothing}

WellInv == Well1(solver1) /\ Well2(solver2) /\ FlagsInv

LEMMA Fresh1Well == Well1(Fresh1)
<1>1. Fresh1 \in Solver1
  BY EmptySeq DEF Fresh1, Solver1
<1>2. \A s : Marks(<<>>, s)
  BY EmptySeq DEF Marks
<1> QED  BY <1>1, <1>2 DEF Well1, Fresh1

LEMMA Fresh2Well == Well2(Fresh2)
<1>1. Fresh2 \in Solver2
  BY EmptySeq DEF Fresh2, Solver2
<1>2. \A s : Marks(<<>>, s) /\ Sized(<<>>, s)
  BY EmptySeq DEF Marks, Sized
<1> QED  BY <1>1, <1>2, EmptySeq DEF Well2, Fresh2

\* The name of a tracked assertion joins the others.
LEMMA NamedWell1 ==
    ASSUME NEW s, Well1(s), NEW e \in Entry
    PROVE  /\ Well1(Named(s, e))
           /\ Named(s, e).entries = s.entries /\ Named(s, e).limits = s.limits
<1> DEFINE names == Append(s.assumptions, e.name)
           t == [s EXCEPT !.assumptions = names]
<1>1. CASE e.name = NoName
  BY <1>1 DEF Named
<1>2. CASE e.name # NoName
  <2>1. e.name \in Name /\ s \in Solver1
    BY <1>2 DEF Entry, Well1
  <2>2. s.assumptions \in Seq(Name)
    BY <2>1 DEF Solver1
  <2>3. names \in Seq(Name) /\ Len(s.assumptions) <= Len(names)
    BY <2>1, <2>2, AppendProperties, LenProperties
  <2>4. Marks(s.marks, names)
    BY <2>2, <2>3, MarksGrow DEF Well1
  <2>5. Named(s, e) = t
    BY <1>2 DEF Named
  <2> HIDE DEF names
  <2>6. /\ t \in Solver1 /\ t.assumptions = names
        /\ t.entries = s.entries /\ t.limits = s.limits /\ t.marks = s.marks
    BY <2>1, <2>3 DEF Solver1
  <2> HIDE DEF t
  <2> QED  BY <2>4, <2>5, <2>6 DEF Well1
<1> QED  BY <1>1, <1>2

LEMMA NamedWell2 ==
    ASSUME NEW s, Well2(s), NEW e \in Entry
    PROVE  /\ Well2(Named(s, e))
           /\ Named(s, e) = [s EXCEPT !.assumptions = Named(s, e).assumptions]
           /\ Named(s, e).assumptions = IF e.name = NoName THEN s.assumptions
                                        ELSE Append(s.assumptions, e.name)
<1> DEFINE names == Append(s.assumptions, e.name)
           t == [s EXCEPT !.assumptions = names]
<1>0. s \in Solver2
  BY DEF Well2
<1>1. CASE e.name = NoName
  <2>1. Named(s, e) = s
    BY <1>1 DEF Named
  <2>2. s = [s EXCEPT !.assumptions = s.assumptions]
    BY <1>0 DEF Solver2
  <2> QED  BY <1>1, <2>1, <2>2
<1>2. CASE e.name # NoName
  <2>1. e.name \in Name
    BY <1>2 DEF Entry
  <2>2. s.assumptions \in Seq(Name)
    BY <1>0 DEF Solver2
  <2>3. names \in Seq(Name) /\ Len(s.assumptions) <= Len(names)
    BY <2>1, <2>2, AppendProperties, LenProperties
  <2>4. Marks(s.marks, names)
    BY <2>2, <2>3, MarksGrow DEF Well2
  <2>5. Named(s, e) = t
    BY <1>2 DEF Named
  <2> HIDE DEF names
  <2>6. /\ t \in Solver2 /\ t.assumptions = names
        /\ t.entries = s.entries /\ t.limits = s.limits /\ t.marks = s.marks
        /\ t.lazy = s.lazy
    BY <1>0, <2>3 DEF Solver2
  <2> HIDE DEF t
  <2>7. Well2(t)
    BY <2>4, <2>6 DEF Well2
  <2>8. Named(s, e).assumptions = names
    BY <2>5, <2>6
  <2>9. t = [s EXCEPT !.assumptions = names]
    BY DEF t
  <2> QED  BY <1>2, <2>5, <2>7, <2>8, <2>9 DEF names
<1> QED  BY <1>1, <1>2

\* A call leaves solver1 well-formed: what it does to its assertions.
LEMMA Assert1Well ==
    ASSUME NEW s, Well1(s), NEW e \in Entry, NEW t,
           t = [Named(s, e) EXCEPT !.entries = Append(@, e),
                                   !.result = Nothing]
    PROVE  /\ Well1(t) /\ t.entries = Append(s.entries, e)
           /\ t.limits = s.limits
<1> DEFINE u == Named(s, e)
           entries == Append(s.entries, e)
<1>1. Well1(u) /\ u.entries = s.entries /\ u.limits = s.limits
  BY NamedWell1
<1>2. u \in Solver1 /\ s.entries \in Seq(Entry)
  BY <1>1 DEF Well1, Solver1
<1>3. entries \in Seq(Entry) /\ Len(s.entries) <= Len(entries)
  BY <1>2, AppendProperties, LenProperties
<1>4. t = [u EXCEPT !.entries = entries, !.result = Nothing]
  BY <1>1
<1>5. Marks(u.limits, entries)
  BY <1>1, <1>2, <1>3, MarksGrow DEF Well1
<1> HIDE DEF u, entries
<1>6. /\ t \in Solver1 /\ t.entries = entries /\ t.limits = u.limits
      /\ t.marks = u.marks /\ t.assumptions = u.assumptions
  BY <1>2, <1>3, <1>4 DEF Solver1
<1> QED  BY <1>1, <1>5, <1>6 DEF Well1, entries

LEMMA Push1Well ==
    ASSUME NEW s, Well1(s), NEW t,
           t = [Marked(s) EXCEPT !.limits = Append(@, Len(s.entries)),
                                 !.result = Nothing]
    PROVE  /\ Well1(t) /\ t.entries = s.entries
           /\ t.limits = Append(s.limits, Len(s.entries))
<1> DEFINE marks == Append(s.marks, Len(s.assumptions))
           limits == Append(s.limits, Len(s.entries))
           u == [s EXCEPT !.marks = marks]
<1>1. /\ s \in Solver1 /\ s.entries \in Seq(Entry) /\ s.assumptions \in Seq(Name)
      /\ s.limits \in Seq(Nat) /\ s.marks \in Seq(Nat)
      /\ Len(s.entries) \in Nat /\ Len(s.assumptions) \in Nat
  BY LenProperties DEF Well1, Solver1
<1>2. /\ marks \in Seq(Nat) /\ limits \in Seq(Nat)
      /\ Len(marks) = Len(limits)
  BY <1>1, AppendProperties DEF Well1
<1>3. Marks(marks, s.assumptions) /\ Marks(limits, s.entries)
  BY <1>1, MarksPush DEF Well1
<1>4. u = Marked(s)
  BY DEF Marked
<1> HIDE DEF marks
<1>5. /\ u \in Solver1 /\ u.limits = s.limits /\ u.entries = s.entries
      /\ u.assumptions = s.assumptions /\ u.marks = marks
  BY <1>1, <1>2 DEF Solver1
<1>6. t = [u EXCEPT !.limits = limits, !.result = Nothing]
  BY <1>4, <1>5
<1> HIDE DEF u, limits
<1>7. /\ t \in Solver1 /\ t.entries = s.entries /\ t.limits = limits
      /\ t.marks = marks /\ t.assumptions = s.assumptions
  BY <1>2, <1>5, <1>6 DEF Solver1
<1> QED  BY <1>2, <1>3, <1>7 DEF Well1, limits

\* A prefix that ends where a scope started.
LEMMA CutPrefix ==
    ASSUME NEW S, NEW s \in Seq(S), NEW sizes, Marks(sizes, s),
           NEW m \in DOMAIN sizes
    PROVE  /\ SubSeq(s, 1, sizes[m]) \in Seq(S)
           /\ Len(SubSeq(s, 1, sizes[m])) = sizes[m]
           /\ sizes[m] \in 0 .. Len(s)
           /\ Marks(SubSeq(sizes, 1, m - 1), SubSeq(s, 1, sizes[m]))
           /\ Len(SubSeq(sizes, 1, m - 1)) = m - 1
<1>1. sizes[m] \in 0 .. Len(s)
  BY LenProperties, ElementOfSeq DEF Marks
<1>2. SubSeq(s, 1, sizes[m]) \in Seq(S)
      /\ Len(SubSeq(s, 1, sizes[m])) = sizes[m]
  BY <1>1, PrefixIsSeq
<1>3. PICK t \in Seq(S) : t = SubSeq(s, 1, sizes[m]) /\ Len(t) = sizes[m]
  BY <1>2
<1>4. Marks(SubSeq(sizes, 1, m - 1), t)
  BY ONLY s \in Seq(S), Marks(sizes, s), m \in DOMAIN sizes, t \in Seq(S),
          <1>3, MarksPop
<1>5. PICK R : sizes \in Seq(R)
  BY DEF Marks
<1>6. m - 1 \in 0 .. Len(sizes)
  BY ONLY <1>5, m \in DOMAIN sizes, LenProperties
<1>7. Len(SubSeq(sizes, 1, m - 1)) = m - 1
  BY ONLY <1>5, <1>6, PrefixIsSeq
<1> QED  BY <1>1, <1>2, <1>3, <1>4, <1>7

LEMMA Pop1Well ==
    ASSUME NEW s, Well1(s), NEW n \in 1 .. Len(s.marks), NEW t,
           t = [Unmarked(s, n) EXCEPT
                   !.entries = SubSeq(@, 1, s.limits[Len(s.limits) - n + 1]),
                   !.limits = SubSeq(@, 1, Len(s.limits) - n),
                   !.result = Nothing]
    PROVE  /\ Well1(t)
           /\ t.entries = SubSeq(s.entries, 1, s.limits[Len(s.limits) - n + 1])
           /\ t.limits = SubSeq(s.limits, 1, Len(s.limits) - n)
<1> DEFINE level == Len(s.limits) - n
           entries == SubSeq(s.entries, 1, s.limits[level + 1])
           limits == SubSeq(s.limits, 1, level)
           names == SubSeq(s.assumptions, 1, s.marks[level + 1])
           marks == SubSeq(s.marks, 1, level)
           u == [s EXCEPT !.assumptions = names, !.marks = marks]
<1>1. /\ s \in Solver1 /\ s.entries \in Seq(Entry) /\ s.assumptions \in Seq(Name)
      /\ s.limits \in Seq(Nat) /\ s.marks \in Seq(Nat)
      /\ Len(s.limits) = Len(s.marks) /\ Len(s.limits) \in Nat
      /\ DOMAIN s.limits = 1 .. Len(s.limits)
      /\ DOMAIN s.marks = 1 .. Len(s.limits)
  BY LenProperties DEF Well1, Solver1
<1>0. PICK k \in Nat : k = Len(s.limits)
  BY <1>1
<1>2. /\ level + 1 \in DOMAIN s.limits /\ level + 1 \in DOMAIN s.marks
      /\ level \in 0 .. Len(s.limits) /\ level \in Nat
  <2>1. n \in 1 .. k /\ level = k - n
    BY <1>0, <1>1
  <2>2. DOMAIN s.limits = 1 .. k /\ DOMAIN s.marks = 1 .. k
    BY <1>0, <1>1
  <2> HIDE DEF level
  <2> QED  BY ONLY <1>0, <2>1, <2>2
<1>3. /\ entries \in Seq(Entry) /\ Marks(limits, entries)
      /\ names \in Seq(Name) /\ Marks(marks, names)
      /\ Len(limits) = level /\ Len(marks) = level
  <2>1. Marks(s.limits, s.entries) /\ Marks(s.marks, s.assumptions)
    BY DEF Well1
  <2>2. PICK h : h = level
    OBVIOUS
  <2>3. PICK m : m = h + 1
    OBVIOUS
  <2>4. h \in Nat /\ m \in DOMAIN s.limits /\ m \in DOMAIN s.marks
        /\ m - 1 = h
    BY <1>2, <2>2, <2>3
  <2>5. m \in DOMAIN s.limits /\ s.entries \in Seq(Entry)
    BY <1>1, <2>4
  <2>6. m \in DOMAIN s.marks /\ s.assumptions \in Seq(Name)
    BY <1>1, <2>4
  <2>7. /\ SubSeq(s.entries, 1, s.limits[m]) \in Seq(Entry)
        /\ Marks(SubSeq(s.limits, 1, m - 1), SubSeq(s.entries, 1, s.limits[m]))
        /\ Len(SubSeq(s.limits, 1, m - 1)) = m - 1
    <3>1. SubSeq(s.entries, 1, s.limits[m]) \in Seq(Entry)
      BY ONLY <2>1, <2>5, CutPrefix
    <3>2. Marks(SubSeq(s.limits, 1, m - 1), SubSeq(s.entries, 1, s.limits[m]))
      BY ONLY <2>1, <2>5, CutPrefix
    <3>3. Len(SubSeq(s.limits, 1, m - 1)) = m - 1
      BY <2>4, LenProperties
    <3> QED  BY <3>1, <3>2, <3>3
  <2>8. /\ SubSeq(s.assumptions, 1, s.marks[m]) \in Seq(Name)
        /\ Marks(SubSeq(s.marks, 1, m - 1), SubSeq(s.assumptions, 1, s.marks[m]))
        /\ Len(SubSeq(s.marks, 1, m - 1)) = m - 1
    <3>1. SubSeq(s.assumptions, 1, s.marks[m]) \in Seq(Name)
      BY ONLY <2>1, <2>6, CutPrefix
    <3>2. Marks(SubSeq(s.marks, 1, m - 1), SubSeq(s.assumptions, 1, s.marks[m]))
      BY ONLY <2>1, <2>6, CutPrefix
    <3>3. Len(SubSeq(s.marks, 1, m - 1)) = m - 1
      BY <2>4, LenProperties
    <3> QED  BY <3>1, <3>2, <3>3
  <2> QED  BY <2>2, <2>3, <2>4, <2>7, <2>8
<1>4. limits \in Seq(Nat) /\ marks \in Seq(Nat)
  BY <1>1, <1>2, PrefixIsSeq
<1>5. Unmarked(s, n) = u
  BY <1>1 DEF Unmarked
<1> HIDE DEF names, marks
<1>6. /\ u \in Solver1 /\ u.limits = s.limits /\ u.entries = s.entries
      /\ u.assumptions = names /\ u.marks = marks
  BY <1>1, <1>3, <1>4 DEF Solver1
<1>7. t = [u EXCEPT !.entries = entries, !.limits = limits, !.result = Nothing]
  BY <1>5, <1>6
<1> HIDE DEF u, limits, entries, level
<1>8. /\ t \in Solver1 /\ t.entries = entries /\ t.limits = limits
      /\ t.marks = marks /\ t.assumptions = names
  BY <1>3, <1>4, <1>6, <1>7 DEF Solver1
<1>9. Well1(t)
  BY <1>3, <1>8 DEF Well1
<1> QED  BY <1>8, <1>9 DEF limits, entries, level
-----------------------------------------------------------------------------
(* What solver2 does, field by field.                                      *)

\* The two records differ in the results of the last search at most.
SameButResults(s, t) ==
    /\ t.entries = s.entries /\ t.limits = s.limits /\ t.lazy = s.lazy
    /\ t.inconsistent = s.inconsistent
    /\ t.assumptions = s.assumptions /\ t.marks = s.marks

LEMMA ResultsWell ==
    ASSUME NEW s, Well2(s),
           NEW a \in Leaf \cup {Nothing}, NEW b \in Leaf \cup {Nothing}
    PROVE  /\ Well2([s EXCEPT !.search = a, !.m_model = b])
           /\ SameButResults(s, [s EXCEPT !.search = a, !.m_model = b])
           /\ [s EXCEPT !.search = a, !.m_model = b].search = a
           /\ [s EXCEPT !.search = a, !.m_model = b].m_model = b
<1> DEFINE t == [s EXCEPT !.search = a, !.m_model = b]
<1>1. s \in Solver2
  BY DEF Well2
<1>2. /\ t \in Solver2 /\ SameButResults(s, t)
      /\ t.search = a /\ t.m_model = b
  BY <1>1 DEF Solver2, SameButResults
<1> HIDE DEF t
<1>3. Well2(t)
  BY <1>2 DEF Well2, SameButResults
<1> QED  BY <1>2, <1>3 DEF t

LEMMA SearchWell ==
    ASSUME NEW s, Well2(s), NEW a \in Leaf \cup {Nothing}
    PROVE  /\ Well2([s EXCEPT !.search = a])
           /\ SameButResults(s, [s EXCEPT !.search = a])
<1> DEFINE t == [s EXCEPT !.search = a]
<1>1. s \in Solver2
  BY DEF Well2
<1>2. t \in Solver2 /\ SameButResults(s, t)
  BY <1>1 DEF Solver2, SameButResults
<1> HIDE DEF t
<1>3. Well2(t)
  BY <1>2 DEF Well2, SameButResults
<1> QED  BY <1>2, <1>3 DEF t

LEMMA ModelWell ==
    ASSUME NEW s, Well2(s), NEW a \in Leaf \cup {Nothing}
    PROVE  /\ Well2([s EXCEPT !.m_model = a])
           /\ SameButResults(s, [s EXCEPT !.m_model = a])
           /\ [s EXCEPT !.m_model = a].search = s.search
           /\ [s EXCEPT !.m_model = a].m_model = a
<1> DEFINE t == [s EXCEPT !.m_model = a]
<1>1. s \in Solver2
  BY DEF Well2
<1>2. /\ t \in Solver2 /\ SameButResults(s, t)
      /\ t.search = s.search /\ t.m_model = a
  BY <1>1 DEF Solver2, SameButResults
<1> HIDE DEF t
<1>3. Well2(t)
  BY <1>2 DEF Well2, SameButResults
<1> QED  BY <1>2, <1>3 DEF t

\* Every scope left for later is opened where the assertions end.
LEMMA ForcePushWell ==
    ASSUME NEW s, Well2(s)
    PROVE  LET t == ForcePush(s) IN
           /\ Well2(t)
           /\ t.entries = s.entries /\ t.lazy = 0
           /\ t.inconsistent = s.inconsistent
           /\ t.assumptions = s.assumptions /\ t.marks = s.marks
           /\ t.search = s.search /\ t.m_model = s.m_model
           /\ Len(s.limits) \in 0 .. Len(s.marks)
           /\ Len(t.limits) = Len(s.marks)
           /\ \A i \in 1 .. Len(s.limits) : t.limits[i] = s.limits[i]
           /\ \A i \in Len(s.limits) + 1 .. Len(s.marks) :
                 /\ t.limits[i].size = Len(s.entries)
                 /\ t.limits[i].inconsistent = s.inconsistent
<1> DEFINE limit == [size |-> Len(s.entries), inconsistent |-> s.inconsistent]
           later == [i \in 1 .. s.lazy |-> limit]
           limits == s.limits \o later
           t == [s EXCEPT !.limits = limits, !.lazy = 0]
<1>1. /\ s \in Solver2 /\ s.limits \in Seq(Limit) /\ s.lazy \in Nat
      /\ s.marks \in Seq(Nat) /\ s.entries \in Seq(Entry)
      /\ Len(s.limits) \in Nat /\ Len(s.marks) \in Nat /\ Len(s.entries) \in Nat
      /\ Len(s.marks) = Len(s.limits) + s.lazy
      /\ DOMAIN s.limits = 1 .. Len(s.limits)
  BY LenProperties DEF Well2, Solver2
<1>2. limit \in Limit /\ limit.size = Len(s.entries)
      /\ limit.inconsistent = s.inconsistent
  BY <1>1 DEF Solver2, Limit
<1> HIDE DEF limit
<1>3. /\ later \in Seq(Limit) /\ Len(later) = s.lazy
      /\ \A i \in 1 .. s.lazy : later[i] = limit
  <2>1. /\ later \in [1 .. s.lazy -> Limit]
        /\ \A i \in 1 .. s.lazy : later[i] = limit
    BY <1>2
  <2> HIDE DEF later
  <2>2. PICK n \in Nat : n = s.lazy
    BY <1>1
  <2>3. later \in Seq(Limit)
    BY ONLY <2>1, <2>2, SeqDef
  <2>4. Len(later) = s.lazy
    BY ONLY <2>1, <2>2, <2>3, LenProperties
  <2> QED  BY <2>1, <2>3, <2>4
<1> HIDE DEF later
<1>4. /\ limits \in Seq(Limit) /\ Len(limits) = Len(s.marks)
      /\ DOMAIN limits = 1 .. Len(s.marks)
      /\ \A i \in 1 .. Len(s.limits) : limits[i] = s.limits[i]
      /\ \A i \in Len(s.limits) + 1 .. Len(s.marks) : limits[i] = limit
  <2>1. PICK outer \in Seq(Limit) : outer = s.limits
    BY <1>1
  <2>2. /\ outer \o later \in Seq(Limit)
        /\ Len(outer \o later) = Len(outer) + Len(later)
        /\ \A i \in 1 .. Len(outer) + Len(later) :
              (outer \o later)[i] = IF i <= Len(outer) THEN outer[i]
                                    ELSE later[i - Len(outer)]
    BY <1>3, ConcatProperties
  <2>3. PICK k \in Nat, n \in Nat, r \in Nat :
            k = Len(outer) /\ n = Len(s.marks) /\ r = Len(later) /\ n = k + r
    BY <1>1, <1>3, <2>1
  <2>4. \A i \in 1 .. k : (outer \o later)[i] = outer[i]
    BY <2>2, <2>3
  <2>5. ASSUME NEW i \in k + 1 .. n
        PROVE  (outer \o later)[i] = limit
    <3>1. i \in 1 .. k + r /\ ~(i <= k) /\ i - k \in 1 .. r
      BY <2>3
    <3> QED  BY <1>3, <2>2, <2>3, <3>1
  <2>6. limits = outer \o later /\ k = Len(s.limits)
    BY <2>1, <2>3
  <2> HIDE DEF limits
  <2>7. DOMAIN limits = 1 .. Len(s.marks)
    BY <2>2, <2>3, <2>6, LenProperties
  <2>8. limits \in Seq(Limit) /\ Len(limits) = Len(s.marks)
    BY <2>2, <2>3, <2>6
  <2>9. \A i \in 1 .. Len(s.limits) : limits[i] = s.limits[i]
    BY <2>1, <2>4, <2>6
  <2>10. \A i \in Len(s.limits) + 1 .. Len(s.marks) : limits[i] = limit
    BY <2>3, <2>5, <2>6
  <2> QED  BY <2>7, <2>8, <2>9, <2>10
<1>5. t = ForcePush(s)
  BY DEF ForcePush, limit, later
<1> HIDE DEF limits
<1>6. /\ t \in Solver2 /\ t.limits = limits /\ t.lazy = 0
      /\ t.entries = s.entries /\ t.inconsistent = s.inconsistent
      /\ t.assumptions = s.assumptions /\ t.marks = s.marks
      /\ t.search = s.search /\ t.m_model = s.m_model
  BY <1>1, <1>4 DEF Solver2
<1> HIDE DEF t
<1>7. Sized(limits, Len(s.entries))
  <2>1. /\ \A i \in 1 .. Len(s.limits) : s.limits[i].size <= Len(s.entries)
        /\ \A i, j \in 1 .. Len(s.limits) :
              i <= j => s.limits[i].size <= s.limits[j].size
    BY <1>1 DEF Well2, Sized
  <2>2. PICK k \in Nat, n \in Nat :
            k = Len(s.limits) /\ n = Len(s.marks) /\ k <= n
    BY <1>1
  <2>3. /\ \A i \in 1 .. k : limits[i].size = s.limits[i].size
        /\ \A i \in k + 1 .. n : limits[i].size = Len(s.entries)
    BY <1>2, <1>4, <2>2
  <2>4. ASSUME NEW i \in 1 .. n
        PROVE  limits[i].size <= Len(s.entries)
    <3>1. i \in 1 .. k \/ i \in k + 1 .. n
      BY <2>2
    <3> QED  BY <1>1, <2>1, <2>2, <2>3, <3>1
  <2>5. ASSUME NEW i \in 1 .. n, NEW j \in 1 .. n, i <= j
        PROVE  limits[i].size <= limits[j].size
    <3>1. CASE j \in 1 .. k
      <4>1. i \in 1 .. k
        BY <2>5, <3>1
      <4> QED  BY <2>1, <2>2, <2>3, <2>5, <3>1, <4>1
    <3>2. CASE j \in k + 1 .. n
      BY <2>3, <2>4, <3>2
    <3> QED  BY <2>2, <3>1, <3>2
  <2> QED  BY <1>4, <2>2, <2>4, <2>5 DEF Sized
<1>8. Well2(t)
  BY <1>1, <1>4, <1>6, <1>7 DEF Well2
<1>9. Len(s.limits) \in 0 .. Len(s.marks)
  BY <1>1
<1> QED  BY <1>2, <1>4, <1>5, <1>6, <1>8, <1>9

LEMMA AppendWell ==
    ASSUME NEW s, Well2(s), NEW e \in Entry
    PROVE  LET t == [s EXCEPT !.entries = Append(@, e)] IN
           /\ Well2(t)
           /\ t.entries = Append(s.entries, e) /\ t.lazy = s.lazy
           /\ t.limits = s.limits /\ t.inconsistent = s.inconsistent
           /\ t.assumptions = s.assumptions /\ t.marks = s.marks
<1> DEFINE entries == Append(s.entries, e)
           t == [s EXCEPT !.entries = entries]
<1>1. s \in Solver2 /\ s.entries \in Seq(Entry)
  BY DEF Well2, Solver2
<1>2. /\ entries \in Seq(Entry) /\ Len(entries) = Len(s.entries) + 1
      /\ Len(s.entries) \in Nat
  BY <1>1, AppendFacts
<1> HIDE DEF entries
<1>3. /\ t \in Solver2 /\ t.entries = entries /\ t.lazy = s.lazy
      /\ t.limits = s.limits /\ t.inconsistent = s.inconsistent
      /\ t.assumptions = s.assumptions /\ t.marks = s.marks
  BY <1>1, <1>2 DEF Solver2
<1> HIDE DEF t
<1>4. Sized(s.limits, Len(entries))
  <2>1. Sized(s.limits, Len(s.entries))
    BY DEF Well2
  <2>2. \A i \in DOMAIN s.limits : s.limits[i].size \in Nat
    <3>1. \A i \in DOMAIN s.limits : s.limits[i] \in Limit
      BY <2>1, ElementOfSeq, LenProperties DEF Sized
    <3> QED  BY <3>1 DEF Limit
  <2> QED  BY <1>2, <2>1, <2>2 DEF Sized
<1>5. Well2(t)
  BY <1>3, <1>4 DEF Well2
<1> QED  BY <1>3, <1>5 DEF t, entries

LEMMA InconsistentWell ==
    ASSUME NEW s, Well2(s)
    PROVE  LET t == [s EXCEPT !.inconsistent = TRUE] IN
           /\ Well2(t)
           /\ t.entries = s.entries /\ t.lazy = s.lazy
           /\ t.limits = s.limits /\ t.inconsistent = TRUE
           /\ t.assumptions = s.assumptions /\ t.marks = s.marks
           /\ t.search = s.search /\ t.m_model = s.m_model
<1> DEFINE t == [s EXCEPT !.inconsistent = TRUE]
<1>1. s \in Solver2
  BY DEF Well2
<1>2. /\ t \in Solver2 /\ t.entries = s.entries /\ t.lazy = s.lazy
      /\ t.limits = s.limits /\ t.inconsistent = TRUE
      /\ t.assumptions = s.assumptions /\ t.marks = s.marks
      /\ t.search = s.search /\ t.m_model = s.m_model
  BY <1>1 DEF Solver2
<1> HIDE DEF t
<1>3. Well2(t)
  BY <1>2 DEF Well2
<1> QED  BY <1>2, <1>3 DEF t

LEMMA Push2Well ==
    ASSUME NEW s, Well2(s)
    PROVE  LET t == [Marked(s) EXCEPT !.lazy = @ + 1] IN
           /\ Well2(t)
           /\ t.entries = s.entries /\ t.limits = s.limits
           /\ t.inconsistent = s.inconsistent
           /\ t.assumptions = s.assumptions
           /\ t.marks = Append(s.marks, Len(s.assumptions))
<1> DEFINE marks == Append(s.marks, Len(s.assumptions))
           u == [s EXCEPT !.marks = marks]
           t == [Marked(s) EXCEPT !.lazy = @ + 1]
           lazy == s.lazy + 1
<1>1. /\ s \in Solver2 /\ s.assumptions \in Seq(Name) /\ s.marks \in Seq(Nat)
      /\ s.limits \in Seq(Limit) /\ s.lazy \in Nat /\ Len(s.limits) \in Nat
      /\ Len(s.assumptions) \in Nat /\ Marks(s.marks, s.assumptions)
      /\ Len(s.limits) + s.lazy = Len(s.marks)
  BY LenProperties DEF Well2, Solver2
<1>2. marks \in Seq(Nat) /\ Len(marks) = Len(s.marks) + 1
  BY <1>1, AppendProperties
<1>3. Marks(marks, s.assumptions)
  BY <1>1, MarksPush
<1>4. u = Marked(s)
  BY DEF Marked
<1> HIDE DEF marks
<1>5. /\ u \in Solver2 /\ u.marks = marks /\ u.lazy = s.lazy
      /\ u.entries = s.entries /\ u.limits = s.limits
      /\ u.inconsistent = s.inconsistent /\ u.assumptions = s.assumptions
  BY <1>1, <1>2 DEF Solver2
<1> HIDE DEF u
<1>6. t = [u EXCEPT !.lazy = lazy]
  <2>1. t = [u EXCEPT !.lazy = @ + 1]
    BY <1>4
  <2> QED  BY <1>5, <2>1
<1>7. lazy \in Nat /\ Len(s.limits) + lazy = Len(marks)
  <2>1. PICK k \in Nat : k = Len(s.limits)
    BY <1>1
  <2>2. PICK n \in Nat : n = Len(s.marks)
    BY <1>1, LenProperties
  <2>3. k + s.lazy = n
    BY <1>1, <2>1, <2>2
  <2>4. PICK z \in Nat : z = s.lazy
    BY <1>1
  <2>5. lazy = z + 1 /\ Len(marks) = n + 1
    BY <1>2, <2>2, <2>4
  <2>6. k + (z + 1) = n + 1 /\ z + 1 \in Nat
    BY <2>3, <2>4
  <2> HIDE DEF lazy
  <2> QED  BY ONLY <2>1, <2>5, <2>6
<1> HIDE DEF t, lazy
<1>8. /\ t \in Solver2 /\ t.marks = marks /\ t.lazy = lazy
      /\ t.entries = s.entries /\ t.limits = s.limits
      /\ t.inconsistent = s.inconsistent /\ t.assumptions = s.assumptions
  BY <1>5, <1>6, <1>7, <1>2 DEF Solver2
<1>9. Well2(t)
  BY <1>3, <1>7, <1>8 DEF Well2
<1> QED  BY <1>8, <1>9 DEF t, marks

\* The size of the vectors, and whether they are known to be false, where a
\* scope ends.
Size(s, l) == IF l < Len(s.limits) THEN s.limits[l + 1].size
              ELSE Len(s.entries)
Refuted(s, l) == IF l < Len(s.limits) THEN s.limits[l + 1].inconsistent
                 ELSE s.inconsistent
Count(s, l) == IF l < Len(s.marks) THEN s.marks[l + 1]
               ELSE Len(s.assumptions)

\* What Unmarked leaves.
LEMMA Unmarked2Well ==
    ASSUME NEW s, Well2(s), NEW n \in 1 .. Len(s.marks),
           NEW level, level = Len(s.marks) - n
    PROVE  LET u == Unmarked(s, n) IN
           /\ u \in Solver2
           /\ u.entries = s.entries /\ u.limits = s.limits /\ u.lazy = s.lazy
           /\ u.inconsistent = s.inconsistent
           /\ u.assumptions = SubSeq(s.assumptions, 1, Count(s, level))
           /\ u.marks = SubSeq(s.marks, 1, level)
           /\ Marks(u.marks, u.assumptions) /\ Len(u.marks) = level
           /\ Count(s, level) \in 0 .. Len(s.assumptions)
           /\ level \in 0 .. Len(s.marks) - 1
<1> DEFINE names == SubSeq(s.assumptions, 1, s.marks[level + 1])
           marks == SubSeq(s.marks, 1, level)
           u == [s EXCEPT !.assumptions = names, !.marks = marks]
<1>1. /\ s \in Solver2 /\ s.assumptions \in Seq(Name) /\ s.marks \in Seq(Nat)
      /\ DOMAIN s.marks = 1 .. Len(s.marks)
      /\ Marks(s.marks, s.assumptions)
  BY LenProperties DEF Well2, Solver2
<1>2. PICK k \in Nat : k = Len(s.marks)
  BY <1>1, LenProperties
<1>3. /\ level \in 0 .. k - 1 /\ level < k
      /\ level + 1 \in 1 .. k /\ level \in 0 .. k
  BY <1>2
<1>4. Count(s, level) = s.marks[level + 1]
  BY <1>2, <1>3 DEF Count
<1>5. /\ names \in Seq(Name) /\ Marks(marks, names) /\ Len(marks) = level
      /\ s.marks[level + 1] \in 0 .. Len(s.assumptions)
  <2>1. PICK m : m = level + 1
    OBVIOUS
  <2>2. m \in DOMAIN s.marks /\ m - 1 = level
    BY <1>1, <1>2, <1>3, <2>1
  <2>3. SubSeq(s.assumptions, 1, s.marks[m]) \in Seq(Name)
    BY ONLY <1>1, <2>2, CutPrefix
  <2>4. Marks(SubSeq(s.marks, 1, m - 1), SubSeq(s.assumptions, 1, s.marks[m]))
    BY ONLY <1>1, <2>2, CutPrefix
  <2>5. s.marks[m] \in 0 .. Len(s.assumptions)
    BY ONLY <1>1, <2>2, CutPrefix
  <2>6. Len(marks) = level
    BY <1>1, <1>2, <1>3, PrefixIsSeq
  <2> QED  BY <2>1, <2>2, <2>3, <2>4, <2>5, <2>6
<1>6. marks \in Seq(Nat)
  BY <1>1, <1>2, <1>3, PrefixIsSeq
<1>7. Unmarked(s, n) = u
  BY DEF Unmarked
<1> HIDE DEF names, marks
<1>8. /\ u \in Solver2 /\ u.entries = s.entries /\ u.limits = s.limits
      /\ u.lazy = s.lazy /\ u.inconsistent = s.inconsistent
      /\ u.assumptions = names /\ u.marks = marks
  BY <1>1, <1>5, <1>6 DEF Solver2
<1> HIDE DEF u
<1>9. /\ names = SubSeq(s.assumptions, 1, Count(s, level))
      /\ marks = SubSeq(s.marks, 1, level)
      /\ Count(s, level) \in 0 .. Len(s.assumptions)
  BY <1>4, <1>5 DEF names, marks
<1> QED  BY <1>2, <1>3, <1>5, <1>7, <1>8, <1>9

\* The limits of the scopes that stay open.
LEMMA OuterSized ==
    ASSUME NEW limits, NEW size \in Nat, Sized(limits, size),
           NEW m \in DOMAIN limits
    PROVE  /\ SubSeq(limits, 1, m - 1) \in Seq(Limit)
           /\ Len(SubSeq(limits, 1, m - 1)) = m - 1
           /\ \A i \in 1 .. m - 1 : SubSeq(limits, 1, m - 1)[i] = limits[i]
           /\ limits[m] \in Limit /\ limits[m].size \in 0 .. size
           /\ Sized(SubSeq(limits, 1, m - 1), limits[m].size)
<1> DEFINE outer == SubSeq(limits, 1, m - 1)
<1>1. /\ limits \in Seq(Limit) /\ m \in 1 .. Len(limits) /\ Len(limits) \in Nat
      /\ DOMAIN limits = 1 .. Len(limits) /\ m - 1 \in 0 .. Len(limits)
  BY LenProperties DEF Sized
<1>2. /\ outer \in Seq(Limit) /\ Len(outer) = m - 1
      /\ DOMAIN outer = 1 .. m - 1
      /\ \A i \in 1 .. m - 1 : outer[i] = limits[i]
  BY <1>1, PrefixIsSeq
<1> HIDE DEF outer
<1>3. limits[m] \in Limit /\ limits[m].size \in 0 .. size
  <2>1. limits[m] \in Limit
    BY <1>1, ElementOfSeq
  <2>2. limits[m].size \in Nat /\ limits[m].size <= size
    BY <2>1 DEF Limit, Sized
  <2> QED  BY <2>1, <2>2
<1>4. Sized(outer, limits[m].size)
  <2>1. \A i \in 1 .. m - 1 : i \in DOMAIN limits /\ i <= m
    BY <1>1
  <2>2. \A i \in 1 .. m - 1 : outer[i].size <= limits[m].size
    BY <1>2, <2>1 DEF Sized
  <2>3. \A i, j \in 1 .. m - 1 : i <= j => outer[i].size <= outer[j].size
    BY <1>2, <2>1 DEF Sized
  <2> QED  BY <1>2, <2>2, <2>3 DEF Sized
<1> QED  BY <1>2, <1>3, <1>4 DEF outer

LEMMA PopLazy ==
    ASSUME NEW s, Well2(s), NEW n \in 1 .. Len(s.marks), n <= s.lazy,
           NEW level, level = Len(s.marks) - n
    PROVE  LET t == PopFormulas(Unmarked(s, n), n) IN
           /\ Well2(t)
           /\ t.entries = SubSeq(s.entries, 1, Size(s, level))
           /\ t.inconsistent = Refuted(s, level)
           /\ t.assumptions = SubSeq(s.assumptions, 1, Count(s, level))
           /\ t.marks = SubSeq(s.marks, 1, level)
           /\ t.limits = s.limits /\ Len(s.limits) <= level
<1> DEFINE u == Unmarked(s, n)
           lazy == s.lazy - n
           t == [u EXCEPT !.lazy = lazy]
<1>1. /\ u \in Solver2 /\ u.entries = s.entries /\ u.limits = s.limits
      /\ u.lazy = s.lazy /\ u.inconsistent = s.inconsistent
      /\ u.assumptions = SubSeq(s.assumptions, 1, Count(s, level))
      /\ u.marks = SubSeq(s.marks, 1, level)
      /\ Marks(u.marks, u.assumptions) /\ Len(u.marks) = level
  BY Unmarked2Well
<1>2. /\ s.entries \in Seq(Entry) /\ s.lazy \in Nat
      /\ Sized(s.limits, Len(s.entries))
  BY DEF Well2, Solver2
<1>3. PICK k \in Nat, m \in Nat, z \in Nat :
          k = Len(s.limits) /\ m = Len(s.marks) /\ z = s.lazy /\ k + z = m
  BY LenProperties DEF Well2, Solver2
<1>4. n \in 1 .. m /\ n <= z /\ level = m - n /\ lazy = z - n
  BY <1>3
<1>5. lazy \in Nat /\ k + lazy = level /\ k <= level /\ ~(level < k)
  <2>0. n \in Nat /\ m - n \in Nat /\ z - n \in Nat
    BY <1>4
  <2>1. PICK l \in Nat, r \in Nat, a \in Nat : l = level /\ r = lazy /\ a = n
    <3>1. level \in Nat /\ lazy \in Nat
      BY ONLY <2>0, <1>4
    <3> QED  BY <2>0, <3>1
  <2>2. a <= z /\ l = m - a /\ r = z - a /\ k + z = m
    BY <1>3, <1>4, <2>1
  <2>3. k + r = l /\ k <= l /\ ~(l < k)
    BY <2>2
  <2> QED  BY <2>1, <2>3
<1>6. PopFormulas(u, n) = t
  BY <1>1, <1>3, <1>4 DEF PopFormulas
<1>7. Size(s, level) = Len(s.entries) /\ Refuted(s, level) = s.inconsistent
  BY <1>3, <1>5 DEF Size, Refuted
<1>8. SubSeq(s.entries, 1, Len(s.entries)) = s.entries
  BY <1>2, SubSeqFull
<1> HIDE DEF u, lazy
<1>9. /\ t \in Solver2 /\ t.entries = s.entries /\ t.limits = s.limits
      /\ t.lazy = lazy /\ t.inconsistent = s.inconsistent
      /\ t.assumptions = u.assumptions /\ t.marks = u.marks
  BY <1>1, <1>5 DEF Solver2
<1> HIDE DEF t
<1>10. Well2(t)
  BY <1>1, <1>2, <1>3, <1>5, <1>9 DEF Well2
<1>11. PopFormulas(Unmarked(s, n), n) = t
  BY <1>6 DEF u
<1> QED  BY <1>1, <1>3, <1>5, <1>7, <1>8, <1>9, <1>10, <1>11

LEMMA PopOpened ==
    ASSUME NEW s, Well2(s), NEW n \in 1 .. Len(s.marks), ~(n <= s.lazy),
           NEW level, level = Len(s.marks) - n
    PROVE  LET t == PopFormulas(Unmarked(s, n), n) IN
           /\ Well2(t)
           /\ t.entries = SubSeq(s.entries, 1, Size(s, level))
           /\ t.inconsistent = Refuted(s, level)
           /\ t.assumptions = SubSeq(s.assumptions, 1, Count(s, level))
           /\ t.marks = SubSeq(s.marks, 1, level)
           /\ t.limits = SubSeq(s.limits, 1, level) /\ level < Len(s.limits)
<1> DEFINE u == Unmarked(s, n)
<1>1. /\ u \in Solver2 /\ u.entries = s.entries /\ u.limits = s.limits
      /\ u.lazy = s.lazy /\ u.inconsistent = s.inconsistent
      /\ u.assumptions = SubSeq(s.assumptions, 1, Count(s, level))
      /\ u.marks = SubSeq(s.marks, 1, level)
      /\ Marks(u.marks, u.assumptions) /\ Len(u.marks) = level
  BY Unmarked2Well
<1>2. /\ s.entries \in Seq(Entry) /\ s.lazy \in Nat /\ s.limits \in Seq(Limit)
      /\ Sized(s.limits, Len(s.entries)) /\ Len(s.entries) \in Nat
      /\ DOMAIN s.limits = 1 .. Len(s.limits)
  BY LenProperties DEF Well2, Solver2
<1>3. PICK k \in Nat, m \in Nat, z \in Nat :
          k = Len(s.limits) /\ m = Len(s.marks) /\ z = s.lazy /\ k + z = m
  BY LenProperties DEF Well2, Solver2
<1>4. n \in 1 .. m /\ ~(n <= z) /\ level = m - n
  BY <1>3
<1>5. PICK h : h = level + 1
  OBVIOUS
<1>6. /\ h \in 1 .. k /\ level \in 0 .. k - 1 /\ h - 1 = level
      /\ k - (n - z) = level /\ level < k
  <2>0. n \in Nat /\ m - n \in Nat
    BY <1>4
  <2>1. PICK l \in Nat, a \in Nat : l = level /\ a = n
    <3>1. level \in Nat
      BY ONLY <2>0, <1>4
    <3> QED  BY <2>0, <3>1
  <2>2. ~(a <= z) /\ l = m - a /\ k + z = m /\ h = l + 1
    BY <1>3, <1>4, <1>5, <2>1
  <2>3. /\ h \in 1 .. k /\ l \in 0 .. k - 1 /\ h - 1 = l
        /\ k - (a - z) = l /\ l < k
    BY <2>2
  <2> QED  BY <2>1, <2>3
<1>7. h \in DOMAIN s.limits
  BY <1>2, <1>3, <1>6
<1>8. /\ SubSeq(s.limits, 1, h - 1) \in Seq(Limit)
      /\ Len(SubSeq(s.limits, 1, h - 1)) = h - 1
  BY <1>2, <1>6, <1>7, OuterSized
<1>9. s.limits[h] \in Limit /\ s.limits[h].size \in 0 .. Len(s.entries)
  BY ONLY <1>2, <1>7, OuterSized
<1>10. Sized(SubSeq(s.limits, 1, h - 1), s.limits[h].size)
  BY ONLY <1>2, <1>7, OuterSized
<1> DEFINE limit == s.limits[h]
           entries == SubSeq(s.entries, 1, limit.size)
           limits == SubSeq(s.limits, 1, level)
           t == [u EXCEPT !.lazy = 0, !.entries = entries,
                          !.inconsistent = limit.inconsistent,
                          !.limits = limits]
<1>11. PopFormulas(u, n) = t
  BY <1>1, <1>3, <1>4, <1>5, <1>6 DEF PopFormulas
<1>12. Size(s, level) = limit.size /\ Refuted(s, level) = limit.inconsistent
  BY <1>3, <1>5, <1>6 DEF Size, Refuted
<1>13. entries \in Seq(Entry) /\ Len(entries) = limit.size
  BY <1>2, <1>9, PrefixIsSeq
<1>14. limits \in Seq(Limit) /\ Len(limits) = level
       /\ Sized(limits, Len(entries))
  BY <1>6, <1>8, <1>10, <1>13
<1>15. limit.inconsistent \in BOOLEAN
  BY <1>9 DEF Limit
<1>16. entries = SubSeq(s.entries, 1, Size(s, level))
  BY <1>12
<1>17. limits = SubSeq(s.limits, 1, level)
  OBVIOUS
<1> HIDE DEF u, entries, limits, limit
<1>18. /\ t \in Solver2 /\ t.entries = entries /\ t.limits = limits
       /\ t.lazy = 0 /\ t.inconsistent = limit.inconsistent
       /\ t.assumptions = u.assumptions /\ t.marks = u.marks
  BY <1>1, <1>13, <1>14, <1>15 DEF Solver2
<1> HIDE DEF t
<1>19. Well2(t)
  <2>1. Len(limits) + 0 = Len(u.marks)
    BY <1>1, <1>6, <1>14
  <2> QED  BY <1>1, <1>14, <1>18, <2>1 DEF Well2
<1>20. PopFormulas(Unmarked(s, n), n) = t
  BY <1>11 DEF u
<1> QED  BY <1>1, <1>3, <1>6, <1>12, <1>16, <1>17, <1>18, <1>19, <1>20

-----------------------------------------------------------------------------
(* The solvers stay well-formed.                                           *)

\* The state in which solver2 takes an assertion.
Opened2(s) == [ForcePush(s) EXCEPT !.search = Nothing]

LEMMA OpenedWell ==
    ASSUME NEW s, Well2(s)
    PROVE  /\ Well2(Opened2(s)) /\ SameButResults(ForcePush(s), Opened2(s))
           /\ Well2(ForcePush(s))
<1>1. Well2(ForcePush(s))
  BY ForcePushWell
<1>2. Nothing \in Leaf \cup {Nothing}
  OBVIOUS
<1> QED  BY <1>1, <1>2, SearchWell DEF Opened2

LEMMA ReducedWell ==
    ASSUME NEW s, Well2(s), NEW r \in Reduced(s)
    PROVE  Well2(r)
<1>1. r = s \/ r = [s EXCEPT !.inconsistent = TRUE]
  BY DEF Reduced
<1> QED  BY <1>1, InconsistentWell

LEMMA Assert2Well ==
    ASSUME Well2(solver2), NEW e \in Entry, Assert2(e)
    PROVE  Well2(solver2')
<1> DEFINE s == Named(solver2, e)
           opened == Opened2(s)
           longer == [opened EXCEPT !.entries = Append(@, e)]
<1>1. Well2(s)
  BY NamedWell2
<1>2. Well2(opened)
  BY <1>1, OpenedWell
<1>3. Well2(longer)
  BY <1>2, AppendWell
<1>4. solver2' = s \/ solver2' = opened \/ solver2' \in Reduced(longer)
  BY DEF Assert2, Opened2
<1> HIDE DEF s, opened, longer
<1> QED  BY <1>1, <1>2, <1>3, <1>4, ReducedWell

LEMMA Push2Keeps ==
    ASSUME Well2(solver2), Push2
    PROVE  Well2(solver2')
<1> DEFINE s == [solver2 EXCEPT !.search = Nothing]
<1>1. Well2(s)
  BY SearchWell
<1>2. CASE m_cancel
  BY <1>1, <1>2 DEF Push2
<1>3. CASE ~m_cancel
  <2>1. PICK r \in Reduced(s) : solver2' = [Marked(r) EXCEPT !.lazy = @ + 1]
    BY <1>3 DEF Push2
  <2> HIDE DEF s
  <2>2. Well2(r)
    BY <1>1, ReducedWell
  <2> QED  BY <2>1, <2>2, Push2Well
<1> QED  BY <1>2, <1>3

LEMMA Pop2Keeps ==
    ASSUME Well2(solver2), NEW n \in Nat, Pop2(n)
    PROVE  Well2(solver2')
<1> DEFINE m == IF n <= Len(solver2.marks) THEN n ELSE Len(solver2.marks)
<1>1. CASE m = 0
  BY <1>1 DEF Pop2
<1>2. CASE m # 0
  <2>1. m \in 1 .. Len(solver2.marks)
    <3>1. PICK k \in Nat : k = Len(solver2.marks)
      BY LenProperties DEF Well2, Solver2
    <3> QED  BY <1>2, <3>1
  <2>2. solver2' = [PopFormulas(Unmarked(solver2, m), m) EXCEPT !.search = Nothing]
    BY <1>2 DEF Pop2
  <2> HIDE DEF m
  <2>3. Well2(PopFormulas(Unmarked(solver2, m), m))
    <3>1. PICK level : level = Len(solver2.marks) - m
      OBVIOUS
    <3> QED  BY <2>1, <3>1, PopLazy, PopOpened
  <2> QED  BY <2>2, <2>3, SearchWell
<1> QED  BY <1>1, <1>2

LEMMA Check2Keeps ==
    ASSUME Well2(solver2), NEW v \in Verdict, NEW assumed, Check2(v, assumed)
    PROVE  Well2(solver2')
<1>1. PICK s \in Reduced(solver2) :
          \E l \in Leaf \cup {Nothing}, m \in Leaf \cup {Nothing} :
              solver2' = [s EXCEPT !.search = l, !.m_model = m]
  <2>1. Meaning2(assumed) \subseteq Leaf
    BY DEF Meaning2, Satisfying
  <2>2. solver2.m_model \in Leaf \cup {Nothing}
    BY DEF Well2, Solver2
  <2> QED  BY <2>1, <2>2 DEF Check2
<1>2. Well2(s)
  BY ReducedWell
<1>3. PICK l \in Leaf \cup {Nothing}, m \in Leaf \cup {Nothing} :
          solver2' = [s EXCEPT !.search = l, !.m_model = m]
  BY <1>1
<1>4. Well2([s EXCEPT !.search = l, !.m_model = m])
  BY <1>2, ResultsWell
<1> QED  BY <1>3, <1>4

LEMMA Check1Keeps ==
    ASSUME Well1(solver1), NEW v \in Verdict, Check1(v)
    PROVE  /\ Well1(solver1')
           /\ solver1'.entries = solver1.entries
           /\ solver1'.limits = solver1.limits
           /\ solver1'.assumptions = solver1.assumptions
           /\ solver1'.marks = solver1.marks
           /\ v = "sat" => solver1'.result \in Meaning1
<1>1. solver1 \in Solver1 /\ Meaning1 \subseteq Leaf
  BY DEF Well1, Meaning1, Satisfying
<1>2. PICK l \in Leaf \cup {Nothing} :
          /\ solver1' = [solver1 EXCEPT !.result = l]
          /\ v = "sat" => l \in Meaning1
  BY <1>1 DEF Check1, Verdict
<1>3. /\ solver1' \in Solver1 /\ solver1'.result = l
      /\ solver1'.entries = solver1.entries
      /\ solver1'.limits = solver1.limits
      /\ solver1'.assumptions = solver1.assumptions
      /\ solver1'.marks = solver1.marks
  BY <1>1, <1>2 DEF Solver1
<1> QED  BY <1>2, <1>3 DEF Well1

LEMMA AssertKeeps ==
    ASSUME WellInv, NEW e \in Entry, AssertExpr(e)
    PROVE  WellInv'
<1>1. Well1(solver1')
  <2>1. solver1' = [Named(solver1, e) EXCEPT !.entries = Append(@, e),
                                             !.result = Nothing]
    BY DEF AssertExpr, Assert1
  <2> QED  BY <2>1, Assert1Well DEF WellInv
<1>2. Well2(solver2')
  BY Assert2Well DEF WellInv, AssertExpr
<1>3. FlagsInv'
  BY DEF WellInv, FlagsInv, AssertExpr, Forget
<1> QED  BY <1>1, <1>2, <1>3 DEF WellInv

LEMMA PushKeeps ==
    ASSUME WellInv, Push
    PROVE  WellInv'
<1>1. Well1(solver1')
  <2>1. solver1' = [Marked(solver1) EXCEPT
                       !.limits = Append(@, Len(solver1.entries)),
                       !.result = Nothing]
    BY DEF Push, Push1
  <2>2. Marked(solver1).limits = solver1.limits
    BY DEF Marked, WellInv, Well1, Solver1
  <2>3. solver1' = [Marked(solver1) EXCEPT
                       !.limits = Append(solver1.limits, Len(solver1.entries)),
                       !.result = Nothing]
    BY <2>1, <2>2
  <2> QED  BY <2>1, Push1Well DEF WellInv
<1>2. Well2(solver2')
  BY Push2Keeps DEF WellInv, Push
<1>3. FlagsInv'
  BY DEF WellInv, FlagsInv, Push, Forget
<1> QED  BY <1>1, <1>2, <1>3 DEF WellInv

LEMMA PopKeeps ==
    ASSUME WellInv, NEW n \in Nat, Pop(n)
    PROVE  WellInv'
<1>1. Well1(solver1')
  <2>1. n \in 1 .. Len(solver1.marks) /\ Well1(solver1)
    BY DEF Pop, WellInv
  <2>2. solver1' = [Unmarked(solver1, n) EXCEPT
           !.entries = SubSeq(@, 1, solver1.limits[Len(solver1.limits) - n + 1]),
           !.limits = SubSeq(@, 1, Len(solver1.limits) - n),
           !.result = Nothing]
    BY DEF Pop, Pop1
  <2> QED  BY <2>1, <2>2, Pop1Well
<1>2. Well2(solver2')
  BY Pop2Keeps DEF WellInv, Pop
<1>3. FlagsInv'
  BY DEF WellInv, FlagsInv, Pop, Forget
<1> QED  BY <1>1, <1>2, <1>3 DEF WellInv

LEMMA ResetKeeps ==
    ASSUME WellInv, Reset
    PROVE  WellInv'
<1>1. FlagsInv'
  BY DEF WellInv, FlagsInv, Reset, Forget
<1> QED  BY <1>1, Fresh1Well, Fresh2Well DEF WellInv, Reset

LEMMA AnsweredFlags ==
    ASSUME FlagsInv, NEW v \in Verdict, NEW assumed \in SUBSET Formula,
           Answered(v, assumed), m_inc_mode' \in BOOLEAN,
           m_use_solver1_results' \in BOOLEAN
    PROVE  FlagsInv'
<1>1. checked' \in [verdict : Verdict, assumed : SUBSET Formula]
  BY DEF Answered
<1>2. model' \in Leaf \cup {Nothing}
  BY DEF Answered
<1>3. m_check_sat_executed' = TRUE /\ m_cancel' = FALSE
  BY DEF Answered
<1> QED  BY <1>1, <1>2, <1>3 DEF FlagsInv

LEMMA ChecksKeep ==
    ASSUME WellInv, NEW v \in Verdict,
           \/ CheckBySolver1(v) \/ CheckByBoth(v)
           \/ \E assumed \in AssumptionSets : CheckBySolver2(v, assumed)
    PROVE  WellInv'
<1>0. Well1(solver1) /\ Well2(solver2) /\ FlagsInv /\ m_inc_mode \in BOOLEAN
  BY DEF WellInv, FlagsInv
<1>1. CASE CheckBySolver1(v)
  <2>1. Well1(solver1') /\ solver2' = solver2
    BY <1>0, <1>1, Check1Keeps DEF CheckBySolver1
  <2>2. FlagsInv'
    BY <1>0, <1>1, AnsweredFlags DEF CheckBySolver1
  <2> QED  BY <1>0, <2>1, <2>2 DEF WellInv
<1>2. CASE CheckByBoth(v)
  <2>1. Well1(solver1')
    BY <1>0, <1>2, Check1Keeps DEF CheckByBoth
  <2>2. PICK w \in Verdict : Check2(w, {})
    BY <1>2 DEF CheckByBoth
  <2>3. Well2(solver2')
    BY <1>0, <2>2, Check2Keeps
  <2>4. FlagsInv'
    BY <1>0, <1>2, AnsweredFlags DEF CheckByBoth
  <2> QED  BY <2>1, <2>3, <2>4 DEF WellInv
<1>3. ASSUME NEW assumed \in AssumptionSets, CheckBySolver2(v, assumed)
      PROVE  WellInv'
  <2>1. assumed \in SUBSET Formula
    BY AssumptionSetsAssumption
  <2>2. Check2(v, assumed) /\ solver1' = solver1
    BY <1>3 DEF CheckBySolver2
  <2>3. Well2(solver2')
    BY <1>0, <2>2, Check2Keeps
  <2>4. FlagsInv'
    BY <1>0, <1>3, <2>1, AnsweredFlags DEF CheckBySolver2
  <2> QED  BY <1>0, <2>2, <2>3, <2>4 DEF WellInv
<1> QED  BY <1>1, <1>2, <1>3

LEMMA GetModelKeeps ==
    ASSUME WellInv, GetModel
    PROVE  WellInv'
<1>1. Well1(solver1') /\ Well2(solver2)
  BY DEF WellInv, GetModel
<1>2. model' \in Leaf \cup {Nothing}
  BY <1>1 DEF GetModel, WellInv, Well1, Solver1
<1>3. Well2(solver2')
  <2>1. \/ solver2' = solver2
        \/ \E l \in Leaf \cup {Nothing} : solver2' = [solver2 EXCEPT !.m_model = l]
    BY DEF GetModel, GetModel2
  <2> QED  BY <1>1, <2>1, ModelWell
<1>4. FlagsInv'
  BY <1>2 DEF WellInv, FlagsInv, GetModel, flags
<1> QED  BY <1>1, <1>3, <1>4 DEF WellInv

LEMMA WellInit == Init => WellInv
<1> SUFFICES ASSUME Init PROVE WellInv
  OBVIOUS
<1>1. FlagsInv
  BY DEF Init, FlagsInv
<1> QED  BY <1>1, Fresh1Well, Fresh2Well DEF Init, WellInv

LEMMA WellNext == WellInv /\ [Next]_vars => WellInv'
<1> SUFFICES ASSUME WellInv, [Next]_vars PROVE WellInv'
  OBVIOUS
<1>1. ASSUME NEW e \in Entry, AssertExpr(e) PROVE WellInv'
  BY <1>1, AssertKeeps
<1>2. CASE Push
  BY <1>2, PushKeeps
<1>3. CASE Reset
  BY <1>3, ResetKeeps
<1>4. CASE GetModel
  BY <1>4, GetModelKeeps
<1>5. CASE Interrupt
  BY <1>5 DEF Interrupt, WellInv, FlagsInv, flags, answers
<1>6. ASSUME NEW n \in 1 .. MaxScopes, Pop(n) PROVE WellInv'
  BY <1>6, PopKeeps
<1>7. ASSUME NEW v \in Verdict,
             \/ CheckBySolver1(v) \/ CheckByBoth(v)
             \/ \E assumed \in AssumptionSets : CheckBySolver2(v, assumed)
      PROVE  WellInv'
  BY <1>7, ChecksKeep
<1>8. CASE UNCHANGED vars
  BY <1>8 DEF vars, WellInv, FlagsInv, flags, answers
<1> QED  BY <1>1, <1>2, <1>3, <1>4, <1>5, <1>6, <1>7, <1>8 DEF Next

\* solver_na2as and asserted_formulas stay well-formed whatever is called,
\* interrupts included: the sizes recorded by push never exceed the vectors
\* and never shrink inwards, and every scope is open or left for later.
THEOREM WellFormed == Spec => []WellInv
  BY WellInit, WellNext, PTL DEF Spec

LEMMA WellType == WellInv => TypeOK
<1> SUFFICES ASSUME WellInv PROVE TypeOK
  OBVIOUS
<1>1. solver1 \in Solver1 /\ solver2 \in Solver2
  BY DEF WellInv, Well1, Well2
<1>2. \A i \in DOMAIN solver1.limits :
          solver1.limits[i] \in 0 .. Len(solver1.entries)
  <2>1. solver1.limits \in Seq(0 .. Len(solver1.entries))
    BY DEF WellInv, Well1, Marks
  <2> QED  BY <2>1, ElementOfSeq, LenProperties
<1>3. \A i \in DOMAIN solver2.limits :
          solver2.limits[i].size \in 0 .. Len(solver2.entries)
  <2>1. Len(solver2.entries) \in Nat
    BY <1>1, LenProperties DEF Solver2
  <2>2. Sized(solver2.limits, Len(solver2.entries))
    BY DEF WellInv, Well2
  <2> QED  BY <2>1, <2>2, OuterSized
<1> QED  BY <1>1, <1>2, <1>3
         DEF TypeOK, WellInv, Well2, FlagsInv, Solver1, Solver2

\* The solvers keep their types, and no scope starts behind the end of the
\* vectors, whatever the user calls and whenever he interrupts
\* (combined_solver.cpp, smt_solver.cpp, solver_na2as.cpp).
THEOREM TypeCorrect == Spec => []TypeOK
  BY WellFormed, WellType, PTL

-----------------------------------------------------------------------------
(* What the two solvers hold at a level.                                   *)

FirstOf(s, k) == {s[i] : i \in 1 .. k}

\* Listed, for any sequence of assertions.
ListedIn(es, i, j) ==
    {es[k] : k \in {m \in i .. j : \A b \in 1 .. m - 1 :
                        es[m].name = NoName \/ es[b].name # es[m].name}}

EndAt(s, l) == IF l < Len(s.limits) THEN s.limits[l + 1] ELSE Len(s.entries)

View1(s, l) == [listed |-> ListedIn(s.entries, 1, EndAt(s, l)),
                names |-> Names(FirstOf(s.entries, EndAt(s, l)))]

View2(s, l) == [entries |-> FirstOf(s.entries, Size(s, l)),
                names |-> FirstOf(s.assumptions, Count(s, l)),
                refuted |-> Refuted(s, l)]

\* solver2 holds what solver1 lists, or knows that nothing satisfies it.
Same(v, w) ==
    /\ w.names = v.names
    /\ ~w.refuted => w.entries = v.listed
    /\ w.refuted => Satisfying(Bodies(v.listed)) = {}

Agree(s, t) ==
    /\ Len(s.marks) = Len(t.marks)
    /\ \A l \in 0 .. Len(s.marks) : Same(View1(s, l), View2(t, l))

Asserted1 == Bodies(ListedIn(solver1.entries, 1, Len(solver1.entries)))
Answers == Satisfying(Asserted1 \cup checked.assumed)

\* The status the caller has is right, and the model the solver that will be
\* asked for one has, or will make, satisfies what was checked.
AnswerInv ==
    checked # Nothing =>
        /\ Right(checked.verdict, Answers)
        /\ checked.verdict = "sat" =>
              IF m_use_solver1_results THEN solver1.result \in Answers
              ELSE /\ solver2.search \in Answers
                   /\ solver2.m_model \in Answers \cup {Nothing}

IInv == WellInv /\ Agree(solver1, solver2) /\ AnswerInv

\* Both depend on the elements up to their end only.
LEMMA FirstDepends ==
    ASSUME NEW s, NEW t, NEW k \in Nat, \A i \in 1 .. k : s[i] = t[i]
    PROVE  FirstOf(s, k) = FirstOf(t, k)
  BY DEF FirstOf

LEMMA ListedDepends ==
    ASSUME NEW s, NEW t, NEW k \in Nat, \A i \in 1 .. k : s[i] = t[i],
           NEW a \in Nat \ {0}
    PROVE  ListedIn(s, a, k) = ListedIn(t, a, k)
<1>1. ASSUME NEW m \in a .. k
      PROVE  /\ m \in 1 .. k /\ s[m] = t[m]
             /\ \A b \in 1 .. m - 1 : s[b] = t[b]
  OBVIOUS
<1>2. {m \in a .. k : \A b \in 1 .. m - 1 :
          s[m].name = NoName \/ s[b].name # s[m].name}
      = {m \in a .. k : \A b \in 1 .. m - 1 :
          t[m].name = NoName \/ t[b].name # t[m].name}
  BY <1>1
<1> QED  BY <1>1, <1>2 DEF ListedIn

LEMMA FirstAppend ==
    ASSUME NEW S, NEW s \in Seq(S), NEW e \in S
    PROVE  /\ FirstOf(Append(s, e), Len(s) + 1) = FirstOf(s, Len(s)) \cup {e}
           /\ \A k \in 0 .. Len(s) : FirstOf(Append(s, e), k) = FirstOf(s, k)
<1>1. /\ Len(s) \in Nat /\ Append(s, e)[Len(s) + 1] = e
      /\ \A i \in 1 .. Len(s) : Append(s, e)[i] = s[i]
  BY AppendFacts
<1>t. PICK t : t = Append(s, e)
  OBVIOUS
<1>2. PICK n \in Nat : n = Len(s)
  BY <1>1
<1>3. t[n + 1] = e /\ \A i \in 1 .. n : t[i] = s[i]
  BY <1>1, <1>2, <1>t
<1>4. FirstOf(t, n + 1) = FirstOf(s, n) \cup {e}
  <2>1. 1 .. n + 1 = (1 .. n) \cup {n + 1}
    OBVIOUS
  <2> QED  BY <1>3, <2>1 DEF FirstOf
<1>5. \A k \in 0 .. n : FirstOf(t, k) = FirstOf(s, k)
  <2>1. \A k \in 0 .. n : \A i \in 1 .. k : i \in 1 .. n
    OBVIOUS
  <2> QED  BY <1>3, <2>1 DEF FirstOf
<1> QED  BY <1>2, <1>t, <1>4, <1>5

LEMMA ListedAppend ==
    ASSUME NEW s \in Seq(Entry), NEW e \in Entry,
           NEW a \in 1 .. Len(s) + 1
    PROVE  ListedIn(Append(s, e), a, Len(s) + 1) =
               IF e.name \in Names(FirstOf(s, Len(s)))
               THEN ListedIn(s, a, Len(s)) ELSE ListedIn(s, a, Len(s)) \cup {e}
<1>1. /\ Len(s) \in Nat /\ Append(s, e)[Len(s) + 1] = e
      /\ \A i \in 1 .. Len(s) : Append(s, e)[i] = s[i]
  BY AppendFacts
<1>t. PICK t : t = Append(s, e)
  OBVIOUS
<1>2. PICK n \in Nat : n = Len(s)
  BY <1>1
<1>3. t[n + 1] = e /\ \A i \in 1 .. n : t[i] = s[i]
  BY <1>1, <1>2, <1>t
<1> DEFINE First(m) == \A b \in 1 .. m - 1 :
               t[m].name = NoName \/ t[b].name # t[m].name
<1>4. First(n + 1) <=> e.name \notin Names(FirstOf(s, n))
  <2>1. (n + 1) - 1 = n
    OBVIOUS
  <2>2. First(n + 1) <=>
            \A b \in 1 .. n : e.name = NoName \/ s[b].name # e.name
    BY <1>3, <2>1
  <2> HIDE DEF First
  <2> QED  BY <2>2 DEF Names, FirstOf
<1> HIDE DEF First
<1>5. a \in 1 .. n + 1
  BY <1>2, <1>t
<1>6. {m \in a .. n + 1 : First(m)} =
          IF First(n + 1) THEN {m \in a .. n : First(m)} \cup {n + 1}
          ELSE {m \in a .. n : First(m)}
  <2>1. a .. n + 1 = (a .. n) \cup {n + 1}
    BY <1>5
  <2> QED  BY <2>1
<1>7. ListedIn(t, a, n) = ListedIn(s, a, n)
  BY <1>3, <1>5, ListedDepends
<1>8. \A j \in {n, n + 1} :
          ListedIn(t, a, j) = {t[k] : k \in {m \in a .. j : First(m)}}
  BY DEF ListedIn, First
<1>9. ListedIn(t, a, n + 1) = IF First(n + 1) THEN ListedIn(t, a, n) \cup {e}
                              ELSE ListedIn(t, a, n)
  <2>1. PICK T, U : T = {m \in a .. n : First(m)}
                    /\ U = {m \in a .. n + 1 : First(m)}
    OBVIOUS
  <2>2. /\ ListedIn(t, a, n + 1) = {t[k] : k \in U}
        /\ ListedIn(t, a, n) = {t[k] : k \in T}
    BY <1>8, <2>1
  <2>3. U = IF First(n + 1) THEN T \cup {n + 1} ELSE T
    BY <1>6, <2>1
  <2>4. CASE First(n + 1)
    BY <1>3, <2>2, <2>3, <2>4
  <2>5. CASE ~First(n + 1)
    BY <2>2, <2>3, <2>5
  <2> QED  BY <2>4, <2>5
<1> QED  BY <1>2, <1>t, <1>4, <1>7, <1>9

-----------------------------------------------------------------------------
(* How the calls change the views.                                         *)

LEMMA EndIsNat ==
    ASSUME NEW s, Well1(s), NEW l \in 0 .. Len(s.limits)
    PROVE  EndAt(s, l) \in 0 .. Len(s.entries)
<1>1. /\ s.limits \in Seq(0 .. Len(s.entries)) /\ Len(s.entries) \in Nat
      /\ Len(s.limits) \in Nat /\ DOMAIN s.limits = 1 .. Len(s.limits)
  BY LenProperties DEF Well1, Solver1, Marks
<1>2. CASE l < Len(s.limits)
  <2>1. l + 1 \in DOMAIN s.limits
    BY <1>1, <1>2
  <2>2. s.limits[l + 1] \in 0 .. Len(s.entries)
    BY <1>1, <2>1, ElementOfSeq
  <2> QED  BY <1>2, <2>2 DEF EndAt
<1>3. CASE ~(l < Len(s.limits))
  BY <1>1, <1>3 DEF EndAt
<1> QED  BY <1>2, <1>3

\* Below level n nothing changes.
Kept1(s, t, n) == \A l \in 0 .. n - 1 : View1(t, l) = View1(s, l)
Kept2(s, t, n) == \A l \in 0 .. n - 1 : View2(t, l) = View2(s, l)

\* At level n, solver1 has an assertion more, unless its name is in use;
\* solver2 has its name, and then the assertion.
Asserted1At(s, e, t, n) ==
    /\ View1(t, n).names = View1(s, n).names \cup ({e.name} \ {NoName})
    /\ View1(t, n).listed =
           IF e.name \in View1(s, n).names THEN View1(s, n).listed
           ELSE View1(s, n).listed \cup {e}

Named2At(s, e, t, n) ==
    /\ View2(t, n).names = View2(s, n).names \cup ({e.name} \ {NoName})
    /\ View2(t, n).entries = View2(s, n).entries
    /\ View2(t, n).refuted = View2(s, n).refuted

Asserted2At(s, e, t, n) ==
    /\ View2(t, n).names = View2(s, n).names
    /\ View2(t, n).refuted = View2(s, n).refuted
    /\ View2(t, n).entries = View2(s, n).entries \cup {e}

\* Names of one assertion more.
LEMMA NamesAdd ==
    ASSUME NEW es, NEW e
    PROVE  Names(es \cup {e}) = Names(es) \cup ({e.name} \ {NoName})
  BY DEF Names

LEMMA Assert1View ==
    ASSUME NEW s, Well1(s), NEW e \in Entry,
           NEW t, t.entries = Append(s.entries, e), t.limits = s.limits,
           NEW n, n = Len(s.limits)
    PROVE  Kept1(s, t, n) /\ Asserted1At(s, e, t, n)
<1>1. s.entries \in Seq(Entry) /\ n \in Nat /\ Len(s.entries) \in Nat
  BY LenProperties DEF Well1, Solver1
<1>es. PICK es : es = Append(s.entries, e)
  OBVIOUS
<1>2. PICK k \in Nat : k = Len(s.entries)
  BY <1>1
<1>3. Len(es) = k + 1 /\ \A i \in 1 .. k : es[i] = s.entries[i]
  BY <1>1, <1>2, <1>es, AppendFacts
<1>4. EndAt(t, n) = k + 1 /\ EndAt(s, n) = k
  BY <1>1, <1>2, <1>es, <1>3 DEF EndAt
<1>5. ASSUME NEW l \in 0 .. n - 1
      PROVE  View1(t, l) = View1(s, l)
  <2>1. l \in 0 .. Len(s.limits) /\ l < Len(s.limits)
    BY <1>1
  <2>2. PICK m \in Nat : m = EndAt(s, l) /\ m <= k
    BY <1>2, <1>es, <2>1, EndIsNat
  <2>3. EndAt(t, l) = m
    BY <2>1, <2>2 DEF EndAt
  <2>4. \A i \in 1 .. m : es[i] = s.entries[i]
    BY <1>3, <2>2
  <2>5. 1 \in Nat \ {0}
    OBVIOUS
  <2>6. FirstOf(es, m) = FirstOf(s.entries, m)
    BY <2>4, FirstDepends
  <2>7. ListedIn(es, 1, m) = ListedIn(s.entries, 1, m)
    BY ONLY <2>4, <2>5, m \in Nat, ListedDepends
  <2> QED  BY <1>2, <1>es, <2>2, <2>3, <2>6, <2>7 DEF View1
<1>6. Names(FirstOf(es, k + 1)) =
          Names(FirstOf(s.entries, k)) \cup ({e.name} \ {NoName})
  <2>1. FirstOf(es, k + 1) = FirstOf(s.entries, k) \cup {e}
    <3>1. FirstOf(Append(s.entries, e), Len(s.entries) + 1) =
              FirstOf(s.entries, Len(s.entries)) \cup {e}
      BY ONLY <1>1, e \in Entry, FirstAppend
    <3> QED  BY <1>2, <1>es, <3>1
  <2> QED  BY <2>1, NamesAdd
<1>7. ListedIn(es, 1, k + 1) =
          IF e.name \in Names(FirstOf(s.entries, k))
          THEN ListedIn(s.entries, 1, k) ELSE ListedIn(s.entries, 1, k) \cup {e}
  <2>1. 1 \in 1 .. Len(s.entries) + 1
    BY <1>1
  <2> QED  BY <1>1, <1>2, <1>es, <2>1, ListedAppend
<1>8. /\ View1(t, n) = [listed |-> ListedIn(es, 1, k + 1),
                        names |-> Names(FirstOf(es, k + 1))]
      /\ View1(s, n) = [listed |-> ListedIn(s.entries, 1, k),
                        names |-> Names(FirstOf(s.entries, k))]
  BY <1>2, <1>es, <1>4 DEF View1
<1> QED  BY <1>5, <1>6, <1>7, <1>8 DEF Kept1, Asserted1At

LEMMA Push1View ==
    ASSUME NEW s, Well1(s), NEW n, n = Len(s.limits),
           NEW t, t.entries = s.entries,
           t.limits = Append(s.limits, Len(s.entries))
    PROVE  /\ \A l \in 0 .. n : View1(t, l) = View1(s, l)
           /\ View1(t, n + 1) = View1(s, n)
<1>1. /\ s.limits \in Seq(Nat) /\ n \in Nat /\ Len(s.entries) \in Nat
  BY LenProperties DEF Well1, Solver1
<1>2. /\ Len(t.limits) = n + 1 /\ t.limits[n + 1] = Len(s.entries)
      /\ \A i \in 1 .. n : t.limits[i] = s.limits[i]
  BY <1>1, AppendFacts
<1>3. ASSUME NEW l \in 0 .. n
      PROVE  EndAt(t, l) = EndAt(s, l)
  <2>1. CASE l = n
    BY <1>1, <1>2, <2>1 DEF EndAt
  <2>2. CASE l < n
    <3>1. l + 1 \in 1 .. n /\ l < n + 1
      BY <1>1, <2>2
    <3> QED  BY <1>2, <2>2, <3>1 DEF EndAt
  <2> QED  BY <1>1, <2>1, <2>2
<1>4. EndAt(t, n + 1) = EndAt(s, n)
  BY <1>1, <1>2 DEF EndAt
<1> QED  BY <1>3, <1>4 DEF View1

LEMMA Pop1View ==
    ASSUME NEW s, Well1(s), NEW h \in 1 .. Len(s.limits),
           NEW t, t.entries = SubSeq(s.entries, 1, s.limits[h]),
           t.limits = SubSeq(s.limits, 1, h - 1)
    PROVE  \A l \in 0 .. h - 1 : View1(t, l) = View1(s, l)
<1>1. /\ s.entries \in Seq(Entry) /\ Len(s.entries) \in Nat
      /\ Marks(s.limits, s.entries) /\ Len(s.limits) \in Nat
      /\ DOMAIN s.limits = 1 .. Len(s.limits)
  BY LenProperties DEF Well1, Solver1
<1>2. s.limits[h] \in 0 .. Len(s.entries)
  <2>1. h - 1 \in 0 .. Len(s.limits) /\ h - 1 < Len(s.limits) /\ (h - 1) + 1 = h
    BY <1>1
  <2>2. EndAt(s, h - 1) = s.limits[h]
    BY <2>1 DEF EndAt
  <2> QED  BY <2>1, <2>2, EndIsNat
<1>3. PICK c \in Nat : c = s.limits[h]
  BY <1>2
<1>4. /\ Len(t.entries) = c
      /\ \A i \in 1 .. c : t.entries[i] = s.entries[i]
  BY <1>1, <1>2, <1>3, PrefixIsSeq
<1>5. /\ Len(t.limits) = h - 1
      /\ \A i \in 1 .. h - 1 : t.limits[i] = s.limits[i]
                                /\ s.limits[i] \in 0 .. c
  BY <1>1, <1>3, OuterLimits
<1>6. ASSUME NEW l \in 0 .. h - 1
      PROVE  EndAt(t, l) = EndAt(s, l) /\ EndAt(s, l) \in 0 .. c
  <2>1. CASE l < h - 1
    <3>1. l + 1 \in 1 .. h - 1 /\ l < Len(s.limits)
      BY <1>1, <2>1
    <3> QED  BY <1>5, <2>1, <3>1 DEF EndAt
  <2>2. CASE l = h - 1
    <3>1. l < Len(s.limits) /\ l + 1 = h /\ ~(l < Len(t.limits))
      BY <1>1, <1>5, <2>2
    <3> QED  BY <1>3, <1>4, <3>1 DEF EndAt
  <2> QED  BY <2>1, <2>2
<1>7. ASSUME NEW l \in 0 .. h - 1
      PROVE  View1(t, l) = View1(s, l)
  <2>1. PICK m \in Nat : m = EndAt(s, l) /\ m = EndAt(t, l) /\ m <= c
    BY <1>3, <1>6
  <2>2. \A i \in 1 .. m : t.entries[i] = s.entries[i]
    BY <1>3, <1>4, <2>1
  <2>3. 1 \in Nat \ {0}
    OBVIOUS
  <2>4. FirstOf(t.entries, m) = FirstOf(s.entries, m)
    BY <2>2, FirstDepends
  <2>5. ListedIn(t.entries, 1, m) = ListedIn(s.entries, 1, m)
    <3>1. PICK p, q : p = t.entries /\ q = s.entries
      OBVIOUS
    <3>2. \A i \in 1 .. m : p[i] = q[i]
      BY <2>2, <3>1
    <3>3. ListedIn(p, 1, m) = ListedIn(q, 1, m)
      BY ONLY m \in Nat, <2>3, <3>2, ListedDepends
    <3> QED  BY <3>1, <3>3
  <2> QED  BY <2>1, <2>4, <2>5 DEF View1
<1> QED  BY <1>7

\* Where the vectors of solver2 end.
LEMMA EndsOf2 ==
    ASSUME NEW s, Well2(s), NEW l \in 0 .. Len(s.marks)
    PROVE  /\ Size(s, l) \in 0 .. Len(s.entries)
           /\ Count(s, l) \in 0 .. Len(s.assumptions)
           /\ Refuted(s, l) \in BOOLEAN
<1>1. /\ s.entries \in Seq(Entry) /\ Len(s.entries) \in Nat
      /\ Len(s.assumptions) \in Nat /\ s.inconsistent \in BOOLEAN
      /\ Len(s.limits) \in Nat /\ DOMAIN s.limits = 1 .. Len(s.limits)
      /\ Len(s.marks) \in Nat /\ DOMAIN s.marks = 1 .. Len(s.marks)
      /\ s.marks \in Seq(0 .. Len(s.assumptions))
      /\ Sized(s.limits, Len(s.entries))
  BY LenProperties DEF Well2, Solver2, Marks
<1>2. Size(s, l) \in 0 .. Len(s.entries) /\ Refuted(s, l) \in BOOLEAN
  <2>1. CASE l < Len(s.limits)
    <3>1. PICK h : h = l + 1
      OBVIOUS
    <3>2. h \in DOMAIN s.limits
      BY <1>1, <2>1, <3>1
    <3>3. s.limits[h] \in Limit /\ s.limits[h].size \in 0 .. Len(s.entries)
      BY ONLY <1>1, <3>2, OuterSized
    <3>4. /\ Size(s, l) = s.limits[h].size
          /\ Refuted(s, l) = s.limits[h].inconsistent
      BY <2>1, <3>1 DEF Size, Refuted
    <3>5. s.limits[h].inconsistent \in BOOLEAN
      BY <3>3 DEF Limit
    <3> QED  BY <3>3, <3>4, <3>5
  <2>2. CASE ~(l < Len(s.limits))
    BY <1>1, <2>2 DEF Size, Refuted
  <2> QED  BY <2>1, <2>2
<1>4. Count(s, l) \in 0 .. Len(s.assumptions)
  <2>1. CASE l < Len(s.marks)
    <3>1. l + 1 \in DOMAIN s.marks
      BY <1>1, <2>1
    <3>2. s.marks[l + 1] \in 0 .. Len(s.assumptions)
      BY <1>1, <3>1, ElementOfSeq
    <3> QED  BY <2>1, <3>2 DEF Count
  <2>2. CASE ~(l < Len(s.marks))
    BY <1>1, <2>2 DEF Count
  <2> QED  BY <2>1, <2>2
<1> QED  BY <1>2, <1>4

LEMMA ResultsView ==
    ASSUME NEW s, NEW t, SameButResults(s, t), NEW l
    PROVE  View2(t, l) = View2(s, l)
  BY DEF SameButResults, View2, Size, Count, Refuted

LEMMA Named2View ==
    ASSUME NEW s, Well2(s), NEW e \in Entry, NEW n, n = Len(s.marks)
    PROVE  LET t == Named(s, e) IN
           /\ t.marks = s.marks /\ t.inconsistent = s.inconsistent
           /\ Kept2(s, t, n) /\ Named2At(s, e, t, n)
<1> DEFINE t == Named(s, e)
<1>1. /\ s \in Solver2 /\ s.assumptions \in Seq(Name) /\ n \in Nat
      /\ Len(s.assumptions) \in Nat
  BY LenProperties DEF Well2, Solver2
<1>2. /\ t = [s EXCEPT !.assumptions = t.assumptions]
      /\ t.assumptions = IF e.name = NoName THEN s.assumptions
                         ELSE Append(s.assumptions, e.name)
  BY NamedWell2
<1> HIDE DEF t
<1>3. /\ t.marks = s.marks /\ t.entries = s.entries /\ t.limits = s.limits
      /\ t.inconsistent = s.inconsistent
  BY <1>1, <1>2 DEF Solver2
<1>4. \A l : Size(t, l) = Size(s, l) /\ Refuted(t, l) = Refuted(s, l)
  BY <1>3 DEF Size, Refuted
<1>5. CASE e.name = NoName
  <2>1. \A l : View2(t, l) = View2(s, l)
    BY <1>2, <1>3, <1>4, <1>5 DEF View2, Count
  <2>2. {e.name} \ {NoName} = {}
    BY <1>5
  <2>3. Kept2(s, t, n) /\ Named2At(s, e, t, n)
    BY <2>1, <2>2 DEF Kept2, Named2At
  <2> QED  BY <1>3, <2>3 DEF t
<1>6. CASE e.name # NoName
  <2>1. e.name \in Name
    BY <1>6 DEF Entry
  <2>2. PICK k \in Nat : k = Len(s.assumptions)
    BY <1>1
  <2>3. /\ FirstOf(t.assumptions, k + 1) = FirstOf(s.assumptions, k) \cup {e.name}
        /\ Len(t.assumptions) = k + 1
        /\ \A j \in 0 .. k : FirstOf(t.assumptions, j) = FirstOf(s.assumptions, j)
    <3>1. PICK x \in Name, names \in Seq(Name) :
              x = e.name /\ names = s.assumptions
      BY <1>1, <2>1
    <3>2. t.assumptions = Append(names, x) /\ Len(names) = k
      BY <1>2, <1>6, <2>2, <3>1
    <3>3. FirstOf(Append(names, x), Len(names) + 1) =
              FirstOf(names, Len(names)) \cup {x}
      BY FirstAppend
    <3>4. \A j \in 0 .. Len(names) :
              FirstOf(Append(names, x), j) = FirstOf(names, j)
      BY FirstAppend
    <3>5. Len(Append(names, x)) = Len(names) + 1
      BY AppendFacts
    <3> QED  BY <3>1, <3>2, <3>3, <3>4, <3>5
  <2>4. Count(t, n) = k + 1 /\ Count(s, n) = k
    BY <1>1, <1>3, <2>2, <2>3 DEF Count
  <2>5. ASSUME NEW l \in 0 .. n - 1
        PROVE  View2(t, l) = View2(s, l)
    <3>1. l < Len(s.marks) /\ l \in 0 .. Len(s.marks)
      BY <1>1
    <3>2. Count(t, l) = Count(s, l)
      BY <1>3, <3>1 DEF Count
    <3>3. Count(s, l) \in 0 .. k
      BY <2>2, <3>1, EndsOf2
    <3> QED  BY <1>3, <1>4, <2>3, <3>2, <3>3 DEF View2
  <2>6. View2(t, n).names = View2(s, n).names \cup ({e.name} \ {NoName})
    BY <1>6, <2>3, <2>4 DEF View2
  <2>7. /\ View2(t, n).entries = View2(s, n).entries
        /\ View2(t, n).refuted = View2(s, n).refuted
    BY <1>3, <1>4 DEF View2
  <2>8. Kept2(s, t, n) /\ Named2At(s, e, t, n)
    BY <2>5, <2>6, <2>7 DEF Kept2, Named2At
  <2> QED  BY <1>3, <2>8 DEF t
<1> QED  BY <1>5, <1>6

LEMMA ForcePushView ==
    ASSUME NEW s, Well2(s), NEW l \in 0 .. Len(s.marks)
    PROVE  View2(ForcePush(s), l) = View2(s, l)
<1> DEFINE t == ForcePush(s)
<1>1. /\ t.entries = s.entries /\ t.inconsistent = s.inconsistent
      /\ t.assumptions = s.assumptions /\ t.marks = s.marks
      /\ Len(s.limits) \in 0 .. Len(s.marks)
      /\ Len(t.limits) = Len(s.marks)
      /\ \A i \in 1 .. Len(s.limits) : t.limits[i] = s.limits[i]
      /\ \A i \in Len(s.limits) + 1 .. Len(s.marks) :
            /\ t.limits[i].size = Len(s.entries)
            /\ t.limits[i].inconsistent = s.inconsistent
  BY ForcePushWell
<1> HIDE DEF t
<1>2. PICK k \in Nat, n \in Nat : k = Len(s.limits) /\ n = Len(s.marks) /\ k <= n
  BY <1>1, LenProperties DEF Well2, Solver2
<1>3. Size(t, l) = Size(s, l) /\ Refuted(t, l) = Refuted(s, l)
  <2>1. CASE l < k
    <3>1. l < n /\ l + 1 \in 1 .. k
      BY <1>2, <2>1
    <3> QED  BY <1>1, <1>2, <2>1, <3>1 DEF Size, Refuted
  <2>2. CASE k <= l /\ l < n
    <3>1. ~(l < k) /\ l + 1 \in k + 1 .. n
      BY <1>2, <2>2
    <3> QED  BY <1>1, <1>2, <2>2, <3>1 DEF Size, Refuted
  <2>3. CASE l = n
    <3>1. ~(l < k) /\ ~(l < n)
      BY <1>2, <2>3
    <3> QED  BY <1>1, <1>2, <3>1 DEF Size, Refuted
  <2> QED  BY <1>2, <2>1, <2>2, <2>3
<1>4. Count(t, l) = Count(s, l)
  BY <1>1 DEF Count
<1> QED  BY <1>1, <1>3, <1>4 DEF View2, t

LEMMA Append2View ==
    ASSUME NEW s, Well2(s), s.lazy = 0, NEW e \in Entry,
           NEW n, n = Len(s.marks)
    PROVE  LET t == [s EXCEPT !.entries = Append(@, e)] IN
           Kept2(s, t, n) /\ Asserted2At(s, e, t, n)
<1> DEFINE t == [s EXCEPT !.entries = Append(@, e)]
<1>1. /\ s.entries \in Seq(Entry) /\ Len(s.entries) \in Nat
      /\ n = Len(s.limits) /\ n \in Nat
  BY LenProperties DEF Well2, Solver2
<1>2. /\ t.entries = Append(s.entries, e) /\ t.limits = s.limits
      /\ t.inconsistent = s.inconsistent
      /\ t.assumptions = s.assumptions /\ t.marks = s.marks
  BY AppendWell
<1> HIDE DEF t
<1>3. PICK k \in Nat : k = Len(s.entries)
  BY <1>1
<1>4. /\ FirstOf(t.entries, k + 1) = FirstOf(s.entries, k) \cup {e}
      /\ \A j \in 0 .. k : FirstOf(t.entries, j) = FirstOf(s.entries, j)
      /\ Len(t.entries) = k + 1
  <2>0. PICK q \in Seq(Entry) : q = s.entries
    BY <1>1
  <2>1. FirstOf(Append(s.entries, e), Len(s.entries) + 1) =
            FirstOf(s.entries, Len(s.entries)) \cup {e}
    <3>1. FirstOf(Append(q, e), Len(q) + 1) = FirstOf(q, Len(q)) \cup {e}
      BY ONLY q \in Seq(Entry), e \in Entry, FirstAppend
    <3> QED  BY <2>0, <3>1
  <2>2. \A j \in 0 .. Len(s.entries) :
            FirstOf(Append(s.entries, e), j) = FirstOf(s.entries, j)
    BY ONLY <1>1, e \in Entry, FirstAppend
  <2>3. Len(Append(s.entries, e)) = Len(s.entries) + 1
    BY ONLY <1>1, e \in Entry, AppendFacts
  <2> QED  BY <1>2, <1>3, <2>1, <2>2, <2>3
<1>5. /\ Size(t, n) = k + 1 /\ Size(s, n) = k
      /\ \A l : Count(t, l) = Count(s, l) /\ Refuted(t, l) = Refuted(s, l)
  <2>1. \A l : Count(t, l) = Count(s, l) /\ Refuted(t, l) = Refuted(s, l)
    BY <1>2 DEF Count, Refuted
  <2>2. Size(t, n) = k + 1 /\ Size(s, n) = k
    <3>1. ~(n < n)
      BY <1>1
    <3> QED  BY <1>1, <1>2, <1>3, <1>4, <3>1 DEF Size
  <2> QED  BY <2>1, <2>2
<1>6. ASSUME NEW l \in 0 .. n - 1
      PROVE  View2(t, l) = View2(s, l)
  <2>1. l < Len(s.limits) /\ l \in 0 .. Len(s.marks)
    BY <1>1
  <2>2. Size(t, l) = Size(s, l)
    BY <1>2, <2>1 DEF Size
  <2>3. Size(s, l) \in 0 .. k
    BY <1>3, <2>1, EndsOf2
  <2> QED  BY <1>2, <1>4, <1>5, <2>2, <2>3 DEF View2
<1>7. /\ View2(t, n).names = View2(s, n).names
      /\ View2(t, n).refuted = View2(s, n).refuted
      /\ View2(t, n).entries = View2(s, n).entries \cup {e}
  BY <1>2, <1>4, <1>5 DEF View2
<1>8. Kept2(s, t, n) /\ Asserted2At(s, e, t, n)
  BY <1>6, <1>7 DEF Kept2, Asserted2At
<1> QED  BY <1>8 DEF t

\* What is asserted is found to be false, at most.
Weakened(v, w) ==
    /\ w.names = v.names /\ w.entries = v.entries
    /\ \/ w.refuted = v.refuted
       \/ w.refuted = TRUE /\ Satisfying(Bodies(v.entries)) = {}

LEMMA WeakenedSame ==
    ASSUME NEW u, NEW v, NEW w, Same(u, v), Weakened(v, w)
    PROVE  Same(u, w)
  BY DEF Same, Weakened

\* More assertions have fewer models.
LEMMA SatisfyingShrinks ==
    ASSUME NEW fs, NEW gs, fs \subseteq gs
    PROVE  Satisfying(gs) \subseteq Satisfying(fs)
  BY DEF Satisfying

LEMMA ReducedView ==
    ASSUME NEW s, Well2(s), NEW r \in Reduced(s)
    PROVE  /\ r.marks = s.marks /\ r.entries = s.entries
           /\ r.assumptions = s.assumptions
           /\ r.search = s.search /\ r.m_model = s.m_model
           /\ \A l \in 0 .. Len(s.marks) : Weakened(View2(s, l), View2(r, l))
<1>1. CASE r = s
  BY <1>1 DEF Weakened
<1>2. CASE r # s
  <2>1. /\ r = [s EXCEPT !.inconsistent = TRUE]
        /\ Satisfying(Bodies(Holds(s.entries, <<>>))) = {}
    BY <1>2 DEF Reduced
  <2>2. /\ r.entries = s.entries /\ r.limits = s.limits
        /\ r.inconsistent = TRUE
        /\ r.assumptions = s.assumptions /\ r.marks = s.marks
        /\ r.search = s.search /\ r.m_model = s.m_model
    BY <2>1, InconsistentWell
  <2>3. ASSUME NEW l \in 0 .. Len(s.marks)
        PROVE  Weakened(View2(s, l), View2(r, l))
    <3>1. Size(r, l) = Size(s, l) /\ Count(r, l) = Count(s, l)
      BY <2>2 DEF Size, Count
    <3>2. CASE l < Len(s.limits)
      <4>1. Refuted(r, l) = Refuted(s, l)
        BY <2>2, <3>2 DEF Refuted
      <4> QED  BY <2>2, <3>1, <4>1 DEF Weakened, View2
    <3>3. CASE ~(l < Len(s.limits))
      <4>1. Refuted(r, l) = TRUE /\ Size(s, l) = Len(s.entries)
        BY <2>2, <3>3 DEF Refuted, Size
      <4>2. Holds(s.entries, <<>>) \subseteq FirstOf(s.entries, Len(s.entries))
        <5>1. s.entries \in Seq(Entry)
          BY DEF Well2, Solver2
        <5>2. DOMAIN s.entries = 1 .. Len(s.entries)
          BY <5>1, LenProperties
        <5> QED  BY <5>2 DEF Holds, FirstOf, Range
      <4>3. Satisfying(Bodies(FirstOf(s.entries, Len(s.entries)))) = {}
        <5>1. Bodies(Holds(s.entries, <<>>)) \subseteq
                  Bodies(FirstOf(s.entries, Len(s.entries)))
          BY <4>2 DEF Bodies
        <5> QED  BY <2>1, <5>1, SatisfyingShrinks
      <4> QED  BY <2>2, <3>1, <4>1, <4>3 DEF Weakened, View2
    <3> QED  BY <3>2, <3>3
  <2> QED  BY <2>2, <2>3
<1> QED  BY <1>1, <1>2

LEMMA Push2View ==
    ASSUME NEW s, Well2(s), NEW n, n = Len(s.marks)
    PROVE  LET t == [Marked(s) EXCEPT !.lazy = @ + 1] IN
           /\ \A l \in 0 .. n : View2(t, l) = View2(s, l)
           /\ View2(t, n + 1) = View2(s, n)
<1> DEFINE t == [Marked(s) EXCEPT !.lazy = @ + 1]
<1>1. /\ t.entries = s.entries /\ t.limits = s.limits
      /\ t.inconsistent = s.inconsistent
      /\ t.assumptions = s.assumptions
      /\ t.marks = Append(s.marks, Len(s.assumptions))
  BY Push2Well
<1> HIDE DEF t
<1>2. /\ s.marks \in Seq(Nat) /\ Len(s.assumptions) \in Nat /\ n \in Nat
  BY LenProperties DEF Well2, Solver2
<1>3. /\ Len(t.marks) = n + 1 /\ t.marks[n + 1] = Len(s.assumptions)
      /\ \A i \in 1 .. n : t.marks[i] = s.marks[i]
  BY <1>1, <1>2, AppendFacts
<1>4. \A l : Size(t, l) = Size(s, l) /\ Refuted(t, l) = Refuted(s, l)
  BY <1>1 DEF Size, Refuted
<1>5. ASSUME NEW l \in 0 .. n
      PROVE  Count(t, l) = Count(s, l)
  <2>1. CASE l = n
    BY <1>1, <1>2, <1>3, <2>1 DEF Count
  <2>2. CASE l < n
    <3>1. l + 1 \in 1 .. n /\ l < n + 1
      BY <1>2, <2>2
    <3> QED  BY <1>3, <2>2, <3>1 DEF Count
  <2> QED  BY <1>2, <2>1, <2>2
<1>6. Count(t, n + 1) = Count(s, n)
  BY <1>1, <1>2, <1>3 DEF Count
<1>7. Size(s, n + 1) = Size(s, n) /\ Refuted(s, n + 1) = Refuted(s, n)
  <2>1. PICK k \in Nat : k = Len(s.limits) /\ k <= n
    BY <1>2, LenProperties DEF Well2, Solver2
  <2>2. ~(n < k) /\ ~(n + 1 < k)
    BY <1>2, <2>1
  <2> QED  BY <2>1, <2>2 DEF Size, Refuted
<1>8. \A l \in 0 .. n : View2(t, l) = View2(s, l)
  BY <1>1, <1>4, <1>5 DEF View2
<1>9. View2(t, n + 1) = View2(s, n)
  BY <1>1, <1>4, <1>6, <1>7 DEF View2
<1> QED  BY <1>8, <1>9 DEF t

\* Closing scopes leaves what was there at the level it returns to.
LEMMA Pop2View ==
    ASSUME NEW s, Well2(s), NEW n \in 1 .. Len(s.marks),
           NEW level, level = Len(s.marks) - n
    PROVE  LET t == PopFormulas(Unmarked(s, n), n) IN
           /\ Well2(t) /\ Len(t.marks) = level
           /\ \A l \in 0 .. level : View2(t, l) = View2(s, l)
<1> DEFINE t == PopFormulas(Unmarked(s, n), n)
<1>1. /\ Well2(t)
      /\ t.entries = SubSeq(s.entries, 1, Size(s, level))
      /\ t.inconsistent = Refuted(s, level)
      /\ t.assumptions = SubSeq(s.assumptions, 1, Count(s, level))
      /\ t.marks = SubSeq(s.marks, 1, level)
      /\ \/ t.limits = s.limits /\ Len(s.limits) <= level
         \/ t.limits = SubSeq(s.limits, 1, level) /\ level < Len(s.limits)
  BY PopLazy, PopOpened
<1> HIDE DEF t
<1>2. /\ s.entries \in Seq(Entry) /\ s.assumptions \in Seq(Name)
      /\ s.marks \in Seq(Nat) /\ s.limits \in Seq(Limit)
      /\ Len(s.marks) \in Nat /\ Len(s.limits) \in Nat
      /\ Marks(s.marks, s.assumptions) /\ Sized(s.limits, Len(s.entries))
      /\ DOMAIN s.limits = 1 .. Len(s.limits)
      /\ DOMAIN s.marks = 1 .. Len(s.marks) /\ Len(s.entries) \in Nat
  BY LenProperties DEF Well2, Solver2
<1>3. PICK m \in Nat, k \in Nat : m = Len(s.marks) /\ k = Len(s.limits)
  BY <1>2
<1>4. level \in 0 .. m - 1 /\ level \in Nat /\ level \in 0 .. m
  <2>1. n \in 1 .. m /\ level = m - n
    BY <1>3
  <2>2. m - n \in 0 .. m - 1 /\ m - n \in Nat /\ m - n \in 0 .. m
    BY <2>1
  <2> QED  BY <2>1, <2>2
<1>5. PICK c \in Nat, z \in Nat :
          /\ c = Count(s, level) /\ z = Size(s, level)
          /\ c \in 0 .. Len(s.assumptions) /\ z \in 0 .. Len(s.entries)
  <2>1. level \in 0 .. Len(s.marks)
    BY <1>3, <1>4
  <2>2. /\ Size(s, level) \in 0 .. Len(s.entries)
        /\ Count(s, level) \in 0 .. Len(s.assumptions)
    BY <2>1, EndsOf2
  <2>3. Len(s.entries) \in Nat /\ Len(s.assumptions) \in Nat
    BY <1>2, LenProperties
  <2> QED  BY <2>2, <2>3
<1>6. /\ Len(t.entries) = z
      /\ \A i \in 1 .. z : t.entries[i] = s.entries[i]
  <2>1. PICK q \in Seq(Entry) : q = s.entries /\ z \in 0 .. Len(q)
    BY <1>2, <1>5
  <2>2. Len(SubSeq(q, 1, z)) = z
    BY ONLY q \in Seq(Entry), <2>1, PrefixIsSeq
  <2>3. \A i \in 1 .. z : SubSeq(q, 1, z)[i] = q[i]
    BY ONLY q \in Seq(Entry), <2>1, PrefixIsSeq
  <2> QED  BY <1>1, <1>5, <2>1, <2>2, <2>3
<1>7. /\ Len(t.assumptions) = c
      /\ \A i \in 1 .. c : t.assumptions[i] = s.assumptions[i]
  <2>1. PICK q \in Seq(Name) : q = s.assumptions /\ c \in 0 .. Len(q)
    BY <1>2, <1>5
  <2>2. Len(SubSeq(q, 1, c)) = c
    BY ONLY q \in Seq(Name), <2>1, PrefixIsSeq
  <2>3. \A i \in 1 .. c : SubSeq(q, 1, c)[i] = q[i]
    BY ONLY q \in Seq(Name), <2>1, PrefixIsSeq
  <2> QED  BY <1>1, <1>5, <2>1, <2>2, <2>3
<1>8. /\ Len(t.marks) = level
      /\ \A i \in 1 .. level : t.marks[i] = s.marks[i]
  BY <1>1, <1>2, <1>3, <1>4, PrefixIsSeq
<1>9. ASSUME NEW l \in 0 .. level
      PROVE  Count(t, l) = Count(s, l) /\ Count(s, l) \in 0 .. c
  <2>1. CASE l = level
    BY <1>4, <1>5, <1>7, <1>8, <2>1 DEF Count
  <2>2. CASE l < level
    <3>1. l + 1 \in 1 .. level /\ l < m /\ level < m
          /\ l + 1 \in DOMAIN s.marks /\ level + 1 \in DOMAIN s.marks
          /\ l + 1 <= level + 1
      <4>1. PICK h \in Nat : h = level
        BY <1>4
      <4>2. l \in 0 .. h /\ l < h /\ h \in 0 .. m - 1
        BY <1>4, <2>2, <4>1
      <4>3. /\ l + 1 \in 1 .. h /\ l < m /\ h < m /\ l + 1 \in 1 .. m
            /\ h + 1 \in 1 .. m /\ l + 1 <= h + 1
        BY <4>1, <4>2
      <4> QED  BY <1>2, <1>3, <4>1, <4>3
    <3>2. Count(s, l) = s.marks[l + 1] /\ Count(t, l) = s.marks[l + 1]
      BY <1>3, <1>8, <2>2, <3>1 DEF Count
    <3>3. c = s.marks[level + 1]
      BY <1>3, <1>5, <3>1 DEF Count
    <3>4. s.marks[l + 1] <= s.marks[level + 1] /\ s.marks[l + 1] \in Nat
      BY <1>2, <3>1, ElementOfSeq DEF Marks
    <3> QED  BY <3>2, <3>3, <3>4
  <2> QED  BY <1>4, <2>1, <2>2
<1>10. ASSUME NEW l \in 0 .. level
       PROVE  /\ Size(t, l) = Size(s, l) /\ Size(s, l) \in 0 .. z
              /\ Refuted(t, l) = Refuted(s, l)
  <2>1. CASE l = level
    <3>1. Len(t.limits) <= level
      <4>1. CASE level < k
        <5>1. level \in 0 .. Len(s.limits)
          BY <1>3, <1>4, <4>1
        <5>2. t.limits = SubSeq(s.limits, 1, level)
          BY <1>1, <1>3, <1>4, <4>1
        <5> QED  BY <1>2, <1>4, <5>1, <5>2, PrefixIsSeq
      <4>2. CASE ~(level < k)
        BY <1>1, <1>3, <1>4, <4>2
      <4> QED  BY <4>1, <4>2
    <3>2. ~(l < Len(t.limits))
      <4>1. Len(t.limits) \in Nat
        BY <1>1, LenProperties DEF Well2, Solver2
      <4> QED  BY <1>4, <2>1, <3>1, <4>1
    <3>3. Size(t, l) = Len(t.entries) /\ Refuted(t, l) = t.inconsistent
      BY <3>2 DEF Size, Refuted
    <3>4. Size(s, l) = z /\ Refuted(s, l) = t.inconsistent
      BY <1>1, <1>5, <2>1
    <3>5. z \in 0 .. z
      BY <1>5
    <3> QED  BY <1>6, <3>3, <3>4, <3>5
  <2>2. CASE l < level /\ level < k
    <3>1. level \in 0 .. Len(s.limits)
      BY <1>3, <1>4, <2>2
    <3>2. t.limits = SubSeq(s.limits, 1, level)
      BY <1>1, <1>3, <1>4, <2>2
    <3>3. Len(t.limits) = level
          /\ \A i \in 1 .. level : t.limits[i] = s.limits[i]
      BY <1>2, <3>1, <3>2, PrefixIsSeq
    <3>4. l + 1 \in 1 .. level /\ l < k /\ l + 1 <= level + 1
          /\ l + 1 \in DOMAIN s.limits /\ level + 1 \in DOMAIN s.limits
      <4>1. PICK h \in Nat : h = level
        BY <1>4
      <4>2. l \in 0 .. h /\ l < h /\ h < k
        BY <2>2, <4>1
      <4>3. /\ l + 1 \in 1 .. h /\ l < k /\ l + 1 \in 1 .. k
            /\ h + 1 \in 1 .. k /\ l + 1 <= h + 1
        BY <4>1, <4>2
      <4> QED  BY <1>2, <1>3, <4>1, <4>3
    <3>5. /\ Size(t, l) = s.limits[l + 1].size
          /\ Size(s, l) = s.limits[l + 1].size
          /\ Refuted(t, l) = Refuted(s, l)
      BY <1>3, <2>2, <3>3, <3>4 DEF Size, Refuted
    <3>6. z = s.limits[level + 1].size
      BY <1>3, <1>5, <2>2 DEF Size
    <3>7. Size(s, l) <= z
      BY <1>2, <3>4, <3>5, <3>6 DEF Sized
    <3>8. Size(s, l) \in Nat
      <4>1. l \in 0 .. Len(s.marks)
        BY <1>3, <1>4
      <4> QED  BY <4>1, EndsOf2
    <3> QED  BY <3>5, <3>7, <3>8
  <2>3. CASE l < level /\ ~(level < k)
    <3>1. t.limits = s.limits
      BY <1>1, <1>3, <2>3
    <3>2. z = Len(s.entries) /\ t.inconsistent = s.inconsistent
      BY <1>1, <1>3, <1>5, <2>3 DEF Size, Refuted
    <3>3. Size(t, l) = Size(s, l) /\ Refuted(t, l) = Refuted(s, l)
      BY <1>6, <3>1, <3>2 DEF Size, Refuted
    <3>4. Size(s, l) \in 0 .. Len(s.entries)
      <4>1. l \in 0 .. Len(s.marks)
        BY <1>3, <1>4
      <4> QED  BY <4>1, EndsOf2
    <3> QED  BY <3>2, <3>3, <3>4
  <2> QED  BY <1>4, <2>1, <2>2, <2>3
<1>11. ASSUME NEW l \in 0 .. level
       PROVE  View2(t, l) = View2(s, l)
  <2>1. PICK a \in Nat, b \in Nat :
            /\ a = Size(s, l) /\ a = Size(t, l) /\ a <= z
            /\ b = Count(s, l) /\ b = Count(t, l) /\ b <= c
    BY <1>9, <1>10
  <2>2. FirstOf(t.entries, a) = FirstOf(s.entries, a)
    <3>1. \A i \in 1 .. a : t.entries[i] = s.entries[i]
      BY <1>6, <2>1
    <3> QED  BY <3>1, FirstDepends
  <2>3. FirstOf(t.assumptions, b) = FirstOf(s.assumptions, b)
    <3>1. \A i \in 1 .. b : t.assumptions[i] = s.assumptions[i]
      BY <1>7, <2>1
    <3> QED  BY <3>1, FirstDepends
  <2> QED  BY <1>10, <2>1, <2>2, <2>3 DEF View2
<1> QED  BY <1>1, <1>8, <1>11 DEF t

-----------------------------------------------------------------------------
(* The two solvers agree.                                                  *)

\* The innermost level is the whole solver.
LEMMA Top1 ==
    ASSUME NEW s, Well1(s)
    PROVE  /\ View1(s, Len(s.marks)).listed =
                  ListedIn(s.entries, 1, Len(s.entries))
           /\ View1(s, Len(s.marks)).names =
                  Names(FirstOf(s.entries, Len(s.entries)))
<1>1. PICK n \in Nat : n = Len(s.marks) /\ n = Len(s.limits)
  BY LenProperties DEF Well1, Solver1
<1>2. ~(n < n)
  OBVIOUS
<1>3. EndAt(s, n) = Len(s.entries)
  BY <1>1, <1>2 DEF EndAt
<1> QED  BY <1>1, <1>3 DEF View1

LEMMA Top2 ==
    ASSUME NEW s, Well2(s)
    PROVE  /\ View2(s, Len(s.marks)).entries = Range(s.entries)
           /\ View2(s, Len(s.marks)).names = Range(s.assumptions)
           /\ View2(s, Len(s.marks)).refuted = s.inconsistent
<1>1. PICK n \in Nat, k \in Nat :
          n = Len(s.marks) /\ k = Len(s.limits) /\ k <= n
  BY LenProperties DEF Well2, Solver2
<1>2. ~(n < k) /\ ~(n < n)
  BY <1>1
<1>3. /\ Size(s, n) = Len(s.entries) /\ Refuted(s, n) = s.inconsistent
      /\ Count(s, n) = Len(s.assumptions)
  BY <1>1, <1>2 DEF Size, Refuted, Count
<1>4. /\ DOMAIN s.entries = 1 .. Len(s.entries)
      /\ DOMAIN s.assumptions = 1 .. Len(s.assumptions)
  BY LenProperties DEF Well2, Solver2
<1>5. /\ FirstOf(s.entries, Len(s.entries)) = Range(s.entries)
      /\ FirstOf(s.assumptions, Len(s.assumptions)) = Range(s.assumptions)
  BY <1>4 DEF FirstOf, Range
<1> QED  BY <1>1, <1>3, <1>5 DEF View2

\* A name is refused by solver2 when one of the assertions of solver1 has it.
LEMMA NamesInUse ==
    ASSUME NEW s, NEW t, Well1(s), Well2(t), Agree(s, t)
    PROVE  Range(t.assumptions) = View1(s, Len(s.marks)).names
<1>1. Len(s.marks) \in 0 .. Len(s.marks) /\ Len(s.marks) = Len(t.marks)
  BY LenProperties DEF Agree, Well1, Solver1
<1>2. Same(View1(s, Len(s.marks)), View2(t, Len(t.marks)))
  BY <1>1 DEF Agree
<1> QED  BY <1>2, Top2 DEF Same

\* One assertion more, below a level that is left as it is.
LEMMA SameByLevel ==
    ASSUME NEW s, NEW t, Agree(s, t), NEW n \in Nat, n = Len(s.marks),
           NEW s2, NEW t2, Len(s2.marks) = n, Len(t2.marks) = n,
           Kept1(s, s2, n), Kept2(t, t2, n),
           Same(View1(s2, n), View2(t2, n))
    PROVE  Agree(s2, t2)
<1>1. ASSUME NEW l \in 0 .. n
      PROVE  Same(View1(s2, l), View2(t2, l))
  <2>1. CASE l = n
    BY <2>1
  <2>2. CASE l # n
    <3>1. l \in 0 .. n - 1
      BY <2>2
    <3>2. Same(View1(s, l), View2(t, l))
      BY DEF Agree
    <3> QED  BY <3>1, <3>2 DEF Kept1, Kept2
  <2> QED  BY <2>1, <2>2
<1> QED  BY <1>1 DEF Agree

LEMMA ReducedAgree ==
    ASSUME NEW s, NEW t, Agree(s, t), Well2(t), NEW r \in Reduced(t)
    PROVE  Agree(s, r)
<1>1. /\ r.marks = t.marks
      /\ \A l \in 0 .. Len(t.marks) : Weakened(View2(t, l), View2(r, l))
  BY ReducedView
<1> QED  BY <1>1, WeakenedSame DEF Agree

LEMMA ResultsAgree ==
    ASSUME NEW s, NEW t, NEW u, Agree(s, t), SameButResults(t, u)
    PROVE  Agree(s, u)
<1>1. u.marks = t.marks /\ \A l : View2(u, l) = View2(t, l)
  BY ResultsView DEF SameButResults
<1> QED  BY <1>1 DEF Agree

\* solver2 has opened its scopes and taken the name.
LEMMA OpenedView ==
    ASSUME NEW s, Well2(s), NEW e \in Entry, NEW n, n = Len(s.marks)
    PROVE  LET t == Opened2(Named(s, e)) IN
           /\ Well2(t) /\ t.lazy = 0 /\ t.marks = s.marks
           /\ t.inconsistent = s.inconsistent
           /\ Kept2(s, t, n) /\ Named2At(s, e, t, n)
<1> DEFINE a == Named(s, e)
           b == ForcePush(a)
           t == Opened2(a)
<1>1. /\ Well2(a) /\ a.marks = s.marks /\ a.inconsistent = s.inconsistent
      /\ Kept2(s, a, n) /\ Named2At(s, e, a, n)
  BY NamedWell2, Named2View
<1> HIDE DEF a
<1>2. /\ Well2(b) /\ b.lazy = 0 /\ b.marks = a.marks
      /\ b.inconsistent = a.inconsistent
      /\ \A l \in 0 .. n : View2(b, l) = View2(a, l)
  BY <1>1, ForcePushWell, ForcePushView
<1>3. Well2(t) /\ SameButResults(b, t)
  BY <1>1, OpenedWell
<1> HIDE DEF b, t
<1>4. \A l : View2(t, l) = View2(b, l)
  BY <1>3, ResultsView
<1>5. n \in 0 .. n /\ \A l \in 0 .. n - 1 : l \in 0 .. n
  BY LenProperties DEF Well2, Solver2
<1>6. /\ t.lazy = 0 /\ t.marks = s.marks /\ t.inconsistent = s.inconsistent
  BY <1>1, <1>2, <1>3 DEF SameButResults
<1>7. Kept2(s, t, n)
  BY <1>1, <1>2, <1>4, <1>5 DEF Kept2
<1>8. Named2At(s, e, t, n)
  BY <1>1, <1>2, <1>4, <1>5 DEF Named2At
<1> QED  BY <1>1, <1>3, <1>6, <1>7, <1>8 DEF t, a

LEMMA AssertAgree ==
    ASSUME CheckFirst, Well1(solver1), Well2(solver2), Agree(solver1, solver2),
           NEW e \in Entry, AssertExpr(e)
    PROVE  Agree(solver1', solver2')
<1>1. PICK n \in Nat : n = Len(solver1.marks) /\ n = Len(solver2.marks)
                       /\ n = Len(solver1.limits)
  BY LenProperties DEF Well1, Solver1, Agree
<1>2. PICK s1 : s1 = solver1'
  OBVIOUS
<1>3. s1 = [Named(solver1, e) EXCEPT !.entries = Append(@, e), !.result = Nothing]
  BY <1>2 DEF AssertExpr, Assert1
<1>4. /\ Well1(s1) /\ s1.entries = Append(solver1.entries, e)
      /\ s1.limits = solver1.limits
  BY <1>3, Assert1Well
<1>5. Len(s1.marks) = n
  BY <1>1, <1>4 DEF Well1
<1>6. Kept1(solver1, s1, n) /\ Asserted1At(solver1, e, s1, n)
  BY <1>1, <1>4, Assert1View
<1>7. Range(solver2.assumptions) = View1(solver1, n).names
  BY <1>1, NamesInUse
<1>8. Same(View1(solver1, n), View2(solver2, n))
  <2>1. n \in 0 .. n
    OBVIOUS
  <2> QED  BY <1>1, <2>1 DEF Agree
<1>9. CASE e.name \in Range(solver2.assumptions)
  <2>1. solver2' = solver2
    BY <1>9 DEF AssertExpr
  <2>2. /\ View1(s1, n).names = View1(solver1, n).names
        /\ View1(s1, n).listed = View1(solver1, n).listed
    BY <1>6, <1>7, <1>9 DEF Asserted1At
  <2>3. Same(View1(s1, n), View2(solver2, n))
    BY <1>8, <2>2 DEF Same
  <2>4. Kept2(solver2, solver2, n)
    BY DEF Kept2
  <2>5. Agree(s1, solver2)
    BY <1>1, <1>5, <1>6, <2>3, <2>4, SameByLevel
  <2> QED  BY <1>2, <2>1, <2>5
<1>10. CASE e.name \notin Range(solver2.assumptions)
  <2> DEFINE t == Opened2(Named(solver2, e))
             longer == [t EXCEPT !.entries = Append(@, e)]
  <2>1. /\ Well2(t) /\ t.lazy = 0 /\ t.marks = solver2.marks
        /\ Kept2(solver2, t, n) /\ Named2At(solver2, e, t, n)
    BY <1>1, OpenedView
  <2>2. View2(solver2, n).refuted = solver2.inconsistent
    BY <1>1, Top2
  <2>3. IF solver2.inconsistent THEN solver2' = t
        ELSE solver2' \in Reduced(longer)
    <3>1. ~m_cancel
      BY DEF AssertExpr, MayCall
    <3> QED  BY <1>10, <3>1 DEF AssertExpr, Assert2, Opened2
  <2> HIDE DEF t
  <2>4. View1(s1, n).listed = View1(solver1, n).listed \cup {e}
    BY <1>6, <1>7, <1>10 DEF Asserted1At
  <2>5. CASE solver2.inconsistent
    <3>1. Satisfying(Bodies(View1(s1, n).listed)) = {}
      <4>1. Bodies(View1(solver1, n).listed) \subseteq Bodies(View1(s1, n).listed)
        BY <2>4 DEF Bodies
      <4>2. Satisfying(Bodies(View1(solver1, n).listed)) = {}
        BY <1>8, <2>2, <2>5 DEF Same
      <4> QED  BY <4>1, <4>2, SatisfyingShrinks
    <3>2. Same(View1(s1, n), View2(t, n))
      BY <1>6, <1>8, <2>1, <2>2, <2>5, <3>1
         DEF Same, Asserted1At, Named2At
    <3>3. Agree(s1, t)
      BY <1>1, <1>5, <1>6, <2>1, <3>2, SameByLevel
    <3> QED  BY <1>2, <2>3, <2>5, <3>3
  <2>6. CASE ~solver2.inconsistent
    <3>1. /\ Well2(longer) /\ longer.marks = t.marks
      BY <2>1, AppendWell
    <3>2. Kept2(t, longer, n) /\ Asserted2At(t, e, longer, n)
      BY <1>1, <2>1, Append2View
    <3> HIDE DEF longer
    <3>3. Same(View1(s1, n), View2(longer, n))
      BY <1>6, <1>8, <2>1, <2>2, <2>4, <2>6, <3>2
         DEF Same, Asserted1At, Named2At, Asserted2At
    <3>4. Kept2(solver2, longer, n)
      BY <2>1, <3>2 DEF Kept2
    <3>5. Len(longer.marks) = n
      BY <1>1, <2>1, <3>1
    <3>6. Agree(s1, longer)
      BY <1>1, <1>5, <1>6, <3>3, <3>4, <3>5, SameByLevel
    <3>7. \A r \in Reduced(longer) : Agree(s1, r)
      BY <3>1, <3>6, ReducedAgree
    <3> QED  BY <1>2, <2>3, <2>6, <3>7
  <2> QED  BY <2>5, <2>6
<1> QED  BY <1>9, <1>10

LEMMA PushAgree ==
    ASSUME CheckFirst, Well1(solver1), Well2(solver2), Agree(solver1, solver2),
           Push
    PROVE  Agree(solver1', solver2')
<1>1. PICK n \in Nat : n = Len(solver1.marks) /\ n = Len(solver2.marks)
                       /\ n = Len(solver1.limits)
  BY LenProperties DEF Well1, Solver1, Agree
<1>2. PICK s1 : s1 = solver1'
  OBVIOUS
<1>3. s1 = [Marked(solver1) EXCEPT
                !.limits = Append(solver1.limits, Len(solver1.entries)),
                !.result = Nothing]
  <2>1. Marked(solver1).limits = solver1.limits
    BY DEF Marked, Well1, Solver1
  <2> QED  BY <1>2, <2>1 DEF Push, Push1
<1>4. /\ Well1(s1) /\ s1.entries = solver1.entries
      /\ s1.limits = Append(solver1.limits, Len(solver1.entries))
  BY <1>3, Push1Well
<1>5. /\ \A l \in 0 .. n : View1(s1, l) = View1(solver1, l)
      /\ View1(s1, n + 1) = View1(solver1, n)
  <2>1. n = Len(solver1.limits) /\ Well1(solver1)
    BY <1>1
  <2>2. \A l \in 0 .. n : View1(s1, l) = View1(solver1, l)
    BY ONLY <1>4, <2>1, Push1View
  <2>3. View1(s1, n + 1) = View1(solver1, n)
    BY ONLY <1>4, <2>1, Push1View
  <2> QED  BY <2>2, <2>3
<1>6. Len(s1.marks) = n + 1
  <2>1. solver1.limits \in Seq(Nat) /\ Len(solver1.entries) \in Nat
    BY LenProperties DEF Well1, Solver1
  <2>2. Len(s1.limits) = n + 1
    BY <1>1, <1>4, <2>1, AppendFacts
  <2> QED  BY <1>4, <2>2 DEF Well1
<1> DEFINE s == [solver2 EXCEPT !.search = Nothing]
<1>7. PICK r \in Reduced(s) : solver2' = [Marked(r) EXCEPT !.lazy = @ + 1]
  BY DEF Push, MayCall, Push2
<1>8. Well2(s) /\ Agree(solver1, s) /\ s.marks = solver2.marks
  <2>1. Well2(s) /\ SameButResults(solver2, s)
    BY SearchWell
  <2> QED  BY <2>1, ResultsAgree DEF SameButResults
<1> HIDE DEF s
<1>9. Well2(r) /\ Agree(solver1, r) /\ Len(r.marks) = n
  BY <1>1, <1>8, ReducedWell, ReducedView, ReducedAgree
<1> DEFINE t == [Marked(r) EXCEPT !.lazy = @ + 1]
<1>10. Len(t.marks) = n + 1
  <2>1. r.marks \in Seq(Nat) /\ Len(r.assumptions) \in Nat
    BY <1>9, LenProperties DEF Well2, Solver2
  <2>2. t.marks = Append(r.marks, Len(r.assumptions))
    BY <1>9, Push2Well
  <2> HIDE DEF t
  <2> QED  BY <1>9, <2>1, <2>2, AppendFacts
<1>11. /\ \A l \in 0 .. n : View2(t, l) = View2(r, l)
       /\ View2(t, n + 1) = View2(r, n)
  BY <1>9, Push2View
<1> HIDE DEF t
<1>12. ASSUME NEW l \in 0 .. n + 1
       PROVE  Same(View1(s1, l), View2(t, l))
  <2>1. \A k \in 0 .. n : Same(View1(solver1, k), View2(r, k))
    BY <1>1, <1>9 DEF Agree
  <2>2. CASE l = n + 1
    <3>1. n \in 0 .. n
      OBVIOUS
    <3> QED  BY <1>5, <1>11, <2>1, <2>2, <3>1
  <2>3. CASE l # n + 1
    <3>1. l \in 0 .. n
      BY <2>3
    <3> QED  BY <1>5, <1>11, <2>1, <3>1
  <2> QED  BY <2>2, <2>3
<1>13. Agree(s1, t)
  BY <1>6, <1>10, <1>12 DEF Agree
<1> QED  BY <1>2, <1>7, <1>13 DEF t

LEMMA PopAgree ==
    ASSUME Well1(solver1), Well2(solver2), Agree(solver1, solver2),
           NEW n \in Nat, Pop(n)
    PROVE  Agree(solver1', solver2')
<1>1. PICK k \in Nat : k = Len(solver1.marks) /\ k = Len(solver2.marks)
                       /\ k = Len(solver1.limits)
  BY LenProperties DEF Well1, Solver1, Agree
<1>2. n \in 1 .. k
  BY <1>1 DEF Pop
<1>3. PICK level \in Nat : level = k - n /\ level + 1 \in 1 .. k
  BY <1>2
<1>4. PICK s1 : s1 = solver1'
  OBVIOUS
<1>5. s1 = [Unmarked(solver1, n) EXCEPT
             !.entries = SubSeq(@, 1, solver1.limits[Len(solver1.limits) - n + 1]),
             !.limits = SubSeq(@, 1, Len(solver1.limits) - n),
             !.result = Nothing]
  BY <1>4 DEF Pop, Pop1
<1>6. /\ Well1(s1)
      /\ s1.entries = SubSeq(solver1.entries, 1, solver1.limits[level + 1])
      /\ s1.limits = SubSeq(solver1.limits, 1, level)
  <2>1. n \in 1 .. Len(solver1.marks)
    BY <1>1, <1>2
  <2>2. /\ Well1(s1)
        /\ s1.entries = SubSeq(solver1.entries, 1,
                               solver1.limits[Len(solver1.limits) - n + 1])
        /\ s1.limits = SubSeq(solver1.limits, 1, Len(solver1.limits) - n)
    BY <1>5, <2>1, Pop1Well
  <2> QED  BY <1>1, <1>3, <2>2
<1>7. \A l \in 0 .. level : View1(s1, l) = View1(solver1, l)
  <2>1. PICK h : h = level + 1
    OBVIOUS
  <2>2. h \in 1 .. Len(solver1.limits) /\ h - 1 = level
    BY <1>1, <1>3, <2>1
  <2>3. \A l \in 0 .. h - 1 : View1(s1, l) = View1(solver1, l)
    BY <1>6, <2>1, <2>2, Pop1View
  <2> QED  BY <2>2, <2>3
<1>8. Len(s1.marks) = level
  <2>1. solver1.limits \in Seq(Nat) /\ level \in 0 .. Len(solver1.limits)
    BY <1>1, <1>3 DEF Well1, Solver1
  <2>2. Len(s1.limits) = level
    BY <1>6, <2>1, PrefixIsSeq
  <2> QED  BY <1>6, <2>2 DEF Well1
<1> DEFINE t == PopFormulas(Unmarked(solver2, n), n)
           u == [t EXCEPT !.search = Nothing]
<1>9. solver2' = u
  <2>1. n <= Len(solver2.marks) /\ n # 0
    BY <1>1, <1>2
  <2> QED  BY <2>1 DEF Pop, Pop2
<1>10. /\ Well2(t) /\ Len(t.marks) = level
       /\ \A l \in 0 .. level : View2(t, l) = View2(solver2, l)
  <2>1. n \in 1 .. Len(solver2.marks) /\ level = Len(solver2.marks) - n
    BY <1>1, <1>2, <1>3
  <2> QED  BY <2>1, Pop2View
<1> HIDE DEF t
<1>11. SameButResults(t, u)
  BY <1>10, SearchWell
<1>12. Agree(s1, t)
  <2>1. \A l \in 0 .. level : l \in 0 .. k
    BY <1>3
  <2>2. \A l \in 0 .. level : Same(View1(solver1, l), View2(solver2, l))
    BY <1>1, <2>1 DEF Agree
  <2> QED  BY <1>7, <1>8, <1>10, <2>2 DEF Agree
<1>13. Agree(s1, u)
  BY <1>11, <1>12, ResultsAgree
<1> QED  BY <1>4, <1>9, <1>13

LEMMA FreshAgree == Agree(Fresh1, Fresh2)
<1>1. /\ Fresh1.marks = <<>> /\ Fresh2.marks = <<>> /\ Fresh1.entries = <<>>
      /\ Fresh2.entries = <<>> /\ Fresh2.assumptions = <<>>
      /\ Fresh2.inconsistent = FALSE /\ Len(<<>>) = 0
  BY EmptySeq DEF Fresh1, Fresh2
<1>2. /\ View1(Fresh1, 0).listed = {} /\ View1(Fresh1, 0).names = {}
      /\ View2(Fresh2, 0).entries = {} /\ View2(Fresh2, 0).names = {}
      /\ View2(Fresh2, 0).refuted = FALSE
  <2>1. \A s : FirstOf(s, 0) = {} /\ ListedIn(s, 1, 0) = {}
    BY DEF FirstOf, ListedIn
  <2>2. Names({}) = {}
    BY DEF Names
  <2>3. Range(<<>>) = {}
    BY DEF Range
  <2> QED  BY <1>1, <2>1, <2>2, <2>3, Top1, Top2, Fresh1Well, Fresh2Well
<1>3. Same(View1(Fresh1, 0), View2(Fresh2, 0))
  BY <1>2 DEF Same
<1>4. \A l \in 0 .. 0 : l = 0
  OBVIOUS
<1> QED  BY <1>1, <1>3, <1>4 DEF Agree

\* A check adds to what solver2 knows, not to what it holds.
LEMMA Check2Agree ==
    ASSUME Well2(solver2), NEW s, Agree(s, solver2),
           NEW v \in Verdict, NEW assumed, Check2(v, assumed)
    PROVE  Agree(s, solver2')
<1>1. PICK r \in Reduced(solver2) :
          \E l \in Leaf \cup {Nothing}, m \in Leaf \cup {Nothing} :
              solver2' = [r EXCEPT !.search = l, !.m_model = m]
  <2>1. Meaning2(assumed) \subseteq Leaf
    BY DEF Meaning2, Satisfying
  <2>2. solver2.m_model \in Leaf \cup {Nothing}
    BY DEF Well2, Solver2
  <2> QED  BY <2>1, <2>2 DEF Check2
<1>2. Well2(r) /\ Agree(s, r)
  BY ReducedWell, ReducedAgree
<1>3. PICK l \in Leaf \cup {Nothing}, m \in Leaf \cup {Nothing} :
          solver2' = [r EXCEPT !.search = l, !.m_model = m]
  BY <1>1
<1>4. SameButResults(r, [r EXCEPT !.search = l, !.m_model = m])
  BY <1>2, ResultsWell
<1>5. Agree(s, [r EXCEPT !.search = l, !.m_model = m])
  BY <1>2, <1>4, ResultsAgree
<1> QED  BY <1>3, <1>5

-----------------------------------------------------------------------------
(* What agreement means for the answers of solver2.                        *)

\* What solver1 lists up to a level has the names in use there.
LEMMA ListedNames ==
    ASSUME NEW s, Well1(s), NEW l, NEW e \in View1(s, l).listed
    PROVE  e.name \in View1(s, l).names \cup {NoName}
<1>1. PICK k \in 1 .. EndAt(s, l) : e = s.entries[k]
  BY DEF View1, ListedIn
<1>2. e \in FirstOf(s.entries, EndAt(s, l))
  BY <1>1 DEF FirstOf
<1> QED  BY <1>2 DEF View1, Names

\* Every answer of solver2 is one for what solver1 lists up to a level.
AnswersFor(s, l, t, assumed) ==
    Satisfying(Bodies(View1(s, l).listed) \cup assumed) =
        IF t.inconsistent THEN {}
        ELSE Satisfying(Bodies(Holds(t.entries, t.assumptions)) \cup assumed)

LEMMA HeldIsListed ==
    ASSUME NEW s, Well1(s), NEW t, Well2(t), NEW l,
           Same(View1(s, l), View2(t, Len(t.marks))), NEW assumed
    PROVE  AnswersFor(s, l, t, assumed)
<1> DEFINE v == View1(s, l)
<1>1. /\ Range(t.assumptions) = v.names
      /\ ~t.inconsistent => Range(t.entries) = v.listed
      /\ t.inconsistent => Satisfying(Bodies(v.listed)) = {}
  BY Top2 DEF Same
<1>2. \A e \in v.listed : e.name \in v.names \cup {NoName}
  BY ListedNames
<1> HIDE DEF v
<1>3. CASE t.inconsistent
  <2>1. Satisfying(Bodies(v.listed) \cup assumed) = {}
    BY <1>1, <1>3, SatisfyingShrinks
  <2> QED  BY <1>3, <2>1 DEF v, AnswersFor
<1>4. CASE ~t.inconsistent
  <2>1. Holds(t.entries, t.assumptions) = v.listed
    BY <1>1, <1>2, <1>4 DEF Holds
  <2> QED  BY <1>4, <2>1 DEF v, AnswersFor
<1> QED  BY <1>3, <1>4

\* What solver2 will hold at a level is what solver1 lists there.
LEMMA HeldAtLevel ==
    ASSUME Well1(solver1), Well2(solver2), Agree(solver1, solver2),
           NEW level \in 0 .. Len(solver2.marks)
    PROVE  HeldAt(level) = Satisfying(Bodies(Listed(1, ScopeEnd(level + 1))))
<1>1. PICK k \in Nat : k = Len(solver1.marks) /\ k = Len(solver2.marks)
                       /\ k = Len(solver1.limits)
  BY LenProperties DEF Well1, Solver1, Agree
<1>2. level \in 0 .. k
  BY <1>1
<1> DEFINE n == k - level
           s == IF n = 0 THEN solver2 ELSE PopFormulas(Unmarked(solver2, n), n)
<1>3. HeldAt(level) =
          IF s.inconsistent THEN {}
          ELSE Satisfying(Bodies(Holds(s.entries, s.assumptions)))
  BY <1>1 DEF HeldAt
<1>4. /\ Well2(s) /\ Len(s.marks) = level
      /\ View2(s, level) = View2(solver2, level)
  <2>1. CASE n = 0
    <3>1. level = k
      BY <1>2, <2>1
    <3> QED  BY <1>1, <2>1, <3>1
  <2>2. CASE n # 0
    <3>1. n \in 1 .. k /\ level = k - n /\ level \in 0 .. level
      BY <1>2, <2>2
    <3>2. PICK m : m = n
      OBVIOUS
    <3>3. m \in 1 .. Len(solver2.marks) /\ level = Len(solver2.marks) - m
      BY <1>1, <3>1, <3>2
    <3>4. /\ Well2(PopFormulas(Unmarked(solver2, m), m))
          /\ Len(PopFormulas(Unmarked(solver2, m), m).marks) = level
          /\ \A l \in 0 .. level :
                View2(PopFormulas(Unmarked(solver2, m), m), l) =
                    View2(solver2, l)
      BY <3>3, Pop2View
    <3>5. s = PopFormulas(Unmarked(solver2, m), m)
      BY <2>2, <3>2
    <3> HIDE DEF s, n
    <3> QED  BY <3>1, <3>4, <3>5
  <2> QED  BY <2>1, <2>2
<1> HIDE DEF s, n
<1>5. Same(View1(solver1, level), View2(s, Len(s.marks)))
  BY <1>1, <1>2, <1>4 DEF Agree
<1>6. Satisfying(Bodies(View1(solver1, level).listed) \cup {}) =
          IF s.inconsistent THEN {}
          ELSE Satisfying(Bodies(Holds(s.entries, s.assumptions)) \cup {})
  <2>1. AnswersFor(solver1, level, s, {})
    BY <1>4, <1>5, HeldIsListed
  <2> QED  BY <2>1 DEF AnswersFor
<1>7. \A fs : fs \cup {} = fs
  OBVIOUS
<1>8. View1(solver1, level).listed = Listed(1, ScopeEnd(level + 1))
  <2>1. ScopeEnd(level + 1) = EndAt(solver1, level)
    <3>1. CASE level = k
      <4>1. level + 1 = k + 1 /\ ~(level < k)
        BY <1>1, <3>1
      <4> QED  BY <1>1, <4>1 DEF ScopeEnd, EndAt
    <3>2. CASE level # k
      <4>1. level + 1 # k + 1 /\ level < k
        BY <1>2, <3>2
      <4> QED  BY <1>1, <4>1 DEF ScopeEnd, EndAt
    <3> QED  BY <3>1, <3>2
  <2> QED  BY <2>1 DEF View1, ListedIn, Listed
<1> QED  BY <1>3, <1>6, <1>7, <1>8

LEMMA AgreeMeans ==
    ASSUME Well1(solver1), Well2(solver2), Agree(solver1, solver2)
    PROVE  SolversAgree
<1>1. Len(solver1.marks) = Len(solver1.limits)
  BY DEF Well1
<1>2. Len(solver1.marks) = Len(solver2.marks)
  BY DEF Agree
<1> QED  BY <1>1, <1>2, HeldAtLevel DEF SolversAgree

\* What both solvers answer for: the assertions solver1 lists.
LEMMA Meaning2Listed ==
    ASSUME Well1(solver1), Well2(solver2), Agree(solver1, solver2),
           NEW assumed
    PROVE  Meaning2(assumed) = Satisfying(Asserted1 \cup assumed)
<1>1. PICK k \in Nat : k = Len(solver1.marks) /\ k = Len(solver2.marks)
  BY LenProperties DEF Well1, Solver1, Agree
<1>2. Same(View1(solver1, k), View2(solver2, Len(solver2.marks)))
  <2>1. k \in 0 .. k
    OBVIOUS
  <2> QED  BY <1>1, <2>1 DEF Agree
<1>3. Satisfying(Bodies(View1(solver1, k).listed) \cup assumed) =
          Meaning2(assumed)
  <2>1. AnswersFor(solver1, k, solver2, assumed)
    BY <1>2, HeldIsListed
  <2> QED  BY <2>1 DEF AnswersFor, Meaning2
<1>4. View1(solver1, k).listed =
          ListedIn(solver1.entries, 1, Len(solver1.entries))
  BY <1>1, Top1
<1> QED  BY <1>3, <1>4 DEF Asserted1

\* Without names every assertion counts.
LEMMA Meaning1Listed ==
    ASSUME Well1(solver1), Well2(solver2), Agree(solver1, solver2),
           ~NeedsSolver2({})
    PROVE  Meaning1 = Satisfying(Asserted1 \cup {})
<1>1. /\ solver1.assumptions \in Seq(Name) /\ solver2.assumptions \in Seq(Name)
      /\ solver1.entries \in Seq(Entry)
  BY DEF Well1, Well2, Solver1, Solver2
<1>2. solver1.assumptions = <<>> /\ solver2.assumptions = <<>>
  <2>1. solver1.assumptions \o solver2.assumptions = <<>>
    BY DEF NeedsSolver2
  <2> QED  BY <1>1, <2>1, ConcatProperties, EmptySeq
<1>3. PICK n \in Nat : n = Len(solver1.entries)
  BY <1>1, LenProperties
<1>4. Names(FirstOf(solver1.entries, n)) = {}
  <2>1. Range(solver2.assumptions) = View1(solver1, Len(solver1.marks)).names
    BY NamesInUse
  <2>2. Range(<<>>) = {}
    BY DEF Range
  <2> QED  BY <1>2, <1>3, <2>1, <2>2, Top1
<1>5. \A i \in 1 .. n : solver1.entries[i].name = NoName
  BY <1>4 DEF Names, FirstOf
<1>6. ListedIn(solver1.entries, 1, n) = Range(solver1.entries)
  <2>1. DOMAIN solver1.entries = 1 .. n
    BY <1>1, <1>3, LenProperties
  <2> QED  BY <1>5, <2>1 DEF ListedIn, Range
<1>7. Holds(solver1.entries, <<>>) = Range(solver1.entries)
  <2>1. DOMAIN solver1.entries = 1 .. n
    BY <1>1, <1>3, LenProperties
  <2> QED  BY <1>5, <2>1 DEF Holds, Range
<1>8. \A fs : fs \cup {} = fs
  OBVIOUS
<1> QED  BY <1>2, <1>3, <1>6, <1>7, <1>8 DEF Meaning1, Asserted1

-----------------------------------------------------------------------------
(* Statuses and models.                                                    *)

LEMMA Check2Right ==
    ASSUME WellInv, Agree(solver1, solver2), NEW v \in Verdict,
           NEW assumed, Check2(v, assumed)
    PROVE  /\ Right(v, Satisfying(Asserted1 \cup assumed))
           /\ v = "sat" =>
                 /\ solver2'.search \in Satisfying(Asserted1 \cup assumed)
                 /\ solver2'.m_model = Nothing
<1>1. Meaning2(assumed) = Satisfying(Asserted1 \cup assumed)
  BY Meaning2Listed DEF WellInv
<1>2. Right(v, Meaning2(assumed))
  BY DEF Check2
<1>3. ASSUME v = "sat"
      PROVE  solver2'.search \in Meaning2(assumed) /\ solver2'.m_model = Nothing
  <2>1. PICK s \in Reduced(solver2), l \in Meaning2(assumed) :
            solver2' = [s EXCEPT !.search = l, !.m_model = Nothing]
    BY <1>3 DEF Check2
  <2>2. Well2(s) /\ l \in Leaf \cup {Nothing} /\ Nothing \in Leaf \cup {Nothing}
    BY ReducedWell DEF WellInv, Meaning2, Satisfying
  <2>3. /\ [s EXCEPT !.search = l, !.m_model = Nothing].search = l
        /\ [s EXCEPT !.search = l, !.m_model = Nothing].m_model = Nothing
    BY <2>2 DEF Well2, Solver2
  <2> QED  BY <2>1, <2>3
<1> QED  BY <1>1, <1>2, <1>3

LEMMA BySolver2Answer ==
    ASSUME WellInv, Agree(solver1, solver2), NEW v \in Verdict,
           NEW assumed \in AssumptionSets, CheckBySolver2(v, assumed)
    PROVE  /\ AnswerInv' /\ Right(v, Satisfying(Asserted1 \cup assumed))
           /\ checked' = [verdict |-> v, assumed |-> assumed]
           /\ model' = Nothing
<1>1. /\ Right(v, Satisfying(Asserted1 \cup assumed))
      /\ v = "sat" =>
            /\ solver2'.search \in Satisfying(Asserted1 \cup assumed)
            /\ solver2'.m_model = Nothing
  BY Check2Right DEF CheckBySolver2
<1>2. /\ checked' = [verdict |-> v, assumed |-> assumed] /\ model' = Nothing
      /\ m_use_solver1_results' = FALSE /\ solver1' = solver1
  BY DEF CheckBySolver2, Answered
<1>3. Answers' = Satisfying(Asserted1 \cup assumed)
  BY <1>2 DEF Answers, Asserted1
<1>4. checked'.verdict = v
  BY <1>2
<1> QED  BY <1>1, <1>2, <1>3, <1>4 DEF AnswerInv

LEMMA BySolver1Answer ==
    ASSUME WellInv, Agree(solver1, solver2), NEW v \in Verdict,
           ~NeedsSolver2({}), Check1(v), Answered(v, {}),
           m_use_solver1_results' = TRUE
    PROVE  /\ AnswerInv' /\ Right(v, Satisfying(Asserted1 \cup {}))
           /\ checked' = [verdict |-> v, assumed |-> {}]
           /\ model' = Nothing
<1>1. Meaning1 = Satisfying(Asserted1 \cup {})
  BY Meaning1Listed DEF WellInv
<1>2. Right(v, Meaning1)
  BY DEF Check1
<1>3. /\ solver1'.entries = solver1.entries
      /\ v = "sat" => solver1'.result \in Meaning1
  BY Check1Keeps DEF WellInv
<1>4. checked' = [verdict |-> v, assumed |-> {}] /\ model' = Nothing
  BY DEF Answered
<1>5. Answers' = Satisfying(Asserted1 \cup {})
  BY <1>3, <1>4 DEF Answers, Asserted1
<1>6. checked'.verdict = v
  BY <1>4
<1> QED  BY <1>1, <1>2, <1>3, <1>4, <1>5, <1>6 DEF AnswerInv

\* The model the caller gets, and the one that is kept for the next call.
LEMMA GetModelAnswer ==
    ASSUME CheckFirst, WellInv, Agree(solver1, solver2), AnswerInv, GetModel
    PROVE  /\ Agree(solver1', solver2') /\ AnswerInv'
           /\ model' \in Leaf \cup {Nothing}
           /\ (checked # Nothing /\ checked.verdict = "sat") =>
                  model' \in Answers
<1>1. /\ solver1' = solver1 /\ checked' = checked
      /\ m_use_solver1_results' = m_use_solver1_results
  BY DEF GetModel, flags
<1>2. ~m_cancel
  BY DEF GetModel, MayCall
<1>3. Answers' = Answers
  BY <1>1 DEF Answers, Asserted1
<1>4. Well2(solver2) /\ solver1 \in Solver1 /\ solver2 \in Solver2
  BY DEF WellInv, Well1, Well2
<1>5. CASE m_use_solver1_results
  <2>1. model' = solver1.result /\ solver2' = solver2
    BY <1>5 DEF GetModel
  <2> QED  BY <1>1, <1>3, <1>4, <1>5, <2>1 DEF AnswerInv, Solver1
<1>6. CASE ~m_use_solver1_results
  <2>1. PICK l \in Leaf \cup {Nothing} : GetModel2(l) /\ model' = l
    BY <1>6 DEF GetModel
  <2>2. \/ solver2' = solver2
        \/ solver2' = [solver2 EXCEPT !.m_model = l]
    BY <2>1 DEF GetModel2
  <2>3. Agree(solver1, solver2')
    <3>1. SameButResults(solver2, [solver2 EXCEPT !.m_model = l])
      BY <1>4, ModelWell
    <3>2. Agree(solver1, [solver2 EXCEPT !.m_model = l])
      BY <3>1, ResultsAgree
    <3> QED  BY <2>2, <3>2
  <2>4. ASSUME checked # Nothing, checked.verdict = "sat"
        PROVE  /\ l \in Answers /\ solver2'.search \in Answers
               /\ solver2'.m_model \in Answers \cup {Nothing}
    <3>1. /\ solver2.search \in Answers
          /\ solver2.m_model \in Answers \cup {Nothing}
      BY <1>6, <2>4 DEF AnswerInv
    <3>2. Answers \subseteq Leaf /\ Answers \subseteq Meaning2({})
      <4>1. Meaning2({}) = Satisfying(Asserted1 \cup {})
        BY Meaning2Listed DEF WellInv
      <4> QED  BY <4>1 DEF Answers, Satisfying
    <3>3. solver2.search # Nothing /\ Meaning2({}) # {}
      BY <3>1, <3>2, NothingAssumption
    <3>4. CASE solver2.m_model # Nothing
      <4>1. l = solver2.m_model /\ solver2' = solver2
        BY <1>2, <2>1, <3>3, <3>4 DEF GetModel2
      <4> QED  BY <3>1, <3>4, <4>1
    <3>5. CASE solver2.m_model = Nothing
      <4>1. l = solver2.search /\ solver2' = [solver2 EXCEPT !.m_model = l]
        BY <1>2, <2>1, <3>3, <3>5 DEF GetModel2
      <4>2. /\ [solver2 EXCEPT !.m_model = l].search = solver2.search
            /\ [solver2 EXCEPT !.m_model = l].m_model = l
        BY <1>4, ModelWell
      <4> QED  BY <3>1, <4>1, <4>2
    <3> QED  BY <3>4, <3>5
  <2>5. AnswerInv'
    <3>1. checked # Nothing => Right(checked.verdict, Answers)
      BY DEF AnswerInv
    <3> QED  BY <1>1, <1>3, <1>6, <2>4, <3>1 DEF AnswerInv
  <2> QED  BY <1>1, <2>1, <2>3, <2>4, <2>5
<1> QED  BY <1>5, <1>6

-----------------------------------------------------------------------------
(* The inductive invariant, provided that the user lets a check come first *)
(* when an interrupt is pending.                                           *)

LEMMA InitInv == Init => IInv
<1> SUFFICES ASSUME Init PROVE IInv
  OBVIOUS
<1>1. WellInv
  BY WellInit
<1>2. Agree(solver1, solver2)
  BY FreshAgree DEF Init
<1>3. AnswerInv
  BY DEF Init, AnswerInv
<1> QED  BY <1>1, <1>2, <1>3 DEF IInv

\* A call that forgets the status leaves nothing to be right about.
LEMMA ForgottenAnswer ==
    ASSUME Forget
    PROVE  AnswerInv'
  BY DEF Forget, AnswerInv

LEMMA ChecksAgree ==
    ASSUME IInv, NEW v \in Verdict,
           \/ CheckBySolver1(v) \/ CheckByBoth(v)
           \/ \E assumed \in AssumptionSets : CheckBySolver2(v, assumed)
    PROVE  Agree(solver1', solver2') /\ AnswerInv'
<1>1. WellInv /\ Agree(solver1, solver2) /\ Well2(solver2) /\ Well1(solver1)
  BY DEF IInv, WellInv
<1>2. ASSUME Check1(v), NEW s, Agree(solver1, s)
      PROVE  Agree(solver1', s)
  <2>1. /\ solver1'.entries = solver1.entries
        /\ solver1'.limits = solver1.limits
        /\ solver1'.marks = solver1.marks
    BY <1>1, <1>2, Check1Keeps
  <2>2. \A l : View1(solver1', l) = View1(solver1, l)
    BY <2>1 DEF View1, EndAt
  <2>3. PICK t : t = solver1'
    OBVIOUS
  <2>4. Agree(t, s)
    BY <1>2, <2>1, <2>2, <2>3 DEF Agree
  <2> QED  BY <2>3, <2>4
<1>3. CASE CheckBySolver1(v)
  <2>1. Check1(v) /\ solver2' = solver2 /\ ~NeedsSolver2({})
        /\ Answered(v, {}) /\ m_use_solver1_results' = TRUE
    BY <1>3 DEF CheckBySolver1
  <2> QED  BY <1>1, <1>2, <2>1, BySolver1Answer
<1>4. CASE CheckByBoth(v)
  <2>1. Check1(v) /\ ~NeedsSolver2({})
        /\ Answered(v, {}) /\ m_use_solver1_results' = TRUE
    BY <1>4 DEF CheckByBoth
  <2>2. PICK w \in Verdict : Check2(w, {})
    BY <1>4 DEF CheckByBoth
  <2>3. Agree(solver1, solver2')
    BY <1>1, <2>2, Check2Agree
  <2>4. PICK s : s = solver2'
    OBVIOUS
  <2>5. Agree(solver1', s)
    BY <1>2, <2>1, <2>3, <2>4
  <2> QED  BY <1>1, <2>1, <2>4, <2>5, BySolver1Answer
<1>5. ASSUME NEW assumed \in AssumptionSets, CheckBySolver2(v, assumed)
      PROVE  Agree(solver1', solver2') /\ AnswerInv'
  <2>1. Check2(v, assumed) /\ solver1' = solver1
    BY <1>5 DEF CheckBySolver2
  <2>2. Agree(solver1, solver2')
    BY <1>1, <2>1, Check2Agree
  <2> QED  BY <1>1, <1>5, <2>1, <2>2, BySolver2Answer
<1> QED  BY <1>3, <1>4, <1>5

LEMMA NextInv == CheckFirst /\ IInv /\ [Next]_vars => IInv'
<1> SUFFICES ASSUME CheckFirst, IInv, [Next]_vars PROVE IInv'
  OBVIOUS
<1>0. WellInv' /\ WellInv /\ Well1(solver1) /\ Well2(solver2)
      /\ Agree(solver1, solver2) /\ AnswerInv
  BY WellNext DEF IInv, WellInv
<1> SUFFICES Agree(solver1', solver2') /\ AnswerInv'
  BY <1>0 DEF IInv
<1>1. ASSUME NEW e \in Entry, AssertExpr(e)
      PROVE  Agree(solver1', solver2') /\ AnswerInv'
  BY <1>0, <1>1, AssertAgree, ForgottenAnswer DEF AssertExpr
<1>2. CASE Push
  BY <1>0, <1>2, PushAgree, ForgottenAnswer DEF Push
<1>3. CASE Reset
  BY <1>3, FreshAgree, ForgottenAnswer DEF Reset
<1>4. CASE GetModel
  BY <1>0, <1>4, GetModelAnswer
<1>5. CASE Interrupt
  BY <1>0, <1>5
     DEF Interrupt, flags, answers, AnswerInv, Answers, Asserted1
<1>6. ASSUME NEW n \in 1 .. MaxScopes, Pop(n)
      PROVE  Agree(solver1', solver2') /\ AnswerInv'
  BY <1>0, <1>6, PopAgree, ForgottenAnswer DEF Pop
<1>7. ASSUME NEW v \in Verdict,
             \/ CheckBySolver1(v) \/ CheckByBoth(v)
             \/ \E assumed \in AssumptionSets : CheckBySolver2(v, assumed)
      PROVE  Agree(solver1', solver2') /\ AnswerInv'
  BY <1>7, ChecksAgree
<1>8. CASE UNCHANGED vars
  BY <1>0, <1>8 DEF vars, flags, answers, AnswerInv, Answers, Asserted1
<1> QED  BY <1>1, <1>2, <1>3, <1>4, <1>5, <1>6, <1>7, <1>8 DEF Next

\* The invariant behind the theorems that follow: at every level the scopes of
\* combined_solver can return to, solver2 holds what solver1 lists under the
\* same names, and a status the caller still relies on is right.
THEOREM Invariance == CheckFirst /\ Spec => []IInv
<1>1. CheckFirst /\ Init /\ [][Next]_vars => []IInv
  <2>1. CASE CheckFirst
    BY <2>1, InitInv, NextInv, PTL
  <2>2. CASE ~CheckFirst
    BY <2>2, PTL
  <2> QED  BY <2>1, <2>2
<1> QED  BY <1>1 DEF Spec

\* Whatever is asserted, opened and closed, in whichever order and however
\* simplification goes, the two solvers hold the same at every level a pop
\* may return to (combined_solver.cpp:162, smt_solver.cpp, asserted_formulas.cpp).
THEOREM Agreement == CheckFirst /\ Spec => []SolversAgree
<1>1. IInv => SolversAgree
  BY AgreeMeans DEF IInv, WellInv
<1> QED  BY <1>1, Invariance, PTL

\* While that is so, a status that is still current is right for the
\* assertions the solver lists (Z3Solver.swift:119 and :214); the run without that
\* proviso finds a status that is not.
THEOREM AnswersFit == CheckFirst /\ Spec => []AnswerFitsAssertions
<1>1. IInv => AnswerFitsAssertions
  <2>1. Listed(1, Len(solver1.entries)) =
            ListedIn(solver1.entries, 1, Len(solver1.entries))
    BY DEF Listed, ListedIn
  <2> QED  BY <2>1 DEF IInv, AnswerInv, Answers, Asserted1, AnswerFitsAssertions
<1> QED  BY <1>1, Invariance, PTL

-----------------------------------------------------------------------------
(* The assertions by scope, as the user of the solver sees them.           *)

StartOf(s, i) == IF i = 1 THEN 1 ELSE s.limits[i - 1] + 1
EndOf(s, i) == IF i = Len(s.limits) + 1 THEN Len(s.entries) ELSE s.limits[i]
StackOf(s) == [i \in 1 .. Len(s.limits) + 1 |->
                  ListedIn(s.entries, StartOf(s, i), EndOf(s, i))]

LEMMA StackNow == Stack = StackOf(solver1)
<1>1. \A i : StartOf(solver1, i) = ScopeStart(i) /\ EndOf(solver1, i) = ScopeEnd(i)
  BY DEF StartOf, EndOf, ScopeStart, ScopeEnd
<1>2. \A i, j : ListedIn(solver1.entries, i, j) = Listed(i, j)
  BY DEF ListedIn, Listed
<1> QED  BY <1>1, <1>2 DEF Stack, StackOf

LEMMA StackThen == (Stack = StackOf(solver1))'
  BY StackNow, PTL

\* Where scopes start and end.
LEMMA ScopeBounds ==
    ASSUME NEW s, Well1(s), NEW i \in 1 .. Len(s.limits) + 1
    PROVE  /\ StartOf(s, i) \in 1 .. Len(s.entries) + 1
           /\ EndOf(s, i) \in 0 .. Len(s.entries)
<1>1. /\ s.limits \in Seq(0 .. Len(s.entries)) /\ Len(s.entries) \in Nat
      /\ Len(s.limits) \in Nat /\ DOMAIN s.limits = 1 .. Len(s.limits)
  BY LenProperties DEF Well1, Solver1, Marks
<1>2. \A j \in 1 .. Len(s.limits) : s.limits[j] \in 0 .. Len(s.entries)
  BY <1>1, ElementOfSeq
<1>3. StartOf(s, i) \in 1 .. Len(s.entries) + 1
  <2>1. CASE i = 1
    BY <1>1, <2>1 DEF StartOf
  <2>2. CASE i # 1
    <3>1. i - 1 \in 1 .. Len(s.limits)
      BY <1>1, <2>2
    <3>2. s.limits[i - 1] \in 0 .. Len(s.entries)
      BY <1>2, <3>1
    <3>3. StartOf(s, i) = s.limits[i - 1] + 1
      BY <2>2 DEF StartOf
    <3>4. PICK v \in 0 .. Len(s.entries) : v = s.limits[i - 1]
      BY <3>2
    <3>5. v + 1 \in 1 .. Len(s.entries) + 1
      BY ONLY <1>1, v \in 0 .. Len(s.entries)
    <3> QED  BY <3>3, <3>4, <3>5
  <2> QED  BY <2>1, <2>2
<1>4. EndOf(s, i) \in 0 .. Len(s.entries)
  <2>1. CASE i = Len(s.limits) + 1
    BY <1>1, <2>1 DEF EndOf
  <2>2. CASE i # Len(s.limits) + 1
    <3>1. i \in 1 .. Len(s.limits)
      BY <1>1, <2>2
    <3> QED  BY <1>2, <2>2, <3>1 DEF EndOf
  <2> QED  BY <2>1, <2>2
<1> QED  BY <1>3, <1>4

\* Every assertion is in a scope: the innermost that ends at or behind it.
LEMMA ScopesCover ==
    ASSUME NEW s, Well1(s), NEW m \in 1 .. Len(s.entries)
    PROVE  \E i \in 1 .. Len(s.limits) + 1 : m \in StartOf(s, i) .. EndOf(s, i)
<1>1. PICK n \in Nat : n = Len(s.limits)
  BY LenProperties DEF Well1, Solver1
<1>2. Len(s.entries) \in Nat
  BY LenProperties DEF Well1, Solver1
<1> DEFINE T == {i \in 1 .. n + 1 : m <= EndOf(s, i)}
<1>3. n + 1 \in T
  BY <1>1 DEF EndOf
<1>4. PICK i \in T : \A j \in T : i <= j
  <2>1. T \in SUBSET Nat /\ T # {}
    BY <1>3
  <2> HIDE DEF T
  <2> QED  BY <2>1, LeastNatural
<1>5. i \in 1 .. n + 1 /\ m <= EndOf(s, i)
  OBVIOUS
<1>6. EndOf(s, i) \in Nat /\ StartOf(s, i) \in Nat
  BY <1>1, <1>2, <1>5, ScopeBounds
<1>7. StartOf(s, i) <= m
  <2>1. CASE i = 1
    BY <2>1 DEF StartOf
  <2>2. CASE i # 1
    <3>1. i - 1 \in 1 .. n /\ i - 1 \in 1 .. n + 1 /\ i - 1 # n + 1 /\ ~(i <= i - 1)
      BY <1>5, <2>2
    <3>2. EndOf(s, i - 1) = s.limits[i - 1] /\ EndOf(s, i - 1) \in Nat
      BY <1>1, <1>2, <3>1, ScopeBounds DEF EndOf
    <3>3. ~(m <= EndOf(s, i - 1))
      BY <1>4, <3>1
    <3>4. StartOf(s, i) = s.limits[i - 1] + 1
      BY <2>2 DEF StartOf
    <3> QED  BY <3>2, <3>3, <3>4
  <2> QED  BY <2>1, <2>2
<1> QED  BY <1>1, <1>5, <1>6, <1>7

\* The scopes together hold what the solver lists.
LEMMA StackUnion ==
    ASSUME NEW s, Well1(s)
    PROVE  UNION {StackOf(s)[i] : i \in DOMAIN StackOf(s)} =
               ListedIn(s.entries, 1, Len(s.entries))
<1> DEFINE n == Len(s.limits) + 1
           First(m) == \A b \in 1 .. m - 1 :
               \/ s.entries[m].name = NoName
               \/ s.entries[b].name # s.entries[m].name
<1>1. \A i, j : ListedIn(s.entries, i, j) =
                    {s.entries[k] : k \in {m \in i .. j : First(m)}}
  BY DEF ListedIn
<1> HIDE DEF First
<1>2. Len(s.entries) \in Nat
  BY LenProperties DEF Well1, Solver1
<1>3. ASSUME NEW i \in 1 .. n
      PROVE  ListedIn(s.entries, StartOf(s, i), EndOf(s, i)) \subseteq
                 ListedIn(s.entries, 1, Len(s.entries))
  <2>1. StartOf(s, i) .. EndOf(s, i) \subseteq 1 .. Len(s.entries)
    BY <1>2, ScopeBounds
  <2> QED  BY <1>1, <2>1
<1>4. ASSUME NEW x \in ListedIn(s.entries, 1, Len(s.entries))
      PROVE  \E i \in 1 .. n :
                 x \in ListedIn(s.entries, StartOf(s, i), EndOf(s, i))
  <2>1. PICK m \in 1 .. Len(s.entries) : First(m) /\ x = s.entries[m]
    BY <1>1
  <2>2. PICK i \in 1 .. n : m \in StartOf(s, i) .. EndOf(s, i)
    BY ScopesCover
  <2>3. x \in ListedIn(s.entries, StartOf(s, i), EndOf(s, i))
    BY <1>1, <2>1, <2>2
  <2> QED  BY <2>3
<1>5. /\ DOMAIN StackOf(s) = 1 .. n
      /\ \A i \in 1 .. n : StackOf(s)[i] =
             ListedIn(s.entries, StartOf(s, i), EndOf(s, i))
  BY DEF StackOf
<1> HIDE DEF n
<1> QED  BY <1>3, <1>4, <1>5

\* The names in use are those of the assertions that are listed: the first
\* assertion with a name is.
LEMMA ListedHasNames ==
    ASSUME NEW es, NEW n \in Nat
    PROVE  Names(ListedIn(es, 1, n)) = Names(FirstOf(es, n))
<1>1. Names(ListedIn(es, 1, n)) \subseteq Names(FirstOf(es, n))
  BY DEF Names, ListedIn, FirstOf
<1>2. ASSUME NEW x \in Names(FirstOf(es, n))
      PROVE  x \in Names(ListedIn(es, 1, n))
  <2> DEFINE T == {i \in 1 .. n : es[i].name = x}
  <2>1. T # {} /\ x # NoName
    BY DEF Names, FirstOf
  <2>2. PICK i \in T : \A j \in T : i <= j
    <3>1. T \in SUBSET Nat
      OBVIOUS
    <3> HIDE DEF T
    <3> QED  BY <2>1, <3>1, LeastNatural
  <2>3. i \in 1 .. n /\ es[i].name = x
    OBVIOUS
  <2>4. \A b \in 1 .. i - 1 : es[b].name # es[i].name
    <3>1. \A b \in 1 .. i - 1 : b \in 1 .. n /\ ~(i <= b)
      BY <2>3
    <3> QED  BY <2>2, <2>3, <3>1
  <2>5. es[i] \in ListedIn(es, 1, n)
    BY <2>3, <2>4 DEF ListedIn
  <2> QED  BY <2>1, <2>3, <2>5 DEF Names
<1> QED  BY <1>1, <1>2

\* An assertion is added to the innermost scope, unless its name is in use.
LEMMA StackAssert ==
    ASSUME NEW s, Well1(s), NEW e \in Entry, NEW t,
           t.entries = Append(s.entries, e), t.limits = s.limits
    PROVE  StackOf(t) =
               IF e.name \in Names(FirstOf(s.entries, Len(s.entries)))
               THEN StackOf(s)
               ELSE [StackOf(s) EXCEPT ![Len(s.limits) + 1] = @ \cup {e}]
<1>1. s.entries \in Seq(Entry) /\ Len(s.entries) \in Nat
  BY LenProperties DEF Well1, Solver1
<1>2. PICK n \in Nat, k \in Nat : n = Len(s.limits) /\ k = Len(s.entries)
  BY LenProperties DEF Well1, Solver1
<1>3. Len(t.entries) = k + 1 /\ \A i \in 1 .. k : t.entries[i] = s.entries[i]
  BY <1>1, <1>2, AppendFacts
<1>4. ASSUME NEW i \in 1 .. n
      PROVE  StackOf(t)[i] = StackOf(s)[i]
  <2>1. i \in 1 .. n + 1 /\ i # n + 1
    BY <1>2
  <2>2. EndOf(t, i) = EndOf(s, i) /\ StartOf(t, i) = StartOf(s, i)
    BY <1>2, <2>1 DEF EndOf, StartOf
  <2>3. PICK a \in Nat \ {0}, b \in Nat :
            a = StartOf(s, i) /\ b = EndOf(s, i) /\ b <= k
    <3>1. i \in 1 .. Len(s.limits) + 1
      BY <1>2, <2>1
    <3>2. /\ StartOf(s, i) \in 1 .. Len(s.entries) + 1
          /\ EndOf(s, i) \in 0 .. Len(s.entries)
      BY <3>1, ScopeBounds
    <3> QED  BY <1>2, <3>2
  <2>4. \A j \in 1 .. b : t.entries[j] = s.entries[j]
    BY <1>3, <2>3
  <2>5. ListedIn(t.entries, a, b) = ListedIn(s.entries, a, b)
    BY ONLY <2>4, a \in Nat \ {0}, b \in Nat, ListedDepends
  <2> QED  BY <1>2, <2>1, <2>2, <2>3, <2>5 DEF StackOf
<1>5. StackOf(t)[n + 1] =
          IF e.name \in Names(FirstOf(s.entries, k)) THEN StackOf(s)[n + 1]
          ELSE StackOf(s)[n + 1] \cup {e}
  <2>1. PICK a : a = StartOf(s, n + 1)
    OBVIOUS
  <2>2. a \in 1 .. Len(s.entries) + 1
    <3>1. n + 1 \in 1 .. Len(s.limits) + 1
      BY <1>2
    <3> QED  BY <2>1, <3>1, ScopeBounds
  <2>3. /\ StartOf(t, n + 1) = a
        /\ EndOf(t, n + 1) = k + 1 /\ EndOf(s, n + 1) = k
    BY <1>2, <1>3, <2>1 DEF StartOf, EndOf
  <2>4. ListedIn(Append(s.entries, e), a, Len(s.entries) + 1) =
            IF e.name \in Names(FirstOf(s.entries, Len(s.entries)))
            THEN ListedIn(s.entries, a, Len(s.entries))
            ELSE ListedIn(s.entries, a, Len(s.entries)) \cup {e}
    BY <1>1, <2>2, ListedAppend
  <2>5. /\ StackOf(t)[n + 1] = ListedIn(t.entries, a, k + 1)
        /\ StackOf(s)[n + 1] = ListedIn(s.entries, a, k)
    BY <1>2, <2>1, <2>3 DEF StackOf
  <2> QED  BY <1>2, <2>4, <2>5
<1>6. /\ StackOf(s) = [i \in 1 .. n + 1 |-> StackOf(s)[i]]
      /\ StackOf(t) = [i \in 1 .. n + 1 |-> StackOf(t)[i]]
  BY <1>2 DEF StackOf
<1>7. \A i \in 1 .. n + 1 : i \in 1 .. n \/ i = n + 1
  OBVIOUS
<1>8. CASE e.name \in Names(FirstOf(s.entries, k))
  <2>1. \A i \in 1 .. n + 1 : StackOf(t)[i] = StackOf(s)[i]
    BY <1>4, <1>5, <1>7, <1>8
  <2> QED  BY <1>2, <1>6, <1>8, <2>1
<1>9. CASE e.name \notin Names(FirstOf(s.entries, k))
  <2> DEFINE u == [StackOf(s) EXCEPT ![n + 1] = @ \cup {e}]
  <2>1. u = [i \in 1 .. n + 1 |-> u[i]]
        /\ \A i \in 1 .. n + 1 : u[i] = IF i = n + 1 THEN StackOf(s)[i] \cup {e}
                                        ELSE StackOf(s)[i]
    BY <1>6
  <2> HIDE DEF u
  <2>2. \A i \in 1 .. n + 1 : StackOf(t)[i] = u[i]
    <3>1. \A i \in 1 .. n : i # n + 1
      OBVIOUS
    <3> QED  BY <1>4, <1>5, <1>7, <1>9, <2>1, <3>1
  <2>3. StackOf(t) = u
    BY <1>6, <2>1, <2>2
  <2> QED  BY <1>2, <1>9, <2>3 DEF u
<1> QED  BY <1>8, <1>9

LEMMA StackPush ==
    ASSUME NEW s, Well1(s), NEW t, t.entries = s.entries,
           t.limits = Append(s.limits, Len(s.entries))
    PROVE  StackOf(t) = Append(StackOf(s), {})
<1>1. s.limits \in Seq(Nat) /\ Len(s.entries) \in Nat
  BY LenProperties DEF Well1, Solver1
<1>2. PICK n \in Nat, k \in Nat : n = Len(s.limits) /\ k = Len(s.entries)
  BY <1>1, LenProperties
<1>3. /\ Len(t.limits) = n + 1 /\ t.limits[n + 1] = k
      /\ \A i \in 1 .. n : t.limits[i] = s.limits[i]
  BY <1>1, <1>2, AppendFacts
<1> DEFINE S == {ListedIn(s.entries, i, j) : i \in Int, j \in Int} \cup {{}}
           u == StackOf(s)
<1>4. /\ u \in Seq(S) /\ Len(u) = n + 1
  <2>1. \A i \in 1 .. n + 1 : StartOf(s, i) \in Int /\ EndOf(s, i) \in Int
    BY <1>1, <1>2, ScopeBounds
  <2>2. u \in [1 .. n + 1 -> S]
    BY <1>2, <2>1 DEF StackOf
  <2> HIDE DEF u, S
  <2>3. u \in Seq(S)
    BY <2>2, SeqDef
  <2> QED  BY <2>2, <2>3, LenProperties
<1> HIDE DEF S
<1>5. /\ Append(u, {}) \in Seq(S) /\ Len(Append(u, {})) = n + 2
      /\ DOMAIN Append(u, {}) = 1 .. n + 2
      /\ \A i \in 1 .. n + 1 : Append(u, {})[i] = u[i]
      /\ Append(u, {})[n + 2] = {}
  <2>1. {} \in S
    BY DEF S
  <2> HIDE DEF u
  <2>2. n + 1 + 1 = n + 2
    OBVIOUS
  <2> QED  BY <1>4, <2>1, <2>2, AppendFacts
<1>6. ASSUME NEW i \in 1 .. n + 1
      PROVE  StackOf(t)[i] = u[i]
  <2>1. StartOf(t, i) = StartOf(s, i)
    <3>1. CASE i = 1
      BY <3>1 DEF StartOf
    <3>2. CASE i # 1
      <4>1. i - 1 \in 1 .. n
        BY <3>2
      <4> QED  BY <1>3, <3>2, <4>1 DEF StartOf
    <3> QED  BY <3>1, <3>2
  <2>2. EndOf(t, i) = EndOf(s, i)
    <3>1. i # (n + 1) + 1
      OBVIOUS
    <3>2. CASE i = n + 1
      BY <1>2, <1>3, <3>1, <3>2 DEF EndOf
    <3>3. CASE i # n + 1
      <4>1. i \in 1 .. n
        BY <3>3
      <4> QED  BY <1>2, <1>3, <3>1, <3>3, <4>1 DEF EndOf
    <3> QED  BY <3>2, <3>3
  <2>3. i \in 1 .. (n + 1) + 1
    OBVIOUS
  <2> QED  BY <1>2, <1>3, <2>1, <2>2, <2>3 DEF StackOf
<1>7. StackOf(t)[n + 2] = {}
  <2>1. StartOf(t, n + 2) = k + 1 /\ EndOf(t, n + 2) = k
    <3>1. n + 2 # 1 /\ (n + 2) - 1 = n + 1 /\ n + 2 = (n + 1) + 1
      OBVIOUS
    <3> QED  BY <1>2, <1>3, <3>1 DEF StartOf, EndOf
  <2>2. ListedIn(t.entries, k + 1, k) = {}
    <3>1. k + 1 .. k = {}
      OBVIOUS
    <3> QED  BY <3>1 DEF ListedIn
  <2>3. n + 2 \in 1 .. (n + 1) + 1
    OBVIOUS
  <2> QED  BY <1>3, <2>1, <2>2, <2>3 DEF StackOf
<1>8. StackOf(t) = [i \in 1 .. n + 2 |-> StackOf(t)[i]]
  <2>1. (n + 1) + 1 = n + 2
    OBVIOUS
  <2> QED  BY <1>3, <2>1 DEF StackOf
<1>9. Append(u, {}) = [i \in 1 .. n + 2 |-> Append(u, {})[i]]
  <2>1. PICK w \in Seq(S) : w = Append(u, {})
    BY <1>5
  <2>2. w \in [1 .. n + 2 -> S]
    BY <1>5, <2>1, LenProperties
  <2> QED  BY <2>1, <2>2
<1>10. \A i \in 1 .. n + 2 : StackOf(t)[i] = Append(u, {})[i]
  <2>1. \A i \in 1 .. n + 2 : i \in 1 .. n + 1 \/ i = n + 2
    OBVIOUS
  <2> HIDE DEF u
  <2> QED  BY <1>5, <1>6, <1>7, <2>1
<1> QED  BY <1>8, <1>9, <1>10

LEMMA StackPop ==
    ASSUME NEW s, Well1(s), NEW h \in 1 .. Len(s.limits),
           NEW t, t.entries = SubSeq(s.entries, 1, s.limits[h]),
           t.limits = SubSeq(s.limits, 1, h - 1)
    PROVE  StackOf(t) = SubSeq(StackOf(s), 1, h)
<1>1. /\ s.entries \in Seq(Entry) /\ Len(s.entries) \in Nat
      /\ Marks(s.limits, s.entries)
      /\ DOMAIN s.limits = 1 .. Len(s.limits)
  BY LenProperties DEF Well1, Solver1
<1>2. PICK n \in Nat : n = Len(s.limits) /\ h \in 1 .. n
  BY LenProperties DEF Well1, Solver1
<1>3. PICK c \in Nat : c = s.limits[h] /\ c \in 0 .. Len(s.entries)
  <2>1. h \in DOMAIN s.limits
    BY <1>1
  <2>2. s.limits[h] \in 0 .. Len(s.entries)
    BY ONLY <1>1, <2>1, CutPrefix
  <2> QED  BY <1>1, <2>2
<1>4. /\ Len(t.entries) = c
      /\ \A i \in 1 .. c : t.entries[i] = s.entries[i]
  BY <1>1, <1>3, PrefixIsSeq
<1>5. /\ Len(t.limits) = h - 1
      /\ \A i \in 1 .. h - 1 : t.limits[i] = s.limits[i] /\ s.limits[i] \in 0 .. c
  BY <1>1, <1>3, OuterLimits
<1>6. ASSUME NEW i \in 1 .. h
      PROVE  StackOf(t)[i] = StackOf(s)[i]
  <2>1. i \in 1 .. n /\ i \in 1 .. n + 1 /\ i # n + 1 /\ (h - 1) + 1 = h
    BY <1>2
  <2>2. StartOf(t, i) = StartOf(s, i)
    <3>1. CASE i = 1
      BY <3>1 DEF StartOf
    <3>2. CASE i # 1
      <4>1. i - 1 \in 1 .. h - 1
        BY <1>2, <3>2
      <4> QED  BY <1>5, <3>2, <4>1 DEF StartOf
    <3> QED  BY <3>1, <3>2
  <2>3. EndOf(t, i) = EndOf(s, i) /\ EndOf(s, i) \in 0 .. c
    <3>1. EndOf(s, i) = s.limits[i]
      BY <1>2, <2>1 DEF EndOf
    <3>2. CASE i = h
      <4>1. EndOf(t, i) = c
        BY <1>4, <1>5, <2>1, <3>2 DEF EndOf
      <4> QED  BY <1>3, <3>1, <3>2, <4>1
    <3>3. CASE i # h
      <4>1. i \in 1 .. h - 1
        BY <1>2, <3>3
      <4>2. EndOf(t, i) = t.limits[i]
        BY <1>5, <2>1, <3>3 DEF EndOf
      <4> QED  BY <1>5, <3>1, <4>1, <4>2
    <3> QED  BY <3>2, <3>3
  <2>4. PICK a \in Nat \ {0}, b \in Nat :
            a = StartOf(s, i) /\ b = EndOf(s, i) /\ b <= c
    <3>1. StartOf(s, i) \in 1 .. Len(s.entries) + 1
      BY <1>2, <2>1, ScopeBounds
    <3> QED  BY <1>1, <1>3, <2>3, <3>1
  <2>5. \A j \in 1 .. b : t.entries[j] = s.entries[j]
    BY <1>3, <1>4, <2>4
  <2>6. ListedIn(t.entries, a, b) = ListedIn(s.entries, a, b)
    <3>1. PICK p, q : p = t.entries /\ q = s.entries
      OBVIOUS
    <3>2. \A j \in 1 .. b : p[j] = q[j]
      BY <2>5, <3>1
    <3>3. ListedIn(p, a, b) = ListedIn(q, a, b)
      BY ONLY a \in Nat \ {0}, b \in Nat, <3>2, ListedDepends
    <3> QED  BY <3>1, <3>3
  <2> QED  BY <1>2, <1>5, <2>1, <2>2, <2>3, <2>4, <2>6 DEF StackOf
<1> DEFINE u == StackOf(s)
           S == {u[i] : i \in 1 .. n + 1}
<1>7. u \in [1 .. n + 1 -> S]
  BY <1>2 DEF StackOf
<1> HIDE DEF S, u
<1>8. u \in Seq(S) /\ Len(u) = n + 1
  <2>1. u \in Seq(S)
    BY <1>7, SeqDef
  <2> QED  BY <1>7, <2>1, LenProperties
<1>9. h \in 0 .. Len(u)
  BY <1>2, <1>8
<1>10. PICK w \in Seq(S) :
           /\ w = SubSeq(u, 1, h) /\ Len(w) = h
           /\ \A i \in 1 .. h : w[i] = u[i]
  <2>1. PICK v \in Seq(S) : v = u
    BY <1>8
  <2>2. h \in 0 .. Len(v)
    BY <1>9, <2>1
  <2>3. SubSeq(v, 1, h) \in Seq(S)
    BY ONLY v \in Seq(S), <2>2, PrefixIsSeq
  <2>4. Len(SubSeq(v, 1, h)) = h
    BY ONLY v \in Seq(S), <2>2, PrefixIsSeq
  <2>5. \A i \in 1 .. h : SubSeq(v, 1, h)[i] = v[i]
    BY ONLY v \in Seq(S), <2>2, PrefixIsSeq
  <2> QED  BY <2>1, <2>3, <2>4, <2>5
<1>11. w = [i \in 1 .. h |-> w[i]]
  <2>1. w \in [1 .. h -> S]
    BY <1>10, LenProperties
  <2> QED  BY <2>1
<1>12. StackOf(t) = [i \in 1 .. h |-> StackOf(t)[i]]
  <2>1. (h - 1) + 1 = h
    BY <1>2
  <2> QED  BY <1>5, <2>1 DEF StackOf
<1>13. \A i \in 1 .. h : StackOf(t)[i] = w[i]
  BY <1>6, <1>10 DEF u
<1> QED  BY <1>10, <1>11, <1>12, <1>13 DEF u

LEMMA StackFresh == StackOf(Fresh1) = <<{}>>
<1>1. /\ Fresh1.limits = <<>> /\ Fresh1.entries = <<>> /\ Len(<<>>) = 0
  BY EmptySeq DEF Fresh1
<1>2. StartOf(Fresh1, 1) = 1 /\ EndOf(Fresh1, 1) = 0
  BY <1>1 DEF StartOf, EndOf
<1>3. ListedIn(Fresh1.entries, 1, 0) = {}
  BY DEF ListedIn
<1>4. StackOf(Fresh1) = [i \in 1 .. 1 |-> {}]
  <2>1. \A i \in 1 .. 1 : i = 1
    OBVIOUS
  <2>2. \A i \in 1 .. 1 :
            ListedIn(Fresh1.entries, StartOf(Fresh1, i), EndOf(Fresh1, i)) = {}
    BY <1>2, <1>3, <2>1
  <2> QED  BY <1>1, <2>2 DEF StackOf
<1> QED  BY <1>4

LEMMA StackSame ==
    ASSUME NEW s, NEW t, t.entries = s.entries, t.limits = s.limits
    PROVE  StackOf(t) = StackOf(s)
  BY DEF StackOf, StartOf, EndOf

-----------------------------------------------------------------------------
(* Every step of the two solvers is a step of the stack, or none.          *)

\* What AssertionStack says of its stack.
LEMMA AssertedIsListed ==
    ASSUME Well1(solver1)
    PROVE  /\ Promised!Asserted =
                  ListedIn(solver1.entries, 1, Len(solver1.entries))
           /\ Promised!Names(Promised!Asserted) =
                  Names(FirstOf(solver1.entries, Len(solver1.entries)))
           /\ \A assumed : Promised!Asked(assumed) =
                               Satisfying(Asserted1 \cup assumed)
<1>1. Promised!Asserted = ListedIn(solver1.entries, 1, Len(solver1.entries))
  BY StackNow, StackUnion DEF Promised!Asserted
<1>2. Len(solver1.entries) \in Nat
  BY LenProperties DEF Well1, Solver1
<1>3. \A es : Promised!Names(es) = Names(es)
  BY DEF Promised!Names, Names
<1>4. \A fs : Promised!Satisfying(fs) = Satisfying(fs)
  BY DEF Promised!Satisfying, Satisfying
<1>5. \A es : Promised!Bodies(es) = Bodies(es)
  BY DEF Promised!Bodies, Bodies
<1> QED  BY <1>1, <1>2, <1>3, <1>4, <1>5, ListedHasNames
         DEF Promised!Asked, Asserted1

\* A call that leaves what solver1 holds leaves the stack.
LEMMA StackUnchanged ==
    ASSUME solver1'.entries = solver1.entries, solver1'.limits = solver1.limits
    PROVE  Stack' = Stack
<1>1. PICK s : s = solver1'
  OBVIOUS
<1>2. StackOf(s) = StackOf(solver1)
  BY <1>1, StackSame
<1> QED  BY <1>1, <1>2, StackNow, StackThen

LEMMA StackHeight ==
    ASSUME Well1(solver1)
    PROVE  /\ Len(solver1.limits) \in Nat
           /\ Len(Stack) = Len(solver1.limits) + 1
<1>1. Len(solver1.limits) \in Nat
  BY LenProperties DEF Well1, Solver1
<1>2. PICK n \in Nat : n = Len(solver1.limits)
  BY <1>1
<1>3. Stack = [i \in 1 .. n + 1 |-> StackOf(solver1)[i]]
  BY <1>2, StackNow DEF StackOf
<1> DEFINE S == {StackOf(solver1)[i] : i \in 1 .. n + 1}
           u == Stack
<1>4. u \in [1 .. n + 1 -> S]
  BY <1>3
<1> HIDE DEF S, u
<1>5. u \in Seq(S)
  BY <1>4, SeqDef
<1>6. Len(u) = n + 1
  BY <1>4, <1>5, LenProperties
<1> QED  BY <1>2, <1>6 DEF u

LEMMA AssertSim ==
    ASSUME WellInv, NEW e \in Entry, AssertExpr(e)
    PROVE  Promised!Add(e) \/ Promised!Refuse(e)
<1>1. Well1(solver1) /\ Assert1(e) /\ Promised!Forget
  BY DEF WellInv, AssertExpr, Forget, Promised!Forget
<1>2. PICK t : t = solver1'
  OBVIOUS
<1>3. t.entries = Append(solver1.entries, e) /\ t.limits = solver1.limits
  BY <1>1, <1>2, Assert1Well DEF Assert1
<1>4. /\ Stack = StackOf(solver1) /\ Stack' = StackOf(t)
      /\ Len(Stack) = Len(solver1.limits) + 1
  BY <1>1, <1>2, StackNow, StackThen, StackHeight
<1>5. Promised!Names(Promised!Asserted) =
          Names(FirstOf(solver1.entries, Len(solver1.entries)))
  BY <1>1, AssertedIsListed
<1>6. CASE e.name \in Names(FirstOf(solver1.entries, Len(solver1.entries)))
  <2>1. StackOf(t) = StackOf(solver1)
    BY <1>1, <1>3, <1>6, StackAssert
  <2> QED  BY <1>1, <1>4, <1>5, <1>6, <2>1 DEF Promised!Refuse
<1>7. CASE e.name \notin Names(FirstOf(solver1.entries, Len(solver1.entries)))
  <2>1. StackOf(t) =
            [StackOf(solver1) EXCEPT ![Len(solver1.limits) + 1] = @ \cup {e}]
    BY <1>1, <1>3, <1>7, StackAssert
  <2> QED  BY <1>1, <1>4, <1>5, <1>7, <2>1 DEF Promised!Add
<1> QED  BY <1>6, <1>7

LEMMA PushSim ==
    ASSUME WellInv, Push
    PROVE  Promised!Open
<1>1. Well1(solver1) /\ Push1 /\ Promised!Forget
  BY DEF WellInv, Push, Forget, Promised!Forget
<1>2. PICK t : t = solver1'
  OBVIOUS
<1>3. /\ t.entries = solver1.entries
      /\ t.limits = Append(solver1.limits, Len(solver1.entries))
  BY <1>1, <1>2, Push1Well DEF Push1
<1>4. StackOf(t) = Append(StackOf(solver1), {})
  BY <1>1, <1>3, StackPush
<1>5. Stack = StackOf(solver1) /\ Stack' = StackOf(t)
  BY <1>2, StackNow, StackThen
<1> QED  BY <1>1, <1>4, <1>5 DEF Promised!Open

LEMMA PopSim ==
    ASSUME WellInv, NEW n \in Nat, Pop(n)
    PROVE  n \in 1 .. Len(Stack) /\ Promised!Close(n)
<1>1. /\ Well1(solver1) /\ Pop1(n) /\ Promised!Forget
      /\ n \in 1 .. Len(solver1.marks)
  BY DEF WellInv, Pop, Forget, Promised!Forget
<1>2. PICK t : t = solver1'
  OBVIOUS
<1>3. PICK m \in Nat : m = Len(solver1.limits) /\ m = Len(solver1.marks)
  BY <1>1, StackHeight DEF Well1
<1>4. PICK h \in 1 .. m : h = m - n + 1
  <2>1. n \in 1 .. m
    BY <1>1, <1>3
  <2>2. m - n + 1 \in 1 .. m
    BY ONLY m \in Nat, <2>1
  <2> QED  BY <2>2
<1>5. t.entries = SubSeq(solver1.entries, 1, solver1.limits[h])
      /\ t.limits = SubSeq(solver1.limits, 1, h - 1)
  <2>1. t = [Unmarked(solver1, n) EXCEPT
                !.entries = SubSeq(@, 1, solver1.limits[Len(solver1.limits) - n + 1]),
                !.limits = SubSeq(@, 1, Len(solver1.limits) - n),
                !.result = Nothing]
    BY <1>1, <1>2 DEF Pop1
  <2>2. /\ t.entries = SubSeq(solver1.entries, 1,
                            solver1.limits[Len(solver1.limits) - n + 1])
        /\ t.limits = SubSeq(solver1.limits, 1, Len(solver1.limits) - n)
    BY <1>1, <2>1, Pop1Well
  <2>3. h - 1 = m - n
    BY <1>4
  <2> QED  BY <1>3, <1>4, <2>2, <2>3
<1>6. StackOf(t) = SubSeq(StackOf(solver1), 1, h)
  BY <1>1, <1>3, <1>5, StackPop
<1>7. Stack = StackOf(solver1) /\ Stack' = StackOf(t) /\ Len(Stack) = m + 1
  BY <1>1, <1>2, <1>3, StackNow, StackThen, StackHeight
<1>8. n < m + 1 /\ n \in 1 .. m + 1 /\ (m + 1) - n = h
  BY <1>1, <1>3, <1>4
<1> QED  BY <1>1, <1>6, <1>7, <1>8 DEF Promised!Close

\* A call that leaves what solver1 holds answers for the stack.
LEMMA AnswerSim ==
    ASSUME Well1(solver1), Stack' = Stack, model' = Nothing,
           NEW v \in Verdict, NEW assumed \in SUBSET Formula,
           checked' = [verdict |-> v, assumed |-> assumed],
           Right(v, Satisfying(Asserted1 \cup assumed))
    PROVE  Promised!Answer
<1>1. \A w, ls : Promised!Right(w, ls) <=> Right(w, ls)
  BY DEF Promised!Right, Right
<1>2. Promised!Verdict = Verdict
  BY DEF Promised!Verdict, Verdict
<1>3. Promised!Asked(assumed) = Satisfying(Asserted1 \cup assumed)
  BY AssertedIsListed
<1> QED  BY <1>1, <1>2, <1>3 DEF Promised!Answer

LEMMA ChecksSim ==
    ASSUME IInv, NEW v \in Verdict,
           \/ CheckBySolver1(v) \/ CheckByBoth(v)
           \/ \E assumed \in AssumptionSets : CheckBySolver2(v, assumed)
    PROVE  Promised!Answer
<1>1. WellInv /\ Agree(solver1, solver2) /\ Well1(solver1)
  BY DEF IInv, WellInv
<1>2. CASE CheckBySolver1(v) \/ CheckByBoth(v)
  <2>1. Check1(v) /\ ~NeedsSolver2({}) /\ Answered(v, {})
        /\ m_use_solver1_results' = TRUE
    BY <1>2 DEF CheckBySolver1, CheckByBoth
  <2>2. /\ Right(v, Satisfying(Asserted1 \cup {}))
        /\ checked' = [verdict |-> v, assumed |-> {}] /\ model' = Nothing
    BY <1>1, <2>1, BySolver1Answer
  <2>3. solver1'.entries = solver1.entries /\ solver1'.limits = solver1.limits
    BY <1>1, <2>1, Check1Keeps
  <2>4. Stack' = Stack
    BY <2>3, StackUnchanged
  <2>5. {} \in SUBSET Formula
    OBVIOUS
  <2> QED  BY <1>1, <2>2, <2>4, <2>5, AnswerSim
<1>3. ASSUME NEW assumed \in AssumptionSets, CheckBySolver2(v, assumed)
      PROVE  Promised!Answer
  <2>1. /\ Right(v, Satisfying(Asserted1 \cup assumed))
        /\ checked' = [verdict |-> v, assumed |-> assumed]
        /\ model' = Nothing
    BY <1>1, <1>3, BySolver2Answer
  <2>2. Stack' = Stack
    BY <1>3, StackUnchanged DEF CheckBySolver2
  <2>3. assumed \in SUBSET Formula
    BY AssumptionSetsAssumption
  <2> QED  BY <1>1, <2>1, <2>2, <2>3, AnswerSim
<1> QED  BY <1>2, <1>3

LEMMA GetModelSim ==
    ASSUME CheckFirst, IInv, GetModel
    PROVE  Promised!Produce
<1>1. /\ WellInv /\ Agree(solver1, solver2) /\ AnswerInv
      /\ Well1(solver1)
  BY DEF IInv, WellInv
<1>2. /\ model' \in Leaf \cup {Nothing}
      /\ (checked # Nothing /\ checked.verdict = "sat") => model' \in Answers
  BY <1>1, GetModelAnswer
<1>3. Stack' = Stack /\ checked' = checked
  BY StackUnchanged DEF GetModel
<1>4. Answers = Promised!Asked(checked.assumed)
  BY <1>1, AssertedIsListed DEF Answers
<1> QED  BY <1>2, <1>3, <1>4 DEF Promised!Produce

LEMMA ResetSim ==
    ASSUME Reset
    PROVE  Promised!Clear
<1>1. solver1' = Fresh1 /\ Promised!Forget
  BY DEF Reset, Forget, Promised!Forget
<1>2. Stack' = StackOf(Fresh1)
  BY <1>1, StackThen
<1> QED  BY <1>1, <1>2, StackFresh DEF Promised!Clear

LEMMA InitSim == Init => Promised!AbsInit
<1> SUFFICES ASSUME Init PROVE Promised!AbsInit
  OBVIOUS
<1>1. solver1 = Fresh1 /\ checked = Nothing /\ model = Nothing
  BY DEF Init
<1>2. Stack = StackOf(Fresh1)
  BY <1>1, StackNow
<1> QED  BY <1>1, <1>2, StackFresh DEF Promised!AbsInit

LEMMA StepSim ==
    CheckFirst /\ IInv /\ [Next]_vars
        => [Promised!AbsNext]_<<Stack, checked, model>>
<1> SUFFICES ASSUME CheckFirst, IInv, [Next]_vars
             PROVE  Promised!AbsNext \/ UNCHANGED <<Stack, checked, model>>
  OBVIOUS
<1>0. WellInv
  BY DEF IInv
<1>1. ASSUME NEW e \in Entry, AssertExpr(e)
      PROVE  Promised!AbsNext
  <2>1. Promised!Entry = Entry
    BY DEF Promised!Entry, Entry
  <2> QED  BY <1>0, <1>1, <2>1, AssertSim DEF Promised!AbsNext
<1>2. CASE Push
  BY <1>0, <1>2, PushSim DEF Promised!AbsNext
<1>3. CASE Reset
  BY <1>3, ResetSim DEF Promised!AbsNext
<1>4. CASE GetModel
  BY <1>4, GetModelSim DEF Promised!AbsNext
<1>5. CASE Interrupt
  <2>1. Stack' = Stack /\ checked' = checked /\ model' = model
    BY <1>5, StackUnchanged DEF Interrupt, answers
  <2> QED  BY <2>1
<1>6. ASSUME NEW n \in 1 .. MaxScopes, Pop(n)
      PROVE  Promised!AbsNext
  <2>1. n \in Nat
    BY BoundsAssumption
  <2> QED  BY <1>0, <1>6, <2>1, PopSim DEF Promised!AbsNext
<1>7. ASSUME NEW v \in Verdict,
             \/ CheckBySolver1(v) \/ CheckByBoth(v)
             \/ \E assumed \in AssumptionSets : CheckBySolver2(v, assumed)
      PROVE  Promised!AbsNext
  BY <1>7, ChecksSim DEF Promised!AbsNext
<1>8. CASE UNCHANGED vars
  <2>1. Stack' = Stack /\ checked' = checked /\ model' = model
    BY <1>8, StackUnchanged DEF vars, answers
  <2> QED  BY <2>1
<1> QED  BY <1>1, <1>2, <1>3, <1>4, <1>5, <1>6, <1>7, <1>8 DEF Next

\* The two solvers together are the stack of assertions the user of Z3Solver
\* sees: every call does to what getAssertions lists what it does to the
\* stack, each answer is right for it, and the model obtained after a
\* satisfiable check satisfies it, whichever solver gave them
\* (combined_solver.cpp:162).  CheckFirst is needed: without it the run on
\* SolverInterrupted refutes AnswerFitsAssertions.
THEOREM Implements == CheckFirst /\ Spec => KeepsAssertionStack
<1>1. CheckFirst /\ IInv /\ [Next]_vars
          => [Promised!AbsNext]_<<Stack, checked, model>>
  BY StepSim
<1>2. CheckFirst /\ Init /\ [][Next]_vars /\ []IInv
          => Promised!AbsInit
             /\ [][Promised!AbsNext]_<<Stack, checked, model>>
  <2>1. CASE CheckFirst
    BY <2>1, <1>1, InitSim, PTL
  <2>2. CASE ~CheckFirst
    BY <2>2, PTL
  <2> QED  BY <2>1, <2>2
<1> QED  BY <1>2, Invariance, PTL
         DEF Spec, KeepsAssertionStack, Promised!AbsSpec
=============================================================================
