------------------------- MODULE OptimizeStackProofs -------------------------
(***************************************************************************)
(* Proof that OptimizeScopes implements OptimizeStack: flat vectors, a     *)
(* trail of the terms that were added and a map of identifiers give each   *)
(* pop what the matching push has kept, for any formulas, names and        *)
(* identifiers and any depth of nesting.                                   *)
(***************************************************************************)
EXTENDS OptimizeScopesProofs

\* What the pushes that are open have kept, as the flat vectors have it.
Opened == [scope \in DOMAIN m_hard_lim |-> Kept(scope)]

---------------------------------------------------------------------------
(* Counting the terms to drop.                                             *)

\* A term more is one more to drop, for its objective only.
LEMMA AddedByAppend ==
    ASSUME NEW S, NEW trail \in Seq(S), NEW e \in S,
           NEW k \in 0 .. Len(trail), NEW i
    PROVE  Cardinality(Added(Append(trail, e), k, i)) =
               IF i = e THEN Cardinality(Added(trail, k, i)) + 1
               ELSE Cardinality(Added(trail, k, i))
<1> DEFINE n == Len(trail)
<1>1. /\ n \in Nat /\ Len(Append(trail, e)) = n + 1
      /\ \A j \in 1 .. n : Append(trail, e)[j] = trail[j]
      /\ Append(trail, e)[n + 1] = e
  BY AppendFacts
<1>2. IsFiniteSet(Added(trail, k, i)) /\ n + 1 \notin Added(trail, k, i)
  <2>1. k \in Nat
    BY <1>1
  <2>2. n + 1 \notin Added(trail, k, i)
    BY <1>1 DEF Added
  <2> QED  BY <2>1, <2>2, AddedFinite
<1>3. CASE i = e
  <2> DEFINE few == Added(trail, k, i)
             more == n + 1
  <2>1. Added(Append(trail, e), k, i) = few \cup {more}
    BY <1>1, <1>3 DEF Added
  <2>2. IsFiniteSet(few) /\ more \notin few
    BY <1>2
  <2> HIDE DEF few, more
  <2>3. Cardinality(few \cup {more}) = Cardinality(few) + 1
    BY <2>2, FS_AddElement
  <2> QED  BY <1>3, <2>1, <2>3 DEF few
<1>4. CASE i # e
  <2>1. Added(Append(trail, e), k, i) = Added(trail, k, i)
    BY <1>1, <1>4 DEF Added
  <2> QED  BY <1>4, <2>1
<1> QED  BY <1>3, <1>4

\* What is behind k splits at any position m after it.
LEMMA AddedByPrefix ==
    ASSUME NEW S, NEW trail \in Seq(S), NEW m \in 0 .. Len(trail),
           NEW k \in 0 .. m, NEW i
    PROVE  Cardinality(Added(trail, k, i)) =
               Cardinality(Added(SubSeq(trail, 1, m), k, i))
                   + Cardinality(Added(trail, m, i))
<1> DEFINE inner == Added(trail, m, i)
           outer == Added(SubSeq(trail, 1, m), k, i)
<1>1. /\ SubSeq(trail, 1, m) \in Seq(S) /\ Len(SubSeq(trail, 1, m)) = m
      /\ \A j \in 1 .. m : SubSeq(trail, 1, m)[j] = trail[j]
  BY PrefixIsSeq
<1>2. Added(trail, k, i) = outer \cup inner /\ outer \cap inner = {}
  BY <1>1, LenProperties DEF Added
<1>3. /\ IsFiniteSet(inner) /\ Cardinality(inner) \in Nat
      /\ IsFiniteSet(outer) /\ Cardinality(outer) \in Nat
  <2>1. m \in Nat /\ k \in Nat
    BY LenProperties
  <2> QED  BY <1>1, <2>1, AddedFinite
<1> HIDE DEF inner, outer
<1>4. Cardinality(outer \cup inner) = Cardinality(outer) + Cardinality(inner)
  <2>1. Cardinality(outer \cap inner) = 0
    BY <1>2, FS_EmptySet
  <2>2. Cardinality(outer \cup inner) =
            Cardinality(outer) + Cardinality(inner)
                - Cardinality(outer \cap inner)
    BY <1>3, FS_Union
  <2> QED  BY <1>3, <2>1, <2>2
<1> QED  BY <1>2, <1>4 DEF inner, outer

\* A term that is added later is dropped again.
LEMMA RestAfterTerm ==
    ASSUME NEW objs, NEW trail \in Seq(Nat), NEW k \in 0 .. Len(trail),
           NEW i \in Nat, NEW f \in Formula, objs[i].terms \in Seq(Formula),
           NEW new, new[i].id = objs[i].id,
           new[i].terms = Append(objs[i].terms, f)
    PROVE  Rest(new, Append(trail, i), k, i) = Rest(objs, trail, k, i)
<1> DEFINE terms == objs[i].terms
           c == Cardinality(Added(trail, k, i))
<1>1. terms \in Seq(Formula) /\ Len(terms) \in Nat /\ c \in Nat
  BY AddedFinite, LenProperties
<1>2. Cardinality(Added(Append(trail, i), k, i)) = c + 1
  BY AddedByAppend
<1>3. Len(Append(terms, f)) = Len(terms) + 1
  BY <1>1, AppendFacts
<1> HIDE DEF terms, c
<1>4. SubSeq(Append(terms, f), 1, Len(terms) + 1 - (c + 1))
          = SubSeq(terms, 1, Len(terms) - c)
  <2>1. Len(terms) + 1 - (c + 1) = Len(terms) - c
        /\ Len(terms) - c \in Int /\ Len(terms) - c <= Len(terms)
    BY <1>1
  <2> QED  BY <1>1, <2>1, PrefixOfAppend
<1>5. Rest(objs, trail, k, i) =
          [id |-> objs[i].id, terms |-> SubSeq(terms, 1, Len(terms) - c)]
  BY DEF Rest, terms, c
<1>6. new[i].terms = Append(terms, f) /\ new[i].id = objs[i].id
  BY DEF terms
<1>7. Rest(new, Append(trail, i), k, i) =
          [id |-> new[i].id,
           terms |-> SubSeq(new[i].terms, 1,
                         Len(new[i].terms)
                             - Cardinality(Added(Append(trail, i), k, i)))]
  BY DEF Rest
<1>8. SubSeq(new[i].terms, 1,
             Len(new[i].terms) - Cardinality(Added(Append(trail, i), k, i)))
          = SubSeq(terms, 1, Len(terms) - c)
  <2>1. Len(new[i].terms) = Len(terms) + 1
    BY <1>3, <1>6
  <2>2. Len(new[i].terms) - Cardinality(Added(Append(trail, i), k, i))
            = Len(terms) + 1 - (c + 1)
    BY <1>1, <1>2, <2>1
  <2> QED  BY ONLY <1>4, <1>6, <2>2
<1> QED  BY <1>5, <1>6, <1>7, <1>8

\* Terms of other objectives do not matter.
LEMMA RestOfOthers ==
    ASSUME NEW objs, NEW trail \in Seq(Nat), NEW k \in 0 .. Len(trail),
           NEW e \in Nat, NEW i, i # e, NEW new, new[i] = objs[i]
    PROVE  Rest(new, Append(trail, e), k, i) = Rest(objs, trail, k, i)
<1>1. Cardinality(Added(Append(trail, e), k, i)) =
          Cardinality(Added(trail, k, i))
  BY AddedByAppend
<1> QED  BY <1>1 DEF Rest

\* Dropping twice drops as much as dropping once.
LEMMA RestOfRest ==
    ASSUME NEW S, NEW objs, NEW trail \in Seq(S), NEW m \in 0 .. Len(trail),
           NEW k \in 0 .. m, NEW i, objs[i].terms \in Seq(Formula),
           NEW new, new[i] = Rest(objs, trail, m, i)
    PROVE  Rest(new, SubSeq(trail, 1, m), k, i) = Rest(objs, trail, k, i)
<1> DEFINE terms == objs[i].terms
           n == Len(terms)
           inner == Cardinality(Added(trail, m, i))
           outer == Cardinality(Added(SubSeq(trail, 1, m), k, i))
           left == SubSeq(terms, 1, n - inner)
<1>1. /\ terms \in Seq(Formula) /\ n \in Nat /\ inner \in Nat /\ outer \in Nat
      /\ Cardinality(Added(trail, k, i)) = outer + inner
  <2>1. m \in Nat /\ k \in Nat /\ n \in Nat
    BY LenProperties
  <2>2. inner \in Nat
    BY <2>1, AddedFinite
  <2>3. SubSeq(trail, 1, m) \in Seq(S)
    BY PrefixIsSeq
  <2>4. outer \in Nat
    BY <2>1, <2>3, AddedFinite
  <2>5. Cardinality(Added(trail, k, i)) = outer + inner
    BY AddedByPrefix
  <2> QED  BY <2>1, <2>2, <2>4, <2>5
<1>2. new[i].id = objs[i].id /\ new[i].terms = left
  <2>1. new[i] = [id |-> objs[i].id, terms |-> left]
    BY DEF Rest
  <2> HIDE DEF left
  <2> QED  BY <2>1
<1> HIDE DEF terms, n, inner, outer
<1>3. SubSeq(left, 1, Len(left) - outer) = SubSeq(terms, 1, n - (outer + inner))
  <2>1. CASE n - inner < outer
    <3>1. Len(left) < outer + 1
      <4>1. \A j \in 1 .. n - inner : terms[j] \in Formula
        BY <1>1, LenProperties DEF n
      <4> QED  BY <1>1, <2>1, <4>1, SubSeqProperties
    <3>2. Len(left) \in Nat
      <4>1. \A j \in 1 .. n - inner : terms[j] \in Formula
        BY <1>1, LenProperties DEF n
      <4> QED  BY <1>1, <4>1, SubSeqProperties, LenProperties
    <3>3. /\ Len(left) - outer \in Int /\ Len(left) - outer < 1
          /\ n - (outer + inner) \in Int /\ n - (outer + inner) < 1
      BY <1>1, <2>1, <3>1, <3>2
    <3> HIDE DEF left
    <3> QED  BY <3>3, SubSeqEmpty
  <2>2. CASE n - inner >= outer
    <3>1. n - inner \in 0 .. Len(terms) /\ n - inner - outer \in 0 .. n - inner
          /\ n - inner - outer = n - (outer + inner)
      BY <1>1, <2>2 DEF n
    <3>2. Len(left) = n - inner
      BY <1>1, <3>1, PrefixIsSeq
    <3> QED  BY <1>1, <3>1, <3>2, PrefixOfPrefix
  <2> QED  BY <1>1, <2>1, <2>2
<1> QED  BY <1>1, <1>2, <1>3 DEF Rest, terms, n, inner, outer

---------------------------------------------------------------------------
(* When a scope keeps what it kept.                                        *)

\* ObjectivesAtScope of every scope, before and after a step.
AtScope(scope) ==
    /\ ObjectivesAt(scope) \in Seq(Objective)
    /\ Len(ObjectivesAt(scope)) = m_objectives_lim[scope]
    /\ \A i \in 1 .. m_objectives_lim[scope] :
          ObjectivesAt(scope)[i] =
              RestNow(m_objectives_term_trail_lim[scope], i)

AllScopes == \A scope \in 1 .. Len(m_hard_lim) : AtScope(scope)

LEMMA ScopesBefore == IInv => AllScopes
  BY ObjectivesAtScope DEF AllScopes, AtScope

LEMMA ScopesAfter == IInv' => AllScopes'
  BY ScopesBefore, PTL

\* A scope keeps the same as long as its sizes, the prefixes they give and
\* the rests of its objectives are the same.
LEMMA ScopeKeeps ==
    ASSUME IInv, IInv',
           NEW scope \in 1 .. Len(m_hard_lim), scope \in 1 .. Len(m_hard_lim'),
           m_hard_lim'[scope] = m_hard_lim[scope],
           m_asms_lim'[scope] = m_asms_lim[scope],
           m_objectives_lim'[scope] = m_objectives_lim[scope],
           m_objectives_term_trail_lim'[scope] =
               m_objectives_term_trail_lim[scope],
           SubSeq(m_hard', 1, m_hard_lim[scope])
               = SubSeq(m_hard, 1, m_hard_lim[scope]),
           SubSeq(m_asms', 1, m_asms_lim[scope])
               = SubSeq(m_asms, 1, m_asms_lim[scope]),
           \A i \in 1 .. m_objectives_lim[scope] :
               Rest(m_scoped_objectives', m_objectives_term_trail',
                    m_objectives_term_trail_lim[scope], i)
                   = Rest(m_scoped_objectives, m_objectives_term_trail,
                          m_objectives_term_trail_lim[scope], i)
    PROVE  Kept(scope)' = Kept(scope)
<1> DEFINE before == ObjectivesAt(scope)
           after == ObjectivesAt(scope)'
           l == m_objectives_lim[scope]
           k == m_objectives_term_trail_lim[scope]
<1>1. /\ before \in Seq(Objective) /\ Len(before) = l
      /\ \A i \in 1 .. l :
            before[i] = Rest(m_scoped_objectives, m_objectives_term_trail, k, i)
  BY ScopesBefore DEF AllScopes, AtScope, RestNow
<1>2. /\ after \in Seq(Objective) /\ Len(after) = l
      /\ \A i \in 1 .. l :
            after[i] = Rest(m_scoped_objectives', m_objectives_term_trail', k, i)
  <2>1. AtScope(scope)'
    BY ScopesAfter DEF AllScopes
  <2> QED  BY <2>1 DEF AtScope, RestNow
<1>3. after = before
  <2>1. \A i \in 1 .. l : after[i] = before[i]
    BY <1>1, <1>2
  <2> HIDE DEF before, after, l
  <2> QED  BY <1>1, <1>2, <2>1, SeqEqual
<1> QED  BY <1>3 DEF Kept

\* Scopes that all keep the same.
LEMMA OpenedKeeps ==
    ASSUME IInv, UNCHANGED m_hard_lim,
           \A scope \in 1 .. Len(m_hard_lim) : Kept(scope)' = Kept(scope)
    PROVE  UNCHANGED Opened
  BY OpenScopes DEF Opened

\* Nothing scopes depend on has changed.
LEMMA OpenedUnchanged ==
    ASSUME IInv, UNCHANGED <<hards, objectives>>
    PROVE  UNCHANGED Opened
<1>1. \A scope \in 1 .. Len(m_hard_lim) : Kept(scope)' = Kept(scope)
  BY DEF Kept, ObjectivesAt, TermsDropped, hards, objectives
<1> QED  BY <1>1, OpenedKeeps DEF hards

---------------------------------------------------------------------------
(* Every operation does what it does to the stack.                         *)

LEMMA AddHardSim ==
    ASSUME IInv, IInv', NEW f \in Formula,
           NEW ns \in {<<>>} \cup {<<n>> : n \in Name}, ns \in Seq(Name),
           AddHard(f, ns)
    PROVE  Promised!AddHard
<1>1. Now' = [Now EXCEPT !.hard = Append(@, f), !.names = @ \o ns]
  <2>1. Now' = [hard |-> Append(m_hard, f), names |-> m_asms \o ns,
                objectives |-> m_scoped_objectives]
    BY DEF Now, AddHard, objectives
  <2> DEFINE hard == Append(m_hard, f)
             names == m_asms \o ns
             one == [Now EXCEPT !.hard = hard]
  <2>2. [Now EXCEPT !.hard = Append(@, f), !.names = @ \o ns]
            = [Now EXCEPT !.hard = Append(Now.hard, f),
                          !.names = Now.names \o ns]
    OBVIOUS
  <2>3. Now.hard = m_hard /\ Now.names = m_asms
    BY DEF Now
  <2>4. [Now EXCEPT !.hard = hard, !.names = names]
            = [one EXCEPT !.names = names]
    OBVIOUS
  <2>5. one = [hard |-> hard, names |-> m_asms,
               objectives |-> m_scoped_objectives]
    <3> HIDE DEF hard
    <3> QED  BY DEF Now
  <2>6. [one EXCEPT !.names = names]
            = [hard |-> hard, names |-> names,
               objectives |-> m_scoped_objectives]
    <3> HIDE DEF one, hard, names
    <3> QED  BY <2>5
  <2> QED  BY <2>1, <2>2, <2>3, <2>4, <2>6
<1>2. ASSUME NEW scope \in 1 .. Len(m_hard_lim)
      PROVE  Kept(scope)' = Kept(scope)
  <2>1. /\ m_hard_lim[scope] \in 0 .. Len(m_hard)
        /\ m_asms_lim[scope] \in 0 .. Len(m_asms)
        /\ m_hard \in Seq(Formula) /\ m_asms \in Seq(Name)
    BY OpenScopes DEF IInv, ValuesInv
  <2>2. SubSeq(m_hard', 1, m_hard_lim[scope])
            = SubSeq(m_hard, 1, m_hard_lim[scope])
    <3>1. m_hard_lim[scope] \in Int /\ m_hard_lim[scope] <= Len(m_hard)
      BY <2>1, LenProperties
    <3> QED  BY <2>1, <3>1, PrefixOfAppend DEF AddHard
  <2>3. SubSeq(m_asms', 1, m_asms_lim[scope])
            = SubSeq(m_asms, 1, m_asms_lim[scope])
    BY <2>1, PrefixOfConcat DEF AddHard
  <2> QED  BY <2>2, <2>3 DEF Kept, ObjectivesAt, TermsDropped, AddHard,
           objectives
<1>3. UNCHANGED Opened
  BY <1>2, OpenedKeeps DEF AddHard
<1> QED  BY <1>1, <1>3 DEF Promised!AddHard, Opened, AddHard

LEMMA AddObjectiveSim ==
    ASSUME IInv, IInv', NEW t \in Formula, AddObjective(t)
    PROVE  Promised!AddObjective(t)
<1> DEFINE new == [id |-> NoId, terms |-> <<t>>]
<1>1. /\ m_scoped_objectives' = Append(m_scoped_objectives, new)
      /\ new \in Objective /\ m_scoped_objectives \in Seq(Objective)
      /\ UNCHANGED <<hards, m_objectives_lim, m_objectives_term_trail,
                     m_objectives_term_trail_lim>>
  BY DEF AddObjective, NewObjective, Objective, IInv, ValuesInv
<1>2. Now' = [Now EXCEPT !.objectives = Append(@, new)]
  <2>1. Now' = [hard |-> m_hard, names |-> m_asms,
                objectives |-> Append(m_scoped_objectives, new)]
    BY <1>1 DEF Now, hards
  <2> HIDE DEF new
  <2> QED  BY <2>1 DEF Now
<1>3. index' = Len(Now'.objectives)
  BY DEF Now, AddObjective
<1>4. ASSUME NEW scope \in 1 .. Len(m_hard_lim)
      PROVE  Kept(scope)' = Kept(scope)
  <2>1. m_objectives_lim[scope] \in 0 .. Len(m_scoped_objectives)
    BY OpenScopes
  <2>2. \A i \in 1 .. m_objectives_lim[scope] :
            m_scoped_objectives'[i] = m_scoped_objectives[i]
    BY <1>1, <2>1, AppendFacts
  <2>3. \A i \in 1 .. m_objectives_lim[scope] :
            Rest(m_scoped_objectives', m_objectives_term_trail',
                 m_objectives_term_trail_lim[scope], i)
                = Rest(m_scoped_objectives, m_objectives_term_trail,
                       m_objectives_term_trail_lim[scope], i)
    BY <1>1, <2>2 DEF Rest
  <2> QED  BY <1>1, <2>3, ScopeKeeps DEF hards
<1>5. UNCHANGED Opened
  BY <1>1, <1>4, OpenedKeeps DEF hards
<1> QED  BY <1>2, <1>3, <1>5 DEF Promised!AddObjective, Opened

LEMMA AddSoftSim ==
    ASSUME IInv, IInv', NEW f \in Formula, NEW id \in Id,
           NEW weighted \in BOOLEAN, AddSoft(f, id, weighted)
    PROVE  Promised!AddSoft(f, id, weighted)
<1> DEFINE i == Joined(id)
           n == Len(m_scoped_objectives)
           objs == m_scoped_objectives
           terms == IF weighted THEN <<f>> ELSE <<>>
<1>1. /\ n \in Nat /\ i \in 1 .. JoinedSize(id) /\ JoinedTerms(id) \in Seq(Formula)
      /\ objs \in Seq(Objective) /\ objs' \in Seq(Objective)
      /\ Len(objs') = JoinedSize(id)
      /\ DOMAIN objs = 1 .. n /\ DOMAIN objs' = 1 .. JoinedSize(id)
  BY AddSoftObjective, LenProperties DEF IInv, ValuesInv
<1>2. /\ objs'[i].id = id
      /\ objs'[i].terms = IF weighted THEN Append(JoinedTerms(id), f)
                          ELSE JoinedTerms(id)
  BY AddSoftObjective
<1>3. \A j \in 1 .. n : j # i => objs'[j] = objs[j]
  BY AddSoftObjective
<1>4. /\ index' = i
      /\ m_objectives_term_trail' =
            IF weighted THEN Append(m_objectives_term_trail, i)
            ELSE m_objectives_term_trail
      /\ UNCHANGED <<hards, m_objectives_lim, m_objectives_term_trail_lim>>
  BY AddSoftBooks DEF AddSoft
<1>5. objs'[i] = [id |-> id, terms |-> JoinedTerms(id) \o terms]
  <2>1. objs'[i].terms = JoinedTerms(id) \o terms
    <3>1. Append(JoinedTerms(id), f) = JoinedTerms(id) \o <<f>>
      BY <1>1, AppendIsConcat
    <3>2. JoinedTerms(id) = JoinedTerms(id) \o <<>>
      BY <1>1, ConcatEmptySeq
    <3> QED  BY <1>2, <3>1, <3>2
  <2>2. objs'[i] \in Objective
    BY <1>1, ElementOfSeq
  <2> QED  BY <1>2, <2>1, <2>2 DEF Objective
<1>6. ASSUME NEW scope \in 1 .. Len(m_hard_lim)
      PROVE  Kept(scope)' = Kept(scope)
  <2> DEFINE k == m_objectives_term_trail_lim[scope]
             trail == m_objectives_term_trail
  <2>1. /\ m_objectives_lim[scope] \in 0 .. n
        /\ k \in 0 .. Len(trail)
        /\ trail \in Seq(Nat) /\ i \in Nat
    <3>1. trail \in Seq(1 .. n) /\ 1 .. n \subseteq Nat
      BY <1>1 DEF IInv, ValuesInv
    <3>2. trail \in Seq(Nat)
      BY <3>1, SeqMonotonic
    <3>3. i \in Nat
      BY <1>1 DEF JoinedSize
    <3> QED  BY <3>2, <3>3, OpenScopes
  <2>2. ASSUME NEW j \in 1 .. n
        PROVE  Rest(objs', trail', k, j) = Rest(objs, trail, k, j)
    <3>1. CASE ~weighted
      <4>1. objs'[j] = objs[j]
        <5>1. CASE j = i
          <6>1. id \in DOMAIN m_indices /\ JoinedTerms(id) = objs[j].terms
                /\ objs[j].id = id /\ objs[j] \in Objective
            BY <1>1, <5>1, ElementOfSeq
               DEF Joined, JoinedTerms, IInv, IndicesInv
          <6>2. objs'[j] \in Objective
            BY <1>1, <5>1, ElementOfSeq
          <6> QED  BY <1>2, <3>1, <5>1, <6>1, <6>2 DEF Objective
        <5> QED  BY <1>3, <5>1
      <4> QED  BY <1>4, <3>1, <4>1 DEF Rest
    <3>2. CASE weighted /\ j = i
      <4>1. JoinedTerms(id) = objs[j].terms /\ objs[j].id = id
        BY <1>1, <3>2 DEF Joined, JoinedTerms, IInv, IndicesInv
      <4>2. trail' = Append(trail, j)
        BY <1>4, <3>2
      <4>3. objs'[j].id = objs[j].id
            /\ objs'[j].terms = Append(objs[j].terms, f)
            /\ objs[j].terms \in Seq(Formula)
        BY <1>1, <1>2, <3>2, <4>1
      <4> HIDE DEF k, trail, objs
      <4> QED  BY <2>1, <4>2, <4>3, RestAfterTerm
    <3>3. CASE weighted /\ j # i
      <4>1. trail' = Append(trail, i) /\ objs'[j] = objs[j]
        BY <1>3, <1>4, <3>3
      <4>2. Cardinality(Added(Append(trail, i), k, j))
                = Cardinality(Added(trail, k, j))
        <5> HIDE DEF k, trail, i
        <5> QED  BY <2>1, <3>3, AddedByAppend
      <4> HIDE DEF k, trail, objs, i
      <4> QED  BY <4>1, <4>2 DEF Rest
    <3> QED  BY <3>1, <3>2, <3>3
  <2>3. \A j \in 1 .. m_objectives_lim[scope] :
            Rest(objs', trail', k, j) = Rest(objs, trail, k, j)
    BY <1>1, <2>1, <2>2
  <2> QED  BY <1>4, <2>3, ScopeKeeps DEF hards
<1>7. UNCHANGED Opened
  BY <1>4, <1>6, OpenedKeeps DEF hards
<1>8. \/ /\ \E j \in DOMAIN Now.objectives :
               /\ Now.objectives[j].id = id
               /\ Now' = [Now EXCEPT !.objectives[j].terms = @ \o terms]
               /\ index' = j
      \/ /\ \A j \in DOMAIN Now.objectives : Now.objectives[j].id # id
         /\ Now' = [Now EXCEPT !.objectives =
                        Append(@, [id |-> id, terms |-> terms])]
         /\ index' = Len(Now'.objectives)
  <2>1. CASE id \in DOMAIN m_indices
    <3>1. /\ i \in 1 .. n /\ objs[i].id = id /\ objs[i] \in Objective
          /\ JoinedTerms(id) = objs[i].terms /\ JoinedSize(id) = n
      BY <1>1, <2>1, ElementOfSeq
         DEF Joined, JoinedTerms, JoinedSize, IInv, IndicesInv
    <3>2. objs' = [objs EXCEPT ![i].terms = @ \o terms]
      <4> DEFINE old == objs[i]
                 changed == [objs EXCEPT ![i].terms = @ \o terms]
      <4>1. [old EXCEPT !.terms = @ \o terms]
                = [id |-> id, terms |-> old.terms \o terms]
        <5> DEFINE longer == old.terms \o terms
        <5>1. [old EXCEPT !.terms = longer]
                  = [id |-> old.id, terms |-> longer]
          <6> HIDE DEF longer
          <6> QED  BY <3>1 DEF Objective
        <5> QED  BY <3>1, <5>1
      <4>2. objs'[i] = changed[i]
        BY <1>1, <1>5, <3>1, <4>1
      <4>3. \A j \in 1 .. n : objs'[j] = changed[j]
        BY <1>1, <1>3, <4>2
      <4>4. /\ objs' = [j \in 1 .. n |-> objs'[j]]
            /\ changed = [j \in 1 .. n |-> changed[j]]
        BY <1>1, <3>1, LenProperties
      <4> QED  BY <4>3, <4>4
    <3>3. Now' = [Now EXCEPT !.objectives[i].terms = @ \o terms]
      <4>1. Now' = [hard |-> m_hard, names |-> m_asms,
                    objectives |-> [objs EXCEPT ![i].terms = @ \o terms]]
        BY <1>4, <3>2 DEF Now, hards
      <4> HIDE DEF i, terms
      <4> QED  BY <4>1 DEF Now
    <3> QED  BY <1>1, <1>4, <3>1, <3>3 DEF Now
  <2>2. CASE id \notin DOMAIN m_indices
    <3>1. /\ i = n + 1 /\ JoinedTerms(id) = <<>> /\ JoinedSize(id) = n + 1
      BY <2>2 DEF Joined, JoinedTerms, JoinedSize
    <3>2. \A j \in 1 .. n : objs[j].id # id
      BY <1>1, <2>2 DEF IInv, IndicesInv
    <3>3. objs' = Append(objs, [id |-> id, terms |-> terms])
      <4> DEFINE new == [id |-> id, terms |-> terms]
      <4>1. terms \in Seq(Formula) /\ <<>> \o terms = terms
        BY EmptySeq, ConcatEmptySeq
      <4>2. new \in Objective /\ objs'[n + 1] = new
        BY <1>5, <3>1, <4>1 DEF Objective
      <4> HIDE DEF new
      <4>3. /\ Append(objs, new) \in Seq(Objective)
            /\ Len(Append(objs, new)) = n + 1
            /\ Append(objs, new)[n + 1] = new
            /\ \A j \in 1 .. n : Append(objs, new)[j] = objs[j]
        BY <1>1, <4>2, AppendFacts
      <4>4. \A j \in 1 .. n + 1 : objs'[j] = Append(objs, new)[j]
        BY <1>1, <1>3, <3>1, <4>2, <4>3
      <4>5. objs' = Append(objs, new)
        BY <1>1, <3>1, <4>3, <4>4, SeqEqual
      <4> QED  BY <4>5 DEF new
    <3>4. Now' = [Now EXCEPT !.objectives =
                      Append(@, [id |-> id, terms |-> terms])]
      <4> DEFINE new == [id |-> id, terms |-> terms]
      <4>1. Now' = [hard |-> m_hard, names |-> m_asms,
                    objectives |-> Append(objs, new)]
        BY <1>4, <3>3 DEF Now, hards
      <4> HIDE DEF new
      <4>2. Now' = [Now EXCEPT !.objectives = Append(@, new)]
        BY <4>1 DEF Now
      <4> QED  BY <4>2 DEF new
    <3>5. index' = Len(Now'.objectives)
      BY <1>1, <1>4, <3>1 DEF Now
    <3> QED  BY <1>1, <3>2, <3>4, <3>5 DEF Now
  <2> QED  BY <2>1, <2>2
<1> QED  BY <1>7, <1>8 DEF Promised!AddSoft, Opened

\* Nothing is behind the end of the trail.
LEMMA RestIsAll ==
    ASSUME IInv, NEW i \in DOMAIN m_scoped_objectives
    PROVE  RestNow(Len(m_objectives_term_trail), i) = m_scoped_objectives[i]
<1> DEFINE n == Len(m_objectives_term_trail)
           terms == m_scoped_objectives[i].terms
<1>1. n \in Nat /\ m_scoped_objectives[i] \in Objective
  BY OpenScopes, ElementOfSeq DEF IInv, ValuesInv
<1>2. terms \in Seq(Formula) /\ Len(terms) \in Nat
  BY <1>1, LenProperties DEF Objective
<1>3. Cardinality(Added(m_objectives_term_trail, n, i)) = 0
  <2>1. Added(m_objectives_term_trail, n, i) = {}
    BY <1>1 DEF Added
  <2> QED  BY <2>1, FS_EmptySet
<1>4. SubSeq(terms, 1, Len(terms)
          - Cardinality(Added(m_objectives_term_trail, n, i))) = terms
  BY <1>2, <1>3, SubSeqFull
<1>5. RestNow(n, i) = [id |-> m_scoped_objectives[i].id, terms |-> terms]
  BY <1>4 DEF RestNow, Rest
<1> QED  BY <1>1, <1>5 DEF Objective

LEMMA PushSim ==
    ASSUME IInv, IInv', Push
    PROVE  Promised!Keep
<1>0. PICK n \in Nat : n = Len(m_hard_lim)
  BY OpenScopes
<1>1. /\ n \in Nat
      /\ DOMAIN m_hard_lim = 1 .. n /\ DOMAIN m_hard_lim' = 1 .. n + 1
      /\ Len(m_hard_lim') = n + 1
      /\ \A scope \in 1 .. n : m_hard_lim'[scope] = m_hard_lim[scope]
      /\ m_hard_lim'[n + 1] = Len(m_hard)
  <2>1. m_hard_lim \in Seq(0 .. Len(m_hard)) /\ Len(m_hard) \in 0 .. Len(m_hard)
    BY LenProperties DEF IInv, ValuesInv, LimitsInv, Marks
  <2> QED  BY <1>0, <2>1, AppendFacts DEF Push
<1>2. /\ \A scope \in 1 .. n : m_asms_lim'[scope] = m_asms_lim[scope]
      /\ m_asms_lim'[n + 1] = Len(m_asms)
  <2>1. m_asms_lim \in Seq(0 .. Len(m_asms)) /\ Len(m_asms) \in 0 .. Len(m_asms)
        /\ Len(m_asms_lim) = n
    BY <1>0, LenProperties DEF IInv, ValuesInv, LimitsInv, Marks
  <2> QED  BY <2>1, AppendFacts DEF Push
<1>3. /\ \A scope \in 1 .. n : m_objectives_lim'[scope] = m_objectives_lim[scope]
      /\ m_objectives_lim'[n + 1] = Len(m_scoped_objectives)
  <2>1. m_objectives_lim \in Seq(0 .. Len(m_scoped_objectives))
        /\ Len(m_scoped_objectives) \in 0 .. Len(m_scoped_objectives)
        /\ Len(m_objectives_lim) = n
    BY <1>0, LenProperties DEF IInv, ValuesInv, LimitsInv, Marks
  <2> QED  BY <2>1, AppendFacts DEF Push
<1>4. /\ \A scope \in 1 .. n : m_objectives_term_trail_lim'[scope] =
                                  m_objectives_term_trail_lim[scope]
      /\ m_objectives_term_trail_lim'[n + 1] = Len(m_objectives_term_trail)
  <2>1. m_objectives_term_trail_lim \in Seq(0 .. Len(m_objectives_term_trail))
        /\ Len(m_objectives_term_trail) \in 0 .. Len(m_objectives_term_trail)
        /\ Len(m_objectives_term_trail_lim) = n
    BY <1>0, LenProperties DEF IInv, ValuesInv, LimitsInv, Marks
  <2> QED  BY <2>1, AppendFacts DEF Push
<1>5. UNCHANGED <<m_hard, m_asms, m_scoped_objectives,
                  m_objectives_term_trail, index>>
  BY DEF Push
<1>6. ASSUME NEW scope \in 1 .. n
      PROVE  Kept(scope)' = Kept(scope)
  <2>1. scope \in 1 .. n + 1
    BY <1>1
  <2> QED  BY <1>0, <1>1, <1>2, <1>3, <1>4, <1>5, <2>1, ScopeKeeps
<1>7. Kept(n + 1)' = Now
  <2>1. ObjectivesAt(n + 1)' = m_scoped_objectives
    <3> DEFINE all == ObjectivesAt(n + 1)'
    <3>1. n + 1 \in 1 .. n + 1
      BY <1>1
    <3>2. AtScope(n + 1)'
      BY <1>1, <3>1, ScopesAfter DEF AllScopes
    <3>3. /\ all \in Seq(Objective) /\ Len(all) = Len(m_scoped_objectives)
          /\ \A i \in 1 .. Len(m_scoped_objectives) :
                all[i] = RestNow(Len(m_objectives_term_trail), i)
      BY <1>3, <1>4, <1>5, <3>2 DEF AtScope, RestNow
    <3>4. \A i \in 1 .. Len(m_scoped_objectives) :
              all[i] = m_scoped_objectives[i]
      BY <3>3, RestIsAll, OpenScopes
    <3> HIDE DEF all
    <3>5. m_scoped_objectives \in Seq(Objective)
      BY DEF IInv, ValuesInv
    <3>6. all = m_scoped_objectives
      BY <3>3, <3>4, <3>5, SeqEqual
    <3> QED  BY <3>6 DEF all
  <2>2. SubSeq(m_hard, 1, Len(m_hard)) = m_hard
        /\ SubSeq(m_asms, 1, Len(m_asms)) = m_asms
    BY SubSeqFull DEF IInv, ValuesInv
  <2> QED  BY <1>1, <1>2, <1>5, <2>1, <2>2 DEF Kept, Now
<1>8. Opened' = Append(Opened, Now)
  <2>1. /\ Opened = [scope \in 1 .. n |-> Kept(scope)]
        /\ Opened' = [scope \in 1 .. n + 1 |-> Kept(scope)']
    BY <1>1 DEF Opened
  <2>2. Len(Opened) = n
    BY <1>1, <2>1
  <2>3. Append(Opened, Now) = [scope \in 1 .. n + 1 |->
                                  IF scope = n + 1 THEN Now ELSE Opened[scope]]
    BY <1>1, <2>1, <2>2
  <2>4. \A scope \in 1 .. n + 1 :
            Kept(scope)' = IF scope = n + 1 THEN Now ELSE Opened[scope]
    <3>1. \A scope \in 1 .. n + 1 : scope = n + 1 \/ scope \in 1 .. n
      BY <1>1
    <3> QED  BY <1>6, <1>7, <2>1, <3>1
  <2> QED  BY <2>1, <2>3, <2>4
<1>9. UNCHANGED <<Now, index>>
  BY <1>5 DEF Now
<1> QED  BY <1>8, <1>9 DEF Promised!Keep, Opened

LEMMA PopSim ==
    ASSUME IInv, IInv', m_hard_lim # <<>>, Pop
    PROVE  Promised!BringBack
<1>0. PICK n \in Nat : n = Len(m_hard_lim)
  BY OpenScopes
<1>1. /\ n # 0 /\ n \in 1 .. n /\ n - 1 \in 0 .. n
      /\ DOMAIN m_hard_lim = 1 .. n
      /\ \A scope \in 1 .. n - 1 : scope \in 1 .. n
  <2>1. n # 0
    BY <1>0, EmptySeq DEF IInv, LimitsInv, Marks
  <2> QED  BY <1>0, <2>1, OpenScopes
<1>2. PopScope(n)
  BY <1>0 DEF Pop
<1>3. /\ Len(m_hard_lim') = n - 1 /\ DOMAIN m_hard_lim' = 1 .. n - 1
      /\ \A scope \in 1 .. n - 1 :
            m_hard_lim'[scope] = m_hard_lim[scope]
            /\ m_hard_lim[scope] \in 0 .. m_hard_lim[n]
  <2>1. Marks(m_hard_lim, m_hard) /\ n \in 1 .. Len(m_hard_lim)
    BY <1>0, <1>1, OpenScopes, LenProperties DEF IInv, LimitsInv, Marks
  <2>2. m_hard_lim' = SubSeq(m_hard_lim, 1, n - 1)
    BY <1>2 DEF PopScope
  <2> QED  BY <2>1, <2>2, OuterLimits
<1>4. \A scope \in 1 .. n - 1 :
          m_asms_lim'[scope] = m_asms_lim[scope]
          /\ m_asms_lim[scope] \in 0 .. m_asms_lim[n]
  <2>1. Marks(m_asms_lim, m_asms) /\ n \in 1 .. Len(m_asms_lim)
    BY <1>0, <1>1, OpenScopes, LenProperties DEF IInv, LimitsInv, Marks
  <2>2. m_asms_lim' = SubSeq(m_asms_lim, 1, n - 1)
    BY <1>2 DEF PopScope
  <2> QED  BY <2>1, <2>2, OuterLimits
<1>5. \A scope \in 1 .. n - 1 :
          m_objectives_lim'[scope] = m_objectives_lim[scope]
          /\ m_objectives_lim[scope] \in 0 .. m_objectives_lim[n]
  <2>1. Marks(m_objectives_lim, m_scoped_objectives) /\ n \in 1 .. Len(m_objectives_lim)
    BY <1>0, <1>1, OpenScopes, LenProperties DEF IInv, LimitsInv, Marks
  <2>2. m_objectives_lim' = SubSeq(m_objectives_lim, 1, n - 1)
    BY <1>2 DEF PopScope
  <2> QED  BY <2>1, <2>2, OuterLimits
<1>6. \A scope \in 1 .. n - 1 :
          m_objectives_term_trail_lim'[scope] =
              m_objectives_term_trail_lim[scope]
          /\ m_objectives_term_trail_lim[scope]
                \in 0 .. m_objectives_term_trail_lim[n]
  <2>1. Marks(m_objectives_term_trail_lim, m_objectives_term_trail) /\ n \in 1 .. Len(m_objectives_term_trail_lim)
    BY <1>0, <1>1, OpenScopes, LenProperties DEF IInv, LimitsInv, Marks
  <2>2. m_objectives_term_trail_lim' = SubSeq(m_objectives_term_trail_lim, 1, n - 1)
    BY <1>2 DEF PopScope
  <2> QED  BY <2>1, <2>2, OuterLimits
<1>7. ASSUME NEW scope \in 1 .. n - 1
      PROVE  Kept(scope)' = Kept(scope)
  <2> DEFINE m == m_objectives_term_trail_lim[n]
             k == m_objectives_term_trail_lim[scope]
  <2>1. /\ m_hard_lim[n] \in 0 .. Len(m_hard)
        /\ m_asms_lim[n] \in 0 .. Len(m_asms)
        /\ m_objectives_lim[n] \in 0 .. Len(m_scoped_objectives)
        /\ m \in 0 .. Len(m_objectives_term_trail)
    BY <1>0, <1>1, OpenScopes
  <2>2. SubSeq(m_hard', 1, m_hard_lim[scope])
            = SubSeq(m_hard, 1, m_hard_lim[scope])
    BY <1>2, <1>3, <2>1, PrefixOfPrefix DEF PopScope, IInv, ValuesInv
  <2>3. SubSeq(m_asms', 1, m_asms_lim[scope])
            = SubSeq(m_asms, 1, m_asms_lim[scope])
    BY <1>2, <1>4, <2>1, PrefixOfPrefix DEF PopScope, IInv, ValuesInv
  <2>4. ASSUME NEW i \in 1 .. m_objectives_lim[scope]
        PROVE  Rest(m_scoped_objectives', m_objectives_term_trail', k, i)
                   = Rest(m_scoped_objectives, m_objectives_term_trail, k, i)
    <3>1. i \in 1 .. m_objectives_lim[n] /\ i \in DOMAIN m_scoped_objectives
      <4>1. m_objectives_lim[scope] \in 0 .. m_objectives_lim[n]
            /\ DOMAIN m_scoped_objectives = 1 .. Len(m_scoped_objectives)
            /\ Len(m_scoped_objectives) \in Nat
        BY <1>5, OpenScopes
      <4> QED  BY <2>1, <4>1
    <3>2. m_scoped_objectives'[i]
              = Rest(m_scoped_objectives, m_objectives_term_trail, m, i)
      BY <1>0, <1>1, <1>2, <3>1, ObjectivesAtScope DEF PopScope, RestNow
    <3>3. /\ m_objectives_term_trail \in Seq(DOMAIN m_scoped_objectives)
          /\ m_objectives_term_trail' = SubSeq(m_objectives_term_trail, 1, m)
      BY <1>2 DEF IInv, ValuesInv, PopScope
    <3>4. m_scoped_objectives[i].terms \in Seq(Formula)
      <4>1. m_scoped_objectives[i] \in Objective
        BY <3>1, OpenScopes, ElementOfSeq DEF IInv, ValuesInv
      <4> QED  BY <4>1 DEF Objective
    <3>5. k \in 0 .. m
      BY <1>6
    <3> HIDE DEF k, m
    <3>6. Rest(m_scoped_objectives', SubSeq(m_objectives_term_trail, 1, m), k, i)
              = Rest(m_scoped_objectives, m_objectives_term_trail, k, i)
      BY <2>1, <3>2, <3>3, <3>4, <3>5, RestOfRest
    <3> QED  BY <3>3, <3>6
  <2> QED  BY <1>0, <1>1, <1>3, <1>4, <1>5, <1>6, <2>2, <2>3, <2>4, ScopeKeeps
<1>8. /\ Opened = [scope \in 1 .. n |-> Kept(scope)]
      /\ Opened' = [scope \in 1 .. n - 1 |-> Kept(scope)']
      /\ Len(Opened) = n
  BY <1>1, <1>3 DEF Opened
<1>9. Opened' = SubSeq(Opened, 1, n - 1)
  <2>1. SubSeq(Opened, 1, n - 1) = [scope \in 1 .. n - 1 |-> Opened[scope]]
    BY <1>1, <1>8
  <2>2. \A scope \in 1 .. n - 1 : Kept(scope)' = Opened[scope]
    BY <1>1, <1>7, <1>8
  <2> QED  BY <1>8, <2>1, <2>2
<1>10. Now' = Opened[n]
  <2>1. Now' = Kept(n)
    BY <1>2 DEF PopScope, Kept, Now
  <2> QED  BY <1>1, <1>8, <2>1
<1>11. Opened # <<>>
  BY <1>1, <1>8
<1>12. UNCHANGED index
  BY DEF Pop
<1> QED  BY <1>8, <1>9, <1>10, <1>11, <1>12 DEF Promised!BringBack, Opened

\* A pop without a push, and a check, change nothing of the stack.
LEMMA ResultsSim ==
    ASSUME IInv, UNCHANGED <<hards, objectives, index>>
    PROVE  UNCHANGED <<Now, Opened, index>>
<1>1. UNCHANGED Now
  BY DEF Now, hards, objectives
<1> QED  BY <1>1, OpenedUnchanged

LEMMA InitSim == Init => Promised!AbsInit
<1> SUFFICES ASSUME Init
             PROVE  Promised!AbsInit
  OBVIOUS
<1>1. Opened = <<>>
  BY DEF Init, Opened
<1> QED  BY <1>1 DEF Init, Opened, Now, Promised!AbsInit, Promised!Empty

LEMMA StepSim ==
    IInv /\ IInv' /\ [Next]_vars
        => [Promised!AbsNext]_<<Now, Opened, index>>
<1> SUFFICES ASSUME IInv, IInv', [Next]_vars
             PROVE  Promised!AbsNext \/ UNCHANGED <<Now, Opened, index>>
  OBVIOUS
<1>1. ASSUME NEW f \in Formula, NEW ns \in {<<>>} \cup {<<n>> : n \in Name},
             AddHard(f, ns)
      PROVE  Promised!AbsNext
  <2>1. ns \in Seq(Name)
    <3>1. CASE ns = <<>>
      BY <3>1, EmptySeq
    <3>2. CASE \E n \in Name : ns = <<n>>
      <4> PICK n \in Name : ns = <<n>>
        BY <3>2
      <4> QED  OBVIOUS
    <3> QED  BY <3>1, <3>2
  <2> QED  BY <1>1, <2>1, AddHardSim DEF Promised!AbsNext
<1>2. ASSUME NEW f \in Formula, NEW id \in Id, NEW weighted \in BOOLEAN,
             AddSoft(f, id, weighted)
      PROVE  Promised!AbsNext
  BY <1>2, AddSoftSim DEF Promised!AbsNext
<1>3. ASSUME NEW t \in Formula, AddObjective(t)
      PROVE  Promised!AbsNext
  BY <1>3, AddObjectiveSim DEF Promised!AbsNext
<1>4. CASE Push
  BY <1>4, PushSim DEF Promised!AbsNext
<1>5. CASE Pop
  <2>1. CASE m_hard_lim # <<>>
    BY <1>5, <2>1, PopSim DEF Promised!AbsNext
  <2>2. CASE m_hard_lim = <<>>
    <3>1. UNCHANGED <<hards, objectives, index>>
      BY <1>5, <2>2 DEF Pop
    <3> QED  BY <3>1, ResultsSim
  <2> QED  BY <2>1, <2>2
<1>6. CASE RefuseObjective \/ CheckAnew \/ CheckBox \/ CheckPareto
  <2>1. UNCHANGED <<hards, objectives, index>>
    BY <1>6 DEF RefuseObjective, CheckAnew, CheckBox, CheckPareto
  <2> QED  BY <2>1, ResultsSim
<1>7. CASE UNCHANGED vars
  <2>1. UNCHANGED <<hards, objectives, index>>
    BY <1>7 DEF vars
  <2> QED  BY <2>1, ResultsSim
<1> QED  BY <1>1, <1>2, <1>3, <1>4, <1>5, <1>6, <1>7 DEF Next

\* opt::context keeps what a stack of constraints and objectives promises:
\* whatever is added to objectives of outer scopes, each pop brings back
\* what the matching push has found, and identifiers lead to the objectives
\* that have them.
THEOREM Implements == Spec => RestoresStack
<1>1. IInv /\ IInv' /\ [Next]_vars
          => [Promised!AbsNext]_<<Now, [scope \in DOMAIN m_hard_lim |->
                                            Kept(scope)], index>>
  BY StepSim DEF Opened
<1> QED  BY <1>1, InitSim, Invariance, PTL
         DEF Spec, RestoresStack, Promised!AbsSpec
=============================================================================
