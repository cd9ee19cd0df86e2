------------------------ MODULE OptimizeScopesProofs ------------------------
(***************************************************************************)
(* Proofs about OptimizeScopes: the flat vectors and their limits keep     *)
(* their types, a result that is kept is one of the present constraints,   *)
(* and scopes restore what the matching push has found, for any formulas,  *)
(* names and identifiers and any bounds.                                   *)
(***************************************************************************)
EXTENDS OptimizeScopes, DataLemmas, FiniteSetTheorems

---------------------------------------------------------------------------
(* The inductive invariant.                                                *)

Objective == [id : Id \cup {NoId}, terms : Seq(Formula)]

ValuesInv ==
    /\ m_hard \in Seq(Formula)
    /\ m_asms \in Seq(Name)
    /\ m_scoped_objectives \in Seq(Objective)
    /\ m_objectives_term_trail \in Seq(DOMAIN m_scoped_objectives)

LimitsInv ==
    /\ Marks(m_hard_lim, m_hard)
    /\ Marks(m_asms_lim, m_asms)
    /\ Marks(m_objectives_lim, m_scoped_objectives)
    /\ Marks(m_objectives_term_trail_lim, m_objectives_term_trail)
    /\ Len(m_hard_lim) = Len(m_asms_lim)
    /\ Len(m_hard_lim) = Len(m_objectives_lim)
    /\ Len(m_hard_lim) = Len(m_objectives_term_trail_lim)

\* Terms added before a scope went to objectives that were there before it.
TrailInv ==
    \A scope \in DOMAIN m_objectives_lim :
        \A j \in 1 .. m_objectives_term_trail_lim[scope] :
            m_objectives_term_trail[j] <= m_objectives_lim[scope]

\* The map leads from an identifier to the one objective that has it.
IndicesInv ==
    /\ m_indices \in [DOMAIN m_indices -> DOMAIN m_scoped_objectives]
    /\ DOMAIN m_indices \subseteq Id
    /\ \A x \in DOMAIN m_indices : m_scoped_objectives[m_indices[x]].id = x
    /\ \A i \in DOMAIN m_scoped_objectives :
          m_scoped_objectives[i].id \in Id =>
              /\ m_scoped_objectives[i].id \in DOMAIN m_indices
              /\ m_indices[m_scoped_objectives[i].id] = i

ResultsInv ==
    /\ engines \subseteq DOMAIN m_objectives
    /\ index \in 0 .. MaxObjectives
    /\ m_box_index \in Nat
    /\ m_box_models \in Seq({None, Now})
    /\ {m_model, m_pareto} \subseteq {None, Now}

IInv == ValuesInv /\ LimitsInv /\ TrailInv /\ IndicesInv /\ ResultsInv

---------------------------------------------------------------------------
(* One lemma per operation, one step per conjunct of IInv.                 *)

\* A box, a Pareto enumeration and a model do not outlive a change.
LEMMA ClearedResults ==
    ASSUME ResultsInv, ClearState, UNCHANGED <<m_objectives>>,
           engines' \subseteq engines, index' \in 0 .. MaxObjectives
    PROVE  ResultsInv'
  BY EmptySeq DEF ResultsInv, ClearState, None

LEMMA AddHardInv ==
    ASSUME IInv, NEW f \in Formula, NEW names \in Seq(Name),
           AddHard(f, names)
    PROVE  IInv'
<1>1. /\ m_hard' \in Seq(Formula) /\ Len(m_hard) <= Len(m_hard')
      /\ m_asms' \in Seq(Name) /\ Len(m_asms) <= Len(m_asms')
  BY AppendProperties, ConcatProperties, LenProperties
     DEF IInv, ValuesInv, AddHard
<1>2. ValuesInv'
  BY <1>1 DEF IInv, ValuesInv, AddHard, objectives
<1>3. LimitsInv'
  BY <1>1, MarksGrow DEF IInv, ValuesInv, LimitsInv, AddHard, objectives
<1>4. TrailInv'
  BY DEF IInv, TrailInv, AddHard, objectives
<1>5. IndicesInv'
  BY DEF IInv, IndicesInv, AddHard, objectives
<1>6. ResultsInv'
  BY ClearedResults DEF IInv, ResultsInv, AddHard
<1> QED  BY <1>2, <1>3, <1>4, <1>5, <1>6 DEF IInv

LEMMA AddObjectiveInv ==
    ASSUME IInv, NEW t \in Formula, AddObjective(t)
    PROVE  IInv'
<1> DEFINE n == Len(m_scoped_objectives)
           new == [id |-> NoId, terms |-> <<t>>]
<1>1. /\ m_scoped_objectives' \in Seq(Objective)
      /\ Len(m_scoped_objectives') = n + 1
      /\ n \in Nat
      /\ DOMAIN m_scoped_objectives = 1 .. n
      /\ DOMAIN m_scoped_objectives' = 1 .. n + 1
      /\ m_scoped_objectives'[n + 1] = new
      /\ \A i \in 1 .. n : m_scoped_objectives'[i] = m_scoped_objectives[i]
  <2>1. new \in Objective
    BY DEF Objective
  <2> QED  BY <2>1, AppendProperties, LenProperties
           DEF IInv, ValuesInv, AddObjective, NewObjective
<1>2. DOMAIN m_scoped_objectives \subseteq DOMAIN m_scoped_objectives'
  BY <1>1
<1>3. ValuesInv'
  BY <1>1, <1>2, SeqMonotonic DEF IInv, ValuesInv, AddObjective, hards
<1>4. LimitsInv'
  <2>1. Marks(m_objectives_lim, m_scoped_objectives')
    BY <1>1, MarksGrow DEF IInv, ValuesInv, LimitsInv
  <2> QED  BY <2>1 DEF IInv, LimitsInv, AddObjective, hards
<1>5. TrailInv'
  BY DEF IInv, TrailInv, AddObjective
<1>6. IndicesInv'
  <2>1. UNCHANGED m_indices
    BY DEF AddObjective
  <2>2. new.id \notin Id
    BY NoIdAssumption
  <2> HIDE DEF new
  <2> QED  BY <1>1, <2>1, <2>2 DEF IInv, IndicesInv
<1>7. ResultsInv'
  <2>1. index' \in 0 .. MaxObjectives
    BY <1>1, BoundsAssumption DEF AddObjective
  <2> QED  BY <2>1, ClearedResults DEF IInv, AddObjective
<1> QED  BY <1>3, <1>4, <1>5, <1>6, <1>7 DEF IInv

LEMMA RefuseObjectiveInv ==
    ASSUME IInv, RefuseObjective
    PROVE  IInv'
<1>1. UNCHANGED <<hards, objectives>>
  BY DEF RefuseObjective
<1>2. ValuesInv' /\ LimitsInv' /\ TrailInv' /\ IndicesInv'
  BY <1>1 DEF hards, objectives, IInv, ValuesInv, LimitsInv, TrailInv,
     IndicesInv
<1>3. ResultsInv'
  BY ClearedResults DEF IInv, ResultsInv, RefuseObjective
<1> QED  BY <1>2, <1>3 DEF IInv

\* The objective a soft constraint joins or opens, and its terms so far.
Joined(id) ==
    IF id \in DOMAIN m_indices THEN m_indices[id]
    ELSE Len(m_scoped_objectives) + 1

JoinedTerms(id) ==
    IF id \in DOMAIN m_indices THEN m_scoped_objectives[Joined(id)].terms
    ELSE <<>>

JoinedSize(id) ==
    IF id \in DOMAIN m_indices THEN Len(m_scoped_objectives)
    ELSE Len(m_scoped_objectives) + 1

\* The index is returned, entered in the trail, and kept for the identifier.
LEMMA AddSoftBooks ==
    ASSUME IInv, NEW f \in Formula, NEW id \in Id, NEW weighted \in BOOLEAN,
           AddSoft(f, id, weighted)
    PROVE  /\ index' = Joined(id)
           /\ m_objectives_term_trail' =
                 IF weighted THEN Append(m_objectives_term_trail, Joined(id))
                 ELSE m_objectives_term_trail
           /\ m_indices' = [x \in DOMAIN m_indices \cup {id} |->
                               IF x = id THEN Joined(id) ELSE m_indices[x]]
<1>1. Len(NewObjective(id, <<>>)) = Len(m_scoped_objectives) + 1
  <2>1. [id |-> id, terms |-> <<>>] \in Objective
    BY EmptySeq DEF Objective
  <2> QED  BY <2>1, AppendFacts DEF IInv, ValuesInv, NewObjective
<1> QED  BY <1>1 DEF AddSoft, Joined

\* A soft constraint changes one objective, and that objective only.
LEMMA AddSoftObjective ==
    ASSUME IInv, NEW f \in Formula, NEW id \in Id, NEW weighted \in BOOLEAN,
           AddSoft(f, id, weighted)
    PROVE  /\ Len(m_scoped_objectives) \in Nat
           /\ Joined(id) \in 1 .. JoinedSize(id)
           /\ JoinedSize(id) <= MaxObjectives
           /\ JoinedTerms(id) \in Seq(Formula)
           /\ m_scoped_objectives' \in Seq(Objective)
           /\ Len(m_scoped_objectives') = JoinedSize(id)
           /\ m_scoped_objectives'[Joined(id)].id = id
           /\ m_scoped_objectives'[Joined(id)].terms =
                 IF weighted THEN Append(JoinedTerms(id), f)
                 ELSE JoinedTerms(id)
           /\ \A j \in 1 .. Len(m_scoped_objectives) \ {Joined(id)} :
                 m_scoped_objectives'[j] = m_scoped_objectives[j]
<1> DEFINE n == Len(m_scoped_objectives)
           known == id \in DOMAIN m_indices
           i == IF known THEN m_indices[id] ELSE n + 1
           m == IF known THEN n ELSE n + 1
           old == IF known THEN m_scoped_objectives[i].terms ELSE <<>>
           new == IF weighted THEN Append(old, f) ELSE old
           opened == IF known THEN m_scoped_objectives
                     ELSE NewObjective(id, <<>>)
<1>1. n \in Nat /\ DOMAIN m_scoped_objectives = 1 .. n
  BY LenProperties DEF IInv, ValuesInv
<1>2. /\ opened \in Seq(Objective) /\ Len(opened) = m
      /\ i \in 1 .. m
      /\ \A j \in 1 .. n : opened[j] = m_scoped_objectives[j]
      /\ opened[i] = [id |-> id, terms |-> old]
      /\ old \in Seq(Formula)
  <2>1. CASE known
    <3>1. i \in 1 .. n /\ m_scoped_objectives[i].id = id
          /\ m_scoped_objectives[i] \in Objective
      BY <1>1, <2>1, ElementOfSeq DEF IInv, ValuesInv, IndicesInv
    <3> QED  BY <1>1, <2>1, <3>1 DEF IInv, ValuesInv, Objective
  <2>2. CASE ~known
    <3>1. [id |-> id, terms |-> <<>>] \in Objective
      BY EmptySeq DEF Objective
    <3> QED  BY <1>1, <2>2, <3>1, AppendProperties, EmptySeq
             DEF IInv, ValuesInv, NewObjective
  <2> QED  BY <2>1, <2>2
<1>3. /\ m <= MaxObjectives
      /\ m_scoped_objectives' =
            IF weighted THEN [opened EXCEPT ![i].terms = Append(@, f)]
            ELSE opened
  <2>1. i = IF known THEN m_indices[id] ELSE Len(opened)
    BY <1>2
  <2> QED  BY <1>2, <2>1 DEF AddSoft
<1>4. new \in Seq(Formula)
  BY <1>2, AppendProperties
<1>5. /\ m_scoped_objectives' = [opened EXCEPT ![i] = [id |-> id,
                                                      terms |-> new]]
  <2>1. DOMAIN opened = 1 .. m
    BY <1>2, LenProperties
  <2> HIDE DEF opened
  <2>2. CASE weighted
    <3>1. Append(opened[i].terms, f) = new
      BY <1>2, <2>2
    <3>2. m_scoped_objectives' =
              [opened EXCEPT ![i] = [@ EXCEPT !.terms = new]]
      BY <1>3, <2>2, <3>1
    <3>3. [opened[i] EXCEPT !.terms = new] = [id |-> id, terms |-> new]
      <4> HIDE DEF i, old, new
      <4>1. opened[i] = [id |-> id, terms |-> old]
        BY <1>2
      <4> HIDE DEF opened
      <4> QED  BY <4>1
    <3> QED  BY <1>2, <2>1, <3>2, <3>3
  <2>3. CASE ~weighted
    BY <1>2, <1>3, <2>1, <2>3
  <2> QED  BY <2>2, <2>3
<1>6. [id |-> id, terms |-> new] \in Objective
  BY <1>4 DEF Objective
<1>7. /\ m_scoped_objectives' \in Seq(Objective)
      /\ Len(m_scoped_objectives') = m
      /\ m_scoped_objectives'[i] = [id |-> id, terms |-> new]
      /\ \A j \in 1 .. n :
            j # i => m_scoped_objectives'[j] = m_scoped_objectives[j]
  <2>1. 1 .. n \subseteq 1 .. m
    BY <1>1
  <2> HIDE DEF opened, new, old
  <2> QED  BY <1>1, <1>2, <1>5, <1>6, <2>1, ExceptSeq
<1>8. i = Joined(id) /\ old = JoinedTerms(id) /\ m = JoinedSize(id)
  BY DEF Joined, JoinedTerms, JoinedSize
<1> HIDE DEF i, m, old, known, opened
<1> QED  BY <1>1, <1>2, <1>3, <1>7, <1>8

LEMMA AddSoftInv ==
    ASSUME IInv, NEW f \in Formula, NEW id \in Id, NEW weighted \in BOOLEAN,
           AddSoft(f, id, weighted)
    PROVE  IInv'
<1> DEFINE n == Len(m_scoped_objectives)
           m == Len(m_scoped_objectives')
           i == index'
<1>1. /\ n \in Nat /\ m \in Nat /\ n <= m /\ i \in 1 .. m
      /\ m <= MaxObjectives
      /\ m_scoped_objectives' \in Seq(Objective)
      /\ DOMAIN m_scoped_objectives = 1 .. n
      /\ DOMAIN m_scoped_objectives' = 1 .. m
      /\ m_scoped_objectives'[i].id = id
      /\ \A j \in 1 .. n :
            j # i => m_scoped_objectives'[j] = m_scoped_objectives[j]
      /\ \A j \in 1 .. m : j \in 1 .. n \/ j = i
      /\ m_objectives_term_trail' =
            IF weighted THEN Append(m_objectives_term_trail, i)
            ELSE m_objectives_term_trail
      /\ m_indices' = [x \in DOMAIN m_indices \cup {id} |->
                          IF x = id THEN i ELSE m_indices[x]]
      /\ id \in DOMAIN m_indices => i = m_indices[id]
      /\ id \notin DOMAIN m_indices => i = n + 1
  <2> DEFINE at == Joined(id)
  <2>1. /\ n \in Nat /\ at \in 1 .. m /\ m <= MaxObjectives
        /\ i = at /\ m = JoinedSize(id)
        /\ m_scoped_objectives' \in Seq(Objective)
        /\ m_scoped_objectives'[at].id = id
        /\ \A j \in 1 .. n :
              j # at => m_scoped_objectives'[j] = m_scoped_objectives[j]
        /\ m_objectives_term_trail' =
              IF weighted THEN Append(m_objectives_term_trail, at)
              ELSE m_objectives_term_trail
        /\ m_indices' = [x \in DOMAIN m_indices \cup {id} |->
                            IF x = id THEN at ELSE m_indices[x]]
    <3>1. n \in Nat /\ at \in 1 .. JoinedSize(id)
          /\ JoinedSize(id) <= MaxObjectives
      BY AddSoftObjective
    <3>2. m = JoinedSize(id) /\ m_scoped_objectives' \in Seq(Objective)
      BY AddSoftObjective
    <3>3. m_scoped_objectives'[at].id = id
      BY AddSoftObjective
    <3>4. \A j \in 1 .. n :
              j # at => m_scoped_objectives'[j] = m_scoped_objectives[j]
      BY AddSoftObjective
    <3>5. /\ i = at
          /\ m_objectives_term_trail' =
                IF weighted THEN Append(m_objectives_term_trail, at)
                ELSE m_objectives_term_trail
          /\ m_indices' = [x \in DOMAIN m_indices \cup {id} |->
                              IF x = id THEN at ELSE m_indices[x]]
      BY AddSoftBooks
    <3> HIDE DEF at
    <3> QED  BY <3>1, <3>2, <3>3, <3>4, <3>5
  <2>2. DOMAIN m_scoped_objectives = 1 .. n
    BY LenProperties DEF IInv, ValuesInv
  <2>3. DOMAIN m_scoped_objectives' = 1 .. m
    BY <2>1, LenProperties
  <2>4. n <= m /\ m \in Nat /\ \A j \in 1 .. m : j \in 1 .. n \/ j = i
    BY <2>1 DEF Joined, JoinedSize
  <2>5. /\ id \in DOMAIN m_indices => i = m_indices[id]
        /\ id \notin DOMAIN m_indices => i = n + 1
    BY <2>1 DEF Joined
  <2> HIDE DEF at
  <2> QED  BY <2>1, <2>2, <2>3, <2>4, <2>5
<1>2. 1 .. n \subseteq 1 .. m
  BY <1>1
<1>3. /\ m_objectives_term_trail' \in Seq(DOMAIN m_scoped_objectives')
      /\ Len(m_objectives_term_trail) <= Len(m_objectives_term_trail')
      /\ m_objectives_term_trail \in Seq(DOMAIN m_scoped_objectives')
      /\ \A j \in 1 .. Len(m_objectives_term_trail) :
            m_objectives_term_trail'[j] = m_objectives_term_trail[j]
  <2>1. m_objectives_term_trail \in Seq(1 .. m)
    BY <1>1, <1>2, SeqMonotonic DEF IInv, ValuesInv
  <2>2. CASE weighted
    BY <1>1, <2>1, <2>2, AppendFacts
  <2>3. CASE ~weighted
    BY <1>1, <2>1, <2>3, LenProperties
  <2> QED  BY <2>2, <2>3
<1>4. ValuesInv'
  BY <1>1, <1>3 DEF IInv, ValuesInv, AddSoft, hards
<1>5. LimitsInv'
  <2>1. Marks(m_objectives_lim, m_scoped_objectives')
    BY <1>1, MarksGrow DEF IInv, ValuesInv, LimitsInv
  <2>2. Marks(m_objectives_term_trail_lim, m_objectives_term_trail')
    BY <1>3, MarksGrow DEF IInv, ValuesInv, LimitsInv
  <2> QED  BY <2>1, <2>2 DEF IInv, LimitsInv, AddSoft, hards
<1>6. TrailInv'
  <2>1. UNCHANGED <<m_objectives_lim, m_objectives_term_trail_lim>>
    BY DEF AddSoft
  <2>2. \A scope \in DOMAIN m_objectives_lim :
            m_objectives_term_trail_lim[scope]
                \in 0 .. Len(m_objectives_term_trail)
    BY LenProperties, ElementOfSeq DEF IInv, LimitsInv, Marks
  <2>3. ASSUME NEW scope \in DOMAIN m_objectives_lim,
               NEW j \in 1 .. m_objectives_term_trail_lim[scope]
        PROVE  m_objectives_term_trail'[j] <= m_objectives_lim[scope]
    <3>1. j \in 1 .. Len(m_objectives_term_trail)
      BY <2>2, LenProperties DEF IInv, ValuesInv
    <3> QED  BY <1>3, <3>1 DEF IInv, TrailInv
  <2> QED  BY <2>1, <2>3 DEF TrailInv
<1>7. IndicesInv'
  <2>1. m_indices' \in [DOMAIN m_indices' -> 1 .. m]
        /\ DOMAIN m_indices' = DOMAIN m_indices \cup {id}
    BY <1>1 DEF IInv, IndicesInv
  <2>2. ASSUME NEW x \in DOMAIN m_indices'
        PROVE  m_scoped_objectives'[m_indices'[x]].id = x
    <3>1. CASE x = id
      BY <1>1, <3>1
    <3>2. CASE x # id
      <4>1. x \in DOMAIN m_indices /\ m_indices'[x] = m_indices[x]
            /\ m_indices[x] \in 1 .. n
            /\ m_scoped_objectives[m_indices[x]].id = x
        BY <1>1, <2>1, <3>2 DEF IInv, IndicesInv
      <4>2. m_indices[x] # i
        BY <1>1, <3>2, <4>1 DEF IInv, IndicesInv
      <4> QED  BY <1>1, <4>1, <4>2
    <3> QED  BY <3>1, <3>2
  <2>3. ASSUME NEW j \in 1 .. m, m_scoped_objectives'[j].id \in Id
        PROVE  /\ m_scoped_objectives'[j].id \in DOMAIN m_indices'
               /\ m_indices'[m_scoped_objectives'[j].id] = j
    <3>1. CASE j = i
      BY <1>1, <2>1, <3>1
    <3>2. CASE j # i
      <4> DEFINE x == m_scoped_objectives[j].id
      <4>1. j \in 1 .. n /\ m_scoped_objectives'[j].id = x
            /\ x \in DOMAIN m_indices /\ m_indices[x] = j
        BY <1>1, <2>3, <3>2 DEF IInv, IndicesInv
      <4>2. x # id
        BY <1>1, <3>2, <4>1
      <4> QED  BY <1>1, <4>1, <4>2
    <3> QED  BY <3>1, <3>2
  <2> QED  BY <1>1, <2>1, <2>2, <2>3 DEF IInv, IndicesInv
<1>8. ResultsInv'
  <2>1. index' \in 0 .. MaxObjectives
    BY <1>1, BoundsAssumption
  <2> QED  BY <2>1, ClearedResults DEF IInv, AddSoft
<1> QED  BY <1>4, <1>5, <1>6, <1>7, <1>8 DEF IInv

\* A push adds one limit to each vector.
LEMMA PushInv ==
    ASSUME IInv, Push
    PROVE  IInv'
<1>1. ValuesInv'
  BY DEF IInv, ValuesInv, Push
<1>2. LimitsInv'
  <2>1. /\ Marks(m_hard_lim', m_hard)
        /\ Marks(m_asms_lim', m_asms)
        /\ Marks(m_objectives_lim', m_scoped_objectives)
        /\ Marks(m_objectives_term_trail_lim', m_objectives_term_trail)
    BY MarksPush DEF IInv, ValuesInv, LimitsInv, Push
  <2>2. /\ Len(m_hard_lim') = Len(m_hard_lim) + 1
        /\ Len(m_asms_lim') = Len(m_asms_lim) + 1
        /\ Len(m_objectives_lim') = Len(m_objectives_lim) + 1
        /\ Len(m_objectives_term_trail_lim') =
              Len(m_objectives_term_trail_lim) + 1
    <3>1. /\ m_hard_lim \in Seq(0 .. Len(m_hard))
          /\ Len(m_hard) \in 0 .. Len(m_hard)
          /\ m_asms_lim \in Seq(0 .. Len(m_asms))
          /\ Len(m_asms) \in 0 .. Len(m_asms)
          /\ m_objectives_lim \in Seq(0 .. Len(m_scoped_objectives))
          /\ Len(m_scoped_objectives) \in 0 .. Len(m_scoped_objectives)
          /\ m_objectives_term_trail_lim
                \in Seq(0 .. Len(m_objectives_term_trail))
          /\ Len(m_objectives_term_trail) \in 0 .. Len(m_objectives_term_trail)
      BY LenProperties DEF IInv, ValuesInv, LimitsInv, Marks
    <3> QED  BY <3>1, AppendFacts DEF Push
  <2> QED  BY <2>1, <2>2 DEF IInv, LimitsInv, Push
<1>3. TrailInv'
  <2> DEFINE n == Len(m_objectives_lim)
  <2>1. /\ n \in Nat
        /\ DOMAIN m_objectives_lim = 1 .. n
        /\ DOMAIN m_objectives_lim' = 1 .. n + 1
        /\ \A i \in 1 .. n :
              /\ m_objectives_lim'[i] = m_objectives_lim[i]
              /\ m_objectives_term_trail_lim'[i] =
                    m_objectives_term_trail_lim[i]
        /\ m_objectives_lim'[n + 1] = Len(m_scoped_objectives)
        /\ m_objectives_term_trail_lim'[n + 1] = Len(m_objectives_term_trail)
        /\ UNCHANGED m_objectives_term_trail
    <3>1. /\ m_objectives_lim \in Seq(0 .. Len(m_scoped_objectives))
          /\ Len(m_scoped_objectives) \in 0 .. Len(m_scoped_objectives)
          /\ m_objectives_term_trail_lim
                \in Seq(0 .. Len(m_objectives_term_trail))
          /\ Len(m_objectives_term_trail) \in 0 .. Len(m_objectives_term_trail)
          /\ Len(m_objectives_term_trail_lim) = n
      BY LenProperties DEF IInv, ValuesInv, LimitsInv, Marks
    <3> QED  BY <3>1, AppendFacts DEF Push
  <2>2. \A j \in 1 .. Len(m_objectives_term_trail) :
            m_objectives_term_trail[j] <= Len(m_scoped_objectives)
    BY LenProperties, ElementOfSeq DEF IInv, ValuesInv
  <2>3. ASSUME NEW scope \in 1 .. n + 1,
               NEW j \in 1 .. m_objectives_term_trail_lim'[scope]
        PROVE  m_objectives_term_trail[j] <= m_objectives_lim'[scope]
    <3>1. CASE scope = n + 1
      BY <2>1, <2>2, <3>1
    <3>2. CASE scope \in 1 .. n
      BY <2>1, <3>2 DEF IInv, TrailInv
    <3> QED  BY <2>1, <3>1, <3>2
  <2> QED  BY <2>1, <2>3 DEF TrailInv
<1>4. IndicesInv'
  BY DEF IInv, IndicesInv, Push
<1>5. ResultsInv'
  BY DEF IInv, ResultsInv, Push, results, enumerations, Now
<1> QED  BY <1>1, <1>2, <1>3, <1>4, <1>5 DEF IInv

\* The terms the trail has for an objective behind a position.
Added(trail, k, i) == {j \in k + 1 .. Len(trail) : trail[j] = i}

\* They can be counted.
LEMMA AddedFinite ==
    ASSUME NEW S, NEW trail \in Seq(S), NEW k \in Nat, NEW i
    PROVE  /\ IsFiniteSet(Added(trail, k, i))
           /\ Cardinality(Added(trail, k, i)) \in Nat
<1>1. Len(trail) \in Nat
  BY LenProperties
<1>2. IsFiniteSet(k + 1 .. Len(trail))
  BY <1>1, FS_Interval
<1>3. IsFiniteSet(Added(trail, k, i))
  BY <1>2, FS_Subset DEF Added
<1> QED  BY <1>3, FS_CardinalityType

\* An objective without the terms the trail has for it behind a position.
Rest(objs, trail, k, i) ==
    [id |-> objs[i].id,
     terms |-> SubSeq(objs[i].terms, 1,
                   Len(objs[i].terms) - Cardinality(Added(trail, k, i)))]

\* What is the rest now.
RestNow(k, i) == Rest(m_scoped_objectives, m_objectives_term_trail, k, i)

\* What dropping terms leaves of an objective: a prefix of its terms.
LEMMA DroppedIsRest ==
    ASSUME IInv, NEW k \in Nat, NEW i \in DOMAIN m_scoped_objectives
    PROVE  RestNow(k, i) \in Objective /\ TermsDropped(k)[i] = RestNow(k, i)
<1> DEFINE terms == m_scoped_objectives[i].terms
           c == Cardinality(Added(m_objectives_term_trail, k, i))
           left == SubSeq(terms, 1, Len(terms) - c)
<1>1. m_scoped_objectives[i] \in Objective
  BY LenProperties, ElementOfSeq DEF IInv, ValuesInv
<1>2. terms \in Seq(Formula) /\ c \in Nat
  BY <1>1, AddedFinite DEF IInv, ValuesInv, Objective
<1>3. \A j \in 1 .. Len(terms) - c : terms[j] \in Formula
  BY <1>2, LenProperties
<1>4. left \in Seq(Formula)
  BY <1>2, <1>3, LenProperties, SubSeqProperties
<1>5. TermsDropped(k)[i] = [m_scoped_objectives[i] EXCEPT !.terms = left]
  BY DEF TermsDropped, Added
<1>6. RestNow(k, i) = [id |-> m_scoped_objectives[i].id, terms |-> left]
  BY DEF RestNow, Rest
<1> HIDE DEF terms, c, left
<1>7. [id |-> m_scoped_objectives[i].id, terms |-> left] \in Objective
  BY <1>1, <1>4 DEF Objective
<1>8. [m_scoped_objectives[i] EXCEPT !.terms = left]
          = [id |-> m_scoped_objectives[i].id, terms |-> left]
  BY <1>1 DEF Objective
<1> QED  BY <1>5, <1>6, <1>7, <1>8

\* The scopes that are open, and the sizes they started at.
LEMMA OpenScopes ==
    ASSUME IInv
    PROVE  /\ Len(m_hard_lim) \in Nat
           /\ DOMAIN m_hard_lim = 1 .. Len(m_hard_lim)
           /\ DOMAIN m_asms_lim = 1 .. Len(m_hard_lim)
           /\ DOMAIN m_objectives_lim = 1 .. Len(m_hard_lim)
           /\ DOMAIN m_objectives_term_trail_lim = 1 .. Len(m_hard_lim)
           /\ DOMAIN m_scoped_objectives = 1 .. Len(m_scoped_objectives)
           /\ Len(m_scoped_objectives) \in Nat
           /\ Len(m_objectives_term_trail) \in Nat
           /\ \A scope \in 1 .. Len(m_hard_lim) :
                 /\ m_hard_lim[scope] \in 0 .. Len(m_hard)
                 /\ m_asms_lim[scope] \in 0 .. Len(m_asms)
                 /\ m_objectives_lim[scope] \in 0 .. Len(m_scoped_objectives)
                 /\ m_objectives_term_trail_lim[scope]
                       \in 0 .. Len(m_objectives_term_trail)
<1>1. /\ m_hard_lim \in Seq(0 .. Len(m_hard))
      /\ m_asms_lim \in Seq(0 .. Len(m_asms))
      /\ m_objectives_lim \in Seq(0 .. Len(m_scoped_objectives))
      /\ m_objectives_term_trail_lim \in Seq(0 .. Len(m_objectives_term_trail))
      /\ Len(m_hard_lim) = Len(m_asms_lim)
      /\ Len(m_hard_lim) = Len(m_objectives_lim)
      /\ Len(m_hard_lim) = Len(m_objectives_term_trail_lim)
  BY DEF IInv, LimitsInv, Marks
<1>2. /\ m_scoped_objectives \in Seq(Objective)
      /\ m_objectives_term_trail \in Seq(DOMAIN m_scoped_objectives)
  BY DEF IInv, ValuesInv
<1> QED  BY <1>1, <1>2, LenProperties, ElementOfSeq

\* What a scope has to bring back.
LEMMA ObjectivesAtScope ==
    ASSUME IInv, NEW scope \in 1 .. Len(m_hard_lim)
    PROVE  /\ ObjectivesAt(scope) \in Seq(Objective)
           /\ Len(ObjectivesAt(scope)) = m_objectives_lim[scope]
           /\ \A i \in 1 .. m_objectives_lim[scope] :
                 ObjectivesAt(scope)[i] =
                     RestNow(m_objectives_term_trail_lim[scope], i)
<1> DEFINE k == m_objectives_term_trail_lim[scope]
           l == m_objectives_lim[scope]
<1>1. /\ k \in Nat /\ l \in Nat
      /\ \A i \in 1 .. l : i \in DOMAIN m_scoped_objectives
  BY OpenScopes
<1>2. ObjectivesAt(scope) = SubSeq(TermsDropped(k), 1, l)
  BY DEF ObjectivesAt
<1> HIDE DEF k, l
<1>3. \A i \in 1 .. l :
          TermsDropped(k)[i] \in Objective /\ TermsDropped(k)[i] = RestNow(k, i)
  BY <1>1, DroppedIsRest
<1>4. /\ ObjectivesAt(scope) \in Seq(Objective)
      /\ Len(ObjectivesAt(scope)) = l
      /\ \A i \in 1 .. l : ObjectivesAt(scope)[i] = TermsDropped(k)[i]
  BY <1>1, <1>2, <1>3, SubSeqProperties
<1> QED  BY <1>3, <1>4 DEF k, l

\* A pop that has a push cuts every vector where the scope started.
LEMMA PopScopeInv ==
    ASSUME IInv, m_hard_lim # <<>>, Pop
    PROVE  IInv'
<1> DEFINE n == Len(m_hard_lim)
           l == m_objectives_lim[n]
           k == m_objectives_term_trail_lim[n]
<1>1. n \in Nat /\ n # 0
  BY EmptySeq, OpenScopes DEF IInv, LimitsInv, Marks
<1>2. /\ m_hard' = SubSeq(m_hard, 1, m_hard_lim[n])
      /\ m_asms' = SubSeq(m_asms, 1, m_asms_lim[n])
      /\ m_scoped_objectives' = ObjectivesAt(n)
      /\ m_objectives_term_trail' = SubSeq(m_objectives_term_trail, 1, k)
      /\ m_indices' = IndicesWithout(l + 1 .. Len(m_scoped_objectives))
      /\ m_hard_lim' = SubSeq(m_hard_lim, 1, n - 1)
      /\ m_asms_lim' = SubSeq(m_asms_lim, 1, n - 1)
      /\ m_objectives_lim' = SubSeq(m_objectives_lim, 1, n - 1)
      /\ m_objectives_term_trail_lim' =
            SubSeq(m_objectives_term_trail_lim, 1, n - 1)
  BY DEF Pop, PopScope
<1>3. /\ n \in 1 .. n
      /\ m_hard_lim[n] \in 0 .. Len(m_hard)
      /\ m_asms_lim[n] \in 0 .. Len(m_asms)
      /\ l \in 0 .. Len(m_scoped_objectives)
      /\ k \in 0 .. Len(m_objectives_term_trail)
  BY <1>1, OpenScopes
<1>4. /\ m_hard' \in Seq(Formula) /\ Len(m_hard') = m_hard_lim[n]
      /\ m_asms' \in Seq(Name) /\ Len(m_asms') = m_asms_lim[n]
  <2>1. m_hard \in Seq(Formula) /\ m_asms \in Seq(Name)
    BY DEF IInv, ValuesInv
  <2> HIDE DEF n
  <2>2. m_hard' \in Seq(Formula) /\ Len(m_hard') = m_hard_lim[n]
    BY <1>2, <1>3, <2>1, PrefixIsSeq
  <2>3. m_asms' \in Seq(Name) /\ Len(m_asms') = m_asms_lim[n]
    BY <1>2, <1>3, <2>1, PrefixIsSeq
  <2> QED  BY <2>2, <2>3
<1>5. /\ m_scoped_objectives' \in Seq(Objective)
      /\ Len(m_scoped_objectives') = l
      /\ DOMAIN m_scoped_objectives' = 1 .. l
      /\ \A i \in 1 .. l :
            m_scoped_objectives'[i].id = m_scoped_objectives[i].id
  <2>1. /\ m_scoped_objectives' \in Seq(Objective)
        /\ Len(m_scoped_objectives') = l
        /\ \A i \in 1 .. l : m_scoped_objectives'[i] = RestNow(k, i)
    BY <1>2, <1>3, ObjectivesAtScope
  <2>2. \A i : RestNow(k, i).id = m_scoped_objectives[i].id
    BY DEF RestNow, Rest
  <2> QED  BY <2>1, <2>2, LenProperties
<1>6. /\ m_objectives_term_trail' \in Seq(DOMAIN m_scoped_objectives)
      /\ Len(m_objectives_term_trail') = k
      /\ DOMAIN m_objectives_term_trail' = 1 .. k
      /\ \A j \in 1 .. k :
            m_objectives_term_trail'[j] = m_objectives_term_trail[j]
  <2>1. m_objectives_term_trail \in Seq(DOMAIN m_scoped_objectives)
    BY DEF IInv, ValuesInv
  <2>2. k \in 0 .. Len(m_objectives_term_trail)
        /\ m_objectives_term_trail' = SubSeq(m_objectives_term_trail, 1, k)
    BY <1>2, <1>3
  <2> HIDE DEF k
  <2> QED  BY <2>1, <2>2, PrefixIsSeq
<1>7. ValuesInv'
  <2>1. ASSUME NEW j \in 1 .. k
        PROVE  m_objectives_term_trail[j] \in 1 .. l
    <3>1. m_objectives_term_trail[j] <= l
      BY <1>3, OpenScopes DEF IInv, TrailInv
    <3>2. m_objectives_term_trail[j] \in 1 .. Len(m_scoped_objectives)
      <4>1. m_objectives_term_trail \in Seq(1 .. Len(m_scoped_objectives))
        BY OpenScopes DEF IInv, ValuesInv
      <4>2. j \in 1 .. Len(m_objectives_term_trail)
        BY <1>3, OpenScopes
      <4> QED  BY <4>1, <4>2, ElementOfSeq
    <3> QED  BY <1>3, <3>1, <3>2
  <2>2. m_objectives_term_trail' \in Seq(1 .. l)
    BY <1>2, <1>3, <2>1, SubSeqProperties
  <2> QED  BY <1>4, <1>5, <2>2 DEF ValuesInv
<1>8. /\ Marks(m_hard_lim', m_hard') /\ Len(m_hard_lim') = n - 1
      /\ Marks(m_asms_lim', m_asms') /\ Len(m_asms_lim') = n - 1
  <2>1. /\ Marks(m_hard_lim, m_hard) /\ n \in DOMAIN m_hard_lim
        /\ Marks(m_asms_lim, m_asms) /\ n \in DOMAIN m_asms_lim
        /\ m_hard \in Seq(Formula) /\ m_asms \in Seq(Name)
    BY <1>3, OpenScopes DEF IInv, ValuesInv, LimitsInv
  <2>2. /\ m_hard_lim' = SubSeq(m_hard_lim, 1, n - 1)
        /\ m_asms_lim' = SubSeq(m_asms_lim, 1, n - 1)
    BY <1>2
  <2> HIDE DEF n
  <2>3. Marks(SubSeq(m_hard_lim, 1, n - 1), m_hard')
    BY <1>4, <2>1, MarksPop
  <2>4. Len(SubSeq(m_hard_lim, 1, n - 1)) = n - 1
    BY <1>4, <2>1, MarksPop
  <2>5. Marks(SubSeq(m_asms_lim, 1, n - 1), m_asms')
    BY <1>4, <2>1, MarksPop
  <2>6. Len(SubSeq(m_asms_lim, 1, n - 1)) = n - 1
    BY <1>4, <2>1, MarksPop
  <2> QED  BY <2>2, <2>3, <2>4, <2>5, <2>6
<1>9. /\ Marks(m_objectives_lim', m_scoped_objectives')
      /\ Len(m_objectives_lim') = n - 1
      /\ \A i \in 1 .. n - 1 : m_objectives_lim'[i] = m_objectives_lim[i]
  <2>1. /\ Marks(m_objectives_lim, m_scoped_objectives)
        /\ n \in DOMAIN m_objectives_lim
        /\ m_scoped_objectives \in Seq(Objective)
    BY <1>3, OpenScopes DEF IInv, ValuesInv, LimitsInv
  <2>2. /\ m_objectives_lim' = SubSeq(m_objectives_lim, 1, n - 1)
        /\ Len(m_scoped_objectives') = m_objectives_lim[n]
    BY <1>2, <1>5
  <2> HIDE DEF n
  <2> DEFINE outer == SubSeq(m_objectives_lim, 1, n - 1)
  <2>3. m_scoped_objectives' \in Seq(Objective)
    BY <1>5
  <2>4. /\ Marks(outer, m_scoped_objectives') /\ Len(outer) = n - 1
        /\ \A i \in 1 .. n - 1 :
              outer[i] = m_objectives_lim[i]
              /\ m_objectives_lim[i] <= m_objectives_lim[n]
    BY ONLY <2>1, <2>2, <2>3, MarksPop
  <2> HIDE DEF outer
  <2>5. m_objectives_lim' = outer
    BY <2>2 DEF outer
  <2> QED  BY <2>4, <2>5
<1>10. /\ Marks(m_objectives_term_trail_lim', m_objectives_term_trail')
       /\ Len(m_objectives_term_trail_lim') = n - 1
       /\ \A i \in 1 .. n - 1 :
             /\ m_objectives_term_trail_lim'[i] = m_objectives_term_trail_lim[i]
             /\ m_objectives_term_trail_lim[i] <= k
  <2>1. /\ Marks(m_objectives_term_trail_lim, m_objectives_term_trail)
        /\ n \in DOMAIN m_objectives_term_trail_lim
        /\ m_objectives_term_trail \in Seq(DOMAIN m_scoped_objectives)
    BY <1>3, OpenScopes DEF IInv, ValuesInv, LimitsInv
  <2>2. /\ m_objectives_term_trail_lim' =
              SubSeq(m_objectives_term_trail_lim, 1, n - 1)
        /\ Len(m_objectives_term_trail') = m_objectives_term_trail_lim[n]
    BY <1>2, <1>6
  <2> HIDE DEF n
  <2> DEFINE outer == SubSeq(m_objectives_term_trail_lim, 1, n - 1)
  <2>3. /\ Marks(outer, m_objectives_term_trail')
        /\ Len(outer) = n - 1
        /\ \A i \in 1 .. n - 1 :
              /\ outer[i] = m_objectives_term_trail_lim[i]
              /\ m_objectives_term_trail_lim[i]
                    <= m_objectives_term_trail_lim[n]
    BY <1>6, <2>1, <2>2, MarksPop
  <2> QED  BY <2>2, <2>3
<1>11. LimitsInv'
  BY <1>8, <1>9, <1>10 DEF LimitsInv
<1>12. TrailInv'
  <2>1. DOMAIN m_objectives_lim' = 1 .. n - 1
    BY <1>9, LenProperties DEF Marks
  <2>2. ASSUME NEW i \in 1 .. n - 1,
               NEW j \in 1 .. m_objectives_term_trail_lim[i]
        PROVE  m_objectives_term_trail'[j] <= m_objectives_lim[i]
    <3>1. /\ i \in DOMAIN m_objectives_lim
          /\ m_objectives_term_trail_lim[i] \in Nat
      BY <1>1, OpenScopes
    <3>2. j \in 1 .. k
      <4>1. k \in Nat /\ m_objectives_term_trail_lim[i] <= k
        BY <1>3, <1>10
      <4> HIDE DEF k
      <4> QED  BY <3>1, <4>1
    <3> QED  BY <1>6, <3>1, <3>2 DEF IInv, TrailInv
  <2> QED  BY <1>9, <1>10, <2>1, <2>2 DEF TrailInv
<1>13. IndicesInv'
  <2> DEFINE gone == l + 1 .. Len(m_scoped_objectives)
             ids == {m_scoped_objectives[i].id : i \in gone}
  <2>1. DOMAIN m_scoped_objectives = 1 .. Len(m_scoped_objectives)
        /\ Len(m_scoped_objectives) \in Nat
    BY LenProperties DEF IInv, ValuesInv
  <2>2. m_indices' = [x \in DOMAIN m_indices \ ids |-> m_indices[x]]
    BY <1>2 DEF IndicesWithout
  <2>3. ASSUME NEW x \in DOMAIN m_indices \ ids
        PROVE  m_indices[x] \in 1 .. l
    <3>1. m_indices[x] \in 1 .. Len(m_scoped_objectives)
          /\ m_scoped_objectives[m_indices[x]].id = x
      BY <2>1 DEF IInv, IndicesInv
    <3>2. m_indices[x] \notin gone
      BY <3>1
    <3> QED  BY <1>3, <2>1, <3>1, <3>2
  <2>4. ASSUME NEW i \in 1 .. l, m_scoped_objectives[i].id \in Id
        PROVE  /\ m_scoped_objectives[i].id \in DOMAIN m_indices \ ids
               /\ m_indices[m_scoped_objectives[i].id] = i
    <3>1. i \in DOMAIN m_scoped_objectives
          /\ \A j \in gone : j \in DOMAIN m_scoped_objectives /\ i # j
      BY <1>3, <2>1
    <3>2. \A j \in gone :
              m_scoped_objectives[j].id # m_scoped_objectives[i].id
      BY <2>4, <3>1 DEF IInv, IndicesInv
    <3> QED  BY <2>4, <3>1, <3>2 DEF IInv, IndicesInv
  <2> HIDE DEF ids
  <2>5. \A x \in DOMAIN m_indices' : x \in DOMAIN m_indices \ ids
    BY <2>2
  <2>6. \A x \in DOMAIN m_indices' :
            /\ m_indices'[x] = m_indices[x]
            /\ m_indices[x] \in 1 .. l
            /\ m_scoped_objectives'[m_indices[x]].id = x
            /\ x \in Id
    BY <1>5, <2>2, <2>3, <2>5 DEF IInv, IndicesInv
  <2>7. \A i \in 1 .. l : m_scoped_objectives'[i].id \in Id =>
            /\ m_scoped_objectives'[i].id \in DOMAIN m_indices'
            /\ m_indices'[m_scoped_objectives'[i].id] = i
    BY <1>5, <2>2, <2>4
  <2>8. m_indices' \in [DOMAIN m_indices' -> 1 .. l]
    BY <2>2, <2>6
  <2> QED  BY <1>5, <2>6, <2>7, <2>8 DEF IndicesInv
<1>14. ResultsInv'
  BY ClearedResults DEF IInv, ResultsInv, Pop
<1> QED  BY <1>7, <1>11, <1>12, <1>13, <1>14 DEF IInv

LEMMA PopInv ==
    ASSUME IInv, Pop
    PROVE  IInv'
<1>1. CASE m_hard_lim # <<>>
  BY <1>1, PopScopeInv
<1>2. CASE m_hard_lim = <<>>
  <2>1. UNCHANGED <<hards, objectives>>
    BY <1>2 DEF Pop
  <2>2. ResultsInv'
    BY ClearedResults DEF IInv, ResultsInv, Pop
  <2> QED  BY <2>1, <2>2 DEF IInv, ValuesInv, LimitsInv, TrailInv, IndicesInv,
           hards, objectives
<1> QED  BY <1>1, <1>2

\* A check changes results only.
LEMMA ResultsOnly ==
    ASSUME IInv, UNCHANGED <<hards, objectives, index>>, ResultsInv'
    PROVE  IInv'
  BY DEF IInv, ValuesInv, LimitsInv, TrailInv, IndicesInv, hards, objectives

\* Models for the first objectives only.
LEMMA ModelsAreSeq ==
    ASSUME NEW n \in Nat
    PROVE  [i \in 1 .. n |-> Now] \in Seq({None, Now})
<1> DEFINE models == [i \in 1 .. n |-> Now]
<1>1. models \in [1 .. n -> {None, Now}]
  OBVIOUS
<1> HIDE DEF models
<1>2. models \in Seq({None, Now})
  BY <1>1
<1> QED  BY <1>2 DEF models

LEMMA CheckInv ==
    ASSUME IInv, CheckAnew \/ CheckBox \/ CheckPareto
    PROVE  IInv'
<1>1. UNCHANGED <<hards, objectives, index>>
  BY DEF CheckAnew, CheckBox, CheckPareto
<1>2. UNCHANGED Now
  BY <1>1 DEF Now, hards, objectives
<1>3. engines' \subseteq DOMAIN m_objectives'
  BY DEF IInv, ResultsInv, CheckAnew, CheckBox, CheckPareto, Import
<1>4. index' \in 0 .. MaxObjectives
  BY <1>1 DEF IInv, ResultsInv
<1>5. /\ m_box_index' \in Nat
      /\ m_box_models' \in Seq({None, Now})
      /\ {m_model', m_pareto'} \subseteq {None, Now}
  <2>1. CASE CheckAnew
    <3>1. Len(m_scoped_objectives) \in Nat
      BY OpenScopes
    <3>2. m_box_models' = <<>>
          \/ \E n \in 0 .. Len(m_scoped_objectives) :
                 m_box_models' = [i \in 1 .. n |-> Now]
      BY <2>1 DEF CheckAnew
    <3>3. m_box_models' \in Seq({None, Now})
      <4>1. CASE m_box_models' = <<>>
        BY <4>1, EmptySeq
      <4>2. CASE \E n \in 0 .. Len(m_scoped_objectives) :
                    m_box_models' = [i \in 1 .. n |-> Now]
        <5> PICK n \in 0 .. Len(m_scoped_objectives) :
                m_box_models' = [i \in 1 .. n |-> Now]
          BY <4>2
        <5>1. n \in Nat
          BY <3>1
        <5> QED  BY <5>1, ModelsAreSeq
      <4> QED  BY <3>2, <4>1, <4>2
    <3> QED  BY <2>1, <3>3 DEF CheckAnew
  <2>2. CASE CheckBox
    <3>1. ASSUME m_box_index < Len(m_box_models)
          PROVE  m_box_models[m_box_index + 1] \in {None, Now}
      BY <3>1, LenProperties, ElementOfSeq DEF IInv, ResultsInv
    <3> QED  BY <2>2, <3>1 DEF IInv, ResultsInv, CheckBox
  <2>3. CASE CheckPareto
    BY <2>3 DEF IInv, ResultsInv, CheckPareto
  <2> QED  BY <2>1, <2>2, <2>3
<1>6. ResultsInv'
  BY <1>2, <1>3, <1>4, <1>5 DEF ResultsInv, None
<1> QED  BY <1>1, <1>6, ResultsOnly

---------------------------------------------------------------------------
(* The invariant and what follows from it.                                 *)

LEMMA InitInv == Init => IInv
<1> SUFFICES ASSUME Init
             PROVE  IInv
  OBVIOUS
<1>1. ValuesInv
  BY EmptySeq DEF Init, ValuesInv
<1>2. LimitsInv
  BY EmptySeq DEF Init, LimitsInv, Marks
<1>3. TrailInv
  BY DEF Init, TrailInv
<1>4. IndicesInv
  BY DEF Init, IndicesInv
<1>5. ResultsInv
  BY EmptySeq, BoundsAssumption DEF Init, ResultsInv, None
<1> QED  BY <1>1, <1>2, <1>3, <1>4, <1>5 DEF IInv

LEMMA NextInv == IInv /\ [Next]_vars => IInv'
<1> SUFFICES ASSUME IInv, [Next]_vars
             PROVE  IInv'
  OBVIOUS
<1>1. ASSUME NEW f \in Formula, NEW ns \in {<<>>} \cup {<<n>> : n \in Name},
             AddHard(f, ns)
      PROVE  IInv'
  <2>1. ns \in Seq(Name)
    <3>1. CASE ns = <<>>
      BY <3>1, EmptySeq
    <3>2. CASE \E n \in Name : ns = <<n>>
      <4> PICK n \in Name : ns = <<n>>
        BY <3>2
      <4> QED  OBVIOUS
    <3> QED  BY <3>1, <3>2
  <2> QED  BY <1>1, <2>1, AddHardInv
<1>2. ASSUME NEW f \in Formula, NEW id \in Id, NEW weighted \in BOOLEAN,
             AddSoft(f, id, weighted)
      PROVE  IInv'
  BY <1>2, AddSoftInv
<1>3. ASSUME NEW t \in Formula, AddObjective(t)
      PROVE  IInv'
  BY <1>3, AddObjectiveInv
<1>4. CASE UNCHANGED vars
  BY <1>4 DEF vars, hards, objectives, results, enumerations, IInv, ValuesInv,
     LimitsInv, TrailInv, IndicesInv, ResultsInv, Now
<1> QED  BY <1>1, <1>2, <1>3, <1>4, RefuseObjectiveInv, PushInv, PopInv,
         CheckInv DEF Next

\* IInv holds in every state.
THEOREM Invariance == Spec => []IInv
  BY InitInv, NextInv, PTL DEF Spec

LEMMA InvType == IInv => TypeOK
<1> SUFFICES ASSUME IInv
             PROVE  TypeOK
  OBVIOUS
<1>1. \A S : \A s \in Seq(S) : Range(s) \subseteq S
  BY LenProperties, ElementOfSeq DEF Range
<1>2. /\ Range(m_hard_lim) \subseteq 0 .. Len(m_hard)
      /\ Range(m_asms_lim) \subseteq 0 .. Len(m_asms)
      /\ Range(m_objectives_lim) \subseteq 0 .. Len(m_scoped_objectives)
      /\ Range(m_objectives_term_trail_lim)
             \subseteq 0 .. Len(m_objectives_term_trail)
  BY <1>1 DEF IInv, LimitsInv, Marks
<1>3. Range(m_objectives_term_trail) \subseteq DOMAIN m_scoped_objectives
  BY <1>1 DEF IInv, ValuesInv
<1> QED  BY <1>2, <1>3 DEF TypeOK, IInv, ValuesInv, LimitsInv, IndicesInv,
         ResultsInv

\* The vectors of opt::context::scoped_state and the limits of their scopes
\* fit together, and trail and map name objectives that there are.
THEOREM TypeCorrect == Spec => []TypeOK
  BY Invariance, InvType, PTL

\* No change and no pop leaves a model, or a box or Pareto enumeration, of
\* other constraints behind (opt::context::clear_state).
THEOREM ResultsStayCurrent == Spec => []ResultsAreCurrent
<1>1. IInv => ResultsAreCurrent
  <2> SUFFICES ASSUME IInv
               PROVE  ResultsAreCurrent
    OBVIOUS
  <2>1. Range(m_box_models) \subseteq {None, Now}
    BY LenProperties, ElementOfSeq DEF IInv, ResultsInv, Range
  <2> QED  BY <2>1 DEF IInv, ResultsInv, ResultsAreCurrent
<1> QED  BY <1>1, Invariance, PTL
=============================================================================
