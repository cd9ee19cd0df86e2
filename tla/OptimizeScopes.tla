--------------------------- MODULE OptimizeScopes ---------------------------
(* opt::context behind Z3Optimize.  Its scoped_state keeps hard             *)
(* constraints, tracking names and objectives in flat vectors with the      *)
(* sizes each scope started at, a trail of the objectives terms were added  *)
(* to, and a map from identifiers to objectives.  A check copies the        *)
(* objectives, makes an engine for each, and keeps the models of a box or   *)
(* Pareto enumeration that later checks continue.                           *)
EXTENDS Naturals, Sequences, FiniteSets, Functions

CONSTANTS
    Formula, Name, Id, NoId,
    MaxHard, MaxObjectives, MaxTerms, MaxScopes    \* bounds

ASSUME NoIdAssumption == NoId \notin Id
ASSUME BoundsAssumption == {MaxHard, MaxObjectives, MaxTerms, MaxScopes} \subseteq Nat

VARIABLES
    m_hard, m_hard_lim,
    m_asms, m_asms_lim,
    m_scoped_objectives,            \* scoped_state::m_objectives
    m_objectives_lim,
    m_objectives_term_trail, m_objectives_term_trail_lim,
    m_indices,                      \* identifier to index
    m_objectives,                   \* the kinds of the last check's objectives
    engines,                        \* those of them m_maxsmts has a solver for
    m_model,                        \* for which constraints a model was found
    m_box_index, m_box_models,      \* box enumeration, 0 for UINT_MAX
    m_pareto,                       \* Pareto enumeration, and for what
    index                           \* the objective last returned, from 1

hards == <<m_hard, m_hard_lim, m_asms, m_asms_lim>>
objectives == <<m_scoped_objectives, m_objectives_lim,
                m_objectives_term_trail, m_objectives_term_trail_lim,
                m_indices>>
enumerations == <<m_model, m_box_index, m_box_models, m_pareto>>
results == <<m_objectives, engines, enumerations>>
vars == <<hards, objectives, results, index>>

\* No model, no enumeration.
None == <<>>

\* What a model found now is a model of.
Now == [hard |-> m_hard, names |-> m_asms, objectives |-> m_scoped_objectives]

Init ==
    /\ m_hard = <<>> /\ m_hard_lim = <<>>
    /\ m_asms = <<>> /\ m_asms_lim = <<>>
    /\ m_scoped_objectives = <<>> /\ m_objectives_lim = <<>>
    /\ m_objectives_term_trail = <<>> /\ m_objectives_term_trail_lim = <<>>
    /\ m_indices = <<>>
    /\ m_objectives = <<>> /\ engines = {}
    /\ m_model = None /\ m_box_index = 0 /\ m_box_models = <<>>
    /\ m_pareto = None
    /\ index = 0

-----------------------------------------------------------------------------
(* scoped_state.                                                           *)

\* Variant: an enumeration outlives the change.
ClearModel ==
    /\ m_model' = None
    /\ UNCHANGED <<m_box_index, m_box_models, m_pareto>>

ClearState ==
    /\ m_model' = None
    /\ m_box_index' = 0
    /\ m_box_models' = <<>>
    /\ m_pareto' = None

\* add_hard_constraint, without or with the constant that tracks it.
AddHard(f, names) ==
    /\ Len(m_hard) < MaxHard
    /\ m_hard' = Append(m_hard, f)
    /\ m_asms' = m_asms \o names
    /\ ClearState
    /\ UNCHANGED <<m_hard_lim, m_asms_lim, objectives, m_objectives, engines,
                   index>>

NewObjective(id, terms) ==
    Append(m_scoped_objectives, [id |-> id, terms |-> terms])

AddSoft(f, id, weighted) ==
    LET known == id \in DOMAIN m_indices
        opened == IF known THEN m_scoped_objectives ELSE NewObjective(id, <<>>)
        i == IF known THEN m_indices[id] ELSE Len(opened)
    IN
    /\ Len(opened) <= MaxObjectives
    /\ Len(m_objectives_term_trail) < MaxTerms
    /\ m_indices' = [x \in DOMAIN m_indices \cup {id} |->
                        IF x = id THEN i ELSE m_indices[x]]
    /\ IF weighted
       THEN /\ m_scoped_objectives' =
                  [opened EXCEPT ![i].terms = Append(@, f)]
            /\ m_objectives_term_trail' = Append(m_objectives_term_trail, i)
       ELSE /\ m_scoped_objectives' = opened
            /\ UNCHANGED m_objectives_term_trail
    /\ index' = i
    /\ ClearState
    /\ UNCHANGED <<hards, m_objectives_lim, m_objectives_term_trail_lim,
                   m_objectives, engines>>

\* maximize and minimize.
AddObjective(t) ==
    /\ Len(m_scoped_objectives) < MaxObjectives
    /\ m_scoped_objectives' = NewObjective(NoId, <<t>>)
    /\ index' = Len(m_scoped_objectives')
    /\ ClearState
    /\ UNCHANGED <<hards, m_objectives_lim, m_objectives_term_trail,
                   m_objectives_term_trail_lim, m_indices, m_objectives,
                   engines>>

\* maximizeAny and minimizeAny of a term that is neither a number nor a
\* bit-vector: the results are dropped before the term is refused.
RefuseObjective ==
    /\ ClearState
    /\ UNCHANGED <<hards, objectives, m_objectives, engines, index>>

Push ==
    /\ Len(m_hard_lim) < MaxScopes
    /\ m_hard_lim' = Append(m_hard_lim, Len(m_hard))
    /\ m_asms_lim' = Append(m_asms_lim, Len(m_asms))
    /\ m_objectives_lim' = Append(m_objectives_lim, Len(m_scoped_objectives))
    /\ m_objectives_term_trail_lim' =
          Append(m_objectives_term_trail_lim, Len(m_objectives_term_trail))
    /\ UNCHANGED <<m_hard, m_asms, m_scoped_objectives,
                   m_objectives_term_trail, m_indices, results, index>>

\* Variant: terms added to objectives of outer scopes stay.
TermsKept(k) == m_scoped_objectives

\* Objectives without the terms the trail has from position k + 1 on.
TermsDropped(k) ==
    [i \in DOMAIN m_scoped_objectives |->
        LET added == {j \in k + 1 .. Len(m_objectives_term_trail) :
                          m_objectives_term_trail[j] = i}
            terms == m_scoped_objectives[i].terms
            n == Len(terms) - Cardinality(added)
        IN  [m_scoped_objectives[i] EXCEPT !.terms = SubSeq(terms, 1, n)]]

\* The objectives at the start of a scope.
ObjectivesAt(scope) ==
    SubSeq(TermsDropped(m_objectives_term_trail_lim[scope]),
           1, m_objectives_lim[scope])

\* Variant: identifiers of objectives that go stay known.
IndicesKept(is) == m_indices

\* An objective that goes takes its identifier along.
IndicesWithout(is) ==
    LET gone == {m_scoped_objectives[i].id : i \in is} IN
    [x \in DOMAIN m_indices \ gone |-> m_indices[x]]

PopScope(n) ==
    /\ m_hard' = SubSeq(m_hard, 1, m_hard_lim[n])
    /\ m_asms' = SubSeq(m_asms, 1, m_asms_lim[n])
    /\ m_scoped_objectives' = ObjectivesAt(n)
    /\ m_objectives_term_trail' =
          SubSeq(m_objectives_term_trail, 1, m_objectives_term_trail_lim[n])
    /\ m_indices' = IndicesWithout(
          m_objectives_lim[n] + 1 .. Len(m_scoped_objectives))
    /\ m_hard_lim' = SubSeq(m_hard_lim, 1, n - 1)
    /\ m_asms_lim' = SubSeq(m_asms_lim, 1, n - 1)
    /\ m_objectives_lim' = SubSeq(m_objectives_lim, 1, n - 1)
    /\ m_objectives_term_trail_lim' =
          SubSeq(m_objectives_term_trail_lim, 1, n - 1)

\* A pop without a push clears results only.  The copy of the objectives
\* outlives the engines.
Pop ==
    /\ IF m_hard_lim = <<>> THEN UNCHANGED <<hards, objectives>>
       ELSE PopScope(Len(m_hard_lim))
    /\ engines' = {}
    /\ ClearState
    /\ UNCHANGED <<m_objectives, index>>

-----------------------------------------------------------------------------
(* optimize.                                                               *)

\* import_scoped_state and normalize: soft constraints are for a MaxSMT
\* engine, and an objective over 0-1 terms may be turned into one.
Import ==
    /\ \E kinds \in [DOMAIN m_scoped_objectives -> {"maxsmt", "optsmt"}] :
          /\ \A i \in DOMAIN kinds :
                m_scoped_objectives[i].id # NoId => kinds[i] = "maxsmt"
          /\ m_objectives' = kinds
    /\ engines' = {i \in DOMAIN m_objectives' : m_objectives'[i] = "maxsmt"}

\* The check starts over; it finds no model, or one, or enumerates.  A box
\* that is given up has models for its first objectives only.
CheckAnew ==
    /\ m_pareto = None /\ m_box_index = 0
    /\ Import
    /\ \/ m_model' \in {None, Now} /\ m_pareto' = None
          /\ m_box_index' = 0 /\ m_box_models' = <<>>
       \/ Len(m_scoped_objectives) > 1 /\ m_model' = Now /\ m_pareto' = None
          /\ m_box_index' = 1
          /\ \E n \in 0 .. Len(m_scoped_objectives) :
                m_box_models' = [i \in 1 .. n |-> Now]
       \/ Len(m_scoped_objectives) > 1 /\ m_model' = Now /\ m_pareto' = Now
          /\ m_box_index' = 0 /\ m_box_models' = <<>>
    /\ UNCHANGED <<hards, objectives, index>>

\* The next model of the box, none where it was given up, and the end of
\* the enumeration.
CheckBox ==
    /\ m_pareto = None /\ m_box_index # 0
    /\ \/ /\ m_box_index < Len(m_box_models)
          /\ m_model' = m_box_models[m_box_index + 1]
          /\ m_box_index' = m_box_index + 1
       \/ /\ m_box_index >= Len(m_box_models)
          /\ m_box_index < Len(m_objectives)
          /\ m_model' = None
          /\ m_box_index' = m_box_index + 1
       \/ /\ m_box_index >= Len(m_box_models)
          /\ m_box_index >= Len(m_objectives)
          /\ m_box_index' = 0
          /\ UNCHANGED m_model
    /\ UNCHANGED <<hards, objectives, m_objectives, engines, m_box_models,
                   m_pareto, index>>

\* The next Pareto point, or none.
CheckPareto ==
    /\ m_pareto # None
    /\ \/ m_model' = m_pareto /\ UNCHANGED m_pareto
       \/ m_pareto' = None /\ UNCHANGED m_model
    /\ UNCHANGED <<hards, objectives, m_objectives, engines, m_box_index,
                   m_box_models, index>>

Next ==
    \/ \E f \in Formula, ns \in {<<>>} \cup {<<n>> : n \in Name} :
          AddHard(f, ns)
    \/ \E f \in Formula, id \in Id, weighted \in BOOLEAN :
          AddSoft(f, id, weighted)
    \/ \E t \in Formula : AddObjective(t)
    \/ RefuseObjective
    \/ Push \/ Pop \/ CheckAnew \/ CheckBox \/ CheckPareto

Spec == Init /\ [][Next]_vars

-----------------------------------------------------------------------------
(* Types.                                                                  *)

\* Every vector of sizes has an entry for each scope, the sizes are within
\* the vectors they belong to, and the trail and the map name objectives.
TypeOK ==
    /\ m_hard \in Seq(Formula) /\ m_asms \in Seq(Name)
    /\ Len(m_hard_lim) = Len(m_asms_lim)
    /\ Len(m_hard_lim) = Len(m_objectives_lim)
    /\ Len(m_hard_lim) = Len(m_objectives_term_trail_lim)
    /\ Range(m_hard_lim) \subseteq 0 .. Len(m_hard)
    /\ Range(m_asms_lim) \subseteq 0 .. Len(m_asms)
    /\ Range(m_objectives_lim) \subseteq 0 .. Len(m_scoped_objectives)
    /\ Range(m_objectives_term_trail_lim)
           \subseteq 0 .. Len(m_objectives_term_trail)
    /\ Range(m_objectives_term_trail) \subseteq DOMAIN m_scoped_objectives
    /\ m_indices \in [DOMAIN m_indices -> DOMAIN m_scoped_objectives]
    /\ DOMAIN m_indices \subseteq Id
    /\ engines \subseteq DOMAIN m_objectives
    /\ index \in 0 .. MaxObjectives

-----------------------------------------------------------------------------
(* Properties.                                                             *)

\* Whatever was found, or is still to be handed out by an enumeration, was
\* found for the constraints and objectives as they are now: no change and
\* no pop leaves a result of other constraints behind (clear_state).
ResultsAreCurrent ==
    \A r \in {m_model, m_pareto} \cup Range(m_box_models) : r \in {None, Now}

\* An index getLower and getUpper take, because the last check had such an
\* objective, is one they have a solver to ask for (Z3Optimize.swift:181).
BoundsKnown ==
    \A i \in DOMAIN m_objectives : m_objectives[i] = "maxsmt" => i \in engines

\* What the push of a scope has to bring back.
Kept(scope) ==
    [hard |-> SubSeq(m_hard, 1, m_hard_lim[scope]),
     names |-> SubSeq(m_asms, 1, m_asms_lim[scope]),
     objectives |-> ObjectivesAt(scope)]

Promised == INSTANCE OptimizeStack WITH
    now <- Now, kept <- [scope \in DOMAIN m_hard_lim |-> Kept(scope)]

\* Scopes restore: at any depth of nesting, whatever is added to objectives
\* of outer scopes, a pop brings back what the matching push found, and an
\* identifier leads to the objective that has it (Z3Optimize.swift:288).
RestoresStack == Promised!AbsSpec
=============================================================================
