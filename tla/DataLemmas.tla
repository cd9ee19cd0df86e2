------------------------------ MODULE DataLemmas ------------------------------
(***************************************************************************)
(* Facts about natural numbers, sequences and the sizes scopes start at    *)
(* that the proofs of several modules rest on.                             *)
(***************************************************************************)
EXTENDS Integers, SequenceTheorems, WellFoundedInduction, TLAPS

-----------------------------------------------------------------------------
(* Natural numbers.                                                        *)

\* A set of natural numbers has a least element, unless it is empty.
LEMMA LeastNatural ==
    ASSUME NEW T \in SUBSET Nat, T # {}
    PROVE  \E x \in T : \A y \in T : x <= y
<1> DEFINE R == {p \in Nat \X Nat : p[1] < p[2]}
<1>1. IsWellFoundedOn(R, Nat)
  BY NatLessThanWellFounded DEF OpToRel
<1>2. \A a, b \in Nat : a < b => <<a, b>> \in R
  OBVIOUS
<1> HIDE DEF R
<1>3. PICK x \in T : \A y \in T : ~(<<y, x>> \in R)
  BY <1>1, WFMin
<1>4. ASSUME NEW y \in T
      PROVE  x <= y
  <2>1. x \in Nat /\ y \in Nat
    OBVIOUS
  <2>2. ~(y < x)
    BY <1>2, <1>3, <2>1
  <2> QED  BY <2>1, <2>2
<1> QED  BY <1>4

-----------------------------------------------------------------------------
(* Sequences.                                                              *)

\* A prefix has the elements at its positions.
LEMMA PrefixIsSeq ==
    ASSUME NEW S, NEW s \in Seq(S), NEW n \in 0 .. Len(s)
    PROVE  /\ SubSeq(s, 1, n) \in Seq(S)
           /\ Len(SubSeq(s, 1, n)) = n
           /\ DOMAIN SubSeq(s, 1, n) = 1 .. n
           /\ \A i \in 1 .. n : SubSeq(s, 1, n)[i] = s[i]
  BY SubSeqProperties

\* Appending leaves prefixes as they are.
LEMMA PrefixOfAppend ==
    ASSUME NEW S, NEW s \in Seq(S), NEW e \in S, NEW n \in Int, n <= Len(s)
    PROVE  SubSeq(Append(s, e), 1, n) = SubSeq(s, 1, n)
<1>1. CASE n < 1
  BY <1>1, SubSeqEmpty
<1>2. CASE n >= 1
  <2>1. n \in 0 .. Len(s) /\ n \in 0 .. Len(Append(s, e))
        /\ Append(s, e) \in Seq(S)
    BY <1>2, AppendProperties
  <2>2. \A i \in 1 .. n : Append(s, e)[i] = s[i]
    BY <2>1, AppendProperties
  <2> QED  BY <2>1, <2>2, PrefixIsSeq, SeqEqual
<1> QED  BY <1>1, <1>2

\* So does putting names behind a sequence.
LEMMA PrefixOfConcat ==
    ASSUME NEW S, NEW s \in Seq(S), NEW t \in Seq(S), NEW n \in 0 .. Len(s)
    PROVE  SubSeq(s \o t, 1, n) = SubSeq(s, 1, n)
<1>1. n \in 0 .. Len(s \o t) /\ s \o t \in Seq(S)
  BY ConcatProperties
<1>2. \A i \in 1 .. n : (s \o t)[i] = s[i]
  BY ConcatProperties
<1> QED  BY <1>1, <1>2, PrefixIsSeq, SeqEqual

\* A prefix of a prefix is the shorter one.
LEMMA PrefixOfPrefix ==
    ASSUME NEW S, NEW s \in Seq(S), NEW n \in 0 .. Len(s), NEW m \in 0 .. n
    PROVE  SubSeq(SubSeq(s, 1, n), 1, m) = SubSeq(s, 1, m)
<1>1. m \in 0 .. Len(s) /\ m \in 0 .. Len(SubSeq(s, 1, n))
      /\ SubSeq(s, 1, n) \in Seq(S)
  BY PrefixIsSeq
<1>2. \A i \in 1 .. m : SubSeq(SubSeq(s, 1, n), 1, m)[i] = s[i]
  BY <1>1, PrefixIsSeq
<1> QED  BY <1>1, <1>2, PrefixIsSeq, SeqEqual

\* What Append does.
LEMMA AppendFacts ==
    ASSUME NEW S, NEW s \in Seq(S), NEW e \in S
    PROVE  /\ Append(s, e) \in Seq(S)
           /\ Len(s) \in Nat /\ Len(Append(s, e)) = Len(s) + 1
           /\ DOMAIN s = 1 .. Len(s)
           /\ DOMAIN Append(s, e) = 1 .. Len(s) + 1
           /\ \A i \in 1 .. Len(s) : Append(s, e)[i] = s[i]
           /\ Append(s, e)[Len(s) + 1] = e
  BY AppendProperties, LenProperties

-----------------------------------------------------------------------------
(* The sizes vectors had when scopes started.                              *)

\* The sizes a vector had when scopes started never shrink inwards.
Marks(limits, s) ==
    /\ limits \in Seq(0 .. Len(s))
    /\ \A i, j \in DOMAIN limits : i <= j => limits[i] <= limits[j]

\* Limits stay limits while the vector they belong to does not get shorter.
LEMMA MarksGrow ==
    ASSUME NEW S, NEW s \in Seq(S), NEW t \in Seq(S), NEW limits,
           Marks(limits, s), Len(s) <= Len(t)
    PROVE  Marks(limits, t)
<1>1. 0 .. Len(s) \subseteq 0 .. Len(t)
  OBVIOUS
<1> QED  BY <1>1, SeqMonotonic DEF Marks

\* A push adds the present size.
LEMMA MarksPush ==
    ASSUME NEW S, NEW s \in Seq(S), NEW limits, Marks(limits, s)
    PROVE  Marks(Append(limits, Len(s)), s)
<1>1. limits \in Seq(0 .. Len(s)) /\ Len(s) \in 0 .. Len(s)
  BY DEF Marks
<1>2. Append(limits, Len(s)) \in Seq(0 .. Len(s))
  BY <1>1, AppendProperties
<1>3. ASSUME NEW i \in DOMAIN Append(limits, Len(s)),
             NEW j \in DOMAIN Append(limits, Len(s)), i <= j
      PROVE  Append(limits, Len(s))[i] <= Append(limits, Len(s))[j]
  <2>1. i \in 1 .. Len(limits) + 1 /\ j \in 1 .. Len(limits) + 1
    BY <1>1, <1>2, <1>3, AppendProperties, LenProperties
  <2>2. CASE j = Len(limits) + 1
    BY <1>1, <1>2, <2>1, <2>2, AppendProperties, LenProperties
  <2>3. CASE j # Len(limits) + 1
    BY <1>1, <1>3, <2>1, <2>3, AppendProperties, LenProperties DEF Marks
  <2> QED  BY <2>2, <2>3
<1> QED  BY <1>2, <1>3 DEF Marks

\* A pop cuts the vector where a scope started and keeps the outer limits.
LEMMA MarksPop ==
    ASSUME NEW S, NEW s \in Seq(S), NEW limits, Marks(limits, s),
           NEW n \in DOMAIN limits,
           NEW t \in Seq(S), Len(t) = limits[n]
    PROVE  /\ Marks(SubSeq(limits, 1, n - 1), t)
           /\ Len(SubSeq(limits, 1, n - 1)) = n - 1
           /\ \A i \in 1 .. n - 1 :
                 SubSeq(limits, 1, n - 1)[i] = limits[i] /\ limits[i] <= limits[n]
<1> DEFINE outer == SubSeq(limits, 1, n - 1)
<1>1. limits \in Seq(0 .. Len(s)) /\ n \in 1 .. Len(limits)
      /\ n - 1 \in 0 .. Len(limits)
  BY LenProperties DEF Marks
<1>2. /\ Len(outer) = n - 1 /\ DOMAIN outer = 1 .. n - 1
      /\ \A i \in 1 .. n - 1 : outer[i] = limits[i]
  BY <1>1, PrefixIsSeq
<1>3. \A i \in 1 .. n - 1 : limits[i] \in 0 .. limits[n]
  BY <1>1, LenProperties DEF Marks
<1>4. outer \in Seq(0 .. Len(t))
  <2>1. \A i \in 1 .. n - 1 : limits[i] \in 0 .. Len(t)
    BY <1>3
  <2> QED  BY <1>1, <2>1, SubSeqProperties
<1>5. \A i, j \in DOMAIN outer : i <= j => outer[i] <= outer[j]
  <2>1. \A i, j \in 1 .. n - 1 :
            i <= j => outer[i] = limits[i] /\ outer[j] = limits[j]
                      /\ i \in DOMAIN limits /\ j \in DOMAIN limits
    <3>1. DOMAIN limits = 1 .. Len(limits) /\ Len(limits) \in Nat
      BY <1>1, LenProperties
    <3>2. \A i \in 1 .. n - 1 : i \in DOMAIN limits
      BY <1>1, <3>1
    <3> HIDE DEF outer
    <3> QED  BY <1>2, <3>2
  <2> HIDE DEF outer
  <2> QED  BY <1>2, <2>1 DEF Marks
<1>6. Marks(outer, t)
  BY <1>4, <1>5 DEF Marks
<1>7. \A i \in 1 .. n - 1 : limits[i] <= limits[n]
  <2>1. limits[n] \in Nat
    BY <1>1, ElementOfSeq
  <2> HIDE DEF outer
  <2> QED  BY <1>3, <2>1
<1> HIDE DEF outer
<1>8. /\ Marks(outer, t) /\ Len(outer) = n - 1
      /\ \A i \in 1 .. n - 1 : outer[i] = limits[i] /\ limits[i] <= limits[n]
  BY <1>2, <1>6, <1>7
<1> QED  BY <1>8 DEF outer

\* What a pop leaves of the limits, and how they are ordered.
LEMMA OuterLimits ==
    ASSUME NEW s, NEW limits, Marks(limits, s), NEW n \in 1 .. Len(limits)
    PROVE  /\ Len(SubSeq(limits, 1, n - 1)) = n - 1
           /\ DOMAIN SubSeq(limits, 1, n - 1) = 1 .. n - 1
           /\ \A scope \in 1 .. n - 1 :
                 /\ SubSeq(limits, 1, n - 1)[scope] = limits[scope]
                 /\ limits[scope] \in 0 .. limits[n]
<1>1. /\ limits \in Seq(0 .. Len(s)) /\ Len(limits) \in Nat
      /\ DOMAIN limits = 1 .. Len(limits) /\ n - 1 \in 0 .. Len(limits)
  BY LenProperties DEF Marks
<1>2. ASSUME NEW scope \in 1 .. n - 1
      PROVE  limits[scope] \in 0 .. limits[n]
  <2>1. scope \in DOMAIN limits /\ n \in DOMAIN limits /\ scope <= n
    BY <1>1
  <2>2. limits[scope] <= limits[n]
    BY <2>1 DEF Marks
  <2>3. limits[scope] \in Nat /\ limits[n] \in Nat
    BY <1>1, <2>1, ElementOfSeq
  <2> QED  BY <2>2, <2>3
<1> QED  BY <1>1, <1>2, PrefixIsSeq
=============================================================================
