---------------------------- MODULE PathValuesProofs ----------------------------
(***************************************************************************)
(* Proofs about PathValues, for patterns of any length: the values never   *)
(* run out, and each name gets the value of its own wildcard.              *)
(***************************************************************************)
EXTENDS PathValues, FiniteSetTheorems, TLAPS

-----------------------------------------------------------------------------
(* Counting wildcards.                                                     *)

LEMMA BeforeFinite ==
    ASSUME pat \in Seq(Segment), NEW i
    PROVE  /\ IsFiniteSet(Wildcards(pat)) /\ IsFiniteSet(Before(pat, i))
           /\ Cardinality(Wildcards(pat)) \in Nat
           /\ Cardinality(Before(pat, i)) \in Nat
<1>1. Len(pat) \in Nat /\ DOMAIN pat = 1 .. Len(pat)
  OBVIOUS
<1>2. IsFiniteSet(1 .. Len(pat))
  BY <1>1, FS_Interval
<1>3. Wildcards(pat) \in SUBSET (1 .. Len(pat))
  BY <1>1 DEF Wildcards
<1>4. IsFiniteSet(Wildcards(pat))
  BY <1>2, <1>3, FS_Subset
<1>5. Before(pat, i) \in SUBSET Wildcards(pat)
  BY DEF Before
<1>6. IsFiniteSet(Before(pat, i))
  BY <1>4, <1>5, FS_Subset
<1>7. QED
  BY <1>4, <1>6, FS_CardinalityType

\* A wildcard is not before itself, but before whatever comes after it.
LEMMA BeforeGrows ==
    ASSUME pat \in Seq(Segment), NEW i \in Wildcards(pat), NEW j \in Nat, i < j
    PROVE  Cardinality(Before(pat, i)) < Cardinality(Before(pat, j))
<1>1. i \in Nat /\ Wildcards(pat) \subseteq Nat
  BY DEF Wildcards
<1>2. i \notin Before(pat, i)
  BY <1>1 DEF Before
<1>3. Cardinality(Before(pat, i) \cup {i}) = Cardinality(Before(pat, i)) + 1
  BY <1>2, BeforeFinite, FS_AddElement
<1>4. Before(pat, i) \cup {i} \in SUBSET Before(pat, j)
  BY <1>1 DEF Before
<1>5. Cardinality(Before(pat, i) \cup {i}) <= Cardinality(Before(pat, j))
  BY <1>4, BeforeFinite, FS_Subset
<1>6. QED
  BY <1>3, <1>5, BeforeFinite

\* The value of a wildcard is at the index that counts the wildcards before it.
LEMMA MatchAt ==
    ASSUME pat \in Seq(Segment), NEW i \in Wildcards(pat)
    PROVE  /\ Cardinality(Before(pat, i)) < Cardinality(Wildcards(pat))
           /\ MatchesOf(pat)[Cardinality(Before(pat, i)) + 1] = i
<1> DEFINE c == Cardinality(Before(pat, i))
<1>1. c \in Nat /\ Cardinality(Wildcards(pat)) \in Nat
  BY BeforeFinite
<1>2. c < Cardinality(Wildcards(pat))
  <2>1. i \in Nat /\ Len(pat) \in Nat /\ i <= Len(pat)
        /\ \A j \in Wildcards(pat) : j \in Nat /\ j <= Len(pat)
    BY DEF Wildcards
  <2>2. Before(pat, Len(pat) + 1) = Wildcards(pat)
    <3>1. \A j \in Wildcards(pat) : j < Len(pat) + 1
      BY <2>1
    <3>2. QED
      BY <3>1 DEF Before
  <2>3. c < Cardinality(Before(pat, Len(pat) + 1))
    BY <2>1, BeforeGrows
  <2>4. QED
    BY <2>2, <2>3
<1>3. \A j \in Wildcards(pat) : Cardinality(Before(pat, j)) = c => j = i
  <2> SUFFICES ASSUME NEW j \in Wildcards(pat), Cardinality(Before(pat, j)) = c, j # i
               PROVE  FALSE
    OBVIOUS
  <2>1. i \in Nat /\ j \in Nat
    BY DEF Wildcards
  <2>2. CASE i < j
    BY <1>1, <2>1, <2>2, BeforeGrows
  <2>3. CASE j < i
    BY <1>1, <2>1, <2>3, BeforeGrows
  <2>4. QED
    BY <2>1, <2>2, <2>3
<1>4. MatchesOf(pat)[c + 1] =
        CHOOSE j \in Wildcards(pat) : Cardinality(Before(pat, j)) = (c + 1) - 1
  <2>1. c + 1 \in 1 .. Cardinality(Wildcards(pat))
    BY <1>1, <1>2
  <2>2. QED
    BY <2>1 DEF MatchesOf
<1>5. (c + 1) - 1 = c
  BY <1>1
<1>6. MatchesOf(pat)[c + 1] \in Wildcards(pat)
      /\ Cardinality(Before(pat, MatchesOf(pat)[c + 1])) = c
  BY <1>4, <1>5
<1>7. QED
  BY <1>2, <1>3, <1>6

\* What is before the next segment, after this one has been visited.
LEMMA BeforeNext ==
    ASSUME pat \in Seq(Segment), NEW i \in 1 .. Len(pat)
    PROVE  Before(pat, i + 1) =
             IF HasValue(pat[i]) THEN Before(pat, i) \cup {i} ELSE Before(pat, i)
<1>1. DOMAIN pat = 1 .. Len(pat) /\ \A j \in Wildcards(pat) : j \in Nat
  BY DEF Wildcards
<1>2. i \in Wildcards(pat) <=> HasValue(pat[i])
  BY <1>1 DEF Wildcards, HasValue
<1>3. \A j \in Wildcards(pat) : j < i + 1 <=> j < i \/ j = i
  BY <1>1
<1>4. QED
  BY <1>2, <1>3 DEF Before

-----------------------------------------------------------------------------

LEMMA InitInvariant == Init => IInv
<1> SUFFICES ASSUME Init
             PROVE  IInv
  OBVIOUS
<1>1. PICK n \in 0 .. MaxSegments : pat \in [1 .. n -> Segment]
  BY DEF Init
<1>2. pat \in Seq(Segment) /\ WellFormed(pat)
  BY <1>1, MaxSegmentsAssumption DEF Init
<1>3. Before(pat, 1) = {}
  BY <1>2 DEF Before, Wildcards
<1>4. Cardinality(Before(pat, 1)) = 0
  BY <1>3, FS_EmptySet
<1>5. DOMAIN keyValue = {}
  BY DEF Init
<1>6. TypeOK
  BY <1>2, <1>5, BeforeFinite DEF Init, TypeOK
<1>7. LoopInv
  BY <1>3, <1>4, <1>5 DEF Init, LoopInv
<1>8. QED
  BY <1>6, <1>7 DEF Init, IInv, NeverPanics

LEMMA VisitStep ==
    ASSUME IInv, Visit
    PROVE  IInv'
<1>1. /\ pat \in Seq(Segment) /\ next \in 1 .. Len(pat) /\ Len(pat) \in Nat
      /\ at = "visiting" /\ pat' = pat /\ matches' = matches
      /\ matches = MatchesOf(pat)
      /\ matchIndex = Cardinality(Before(pat, next))
  BY DEF Visit, IInv, TypeOK, LoopInv, request
<1>2. Len(matches) = Cardinality(Wildcards(pat))
  <2>1. Cardinality(Wildcards(pat)) \in Nat
    BY <1>1, BeforeFinite
  <2>2. QED
    BY <1>1, <2>1 DEF MatchesOf
<1>3. CASE ~HasValue(pat[next])
  <2>1. /\ next' = next + 1
        /\ UNCHANGED <<at, matchIndex, keyValue>>
    BY <1>3 DEF Visit
  <2>2. Before(pat, next + 1) = Before(pat, next)
    BY <1>1, <1>3, BeforeNext
  <2>3. TypeOK'
    BY <1>1, <2>1 DEF IInv, TypeOK
  <2>4. LoopInv'
    BY <1>1, <2>1, <2>2 DEF IInv, LoopInv
  <2>5. QED
    BY <1>1, <2>1, <2>3, <2>4 DEF IInv, NeverPanics
<1>4. CASE HasValue(pat[next])
  <2>1. next \in Wildcards(pat)
    BY <1>1, <1>4 DEF Wildcards, HasValue
  <2>2. /\ matchIndex < Cardinality(Wildcards(pat))
        /\ matches[matchIndex + 1] = next
    BY <1>1, <2>1, MatchAt
  <2>3. /\ matchIndex \in Nat /\ Cardinality(Wildcards(pat)) \in Nat
    BY <1>1, BeforeFinite
  <2>4. /\ Store(pat[next].s, next)
        /\ next' = next + 1 /\ matchIndex' = matchIndex + 1
        /\ at' = at
    BY <1>2, <1>4, <2>2, <2>3 DEF Visit
  <2>5. Before(pat, next + 1) = Before(pat, next) \cup {next}
    BY <1>1, <1>4, BeforeNext
  <2>6. pat[next].s \in Names
    <3>1. pat[next] \in Segment
      BY <1>1
    <3>2. QED
      BY <1>4, <3>1 DEF Segment, HasValue
  <2>7. /\ DOMAIN keyValue' = DOMAIN keyValue \cup {pat[next].s}
        /\ \A n \in DOMAIN keyValue' :
             keyValue'[n] = IF n = pat[next].s THEN next ELSE keyValue[n]
    BY <2>4 DEF Store
  <2>8. TypeOK'
    <3>1. matchIndex' \in 0 .. Cardinality(Wildcards(pat)) /\ next' \in 1 .. Len(pat) + 1
      BY <1>1, <2>2, <2>3, <2>4
    <3>2. DOMAIN keyValue' \subseteq Names
      BY <2>6, <2>7 DEF IInv, TypeOK
    <3>3. QED
      BY <1>1, <2>4, <3>1, <3>2 DEF IInv, TypeOK
  <2>9. matchIndex' = Cardinality(Before(pat, next'))
    <3>1. next \notin Before(pat, next)
      BY <1>1 DEF Before
    <3>2. IsFiniteSet(Before(pat, next))
      BY <1>1, BeforeFinite
    <3>3. QED
      BY <1>1, <2>4, <2>5, <3>1, <3>2, FS_AddElement
  <2>10. DOMAIN keyValue' = {pat[i].s : i \in Before(pat, next')}
    BY <1>1, <2>4, <2>5, <2>7 DEF IInv, LoopInv
  <2>11. ASSUME NEW i \in Before(pat, next')
         PROVE  keyValue'[pat[i].s] = i
    <3>1. pat[i].s \in DOMAIN keyValue'
      BY <2>10, <2>11
    <3>2. CASE i = next
      BY <2>7, <3>1, <3>2
    <3>3. CASE i # next
      <4>1. i \in Before(pat, next) /\ i \in Wildcards(pat)
        BY <2>4, <2>5, <2>11, <3>3 DEF Before
      <4>2. pat[i].s # pat[next].s
        BY <2>1, <3>3, <4>1 DEF IInv, TypeOK, WellFormed
      <4>3. QED
        BY <2>7, <3>1, <4>1, <4>2 DEF IInv, LoopInv
    <3>4. QED
      BY <3>2, <3>3
  <2>12. LoopInv'
    BY <1>1, <2>4, <2>9, <2>10, <2>11 DEF LoopInv
  <2>13. QED
    BY <1>1, <2>4, <2>8, <2>12 DEF IInv, NeverPanics
<1>5. QED
  BY <1>3, <1>4

LEMMA StepInvariant == IInv /\ [Next]_vars => IInv'
<1> SUFFICES ASSUME IInv, [Next]_vars
             PROVE  IInv'
  OBVIOUS
<1>1. CASE Visit
  BY <1>1, VisitStep
<1>2. CASE NoPattern \/ Begin
  BY <1>2 DEF NoPattern, Begin, request, IInv, TypeOK, NeverPanics, LoopInv
<1>3. CASE Return
  <2>1. next = Len(pat) + 1
    BY <1>3 DEF Return, IInv, TypeOK
  <2>2. QED
    BY <1>3, <2>1 DEF Return, request, IInv, TypeOK, NeverPanics, LoopInv
<1>4. CASE UNCHANGED vars
  BY <1>4 DEF vars, request, IInv, TypeOK, NeverPanics, LoopInv
<1>5. QED
  BY <1>1, <1>2, <1>3, <1>4 DEF Next, Finished

-----------------------------------------------------------------------------
(* The theorems.                                                           *)

\* The types, and what the loop has done so far.
THEOREM InvariantCorrect == Spec => []IInv
BY InitInvariant, StepInvariant, PTL DEF Spec

\* Every variable keeps to the values its Go counterpart can have.
THEOREM TypeCorrect == Spec => []TypeOK
<1>1. IInv => TypeOK
  BY DEF IInv
<1>2. QED
  BY <1>1, InvariantCorrect, PTL

\* No index is outside of the matches, each name gets the value of its own
\* wildcard, and nothing else is a name.
THEOREM ValuesCorrect == Spec => []ValuesFollowNames
<1>1. IInv => ValuesFollowNames
  <2> SUFFICES ASSUME IInv, at = "returned"
               PROVE  /\ DOMAIN keyValue = {pat[i].s : i \in Wildcards(pat)}
                      /\ \A i \in Wildcards(pat) : keyValue[pat[i].s] = i
    BY DEF ValuesFollowNames, IInv
  <2>1. pat \in Seq(Segment) /\ next = Len(pat) + 1
    BY DEF IInv, TypeOK, LoopInv
  <2>2. \A i \in Wildcards(pat) : i < next
    BY <2>1 DEF Wildcards
  <2>3. Before(pat, next) = Wildcards(pat)
    BY <2>2 DEF Before
  <2>4. QED
    BY <2>3 DEF IInv, LoopInv
<1>2. QED
  BY <1>1, InvariantCorrect, PTL

=============================================================================
