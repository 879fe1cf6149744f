------------------------ MODULE ProcessorUtilProofs ------------------------
(***************************************************************************)
(* Proofs that the loops of FindAttributeValue and GetSpanMultiplier       *)
(* compute their reference definitions, for every bound on the lists and  *)
(* attributes, every set of keys and every set of ratios.                  *)
(***************************************************************************)
EXTENDS ProcessorUtil, TLAPS

\* The loop invariant of FindAttributeValue: every position before the
\* current one has another key.
FindLoopInv ==
    call = "find" /\ pc = "loop" =>
        /\ li \in 1..Len(lists) + 1
        /\ \A l2 \in DOMAIN lists : \A k2 \in DOMAIN lists[l2] :
              Before(l2, k2, li, ki) => ~Matches(l2, k2)

\* What GetSpanMultiplier's reference gives, as x, for the attributes
\* before index m.
RefAfter(m, x) ==
    IF \E j \in 1..m - 1 : IsRatio(j)
    THEN \E j \in 1..m - 1 :
            /\ IsRatio(j)
            /\ x = Recip(GetDoubleValue(attrs[j].value))
            /\ \A j2 \in 1..m - 1 : j2 > j => ~IsRatio(j2)
    ELSE x = One

\* The loop invariant of GetSpanMultiplier: spanMultiplier is what the
\* reference gives for the attributes before the current one.
MultLoopInv ==
    call = "mult" /\ pc = "loop" => RefAfter(mi, mult)

IInv ==
    /\ TypeOK
    /\ FindLoopInv
    /\ MultLoopInv
    /\ FindReturnsFirstMatch
    /\ MultiplierIsLastRatio

\* A bounded attribute slice is a sequence of key-values.
LEMMA AttrSeqsAreSeqs == AttrSeqs \subseteq Seq(KeyValues)
  BY UtilAssumption DEF AttrSeqs

LEMMA InitIInv == Init => IInv
  <1> SUFFICES ASSUME Init PROVE IInv
    OBVIOUS
  <1>1. CASE FindCall
    <2>1. lists \in Seq(Seq(KeyValues))
      BY <1>1, AttrSeqsAreSeqs, UtilAssumption DEF FindCall
    <2>2. TypeOK
      <3>1. str \in {StringifyAnyValue(v) : v \in AnyValues} \cup {EmptyString}
        BY <1>1 DEF FindCall
      <3>2. mult \in {One} \cup {Recip(v) : v \in Doubles}
        BY <1>1 DEF FindCall
      <3>3. li \in 1..Len(lists) + 1 /\ ki \in Nat \ {0}
        BY <1>1, <2>1 DEF FindCall
      <3>4. attrs \in Seq(KeyValues) /\ mi \in 1..Len(attrs) + 1
        BY <1>1 DEF FindCall
      <3>5. QED
        BY <1>1, <2>1, <3>1, <3>2, <3>3, <3>4, UtilAssumption DEF Init, FindCall, TypeOK
    <2>3. FindLoopInv
      <3>1. li = 1 /\ ki = 1
        BY <1>1 DEF FindCall
      <3>2. QED
        BY <3>1, <2>1 DEF FindLoopInv, Before
    <2>4. MultLoopInv /\ FindReturnsFirstMatch /\ MultiplierIsLastRatio
      BY <1>1 DEF Init, FindCall, MultLoopInv, FindReturnsFirstMatch, MultiplierIsLastRatio
    <2>5. QED
      BY <2>2, <2>3, <2>4 DEF IInv
  <1>2. CASE MultCall
    <2>1. attrs \in Seq(KeyValues)
      BY <1>2, AttrSeqsAreSeqs DEF MultCall
    <2>2. TypeOK
      <3>1. str \in {StringifyAnyValue(v) : v \in AnyValues} \cup {EmptyString}
        BY <1>2 DEF MultCall
      <3>2. mult \in {One} \cup {Recip(v) : v \in Doubles}
        BY <1>2 DEF MultCall
      <3>3. lists \in Seq(Seq(KeyValues)) /\ li \in 1..Len(lists) + 1 /\ ki \in Nat \ {0}
        BY <1>2 DEF MultCall
      <3>4. mi \in 1..Len(attrs) + 1 /\ key \in Keys
        BY <1>2, <2>1, UtilAssumption DEF MultCall
      <3>5. QED
        BY <1>2, <2>1, <3>1, <3>2, <3>3, <3>4, UtilAssumption DEF Init, MultCall, TypeOK
    <2>3. MultLoopInv
      <3>1. mi = 1 /\ mult = One
        BY <1>2 DEF MultCall
      <3>2. 1..mi - 1 = {}
        BY <3>1
      <3>3. QED
        BY <3>1, <3>2 DEF MultLoopInv, RefAfter
    <2>4. FindLoopInv /\ FindReturnsFirstMatch /\ MultiplierIsLastRatio
      BY <1>2 DEF Init, MultCall, FindLoopInv, FindReturnsFirstMatch, MultiplierIsLastRatio
    <2>5. QED
      BY <2>2, <2>3, <2>4 DEF IInv
  <1>3. QED
    BY <1>1, <1>2 DEF Init


\* Only FindAttributeValue's steps touch its variables, and only
\* GetSpanMultiplier's touch the multiplier's: each call's invariants are
\* kept by the other call's steps.
LEMMA FindStepsKeepMult ==
    ASSUME IInv, FindMatch \/ FindSkip \/ FindNextList \/ FindNotFound
    PROVE  MultLoopInv' /\ MultiplierIsLastRatio'
  BY DEF IInv, FindMatch, FindSkip, FindNextList, FindNotFound,
     MultLoopInv, MultiplierIsLastRatio

LEMMA MultStepsKeepFind ==
    ASSUME IInv, MultNoKey \/ MultStep \/ MultEnd
    PROVE  FindLoopInv' /\ FindReturnsFirstMatch'
  BY DEF IInv, MultNoKey, MultStep, MultEnd, FindLoopInv, FindReturnsFirstMatch

LEMMA FindStepIInv ==
    ASSUME IInv, FindMatch \/ FindSkip \/ FindNextList \/ FindNotFound
    PROVE  IInv'
  <1> USE DEF IInv, TypeOK
  <1>1. MultLoopInv' /\ MultiplierIsLastRatio'
    BY FindStepsKeepMult
  <1>2. CASE FindMatch
    <2>1. lists[li][ki] \in KeyValues
      BY <1>2 DEF FindMatch
    <2>2. TypeOK'
      BY <1>2, <2>1 DEF FindMatch, KeyValues
    <2>3. FindLoopInv'
      BY <1>2 DEF FindMatch, FindLoopInv
    <2>4. FindReturnsFirstMatch'
      <3>1. li \in DOMAIN lists /\ ki \in DOMAIN lists[li] /\ Matches(li, ki)
        BY <1>2 DEF FindMatch, Matches
      <3>2. \A l2 \in DOMAIN lists : \A k2 \in DOMAIN lists[l2] :
              Before(l2, k2, li, ki) => ~Matches(l2, k2)
        BY <1>2 DEF FindMatch, FindLoopInv
      <3>3. UNCHANGED <<call, key, lists, li, ki>> /\ pc' = "done" /\ found'
            /\ str' = StringifyAnyValue(lists[li][ki].value)
        BY <1>2 DEF FindMatch
      <3>4. \E l \in DOMAIN lists' : \E k \in DOMAIN lists'[l] : Matches(l, k)'
        BY <3>1, <3>3 DEF Matches
      <3>5. \E l \in DOMAIN lists' : \E k \in DOMAIN lists'[l] :
              /\ Matches(l, k)'
              /\ str' = StringifyAnyValue(lists'[l][k].value)
              /\ \A l2 \in DOMAIN lists' : \A k2 \in DOMAIN lists'[l2] :
                    Before(l2, k2, l, k) => ~Matches(l2, k2)'
        <4>1. /\ Matches(li, ki)'
              /\ str' = StringifyAnyValue(lists'[li][ki].value)
              /\ \A l2 \in DOMAIN lists' : \A k2 \in DOMAIN lists'[l2] :
                    Before(l2, k2, li, ki) => ~Matches(l2, k2)'
          BY <3>1, <3>2, <3>3 DEF Matches
        <4>2. li \in DOMAIN lists' /\ ki \in DOMAIN lists'[li]
          BY <3>1, <3>3
        <4>3. QED
          BY <3>3, <4>1, <4>2 DEF Matches, Before
      <3>6. QED
        BY <3>3, <3>4, <3>5 DEF FindReturnsFirstMatch
    <2>5. QED
      BY <1>1, <2>2, <2>3, <2>4
  <1>3. CASE FindSkip
    <2>1. TypeOK'
      BY <1>3 DEF FindSkip
    <2>2. FindLoopInv'
      <3>1. ~Matches(li, ki)
        BY <1>3 DEF FindSkip, Matches
      <3>2. QED
        BY <1>3, <3>1 DEF FindSkip, FindLoopInv, Before, Matches
    <2>3. FindReturnsFirstMatch'
      BY <1>3 DEF FindSkip, FindReturnsFirstMatch
    <2>4. QED
      BY <1>1, <2>1, <2>2, <2>3
  <1>4. CASE FindNextList
    <2>1. TypeOK'
      BY <1>4 DEF FindNextList
    <2>2. FindLoopInv'
      <3>1. li \in 1..Len(lists) /\ li' = li + 1 /\ ki' = 1 /\ UNCHANGED <<lists, key>>
        BY <1>4 DEF FindNextList, FindLoopInv
      <3>2. ASSUME NEW l2 \in DOMAIN lists, NEW k2 \in DOMAIN lists[l2],
                   Before(l2, k2, li + 1, 1)
            PROVE  Before(l2, k2, li, ki)
        <4>1. lists[l2] \in Seq(KeyValues)
          BY DEF TypeOK
        <4>2. l2 = li => k2 < ki
          BY <1>4, <4>1 DEF FindNextList
        <4>3. QED
          BY <3>1, <3>2, <4>2 DEF Before
      <3>3. QED
        BY <1>4, <3>1, <3>2 DEF FindNextList, FindLoopInv, Matches
    <2>3. FindReturnsFirstMatch'
      BY <1>4 DEF FindNextList, FindReturnsFirstMatch
    <2>4. QED
      BY <1>1, <2>1, <2>2, <2>3
  <1>5. CASE FindNotFound
    <2>1. TypeOK'
      BY <1>5 DEF FindNotFound
    <2>2. FindLoopInv'
      BY <1>5 DEF FindNotFound, FindLoopInv
    <2>3. \A l \in DOMAIN lists : \A k \in DOMAIN lists[l] : ~Matches(l, k)
      BY <1>5 DEF FindNotFound, FindLoopInv, Before
    <2>4. FindReturnsFirstMatch'
      BY <1>5, <2>3 DEF FindNotFound, FindReturnsFirstMatch, Matches
    <2>5. QED
      BY <1>1, <2>1, <2>2, <2>4
  <1>6. QED
    BY <1>2, <1>3, <1>4, <1>5


\* No attribute is a ratio for the empty ratio key: attribute keys are keys.
LEMMA NoRatioForNoKey ==
    ASSUME TypeOK, ratioKey = NoKey, NEW j \in DOMAIN attrs PROVE ~IsRatio(j)
  <1>1. attrs[j] \in KeyValues
    BY DEF TypeOK
  <1>2. attrs[j].key \in Keys
    BY <1>1 DEF KeyValues
  <1>3. QED
    BY <1>2, UtilAssumption DEF IsRatio

\* A positive GetDoubleValue is the number of a double.
LEMMA PositiveIsDouble ==
    ASSUME NEW v \in AnyValues, GetDoubleValue(v) > 0
    PROVE  GetDoubleValue(v) \in Doubles
  BY DEF AnyValues, GetDoubleValue

\* One iteration of the loop extends the reference by one attribute.
LEMMA RefAfterStep ==
    ASSUME NEW m \in Nat \ {0}, NEW x, RefAfter(m, x)
    PROVE  /\ IsRatio(m) => RefAfter(m + 1, Recip(GetDoubleValue(attrs[m].value)))
           /\ ~IsRatio(m) => RefAfter(m + 1, x)
  <1>1. ASSUME IsRatio(m) PROVE RefAfter(m + 1, Recip(GetDoubleValue(attrs[m].value)))
    BY <1>1 DEF RefAfter
  <1>2. ASSUME ~IsRatio(m) PROVE RefAfter(m + 1, x)
    <2>1. \A j \in 1..m : IsRatio(j) => j \in 1..m - 1
      BY <1>2
    <2>2. QED
      BY <1>2, <2>1 DEF RefAfter
  <1>3. QED
    BY <1>1, <1>2

LEMMA MultStepIInv ==
    ASSUME IInv, MultNoKey \/ MultStep \/ MultEnd
    PROVE  IInv'
  <1> USE DEF IInv, TypeOK
  <1>1. FindLoopInv' /\ FindReturnsFirstMatch'
    BY MultStepsKeepFind
  <1>2. CASE MultNoKey
    <2>1. TypeOK' /\ MultLoopInv'
      BY <1>2 DEF MultNoKey, MultLoopInv
    <2>2. \A j \in 1..mi - 1 : ~IsRatio(j)
      BY <1>2, NoRatioForNoKey DEF MultNoKey
    <2>3. mult = One
      BY <1>2, <2>2 DEF MultNoKey, MultLoopInv, RefAfter
    <2>4. MultiplierIsLastRatio'
      BY <1>2, <2>3 DEF MultNoKey, MultiplierIsLastRatio
    <2>5. QED
      BY <1>1, <2>1, <2>4
  <1>3. CASE MultStep
    <2>1. attrs[mi] \in KeyValues
      BY <1>3 DEF MultStep
    <2>2. UNCHANGED <<call, pc, ratioKey, attrs>> /\ mi' = mi + 1
      BY <1>3 DEF MultStep
    <2>3. RefAfter(mi, mult)
      BY <1>3 DEF MultStep, MultLoopInv
    <2>4. CASE IsRatio(mi)
      <3>1. GetDoubleValue(attrs[mi].value) \in Doubles
        BY <2>1, <2>4, PositiveIsDouble DEF IsRatio, KeyValues
      <3>2. mult' = Recip(GetDoubleValue(attrs[mi].value))
        BY <1>3, <2>4 DEF MultStep, IsRatio
      <3>3. RefAfter(mi + 1, mult')
        BY <2>3, <2>4, <3>2, RefAfterStep
      <3>4. TypeOK'
        BY <1>3, <3>1, <3>2 DEF MultStep
      <3>5. MultLoopInv'
        BY <2>2, <3>3 DEF MultLoopInv, RefAfter, IsRatio
      <3>6. MultiplierIsLastRatio'
        BY <1>3, <2>2 DEF MultStep, MultiplierIsLastRatio
      <3>7. QED
        BY <1>1, <3>4, <3>5, <3>6
    <2>5. CASE ~IsRatio(mi)
      <3>1. mult' = mult
        BY <1>3, <2>5 DEF MultStep, IsRatio
      <3>2. RefAfter(mi + 1, mult')
        <4>1. mi \in Nat \ {0}
          OBVIOUS
        <4>2. RefAfter(mi + 1, mult)
          BY <2>3, <2>5, <4>1, RefAfterStep
        <4>3. QED
          BY <3>1, <4>2
      <3>3. TypeOK'
        BY <1>3, <3>1 DEF MultStep
      <3>4. MultLoopInv'
        BY <2>2, <3>2 DEF MultLoopInv, RefAfter, IsRatio
      <3>5. MultiplierIsLastRatio'
        BY <1>3, <2>2 DEF MultStep, MultiplierIsLastRatio
      <3>6. QED
        BY <1>1, <3>3, <3>4, <3>5
    <2>6. QED
      BY <1>1, <2>4, <2>5
  <1>4. CASE MultEnd
    <2>1. TypeOK' /\ MultLoopInv'
      BY <1>4 DEF MultEnd, MultLoopInv
    <2>2. 1..mi - 1 = DOMAIN attrs
      BY <1>4 DEF MultEnd
    <2>3. RefAfter(mi, mult) /\ ratioKey # NoKey
      BY <1>4 DEF MultEnd, MultLoopInv
    <2>4. UNCHANGED <<call, ratioKey, attrs, mult>> /\ pc' = "done"
      BY <1>4 DEF MultEnd
    <2>5. MultiplierIsLastRatio'
      BY <2>2, <2>3, <2>4 DEF MultiplierIsLastRatio, RefAfter, IsRatio
    <2>6. QED
      BY <1>1, <2>1, <2>5
  <1>5. QED
    BY <1>2, <1>3, <1>4

LEMMA NextIInv == IInv /\ [Next]_vars => IInv'
  <1> SUFFICES ASSUME IInv, [Next]_vars PROVE IInv'
    OBVIOUS
  <1>1. CASE FindMatch \/ FindSkip \/ FindNextList \/ FindNotFound
    BY <1>1, FindStepIInv
  <1>2. CASE MultNoKey \/ MultStep \/ MultEnd
    BY <1>2, MultStepIInv
  <1>3. CASE UNCHANGED vars
    BY <1>3 DEF vars, IInv, TypeOK, FindLoopInv, MultLoopInv, FindReturnsFirstMatch,
       MultiplierIsLastRatio, Matches, Before, IsRatio, RefAfter
  <1>4. QED
    BY <1>1, <1>2, <1>3 DEF Next

LEMMA IInvariant == Spec => []IInv
  BY InitIInv, NextIInv, PTL DEF Spec

\* The helpers' loop indices stay within their slices (li within the lists
\* plus one, mi within span.Attributes plus one), and the multiplier is 1.0
\* or the inverse of a ratio, for every bound.
THEOREM TypeCorrect == Spec => []TypeOK
  BY IInvariant, PTL DEF IInv

\* FindAttributeValue (and FindServiceName) returns the string form of the
\* first matching value in argument order, or ("", false) when no key
\* matches (FindReturnsFirstMatch), for lists of any number and length.
THEOREM FindAttributeValueCorrect == Spec => []FindReturnsFirstMatch
  BY IInvariant, PTL DEF IInv

\* GetSpanMultiplier returns 1.0 / v for the last positive ratio v of the
\* ratio key, or 1.0 (MultiplierIsLastRatio), for spans of any length: it
\* never divides by zero or by a negative ratio.
THEOREM SpanMultiplierCorrect == Spec => []MultiplierIsLastRatio
  BY IInvariant, PTL DEF IInv

=============================================================================
