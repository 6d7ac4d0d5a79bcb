-------------------- MODULE MinimumSequentialCostProofs --------------------
(***************************************************************************)
(* Proofs that the certificate holds and that its witness is an attack,    *)
(* for every committee, weighting, resistance, cap schedule and threshold, *)
(* and for every order of the masks in which a set follows its subsets;    *)
(* and that a certificate issued on partial evidence holds for attacks     *)
(* that mix single purchases and packages in any order.                    *)
(***************************************************************************)
EXTENDS PackageAttack, AmountsProofs

\* What the assumptions say of the instance at hand.
LEMMA InstanceTypes ==
  ASSUME weight \in Weightings, resistance \in [Members -> Resistances]
  PROVE  weight \in [Members -> Nat] /\ resistance \in [Members -> Nat]
BY InstanceAssumption

\* Exposures and costs are numbers; a further member adds its cost.
LEMMA SetSums ==
  ASSUME weight \in [Members -> Nat], resistance \in [Members -> Nat],
         NEW S \in SUBSET Members
  PROVE  /\ Exposure(S) \in Nat
         /\ Cost(S) \in Nat
         /\ \A m \in Members \ S : Cost(S \cup {m}) = Cost(S) + resistance[m]
<1>1. IsFiniteSet(Members) /\ InitialExposure \in Nat
  BY InstanceAssumption
<1>2. TotalOn(weight, S) \in Nat /\ TotalOn(resistance, S) \in Nat
  BY <1>1, TotalSplit
<1>3. ASSUME NEW m \in Members \ S
      PROVE  Cost(S \cup {m}) = Cost(S) + resistance[m]
  <2>1. {m} \in SUBSET Members /\ S \cap {m} = {} /\ m \in Members
    OBVIOUS
  <2>2. TotalOn(resistance, S \cup {m}) = TotalOn(resistance, S) + TotalOn(resistance, {m})
    BY <1>1, <2>1, TotalUnion
  <2>3. TotalOn(resistance, {m}) = resistance[m]
    BY <2>1, TotalOne
  <2>4. QED
    BY <2>2, <2>3 DEF Cost
<1>4. QED
  BY <1>1, <1>2, <1>3 DEF Exposure, Cost

\* The acquirer has spent nothing on nobody, and nobody is no attack.
LEMMA EmptySums == Cost({}) = 0 /\ Exposure({}) = InitialExposure
<1>1. \A f : Units(Restrict(f, {})) = {}
  BY DEF Units, Restrict
<1>2. \A f : TotalOn(f, {}) = 0
  BY <1>1, FS_EmptySet DEF TotalOn, Total
<1>3. QED
  BY <1>2, InstanceAssumption DEF Cost, Exposure

\* Every set has a mask, and sets that contain a mask do not come before it.
LEMMA MaskFacts ==
  /\ Len(Masks) \in Nat
  /\ DOMAIN Masks = 1 .. Len(Masks)
  /\ \A k \in 1 .. Len(Masks) : Masks[k] \in SUBSET Members
BY MaskAssumption

-----------------------------------------------------------------------------
\* The scan starts with the empty set, from which the acquirer starts too.
LEMMA InvariantHolds == Init => CInv
<1>1. SUFFICES ASSUME Init PROVE CInv
  OBVIOUS
<1>2. TypeOK
  <2>1. 1 \in 1 .. Len(Masks) + 1
    BY MaskFacts
  <2>2. predecessor = << >> /\ DOMAIN predecessor = {}
    BY <1>1 DEF Init
  <2>3. << >> \in Seq(Members)
    OBVIOUS
  <2>4. QED
    BY <1>1, <2>1, <2>2, <2>3 DEF Init, InitAcquisition, TypeOK
<1>3. StepsAreOffers
  BY <1>1 DEF Init, StepsAreOffers
<1>4. VisitedSetsAreDone /\ AllVisited
  BY <1>1 DEF Init, VisitedSetsAreDone, AllVisited
<1>5. AttackIsInTable
  BY <1>1, EmptySums DEF Init, InitAcquisition, AttackIsInTable
<1>6. WitnessFollowsCursor
  BY <1>1 DEF Init, WitnessFollowsCursor
<1>7. QED
  BY <1>1, <1>2, <1>3, <1>4, <1>5, <1>6 DEF CInv, Init

\* The sums of a later state are those of this one: the instance is fixed.
LEMMA SameInstance ==
  ASSUME UNCHANGED instance, NEW S
  PROVE  /\ Exposure(S)' = Exposure(S)
         /\ Cost(S)' = Cost(S)
         /\ \A m, e : Accepts(m, e)' = Accepts(m, e)
         /\ Successors(S)' = Successors(S)
BY DEF instance, Exposure, Cost, Accepts, Successors, WithinCap

\* A mask that is not reachable stays unreachable.
LEMMA SkipKeeps == CInv /\ Skip => CInv'
<1>1. SUFFICES ASSUME CInv, Skip PROVE CInv'
  OBVIOUS
<1>2. position \in 1 .. Len(Masks) /\ position' = position + 1
  BY <1>1, MaskFacts DEF CInv, TypeOK, Skip, Scanning, Advance
<1>3. TypeOK'
  <2>1. position' \in 1 .. Len(Masks) + 1
    BY <1>2, MaskFacts
  <2>2. QED
    BY <1>1, <2>1 DEF CInv, TypeOK, Skip, instance, acquisition, table, trace, Exposure
<1>4. StepsAreOffers'
  BY <1>1 DEF CInv, StepsAreOffers, Skip, instance, table, Exposure, Accepts
<1>5. VisitedSetsAreDone'
  <2>1. SUFFICES ASSUME NEW k \in 1 .. position, Masks[k] \in reachable
        PROVE  IF Exposure(Masks[k]) < Threshold THEN Successors(Masks[k]) \subseteq reachable
               ELSE best # {} /\ Cost(best) <= Cost(Masks[k])
    BY <1>1, <1>2, SameInstance DEF VisitedSetsAreDone, Skip, table
  <2>2. k \in 1 .. position - 1
    BY <1>1, <1>2, <2>1 DEF Skip, Mask
  <2>3. QED
    BY <1>1, <2>1, <2>2 DEF CInv, VisitedSetsAreDone
<1>6. AttackIsInTable'
  BY <1>1, SameInstance DEF CInv, AttackIsInTable, Skip, acquisition, table
<1>7. phase' = "scan" /\ witness' = << >>
  BY <1>1 DEF CInv, Skip, Scanning, trace
<1>8. QED
  BY <1>3, <1>4, <1>5, <1>6, <1>7 DEF CInv, AllVisited, WitnessFollowsCursor

\* The best set stays the cheapest that was looked at.
LEMMA SucceedKeeps == CInv /\ Succeed => CInv'
<1>1. SUFFICES ASSUME CInv, Succeed PROVE CInv'
  OBVIOUS
<1>2. position \in 1 .. Len(Masks) /\ position' = position + 1
  BY <1>1, MaskFacts DEF CInv, TypeOK, Succeed, Scanning, Advance
<1>3. /\ Mask \in SUBSET Members /\ Mask \in reachable
      /\ Exposure(Mask) >= Threshold
      /\ best \in SUBSET Members
  BY <1>1 DEF CInv, TypeOK, Succeed, Reaches
<1>4. weight \in [Members -> Nat] /\ resistance \in [Members -> Nat]
  BY <1>1, InstanceTypes DEF CInv, TypeOK
<1>5. Mask # {}
  <2>1. SUFFICES ASSUME Mask = {} PROVE FALSE
    OBVIOUS
  <2>2. Exposure(Mask) = InitialExposure
    BY <2>1, EmptySums DEF Exposure
  <2>3. QED
    BY <1>3, <2>2, InstanceAssumption
<1>6. best' # {} /\ Cost(best') <= Cost(Mask) /\ (best # {} => Cost(best') <= Cost(best))
  <2>1. Cost(Mask) \in Nat /\ Cost(best) \in Nat
    BY <1>3, <1>4, SetSums
  <2>2. best' = IF Better(Mask) THEN Mask ELSE best
    BY <1>1 DEF Succeed
  <2>3. QED
    BY <1>5, <2>1, <2>2 DEF Better
<1>7. TypeOK'
  <2>1. position' \in 1 .. Len(Masks) + 1
    BY <1>2, MaskFacts
  <2>2. best' \in reachable /\ Exposure(best') >= Threshold
    BY <1>1, <1>3 DEF CInv, TypeOK, Succeed, Better
  <2>3. QED
    BY <1>1, <2>1, <2>2 DEF CInv, TypeOK, Succeed, instance, acquisition, table, trace, Exposure
<1>8. StepsAreOffers'
  BY <1>1 DEF CInv, StepsAreOffers, Succeed, instance, table, Exposure, Accepts
<1>9. VisitedSetsAreDone'
  <2>1. UNCHANGED instance /\ UNCHANGED reachable
    BY <1>1 DEF Succeed, table
  <2>2. SUFFICES ASSUME NEW k \in 1 .. position, Masks[k] \in reachable
        PROVE  IF Exposure(Masks[k]) < Threshold THEN Successors(Masks[k]) \subseteq reachable
               ELSE best' # {} /\ Cost(best') <= Cost(Masks[k])
    BY <1>2, <2>1, SameInstance DEF VisitedSetsAreDone, Cost, instance
  <2>3. CASE k = position
    BY <1>3, <1>4, <1>6, <2>3, SetSums, InstanceAssumption DEF Mask
  <2>4. CASE k \in 1 .. position - 1
    <3>1. IF Exposure(Masks[k]) < Threshold THEN Successors(Masks[k]) \subseteq reachable
          ELSE best # {} /\ Cost(best) <= Cost(Masks[k])
      BY <1>1, <2>2, <2>4 DEF CInv, VisitedSetsAreDone
    <3>2. Masks[k] \in SUBSET Members /\ best' \in SUBSET Members
      BY <1>1, <1>2, <1>3, <2>4, MaskFacts DEF Succeed
    <3>3. Cost(Masks[k]) \in Nat /\ Cost(best) \in Nat /\ Cost(best') \in Nat
      BY <1>3, <1>4, <3>2, SetSums
    <3>4. QED
      BY <1>6, <3>1, <3>3
  <2>5. QED
    BY <1>2, <2>3, <2>4
<1>10. AttackIsInTable'
  BY <1>1, SameInstance DEF CInv, AttackIsInTable, Succeed, acquisition, table, instance, Cost
<1>11. phase' = "scan" /\ witness' = << >>
  BY <1>1 DEF CInv, Succeed, Scanning, trace
<1>12. QED
  BY <1>7, <1>8, <1>9, <1>10, <1>11 DEF CInv, AllVisited, WitnessFollowsCursor

\* A successor of a set is that set and one more member within its cap.
LEMMA SuccessorFacts ==
  ASSUME NEW S \in SUBSET Members, NEW T \in Successors(S)
  PROVE  /\ T \in SUBSET Members
         /\ T # {}
         /\ S \subseteq T
         /\ \E m \in Members \ S : T = S \cup {m} /\ Accepts(m, Exposure(S))
BY DEF Successors, WithinCap

\* New sets come after the one they were reached from, so nothing that was
\* looked at becomes reachable later.
LEMMA ExtendKeeps == CInv /\ Extend => CInv'
<1>1. SUFFICES ASSUME CInv, Extend PROVE CInv'
  OBVIOUS
<1>2. position \in 1 .. Len(Masks) /\ position' = position + 1
  BY <1>1, MaskFacts DEF CInv, TypeOK, Extend, Scanning, Advance
<1>3. Mask \in SUBSET Members /\ Mask \in reachable
  BY <1>1 DEF CInv, TypeOK, Extend
<1>4. Exposure(Mask) < Threshold
  <2>1. Exposure(Mask) \in Nat
    BY <1>1, <1>3, InstanceTypes, SetSums DEF CInv, TypeOK
  <2>2. QED
    BY <1>1, <2>1, InstanceAssumption DEF Extend, Reaches
<1>. DEFINE New == Successors(Mask)
<1>5. /\ reachable' = reachable \cup New
      /\ predecessor' = [S \in DOMAIN predecessor \cup New |->
                           IF S \in DOMAIN predecessor THEN predecessor[S] ELSE Mask]
      /\ UNCHANGED <<weight, resistance, cap, bought, spent, phase, best, cursor, witness>>
  BY <1>1 DEF Extend, instance, acquisition, trace
<1>6. \A T \in New :
        /\ T \in SUBSET Members /\ T # {} /\ Mask \subseteq T
        /\ \E m \in Members \ Mask : T = Mask \cup {m} /\ Accepts(m, Exposure(Mask))
  BY <1>3, SuccessorFacts
<1>7. UNCHANGED instance
  BY <1>5 DEF instance
<1>. HIDE DEF New
<1>8. TypeOK'
  <2>1. position' \in 1 .. Len(Masks) + 1
    BY <1>2, MaskFacts
  <2>2. reachable' \in SUBSET SUBSET Members
    BY <1>1, <1>5, <1>6 DEF CInv, TypeOK
  <2>3. DOMAIN predecessor' = reachable' \ {{}}
    BY <1>1, <1>5, <1>6 DEF CInv, TypeOK
  <2>4. ASSUME NEW S \in DOMAIN predecessor'
        PROVE  /\ predecessor'[S] \in reachable'
               /\ Exposure(predecessor'[S]) < Threshold
               /\ \E m \in Members \ predecessor'[S] : S = predecessor'[S] \cup {m}
    <3>1. CASE S \in DOMAIN predecessor
      <4>1. predecessor'[S] = predecessor[S]
        BY <1>5, <3>1
      <4>2. QED
        BY <1>1, <1>5, <3>1, <4>1 DEF CInv, TypeOK
    <3>2. CASE S \notin DOMAIN predecessor
      <4>1. predecessor'[S] = Mask /\ S \in New
        BY <1>5, <2>4, <3>2
      <4>2. QED
        BY <1>3, <1>4, <1>5, <1>6, <4>1
    <3>3. QED
      BY <3>1, <3>2
  <2>5. QED
    BY <1>1, <1>5, <2>1, <2>2, <2>3, <2>4 DEF CInv, TypeOK, Exposure
<1>9. StepsAreOffers'
  <2>1. SUFFICES ASSUME NEW S \in DOMAIN predecessor', NEW m \in S \ predecessor'[S]
        PROVE  Accepts(m, Exposure(predecessor'[S]))
    BY <1>5 DEF StepsAreOffers, Accepts, Exposure
  <2>2. CASE S \in DOMAIN predecessor
    <3>1. predecessor'[S] = predecessor[S]
      BY <1>5, <2>2
    <3>2. QED
      BY <1>1, <2>1, <2>2, <3>1 DEF CInv, StepsAreOffers
  <2>3. CASE S \notin DOMAIN predecessor
    <3>1. predecessor'[S] = Mask /\ S \in New
      BY <1>5, <2>1, <2>3
    <3>2. QED
      BY <1>6, <2>1, <3>1
  <2>4. QED
    BY <2>2, <2>3
<1>10. VisitedSetsAreDone'
  <2>1. SUFFICES ASSUME NEW k \in 1 .. position, Masks[k] \in reachable'
        PROVE  IF Exposure(Masks[k]) < Threshold THEN Successors(Masks[k]) \subseteq reachable'
               ELSE best # {} /\ Cost(best) <= Cost(Masks[k])
    BY <1>2, <1>5, <1>7, SameInstance DEF VisitedSetsAreDone, Cost
  <2>2. CASE k = position
    BY <1>4, <1>5, <2>2 DEF Mask, New
  <2>3. CASE k \in 1 .. position - 1
    <3>1. ~(Mask \subseteq Masks[k])
      BY <1>2, <2>3, MaskFacts, MaskAssumption DEF Mask
    <3>2. Masks[k] \in reachable
      BY <1>5, <1>6, <2>1, <3>1
    <3>3. QED
      BY <1>1, <1>5, <2>3, <3>2 DEF CInv, VisitedSetsAreDone
  <2>4. QED
    BY <1>2, <2>2, <2>3
<1>11. AttackIsInTable'
  BY <1>1, <1>5, <1>7, SameInstance DEF CInv, AttackIsInTable, Cost
<1>12. phase' = "scan" /\ witness' = << >>
  BY <1>1, <1>5 DEF CInv, Extend, Scanning
<1>13. QED
  BY <1>8, <1>9, <1>10, <1>11, <1>12 DEF CInv, AllVisited, WitnessFollowsCursor

-----------------------------------------------------------------------------
\* The end of the scan without a solution.
LEMMA NoAttackExistsKeeps == CInv /\ NoAttackExists => CInv'
<1>1. SUFFICES ASSUME CInv, NoAttackExists PROVE CInv'
  OBVIOUS
<1>2. /\ UNCHANGED <<weight, resistance, cap, bought, spent, position, reachable,
                     predecessor, best, cursor, witness>>
      /\ phase' = "done" /\ best = {} /\ position > Len(Masks)
  BY <1>1 DEF NoAttackExists, Scanned, instance, acquisition, table, trace
<1>3. position = Len(Masks) + 1
  BY <1>1, <1>2, MaskFacts DEF CInv, TypeOK
<1>4. TypeOK'
  BY <1>1, <1>2 DEF CInv, TypeOK, Exposure
<1>5. StepsAreOffers' /\ VisitedSetsAreDone' /\ AttackIsInTable'
  BY <1>1, <1>2 DEF CInv, StepsAreOffers, VisitedSetsAreDone, AttackIsInTable,
                    Exposure, Accepts, Cost, Successors, WithinCap
<1>6. QED
  BY <1>2, <1>3, <1>4, <1>5 DEF CInv, AllVisited, WitnessFollowsCursor

\* The trace starts with the whole best set ahead of it.
LEMMA StartTraceKeeps == CInv /\ StartTrace => CInv'
<1>1. SUFFICES ASSUME CInv, StartTrace PROVE CInv'
  OBVIOUS
<1>2. /\ UNCHANGED <<weight, resistance, cap, bought, spent, position, reachable,
                     predecessor, best, witness>>
      /\ phase' = "trace" /\ cursor' = best /\ position > Len(Masks) /\ witness = << >>
  BY <1>1 DEF StartTrace, Scanned, instance, acquisition, table, CInv
<1>3. position = Len(Masks) + 1
  BY <1>1, <1>2, MaskFacts DEF CInv, TypeOK
<1>4. TypeOK'
  BY <1>1, <1>2 DEF CInv, TypeOK, Exposure
<1>5. StepsAreOffers' /\ VisitedSetsAreDone' /\ AttackIsInTable'
  BY <1>1, <1>2 DEF CInv, StepsAreOffers, VisitedSetsAreDone, AttackIsInTable,
                    Exposure, Accepts, Cost, Successors, WithinCap
<1>6. WitnessFollowsCursor'
  <2>1. Cardinality(best) \in Nat
    <3>1. IsFiniteSet(best)
      BY <1>1, InstanceAssumption, FS_Subset DEF CInv, TypeOK
    <3>2. QED
      BY <3>1, FS_CardinalityType
  <2>2. QED
    BY <1>2, <2>1 DEF WitnessFollowsCursor
<1>7. QED
  BY <1>2, <1>3, <1>4, <1>5, <1>6 DEF CInv, AllVisited

\* A sequence that got a new head.
LEMMA NewHead ==
  ASSUME NEW w \in Seq(Members), NEW m \in Members
  PROVE  /\ (<<m>> \o w) \in Seq(Members)
         /\ Len(<<m>> \o w) = Len(w) + 1
         /\ (<<m>> \o w)[1] = m
         /\ \A i \in 1 .. Len(w) : (<<m>> \o w)[i + 1] = w[i]
OBVIOUS

\* One step back: the member that was added last moves to the witness.
LEMMA TraceBackKeeps == CInv /\ TraceBack => CInv'
<1>1. SUFFICES ASSUME CInv, TraceBack PROVE CInv'
  OBVIOUS
<1>. DEFINE P == predecessor[cursor]
<1>2. /\ UNCHANGED <<weight, resistance, cap, bought, spent, position, reachable,
                     predecessor, best, phase>>
      /\ phase = "trace" /\ cursor # {} /\ cursor' = P
  BY <1>1 DEF TraceBack, instance, acquisition, table
<1>3. cursor \in DOMAIN predecessor
  BY <1>1, <1>2 DEF CInv, TypeOK
<1>4. /\ P \in reachable /\ P \in SUBSET Members /\ Exposure(P) < Threshold
      /\ \E m \in Members \ P : cursor = P \cup {m}
  BY <1>1, <1>3 DEF CInv, TypeOK
<1>5. PICK m \in cursor \ P : witness' = <<m>> \o witness
  BY <1>1 DEF TraceBack
<1>6. m \in Members /\ m \notin P /\ cursor = P \cup {m}
  BY <1>4, <1>5
<1>7. Accepts(m, Exposure(P))
  BY <1>1, <1>3, <1>5 DEF CInv, StepsAreOffers
<1>8. witness \in Seq(Members) /\ Len(witness) \in Nat
  BY <1>1 DEF CInv, TypeOK
<1>9. /\ witness' \in Seq(Members)
      /\ Len(witness') = Len(witness) + 1
      /\ DOMAIN witness' = 1 .. Len(witness) + 1
      /\ witness'[1] = m
      /\ \A i \in 1 .. Len(witness) : witness'[i + 1] = witness[i]
  BY <1>5, <1>6, <1>8, NewHead
<1>. HIDE DEF P
<1>10. TypeOK'
  BY <1>1, <1>2, <1>4, <1>9 DEF CInv, TypeOK, Exposure
<1>11. StepsAreOffers' /\ VisitedSetsAreDone' /\ AllVisited' /\ AttackIsInTable'
  BY <1>1, <1>2 DEF CInv, StepsAreOffers, VisitedSetsAreDone, AllVisited, AttackIsInTable,
                    Exposure, Accepts, Cost, Successors, WithinCap
<1>12. WitnessFollowsCursor'
  <2>. DEFINE Before(r) == cursor \cup {witness[i] : i \in 1 .. r - 1}
              After(r) == P \cup {witness'[i] : i \in 1 .. r - 1}
  <2>1. SUFFICES ASSUME best # {}
        PROVE  /\ best = After(Len(witness') + 1)
               /\ Cardinality(best) = Cardinality(P) + Len(witness')
               /\ \A r \in DOMAIN witness' :
                    /\ Exposure(After(r)) < Threshold
                    /\ Accepts(witness'[r], Exposure(After(r)))
    BY <1>2 DEF WitnessFollowsCursor, Exposure, Accepts
  <2>2. /\ best = Before(Len(witness) + 1)
        /\ Cardinality(best) = Cardinality(cursor) + Len(witness)
        /\ \A r \in DOMAIN witness :
             /\ Exposure(Before(r)) < Threshold
             /\ Accepts(witness[r], Exposure(Before(r)))
    BY <1>1, <1>2, <2>1 DEF CInv, WitnessFollowsCursor
  <2>3. \A r \in 2 .. Len(witness) + 2 : After(r) = Before(r - 1)
    <3>1. SUFFICES ASSUME NEW r \in 2 .. Len(witness) + 2 PROVE After(r) = Before(r - 1)
      OBVIOUS
    <3>2. r - 1 \in 1 .. Len(witness) + 1 /\ (r - 1) - 1 = r - 2
      BY <1>8
    <3>3. ASSUME NEW i \in 1 .. r - 1
          PROVE  witness'[i] \in {m} \cup {witness[j] : j \in 1 .. r - 2}
      <4>1. CASE i = 1
        BY <1>9, <4>1
      <4>2. CASE i # 1
        <5>1. i - 1 \in 1 .. Len(witness) /\ i - 1 \in 1 .. r - 2 /\ (i - 1) + 1 = i
          BY <1>8, <4>2
        <5>2. witness'[i] = witness[i - 1]
          BY <1>9, <5>1
        <5>3. QED
          BY <5>1, <5>2
      <4>3. QED
        BY <4>1, <4>2
    <3>4. ASSUME NEW j \in 1 .. r - 2
          PROVE  witness[j] \in {witness'[i] : i \in 1 .. r - 1}
      <4>1. j \in 1 .. Len(witness) /\ j + 1 \in 1 .. r - 1
        BY <1>8
      <4>2. witness'[j + 1] = witness[j]
        BY <1>9, <4>1
      <4>3. QED
        BY <4>1, <4>2
    <3>5. m \in {witness'[i] : i \in 1 .. r - 1}
      BY <1>8, <1>9
    <3>6. {witness'[i] : i \in 1 .. r - 1} = {m} \cup {witness[i] : i \in 1 .. r - 2}
      BY <3>3, <3>4, <3>5
    <3>7. QED
      BY <1>6, <3>2, <3>6
  <2>4. After(1) = P
    <3>1. 1 .. 1 - 1 = {}
      OBVIOUS
    <3>2. QED
      BY <3>1
  <2>5. best = After(Len(witness') + 1)
    <3>1. Len(witness) + 2 \in 2 .. Len(witness) + 2 /\ (Len(witness) + 2) - 1 = Len(witness) + 1
      BY <1>8
    <3>2. Len(witness') + 1 = Len(witness) + 2
      BY <1>8, <1>9
    <3>3. After(Len(witness) + 2) = Before((Len(witness) + 2) - 1)
      BY <2>3, <3>1
    <3>4. QED
      BY <2>2, <3>1, <3>2, <3>3
  <2>6. Cardinality(best) = Cardinality(P) + Len(witness')
    <3>1. IsFiniteSet(P)
      BY <1>4, InstanceAssumption, FS_Subset
    <3>2. Cardinality(P) \in Nat /\ Cardinality(cursor) = Cardinality(P) + 1
      BY <1>6, <3>1, FS_CardinalityType, FS_AddElement
    <3>3. QED
      BY <1>8, <1>9, <2>2, <3>2
  <2>7. ASSUME NEW r \in DOMAIN witness'
        PROVE  Exposure(After(r)) < Threshold /\ Accepts(witness'[r], Exposure(After(r)))
    <3>1. CASE r = 1
      BY <1>4, <1>7, <1>9, <2>4, <3>1
    <3>2. CASE r # 1
      <4>1. r \in 2 .. Len(witness) + 2 /\ r - 1 \in 1 .. Len(witness) /\ (r - 1) + 1 = r
        BY <1>8, <1>9, <3>2
      <4>2. After(r) = Before(r - 1) /\ witness'[r] = witness[r - 1]
        BY <1>9, <2>3, <4>1
      <4>3. r - 1 \in DOMAIN witness
        BY <1>8, <4>1
      <4>4. QED
        BY <2>2, <4>2, <4>3
    <3>3. QED
      BY <3>1, <3>2
  <2>8. QED
    BY <2>5, <2>6, <2>7
<1>13. QED
  BY <1>2, <1>10, <1>11, <1>12 DEF CInv

\* The whole best set is in the witness.
LEMMA EndTraceKeeps == CInv /\ EndTrace => CInv'
<1>1. SUFFICES ASSUME CInv, EndTrace PROVE CInv'
  OBVIOUS
<1>2. /\ UNCHANGED <<weight, resistance, cap, bought, spent, position, reachable,
                     predecessor, best, cursor, witness>>
      /\ phase = "trace" /\ phase' = "done" /\ cursor = {}
  BY <1>1 DEF EndTrace, instance, acquisition, table, trace
<1>3. TypeOK'
  BY <1>1, <1>2 DEF CInv, TypeOK, Exposure
<1>4. StepsAreOffers' /\ VisitedSetsAreDone' /\ AllVisited' /\ AttackIsInTable'
  BY <1>1, <1>2 DEF CInv, StepsAreOffers, VisitedSetsAreDone, AllVisited, AttackIsInTable,
                    Exposure, Accepts, Cost, Successors, WithinCap
<1>5. WitnessFollowsCursor'
  BY <1>1, <1>2 DEF CInv, WitnessFollowsCursor, Exposure, Accepts
<1>6. QED
  BY <1>2, <1>3, <1>4, <1>5 DEF CInv

-----------------------------------------------------------------------------
\* An attack goes from a set of the table to one of its successors, which is
\* in the table because every set was looked at.
LEMMA AttackKeeps == \A n \in Members : CInv /\ Attack(n) => CInv'
<1>1. SUFFICES ASSUME NEW n \in Members, CInv, Attack(n) PROVE CInv'
  OBVIOUS
<1>2. /\ UNCHANGED <<weight, resistance, cap, phase, position, reachable,
                     predecessor, best, cursor, witness>>
      /\ phase = "done"
      /\ n \notin bought /\ Exposure(bought) < Threshold /\ Accepts(n, Exposure(bought))
      /\ bought' = bought \cup {n} /\ spent' = spent + resistance[n]
  BY <1>1 DEF Attack, Buy, instance, table, trace
<1>3. bought \in SUBSET Members /\ bought \in reachable /\ spent = Cost(bought)
  BY <1>1 DEF CInv, TypeOK, AttackIsInTable
<1>4. weight \in [Members -> Nat] /\ resistance \in [Members -> Nat]
  BY <1>1, InstanceTypes DEF CInv, TypeOK
<1>5. bought' \in reachable
  <2>1. PICK k \in 1 .. Len(Masks) : Masks[k] = bought
    BY <1>3, MaskFacts, MaskAssumption
  <2>2. k \in 1 .. position - 1
    BY <1>1, <1>2, MaskFacts DEF CInv, AllVisited
  <2>3. Successors(bought) \subseteq reachable
    BY <1>1, <1>2, <1>3, <2>1, <2>2 DEF CInv, VisitedSetsAreDone
  <2>4. bought' \in Successors(bought)
    BY <1>1, <1>2 DEF Successors, WithinCap
  <2>5. QED
    BY <2>3, <2>4
<1>6. Cost(bought) \in Nat /\ Cost(bought \cup {n}) = Cost(bought) + resistance[n]
  BY <1>1, <1>2, <1>3, <1>4, SetSums
<1>7. TypeOK'
  <2>1. bought' \in SUBSET Members /\ spent' \in Nat
    BY <1>1, <1>2, <1>3, <1>4, <1>6
  <2>2. QED
    BY <1>1, <1>2, <2>1 DEF CInv, TypeOK, Exposure
<1>8. AttackIsInTable'
  <2>1. Cost(bought)' = Cost(bought \cup {n})
    BY <1>2 DEF Cost
  <2>2. QED
    BY <1>2, <1>3, <1>5, <1>6, <2>1 DEF AttackIsInTable
<1>9. StepsAreOffers' /\ AllVisited'
  BY <1>1, <1>2 DEF CInv, StepsAreOffers, AllVisited, Exposure, Accepts
<1>10. VisitedSetsAreDone'
  BY <1>1, <1>2 DEF CInv, VisitedSetsAreDone, Exposure, Accepts, Cost, Successors, WithinCap
<1>11. WitnessFollowsCursor'
  BY <1>1, <1>2 DEF CInv, WitnessFollowsCursor, Exposure, Accepts
<1>12. QED
  BY <1>1, <1>2, <1>7, <1>8, <1>9, <1>10, <1>11 DEF CInv

\* The strengthening of the certificate's properties that every step of the
\* solver and of the attack keeps.
THEOREM Invariant == Spec => []CInv
<1>1. Init => CInv
  BY InvariantHolds
<1>2. CInv /\ [Next]_vars => CInv'
  <2>1. SUFFICES ASSUME CInv, [Next]_vars PROVE CInv'
    OBVIOUS
  <2>2. CASE Skip
    BY <2>1, <2>2, SkipKeeps
  <2>3. CASE Succeed
    BY <2>1, <2>3, SucceedKeeps
  <2>4. CASE Extend
    BY <2>1, <2>4, ExtendKeeps
  <2>5. CASE NoAttackExists
    BY <2>1, <2>5, NoAttackExistsKeeps
  <2>6. CASE StartTrace
    BY <2>1, <2>6, StartTraceKeeps
  <2>7. CASE TraceBack
    BY <2>1, <2>7, TraceBackKeeps
  <2>8. CASE EndTrace
    BY <2>1, <2>8, EndTraceKeeps
  <2>9. CASE \E n \in Members : Attack(n)
    BY <2>1, <2>9, AttackKeeps
  <2>10. CASE UNCHANGED vars
    <3>1. UNCHANGED <<weight, resistance, cap, bought, spent, phase, position,
                      reachable, predecessor, best, cursor, witness>>
      BY <2>10 DEF vars, instance, acquisition, table, trace
    <3>2. TypeOK'
      BY <2>1, <3>1 DEF CInv, TypeOK, Exposure
    <3>3. StepsAreOffers' /\ AllVisited'
      BY <2>1, <3>1 DEF CInv, StepsAreOffers, AllVisited, Exposure, Accepts
    <3>4. VisitedSetsAreDone'
      BY <2>1, <3>1 DEF CInv, VisitedSetsAreDone, Exposure, Accepts, Cost,
                        Successors, WithinCap
    <3>5. AttackIsInTable'
      BY <2>1, <3>1 DEF CInv, AttackIsInTable, Cost
    <3>6. WitnessFollowsCursor'
      BY <2>1, <3>1 DEF CInv, WitnessFollowsCursor, Exposure, Accepts
    <3>7. QED
      BY <2>1, <3>1, <3>2, <3>3, <3>4, <3>5, <3>6 DEF CInv
  <2>11. QED
    BY <2>1, <2>2, <2>3, <2>4, <2>5, <2>6, <2>7, <2>8, <2>9, <2>10 DEF Next, Solve
<1>3. QED
  BY <1>1, <1>2, PTL DEF Spec

\* The types, and the structure of the table.
THEOREM TypeCorrect == Spec => []TypeOK
<1>1. CInv => TypeOK
  BY DEF CInv
<1>2. QED
  BY <1>1, Invariant, PTL

\* The certificate is a lower bound: no acquirer, in whatever order it buys,
\* reaches the threshold for less than the cost that was certified.
THEOREM CertificateHolds == Spec => []NoCheaperAttack
<1>1. CInv => NoCheaperAttack
  <2>1. SUFFICES ASSUME CInv, phase = "done", Exposure(bought) >= Threshold
        PROVE  best # {} /\ spent >= Cost(best)
    BY DEF NoCheaperAttack
  <2>2. /\ bought \in SUBSET Members /\ bought \in reachable /\ spent = Cost(bought)
        /\ best \in SUBSET Members
    BY <2>1 DEF CInv, TypeOK, AttackIsInTable
  <2>3. weight \in [Members -> Nat] /\ resistance \in [Members -> Nat]
    BY <2>1, InstanceTypes DEF CInv, TypeOK
  <2>4. Exposure(bought) \in Nat /\ Cost(bought) \in Nat /\ Cost(best) \in Nat
    BY <2>2, <2>3, SetSums
  <2>5. PICK k \in 1 .. Len(Masks) : Masks[k] = bought
    BY <2>2, MaskFacts, MaskAssumption
  <2>6. k \in 1 .. position - 1
    BY <2>1, MaskFacts DEF CInv, AllVisited
  <2>7. ~(Exposure(bought) < Threshold)
    BY <2>1, <2>4, InstanceAssumption
  <2>8. best # {} /\ Cost(best) <= Cost(bought)
    BY <2>1, <2>2, <2>5, <2>6, <2>7 DEF CInv, VisitedSetsAreDone
  <2>9. QED
    BY <2>2, <2>4, <2>8
<1>2. QED
  BY <1>1, Invariant, PTL

\* The certificate is attained: the witness is an attack of that cost.
THEOREM WitnessAttains == Spec => []WitnessIsAttack
<1>1. CInv => WitnessIsAttack
  <2>1. SUFFICES ASSUME CInv, phase = "done", best # {} PROVE WitnessIsAttack
    BY DEF WitnessIsAttack
  <2>2. cursor = {} /\ \A r : {} \cup {witness[i] : i \in 1 .. r - 1} = {witness[i] : i \in 1 .. r - 1}
    BY <2>1 DEF CInv, WitnessFollowsCursor
  <2>3. Exposure(best) >= Threshold
    BY <2>1 DEF CInv, TypeOK
  <2>4. Cardinality(best) = Len(witness)
    <3>1. Cardinality(best) = Cardinality(cursor) + Len(witness) /\ Len(witness) \in Nat
      BY <2>1 DEF CInv, TypeOK, WitnessFollowsCursor
    <3>2. Cardinality(cursor) = 0
      BY <2>2, FS_EmptySet
    <3>3. QED
      BY <3>1, <3>2
  <2>5. QED
    BY <2>1, <2>2, <2>3, <2>4 DEF CInv, WitnessFollowsCursor, WitnessIsAttack
<1>2. QED
  BY <1>1, Invariant, PTL

-----------------------------------------------------------------------------
(* Packages under partial evidence.                                        *)

\* A larger set exposes at least as much and costs at least as much.
LEMMA LargerSets ==
  ASSUME weight \in [Members -> Nat], NEW S \in SUBSET Members, NEW T \in SUBSET Members, S \subseteq T
  PROVE  /\ Exposure(S) \in Nat
         /\ Exposure(T) \in Nat
         /\ Exposure(S) <= Exposure(T)
<1>1. IsFiniteSet(Members) /\ InitialExposure \in Nat
  BY InstanceAssumption
<1>2. TotalOn(weight, S) \in Nat /\ TotalOn(weight, T) \in Nat
  BY <1>1, TotalSplit
<1>3. TotalOn(weight, S) <= TotalOn(weight, T)
  BY <1>1, TotalGrows
<1>4. QED
  BY <1>1, <1>2, <1>3 DEF Exposure

\* The cost that stands for none is a number.
LEMMA InfiniteIsANumber == Infinite \in Nat
<1>1. Resistances \in SUBSET Nat /\ Resistances # {} /\ IsFiniteSet(Resistances)
  BY InstanceAssumption, LedgerAssumption
<1>2. \E x \in Resistances : \A y \in Resistances : x >= y
  BY <1>1, GreatestNatural
<1>3. Max(Resistances) \in Nat
  BY <1>1, <1>2 DEF Max
<1>4. Cardinality(Members) \in Nat
  BY InstanceAssumption, FS_CardinalityType
<1>5. QED
  BY <1>3, <1>4 DEF Infinite

\* The least cost is not above any of them.
LEMMA LeastIsLeast ==
  ASSUME NEW costs \in SUBSET Nat, NEW c \in costs
  PROVE  Least(costs) <= c
<1>. DEFINE T == costs \cup {Infinite}
<1>1. T \in SUBSET Nat /\ T # {} /\ c \in T
  BY InfiniteIsANumber
<1>2. \E x \in T : \A y \in T : x <= y
  <2>. HIDE DEF T
  <2>1. QED
    BY <1>1, LeastNatural
<1>3. Min(T) \in T /\ \A y \in T : Min(T) <= y
  BY <1>2 DEF Min
<1>4. QED
  BY <1>1, <1>3 DEF Least

\* There is an exposure from which a member is for sale, if only the one that
\* is never reached; it is the least one at which the member's cap admits it.
LEMMA ActivationFacts ==
  ASSUME weight \in Weightings, NEW m \in Members
  PROVE  /\ ActivatedAt(m) \in 0 .. Never
         /\ Never \in Nat
         /\ ActivatedAt(m) = Never \/ Accepts(m, ActivatedAt(m))
         /\ \A d \in 0 .. ActivatedAt(m) - 1 : ~Accepts(m, d)
<1>. DEFINE T == {e \in 0 .. Never : e = Never \/ Accepts(m, e)}
<1>1. Never \in Nat
  <2>1. Total(weight) \in Nat /\ Total(weight) = Whole /\ InitialExposure \in Nat
    BY InstanceAssumption, TotalType
  <2>2. QED
    BY <2>1 DEF Never
<1>2. PICK e \in T : \A d \in T : e <= d
  <2>1. T \in SUBSET Nat /\ Never \in T
    BY <1>1
  <2>. HIDE DEF T
  <2>2. QED
    BY <2>1, LeastNatural
<1>3. \A d \in 0 .. e - 1 : ~Accepts(m, d)
  <2>1. TAKE d \in 0 .. e - 1
  <2>2. d \in 0 .. Never /\ ~(e <= d)
    BY <1>1, <1>2
  <2>3. d \notin T
    BY <1>2, <2>2
  <2>4. QED
    BY <2>2, <2>3
<1>4. QED
  BY <1>1, <1>2, <1>3 DEF ActivatedAt

\* A cap does not fall as the exposure grows.
LEMMA CapGrows ==
  ASSUME NEW c \in Caps, NEW d \in Nat, NEW e \in Nat, d <= e
  PROVE  /\ At(c, d) \in Nat
         /\ At(c, e) \in Nat
         /\ At(c, d) <= At(c, e)
<1>. DEFINE Passed(x) == {k \in DOMAIN c : c[k].from <= x}
            Last(x) == CHOOSE k \in Passed(x) : \A j \in Passed(x) : j <= k
<1>1. /\ c \in Seq([from : Nat, value : Nat]) /\ c # << >> /\ c[1].from = 0
      /\ \A j, k \in DOMAIN c : j < k => c[j].from < c[k].from /\ c[j].value <= c[k].value
  BY InstanceAssumption DEF StepCap
<1>2. /\ Len(c) \in Nat /\ DOMAIN c = 1 .. Len(c) /\ 1 \in DOMAIN c
      /\ \A k \in DOMAIN c : c[k].from \in Nat /\ c[k].value \in Nat
  <2>1. Len(c) \in Nat /\ DOMAIN c = 1 .. Len(c) /\ 1 \in DOMAIN c
    BY <1>1
  <2>. DEFINE Breakpoints == [from : Nat, value : Nat]
  <2>2. c \in Seq(Breakpoints)
    BY <1>1
  <2>3. \A k \in DOMAIN c : c[k] \in Breakpoints
    <3>. HIDE DEF Breakpoints
    <3>1. QED
      BY <2>2
  <2>4. QED
    BY <2>1, <2>3
<1>3. ASSUME NEW x \in Nat
      PROVE  /\ Last(x) \in Passed(x)
             /\ \A j \in Passed(x) : j <= Last(x)
             /\ Last(x) \in DOMAIN c
             /\ At(c, x) = c[Last(x)].value
             /\ At(c, x) \in Nat
  <2>1. /\ Passed(x) \in SUBSET Nat /\ 1 \in Passed(x)
        /\ Passed(x) \subseteq 1 .. Len(c)
    BY <1>1, <1>2
  <2>2. IsFiniteSet(Passed(x))
    <3>1. IsFiniteSet(1 .. Len(c))
      BY <1>2, FS_Interval
    <3>2. QED
      BY <2>1, <3>1, FS_Subset
  <2>3. \E k \in Passed(x) : \A j \in Passed(x) : k >= j
    <3>. HIDE DEF Passed
    <3>1. QED
      BY <2>1, <2>2, GreatestNatural
  <2>4. \E k \in Passed(x) : \A j \in Passed(x) : j <= k
    BY <2>1, <2>3
  <2>5. Last(x) \in Passed(x) /\ \A j \in Passed(x) : j <= Last(x)
    <3>. HIDE DEF Passed
    <3>1. QED
      BY <2>4
  <2>6. At(c, x) = c[Last(x)].value
    BY DEF At
  <2>7. Last(x) \in DOMAIN c
    BY <2>5
  <2>. HIDE DEF Last, Passed
  <2>8. QED
    BY <1>2, <2>5, <2>6, <2>7
<1>4. Last(d) \in Passed(e)
  <2>1. Last(d) \in DOMAIN c /\ Last(d) \in Passed(d)
    BY <1>3
  <2>. HIDE DEF Last
  <2>2. c[Last(d)].from \in Nat /\ c[Last(d)].from <= d
    BY <1>2, <2>1
  <2>3. QED
    BY <2>1, <2>2
<1>5. Last(d) <= Last(e) /\ Last(d) \in DOMAIN c /\ Last(e) \in DOMAIN c
  BY <1>3, <1>4
<1>. HIDE DEF Last, Passed
<1>6. c[Last(d)].value <= c[Last(e)].value
  <2>. DEFINE j == Last(d)
              k == Last(e)
  <2>1. j <= k /\ j \in DOMAIN c /\ k \in DOMAIN c
    BY <1>5
  <2>. HIDE DEF j, k
  <2>2. c[j].value \in Nat /\ c[k].value \in Nat /\ j \in Nat /\ k \in Nat
    BY <1>2, <2>1
  <2>3. c[j].value <= c[k].value
    <3>1. CASE j = k
      BY <2>2, <3>1
    <3>2. CASE j < k
      BY <1>1, <2>1, <3>2
    <3>3. QED
      BY <2>1, <2>2, <3>1, <3>2
  <2>4. QED
    BY <2>3 DEF j, k
<1>7. QED
  BY <1>3, <1>6

\* The gate of a member is its cap in scalar form.
LEMMA GateIsCap ==
  ASSUME weight \in Weightings, resistance \in [Members -> Resistances], cap \in [Members -> Caps],
         NEW m \in Members, NEW e \in 0 .. Never - 1
  PROVE  Accepts(m, e) <=> ActivatedAt(m) <= e
<1>1. /\ ActivatedAt(m) \in 0 .. Never
      /\ Never \in Nat
      /\ ActivatedAt(m) = Never \/ Accepts(m, ActivatedAt(m))
      /\ \A d \in 0 .. ActivatedAt(m) - 1 : ~Accepts(m, d)
  BY ActivationFacts
<1>2. ASSUME Accepts(m, e) PROVE ActivatedAt(m) <= e
  <2>1. e \notin 0 .. ActivatedAt(m) - 1
    BY <1>1, <1>2
  <2>2. QED
    BY <1>1, <2>1
<1>3. ASSUME ActivatedAt(m) <= e PROVE Accepts(m, e)
  <2>1. Accepts(m, ActivatedAt(m))
    BY <1>1, <1>3
  <2>2. cap[m] \in Caps /\ ActivatedAt(m) \in Nat /\ e \in Nat /\ resistance[m] \in Nat
    <3>1. resistance[m] \in Nat
      BY InstanceAssumption
    <3>2. QED
      BY <1>1, <3>1
  <2>3. /\ At(cap[m], ActivatedAt(m)) \in Nat /\ At(cap[m], e) \in Nat
        /\ At(cap[m], ActivatedAt(m)) <= At(cap[m], e)
    BY <1>3, <2>2, CapGrows
  <2>4. QED
    BY <2>1, <2>2, <2>3 DEF Accepts
<1>4. QED
  BY <1>2, <1>3

\* What a ledger that is true of the committee says.
LEMMA LedgerFacts ==
  ASSUME weight \in Weightings, resistance \in [Members -> Resistances],
         NEW e \in Ledgers, NEW l, l = LedgerOf(e)
  PROVE  /\ l # NoLedger
         /\ l.floor \in [Members -> Nat]
         /\ \A m \in Members : l.floor[m] <= resistance[m]
         /\ \A m \in Members : Gate(l, m) \in Nat /\ Gate(l, m) <= ActivatedAt(m)
         /\ l.family \in SUBSET SUBSET Members
         /\ l.repeats \in Nat
<1>1. resistance \in [Members -> Nat]
  BY InstanceTypes
<1>2. \A m \in Members : ActivatedAt(m) \in Nat
  BY ActivationFacts
<1>3. e.family \in SUBSET SUBSET Members /\ e.repeats \in Nat
  BY LedgerAssumption
<1>4. /\ l.floor = [m \in Members |-> IF m \in e.backed THEN resistance[m] ELSE 0]
      /\ l.gate = [m \in Members |-> ActivatedAt(m)]
      /\ l.family = e.family /\ l.repeats = e.repeats
  BY DEF LedgerOf
<1>5. l # NoLedger
  <2>1. "floor" \in DOMAIN l /\ "floor" \notin DOMAIN NoLedger
    BY DEF LedgerOf, NoLedger
  <2>2. QED
    BY <2>1
<1>6. l.floor \in [Members -> Nat] /\ \A m \in Members : l.floor[m] <= resistance[m]
  BY <1>1, <1>4
<1>7. \A m \in Members : Gate(l, m) \in Nat /\ Gate(l, m) <= ActivatedAt(m)
  BY <1>2, <1>4 DEF Gate
<1>8. QED
  BY <1>3, <1>4, <1>5, <1>6, <1>7

\* No package and one more package.
LEMMA ClosureFacts ==
  ASSUME NEW family \in SUBSET SUBSET Members, NEW r \in Nat
  PROVE  /\ {} \in DisjointUnionClosure(family, r)
         /\ DisjointUnionClosure(family, r) \subseteq SUBSET Members
         /\ \A q \in Nat : r <= q =>
              DisjointUnionClosure(family, r) \subseteq DisjointUnionClosure(family, q)
         /\ \A P \in DisjointUnionClosure(family, r), Q \in family :
              P \cap Q = {} => P \cup Q \in DisjointUnionClosure(family, r + 1)
<1>. DEFINE Union(s, n) == UNION {s[i] : i \in 1 .. n}
            Apart(s, n) == \A i, j \in 1 .. n : i # j => s[i] \cap s[j] = {}
<1>1. ASSUME NEW n \in Nat, NEW P
      PROVE  P \in DisjointUnionClosure(family, n)
               <=> \E s \in [1 .. n -> family \cup {{}}] : Apart(s, n) /\ P = Union(s, n)
  BY DEF DisjointUnionClosure, PackageChoices
<1>2. {} \in DisjointUnionClosure(family, r)
  <2>. DEFINE s == [i \in 1 .. r |-> {}]
  <2>1. s \in [1 .. r -> family \cup {{}}] /\ Apart(s, r) /\ Union(s, r) = {}
    OBVIOUS
  <2>. HIDE DEF s, Apart, Union
  <2>2. QED
    BY <1>1, <2>1
<1>3. DisjointUnionClosure(family, r) \subseteq SUBSET Members
  <2>1. ASSUME NEW P \in DisjointUnionClosure(family, r) PROVE P \in SUBSET Members
    <3>1. PICK s \in [1 .. r -> family \cup {{}}] : P = Union(s, r)
      <4>. HIDE DEF Apart, Union
      <4>1. QED
        BY <1>1, <2>1
    <3>2. \A i \in 1 .. r : s[i] \subseteq Members
      OBVIOUS
    <3>3. QED
      BY <3>1, <3>2
  <2>2. QED
    BY <2>1
\* More choices than are needed are empty, and one more choice is the package Q.
<1>4. ASSUME NEW s \in [1 .. r -> family \cup {{}}], Apart(s, r), NEW q \in Nat, r <= q,
             NEW Q \in family \cup {{}}, Q \cap Union(s, r) = {}, q = r => Q = {}
      PROVE  Union(s, r) \cup Q \in DisjointUnionClosure(family, q)
  <2>. DEFINE z == [i \in 1 .. q |-> IF i \in 1 .. r THEN s[i] ELSE IF i = r + 1 THEN Q ELSE {}]
  <2>1. \A i \in 1 .. r : i \in 1 .. q /\ z[i] = s[i]
    BY <1>4
  <2>2. \A i \in 1 .. q : i \notin 1 .. r /\ i # r + 1 => z[i] = {}
    OBVIOUS
  <2>3. r + 1 \notin 1 .. r /\ (r + 1 \in 1 .. q => z[r + 1] = Q)
    OBVIOUS
  <2>4. Q # {} => r + 1 \in 1 .. q
    BY <1>4
  <2>5. z \in [1 .. q -> family \cup {{}}]
    OBVIOUS
  <2>. HIDE DEF z
  <2>6. Apart(z, q)
    <3>1. TAKE i, j \in 1 .. q
    <3>2. HAVE i # j
    <3>3. CASE i \in 1 .. r /\ j \in 1 .. r
      BY <1>4, <2>1, <3>2, <3>3
    <3>4. CASE i \in 1 .. r /\ j = r + 1
      BY <1>4, <2>1, <2>3, <3>4
    <3>5. CASE i = r + 1 /\ j \in 1 .. r
      BY <1>4, <2>1, <2>3, <3>5
    <3>6. CASE z[i] = {} \/ z[j] = {}
      BY <3>6
    <3>7. QED
      BY <2>2, <3>2, <3>3, <3>4, <3>5, <3>6
  <2>7. Union(z, q) = Union(s, r) \cup Q
    <3>1. ASSUME NEW x \in Union(z, q)
          PROVE  x \in Union(s, r) \cup Q
      <4>1. PICK i \in 1 .. q : x \in z[i]
        BY <3>1
      <4>2. CASE i \in 1 .. r
        BY <2>1, <4>1, <4>2
      <4>3. CASE i \notin 1 .. r
        BY <2>2, <2>3, <4>1, <4>3
      <4>4. QED
        BY <4>2, <4>3
    <3>2. ASSUME NEW x \in Union(s, r)
          PROVE  x \in Union(z, q)
      BY <2>1, <3>2
    <3>3. ASSUME NEW x \in Q
          PROVE  x \in Union(z, q)
      BY <2>3, <2>4, <3>3
    <3>4. QED
      BY <3>1, <3>2, <3>3
  <2>. HIDE DEF Apart, Union
  <2>8. QED
    BY <1>1, <2>5, <2>6, <2>7
<1>5. ASSUME NEW q \in Nat, r <= q, NEW P \in DisjointUnionClosure(family, r)
      PROVE  P \in DisjointUnionClosure(family, q)
  <2>. HIDE DEF Apart, Union
  <2>1. PICK s \in [1 .. r -> family \cup {{}}] : Apart(s, r) /\ P = Union(s, r)
    BY <1>1, <1>5
  <2>2. Union(s, r) \cup {} \in DisjointUnionClosure(family, q)
    BY <1>4, <1>5, <2>1
  <2>3. QED
    BY <2>1, <2>2
<1>6. ASSUME NEW P \in DisjointUnionClosure(family, r), NEW Q \in family, P \cap Q = {}
      PROVE  P \cup Q \in DisjointUnionClosure(family, r + 1)
  <2>1. PICK s \in [1 .. r -> family \cup {{}}] : Apart(s, r) /\ P = Union(s, r)
    <3>. HIDE DEF Apart, Union
    <3>1. QED
      BY <1>1, <1>6
  <2>2. Q \cap Union(s, r) = {}
    BY <1>6, <2>1
  <2>3. r + 1 \in Nat /\ r <= r + 1 /\ r + 1 # r /\ Q \in family \cup {{}}
    OBVIOUS
  <2>. HIDE DEF Apart, Union
  <2>4. Union(s, r) \cup Q \in DisjointUnionClosure(family, r + 1)
    BY <1>4, <2>1, <2>2, <2>3
  <2>5. QED
    BY <2>1, <2>4
<1>7. QED
  BY <1>2, <1>3, <1>5, <1>6

\* A set that could be bought after P can be bought after more, and so can a
\* further member that is for sale when all of it is held.  The member comes
\* before those with larger gates: if there are any, the first of them is for
\* sale when just the members with smaller gates than its own are held, and
\* these are the ones with smaller gates than the new member's.
LEMMA BuildableGrows ==
  ASSUME weight \in [Members -> Nat], NEW l, \A m \in Members : Gate(l, m) \in Nat,
         NEW P \in SUBSET Members, NEW S \in SUBSET Members, BuildableFrom(l, P, S)
  PROVE  /\ \A Q \in SUBSET Members : BuildableFrom(l, P \cup Q, S)
         /\ \A m \in Members : Gate(l, m) <= Exposure(P \cup S) => BuildableFrom(l, P, S \cup {m})
<1>. DEFINE Before(T, m) == {n \in T : Gate(l, n) < Gate(l, m)}
<1>1. \A n \in S : Gate(l, n) <= Exposure(P \cup Before(S, n))
  BY DEF BuildableFrom
<1>2. ASSUME NEW A \in SUBSET Members, NEW B \in SUBSET Members, A \subseteq B, NEW g \in Nat, g <= Exposure(A)
      PROVE  g <= Exposure(B)
  <2>1. Exposure(A) \in Nat /\ Exposure(B) \in Nat /\ Exposure(A) <= Exposure(B)
    BY <1>2, LargerSets
  <2>2. QED
    BY <1>2, <2>1
<1>3. ASSUME NEW Q \in SUBSET Members
      PROVE  BuildableFrom(l, P \cup Q, S)
  <2>1. ASSUME NEW n \in S
        PROVE  Gate(l, n) <= Exposure((P \cup Q) \cup Before(S, n))
    <3>. DEFINE A == P \cup Before(S, n)
                B == (P \cup Q) \cup Before(S, n)
    <3>1. A \in SUBSET Members /\ B \in SUBSET Members /\ A \subseteq B
      OBVIOUS
    <3>2. Gate(l, n) \in Nat /\ Gate(l, n) <= Exposure(A)
      BY <1>1, <2>1
    <3>. HIDE DEF A, B
    <3>3. Gate(l, n) <= Exposure(B)
      BY <1>2, <3>1, <3>2
    <3>4. QED
      BY <3>3 DEF B
  <2>2. QED
    BY <2>1 DEF BuildableFrom
<1>4. ASSUME NEW m \in Members, Gate(l, m) <= Exposure(P \cup S)
      PROVE  BuildableFrom(l, P, S \cup {m})
  <2>. DEFINE T == S \cup {m}
              Later == {n \in S : Gate(l, n) >= Gate(l, m)}
  <2>1. ASSUME NEW n \in S
        PROVE  Gate(l, n) <= Exposure(P \cup Before(T, n))
    <3>. DEFINE A == P \cup Before(S, n)
                B == P \cup Before(T, n)
    <3>1. A \in SUBSET Members /\ B \in SUBSET Members /\ A \subseteq B
      OBVIOUS
    <3>2. Gate(l, n) \in Nat /\ Gate(l, n) <= Exposure(A)
      BY <1>1, <2>1
    <3>. HIDE DEF A, B
    <3>3. Gate(l, n) <= Exposure(B)
      BY <1>2, <3>1, <3>2
    <3>4. QED
      BY <3>3 DEF B
  <2>2. Gate(l, m) <= Exposure(P \cup Before(T, m))
    <3>0. /\ Before(T, m) \in SUBSET Members
          /\ \A n \in S : Gate(l, n) \in Nat /\ Gate(l, m) \in Nat
      OBVIOUS
    <3>1. CASE Later = {}
      <4>1. S \subseteq Before(T, m)
        BY <3>0, <3>1
      <4>2. P \cup S \in SUBSET Members /\ P \cup Before(T, m) \in SUBSET Members
            /\ P \cup S \subseteq P \cup Before(T, m)
        BY <3>0, <4>1
      <4>. HIDE DEF Before
      <4>3. QED
        BY <1>2, <1>4, <4>2
    <3>2. CASE Later # {}
      <4>. DEFINE G == {Gate(l, n) : n \in Later}
      <4>1. G \in SUBSET Nat /\ G # {}
        BY <3>2
      <4>2. PICK g \in G : \A h \in G : g <= h
        <5>. HIDE DEF G
        <5>1. QED
          BY <4>1, LeastNatural
      <4>3. PICK k \in Later : g = Gate(l, k)
        BY <4>2
      <4>4. \A n \in Later : Gate(l, k) <= Gate(l, n)
        BY <4>2, <4>3
      <4>5. k \in S /\ Gate(l, k) \in Nat /\ Gate(l, m) \in Nat /\ Gate(l, m) <= Gate(l, k)
        BY <3>0, <4>3
      <4>6. Before(S, k) \subseteq Before(T, m)
        <5>1. ASSUME NEW n \in S, Gate(l, n) < Gate(l, k)
              PROVE  Gate(l, n) < Gate(l, m)
          <6>1. n \notin Later
            BY <3>0, <4>4, <4>5, <5>1
          <6>2. QED
            BY <3>0, <6>1
        <5>2. QED
          BY <5>1
      <4>7. P \cup Before(S, k) \in SUBSET Members /\ P \cup Before(T, m) \in SUBSET Members
            /\ P \cup Before(S, k) \subseteq P \cup Before(T, m)
        BY <3>0, <4>6
      <4>8. Gate(l, k) <= Exposure(P \cup Before(S, k))
        BY <1>1, <4>5
      <4>. HIDE DEF Before, Later, T
      <4>9. Gate(l, k) <= Exposure(P \cup Before(T, m))
        BY <1>2, <4>5, <4>7, <4>8
      <4>10. Exposure(P \cup Before(T, m)) \in Nat
        BY <4>7, LargerSets
      <4>11. QED
        BY <4>5, <4>9, <4>10
    <3>3. QED
      BY <3>1, <3>2
  <2>3. QED
    BY <2>1, <2>2 DEF BuildableFrom
<1>5. QED
  BY <1>3, <1>4

\* The certificate is at most what packages and members bought after them cost.
LEMMA CertificateBound ==
  ASSUME weight \in Weightings, resistance \in [Members -> Resistances],
         NEW e \in Ledgers, NEW l, l = LedgerOf(e),
         NEW P \in DisjointUnionClosure(l.family, l.repeats),
         NEW S \in SUBSET (Members \ P),
         BuildableFrom(l, P, S), Exposure(P \cup S) >= Threshold
  PROVE  ClosedForm(l) <= Cost(P \cup S)
<1>. DEFINE closure == DisjointUnionClosure(l.family, l.repeats)
            CostsAfter(Q) == {TotalOn(l.floor, Q \cup T) : T \in Completions(l, Q)}
            costs == UNION {CostsAfter(Q) : Q \in closure}
<1>1. /\ l.floor \in [Members -> Nat] /\ \A m \in Members : l.floor[m] <= resistance[m]
      /\ l.family \in SUBSET SUBSET Members /\ l.repeats \in Nat
  BY LedgerFacts
<1>2. IsFiniteSet(Members) /\ weight \in [Members -> Nat] /\ resistance \in [Members -> Nat]
  BY InstanceTypes, InstanceAssumption
<1>3. DisjointUnionClosure(l.family, l.repeats) \subseteq SUBSET Members
  BY <1>1, ClosureFacts
<1>4. \A Q \in SUBSET Members : Completions(l, Q) \subseteq SUBSET Members
  BY DEF Completions
<1>5. costs \in SUBSET Nat
  <2>1. ASSUME NEW Q \in SUBSET Members, NEW T \in SUBSET Members
        PROVE  TotalOn(l.floor, Q \cup T) \in Nat
    BY <1>1, <1>2, TotalSplit
  <2>2. \A Q \in closure : CostsAfter(Q) \in SUBSET Nat
    <3>1. TAKE Q \in closure
    <3>2. Q \in SUBSET Members /\ \A T \in Completions(l, Q) : T \in SUBSET Members
      BY <1>3, <1>4
    <3>3. \A T \in Completions(l, Q) : TotalOn(l.floor, Q \cup T) \in Nat
      BY <2>1, <3>2
    <3>4. QED
      BY <3>3
  <2>. HIDE DEF closure, CostsAfter
  <2>3. QED
    BY <2>2
<1>6. PICK T \in SUBSET S : T \in Completions(l, P)
  <2>1. CASE Exposure(P) >= Threshold
    BY <2>1 DEF Completions
  <2>2. CASE ~(Exposure(P) >= Threshold)
    BY <2>2 DEF Completions
  <2>3. QED
    BY <2>1, <2>2
<1>7. TotalOn(l.floor, P \cup T) \in costs
  <2>1. TotalOn(l.floor, P \cup T) \in CostsAfter(P)
    BY <1>6
  <2>2. P \in closure
    OBVIOUS
  <2>. HIDE DEF closure, CostsAfter
  <2>3. QED
    BY <2>1, <2>2
<1>8. ClosedForm(l) <= TotalOn(l.floor, P \cup T)
  <2>1. ClosedForm(l) = Least(costs)
    BY DEF ClosedForm
  <2>. HIDE DEF costs
  <2>2. QED
    BY <1>5, <1>7, <2>1, LeastIsLeast
<1>9. P \cup T \in SUBSET Members /\ P \cup S \in SUBSET Members /\ P \cup T \subseteq P \cup S
  BY <1>3, <1>6
<1>10. /\ TotalOn(l.floor, P \cup T) <= TotalOn(resistance, P \cup T)
       /\ TotalOn(resistance, P \cup T) <= TotalOn(resistance, P \cup S)
  BY <1>1, <1>2, <1>9, TotalMonotone, TotalGrows
<1>11. /\ TotalOn(l.floor, P \cup T) \in Nat
       /\ TotalOn(resistance, P \cup T) \in Nat
       /\ TotalOn(resistance, P \cup S) \in Nat
  BY <1>1, <1>2, <1>9, TotalSplit
<1>12. ClosedForm(l) \in Nat
  <2>1. costs \cup {Infinite} \in SUBSET Nat /\ costs \cup {Infinite} # {}
    BY <1>5, InfiniteIsANumber
  <2>2. \E x \in costs \cup {Infinite} : \A y \in costs \cup {Infinite} : x <= y
    <3>. HIDE DEF costs
    <3>1. QED
      BY <2>1, LeastNatural
  <2>3. Least(costs) \in costs \cup {Infinite}
    <3>. HIDE DEF costs
    <3>1. QED
      BY <2>2 DEF Least, Min
  <2>4. QED
    BY <2>1, <2>3 DEF ClosedForm
<1>13. QED
  BY <1>8, <1>10, <1>11, <1>12 DEF Cost

\* The instance never changes.
LEMMA InstanceIsFixed == Next => UNCHANGED instance
BY DEF Next, Solve, Skip, Succeed, Extend, NoAttackExists, StartTrace, TraceBack, EndTrace, Attack, Buy

\* So neither do the ledgers that are true of it and what is bought after what.
LEMMA SameEvidence ==
  ASSUME UNCHANGED instance, NEW e, NEW l, NEW P, NEW S
  PROVE  /\ LedgerOf(e)' = LedgerOf(e)
         /\ BuildableFrom(l, P, S)' = BuildableFrom(l, P, S)
         /\ ClosedForm(l)' = ClosedForm(l)
<1>1. weight' = weight /\ resistance' = resistance /\ cap' = cap
  BY DEF instance
<1>2. LedgerOf(e)' = LedgerOf(e)
  BY <1>1 DEF LedgerOf, ActivatedAt, Accepts
<1>3. \A A : Exposure(A)' = Exposure(A)
  BY <1>1 DEF Exposure
<1>4. BuildableFrom(l, P, S)' = BuildableFrom(l, P, S)
  BY <1>1 DEF BuildableFrom, Exposure
<1>5. ClosedForm(l)' = ClosedForm(l)
  BY <1>1 DEF ClosedForm, Completions, BuildableFrom, Exposure
<1>6. QED
  BY <1>2, <1>4, <1>5

\* The parts of PackageInv once a ledger was declared, told of that ledger.
LEMMA DeclaredFacts ==
  ASSUME PackageInv, ledger # NoLedger
  PROVE  \E e \in Ledgers :
           /\ ledger = LedgerOf(e) /\ certificate = ClosedForm(ledger) /\ uses <= ledger.repeats
           /\ ledger.family \in SUBSET SUBSET Members /\ ledger.repeats \in Nat
           /\ \A m \in Members : Gate(ledger, m) \in Nat /\ Gate(ledger, m) <= ActivatedAt(m)
           /\ weight \in [Members -> Nat] /\ resistance \in [Members -> Nat]
           /\ \E P \in DisjointUnionClosure(ledger.family, uses) :
                /\ P \in SUBSET Members /\ P \subseteq held
                /\ BuildableFrom(ledger, P, held \ P)
<1>1. PackageTypeOK
  BY DEF PackageInv
<1>2. PICK e \in Ledgers : ledger = LedgerOf(e) /\ certificate = ClosedForm(ledger) /\ uses <= ledger.repeats
  BY DEF PackageInv, IssuedOnEvidence
<1>3. /\ ledger.family \in SUBSET SUBSET Members /\ ledger.repeats \in Nat
      /\ \A m \in Members : Gate(ledger, m) \in Nat /\ Gate(ledger, m) <= ActivatedAt(m)
  BY <1>1, <1>2, LedgerFacts DEF PackageTypeOK
<1>4. weight \in [Members -> Nat] /\ resistance \in [Members -> Nat]
  BY <1>1, InstanceTypes DEF PackageTypeOK
<1>5. PICK P \in DisjointUnionClosure(ledger.family, uses) :
        P \subseteq held /\ BuildableFrom(ledger, P, held \ P)
  BY DEF PackageInv, PackagesCouldComeFirst
<1>6. P \in SUBSET Members
  BY <1>1, <1>5 DEF PackageTypeOK
<1>7. QED
  BY <1>2, <1>3, <1>4, <1>5, <1>6

\* No ledger, nothing held.
LEMMA InitPackageInv ==
  Init /\ InitPackages => PackageInv
<1>. SUFFICES ASSUME Init, InitPackages PROVE PackageInv
  OBVIOUS
<1>1. PackageTypeOK
  BY EmptySums DEF Init, InitAcquisition, InitPackages, PackageTypeOK
<1>2. QED
  BY <1>1 DEF InitPackages, PackageInv, IssuedOnEvidence, PackagesCouldComeFirst

\* Before a ledger is declared nothing of it is used.
LEMMA SolverPackageInv ==
  ASSUME PackageInv, ledger = NoLedger, UNCHANGED instance, UNCHANGED packages
  PROVE  PackageInv'
<1>. USE DEF packages
<1>1. PackageTypeOK'
  BY DEF PackageInv, PackageTypeOK, instance, Cost
<1>2. QED
  BY <1>1 DEF PackageInv, IssuedOnEvidence, PackagesCouldComeFirst

\* The certificate is issued on the ledger just declared, before any purchase.
LEMMA DeclarePackageInv ==
  ASSUME PackageInv, UNCHANGED vars, NEW e \in Ledgers, Declare(e)
  PROVE  PackageInv'
<1>. DEFINE l == LedgerOf(e)
<1>1. /\ ledger = NoLedger /\ ledger' = l /\ certificate' = ClosedForm(l)
      /\ UNCHANGED <<held, paid, uses>> /\ UNCHANGED instance
  BY DEF Declare, vars
<1>2. PackageTypeOK /\ held = {} /\ uses = 0
  BY <1>1 DEF PackageInv, IssuedOnEvidence
<1>3. l # NoLedger /\ l.family \in SUBSET SUBSET Members /\ l.repeats \in Nat
  BY <1>2, LedgerFacts DEF PackageTypeOK
<1>4. PackageTypeOK'
  BY <1>1, <1>2 DEF PackageTypeOK, instance, Cost
<1>5. IssuedOnEvidence'
  <2>1. LedgerOf(e)' = l
    BY <1>1, SameEvidence
  <2>2. certificate' = ClosedForm(ledger)'
    BY <1>1 DEF instance, ClosedForm, Completions, BuildableFrom, Exposure
  <2>3. 0 <= l.repeats
    BY <1>3
  <2>4. QED
    BY <1>1, <1>2, <2>1, <2>2, <2>3 DEF IssuedOnEvidence
<1>6. PackagesCouldComeFirst'
  <2>1. {} \in DisjointUnionClosure(l.family, 0)
    BY <1>3, ClosureFacts
  <2>2. BuildableFrom(ledger, {}, held \ {})'
    BY <1>1, <1>2 DEF BuildableFrom
  <2>. HIDE DEF l
  <2>3. QED
    BY <1>1, <1>2, <2>1, <2>2 DEF PackagesCouldComeFirst
<1>7. QED
  BY <1>4, <1>5, <1>6 DEF PackageInv

\* A purchase that leaves ledger and certificate alone keeps the rest of the
\* invariant if it keeps the order in which packages could come first.
LEMMA PurchaseInv ==
  ASSUME PackageInv, UNCHANGED vars, Unfinished, UNCHANGED <<ledger, certificate>>,
         held' \in SUBSET Members, paid' = Cost(held'), uses' \in Nat, uses' <= ledger.repeats,
         NEW P \in DisjointUnionClosure(ledger.family, uses'), P \subseteq held',
         BuildableFrom(ledger, P, held' \ P)
  PROVE  PackageInv'
<1>1. UNCHANGED instance /\ ledger # NoLedger
  BY DEF vars, Unfinished
<1>2. PackageTypeOK'
  BY <1>1 DEF PackageInv, PackageTypeOK, instance, Cost
<1>3. IssuedOnEvidence'
  <2>1. PICK e \in Ledgers : ledger = LedgerOf(e)
    BY <1>1, DeclaredFacts
  <2>2. certificate = ClosedForm(ledger) /\ LedgerOf(e)' = LedgerOf(e)
    BY <1>1, DeclaredFacts, SameEvidence
  <2>3. certificate' = ClosedForm(ledger)'
    BY <1>1, <2>2 DEF instance, ClosedForm, Completions, BuildableFrom, Exposure
  <2>4. QED
    BY <1>1, <2>1, <2>2, <2>3 DEF IssuedOnEvidence
<1>4. PackagesCouldComeFirst'
  <2>1. BuildableFrom(ledger, P, held \ P)'
    BY <1>1 DEF instance, BuildableFrom, Exposure
  <2>2. QED
    BY <2>1 DEF PackagesCouldComeFirst
<1>5. QED
  BY <1>2, <1>3, <1>4 DEF PackageInv

\* A member that is for sale is bought after everything else.
LEMMA BuyOneInv ==
  ASSUME PackageInv, UNCHANGED vars, NEW m \in Members, BuyOne(m)
  PROVE  PackageInv'
<1>1. /\ Unfinished /\ ledger # NoLedger /\ m \notin held
      /\ ActivatedAt(m) <= Exposure(held)
      /\ held' = held \cup {m} /\ paid' = paid + resistance[m]
      /\ UNCHANGED <<ledger, certificate, uses>>
  BY DEF BuyOne, Unfinished
<1>2. PackageTypeOK
  BY DEF PackageInv
<1>3. /\ uses <= ledger.repeats
      /\ \A n \in Members : Gate(ledger, n) \in Nat /\ Gate(ledger, n) <= ActivatedAt(n)
      /\ weight \in [Members -> Nat] /\ resistance \in [Members -> Nat]
  BY <1>1, DeclaredFacts
<1>4. PICK P \in DisjointUnionClosure(ledger.family, uses) :
        P \in SUBSET Members /\ P \subseteq held /\ BuildableFrom(ledger, P, held \ P)
  BY <1>1, DeclaredFacts
<1>5. held \in SUBSET Members /\ P \cup (held \ P) = held /\ held \ P \in SUBSET Members
      /\ held' \ P = (held \ P) \cup {m}
  BY <1>1, <1>2, <1>4 DEF PackageTypeOK
<1>6. Exposure(held) \in Nat /\ ActivatedAt(m) \in Nat
  BY <1>2, <1>3, <1>5, SetSums, ActivationFacts DEF PackageTypeOK
<1>7. Gate(ledger, m) <= Exposure(P \cup (held \ P))
  BY <1>1, <1>3, <1>5, <1>6
<1>8. BuildableFrom(ledger, P, (held \ P) \cup {m})
  BY <1>3, <1>4, <1>5, <1>7, BuildableGrows
<1>9. held' \in SUBSET Members /\ paid' = Cost(held') /\ uses' \in Nat /\ uses' <= ledger.repeats
  <2>1. Cost(held \cup {m}) = Cost(held) + resistance[m]
    BY <1>1, <1>3, <1>5, SetSums
  <2>2. QED
    BY <1>1, <1>2, <1>3, <2>1 DEF PackageTypeOK
<1>10. QED
  BY <1>1, <1>4, <1>5, <1>8, <1>9, PurchaseInv

\* A package is bought: the single members could still come after it.
LEMMA BuyPackageInv ==
  ASSUME PackageInv, UNCHANGED vars, NEW Q \in ledger.family, BuyPackage(Q)
  PROVE  PackageInv'
<1>1. /\ Unfinished /\ ledger # NoLedger /\ uses < ledger.repeats /\ Q \cap held = {}
      /\ held' = held \cup Q /\ paid' = paid + TotalOn(resistance, Q) /\ uses' = uses + 1
      /\ UNCHANGED <<ledger, certificate>>
  BY DEF BuyPackage, Unfinished
<1>2. PackageTypeOK
  BY DEF PackageInv
<1>3. /\ ledger.family \in SUBSET SUBSET Members /\ ledger.repeats \in Nat
      /\ \A n \in Members : Gate(ledger, n) \in Nat
      /\ weight \in [Members -> Nat] /\ resistance \in [Members -> Nat]
  BY <1>1, DeclaredFacts
<1>4. PICK P \in DisjointUnionClosure(ledger.family, uses) :
        P \in SUBSET Members /\ P \subseteq held /\ BuildableFrom(ledger, P, held \ P)
  BY <1>1, DeclaredFacts
<1>5. /\ held \in SUBSET Members /\ Q \in SUBSET Members /\ held \ P \in SUBSET Members
      /\ P \cap Q = {} /\ P \cup Q \subseteq held' /\ held' \ (P \cup Q) = held \ P
  BY <1>1, <1>2, <1>3, <1>4 DEF PackageTypeOK
<1>6. P \cup Q \in DisjointUnionClosure(ledger.family, uses')
  BY <1>1, <1>2, <1>3, <1>4, <1>5, ClosureFacts DEF PackageTypeOK
<1>7. BuildableFrom(ledger, P \cup Q, held \ P)
  BY <1>3, <1>4, <1>5, BuildableGrows
<1>8. held' \in SUBSET Members /\ paid' = Cost(held') /\ uses' \in Nat /\ uses' <= ledger.repeats
  <2>1. IsFiniteSet(Members) /\ held \cap Q = {}
    BY <1>1, InstanceAssumption
  <2>2. TotalOn(resistance, held \cup Q) = TotalOn(resistance, held) + TotalOn(resistance, Q)
    BY <1>3, <1>5, <2>1, TotalUnion
  <2>3. uses \in Nat /\ paid = TotalOn(resistance, held)
    BY <1>2 DEF PackageTypeOK, Cost
  <2>4. QED
    BY <1>1, <1>3, <1>5, <2>2, <2>3 DEF Cost
<1>9. QED
  BY <1>1, <1>5, <1>6, <1>7, <1>8, PurchaseInv

\* The solver and an attack without packages come first, and are steps of
\* their own specification; so what is proved of Spec holds here as well.
THEOREM CommitteeImplements == CommitteeSpec => Spec
<1>1. CommitteeInit => Init
  BY DEF CommitteeInit
<1>2. [CommitteeNext]_<<vars, packages>> => [Next]_vars
  BY DEF CommitteeNext, vars
<1>3. QED
  BY <1>1, <1>2, PTL DEF CommitteeSpec, Spec

\* What the attack with packages keeps.
THEOREM PackageInvariant == CommitteeSpec => []PackageInv
<1>1. CommitteeInit => PackageInv
  BY InitPackageInv DEF CommitteeInit
<1>2. PackageInv /\ [CommitteeNext]_<<vars, packages>> => PackageInv'
  <2>. SUFFICES ASSUME PackageInv, [CommitteeNext]_<<vars, packages>> PROVE PackageInv'
    OBVIOUS
  <2>1. CASE ledger = NoLedger /\ Next /\ UNCHANGED packages
    BY <2>1, InstanceIsFixed, SolverPackageInv
  <2>2. CASE PackageStep /\ UNCHANGED vars
    BY <2>2, DeclarePackageInv, BuyOneInv, BuyPackageInv DEF PackageStep
  <2>3. CASE UNCHANGED <<vars, packages>>
    <3>1. UNCHANGED vars /\ UNCHANGED packages /\ UNCHANGED instance
      BY <2>3 DEF vars
    <3>2. CASE ledger = NoLedger
      BY <3>1, <3>2, SolverPackageInv
    <3>3. CASE ledger # NoLedger
      <4>1. PackageTypeOK'
        BY <3>1 DEF PackageInv, PackageTypeOK, instance, packages, Cost
      <4>2. IssuedOnEvidence' /\ PackagesCouldComeFirst'
        BY <3>1 DEF PackageInv, IssuedOnEvidence, PackagesCouldComeFirst, instance, packages,
           ClosedForm, Completions, BuildableFrom, Exposure, LedgerOf, ActivatedAt, Accepts
      <4>3. QED
        BY <4>1, <4>2 DEF PackageInv
    <3>4. QED
      BY <3>2, <3>3
  <2>4. QED
    BY <2>1, <2>2, <2>3 DEF CommitteeNext
<1>3. QED
  BY <1>1, <1>2, PTL DEF CommitteeSpec

\* Soundness of the certificate under partial evidence (general_closed_form):
\* an acquirer that mixes purchases and packages in any order never pays less
\* than what was certified on a ledger that is true of the committee.
THEOREM PackagesAreSound == CommitteeSpec => []PackagesCostTheCertificate
<1>1. PackageInv => PackagesCostTheCertificate
  <2>. SUFFICES ASSUME PackageInv, ledger # NoLedger, Exposure(held) >= Threshold
                PROVE  paid >= certificate
    BY DEF PackagesCostTheCertificate
  <2>1. PackageTypeOK
    BY DEF PackageInv
  <2>2. PICK e \in Ledgers :
          /\ ledger = LedgerOf(e) /\ certificate = ClosedForm(ledger) /\ uses <= ledger.repeats
          /\ ledger.family \in SUBSET SUBSET Members /\ ledger.repeats \in Nat
          /\ \E P \in DisjointUnionClosure(ledger.family, uses) :
               /\ P \in SUBSET Members /\ P \subseteq held
               /\ BuildableFrom(ledger, P, held \ P)
    BY DeclaredFacts
  <2>3. PICK P \in DisjointUnionClosure(ledger.family, uses) :
          P \in SUBSET Members /\ P \subseteq held /\ BuildableFrom(ledger, P, held \ P)
    BY <2>2
  <2>4. P \in DisjointUnionClosure(ledger.family, ledger.repeats)
    BY <2>1, <2>2, <2>3, ClosureFacts DEF PackageTypeOK
  <2>5. P \cup (held \ P) = held /\ held \ P \in SUBSET (Members \ P)
    BY <2>1, <2>3 DEF PackageTypeOK
  <2>6. ClosedForm(ledger) <= Cost(P \cup (held \ P))
    BY <2>1, <2>2, <2>3, <2>4, <2>5, CertificateBound DEF PackageTypeOK
  <2>7. QED
    BY <2>1, <2>2, <2>5, <2>6 DEF PackageTypeOK
<1>2. QED
  BY PackageInvariant, <1>1, PTL

\* The gates of the closed forms (tau) are the caps of the benchmark: at every
\* exposure that a set of members can have, a member is within its cap if and
\* only if its gate is reached.  So BuyOne buys what Buy could.
THEOREM GatesAreCaps ==
  CommitteeSpec =>
    [](\A m \in Members, S \in SUBSET Members :
         Accepts(m, Exposure(S)) <=> ActivatedAt(m) <= Exposure(S))
<1>1. CInv => \A m \in Members, S \in SUBSET Members :
                Accepts(m, Exposure(S)) <=> ActivatedAt(m) <= Exposure(S)
  <2>. SUFFICES ASSUME CInv, NEW m \in Members, NEW S \in SUBSET Members
                PROVE  Accepts(m, Exposure(S)) <=> ActivatedAt(m) <= Exposure(S)
    OBVIOUS
  <2>1. weight \in Weightings /\ resistance \in [Members -> Resistances] /\ cap \in [Members -> Caps]
    BY DEF CInv, TypeOK
  <2>2. weight \in [Members -> Nat] /\ IsFiniteSet(Members) /\ InitialExposure \in Nat /\ Total(weight) = Whole
    BY <2>1, InstanceTypes, InstanceAssumption
  <2>3. TotalOn(weight, S) \in Nat /\ TotalOn(weight, Members \ S) \in Nat
        /\ Whole = TotalOn(weight, S) + TotalOn(weight, Members \ S)
    BY <2>2, TotalSplit
  <2>4. Exposure(S) \in 0 .. Never - 1
    BY <2>2, <2>3 DEF Exposure, Never
  <2>5. QED
    BY <2>1, <2>4, GateIsCap
<1>2. QED
  BY <1>1, CommitteeImplements, Invariant, PTL
=============================================================================
