----------------------- MODULE TraceThenSlashProofs -----------------------
(***************************************************************************)
(* Proofs that the properties of module TraceThenSlash hold for every      *)
(* committee, threshold, set of bonds and reward.                          *)
(*                                                                         *)
(* The inductive invariant is IInv.  A step that moves money is shown to   *)
(* preserve Solvency and LossesFollowSlashedSet by the laws of Total.      *)
(***************************************************************************)
EXTENDS TraceThenSlash, AmountsProofs, SequenceTheorems

-----------------------------------------------------------------------------
(* Facts about packages.                                                   *)

\* A package is a sequence of evidence.
LEMMA PackageIsSeq ==
  ASSUME NEW pkg \in Packages
  PROVE  pkg \in Seq(Evidence)
<1>1. PICK n \in 1 .. MaxPackage : pkg \in [1 .. n -> Evidence]
  BY DEF Packages
<1>2. n \in Nat
  BY <1>1, ConstantsAssumption
<1>3. QED
  BY <1>1, <1>2, SeqDef

\* A package without repetitions accuses as many members as it has items,
\* and its losses add up to the bonds of the accused.
LEMMA PackageFacts ==
  ASSUME TypeOK, NEW pkg \in Seq(Evidence), DistinctMembers(pkg)
  PROVE  LET accused == {pkg[i].member : i \in DOMAIN pkg}
         IN  /\ accused \subseteq Members
             /\ Len(pkg) \in Nat
             /\ Cardinality(accused) = Len(pkg)
             /\ Total(Losses(pkg)) = TotalOn(bond, accused)
<1>. DEFINE accused == {pkg[i].member : i \in DOMAIN pkg}
            k == [i \in DOMAIN pkg |-> pkg[i].member]
<1>1. /\ Len(pkg) \in Nat
      /\ DOMAIN pkg = 1 .. Len(pkg)
      /\ \A i \in DOMAIN pkg : pkg[i] \in Evidence
  BY LenProperties
<1>2. k \in [DOMAIN pkg -> Members]
  BY <1>1, ConstantsAssumption
<1>3. \A i, j \in DOMAIN pkg : k[i] = k[j] => i = j
  BY DEF DistinctMembers
<1>4. IsFiniteSet(DOMAIN pkg) /\ Cardinality(DOMAIN pkg) = Len(pkg)
  <2>1. 1 \in Int /\ Len(pkg) \in Int /\ (1 > Len(pkg) => Len(pkg) = 0) /\ Len(pkg) - 1 + 1 = Len(pkg)
    BY <1>1
  <2>2. QED
    BY <1>1, <2>1, FS_Interval
<1>5. bond \in [Members -> Nat]
  BY DEF TypeOK
<1>6. accused \subseteq Members
  BY <1>2
<1>7. k \in Surjection(DOMAIN pkg, accused) /\ k \in Injection(DOMAIN pkg, accused)
  BY <1>3 DEF Surjection, Injection, IsInjective
<1>8. Cardinality(accused) = Len(pkg)
  <2>. HIDE DEF accused, k
  <2>1. QED
    BY <1>4, <1>7, FS_Surjection
<1>9. Total([i \in DOMAIN pkg |-> bond[k[i]]]) = TotalOn(bond, {k[i] : i \in DOMAIN pkg})
  <2>. HIDE DEF k
  <2>1. QED
    BY <1>2, <1>3, <1>4, <1>5, TotalRenamed
<1>10. [i \in DOMAIN pkg |-> bond[k[i]]] = Losses(pkg) /\ {k[i] : i \in DOMAIN pkg} = accused
  BY DEF Losses
<1>11. QED
  BY <1>1, <1>6, <1>8, <1>9, <1>10
-----------------------------------------------------------------------------
(* Facts about the certificate.                                            *)

\* The first Threshold members of a sorted committee exist.
LEMMA CheapestFacts ==
  ASSUME NEW b \in [Members -> Nat]
  PROVE  /\ Cheapest(b) \in SUBSET Members
         /\ Cardinality(Cheapest(b)) = Threshold
         /\ \A s \in Cheapest(b), t \in Members \ Cheapest(b) : b[s] <= b[t]
<1>1. IsFiniteSet(Members) /\ Cardinality(Members) \in Nat
  BY ConstantsAssumption, FS_CardinalityType
<1>2. Threshold \in Nat /\ Threshold <= Cardinality(Members)
  BY <1>1, ConstantsAssumption
<1>3. \E C \in SUBSET Members :
        /\ Cardinality(C) = Threshold
        /\ \A s \in C, t \in Members \ C : b[s] <= b[t]
  BY <1>1, <1>2, CheapestExist
<1>4. QED
  BY <1>3 DEF Cheapest

\* The certificate is the least total bond of any set of Threshold members.
LEMMA CertificateIsMinimum ==
  ASSUME NEW b \in [Members -> Nat]
  PROVE  /\ Certificate(b) \in Nat
         /\ \A C \in SUBSET Members :
              Cardinality(C) = Threshold => Certificate(b) <= TotalOn(b, C)
<1>. DEFINE S == Cheapest(b)
<1>1. /\ S \in SUBSET Members
      /\ Cardinality(S) = Threshold
      /\ \A s \in S, t \in Members \ S : b[s] <= b[t]
  BY CheapestFacts
<1>. HIDE DEF S
<1>2. IsFiniteSet(Members)
  BY ConstantsAssumption
<1>3. ASSUME NEW C \in SUBSET Members, Cardinality(C) = Threshold
      PROVE  TotalOn(b, S) <= TotalOn(b, C)
  BY <1>1, <1>2, <1>3, CheapestIsLeast
<1>4. TotalOn(b, S) \in Nat
  BY <1>1, <1>2, TotalSplit
<1>5. QED
  BY <1>3, <1>4 DEF Certificate, S

-----------------------------------------------------------------------------
(* The initial state.                                                      *)

\* A new contract holds and owes nothing.
LEMMA InitIInv == Init => IInv
<1>. SUFFICES ASSUME Init PROVE IInv
  OBVIOUS
<1>1. TypeOK
  <2>1. jobs \in Seq(Nat)
    BY EmptySeq DEF Init
  <2>2. QED
    BY <2>1 DEF Init, TypeOK
<1>2. Total(bond) = 0 /\ Total(claimableRewards) = 0
  BY ConstantsAssumption, TotalZero, TotalOnAll DEF Init
<1>3. Cardinality(slashed) = 0
  BY FS_EmptySet DEF Init
<1>4. TotalOn(deposit, slashed) = 0 /\ TotalOn(deposit, Members \ slashed) = 0
  BY <1>1, TotalZero DEF Init, TypeOK
<1>5. Solvency
  BY <1>2 DEF Init, Solvency
<1>6. LossesFollowSlashedSet
  BY <1>2, <1>3, <1>4, ConstantsAssumption DEF Init, LossesFollowSlashedSet
<1>7. Registered = {}
  BY DEF Init, Registered
<1>8. NoMemberHoldsReward /\ BondsAsPosted /\ FrozenFirst /\ LatestBoundsJobs /\ FloorCertified
  BY <1>7 DEF Init, NoMemberHoldsReward, BondsAsPosted, FrozenFirst, LatestBoundsJobs, FloorCertified
<1>9. QED
  BY <1>1, <1>5, <1>6, <1>8 DEF IInv

-----------------------------------------------------------------------------
(* The owner's calls.                                                      *)

\* A bond is posted whole, before freezing only.
LEMMA RegisterMemberIInv ==
  ASSUME IInv, NEW m \in Members, NEW a \in Signers, NEW value \in BondValues,
         RegisterMember(m, a, value)
  PROVE  IInv'
<1>. USE ConstantsAssumption
<1>1. value \in Nat /\ value > Reward /\ a \in Addresses /\ a # NoAddress
  BY DEF RegisterMember, BondAcceptable
<1>2. /\ TypeOK /\ signer[m] = NoAddress /\ m \notin slashed
      /\ deposit[m] = 0 /\ bond[m] = 0 /\ slashed = {} /\ ~committeeRetired
  BY DEF IInv, RegisterMember, BondsAsPosted, FrozenFirst, Registered
<1>3. TypeOK'
  BY <1>1, <1>2 DEF TypeOK, RegisterMember, phase, windows, credits
<1>4. Total(bond') = Total(bond) + value
  <2>1. /\ bond \in [Members -> Nat] /\ bond' \in [Members -> Nat]
        /\ bond'[m] = value /\ \A y \in Members \ {m} : bond'[y] = bond[y]
    BY <1>2, <1>3 DEF TypeOK, RegisterMember
  <2>2. IsFiniteSet(Members) /\ value \in Nat
    BY <1>1
  <2>3. Total(bond') = Total(bond) - bond[m] + bond'[m]
    BY <2>1, <2>2, TotalUpdate
  <2>4. Total(bond) \in Nat
    BY <2>1, <2>2, TotalType
  <2>5. QED
    BY <1>2, <2>1, <2>2, <2>3, <2>4
<1>5. Total(deposit') = Total(deposit) + value
  <2>1. /\ deposit \in [Members -> Nat] /\ deposit' \in [Members -> Nat]
        /\ deposit'[m] = value /\ \A y \in Members \ {m} : deposit'[y] = deposit[y]
    BY <1>2, <1>3 DEF TypeOK, RegisterMember
  <2>2. IsFiniteSet(Members) /\ value \in Nat
    BY <1>1
  <2>3. Total(deposit') = Total(deposit) - deposit[m] + deposit'[m]
    BY <2>1, <2>2, TotalUpdate
  <2>4. Total(deposit) \in Nat
    BY <2>1, <2>2, TotalType
  <2>5. QED
    BY <1>2, <2>1, <2>2, <2>3, <2>4
<1>6. /\ Total(bond) \in Nat
      /\ Total(claimableRewards) \in Nat
      /\ Total(deposit) \in Nat
      /\ Total(deposit) = TotalOn(deposit, Members)
      /\ Total(deposit') = TotalOn(deposit', Members)
  BY <1>2, <1>3, TotalType, TotalOnAll DEF TypeOK
<1>7. Solvency'
  <2>1. /\ balance' = balance + value
        /\ claimableRewards' = claimableRewards
        /\ treasuryAccrued' = treasuryAccrued
        /\ treasuryAccrued \in Nat
    BY <1>2 DEF RegisterMember, credits, TypeOK
  <2>2. balance = Total(bond) + Total(claimableRewards) + treasuryAccrued
    BY DEF IInv, Solvency
  <2>3. QED
    BY <1>1, <1>4, <1>6, <2>1, <2>2 DEF Solvency
<1>8. LossesFollowSlashedSet'
  <2>1. /\ slashed' = {} /\ Members \ slashed = Members
        /\ claimableRewards' = claimableRewards
        /\ treasuryAccrued' = treasuryAccrued /\ paid' = paid
    BY <1>2 DEF RegisterMember, credits
  <2>2. TotalOn(deposit, {}) = 0 /\ TotalOn(deposit', {}) = 0
    BY <1>2, <1>3, TotalZero DEF TypeOK
  <2>3. LossesFollowSlashedSet
    BY DEF IInv
  <2>4. paid.bonds \in Nat
    BY <1>2 DEF TypeOK
  <2>5. QED
    BY <1>1, <1>2, <1>4, <1>5, <1>6, <2>1, <2>2, <2>3, <2>4 DEF LossesFollowSlashedSet
<1>9. Registered' = Registered \cup {m}
  BY <1>1, <1>2 DEF RegisterMember, Registered, TypeOK
<1>10. NoMemberHoldsReward'
  BY DEF IInv, NoMemberHoldsReward, FrozenFirst, RegisterMember, credits, phase
<1>11. BondsAsPosted'
  BY <1>1, <1>2, <1>9 DEF IInv, BondsAsPosted, RegisterMember, phase, TypeOK
<1>12. FrozenFirst' /\ LatestBoundsJobs' /\ FloorCertified'
  BY <1>2 DEF IInv, FrozenFirst, LatestBoundsJobs, FloorCertified, RegisterMember, phase, windows, credits
<1>13. QED
  BY <1>3, <1>7, <1>8, <1>10, <1>11, <1>12 DEF IInv

\* The floor that is frozen is that of the bonds as posted.
LEMMA FreezeCommitteeIInv ==
  ASSUME IInv, FreezeCommittee
  PROVE  IInv'
<1>. USE DEF FreezeCommittee, committee, windows, credits, ether
<1>1. frozenThresholdBondFloor' \in Nat
  BY CertificateIsMinimum DEF IInv, TypeOK
<1>2. TypeOK'
  BY <1>1 DEF IInv, TypeOK
<1>3. Registered' = Registered
  BY DEF Registered
<1>4. FloorCertified'
  <2>1. \A m \in Members : bond[m] = deposit[m]
    BY DEF IInv, BondsAsPosted, FrozenFirst
  <2>2. bond = deposit
    BY <2>1 DEF IInv, TypeOK
  <2>3. QED
    BY <2>2 DEF FloorCertified
<1>5. QED
  BY <1>2, <1>3, <1>4 DEF IInv, Solvency, LossesFollowSlashedSet, NoMemberHoldsReward,
     SignerRegistered, BondsAsPosted, FrozenFirst, LatestBoundsJobs

\* A job is added, and the latest release time covers it.
LEMMA OpenReleaseIInv ==
  ASSUME IInv, NEW releaseTime \in 1 .. MaxTime, OpenRelease(releaseTime)
  PROVE  IInv'
<1>. USE DEF OpenRelease, committee, phase, credits, ether
<1>1. releaseTime \in Nat /\ jobs \in Seq(Nat) /\ latestReleaseTime \in Nat
  BY ConstantsAssumption DEF IInv, TypeOK
<1>2. TypeOK'
  BY <1>1 DEF IInv, TypeOK, LaterReleaseTime
<1>3. LatestBoundsJobs'
  BY <1>1 DEF IInv, LatestBoundsJobs, LaterReleaseTime, JobsAllowed
<1>4. FrozenFirst'
  BY DEF IInv, FrozenFirst, JobsAllowed, Registered
<1>5. FloorCertified'
  BY DEF IInv, FloorCertified
<1>6. QED
  BY <1>2, <1>3, <1>4, <1>5 DEF IInv, Solvency, LossesFollowSlashedSet, NoMemberHoldsReward,
     SignerRegistered, BondsAsPosted, Registered

-----------------------------------------------------------------------------
(* Slashing.                                                               *)

\* What a slashing call does to the sums: the bonds of the accused leave the
\* live bonds whole, the caller is credited one reward for each, and the
\* rest, which is never negative, goes to the treasury.
LEMMA SlashSums ==
  ASSUME IInv, NEW caller \in Addresses, NEW pkg \in Seq(Evidence),
         Len(pkg) >= 1, DistinctMembers(pkg), Slash(caller, pkg)
  PROVE  LET accused == {pkg[i].member : i \in DOMAIN pkg}
             loss == TotalOn(bond, accused)
             fee == Len(pkg) * Reward
         IN  /\ accused \subseteq Members \ slashed
             /\ committeeFrozen /\ ~committeeRetired
             /\ loss \in Nat /\ fee \in Nat /\ fee <= loss
             /\ bond' \in [Members -> Nat]
             /\ claimableRewards' \in [Addresses -> Nat]
             /\ Total(bond') = Total(bond) - loss
             /\ Total(claimableRewards') = Total(claimableRewards) + fee
             /\ treasuryAccrued' = treasuryAccrued + (loss - fee)
             /\ TotalOn(deposit, slashed') = TotalOn(deposit, slashed) + loss
             /\ TotalOn(deposit, Members \ slashed) = TotalOn(deposit, Members \ slashed') + loss
             /\ Cardinality(slashed') = Cardinality(slashed) + Len(pkg)
<1>. DEFINE accused == {pkg[i].member : i \in DOMAIN pkg}
            loss == TotalOn(bond, accused)
            fee == Len(pkg) * Reward
            rest == Members \ (slashed \cup accused)
<1>1. /\ TypeOK /\ BondsAsPosted /\ FrozenFirst
      /\ IsFiniteSet(Members) /\ IsFiniteSet(Addresses) /\ Reward \in Nat
  BY ConstantsAssumption DEF IInv
<1>2. /\ accused \subseteq Members
      /\ Len(pkg) \in Nat
      /\ Cardinality(accused) = Len(pkg)
      /\ Total(Losses(pkg)) = loss
  BY <1>1, PackageFacts
<1>3. 1 \in DOMAIN pkg
  <2>1. DOMAIN pkg = 1 .. Len(pkg) /\ Len(pkg) \in Nat
    BY LenProperties
  <2>2. QED
    BY <2>1
<1>4. \A i \in DOMAIN pkg : ValidEvidence(pkg[i])
  BY DEF Slash
<1>5. \A m \in accused : m \notin slashed /\ bond[m] # 0
  BY <1>4 DEF ValidEvidence
<1>6. PICK m \in accused : TRUE
  BY <1>3
<1>7. jobs # << >>
  <2>1. pkg[1].job \in DOMAIN jobs
    BY <1>3, <1>4 DEF ValidEvidence
  <2>2. QED
    BY <2>1
<1>8. committeeFrozen /\ Registered = Members
  BY <1>1, <1>7 DEF FrozenFirst
<1>9. ~committeeRetired
  BY <1>1, <1>2, <1>5, <1>6 DEF BondsAsPosted
<1>10. \A x \in accused : bond[x] = deposit[x] /\ bond[x] >= Reward
  BY <1>1, <1>2, <1>5, <1>8, <1>9 DEF BondsAsPosted, TypeOK
<1>11. /\ bond' = [x \in Members |-> IF x \in accused THEN 0 ELSE bond[x]]
       /\ slashed' = slashed \cup accused
       /\ claimableRewards' = [claimableRewards EXCEPT ![caller] = @ + fee]
       /\ treasuryAccrued' = treasuryAccrued + (loss - fee)
  BY <1>2 DEF Slash, CallerReward
<1>12. /\ bond \in [Members -> Nat] /\ deposit \in [Members -> Nat]
       /\ claimableRewards \in [Addresses -> Nat] /\ slashed \in SUBSET Members
  BY <1>1 DEF TypeOK
<1>13. /\ accused \in SUBSET Members /\ slashed \cap accused = {}
       /\ rest \in SUBSET Members /\ rest \cap accused = {}
       /\ Members \ slashed = rest \cup accused /\ Members \ slashed' = rest
  BY <1>2, <1>5, <1>11
<1>. HIDE DEF accused, rest
<1>14. loss \in Nat /\ fee \in Nat
  <2>1. TotalOn(bond, accused) \in Nat
    BY <1>1, <1>12, <1>13, TotalSplit
  <2>2. Len(pkg) * Reward \in Nat
    BY <1>1, <1>2
  <2>3. QED
    BY <2>1, <2>2
<1>15. fee <= loss
  <2>1. TotalOn(bond, accused) >= Cardinality(accused) * Reward
    BY <1>1, <1>10, <1>12, <1>13, TotalAtLeast
  <2>2. QED
    BY <1>2, <1>14, <2>1
<1>16. loss = TotalOn(deposit, accused)
  BY <1>10, TotalOnSame
<1>. HIDE DEF fee, loss
<1>17. bond' \in [Members -> Nat] /\ claimableRewards' \in [Addresses -> Nat]
  BY <1>11, <1>12, <1>14
<1>18. Total(bond') = Total(bond) - TotalOn(bond, accused)
  <2>1. (\A x \in accused : bond'[x] = 0) /\ \A x \in Members \ accused : bond'[x] = bond[x]
    BY <1>2, <1>11
  <2>2. IsFiniteSet(Members) /\ bond \in [Members -> Nat] /\ bond' \in [Members -> Nat]
    BY <1>1, <1>12, <1>17
  <2>3. accused \in SUBSET Members
    BY <1>13
  <2>4. QED
    BY <2>1, <2>2, <2>3, TotalClear
<1>19. Total(claimableRewards') = Total(claimableRewards) + fee
  <2>1. Total(claimableRewards') =
          Total(claimableRewards) - claimableRewards[caller] + claimableRewards'[caller]
    <3>1. \A y \in Addresses \ {caller} : claimableRewards'[y] = claimableRewards[y]
      BY <1>11, <1>12
    <3>2. /\ claimableRewards \in [Addresses -> Nat] /\ claimableRewards' \in [Addresses -> Nat]
          /\ IsFiniteSet(Addresses)
      BY <1>1, <1>12, <1>17
    <3>3. QED
      BY <3>1, <3>2, TotalUpdate
  <2>2. claimableRewards'[caller] = claimableRewards[caller] + fee /\ claimableRewards[caller] \in Nat
    BY <1>11, <1>12
  <2>3. Total(claimableRewards) \in Nat
    BY <1>1, <1>12, TotalType
  <2>4. QED
    BY <1>14, <2>1, <2>2, <2>3
<1>20. IsFiniteSet(Members) /\ deposit \in [Members -> Nat]
  BY <1>1, <1>12
<1>21. TotalOn(deposit, slashed') = TotalOn(deposit, slashed) + loss
  <2>1. slashed \in SUBSET Members /\ accused \in SUBSET Members /\ slashed \cap accused = {}
    BY <1>12, <1>13
  <2>2. TotalOn(deposit, slashed \cup accused) = TotalOn(deposit, slashed) + TotalOn(deposit, accused)
    BY <1>20, <2>1, TotalUnion
  <2>3. QED
    BY <1>11, <1>16, <2>2
<1>22. TotalOn(deposit, Members \ slashed) = TotalOn(deposit, Members \ slashed') + loss
  <2>1. rest \in SUBSET Members /\ accused \in SUBSET Members /\ rest \cap accused = {}
    BY <1>13
  <2>2. TotalOn(deposit, rest \cup accused) = TotalOn(deposit, rest) + TotalOn(deposit, accused)
    BY <1>20, <2>1, TotalUnion
  <2>3. QED
    BY <1>13, <1>16, <2>2
<1>23. Cardinality(slashed') = Cardinality(slashed) + Len(pkg)
  <2>1. IsFiniteSet(slashed) /\ IsFiniteSet(accused)
    BY <1>1, <1>2, <1>12, FS_Subset
  <2>2. Cardinality(slashed \cup accused)
          = Cardinality(slashed) + Cardinality(accused) - Cardinality(slashed \cap accused)
    BY <2>1, FS_Union
  <2>3. Cardinality(slashed) \in Nat
    BY <2>1, FS_CardinalityType
  <2>4. Cardinality(slashed \cap accused) = 0 /\ slashed' = slashed \cup accused
    BY <1>11, <1>13, FS_EmptySet
  <2>5. QED
    BY <1>2, <2>2, <2>3, <2>4
<1>24. accused \subseteq Members \ slashed
  BY <1>2, <1>5
<1>25. QED
  BY <1>8, <1>9, <1>11, <1>14, <1>15, <1>17, <1>18, <1>19, <1>21, <1>22, <1>23, <1>24
     DEF accused, fee, loss

\* A package of evidence: each bond is taken whole and split once.
LEMMA SlashIInv ==
  ASSUME IInv, NEW caller \in Addresses, NEW pkg \in Seq(Evidence),
         Len(pkg) >= 1, DistinctMembers(pkg), Slash(caller, pkg)
  PROVE  IInv'
<1>. DEFINE accused == {pkg[i].member : i \in DOMAIN pkg}
            loss == TotalOn(bond, accused)
            fee == Len(pkg) * Reward
<1>1. /\ accused \subseteq Members \ slashed
      /\ committeeFrozen /\ ~committeeRetired
      /\ loss \in Nat /\ fee \in Nat /\ fee <= loss
      /\ bond' \in [Members -> Nat]
      /\ claimableRewards' \in [Addresses -> Nat]
      /\ Total(bond') = Total(bond) - loss
      /\ Total(claimableRewards') = Total(claimableRewards) + fee
      /\ treasuryAccrued' = treasuryAccrued + (loss - fee)
      /\ TotalOn(deposit, slashed') = TotalOn(deposit, slashed) + loss
      /\ TotalOn(deposit, Members \ slashed) = TotalOn(deposit, Members \ slashed') + loss
      /\ Cardinality(slashed') = Cardinality(slashed) + Len(pkg)
  BY SlashSums
<1>2. /\ bond' = [x \in Members |-> IF x \in accused THEN 0 ELSE bond[x]]
      /\ slashed' = slashed \cup accused
      /\ claimableRewards' = [claimableRewards EXCEPT ![caller] = @ + fee]
      /\ ~SignerRegistered(caller)
      /\ UNCHANGED <<signer, deposit, committeeFrozen, committeeRetired,
                     frozenThresholdBondFloor, jobs, latestReleaseTime, now,
                     balance, paid, entered>>
  BY DEF Slash, CallerReward, phase, windows, ether
<1>3. /\ TypeOK /\ Solvency /\ LossesFollowSlashedSet /\ NoMemberHoldsReward
      /\ BondsAsPosted /\ FrozenFirst /\ LatestBoundsJobs /\ FloorCertified
  BY DEF IInv
<1>4. IsFiniteSet(Members) /\ IsFiniteSet(Addresses) /\ Reward \in Nat /\ Len(pkg) \in Nat
  BY ConstantsAssumption, LenProperties
<1>. HIDE DEF accused
<1>. HIDE DEF fee, loss
<1>5. TypeOK'
  BY <1>1, <1>2, <1>3 DEF TypeOK
<1>6. Total(bond) \in Nat /\ Total(claimableRewards) \in Nat
  BY <1>3, <1>4, TotalType DEF TypeOK
<1>7. Solvency'
  <2>1. balance = Total(bond) + Total(claimableRewards) + treasuryAccrued
    BY <1>3 DEF Solvency
  <2>2. treasuryAccrued \in Nat
    BY <1>3 DEF TypeOK
  <2>3. balance' = Total(bond') + Total(claimableRewards') + treasuryAccrued'
    BY <1>1, <1>2, <1>6, <2>1, <2>2
  <2>4. QED
    BY <2>3 DEF Solvency
<1>8. LossesFollowSlashedSet'
  <2>1. Cardinality(slashed) \in Nat
    BY <1>3, <1>4, FS_Subset, FS_CardinalityType DEF TypeOK
  <2>2. Reward * (Cardinality(slashed) + Len(pkg)) = Reward * Cardinality(slashed) + fee
    BY <1>4, <2>1 DEF fee
  <2>3. /\ TotalOn(deposit, slashed) \in Nat
        /\ TotalOn(deposit, Members \ slashed) \in Nat
        /\ TotalOn(deposit, Members \ slashed') \in Nat
        /\ Reward * Cardinality(slashed) \in Nat
    <3>1. /\ deposit \in [Members -> Nat] /\ IsFiniteSet(Members)
          /\ slashed \in SUBSET Members
          /\ Members \ slashed' \in SUBSET Members
      BY <1>3, <1>4 DEF TypeOK
    <3>2. TotalOn(deposit, slashed) \in Nat /\ TotalOn(deposit, Members \ slashed) \in Nat
      BY <3>1, TotalSplit
    <3>3. TotalOn(deposit, Members \ slashed') \in Nat
      BY <3>1, TotalSplit
    <3>4. Reward * Cardinality(slashed) \in Nat
      BY <1>4, <2>1
    <3>5. QED
      BY <3>2, <3>3, <3>4
  <2>4. paid.reward \in Nat /\ paid.treasury \in Nat /\ paid.bonds \in Nat /\ treasuryAccrued \in Nat
    BY <1>3 DEF TypeOK
  <2>5. /\ Total(claimableRewards) + paid.reward = Reward * Cardinality(slashed)
        /\ treasuryAccrued + paid.treasury
             = TotalOn(deposit, slashed) - Reward * Cardinality(slashed)
        /\ Total(bond) + paid.bonds = TotalOn(deposit, Members \ slashed)
    BY <1>3 DEF LossesFollowSlashedSet
  <2>6. Total(claimableRewards') + paid.reward = Reward * Cardinality(slashed')
    BY <1>1, <1>6, <2>2, <2>4, <2>5
  <2>7. treasuryAccrued' + paid.treasury
          = TotalOn(deposit, slashed') - Reward * Cardinality(slashed')
    <3>1. /\ treasuryAccrued' = treasuryAccrued + (loss - fee) /\ loss \in Nat /\ fee \in Nat
          /\ TotalOn(deposit, slashed') = TotalOn(deposit, slashed) + loss
          /\ Reward * Cardinality(slashed') = Reward * Cardinality(slashed) + fee
      BY <1>1, <2>2
    <3>. DEFINE lost == TotalOn(deposit, slashed)
                lostNow == TotalOn(deposit, slashed')
                fees == Reward * Cardinality(slashed)
                feesNow == Reward * Cardinality(slashed')
    <3>2. /\ lost \in Nat /\ fees \in Nat
          /\ treasuryAccrued + paid.treasury = lost - fees
          /\ lostNow = lost + loss /\ feesNow = fees + fee
      BY <2>3, <2>5, <3>1
    <3>. HIDE DEF lost, lostNow, fees, feesNow
    <3>3. treasuryAccrued' = treasuryAccrued + (loss - fee) /\ loss \in Nat /\ fee \in Nat
      BY <3>1
    <3>4. treasuryAccrued' + paid.treasury = lostNow - feesNow
      BY <2>4, <3>2, <3>3
    <3>5. QED
      BY <3>4 DEF lostNow, feesNow
  <2>8. Total(bond') + paid.bonds = TotalOn(deposit, Members \ slashed')
    <3>1. /\ Total(bond') = Total(bond) - loss /\ loss \in Nat
          /\ TotalOn(deposit, Members \ slashed) = TotalOn(deposit, Members \ slashed') + loss
      BY <1>1
    <3>. DEFINE kept == TotalOn(deposit, Members \ slashed)
                keptNow == TotalOn(deposit, Members \ slashed')
    <3>2. /\ kept = keptNow + loss /\ keptNow \in Nat
          /\ Total(bond) + paid.bonds = kept
      BY <2>3, <2>5, <3>1
    <3>. HIDE DEF kept, keptNow
    <3>3. Total(bond') + paid.bonds = keptNow
      BY <1>6, <2>4, <3>1, <3>2
    <3>4. QED
      BY <3>3 DEF keptNow
  <2>9. QED
    BY <1>2, <2>6, <2>7, <2>8 DEF LossesFollowSlashedSet
<1>9. Registered' = Registered /\ \A a \in Addresses : SignerRegistered(a)' = SignerRegistered(a)
  BY <1>2 DEF Registered, SignerRegistered
<1>10. NoMemberHoldsReward'
  BY <1>2, <1>3, <1>9 DEF NoMemberHoldsReward, TypeOK
<1>11. BondsAsPosted'
  BY <1>1, <1>2, <1>3, <1>9 DEF BondsAsPosted, FrozenFirst
<1>12. FrozenFirst' /\ LatestBoundsJobs' /\ FloorCertified'
  BY <1>1, <1>2, <1>3, <1>9 DEF FrozenFirst, LatestBoundsJobs, FloorCertified
<1>13. QED
  BY <1>5, <1>7, <1>8, <1>10, <1>11, <1>12 DEF IInv

-----------------------------------------------------------------------------
(* Withdrawals and the passing of time.                                    *)

\* A reward leaves the books and the contract together.
LEMMA WithdrawRewardIInv ==
  ASSUME IInv, NEW a \in Addresses, WithdrawReward(a)
  PROVE  IInv'
<1>. DEFINE sum == claimableRewards[a]
<1>1. /\ TypeOK /\ Solvency /\ LossesFollowSlashedSet /\ NoMemberHoldsReward
      /\ BondsAsPosted /\ FrozenFirst /\ LatestBoundsJobs /\ FloorCertified
  BY DEF IInv
<1>2. /\ claimableRewards' = [claimableRewards EXCEPT ![a] = 0]
      /\ balance' = balance - sum
      /\ paid' = [paid EXCEPT !.reward = @ + sum]
      /\ entered' = TRUE
      /\ UNCHANGED <<signer, bond, slashed, deposit, committeeFrozen, committeeRetired,
                     frozenThresholdBondFloor, jobs, latestReleaseTime, now,
                     treasuryAccrued, usedEvidence>>
  BY DEF WithdrawReward, committee, phase, windows
<1>3. /\ claimableRewards \in [Addresses -> Nat] /\ claimableRewards' \in [Addresses -> Nat]
      /\ sum \in Nat
  BY <1>1, <1>2 DEF TypeOK
<1>4. /\ paid.reward \in Nat /\ paid'.reward = paid.reward + sum
      /\ paid'.treasury = paid.treasury /\ paid'.bonds = paid.bonds
      /\ paid' \in [reward : Nat, treasury : Nat, bonds : Nat]
  <2>1. paid \in [reward : Nat, treasury : Nat, bonds : Nat]
    BY <1>1 DEF TypeOK
  <2>2. paid.reward \in Nat /\ paid.treasury \in Nat /\ paid.bonds \in Nat
    BY <2>1
  <2>3. paid' = [reward |-> paid.reward + sum, treasury |-> paid.treasury, bonds |-> paid.bonds]
    BY <1>2, <2>1
  <2>4. QED
    BY <1>3, <2>2, <2>3
<1>5. Total(claimableRewards') = Total(claimableRewards) - sum
  <2>1. IsFiniteSet(Addresses)
    BY ConstantsAssumption
  <2>2. \A y \in Addresses \ {a} : claimableRewards'[y] = claimableRewards[y]
    BY <1>2, <1>3
  <2>3. Total(claimableRewards')
          = Total(claimableRewards) - claimableRewards[a] + claimableRewards'[a]
    BY <1>3, <2>1, <2>2, TotalUpdate
  <2>4. claimableRewards'[a] = 0
    BY <1>2, <1>3
  <2>5. Total(claimableRewards) \in Nat
    BY <1>3, <2>1, TotalType
  <2>6. QED
    BY <1>3, <2>3, <2>4, <2>5
<1>6. Total(bond) \in Nat /\ Total(claimableRewards) \in Nat /\ Total(claimableRewards') \in Nat
  BY <1>1, <1>3, ConstantsAssumption, TotalType DEF TypeOK
<1>. HIDE DEF sum
<1>7. TypeOK' /\ Solvency'
  <2>1. balance' = Total(bond) + Total(claimableRewards') + treasuryAccrued
    <3>1. balance = Total(bond) + Total(claimableRewards) + treasuryAccrued
      BY <1>1 DEF Solvency
    <3>2. treasuryAccrued \in Nat
      BY <1>1 DEF TypeOK
    <3>. QED
      BY <1>2, <1>3, <1>5, <1>6, <3>1, <3>2
  <2>2. balance' \in Nat
    BY <1>1, <1>6, <2>1 DEF TypeOK
  <2>3. QED
    BY <1>1, <1>2, <1>3, <1>4, <2>1, <2>2 DEF TypeOK, Solvency
<1>8. LossesFollowSlashedSet'
  <2>1. Total(claimableRewards') + paid'.reward = Total(claimableRewards) + paid.reward
    BY <1>3, <1>4, <1>5, <1>6
  <2>2. QED
    BY <1>1, <1>2, <1>4, <2>1 DEF LossesFollowSlashedSet
<1>9. Registered' = Registered /\ \A x \in Addresses : SignerRegistered(x)' = SignerRegistered(x)
  BY <1>2 DEF Registered, SignerRegistered
<1>10. NoMemberHoldsReward' /\ FrozenFirst'
  BY <1>1, <1>2, <1>3, <1>9 DEF NoMemberHoldsReward, FrozenFirst
<1>11. BondsAsPosted' /\ LatestBoundsJobs' /\ FloorCertified'
  BY <1>1, <1>2, <1>9 DEF BondsAsPosted, LatestBoundsJobs, FloorCertified
<1>12. QED
  BY <1>7, <1>8, <1>10, <1>11 DEF IInv

\* The penalties leave the books and the contract together.
LEMMA WithdrawTreasuryIInv ==
  ASSUME IInv, WithdrawTreasury
  PROVE  IInv'
<1>1. /\ TypeOK /\ Solvency /\ LossesFollowSlashedSet /\ NoMemberHoldsReward
      /\ BondsAsPosted /\ FrozenFirst /\ LatestBoundsJobs /\ FloorCertified
  BY DEF IInv
<1>2. /\ treasuryAccrued' = 0
      /\ balance' = balance - treasuryAccrued
      /\ paid' = [paid EXCEPT !.treasury = @ + treasuryAccrued]
      /\ entered' = TRUE
      /\ UNCHANGED <<signer, bond, slashed, deposit, committeeFrozen, committeeRetired,
                     frozenThresholdBondFloor, jobs, latestReleaseTime, now,
                     claimableRewards, usedEvidence>>
  BY DEF WithdrawTreasury, committee, phase, windows
<1>3. /\ treasuryAccrued \in Nat /\ paid.treasury \in Nat
      /\ paid'.treasury = paid.treasury + treasuryAccrued
      /\ paid'.reward = paid.reward /\ paid'.bonds = paid.bonds
      /\ paid' \in [reward : Nat, treasury : Nat, bonds : Nat]
  <2>1. paid \in [reward : Nat, treasury : Nat, bonds : Nat]
    BY <1>1 DEF TypeOK
  <2>2. paid.reward \in Nat /\ paid.treasury \in Nat /\ paid.bonds \in Nat
    BY <2>1
  <2>3. paid' = [reward |-> paid.reward, treasury |-> paid.treasury + treasuryAccrued, bonds |-> paid.bonds]
    BY <1>2, <2>1
  <2>4. QED
    BY <1>1, <2>2, <2>3 DEF TypeOK
<1>4. Total(bond) \in Nat /\ Total(claimableRewards) \in Nat
  BY <1>1, ConstantsAssumption, TotalType DEF TypeOK
<1>5. TypeOK' /\ Solvency'
  <2>1. balance' = Total(bond) + Total(claimableRewards) + 0
    BY <1>1, <1>2, <1>3, <1>4 DEF Solvency
  <2>2. balance' \in Nat
    BY <1>4, <2>1
  <2>3. TypeOK'
    BY <1>1, <1>2, <1>3, <2>2 DEF TypeOK
  <2>4. QED
    BY <1>2, <2>1, <2>3 DEF Solvency
<1>6. LossesFollowSlashedSet'
  <2>1. treasuryAccrued' + paid'.treasury = treasuryAccrued + paid.treasury
    BY <1>2, <1>3
  <2>2. QED
    BY <1>1, <1>2, <1>3, <2>1 DEF LossesFollowSlashedSet
<1>7. Registered' = Registered
  BY <1>2 DEF Registered
<1>8. NoMemberHoldsReward' /\ FrozenFirst' /\ BondsAsPosted' /\ LatestBoundsJobs' /\ FloorCertified'
  BY <1>1, <1>2, <1>7 DEF NoMemberHoldsReward, SignerRegistered, FrozenFirst, BondsAsPosted,
     LatestBoundsJobs, FloorCertified
<1>9. QED
  BY <1>5, <1>6, <1>8 DEF IInv

\* The unslashed bonds are returned, after every window, for good.
LEMMA WithdrawRemainingBondsIInv ==
  ASSUME IInv, WithdrawRemainingBonds
  PROVE  IInv'
<1>. DEFINE sum == Total(bond)
<1>1. /\ TypeOK /\ Solvency /\ LossesFollowSlashedSet /\ NoMemberHoldsReward
      /\ BondsAsPosted /\ FrozenFirst /\ LatestBoundsJobs /\ FloorCertified
  BY DEF IInv
<1>2. /\ bond' = [m \in Members |-> 0]
      /\ committeeFrozen /\ committeeRetired' = TRUE
      /\ now >= latestReleaseTime
      /\ balance' = balance - sum
      /\ paid' = [paid EXCEPT !.bonds = @ + sum]
      /\ entered' = TRUE
      /\ UNCHANGED <<signer, slashed, deposit, committeeFrozen,
                     frozenThresholdBondFloor, jobs, latestReleaseTime, now,
                     claimableRewards, treasuryAccrued, usedEvidence>>
  BY DEF WithdrawRemainingBonds, WindowsOver, windows, credits
<1>3. sum \in Nat /\ Total(claimableRewards) \in Nat
  BY <1>1, ConstantsAssumption, TotalType DEF TypeOK
<1>4. /\ paid.bonds \in Nat /\ paid'.bonds = paid.bonds + sum
      /\ paid'.reward = paid.reward /\ paid'.treasury = paid.treasury
      /\ paid' \in [reward : Nat, treasury : Nat, bonds : Nat]
  <2>1. paid \in [reward : Nat, treasury : Nat, bonds : Nat]
    BY <1>1 DEF TypeOK
  <2>2. paid.reward \in Nat /\ paid.treasury \in Nat /\ paid.bonds \in Nat
    BY <2>1
  <2>3. paid' = [reward |-> paid.reward, treasury |-> paid.treasury, bonds |-> paid.bonds + sum]
    BY <1>2, <2>1
  <2>4. QED
    BY <1>3, <2>2, <2>3
<1>5. Total(bond') = 0
  <2>1. bond' \in [Members -> Nat] /\ \A x \in Members : bond'[x] = 0
    BY <1>2
  <2>2. QED
    BY <2>1, TotalZero, TotalOnAll
<1>6. TypeOK' /\ Solvency'
  <2>1. balance' = 0 + Total(claimableRewards) + treasuryAccrued
    BY <1>1, <1>2, <1>3 DEF TypeOK, Solvency
  <2>2. treasuryAccrued \in Nat
    BY <1>1 DEF TypeOK
  <2>3. balance' \in Nat
    BY <1>3, <2>1, <2>2
  <2>4. TypeOK'
    BY <1>1, <1>2, <1>4, <2>3 DEF TypeOK
  <2>5. QED
    BY <1>2, <1>5, <2>1, <2>4 DEF Solvency
<1>7. LossesFollowSlashedSet'
  <2>1. Total(bond') + paid'.bonds = Total(bond) + paid.bonds
    BY <1>3, <1>4, <1>5
  <2>2. QED
    BY <1>1, <1>2, <1>4, <2>1 DEF LossesFollowSlashedSet
<1>8. Registered' = Registered
  BY <1>2 DEF Registered
<1>9. NoMemberHoldsReward' /\ FrozenFirst' /\ BondsAsPosted' /\ LatestBoundsJobs' /\ FloorCertified'
  BY <1>1, <1>2, <1>8 DEF NoMemberHoldsReward, SignerRegistered, FrozenFirst, BondsAsPosted,
     LatestBoundsJobs, FloorCertified
<1>10. QED
  BY <1>6, <1>7, <1>9 DEF IInv

\* A step that leaves the books alone and does not turn back the clock.
LEMMA BooksUntouchedIInv ==
  ASSUME IInv, now' \in Nat, now' >= now, entered' \in BOOLEAN,
         UNCHANGED <<committee, phase, jobs, latestReleaseTime, credits, ether>>
  PROVE  IInv'
<1>. USE DEF committee, phase, credits, ether
<1>1. Registered' = Registered
  BY DEF Registered
<1>2. TypeOK' /\ Solvency' /\ LossesFollowSlashedSet'
  BY DEF IInv, TypeOK, Solvency, LossesFollowSlashedSet
<1>3. LatestBoundsJobs'
  BY DEF IInv, LatestBoundsJobs, TypeOK
<1>4. NoMemberHoldsReward' /\ FrozenFirst' /\ BondsAsPosted' /\ FloorCertified'
  BY <1>1 DEF IInv, NoMemberHoldsReward, SignerRegistered, FrozenFirst, BondsAsPosted, FloorCertified
<1>5. QED
  BY <1>2, <1>3, <1>4 DEF IInv

-----------------------------------------------------------------------------
(* The theorems.                                                           *)

\* The books of the contract stay consistent whatever calls are made, in
\* whatever order, also from within a withdrawal.
THEOREM Invariant == Spec => []IInv
<1>1. Init => IInv
  BY InitIInv
<1>2. IInv /\ [Next]_vars => IInv'
  <2>. SUFFICES ASSUME IInv, [Next]_vars PROVE IInv'
    OBVIOUS
  <2>1. CASE \E m \in Members, a \in Signers, value \in BondValues : RegisterMember(m, a, value)
    BY <2>1, RegisterMemberIInv
  <2>2. CASE FreezeCommittee
    BY <2>2, FreezeCommitteeIInv
  <2>3. CASE \E releaseTime \in 1 .. MaxTime : OpenRelease(releaseTime)
    BY <2>3, OpenReleaseIInv
  <2>4. ASSUME NEW caller \in Addresses, NEW e \in Evidence, SlashEarlyShare(caller, e)
        PROVE  IInv'
    <3>1. <<e>> \in Seq(Evidence) /\ Len(<<e>>) >= 1 /\ DistinctMembers(<<e>>)
      BY DEF DistinctMembers
    <3>2. QED
      BY <2>4, <3>1, SlashIInv DEF SlashEarlyShare
  <2>5. ASSUME NEW caller \in Addresses, NEW pkg \in Packages, SlashPackage(caller, pkg)
        PROVE  IInv'
    <3>1. pkg \in Seq(Evidence)
      BY PackageIsSeq
    <3>2. Len(pkg) >= 1 /\ DistinctMembers(pkg) /\ Slash(caller, pkg)
      BY <2>5, ConstantsAssumption, FS_CardinalityType DEF SlashPackage
    <3>3. QED
      BY <3>1, <3>2, SlashIInv
  <2>6. CASE \E a \in Addresses : WithdrawReward(a)
    BY <2>6, WithdrawRewardIInv
  <2>7. CASE WithdrawTreasury
    BY <2>7, WithdrawTreasuryIInv
  <2>8. CASE WithdrawRemainingBonds
    BY <2>8, WithdrawRemainingBondsIInv
  <2>9. CASE ReturnFromTransfer
    <3>1. now' \in Nat /\ now' >= now
      BY <2>9 DEF ReturnFromTransfer, windows, IInv, TypeOK
    <3>2. UNCHANGED <<committee, phase, jobs, latestReleaseTime, credits, ether>>
      BY <2>9 DEF ReturnFromTransfer, windows
    <3>3. entered' \in BOOLEAN
      BY <2>9 DEF ReturnFromTransfer
    <3>4. QED
      BY <3>1, <3>2, <3>3, BooksUntouchedIInv
  <2>10. CASE Tick
    BY <2>10, BooksUntouchedIInv DEF Tick, IInv, TypeOK
  <2>11. CASE UNCHANGED vars
    BY <2>11, BooksUntouchedIInv DEF vars, windows, IInv, TypeOK
  <2>12. QED
    BY <2>1, <2>2, <2>3, <2>4, <2>5, <2>6, <2>7, <2>8, <2>9, <2>10, <2>11 DEF Next
<1>3. QED
  BY <1>1, <1>2, PTL DEF Spec

\* No amount ever becomes negative or ill-typed, for any bonds and reward.
THEOREM TypeCorrect == Spec => []TypeOK
BY Invariant, PTL DEF IInv

\* The contract always holds exactly the ether that it owes.
THEOREM Solvent == Spec => []Solvency
BY Invariant, PTL DEF IInv

\* Charges and credits are a function of the set of slashed members alone,
\* whatever the order and the partition of the evidence into packages.
THEOREM OrderIndependent == Spec => []LossesFollowSlashedSet
BY Invariant, PTL DEF IInv

\* No caller reward is ever owed to a member of the committee.
THEOREM RewardsStayOutside == Spec => []NoMemberHoldsReward
BY Invariant, PTL DEF IInv

\* Once the bonds were returned no release window is open any more.
THEOREM RetiredForGood == Spec => []NoWindowAfterRetirement
<1>1. IInv => NoWindowAfterRetirement
  <2>. SUFFICES ASSUME IInv, committeeRetired, NEW job \in DOMAIN jobs
                PROVE  ~WindowOpen(job)
    BY DEF NoWindowAfterRetirement
  <2>1. jobs[job] <= latestReleaseTime /\ now >= latestReleaseTime
    BY DEF IInv, LatestBoundsJobs
  <2>2. jobs[job] \in Nat /\ latestReleaseTime \in Nat /\ now \in Nat
    BY DEF IInv, TypeOK
  <2>3. QED
    BY <2>1, <2>2 DEF WindowOpen
<1>2. QED
  BY <1>1, Invariant, PTL

\* Slashing any threshold of members costs them at least the frozen floor.
THEOREM FloorIsPaid == Spec => []ThresholdLossAtLeastFloor
<1>1. IInv => ThresholdLossAtLeastFloor
  <2>. SUFFICES ASSUME IInv, Cardinality(slashed) >= Threshold
                PROVE  Total(claimableRewards) + paid.reward + treasuryAccrued + paid.treasury
                         >= frozenThresholdBondFloor
    BY DEF ThresholdLossAtLeastFloor
  <2>1. /\ IsFiniteSet(Members) /\ Threshold \in Nat /\ Threshold >= 1
        /\ slashed \in SUBSET Members /\ deposit \in [Members -> Nat]
    BY ConstantsAssumption, FS_CardinalityType DEF IInv, TypeOK
  <2>2. IsFiniteSet(slashed)
    BY <2>1, FS_Subset
  <2>3. slashed # {}
    BY <2>1, FS_EmptySet
  <2>4. frozenThresholdBondFloor = Certificate(deposit)
    BY <2>3 DEF IInv, FrozenFirst, FloorCertified
  <2>5. PICK C \in SUBSET slashed : Cardinality(C) = Threshold
    BY <2>1, <2>2, SetOfSize
  <2>. DEFINE lost == TotalOn(deposit, slashed)
              part == TotalOn(deposit, C)
              other == TotalOn(deposit, slashed \ C)
  <2>6. /\ C \in SUBSET Members /\ slashed \ C \in SUBSET Members
        /\ C \cap (slashed \ C) = {} /\ C \cup (slashed \ C) = slashed
    BY <2>1
  <2>7. TotalOn(deposit, C \cup (slashed \ C)) = part + other
    BY <2>1, <2>6, TotalUnion
  <2>8. part \in Nat /\ other \in Nat
    BY <2>1, <2>6, TotalSplit
  <2>9. Certificate(deposit) \in Nat /\ Certificate(deposit) <= part
    BY <2>1, <2>5, <2>6, CertificateIsMinimum
  <2>10. lost = part + other
    BY <2>6, <2>7
  <2>. DEFINE fees == Reward * Cardinality(slashed)
  <2>11. /\ Total(claimableRewards) + paid.reward = fees
         /\ treasuryAccrued + paid.treasury = lost - fees
         /\ fees \in Nat
    BY <2>2, ConstantsAssumption, FS_CardinalityType DEF IInv, LossesFollowSlashedSet
  <2>12. /\ Total(claimableRewards) \in Nat /\ paid.reward \in Nat
         /\ treasuryAccrued \in Nat /\ paid.treasury \in Nat
    BY ConstantsAssumption, TotalType DEF IInv, TypeOK
  <2>. HIDE DEF lost, part, other, fees
  <2>13. QED
    BY <2>4, <2>8, <2>9, <2>10, <2>11, <2>12
<1>2. QED
  BY <1>1, Invariant, PTL

-----------------------------------------------------------------------------
(* The contract implements the life cycle of module BondLifecycle:         *)
(* registering posts a bond, slashing and the final withdrawal decide its  *)
(* fate, and every other call is a stuttering step of the life cycle or    *)
(* opens or closes windows.                                                *)

windowBar == \E job \in DOMAIN jobs : WindowOpen(job)

penaltiesBar ==
  Total(claimableRewards) + treasuryAccrued + paid.reward + paid.treasury

\* The life cycle adds amounts up the way the contract's model does.
LEMMA SameTotals == \A f, S : Lifecycle!TotalOn(f, S) = TotalOn(f, S)
<1>1. \A f, x : Lifecycle!UnitsAt(f, x) = UnitsAt(f, x)
  BY DEF Lifecycle!UnitsAt, UnitsAt
<1>2. \A f : Lifecycle!Units(f) = Units(f)
  BY <1>1 DEF Lifecycle!Units, Units
<1>3. \A f : Lifecycle!Total(f) = Total(f)
  BY <1>2 DEF Lifecycle!Total, Total, Lifecycle!Cardinality, Cardinality
<1>4. QED
  BY <1>3 DEF Lifecycle!TotalOn, TotalOn, Lifecycle!Restrict, Restrict

\* The mapped initial state is that of the life cycle.
LEMMA InitRefined == Init => Lifecycle!Init
<1>. SUFFICES ASSUME Init PROVE Lifecycle!Init
  OBVIOUS
<1>1. Total(claimableRewards) = 0
  BY ConstantsAssumption, TotalZero, TotalOnAll DEF Init
<1>2. fateBar = [m \in Members |-> "unposted"]
  BY DEF Init, fateBar, Registered
<1>3. QED
  BY <1>1, <1>2 DEF Init, Lifecycle!Init

\* Registration posts a bond.
LEMMA RegisterMemberRefined ==
  ASSUME IInv, NEW m \in Members, NEW a \in Signers, NEW value \in BondValues,
         RegisterMember(m, a, value)
  PROVE  Lifecycle!Post(m, value)
<1>. USE DEF RegisterMember, phase, windows, credits
<1>1. /\ m \notin Registered /\ m \notin slashed /\ ~committeeRetired
      /\ a # NoAddress /\ signer \in [Members -> Addresses \cup {NoAddress}]
  BY ConstantsAssumption DEF IInv, TypeOK, BondsAsPosted, FrozenFirst
<1>2. Registered' = Registered \cup {m}
  BY <1>1 DEF Registered
<1>3. fateBar' = [fateBar EXCEPT ![m] = "live"]
  BY <1>1, <1>2 DEF fateBar
<1>4. windowBar' = windowBar
  BY DEF windowBar, WindowOpen
<1>5. QED
  BY <1>1, <1>3, <1>4 DEF Lifecycle!Post, windowBar, fateBar

\* A release opens a window.
LEMMA OpenReleaseRefined ==
  ASSUME IInv, NEW releaseTime \in 1 .. MaxTime, OpenRelease(releaseTime)
  PROVE  Lifecycle!OpenWindow
<1>. USE DEF OpenRelease, committee, phase, credits, ether
<1>1. Registered = Members /\ ~committeeRetired
  BY DEF IInv, FrozenFirst, JobsAllowed
<1>2. \A m \in Members : fateBar[m] \in {"live", "slashed"}
  BY <1>1 DEF fateBar
<1>3. fateBar' = fateBar
  BY DEF fateBar, Registered
<1>4. windowBar'
  <2>1. releaseTime \in Nat /\ jobs \in Seq(Nat)
    BY ConstantsAssumption DEF IInv, TypeOK
  <2>2. Len(jobs) + 1 \in DOMAIN jobs' /\ jobs'[Len(jobs) + 1] = releaseTime
    BY <2>1
  <2>3. QED
    BY <2>2 DEF windowBar, WindowOpen
<1>5. QED
  BY <1>2, <1>3, <1>4 DEF Lifecycle!OpenWindow, windowBar

\* A package slashes live bonds in a window that is open.
LEMMA SlashRefined ==
  ASSUME IInv, NEW caller \in Addresses, NEW pkg \in Seq(Evidence),
         Len(pkg) >= 1, DistinctMembers(pkg), Slash(caller, pkg)
  PROVE  \E S \in (SUBSET Lifecycle!Live) \ {{}} : Lifecycle!Slash(S)
<1>. DEFINE accused == {pkg[i].member : i \in DOMAIN pkg}
            loss == TotalOn(bond, accused)
            fee == Len(pkg) * Reward
<1>1. /\ accused \subseteq Members \ slashed
      /\ committeeFrozen /\ ~committeeRetired
      /\ loss \in Nat /\ fee \in Nat
      /\ Total(claimableRewards') = Total(claimableRewards) + fee
      /\ treasuryAccrued' = treasuryAccrued + (loss - fee)
  BY SlashSums
<1>2. /\ slashed' = slashed \cup accused
      /\ UNCHANGED <<signer, deposit, committeeRetired, jobs, now, paid>>
  BY DEF Slash, phase, windows, ether
<1>3. Registered = Members
  BY <1>1 DEF IInv, FrozenFirst
<1>4. 1 \in DOMAIN pkg
  BY LenProperties
<1>5. accused # {} /\ windowBar
  BY <1>4 DEF Slash, ValidEvidence, windowBar
<1>6. \A x \in accused : bond[x] = deposit[x]
  BY <1>1 DEF IInv, BondsAsPosted
<1>. HIDE DEF accused
<1>7. loss = TotalOn(deposit, accused)
  BY <1>6, TotalOnSame
<1>. HIDE DEF loss, fee
<1>8. accused \subseteq Lifecycle!Live
  BY <1>1, <1>3 DEF Lifecycle!Live, fateBar
<1>9. fateBar' = [m \in Members |-> IF m \in accused THEN "slashed" ELSE fateBar[m]]
  BY <1>1, <1>2, <1>3 DEF fateBar, Registered
<1>10. penaltiesBar' = penaltiesBar + TotalOn(deposit, accused)
  <2>1. /\ Total(claimableRewards) \in Nat /\ treasuryAccrued \in Nat
        /\ paid.reward \in Nat /\ paid.treasury \in Nat
    BY ConstantsAssumption, TotalType DEF IInv, TypeOK
  <2>2. penaltiesBar' = penaltiesBar + loss
    BY <1>1, <1>2, <2>1 DEF penaltiesBar
  <2>3. QED
    BY <1>7, <2>2
<1>11. windowBar' = windowBar
  BY <1>2 DEF windowBar, WindowOpen
<1>12. Lifecycle!Slash(accused)
  BY <1>2, <1>5, <1>9, <1>10, <1>11, SameTotals
     DEF Lifecycle!Slash, windowBar, penaltiesBar
<1>13. accused \in (SUBSET Lifecycle!Live) \ {{}}
  BY <1>5, <1>8
<1>14. QED
  BY <1>12, <1>13

\* The return of the bonds refunds every one that is live.
LEMMA WithdrawRemainingBondsRefined ==
  ASSUME IInv, WithdrawRemainingBonds
  PROVE  Lifecycle!Refund
<1>. USE DEF WithdrawRemainingBonds, windows, credits
<1>1. /\ Registered = Members /\ ~committeeRetired /\ committeeRetired'
      /\ now >= latestReleaseTime /\ Total(bond) # 0
      /\ UNCHANGED <<signer, slashed, deposit, jobs, now>>
  BY DEF IInv, FrozenFirst, WindowsOver
<1>2. Registered' = Members
  BY <1>1 DEF Registered
<1>3. ~windowBar
  <2>1. \A job \in DOMAIN jobs : jobs[job] \in Nat /\ jobs[job] <= latestReleaseTime
    BY DEF IInv, TypeOK, LatestBoundsJobs
  <2>2. now \in Nat /\ latestReleaseTime \in Nat
    BY DEF IInv, TypeOK
  <2>3. QED
    BY <1>1, <2>1, <2>2 DEF windowBar, WindowOpen
<1>4. Lifecycle!Live = Members \ slashed
  BY <1>1 DEF Lifecycle!Live, fateBar
<1>5. /\ bond \in [Members -> Nat] /\ slashed \in SUBSET Members /\ IsFiniteSet(Members)
      /\ \A m \in slashed : bond[m] = 0
      /\ \A m \in Members \ slashed : bond[m] = deposit[m]
  BY <1>1, ConstantsAssumption DEF IInv, TypeOK, BondsAsPosted
<1>6. Total(bond) = TotalOn(deposit, Members \ slashed)
  <2>1. TotalOn(bond, slashed) = 0
    BY <1>5, TotalZero
  <2>2. TotalOn(bond, Members \ slashed) = TotalOn(deposit, Members \ slashed)
    BY <1>5, TotalOnSame
  <2>3. Total(bond) = TotalOn(bond, slashed) + TotalOn(bond, Members \ slashed)
        /\ TotalOn(bond, Members \ slashed) \in Nat
    BY <1>5, TotalSplit
  <2>4. QED
    BY <2>1, <2>2, <2>3
<1>7. Members \ slashed # {}
  <2>1. TotalOn(deposit, {}) = 0
    BY TotalZero DEF IInv, TypeOK
  <2>2. QED
    BY <1>1, <1>6, <2>1
<1>8. fateBar' = [m \in Members |-> IF m \in Members \ slashed THEN "refunded" ELSE fateBar[m]]
  BY <1>1, <1>2 DEF fateBar
<1>9. paid'.bonds = paid.bonds + Total(bond) /\ paid'.reward = paid.reward
      /\ paid'.treasury = paid.treasury
  BY DEF IInv, TypeOK
<1>10. windowBar' = windowBar
  BY <1>1 DEF windowBar, WindowOpen
<1>11. QED
  BY <1>1, <1>3, <1>4, <1>6, <1>7, <1>8, <1>9, <1>10, SameTotals
     DEF Lifecycle!Refund, windowBar

\* The withdrawal of credits moves them from owed to paid.
LEMMA CreditsMoveOnly ==
  ASSUME IInv, (\E a \in Addresses : WithdrawReward(a)) \/ WithdrawTreasury
  PROVE  UNCHANGED <<fateBar, deposit, windowBar, penaltiesBar, paid.bonds>>
<1>. USE DEF committee, phase, windows
<1>1. /\ UNCHANGED <<signer, slashed, deposit, committeeRetired, jobs, now>>
      /\ paid \in [reward : Nat, treasury : Nat, bonds : Nat]
      /\ claimableRewards \in [Addresses -> Nat] /\ treasuryAccrued \in Nat
  BY DEF WithdrawReward, WithdrawTreasury, IInv, TypeOK
<1>2. UNCHANGED <<fateBar, deposit, windowBar>>
  BY <1>1 DEF fateBar, Registered, windowBar, WindowOpen
<1>3. IsFiniteSet(Addresses) /\ Total(claimableRewards) \in Nat
  BY <1>1, ConstantsAssumption, TotalType
<1>4. UNCHANGED <<penaltiesBar, paid.bonds>>
  <2>1. CASE WithdrawTreasury
    BY <1>1, <1>3, <2>1 DEF WithdrawTreasury, penaltiesBar
  <2>2. ASSUME NEW a \in Addresses, WithdrawReward(a)
        PROVE  UNCHANGED <<penaltiesBar, paid.bonds>>
    <3>1. /\ claimableRewards' \in [Addresses -> Nat] /\ claimableRewards'[a] = 0
          /\ \A y \in Addresses \ {a} : claimableRewards'[y] = claimableRewards[y]
          /\ treasuryAccrued' = treasuryAccrued
      BY <1>1, <2>2 DEF WithdrawReward
    <3>2. Total(claimableRewards')
            = Total(claimableRewards) - claimableRewards[a] + claimableRewards'[a]
      BY <1>1, <1>3, <3>1, TotalUpdate
    <3>3. paid'.reward = paid.reward + claimableRewards[a]
          /\ paid'.treasury = paid.treasury /\ paid'.bonds = paid.bonds
      BY <1>1, <2>2 DEF WithdrawReward
    <3>4. claimableRewards[a] \in Nat
      BY <1>1
    <3>5. QED
      BY <1>1, <1>3, <3>1, <3>2, <3>3, <3>4 DEF penaltiesBar
  <2>3. QED
    BY <2>1, <2>2
<1>5. QED
  BY <1>2, <1>4

\* Time only closes windows.
LEMMA TickRefined ==
  ASSUME IInv, Tick
  PROVE  Lifecycle!CloseWindows \/ UNCHANGED <<fateBar, deposit, windowBar, penaltiesBar, paid.bonds>>
<1>. USE DEF Tick, committee, phase, credits, ether
<1>1. UNCHANGED <<fateBar, deposit, penaltiesBar, paid.bonds>>
  BY DEF fateBar, Registered, penaltiesBar
<1>2. windowBar' => windowBar
  <2>1. \A job \in DOMAIN jobs : jobs[job] \in Nat
    BY DEF IInv, TypeOK
  <2>2. now \in Nat /\ now' = now + 1 /\ jobs' = jobs
    BY DEF IInv, TypeOK
  <2>3. QED
    BY <2>1, <2>2 DEF windowBar, WindowOpen
<1>3. CASE ~windowBar'
  BY <1>1, <1>3 DEF Lifecycle!CloseWindows, windowBar, penaltiesBar
<1>4. CASE windowBar'
  <2>1. windowBar' = windowBar
    BY <1>2, <1>4 DEF windowBar
  <2>2. QED
    BY <1>1, <2>1
<1>5. QED
  BY <1>3, <1>4

\* Every bond is slashed whole while a window is open, or refunded when all
\* are closed, and never both.
THEOREM Refinement == Spec => ImplementsBondLifecycle
<1>1. Init => Lifecycle!Init
  BY InitRefined
<1>2. IInv /\ [Next]_vars
        => [Lifecycle!Next]_Lifecycle!ledger
  <2>. SUFFICES ASSUME IInv, [Next]_vars
                PROVE  \/ Lifecycle!Next
                       \/ UNCHANGED <<fateBar, deposit, windowBar, penaltiesBar, paid.bonds>>
    BY DEF Lifecycle!ledger, windowBar, penaltiesBar
  <2>1. CASE \E m \in Members, a \in Signers, value \in BondValues : RegisterMember(m, a, value)
    BY <2>1, RegisterMemberRefined DEF Lifecycle!Next
  <2>2. CASE \E releaseTime \in 1 .. MaxTime : OpenRelease(releaseTime)
    BY <2>2, OpenReleaseRefined DEF Lifecycle!Next
  <2>3. ASSUME NEW caller \in Addresses, NEW e \in Evidence, SlashEarlyShare(caller, e)
        PROVE  Lifecycle!Next
    <3>1. <<e>> \in Seq(Evidence) /\ Len(<<e>>) >= 1 /\ DistinctMembers(<<e>>)
      BY DEF DistinctMembers
    <3>2. QED
      BY <2>3, <3>1, SlashRefined DEF SlashEarlyShare, Lifecycle!Next
  <2>4. ASSUME NEW caller \in Addresses, NEW pkg \in Packages, SlashPackage(caller, pkg)
        PROVE  Lifecycle!Next
    <3>1. pkg \in Seq(Evidence)
      BY PackageIsSeq
    <3>2. Len(pkg) >= 1 /\ DistinctMembers(pkg) /\ Slash(caller, pkg)
      BY <2>4, ConstantsAssumption, FS_CardinalityType DEF SlashPackage
    <3>3. QED
      BY <3>1, <3>2, SlashRefined DEF Lifecycle!Next
  <2>5. CASE (\E a \in Addresses : WithdrawReward(a)) \/ WithdrawTreasury
    BY <2>5, CreditsMoveOnly
  <2>6. CASE WithdrawRemainingBonds
    BY <2>6, WithdrawRemainingBondsRefined DEF Lifecycle!Next
  <2>7. CASE Tick
    BY <2>7, TickRefined DEF Lifecycle!Next
  <2>8. CASE FreezeCommittee \/ ReturnFromTransfer \/ UNCHANGED vars
    BY <2>8 DEF FreezeCommittee, ReturnFromTransfer, vars, committee, phase, windows, credits,
       ether, fateBar, Registered, windowBar, WindowOpen, penaltiesBar
  <2>9. QED
    BY <2>1, <2>2, <2>3, <2>4, <2>5, <2>6, <2>7, <2>8 DEF Next
<1>3. QED
  BY <1>1, <1>2, Invariant, PTL DEF Spec, ImplementsBondLifecycle, Lifecycle!Spec
=============================================================================
