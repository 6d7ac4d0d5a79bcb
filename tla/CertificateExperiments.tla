----------------------- MODULE CertificateExperiments -----------------------
(***************************************************************************)
(* The experiments on defenses, evidence and epochs, on the committees of  *)
(* module PackageAttack.  They use what a member asks for and not when it  *)
(* is for sale, so they are made once for each vector of resistances.      *)
(***************************************************************************)
EXTENDS PackageAttack, EvidenceAdmission, ReplacementHull

CONSTANTS
  Quorum,      \* the members an attack on a uniform committee needs
  Increments,  \* what a defense adds to the resistance of each member
  Durations    \* of the epochs of a window

ASSUME ExperimentAssumption ==
  /\ Quorum \in 1 .. Cardinality(Members)
  /\ Increments \in Seq(Nat)
  /\ Durations \in Seq(Nat \ {0})

OnceForEachResistance ==
  /\ phase = "scan"
  /\ position = 1
  /\ \A m, n \in Members : cap[m] = cap[n] /\ Len(cap[m]) = 1

\* For what does not depend on the state at all.
OnceForEachWeighting ==
  OnceForEachResistance /\ \A m \in Members : resistance[m] = Min(Resistances)

N == Cardinality(Members)

AuditedFields ==
  {"base", "attribution", "forfeiture", "enforcement", "insurance", "nonoverlap", "activation"}

\* The rows of an evidence ledger, with probabilities in quarters.
AuditedRows ==
  [certified : SUBSET AuditedFields, base : -1 .. 1, penalty : -1 .. 1, insurance : -1 .. 1,
   probability : {-1, 0, 1, 4, 5}]

\* The value of the committee for each set of members that are defended.
DefendedValues ==
  [S \in SUBSET Actions(N) |-> UniformThresholdCertificate(resistance, Increments, S, Quorum)]

-----------------------------------------------------------------------------
(* The experiments.                                                        *)

\* random_uniform_experiments and _process_trial: the fast transforms are
\* inverse to each other and the coefficients are those of the definition;
\* truncation computed layer by layer is what it is set by set; more defense
\* never costs security; the plans found are the minimal ones, and no greedy
\* choice is better than the best one.
LatticeExperiment ==
  LET values       == DefendedValues
      coefficients == MobiusTransform(values, N)
      target       == values[{}] + 1
      plans        == MinimalTargetMasks(values, target)
  IN  /\ ZetaTransform(coefficients, N) = values
      /\ \A S \in SUBSET Actions(N) :
           coefficients[S] =
             MapThenSumSet(LAMBDA T : IF Cardinality(S \ T) % 2 = 0 THEN values[T] ELSE -values[T],
                           SUBSET S)
      /\ \A order \in 0 .. N :
           LET truncated == TruncatedValuesByOrder(coefficients, N, order)
           IN  \A S \in SUBSET Actions(N) :
                 truncated[S] = TruncatedValue(coefficients, S, order)
      /\ IsMonotone(values, N)
      /\ \A S \in SUBSET Actions(N) :
           values[S] >= target <=> \E P \in plans : P \subseteq S
      /\ \A P, Q \in plans : P \subseteq Q => P = Q
      /\ \A budget \in 0 .. N :
           values[MarginalGreedy(values, N, budget)] <= ExactBudgetMaximum(values, N, budget)

\* pure_kway_experiments: only all k defenses together raise the value, so
\* every interaction but the top one vanishes.
PureInteraction(k, multiple) ==
  LET values       == CoordinatedDefenseValues(k, multiple)
      coefficients == MobiusTransform(values, k)
  IN  /\ IsMonotone(values, k)
      /\ \A S \in SUBSET Actions(k) :
           /\ values[S] = IF S = Actions(k) THEN 2 * multiple ELSE 2
           /\ coefficients[S] =
                CASE S = {} -> 2 [] S = Actions(k) -> 2 * multiple - 2 [] OTHER -> 0

\* decoy_greedy_experiments and the singleton greedy: greedy takes the decoys
\* and never the actions that would have blocked every cheap cover.
GreedyIsMisled(k, multiple) ==
  /\ LET values == DecoyValues(k, multiple, 1)
     IN  /\ ExactBudgetMaximum(values, 2 * k, k) = values[Actions(k)]
         /\ MarginalGreedy(values, 2 * k, k) = (k + 1) .. 2 * k

\* hardening_and_greedy: every proper subset of the hardenings is worth nothing,
\* and the greedy choice never completes the pool of interchangeable members,
\* so its share of the best gain is only what the common member adds.
HardeningIsCoordinated(k, multiple) ==
  \A S \in SUBSET Actions(k) :
    HardeningPhi(k, multiple, S) = IF S = Actions(k) THEN 2 * multiple ELSE 2

SingletonGreedyIsPoor(k, unit, epsilon) ==
  LET values == SingletonValues(k, unit, epsilon)
      greedy == RunGreedy(values, k + 1, k)
      pool   == 2 .. k + 1
  IN  /\ ~(pool \subseteq greedy)
      /\ values[greedy] - values[{}] = epsilon
      /\ values[pool] - values[{}] = unit

\* run_brute_force_checks: a gate that is passed for a weight of 1/a makes a
\* committee K times as expensive.
GateIsUnstable(K, a, b) ==
  InstabilityCost(K, a, b, FALSE) = b /\ InstabilityCost(K, a, b, TRUE) >= K * b

\* allocation_table: no rule of thumb is better than the exact allocation.
AllocationExperiment(budget) ==
  LET covers == {S \in SUBSET Members : Cardinality(S) = 2 /\ S # {1, 2}}
      exact  == BottleneckExact(resistance, covers, budget)
  IN  /\ AllocationValue(resistance, covers, CheapestCurrent(resistance, budget)) <= exact
      /\ AllocationValue(resistance, covers, WeightCycle(N, budget)) <= exact

\* collateral and check_instance: borrowing against what is held is worth
\* more the more is held, buying one by one every seed has to come first, and
\* a package of the two cores is solvent at once.
SolvencySeparates(k, liquidity) ==
  LET Worth(S) == Collateral(k, liquidity, S)
      all      == SUBSET (1 .. k + 2)
      reached    == SolventlyHeld(k, liquidity)
  IN  /\ Worth({}) = 0
      /\ \A S, T \in all :
           /\ S \subseteq T => Worth(S) <= Worth(T)
           /\ Worth(S) + Worth(T) <= Worth(S \cup T) + Worth(S \cap T)
      /\ \A size \in 0 .. k :
           /\ 1 .. size \in reached
           /\ size < k => \A core \in k + 1 .. k + 2 : (1 .. size) \cup {core} \notin reached
      /\ Smallest(k, reached) = k + 2
      /\ Smallest(k, {S \in all : Solvent(k, liquidity, S)}) = 2

\* baseline_comparison: the floor of all members is a lower bound of the
\* certificate and the mean is not, unless all ask for the same.
BaselinesAreOrdered ==
  \A required \in 1 .. N :
    LET exact == exact_uniform_certificate(resistance, required)
        sum   == exact_uniform_certificate(resistance, N)
        price == {resistance[m] : m \in Members}
    IN  /\ required * Min(price) <= exact
        /\ N * exact <= required * sum
        /\ N * exact = required * sum <=> required = N \/ Cardinality(price) = 1
        /\ exact = Min({SetCost(resistance, S) : S \in kSubset(required, Members)})

\* parameter_sensitivity: each share the attacker already has takes what some
\* member asks for off the certificate.
ExposureLowersTheCertificate ==
  \A threshold \in 1 .. N, exposure \in 0 .. 2 :
    threshold - exposure \in 1 .. N =>
      exact_uniform_certificate(resistance, threshold)
        - exact_uniform_certificate(resistance, threshold - exposure)
      \in exposure * Min(Range(resistance)) .. exposure * Max(Range(resistance))

\* boundary_and_scale_sensitivity: a member that asks for nothing never raises the
\* certificate, and a committee that repeats another one has as many times its
\* certificate.
SensitivityIsMonotone ==
  /\ \A m \in Members, required \in 1 .. N :
       exact_uniform_certificate([resistance EXCEPT ![m] = 0], required)
         <= exact_uniform_certificate(resistance, required)
  /\ \A times \in 2 .. 3, required \in 1 .. N :
       exact_uniform_certificate(tile_profile(resistance, times), times * required)
         = times * exact_uniform_certificate(resistance, required)

\* The closed form for equal weights is what the search finds.
UniformTailIsExact(q) ==
  LET price == SortSeq(resistance, <)
  IN  \A caps \in {c \in [1 .. q -> 0 .. 2] : \A i, j \in 1 .. q : i <= j => c[i] <= c[j]} :
        LET gate == [m \in Members |->
                       Min({q} \cup {r - 1 : r \in {i \in 1 .. q : price[m] <= caps[i]}})]
        IN  UniformLowerTail(price, caps, q)
              = MinimumCost([m \in Members |-> 1], q, price, gate)

\* randomized_checks: a floor is never more than what is lost for certain,
\* whatever is recovered within the bounds, and any defect brings it to zero.
FloorsAreSound ==
  \A locked, recovery, reimbursement \in 0 .. 2 :
    \A missing \in RequiredFacts \cup {"none"}, until \in 1 .. 3, revoked \in BOOLEAN :
      LET record == [locked |-> locked, recovery |-> recovery,
                     reimbursement |-> reimbursement, facts |-> RequiredFacts \ {missing},
                     validFrom |-> 2, validUntil |-> until, revoked |-> revoked]
      IN  /\ AdmitFloor(record, 2) >= 0
          /\ AdmitFloor(record, 2) > 0 =>
               /\ missing = "none" /\ until >= 2 /\ ~revoked
               /\ \A r \in 0 .. recovery, s \in 0 .. reimbursement :
                    locked - r - s >= AdmitFloor(record, 2)
          /\ AdmitFloor(record, 1) = 0

\* evaluate_member: the positive path of a member is called open exactly as long as
\* its floor is zero, unless insurance that is certified and additional makes it
\* positive (which the report's text, lines 238-243, does not mention); a penalty whose gates have not passed adds nothing; and no row that
\* is not refused is worth more than all it claims.
GapsExplainTheFloor ==
  \A row \in AuditedRows :
    LET audit   == EvaluateMember(row, 4)
        insured == {"insurance", "nonoverlap"} \subseteq row.certified /\ row.insurance > 0
        without == audit.floor - IF insured THEN 4 * row.insurance ELSE 0
    IN  "floor" \in DOMAIN audit =>
          /\ audit.floor > 0 <=>
               audit.gaps.direct = {} \/ audit.gaps.penalty = {} \/ insured
          /\ without <= PenaltyResistance(row, 4)
          /\ "base" \in row.certified => without = PenaltyResistance(row, 4)
          /\ audit.floor <= 4 * (row.base + row.penalty + row.insurance)

\* evaluate_counterfactual: wherever the roles are placed the cheapest set
\* costs 2 and the cheapest attack 4, and the latter is only certified if both
\* gates passed.
EveryPlacementCostsTheSame ==
  /\ \A prerequisites, cores \in kSubset(2, 1 .. 7) :
       prerequisites \cap cores = {} =>
         CounterfactualCovers(prerequisites, cores, 24)
           = [thresholdCover |-> 2, activationCover |-> 4]
  /\ \A gates \in SUBSET {"ordered witness", "exposure sufficiency", "separable payments"} :
       SelectCertifiedBranch(2, 4, gates) =
         CASE {"ordered witness", "exposure sufficiency"} \subseteq gates -> 4
           [] ~({"ordered witness", "exposure sufficiency"} \subseteq gates)
                /\ "separable payments" \in gates -> 2
           [] OTHER -> 0

\* disclosure_frontier_check: whoever is left unknown, no set of Quorum members
\* costs less than the certificate, some set costs just that, and it is
\* positive exactly when fewer than Quorum members have no floor.
DisclosureFrontier ==
  \A unknown \in SUBSET Members :
    LET floors == [m \in Members |-> IF m \in unknown THEN 0 ELSE resistance[m]]
        issued == ThresholdCertificate(floors, Quorum)
    IN  /\ \A S \in kSubset(Quorum, Members) : issued <= SetCost(resistance, S)
        /\ \E S \in kSubset(Quorum, Members) : issued = SetCost(floors, S)
        /\ issued > 0 <=> Cardinality(Members \ unknown) > N - Quorum
        /\ issued > 0 <=> AdditionalPositiveMembers(floors, Quorum) = 0

\* randomized_monotonicity: an epoch that lasts longer is never dearer.
LongerIsNotDearer(latency) ==
  \A short \in 1 .. 5 :
    LocalEpochCost(resistance, latency, Quorum, short) # Infeasible =>
      LocalEpochCost(resistance, latency, Quorum, short + 1)
        \in 0 .. LocalEpochCost(resistance, latency, Quorum, short)

-----------------------------------------------------------------------------
(* Properties.                                                             *)

\* HullIsCharacterized and the two formulas, for all contributions and pairs of
\* replacements on three outcomes with probabilities in thirds.
ReplacementsAreDetected ==
  \A qc, first, second \in Distributions(3, 3) :
    /\ \A price \in 0 .. 2 : FormulasAgree(qc, first, second, price, 2, 3)
    /\ HullIsCharacterized(qc, first, second, 3)

\* The transforms are exact, greedy never beats the best choice, each family
\* of committees shows what it was built to show, and the closed form for
\* equal weights agrees with the search.
LatticeExperimentsHold ==
  /\ OnceForEachResistance =>
       /\ LatticeExperiment
       /\ AllocationExperiment(2)
       /\ BaselinesAreOrdered
       /\ ExposureLowersTheCertificate
       /\ SensitivityIsMonotone
       /\ UniformTailIsExact(Quorum)
  /\ OnceForEachWeighting =>
       /\ \A k \in 1 .. 3 : PureInteraction(k, 2)
       /\ GreedyIsMisled(2, 6)
       /\ \A k \in 1 .. 3 : HardeningIsCoordinated(k, 2)
       /\ \A k \in 2 .. 4 : SingletonGreedyIsPoor(k, 4, 1)
       /\ \A K \in 2 .. 3 : GateIsUnstable(K, 4, 4)
       /\ \A k \in 1 .. 3 : MechanismStress(k) = k + 2
       /\ \A k \in 1 .. 3, liquidity \in 0 .. 1 : SolvencySeparates(k, liquidity)

\* Whatever is admitted is really lost: a member with complete and current
\* evidence loses at least its floor, whatever it recovers within the bounds,
\* and any defect brings the floor to zero.  No set of Quorum members costs
\* less than the certificate of the floors, some set costs just that, and the
\* certificate is zero exactly as long as more members with a floor are needed.
EvidenceIsSound ==
  /\ OnceForEachResistance => DisclosureFrontier
  /\ OnceForEachWeighting =>
       /\ FloorsAreSound
       /\ GapsExplainTheFloor
       /\ EveryPlacementCostsTheSame
       /\ ReplacementsAreDetected

\* A window whose shares are erased is as secure as its longest epoch; if
\* they are not, members corrupted in different epochs add up, and the whole
\* window is as weak as the unions of what fits into its epochs.
WindowsAreBounded ==
  OnceForEachResistance =>
    LET latency == weight
        Fits(S) == \E parts \in [DOMAIN Durations -> SUBSET Members] :
                     /\ \A e \in DOMAIN Durations :
                          parts[e] \in SubsetsWithin(latency, Durations[e])
                     /\ S = UNION {parts[e] : e \in DOMAIN Durations}
        unions  == {S \in SUBSET Members : Cardinality(S) >= Quorum /\ Fits(S)}
        erased  == ErasureWindowCost(resistance, latency, Quorum, Durations)
        kept    == PersistentWindowCost(resistance, latency, Quorum, Durations)
    IN  /\ kept = IF unions = {} THEN Infeasible
                  ELSE Min({SetCost(resistance, S) : S \in unions})
        /\ erased # Infeasible => kept # Infeasible /\ kept <= erased
        /\ LongerIsNotDearer(latency)
        /\ erased = LocalEpochCost(resistance, latency, Quorum,
                      Max({Durations[e] : e \in DOMAIN Durations}))

\* What is admitted as evidence is really lost, over a window of epochs no more
\* is claimed than the shares that are kept or erased allow, and the certificate
\* issued on partial evidence is the best one that the evidence supports.
EvidenceHolds == EvidenceIsSound /\ WindowsAreBounded /\ HierarchyHolds
=============================================================================
