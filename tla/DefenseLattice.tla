--------------------------- MODULE DefenseLattice ---------------------------
(***************************************************************************)
(* Defenses form a Boolean lattice: a value, the cost of the cheapest      *)
(* attack, is given for every set of actions that are deployed.  These are *)
(* the transforms on such value functions, the searches for a good set of  *)
(* actions, and the families of committees the experiments build to show   *)
(* what none of them may be relied upon for.                               *)
(*                                                                         *)
(* Actions are numbered 1..k.  Fractions are multiples of a common unit.   *)
(***************************************************************************)
EXTENDS Integers, FiniteSets, FiniteSetsExt, SequencesExt

Actions(k) == 1 .. k

\* The actions in the order of their bits.
InOrder(k) == [i \in 1 .. k |-> i]

-----------------------------------------------------------------------------
(* Transforms.                                                             *)

\* A faulty variant for mutation tests: the last bit is left out.
MobiusWithoutLastBit(values, k) ==
  FoldLeft(LAMBDA c, i : [S \in DOMAIN c |-> IF i \in S THEN c[S] - c[S \ {i}] ELSE c[S]],
           values, InOrder(k - 1))

\* One pass for each bit, over the masks that have it.
MobiusTransform(values, k) ==
  FoldLeft(LAMBDA c, i : [S \in DOMAIN c |-> IF i \in S THEN c[S] - c[S \ {i}] ELSE c[S]],
           values, InOrder(k))

ZetaTransform(coefficients, k) ==
  FoldLeft(LAMBDA v, i : [S \in DOMAIN v |-> IF i \in S THEN v[S] + v[S \ {i}] ELSE v[S]],
           coefficients, InOrder(k))

\* The interactions of more than maxOrder actions are left out.
TruncatedValue(coefficients, mask, maxOrder) ==
  MapThenSumSet(LAMBDA S : coefficients[S], {S \in SUBSET mask : Cardinality(S) <= maxOrder})

\* The same for all masks at once: the transforms of the layers are added up.
TruncatedValuesByOrder(coefficients, k, maxOrder) ==
  LET Layer(order) ==
        ZetaTransform([S \in DOMAIN coefficients |->
                         IF Cardinality(S) = order THEN coefficients[S] ELSE 0], k)
  IN  [S \in DOMAIN coefficients |->
         MapThenSumSet(LAMBDA order : Layer(order)[S], 0 .. maxOrder)]

IsMonotone(values, k) ==
  \A S \in DOMAIN values : \A i \in Actions(k) \ S : values[S] <= values[S \cup {i}]

\* Sets that reach the target and from which no action can be taken away.
MinimalTargetMasks(values, target) ==
  {S \in DOMAIN values : values[S] >= target /\ \A i \in S : values[S \ {i}] < target}

-----------------------------------------------------------------------------
(* The choice of actions.                                                  *)

\* The cost of the q cheapest members, each raised if its action is deployed.
UniformThresholdCertificate(resistance, increment, mask, q) ==
  LET post     == [i \in DOMAIN resistance |->
                     resistance[i] + IF i \in mask THEN increment[i] ELSE 0]
      cheapest == SortSeq(post, <)
  IN  FoldLeft(LAMBDA sum, i : sum + cheapest[i], 0, InOrder(q))

\* The value of the best set of exactly budget actions, or of none at all.
ExactBudgetMaximum(values, k, budget) ==
  Max({values[S] : S \in kSubset(budget, Actions(k)) \cup {{}}})

\* The action that raises the value most, the first one if several do.
GreedyChoice(values, k, mask) ==
  LET Gain(i) == values[mask \cup {i}] - values[mask]
  IN  CHOOSE i \in Actions(k) \ mask :
        \A j \in Actions(k) \ mask : Gain(j) < Gain(i) \/ (Gain(j) = Gain(i) /\ i <= j)

MarginalGreedy(values, k, budget) ==
  FoldLeft(LAMBDA mask, unit :
             IF mask = Actions(k) THEN mask ELSE mask \cup {GreedyChoice(values, k, mask)},
           {}, InOrder(budget))

\* Actions 1..k block one cheap cover each, actions k+1..2k raise all of them
\* by epsilon; the fallback cover costs 2 * multiple.
DecoyValues(k, multiple, epsilon) ==
  [S \in SUBSET Actions(2 * k) |->
     LET common == epsilon * Cardinality(S \cap (k + 1 .. 2 * k))
     IN  Min({2 * multiple} \cup
             {2 + common + IF path \in S THEN 2 * multiple ELSE 0 : path \in 1 .. k})]

\* Action 1 raises a member every cover needs by epsilon, the others raise one
\* of k interchangeable members each.
SingletonValues(k, unit, epsilon) ==
  [S \in SUBSET Actions(k + 1) |->
     unit + (IF 1 \in S THEN epsilon ELSE 0)
       + Min({unit + IF i \in S THEN unit ELSE 0 : i \in 2 .. k + 1})]

\* run_greedy: the choice stops, unlike MarginalGreedy, once nothing is gained.
RunGreedy(values, k, budget) ==
  FoldLeft(LAMBDA mask, unit :
             IF mask = Actions(k) THEN mask
             ELSE LET next == mask \cup {GreedyChoice(values, k, mask)}
                  IN  IF mask # {} /\ values[next] <= values[mask] THEN mask ELSE next,
           {}, InOrder(budget))

-----------------------------------------------------------------------------
(* Committees.                                                             *)

Infeasible == -1

\* The cheapest way to reach the threshold by buying members one by one, each
\* once the exposure has reached its gate.
MinimumCost(weight, threshold, price, gate) ==
  LET members     == DOMAIN weight
      Exposure(S) == MapThenSumSet(LAMBDA m : weight[m], S)
      solve[S \in SUBSET members] ==
        IF Exposure(S) >= threshold THEN 0
        ELSE LET rests == {<<m, solve[S \cup {m}]>> :
                             m \in {n \in members \ S : gate[n] <= Exposure(S)}}
                 costs == {price[r[1]] + r[2] : r \in {q \in rests : q[2] # Infeasible}}
             IN  IF costs = {} THEN Infeasible ELSE Min(costs)
  IN  solve[{}]

\* k entry members of the smallest weight, a terminal member that is for sale
\* once an entry was bought, a fallback member that succeeds alone and a
\* filler that is never for sale, as no protected entry is.
CoordinatedDefenseValues(k, multiple) ==
  LET never  == 6 * k + 1
      weight == [m \in 1 .. k + 3 |->
                   CASE m <= k -> 1 [] m = k + 1 -> 2 * k - 1
                     [] m = k + 2 -> 2 * k [] OTHER -> k + 1]
      price(S) == [m \in 1 .. k + 3 |->
                     IF m \in S \/ m = k + 3 THEN 2 * multiple + 1
                     ELSE IF m = k + 2 THEN 2 * multiple ELSE 1]
      gate(S)  == [m \in 1 .. k + 3 |->
                     IF m \in S \/ m = k + 3 THEN never ELSE IF m = k + 1 THEN 1 ELSE 0]
  IN  [S \in SUBSET Actions(k) |-> MinimumCost(weight, 2 * k, price(S), gate(S))]

\* The same family as hardening_and_greedy.py builds it: the member that is never
\* for sale is left out, and all thresholds are multiples of 1 / (6k).
HardeningPhi(k, multiple, hardened) ==
  LET never  == 6 * k + 1
      weight == [m \in 1 .. k + 2 |->
                   CASE m <= k -> 1 [] m = k + 1 -> 2 * k - 1 [] OTHER -> 2 * k]
      price  == [m \in 1 .. k + 2 |->
                   IF m \in hardened THEN 2 * multiple + 1
                   ELSE IF m = k + 2 THEN 2 * multiple ELSE 1]
      gate   == [m \in 1 .. k + 2 |->
                   IF m \in hardened THEN never ELSE IF m = k + 1 THEN 1 ELSE 0]
  IN  MinimumCost(weight, 2 * k, price, gate)

\* The sum of the smallest resistances.
exact_uniform_certificate(resistances, required) ==
  LET cheapest == SortSeq(resistances, <)
  IN  FoldLeft(LAMBDA sum, i : sum + cheapest[i], 0, InOrder(required))

\* A profile repeated for a larger committee.
tile_profile(profile, times) == FlattenSeq([i \in 1 .. times |-> profile])

\* One member of weight 1 - 1/a that succeeds alone, and seeds of weight 1/a
\* in all.  A seed asks for 1 - 1/b.
InstabilityCost(K, a, b, gated) ==
  LET seeds  == (b * (K - 1) + b - 2) \div (b - 1)
      weight == [m \in 0 .. seeds |-> IF m = 0 THEN (a - 1) * seeds ELSE 1]
      price  == [m \in 0 .. seeds |-> IF m = 0 THEN b ELSE b - 1]
      gate   == [m \in 0 .. seeds |-> IF gated /\ m = 0 THEN seeds ELSE 0]
  IN  MinimumCost(weight, (a - 1) * seeds, price, gate)

\* k seeds that together weigh delta and two cores that need all of them first.
MechanismStress(k) ==
  LET weight == [m \in 1 .. k + 2 |-> IF m <= k THEN 2 ELSE 3 * k]
      price  == [m \in 1 .. k + 2 |-> 1]
      gate   == [m \in 1 .. k + 2 |-> IF m <= k THEN 0 ELSE 2 * k]
  IN  MinimumCost(weight, 6 * k, price, gate)

\* Equal weights, one cap for all: the q cheapest members in ascending order,
\* if each of them is within the cap of its turn.
UniformLowerTail(price, caps, q) ==
  IF q > Len(price) \/ \E r \in 1 .. q : price[r] > caps[r] THEN Infeasible
  ELSE FoldLeft(LAMBDA sum, r : sum + price[r], 0, InOrder(q))

-----------------------------------------------------------------------------
(* Members that all ask for liquidity + 1, paid from the liquidity and what *)
(* can be borrowed against the members held: 1..k are seeds, the other two *)
(* are cores.  Money is in parts of k, weight in parts of 8k.              *)

Collateral(k, liquidity, S) ==
  LET j == Cardinality(S \cap (1 .. k))
      r == Cardinality(S \ (1 .. k))
  IN  k * j * (liquidity + 1) + j * r + IF r = 2 THEN k * (liquidity + 2) ELSE 0

PoolExposure(k, S) == MapThenSumSet(LAMBDA m : IF m <= k THEN 2 ELSE 3 * k, S)

Solvent(k, liquidity, S) ==
  k * (liquidity + 1) * Cardinality(S) <= k * liquidity + Collateral(k, liquidity, S)

\* What can be held when members are bought one by one until the threshold.
SolventlyHeld(k, liquidity) ==
  LET Extend(sets, step) ==
        sets \cup {S \in {T \cup {m} : T \in {U \in sets : PoolExposure(k, U) < 6 * k},
                                    m \in 1 .. k + 2} : Solvent(k, liquidity, S)}
  IN  FoldLeft(Extend, {{}}, InOrder(k + 2))

\* The least number of members of a successful set.
Smallest(k, sets) == Min({Cardinality(S) : S \in {T \in sets : PoolExposure(k, T) >= 6 * k}})

-----------------------------------------------------------------------------
(* Units of hardening allocated to the members of known covers.            *)

AllocatedCosts(resistance, covers, units) ==
  {MapThenSumSet(LAMBDA i : resistance[i] + units[i], S) : S \in covers}

AllocationValue(resistance, covers, units) == Min(AllocatedCosts(resistance, covers, units))

\* Each unit goes to the member that is cheapest by now.
CheapestCurrent(resistance, budget) ==
  LET Cost(units, i) == resistance[i] + units[i]
      first(units)   == CHOOSE i \in DOMAIN resistance :
                          \A j \in DOMAIN resistance :
                            \/ Cost(units, i) < Cost(units, j)
                            \/ Cost(units, i) = Cost(units, j) /\ i <= j
  IN  FoldLeft(LAMBDA units, unit : [units EXCEPT ![first(units)] = @ + 1],
               [i \in DOMAIN resistance |-> 0], InOrder(budget))

\* The units go round the members in the order of their weights.
WeightCycle(n, budget) ==
  [i \in 1 .. n |-> Cardinality({unit \in 0 .. budget - 1 : unit % n = i - 1})]

\* The best of all allocations of the whole budget.
BottleneckExact(resistance, covers, budget) ==
  Max({AllocationValue(resistance, covers, units) :
         units \in {u \in [DOMAIN resistance -> 0 .. budget] :
                      FoldLeft(+, 0, u) = budget}})
=============================================================================
