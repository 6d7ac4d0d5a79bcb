------------------------- MODULE ResponseCertificate -------------------------
(***************************************************************************)
(* The closed forms of the single-host experiment (ptr_exp/certificate.py) *)
(* and the enumerations that they are compared with.                       *)
(***************************************************************************)
EXTENDS Amounts, Sequences, SequencesExt, FiniteSetsExt

\* The q smallest prices: those of q members such that nobody else's is smaller.
SmallestOf(prices, q) ==
  CHOOSE S \in SUBSET DOMAIN prices :
    /\ Cardinality(S) = q
    /\ \A i \in S, j \in DOMAIN prices \ S : prices[i] <= prices[j]

TheoryCover(prices, q) == TotalOn(prices, SmallestOf(prices, q))

\* A faulty variant of the next definition, for mutation tests.
AtThreshold(prices, q) ==
  Cardinality({i \in DOMAIN prices : prices[i] > 0}) >= Len(prices) - q

UniformPositiveCount(prices, q) ==
  Cardinality({i \in DOMAIN prices : prices[i] > 0}) > Len(prices) - q

CatalogCertificate(floors) == Min({f \in floors : f >= 0})

SumOver(s, S) == MapThenSumSet(LAMBDA i : s[i], S)

Unreachable == -1   \* ValueError

BruteForceWeighted(weights, prices, threshold) ==
  LET reaching == {S \in SUBSET DOMAIN weights \ {{}} : SumOver(weights, S) >= threshold}
  IN  IF reaching = {} THEN Unreachable ELSE Min({SumOver(prices, S) : S \in reaching})

\* One round: every accumulated weight may take the member on; weights are
\* cut at the threshold; None is the cost of a weight that was not reached.
None == -1

WeighMember(dp, weight, price, threshold) ==
  LET Offers(t) == {dp[a] + price : a \in {b \in DOMAIN dp : dp[b] # None /\ Min({threshold, b + weight}) = t}}
      Known(t) == IF dp[t] = None THEN {} ELSE {dp[t]}
  IN  [t \in DOMAIN dp |->
         IF Offers(t) \cup Known(t) = {} THEN None ELSE Min(Offers(t) \cup Known(t))]

WeightedDP(weights, prices, threshold) ==
  IF threshold <= 0 THEN 0
  ELSE FoldLeft(LAMBDA dp, i : WeighMember(dp, weights[i], prices[i], threshold),
                [t \in 0 .. threshold |-> IF t = 0 THEN 0 ELSE None],
                [i \in DOMAIN weights |-> i])[threshold]
=============================================================================
