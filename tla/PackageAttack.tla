---------------------------- MODULE PackageAttack ----------------------------
(***************************************************************************)
(* The certified committee of module MinimumSequentialCost, attacked under *)
(* a mechanism that lets the acquirer also buy packages: sets of members   *)
(* from a certified family that change hands at once, whatever their caps, *)
(* disjoint from each other and at most a given number of times.  A        *)
(* verifier that knows the committee only from a ledger of evidence issues *)
(* a certificate, and then the acquirer plays.                             *)
(*                                                                         *)
(* A ledger has, for each member, a floor below what it asks for and, for  *)
(* the certified members only, an exposure before which it is not for      *)
(* sale, its gate.  The closed forms of the certificate are compared with  *)
(* one another and with a search through all schedules.                    *)
(***************************************************************************)
EXTENDS MinimumSequentialCost, FiniteSetsExt

CONSTANTS
  Ledgers,   \* what a verifier may know: [backed, certified, family, repeats]
  MaxBudget  \* the package sizes and repetitions the closed forms are compared for

ASSUME LedgerAssumption ==
  /\ Resistances # {} /\ IsFiniteSet(Resistances)
  /\ Ledgers \subseteq [backed : SUBSET Members, certified : SUBSET Members,
                        family : SUBSET ((SUBSET Members) \ {{}}), repeats : Nat]
  /\ MaxBudget \in Nat

VARIABLES
  ledger,        \* the evidence, or NoLedger before it is declared
  certificate,   \* what was issued on it
  held, paid,    \* the members the acquirer holds and what they cost
  uses           \* the packages it bought

packages == <<ledger, certificate, held, paid, uses>>

NoLedger == [backed |-> {}]

-----------------------------------------------------------------------------
(* The certificate of a ledger.                                            *)

\* None of the code, the cost where no attack exists: more than any cost.
Infinite == Cardinality(Members) * (Max(Resistances) + 1) + 1

Least(costs) == Min(costs \cup {Infinite})

\* The mixed threshold vector: a member whose gate is not certified has none.
Gate(l, m) == IF m \in l.certified THEN l.gate[m] ELSE 0

\* Once P is held, S can be bought in the order of its gates.
BuildableFrom(l, P, S) ==
  \A m \in S :
    Gate(l, m) <= Exposure(P \cup {n \in S : Gate(l, n) < Gate(l, m)})

\* The same with the uncertified members first.
FrontloadedFrom(l, P, S) ==
  \A m \in S \cap l.certified :
    l.gate[m] <= Exposure(P \cup (S \ l.certified)
                            \cup {n \in S \cap l.certified : l.gate[n] < l.gate[m]})

\* A faulty variant for mutation tests: the gate of a member of the package still counts, although it was bypassed.
IgnoringThePackage(l, P) ==
  {S \in SUBSET (Members \ P) : Exposure(P \cup S) >= Threshold /\ BuildableFrom(l, {}, S)}

\* What remains to be bought one by one after P: nothing if P succeeds.
Completions(l, P) ==
  IF Exposure(P) >= Threshold THEN {{}}
  ELSE {S \in SUBSET (Members \ P) : Exposure(P \cup S) >= Threshold /\ BuildableFrom(l, P, S)}

\* At most r packages, disjoint from each other; the empty set stands for none.
PackageChoices(family, r) ==
  {s \in [1 .. r -> family \cup {{}}] : \A i, j \in 1 .. r : i # j => s[i] \cap s[j] = {}}

\* All unions of at most r disjoint packages.
DisjointUnionClosure(family, r) == {UNION {s[i] : i \in 1 .. r} : s \in PackageChoices(family, r)}

\* The packages first and the rest one by one.
ClosedForm(l) ==
  Least(UNION {{TotalOn(l.floor, P \cup S) : S \in Completions(l, P)} :
                 P \in DisjointUnionClosure(l.family, l.repeats)})

\* The search through all schedules, for members that ask for price and are
\* for sale from gate on.
StateSpace(price, gate, family, r) ==
  LET solve[A \in SUBSET Members, used \in 0 .. r] ==
        IF Exposure(A) >= Threshold THEN 0
        ELSE Least(
          {price[m] + solve[A \cup {m}, used] :
             m \in {n \in Members \ A : gate[n] <= Exposure(A)}}
          \cup
          {TotalOn(price, P) + solve[A \cup P, used + 1] :
             P \in {Q \in family : used < r /\ Q \cap A = {}}})
  IN  solve[{}, 0]

-----------------------------------------------------------------------------
(* What the scripts check of the hierarchy of certificates.                *)

Gates(l) == [m \in Members |-> Gate(l, m)]

Under(l, family, r) == [l EXCEPT !.family = family, !.repeats = r]

Certifying(l, M) == [l EXCEPT !.certified = M]

CardinalityFamily(b) == {P \in SUBSET Members : Cardinality(P) \in 1 .. b}

\* One package of at most b members.
WithBudget(l, b) == ClosedForm(Under(l, CardinalityFamily(b), 1))

\* The same when every gate is certified.
AtomicBypassCost(l, b) == WithBudget(Certifying(l, Members), b)

\* All schedules that use at most one such package.
BudgetStateSpace(l, b) == StateSpace(l.floor, Gates(l), CardinalityFamily(b), 1)

\* No packages.
SequentialCost(l) == ClosedForm(Under(l, {}, 0))

\* All orders of all sets, without packages.
SequentialSearch(price, gate) == StateSpace(price, gate, {}, 0)

\* The sets that succeed if the uncertified members come first.
FrontloadedCovers(l) ==
  {S \in SUBSET Members : Exposure(S) >= Threshold /\ FrontloadedFrom(l, {}, S)}

PartialCost(l) == Least({TotalOn(l.floor, S) : S \in FrontloadedCovers(l)})

\* The cost where no gate is certified.
ThresholdCost(l) == SequentialCost(Certifying(l, {}))

ClosedFormIsExact(l) == ClosedForm(l) = StateSpace(l.floor, Gates(l), l.family, l.repeats)

BudgetsAgree(l) == \A b \in 0 .. MaxBudget : WithBudget(l, b) = BudgetStateSpace(l, b)

BoundariesAgree(l) ==
  /\ AtomicBypassCost(l, 0) = SequentialCost(Certifying(l, Members))
  /\ AtomicBypassCost(l, Cardinality(Members)) = ThresholdCost(l)
  /\ \A b \in 1 .. Cardinality(Members) :
       AtomicBypassCost(l, b) <= AtomicBypassCost(l, b - 1)

\* Repeating packages of b members gives no more than one that is larger.
RepetitionIsRedundant(l) ==
  \A b, r \in 1 .. MaxBudget :
    ClosedForm(Under(l, CardinalityFamily(b), r)) = WithBudget(l, r * b)

SingletonsCollapse(l) ==
  ClosedForm(Under(l, {{m} : m \in Members}, Cardinality(Members))) = ThresholdCost(l)

\* Without certified gates a package gains nothing.
ResistanceOnlyCollapses(l) ==
  \A b \in 0 .. MaxBudget : WithBudget(Certifying(l, {}), b) = ThresholdCost(l)

\* Without floors as well all is free.
PublicOnlyIsZero(l) ==
  LET public == [Certifying(l, {}) EXCEPT !.floor = [m \in Members |-> 0]]
  IN  \A b \in 0 .. MaxBudget : WithBudget(public, b) = 0

\* The two ways to write partial evidence agree.
MixedGatesAgree(l) == SequentialCost(l) = PartialCost(l)

\* Between no gate and all of them, each one that is certified as well never
\* lowers the certificate.
PartialEvidenceIsMonotone(l) ==
  /\ PartialCost(Certifying(l, {})) = ThresholdCost(l)
  /\ PartialCost(Certifying(l, Members)) = SequentialCost(Certifying(l, Members))
  /\ \A m \in Members : PartialCost(l) <= PartialCost(Certifying(l, l.certified \cup {m}))

\* The least favourable profile: the cheapest cover at its floors and one
\* unit more, everybody else out of reach.
LeastFavourable(l) ==
  LET covers == {S \in FrontloadedCovers(l) : TotalOn(l.floor, S) = PartialCost(l)}
  IN  covers # {} =>
        LET S == CHOOSE T \in covers : \A U \in covers : U \subseteq T => U = T
        IN  SequentialSearch([m \in Members |-> IF m \in S THEN l.floor[m] + 1 ELSE Infinite],
                             [m \in Members |-> IF m \in S THEN Gate(l, m) ELSE 0])
              = PartialCost(l) + Cardinality(S)

\* A member that asks for nothing is always for sale under some cap, so a
\* gate cannot hold it back.
Realizable(l) == \A m \in Members : l.floor[m] = 0 => Gate(l, m) = 0

\* One unit is asked of a member that a gate should hold back.
Raised(l) ==
  [m \in Members |-> IF l.floor[m] = 0 /\ Gate(l, m) > 0 THEN 1 ELSE l.floor[m]]

\* Some profile that members can have attains the certificate, or the raised
\* one approaches it from above.
Approaches(cost, bound, l) ==
  IF Realizable(l) THEN cost = bound
  ELSE IF bound = Infinite THEN cost = Infinite
  ELSE cost \in bound .. bound + Cardinality(Members)

\* Without packages, for both ends of the hierarchy.
EndpointsAreTight(l) ==
  /\ SequentialSearch(l.floor, [m \in Members |-> 0]) = ThresholdCost(l)
  /\ LET full == Certifying(l, Members)
     IN  Approaches(SequentialSearch(Raised(full), Gates(full)), SequentialCost(full), full)

\* With every gate certified, for each size of a package.
BudgetsAreTight(l) ==
  LET full == Certifying(l, Members)
  IN  \A b \in 0 .. MaxBudget :
        Approaches(StateSpace(Raised(full), Gates(full), CardinalityFamily(b), 1),
                   AtomicBypassCost(l, b), full)

\* With the gates of the ledger and its packages.
IsTight(l) ==
  Approaches(StateSpace(Raised(l), Gates(l), l.family, l.repeats), ClosedForm(l), l)

\* On a ledger that leaves nothing open, without packages, the closed form is
\* what the subset dynamic program found.
SolversAgree(l) ==
  l.floor = resistance /\ l.certified = Members =>
    SequentialCost(l) = IF best = {} THEN Infinite ELSE Cost(best)

-----------------------------------------------------------------------------
InitPackages ==
  /\ ledger = NoLedger
  /\ certificate = Infinite
  /\ held = {}
  /\ paid = 0
  /\ uses = 0

\* The instance is consistent with the evidence: each member asks for at
\* least its floor, and a certified one is not for sale before its gate.
LedgerOf(e) ==
  [floor |-> [m \in Members |-> IF m \in e.backed THEN resistance[m] ELSE 0],
   gate |-> [m \in Members |-> ActivatedAt(m)],
   certified |-> e.certified, family |-> e.family, repeats |-> e.repeats]

\* A verifier that has seen e issues the certificate.
Declare(e) ==
  /\ phase = "done"
  /\ bought = {}
  /\ ledger = NoLedger
  /\ ledger' = LedgerOf(e)
  /\ certificate' = ClosedForm(LedgerOf(e))
  /\ UNCHANGED <<held, paid, uses>>

Unfinished == ledger # NoLedger /\ Exposure(held) < Threshold

\* A member that is for sale is bought.
BuyOne(m) ==
  /\ Unfinished
  /\ m \notin held
  /\ ActivatedAt(m) <= Exposure(held)
  /\ held' = held \cup {m}
  /\ paid' = paid + resistance[m]
  /\ UNCHANGED <<ledger, certificate, uses>>

\* A package is bought, whatever the caps of its members.
BuyPackage(P) ==
  /\ Unfinished
  /\ uses < ledger.repeats
  /\ P \cap held = {}
  /\ held' = held \cup P
  /\ paid' = paid + TotalOn(resistance, P)
  /\ uses' = uses + 1
  /\ UNCHANGED <<ledger, certificate>>

PackageStep ==
  \/ \E e \in Ledgers : Declare(e)
  \/ \E m \in Members : BuyOne(m)
  \/ ledger # NoLedger /\ \E P \in ledger.family : BuyPackage(P)

CommitteeNext ==
  \/ ledger = NoLedger /\ Next /\ UNCHANGED packages
  \/ PackageStep /\ UNCHANGED vars

CommitteeInit == Init /\ InitPackages

CommitteeSpec == CommitteeInit /\ [][CommitteeNext]_<<vars, packages>>

-----------------------------------------------------------------------------
(* Properties.                                                             *)

\* Soundness under partial evidence: whatever the real members ask for and
\* whenever they are for sale, as long as this is consistent with the ledger,
\* an acquirer that mixes purchases and packages in any order pays at least
\* the certificate that was issued on the ledger.
PackagesCostTheCertificate ==
  ledger # NoLedger /\ Exposure(held) >= Threshold => paid >= certificate

\* When a ledger has just been declared the certificate is the largest that
\* is sound for it (some schedule of a profile the members can have pays no
\* more, up to one unit for each member that no cap can hold back), however
\* the partial evidence is written, and the hierarchy of certificates has the
\* boundaries the scripts look for.
HierarchyHolds ==
  ledger # NoLedger /\ held = {} =>
    /\ ClosedFormIsExact(ledger)
    /\ IsTight(ledger)
    /\ SolversAgree(ledger)
    /\ BudgetsAgree(ledger)
    /\ BudgetsAreTight(ledger)
    /\ EndpointsAreTight(ledger)
    /\ BoundariesAgree(ledger)
    /\ RepetitionIsRedundant(ledger)
    /\ SingletonsCollapse(ledger)
    /\ ResistanceOnlyCollapses(ledger)
    /\ PublicOnlyIsZero(ledger)
    /\ MixedGatesAgree(ledger)
    /\ PartialEvidenceIsMonotone(ledger)
    /\ LeastFavourable(ledger)

-----------------------------------------------------------------------------
(* Why PackagesCostTheCertificate holds: the parts of an inductive         *)
(* invariant.                                                              *)

PackageTypeOK ==
  /\ weight \in Weightings
  /\ resistance \in [Members -> Resistances]
  /\ held \subseteq Members
  /\ paid = Cost(held)
  /\ uses \in Nat

\* The certificate was issued on a ledger that is true of the committee.
IssuedOnEvidence ==
  IF ledger = NoLedger THEN held = {} /\ uses = 0
  ELSE /\ \E e \in Ledgers : ledger = LedgerOf(e)
       /\ certificate = ClosedForm(ledger)
       /\ uses <= ledger.repeats

\* However purchases and packages were mixed, it is as if the packages had
\* come first and the single members after them in the order of their gates.
PackagesCouldComeFirst ==
  ledger # NoLedger =>
    \E P \in DisjointUnionClosure(ledger.family, uses) :
      P \subseteq held /\ BuildableFrom(ledger, P, held \ P)

PackageInv == PackageTypeOK /\ IssuedOnEvidence /\ PackagesCouldComeFirst
=============================================================================
