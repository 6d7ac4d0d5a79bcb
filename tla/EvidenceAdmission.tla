------------------------- MODULE EvidenceAdmission -------------------------
(***************************************************************************)
(* What a verifier may take for a member's floor, and what it may conclude *)
(* from the floors of a committee.  Evidence that is missing, out of scope *)
(* or expired counts for nothing: the floor is then zero, which says that  *)
(* nothing is known and not that the member is free.                       *)
(*                                                                         *)
(* A record carries the set of the facts that are established (signer,     *)
(* ownership, attribution, ...); what the member reports is not evidence   *)
(* and does not appear.                                                    *)
(***************************************************************************)
EXTENDS DefenseLattice

-----------------------------------------------------------------------------
(* The floor of one member.                                                *)

RequiredFacts ==
  {"signer", "ownership", "attribution", "forfeiture", "offset cap", "code hash"}

Failures(record, now) ==
  (RequiredFacts \ record.facts)
    \cup {f \in {"not yet valid"} : record.validFrom > now}
    \cup {f \in {"expired"} : record.validUntil < now}
    \cup {f \in {"revoked"} : record.revoked}

\* A faulty variant for mutation tests: what third parties pay is forgotten.
ForgettingReimbursement(record, now) ==
  IF Failures(record, now) # {} THEN 0 ELSE Max({0, record.locked - record.recovery})

\* What the member loses for certain: its collateral, less all it may recover
\* or be reimbursed.
AdmitFloor(record, now) ==
  IF Failures(record, now) # {} THEN 0
  ELSE Max({0, record.locked - record.recovery - record.reimbursement})

\* The audit of the production committee raises on a row with a negative figure
\* or with a probability (in parts of Whole) above one.
ValidRow(row, Whole) ==
  /\ \A f \in {"base", "probability", "penalty", "insurance"} : row[f] >= 0
  /\ row.probability <= Whole

\* A direct floor, a penalty that is forfeited with the probability, and insurance,
\* each only if all the evidence it rests on is certified.
CertifiedMemberFloor(row, Whole) ==
  LET Certified(fields) == fields \subseteq row.certified
  IN  (IF Certified({"base"}) THEN row.base * Whole ELSE 0)
      + (IF Certified({"attribution", "forfeiture", "enforcement"})
           THEN row.probability * row.penalty ELSE 0)
      + (IF Certified({"insurance", "nonoverlap"}) THEN row.insurance * Whole ELSE 0)

\* The penalty counts on top of the base only if every gate of it is passed.
PenaltyResistance(row, Whole) ==
  row.base * Whole
    + IF {"forfeiture", "attribution", "enforcement"} \subseteq row.certified
      THEN row.probability * row.penalty ELSE 0

\* What a member lacks on each path; insurance is not a path.
Gaps(row) ==
  [activation |-> {"activation"} \ row.certified,
   direct |-> (({"base"} \ row.certified) \cup {g \in {"positive base"} : row.base = 0}),
   penalty |-> (({"attribution", "forfeiture", "enforcement"} \ row.certified)
                  \cup {g \in {"positive probability"} : row.probability = 0}
                  \cup {g \in {"positive penalty"} : row.penalty = 0})]

\* A row's floor and gaps; without them when it is refused.
EvaluateMember(row, Whole) ==
  IF ValidRow(row, Whole)
  THEN [floor |-> CertifiedMemberFloor(row, Whole), gaps |-> Gaps(row)]
  ELSE [refused |-> TRUE]

-----------------------------------------------------------------------------
(* The certificate of the committee.                                       *)

\* The sum of the q smallest floors.
ThresholdCertificate(floors, q) ==
  UniformThresholdCertificate(floors, floors, {}, q)

PositiveMembers(floors) == {m \in DOMAIN floors : floors[m] > 0}

\* As long as this many more members are needed the certificate is zero.
AdditionalPositiveMembers(floors, q) ==
  Max({0, Len(floors) - q + 1 - Cardinality(PositiveMembers(floors))})

\* Which certificate may be issued, given the gates that passed.
SelectCertifiedBranch(thresholdCover, activationCover, gates) ==
  IF {"ordered witness", "exposure sufficiency"} \subseteq gates THEN activationCover
  ELSE IF "separable payments" \in gates THEN thresholdCover
  ELSE 0

\* The cheapest set that reaches the threshold, in whatever order.
ThresholdCoverCost(weight, resistance, threshold) ==
  Min({MapThenSumSet(LAMBDA m : resistance[m], S) :
         S \in {C \in SUBSET DOMAIN weight :
                  MapThenSumSet(LAMBDA m : weight[m], C) >= threshold}})

\* Two light members that must be bought first, two heavy core members, and
\* three others, in parts of 42; all floors are one.
RoleWeights(prerequisites, cores) ==
  [m \in 1 .. 7 |-> IF m \in prerequisites THEN 3 ELSE IF m \in cores THEN 12 ELSE 4]

RoleGates(prerequisites) == [m \in 1 .. 7 |-> IF m \in prerequisites THEN 0 ELSE 6]

CounterfactualCovers(prerequisites, cores, threshold) ==
  LET unit == [m \in 1 .. 7 |-> 1]
      w    == RoleWeights(prerequisites, cores)
  IN  [thresholdCover |-> ThresholdCoverCost(w, unit, threshold),
       activationCover |-> MinimumCost(w, threshold, unit, RoleGates(prerequisites))]

-----------------------------------------------------------------------------
(* Committees whose shares are refreshed at the end of every epoch.        *)

\* Corrupting a member takes its latency; one after the other, these fit.
SubsetsWithin(latency, duration) ==
  {S \in SUBSET DOMAIN latency : MapThenSumSet(LAMBDA m : latency[m], S) <= duration}

SetCost(cost, S) == MapThenSumSet(LAMBDA m : cost[m], S)

LocalEpochCost(cost, latency, q, duration) ==
  LET covers == {S \in SubsetsWithin(latency, duration) : Cardinality(S) >= q}
  IN  IF covers = {} THEN Infeasible ELSE Min({SetCost(cost, S) : S \in covers})

Cheapest(costs) == IF costs \ {Infeasible} = {} THEN Infeasible ELSE Min(costs \ {Infeasible})

\* A faulty variant for mutation tests: only the last epoch counts.
LastEpochOnly(cost, latency, q, durations) ==
  LocalEpochCost(cost, latency, q, durations[Len(durations)])

\* Shares of an earlier epoch are worthless: one epoch has to be enough.
ErasureWindowCost(cost, latency, q, durations) ==
  Cheapest({LocalEpochCost(cost, latency, q, durations[e]) : e \in DOMAIN durations})

\* They are not erased: the sets corrupted by the end of each epoch, with the
\* least that was paid for them; a member that is held is not paid again.
PersistentWindowCost(cost, latency, q, durations) ==
  LET Extend(states, duration) ==
        LET moves == (DOMAIN states) \X SubsetsWithin(latency, duration)
        IN  [U \in {z[1] \cup z[2] : z \in moves} |->
               Min({states[z[1]] + SetCost(cost, z[2] \ z[1]) :
                      z \in {y \in moves : y[1] \cup y[2] = U}})]
      states == FoldLeft(Extend, [S \in {{}} |-> 0], durations)
  IN  Cheapest({states[S] : S \in {T \in DOMAIN states : Cardinality(T) >= q}})
=============================================================================
