--------------------------- MODULE HostExperiment ---------------------------
(***************************************************************************)
(* One order of the single-host experiment as a computation (the body of   *)
(* ThresholdResponseService.execute), the experiment that runs many of     *)
(* them (ptr_exp/experiment.py), and the script that judges its report     *)
(* (scripts/verify_results.py).                                            *)
(*                                                                         *)
(* A call is [responders, order, source, ablation].  Shares whose partial  *)
(* decryptions do not verify are a set; the dealer's keyset has none.      *)
(***************************************************************************)
EXTENDS ResponseEvidence, ResponseCertificate, TLC

CONSTANT Threshold   \* how many responses are combined

\* Which of the ledger's methods an ablation of the protocol uses.
Chargeable(l, ablation, op) ==
  CASE ablation = "bypass" -> CanCredit(l, op, 0)
    [] ablation = "early_release" -> CanRelease(l, op)
    [] OTHER -> CanCredit(l, op, l.prices[op])

Charge(l, ablation, response) ==
  LET op == response.operator IN
  CASE ablation = "bypass" -> RecordBypass(l, op, response, response.valid)
    [] ablation = "early_release" -> ReleaseBeforeCredit(l, op, response, response.valid)
    [] ablation = "untimed" -> RecordUntimed(l, op, response, response.valid)
    [] OTHER -> CreditBeforeRelease(l, op, response, response.valid)

Response(op, position, bad) ==
  [operator |-> op, at |-> position, valid |-> op \notin bad]

\* The first responses of the order; of an operator asked twice, the later.
Used(call, responses) ==
  [i \in 1 .. Threshold |-> LastOf(responses, call.order[i])]

AllValid(used) == \A i \in DOMAIN used : used[i].valid

\* combine_partials refuses two shares of one operator; invalid ones are not combined.
Combines(used) == AllValid(used) => IsInjective([i \in DOMAIN used |-> used[i].operator])

\* What follows the last response, when it does not raise.
Conclude(call, l, responses) ==
  LET used == Used(call, responses)
      consumer == IF call.ablation = "wrong_buyer" THEN "mallory" ELSE Buyer
      accepted == AllValid(used) /\ consumer = Buyer
      delivered == IF accepted THEN MarkSuccess(l) ELSE l
      refunded == FinalizeRefund(delivered)
  IN  [threshold |-> Threshold, aggregateValid |-> AllValid(used), accepted |-> accepted,
       consumer |-> consumer, used |-> used,
       ledger |-> IF call.ablation = "reimbursement" /\ accepted
                  THEN AddReimbursement(refunded, CreditsTotal(refunded), FALSE)
                  ELSE refunded]

\* The checks before anything is done.
Accepted(call) ==
  /\ Cardinality(call.responders) >= Threshold
  /\ ToSet(call.order) = call.responders

ResponsesTo(call, bad) == [i \in DOMAIN call.order |-> Response(call.order[i], i, bad)]

\* The ledger of an order after it was charged for some responses.
LedgerAfter(prices, source, ablation, responses) ==
  LET after[n \in 0 .. Len(responses)] ==
        IF n = 0 THEN Open(prices, source) ELSE Charge(after[n - 1], ablation, responses[n])
  IN  after[Len(responses)]

Execution(prices, call) ==
  LET responses == ResponsesTo(call, {})
  IN  Conclude(call, LedgerAfter(prices, call.source, call.ablation, responses), responses)

-----------------------------------------------------------------------------
(* The experiment.  Floors are the prices.                                 *)

Cheapest(prices) ==
  SubSeq(SortSeq([i \in DOMAIN prices |-> i], LAMBDA i, j : prices[i] < prices[j] \/ (prices[i] = prices[j] /\ i < j)),
         1, Threshold)

Call(prices, source, ablation) ==
  [responders |-> ToSet(Cheapest(prices)), order |-> Cheapest(prices),
   source |-> source, ablation |-> ablation]

\* A threshold set in one order, replayed through a ledger of its own.
CachedRoute(prices, ordering) ==
  LET partials == [i \in DOMAIN ordering |-> Response(ordering[i], 0, {})]
      charged == LedgerAfter(prices, Buyer, "none", partials)
  IN  [threshold |-> Threshold, aggregateValid |-> TRUE, accepted |-> TRUE, consumer |-> Buyer,
       used |-> SubSeq(partials, 1, Threshold), ledger |-> FinalizeRefund(MarkSuccess(charged))]

Orderings == {s \in [1 .. Threshold -> Operators] : IsInjective(s)}

Routes(prices) ==
  {[order |-> s, report |-> Assess(CachedRoute(prices, s), prices, "PROVED")] : s \in Orderings}

\* One gate each.
AblationSpecs ==
  {[target |-> "B1", source |-> Buyer, ablation |-> "wrong_buyer", coverage |-> "PROVED"],
   [target |-> "B2", source |-> "sponsor", ablation |-> "none", coverage |-> "PROVED"],
   [target |-> "B3", source |-> Buyer, ablation |-> "early_release", coverage |-> "PROVED"],
   [target |-> "B4", source |-> Buyer, ablation |-> "reimbursement", coverage |-> "PROVED"],
   [target |-> "B5", source |-> Buyer, ablation |-> "bypass", coverage |-> "REFUTED"]}

Report(prices, source, ablation, coverage) ==
  Assess(Execution(prices, Call(prices, source, ablation)), prices, coverage)

RunExperiment(prices) ==
  LET routes == Routes(prices)
      floors == {r.report.floor : r \in routes}
      baseline == Execution(prices, Call(prices, Buyer, "none"))
      agg == AggregationWitness(baseline)
  IN  [prices |-> prices, cover |-> TheoryCover(prices, Threshold),
       catalog |-> CatalogCertificate(floors),
       observed |-> Min({r.report.observed : r \in routes}),
       minimizing |-> {r \in routes : r.report.floor = CatalogCertificate(floors)},
       routes |-> routes,
       aggregation |-> agg, allocation |-> AllocationWitness(baseline, agg),
       baseline |-> Assess(baseline, prices, "PROVED"),
       ablations |-> {[target |-> s.target, report |-> Report(prices, s.source, s.ablation, s.coverage)]
                        : s \in AblationSpecs},
       missingCoverage |-> Report(prices, Buyer, "none", "UNKNOWN"),
       untimed |-> Report(prices, Buyer, "untimed", "PROVED"),
       bypass |-> Report(prices, Buyer, "bypass", "REFUTED"),
       positive |-> UniformPositiveCount(prices, Threshold)]

\* Every ablation refutes its gate and no other.
Diagonal(ablations) ==
  \A a \in ablations :
    /\ a.report.status = "REFUTED"
    /\ \A gate \in DOMAIN a.report.gates :
         IF gate = a.target THEN a.report.gates[gate] = Counterexample
         ELSE a.report.gates[gate] \in {Pass, NotApplicable}

\* "checks", less those that quote the numbers of the shipped instance.
Checks(data) ==
  /\ \A r \in data.routes : r.report.floor = FoldLeft(+, 0, [i \in DOMAIN r.order |-> data.prices[r.order[i]]])
  /\ data.catalog = data.cover
  /\ data.observed = data.cover
  /\ data.baseline.status = "CERTIFIED"
  /\ data.baseline.floor = data.cover
  /\ data.baseline.verified
  /\ Diagonal(data.ablations)
  /\ data.missingCoverage.status = "UNKNOWN" /\ data.missingCoverage.gates.B5 = MissingEvidence
  /\ data.untimed.status = "UNKNOWN" /\ data.untimed.gates.B3 = MissingEvidence
  /\ data.bypass.status = "REFUTED" /\ data.bypass.gates.B5 = Counterexample

\* verify_results.py: what the experiment wrote, judged from the report alone.
ResultVerifies(data) ==
  LET cover == TheoryCover(data.prices, Threshold)
      entry == data.allocation.entries
  IN  /\ data.cover = cover
      /\ \A r \in data.routes :
           LET expected == SumOver(data.prices, ToSet(r.order))
           IN  r.report.floor = expected /\ r.report.observed = expected
      /\ Cardinality(data.routes) =
           FoldLeft(LAMBDA product, k : product * (Cardinality(Operators) - k + 1), 1, [k \in 1 .. Threshold |-> k])
      /\ {ToSet(r.order) : r \in data.routes} = kSubset(Threshold, Operators)
      /\ data.catalog = cover /\ Min({r.report.floor : r \in data.routes}) = cover
      /\ data.observed = cover
      /\ data.allocation.bitmap = data.aggregation.bitmap
      /\ [i \in DOMAIN entry |-> entry[i].hash] = data.aggregation.hashes
      /\ IsInjective([i \in DOMAIN entry |-> entry[i].debitId])
      /\ \A i, j \in DOMAIN entry : i # j => entry[i].returnIds \cap entry[j].returnIds = {}
      /\ \A i \in DOMAIN entry : Net(entry[i]) >= data.prices[entry[i].operator]
      /\ TotalAllocated(data.allocation) <= data.baseline.observed
      /\ Diagonal(data.ablations)
=============================================================================
