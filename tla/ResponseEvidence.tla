-------------------------- MODULE ResponseEvidence --------------------------
(***************************************************************************)
(* The witnesses of an execution and the verdict on it (ptr_exp/witness.py,*)
(* ptr_exp/evidence.py and the builders of ptr_exp/protocol.py).           *)
(*                                                                         *)
(* A response is [operator, at, valid]: who gave it, for which position of *)
(* the order, whether its proof verifies.  It stands for its own hash.  A  *)
(* set of responders stands for its bitmap.  An execution's result is      *)
(*   [threshold, aggregateValid, accepted, consumer, ledger, used].        *)
(***************************************************************************)
EXTENDS OrderLedger, SequencesExt, FiniteSetsExt

Pass == "PASS"
Counterexample == "FAIL_COUNTEREXAMPLE"
MissingEvidence == "FAIL_CLOSED_MISSING_EVIDENCE"
NotApplicable == "NOT_APPLICABLE"

CoveredRoutes == {"paid_response"}

OperatorsOf(responses) == {responses[i].operator : i \in DOMAIN responses}

AggregationWitness(result) ==
  [bitmap |-> OperatorsOf(result.used),
   operators |-> [i \in DOMAIN result.used |-> result.used[i].operator],
   hashes |-> result.used, valid |-> result.aggregateValid]

\* record_by_operator and hash_by_operator: a later entry wins.
LastOf(seq, op) ==
  seq[CHOOSE i \in DOMAIN seq :
        seq[i].operator = op /\ \A j \in DOMAIN seq : seq[j].operator = op => j <= i]

\* Each counted responder's debit, with the returns that offset debits spent
\* on the first entries; a refund of unused escrow offsets nothing.
AllocationWitness(result, agg) ==
  LET l == result.ledger
      Price(i) == LastOf(l.responses, agg.operators[i]).price
      offsetting == {i \in DOMAIN l.returns :
                       l.returns[i].beneficiary = Buyer /\ l.returns[i].kind # "refund"}
      offset == ReturnedBy(l, offsetting)
      funded == l.source = Buyer
      Debit(i) == IF funded THEN Price(i) ELSE 0
      Before(i) == Total([j \in 1 .. i - 1 |-> Debit(j)])
      Take(i) == Min({Debit(i), Max({0, offset - Before(i)})})
  IN  [bitmap |-> agg.bitmap,
       entries |-> [i \in DOMAIN agg.operators |->
         [operator |-> agg.operators[i], bitmap |-> agg.bitmap,
          hash |-> LastOf(agg.hashes, agg.operators[i]),
          debitId |-> LastOf(l.responses, agg.operators[i]).debit,
          debit |-> Debit(i), refund |-> Take(i), funding |-> IF funded THEN 0 ELSE Price(i),
          returnIds |-> (IF i = 1 /\ offsetting # {} THEN {"offsets"} ELSE {})
                        \cup (IF ~funded /\ Price(i) # 0 THEN {"sponsor"} ELSE {})]]]

Net(e) == e.debit - e.refund - e.funding

TotalAllocated(alloc) ==
  LET entry == alloc.entries
  IN  Total([i \in DOMAIN entry |-> entry[i].debit])
        - Total([i \in DOMAIN entry |-> entry[i].refund])
        - Total([i \in DOMAIN entry |-> entry[i].funding])

\* The clauses of (C2).
AllocationVerifies(agg, alloc, floors, observed) ==
  LET entry == alloc.entries IN
  /\ alloc.bitmap = agg.bitmap
  /\ OperatorsOf(entry) = ToSet(agg.operators)
  /\ \A i \in DOMAIN entry :
       /\ entry[i].bitmap = agg.bitmap
       /\ entry[i].hash = LastOf(agg.hashes, entry[i].operator)
       /\ Net(entry[i]) >= floors[entry[i].operator]
       /\ \A j \in DOMAIN entry : i # j =>
            /\ entry[i].debitId # entry[j].debitId
            /\ entry[i].returnIds \cap entry[j].returnIds = {}
  /\ TotalAllocated(alloc) <= observed

-----------------------------------------------------------------------------
(* Faulty variants of the definitions below, for mutation tests.           *)

AnyConsumer(result, agg) ==
  IF ~agg.valid \/ Len(agg.operators) < result.threshold THEN Counterexample ELSE Pass

-----------------------------------------------------------------------------
GateB1(result, agg) ==
  IF \/ ~agg.valid
     \/ Len(agg.operators) < result.threshold
     \/ ~result.accepted
  THEN Counterexample ELSE Pass

GateB2(result) ==
  IF result.ledger.source # Buyer \/ result.ledger.sponsorFunding # 0 THEN Counterexample ELSE Pass

CountedRecords(result) ==
  {r \in Range(result.ledger.responses) : r.operator \in OperatorsOf(result.used)}

\* Payment before release is asked only of a delivery to the named buyer.
GateB3(result, b1) ==
  IF b1 # Pass THEN NotApplicable
  ELSE IF \E r \in CountedRecords(result) : ~r.ordering THEN MissingEvidence
  ELSE IF \E r \in CountedRecords(result) : r.creditStep > r.releaseStep THEN Counterexample
  ELSE Pass

GateB4(result) ==
  IF \E i \in DOMAIN result.ledger.returns : ~result.ledger.returns[i].accounted
  THEN Counterexample
  ELSE IF result.ledger.escrow # 0 THEN MissingEvidence ELSE Pass

GateB5(result, coverage) ==
  IF coverage = "UNKNOWN" THEN MissingEvidence
  ELSE IF \/ coverage = "REFUTED"
          \/ \E r \in CountedRecords(result) : r.route \notin CoveredRoutes
  THEN Counterexample
  ELSE Pass

Gates(result, agg, coverage) ==
  LET b1 == GateB1(result, agg)
  IN  [B1 |-> b1, B2 |-> GateB2(result), B3 |-> GateB3(result, b1),
       B4 |-> GateB4(result), B5 |-> GateB5(result, coverage)]

Status(gates, verified) ==
  IF Counterexample \in Range(gates) THEN "REFUTED"
  ELSE IF MissingEvidence \in Range(gates) \/ ~verified THEN "UNKNOWN"
  ELSE "CERTIFIED"

NoFloor == -1   \* None

EvaluateExecution(result, agg, alloc, coverage, floors) ==
  LET observed == NamedBuyerNetOutflow(result.ledger)
      verified == AllocationVerifies(agg, alloc, floors, observed)
      gates == Gates(result, agg, coverage)
  IN  [gates |-> gates, verified |-> verified, observed |-> observed,
       floor |-> IF verified THEN TotalAllocated(alloc) ELSE NoFloor,
       status |-> Status(gates, verified)]

\* _assess: the witnesses are built from the result that they are checked with.
Assess(result, floors, coverage) ==
  LET agg == AggregationWitness(result)
  IN  EvaluateExecution(result, agg, AllocationWitness(result, agg), coverage, floors)
=============================================================================
