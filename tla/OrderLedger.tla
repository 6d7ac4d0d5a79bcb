----------------------------- MODULE OrderLedger -----------------------------
(***************************************************************************)
(* The order ledger of the single-host experiment (ptr_exp/ledger.py): an  *)
(* escrow is funded with the sum of the prices, each response is charged   *)
(* to it, and what is left goes back to whoever funded it.                 *)
(*                                                                         *)
(* A ledger is a value: each operation yields the ledger after it.  A      *)
(* method that raises ends the execution that owns the ledger, so what it  *)
(* changed before it raised is never seen; the conditions under which the  *)
(* methods do not raise are the operators Can...  Names of debits and      *)
(* returns are derived from the order and the operator and are represented *)
(* by the operator and by the kind.                                        *)
(***************************************************************************)
EXTENDS Amounts, Sequences

CONSTANT Operators   \* 1..n, the committee

Buyer == "buyer"     \* the named buyer; any other source is a sponsor

Open(prices, source) ==
  [prices |-> prices, source |-> source, deposit |-> Total(prices),
   buyerDebit |-> IF source = Buyer THEN Total(prices) ELSE 0,
   sponsorFunding |-> IF source # Buyer THEN Total(prices) ELSE 0,
   escrow |-> Total(prices), responses |-> << >>, returns |-> << >>,
   credits |-> [op \in {} |-> 0], step |-> 0, success |-> 0]

Record(op, price, route, digest, valid, creditStep, releaseStep, ordering) ==
  [operator |-> op, price |-> price, route |-> route, digest |-> digest, valid |-> valid,
   debit |-> op, creditStep |-> creditStep, releaseStep |-> releaseStep, ordering |-> ordering]

\* Takes the price out of the escrow, credits it and appends the record.
Charged(l, record) ==
  [l EXCEPT !.step = @ + 2, !.escrow = @ - record.price,
            !.credits = [op \in DOMAIN @ \cup {record.operator} |->
                           IF op = record.operator THEN record.price ELSE @[op]],
            !.responses = Append(@, record)]

\* A faulty variant of the next definition, for mutation tests.
EscrowSuffices(l, op, price) == l.escrow >= price

CanCredit(l, op, price) == op \notin DOMAIN l.credits /\ l.escrow >= price

CreditBeforeRelease(l, op, digest, valid) ==
  Charged(l, Record(op, l.prices[op], "paid_response", digest, valid, l.step + 1, l.step + 2, TRUE))

\* Does not ask whether the operator was credited before.
CanRelease(l, op) == l.escrow >= l.prices[op]

ReleaseBeforeCredit(l, op, digest, valid) ==
  Charged(l, Record(op, l.prices[op], "paid_response", digest, valid, l.step + 2, l.step + 1, TRUE))

\* Paid in order, but the record does not say so.
RecordUntimed(l, op, digest, valid) ==
  Charged(l, Record(op, l.prices[op], "paid_response", digest, valid, l.step + 1, l.step + 2, FALSE))

\* An unmapped route: nothing is charged, and nothing is credited before release.
RecordBypass(l, op, digest, valid) ==
  Charged(l, Record(op, 0, "bypass_response", digest, valid, l.step + 1, l.step + 2, TRUE))

MarkSuccess(l) == [l EXCEPT !.step = @ + 1, !.success = l.step + 1]

FinalizeRefund(l) ==
  IF l.escrow = 0 THEN l
  ELSE [l EXCEPT !.step = @ + 1, !.escrow = 0,
                 !.returns = Append(@, [kind |-> "refund", beneficiary |-> l.source,
                                        amount |-> l.escrow, accounted |-> TRUE])]

AddReimbursement(l, amount, accounted) ==
  [l EXCEPT !.step = @ + 1,
            !.returns = Append(@, [kind |-> "reimbursement", beneficiary |-> Buyer,
                                   amount |-> amount, accounted |-> accounted])]

CreditsTotal(l) == Total(l.credits)

\* The sum over some of the returns.
ReturnedBy(l, indices) == Total([i \in indices |-> l.returns[i].amount])

ReturnsToBuyer(l) ==
  ReturnedBy(l, {i \in DOMAIN l.returns : l.returns[i].beneficiary = Buyer})

\* O = max{0, D - R - F} over what the named buyer controls.
NamedBuyerNetOutflow(l) ==
  IF l.buyerDebit >= ReturnsToBuyer(l) THEN l.buyerDebit - ReturnsToBuyer(l) ELSE 0
=============================================================================
