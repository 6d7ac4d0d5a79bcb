-------------------------- MODULE CaptureCertificate --------------------------
(***************************************************************************)
(* The capture of executed sales that the process certificate starts from  *)
(* (ope_process_positive/run_positive_certificate.py): one route per       *)
(* terminal set, all under one credit vector, each with what the chain and *)
(* the contract showed after the sale.  The runner validates the routes,   *)
(* compares them with the completeness certificate, and takes the floor.   *)
(***************************************************************************)
EXTENDS SchemaCertificate

FinalityConfirmations == 6

\* FIXED_CREDITS, up to the names of the members: two units to one member of each
\* pool that is in no other.
FixedCredits ==
  {[m \in Members |-> IF m \in {a, b} THEN 2 ELSE 0] :
      a \in FirstPool \ SecondPool, b \in SecondPool \ FirstPool}

\* What the capture writes down of a sale when it is completed.  The value of the
\* call is what the contract took in besides the credits.
Receipt ==
  [selected |-> terminal, operators |-> terminal, success |-> completed,
   from |-> acquirer, to |-> "escrow",
   value |-> balance + Total(received) - Total(credits),
   acquirer |-> acquirer, completed |-> completed, claimable |-> claimable[acquirer],
   total |-> totalAcquisitionCallValue,
   mask |-> terminal, delivered |-> {m \in Members : shareOwner[m] = acquirer},
   policy |-> FinalityConfirmations, observed |-> FinalityConfirmations,
   singleUse |-> TRUE, signer |-> acquirer]

-----------------------------------------------------------------------------
\* validate_capture, for one route.
RolesSeparate(attacker) ==
  attacker # Controller /\ attacker \notin Members /\ Controller \notin Members

ValidRoute(r, attacker) ==
  /\ Cardinality(r.selected) = 4 /\ r.operators = r.selected
  /\ r.success /\ r.from = attacker /\ r.to = "escrow"
  /\ r.acquirer = attacker /\ r.completed /\ r.claimable = 0
  /\ r.total = r.value
  /\ r.mask = r.selected /\ r.delivered = r.selected
  /\ r.policy = FinalityConfirmations /\ r.observed >= FinalityConfirmations
  /\ r.singleUse
  /\ r.signer = attacker

\* bind_c6, for one route: the certificate has a record of this set at this cost.
BoundToRecord(r, y) == <<r.selected, y, r.value>> \in Records

\* The same sale reported otherwise, in one field.
Misreported(r) ==
  UNION {{[r EXCEPT !.selected = S] : S \in TerminalSets},
         {[r EXCEPT !.operators = S] : S \in TerminalSets},
         {[r EXCEPT !.delivered = S] : S \in TerminalSets},
         {[r EXCEPT !.value = v] : v \in Values},
         {[r EXCEPT !.claimable = v] : v \in Values},
         {[r EXCEPT !.from = a] : a \in Accounts},
         {[r EXCEPT !.signer = a] : a \in Accounts},
         {[r EXCEPT !.observed = n] : n \in 0 .. FinalityConfirmations},
         {[r EXCEPT !.singleUse = FALSE], [r EXCEPT !.completed = FALSE]}}

-----------------------------------------------------------------------------
(* The result and the gates of the certificate (evaluate).                  *)

Gates == {"P1", "P2", "P3", "P4", "P5"}
NumberOfRoutes == 35

\* The result over the captured routes; costs[S] is the cost of the route to S,
\* and no process route returns anything.
Result(costs) ==
  [pass |-> Gates, forward |-> Cardinality(DOMAIN costs),
   reverse |-> Cardinality(DOMAIN costs),
   minimum |-> Min({costs[S] : S \in DOMAIN costs}), returned |-> 0]

GatesAccept(result) ==
  /\ result.pass = Gates
  /\ result.forward = NumberOfRoutes /\ result.reverse = NumberOfRoutes
  /\ result.minimum = 4 /\ result.returned = 0

\* gate_mutations_rejected
GateMutations(result) ==
  {[result EXCEPT !.pass = @ \ {gate}] : gate \in {"P1", "P3", "P4"}}
  \cup {[result EXCEPT !.forward = 34], [result EXCEPT !.reverse = 34],
        [result EXCEPT !.minimum = 3], [result EXCEPT !.returned = 1]}

\* PROCESS-LEVEL-CERTIFIED(4): the captured costs of the fixed credits pass the
\* gates, and no mutation of the result does.
CertifiesFour ==
  \A y \in FixedCredits :
    LET result == Result([S \in TerminalSets |-> Quote(UnitPrice, y, S)])
    IN  GatesAccept(result) /\ \A x \in GateMutations(result) : ~GatesAccept(x)

\* A completed sale gives a receipt that shows the quoted price as what was paid, that
\* the runner accepts, and no part of which can be reported otherwise.
ReceiptIsTrue ==
  completed =>
    /\ Receipt.value = quoteFour(terminal)
    /\ RolesSeparate(acquirer) /\ ValidRoute(Receipt, acquirer)
    /\ \A r \in Misreported(Receipt) : ValidRoute(r, acquirer) => r = Receipt

\* Property: a sale, whatever was withdrawn before and after it, gives a true receipt,
\* which under the fixed credits the completeness certificate lists at the price that
\* was paid.
CaptureIsBound ==
  /\ CertifiesFour
  /\ ReceiptIsTrue
  /\ completed /\ credits \in FixedCredits => BoundToRecord(Receipt, credits)
=============================================================================
