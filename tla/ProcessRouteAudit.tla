--------------------------- MODULE ProcessRouteAudit ---------------------------
(***************************************************************************)
(* The audit of the process routes anchored to a paid session              *)
(* (process_route_stress_fixture/check_fixture_v2.py): each route declares *)
(* its events, its returns and its costs; the audit recomputes the order,  *)
(* the bindings and both costs and takes the floor over the routes.        *)
(***************************************************************************)
EXTENDS Integers, FiniteSetsExt, SequencesExt

CONSTANTS Debit,        \* the amount of the transfer and the target g
          Rebate,       \* the part of it the rebated route gives back
          Operators,    \* the operators the receipt selected
          PaymentBlock  \* the block the receipt names

DebitId == "ope-payment-receipt"
Confirmations == 1

\* The events of a successful session, in order (model.v2.json).
CleanEvents ==
    <<[type |-> "Request"],
      [type |-> "Transfer", sender |-> "A", receiver |-> "S", amount |-> Debit,
       debit |-> DebitId],
      [type |-> "Finalize", block |-> PaymentBlock, confirmations |-> 1],
      [type |-> "Respond", operators |-> Operators],
      [type |-> "Deliver", valid |-> TRUE]>>

Return(amount, kind) == [amount |-> amount, kind |-> kind, debit |-> DebitId]

\* A route whose process returns are the sequence "returns".
Route(returns) ==
    [events |-> [i \in 1 .. 5 + Len(returns) |->
                   IF i <= 5 THEN [position |-> i - 1, event |-> CleanEvents[i]]
                   ELSE [position |-> i - 1,
                         event |-> [type |-> "Return", item |-> returns[i - 5]]]],
     contractReturns |-> <<>>,
     processReturns |-> returns,
     contractCost |-> Debit,
     processCost |-> Debit - (IF returns = <<>> THEN 0 ELSE returns[1].amount)]

Clean == Route(<<>>)
Rebated == Route(<<Return(Rebate, "same-session-rebate")>>)
CrossReturned == Route(<<Return(Debit, "cross-session-return")>>)
Routes == {Clean, Rebated, CrossReturned}

Sum(returns) == FoldLeft(LAMBDA n, r : n + r.amount, 0, returns)
Cost(events, returns) ==
    LET transfer == CHOOSE e \in ToSet(events) : e.event.type = "Transfer"
    IN  Max({0, transfer.event.amount - Sum(returns)})

ReturnsIn(events) ==
    LET found == SelectSeq(events, LAMBDA e : e.event.type = "Return")
    IN  [i \in DOMAIN found |-> found[i].event.item]

EventIndex(events, type) ==
    Min({e.position : e \in {x \in ToSet(events) : x.event.type = type}})

Named(events, type) ==
    LET i == Min({j \in DOMAIN events : events[j].event.type = type})
    IN  events[i].event

HasEveryEvent(events) ==
    \A type \in {"Request", "Transfer", "Finalize", "Respond", "Deliver"} :
        \E e \in ToSet(events) : e.event.type = type

InOrder(events) ==
    /\ EventIndex(events, "Request") < EventIndex(events, "Transfer")
    /\ EventIndex(events, "Transfer") < EventIndex(events, "Finalize")
    /\ EventIndex(events, "Finalize") < EventIndex(events, "Respond")
    /\ EventIndex(events, "Respond") < EventIndex(events, "Deliver")

Bound(events) ==
    LET transfer == Named(events, "Transfer")
        finalize == Named(events, "Finalize") IN
    /\ transfer.sender = "A" /\ transfer.receiver = "S"
    /\ transfer.amount = Debit /\ transfer.debit = DebitId
    /\ finalize.block = PaymentBlock /\ finalize.confirmations >= Confirmations
    /\ Named(events, "Respond").operators = Operators
    /\ Named(events, "Deliver").valid

\* Faulty variant, for a mutation test: returns are linked but not matched.
ReturnsLinked(route) ==
    \A i \in DOMAIN route.processReturns :
        route.processReturns[i].debit = Named(route.events, "Transfer").debit

ReturnsListed(route) ==
    /\ ReturnsIn(route.events) = route.processReturns
    /\ \A i \in DOMAIN route.processReturns :
          route.processReturns[i].debit = Named(route.events, "Transfer").debit

\* validate_route accepts the route.
Accepts(route) ==
    LET events == route.events IN
    /\ \A i \in DOMAIN events : events[i].position = i - 1
    /\ HasEveryEvent(events) /\ InOrder(events) /\ Bound(events)
    /\ ReturnsListed(route)
    /\ route.contractCost = Cost(events, route.contractReturns)
    /\ route.processCost = Cost(events, route.processReturns)

ContractFloor == Min({Cost(r.events, r.contractReturns) : r \in Routes})
ProcessFloor == Min({Cost(r.events, r.processReturns) : r \in Routes})
Verdict == IF ProcessFloor < Debit THEN "MODEL-REFUTED" ELSE "CERTIFIED"

-----------------------------------------------------------------------------
Renumbered(route) ==
    [route EXCEPT !.events = [i \in DOMAIN @ |-> [@[i] EXCEPT !.position = i - 1]]]

\* One event dropped, replaced by a delivery, or swapped with the next one; one
\* return or one cost declared otherwise.  Positions are rewritten or not, as the
\* controls of the script do both.
Tampered(route) ==
    LET events == route.events
        delivery(i) == [position |-> events[i].position,
                        event |-> [type |-> "Deliver", valid |-> TRUE]]
        reordered ==
            {[route EXCEPT !.events = RemoveAt(events, i)] : i \in DOMAIN events}
            \cup {[route EXCEPT !.events = ReplaceAt(events, i, delivery(i))] :
                     i \in DOMAIN events}
            \cup {[route EXCEPT !.events =
                     ReplaceAt(ReplaceAt(events, i, events[i + 1]), i + 1, events[i])] :
                     i \in 1 .. Len(events) - 1}
    IN  reordered \cup {Renumbered(r) : r \in reordered}
        \cup {[route EXCEPT !.processReturns = <<>>]}
        \cup {[route EXCEPT !.processCost = c] : c \in 0 .. Debit}

\* What a route really costs the payer: the debit less every return among its events.
TrueCost(route) == Max({0, Debit - Sum(ReturnsIn(route.events))})

\* Property: the audit accepts the three routes and no tampered record whose cost
\* is not the true one or whose delivery is not final; and the verdict is refuted
\* exactly when a route gives the payer something back, which the costs of the
\* contract alone do not show.
RoutesAreTrue ==
    /\ \A r \in Routes : Accepts(r)
    /\ \A r \in Routes : \A t \in Tampered(r) : Accepts(t) =>
          /\ t.processCost = TrueCost(t)
          /\ \A i, j \in DOMAIN t.events :
                t.events[i].event.type = "Finalize" /\ t.events[j].event.type = "Deliver"
                    => i < j
    /\ ContractFloor = Debit
    /\ Verdict = "CERTIFIED" <=> \A r \in Routes : ReturnsIn(r.events) = <<>>
=============================================================================
