--------------------- MODULE PrefundedThresholdExchange ---------------------
(***************************************************************************)
(* The contract PrefundedThresholdExchange: a buyer prefunds an order that *)
(* names the members of a threshold set and what each of them is paid;     *)
(* each member submits a share that the verifier approves and is credited; *)
(* credits are drawn later.  There is no cancellation and no refund.       *)
(*                                                                         *)
(* The registry and the verifier are other contracts.  The registry's      *)
(* answer is a constant relation; what the verifier says of a share is not *)
(* constrained, so an approved share may be submitted at any time or never.*)
(*                                                                         *)
(* A call that reverts leaves no trace: only successful calls are steps.   *)
(* withdrawCredit is split where the recipient's code runs; openOrder and  *)
(* submitShare do not look at the flag and may run in between.             *)
(***************************************************************************)
EXTENDS Amounts, Sequences

CONSTANTS
  Accounts,       \* buyers and members
  ThresholdSets,  \* [buyer, members] that the registry admits
  Prices,         \* what an order may promise a member
  Values,         \* the values that buyers may send along
  MaxMembers,     \* bound: members of an order
  MaxOrders       \* bound: orders opened

ASSUME ExchangeConstants ==
  /\ IsFiniteSet(Accounts)
  /\ ThresholdSets \subseteq [buyer : Accounts, members : SUBSET Accounts]
  /\ Prices \subseteq Nat
  /\ Values \subseteq Nat
  /\ MaxMembers \in Nat
  /\ MaxOrders \in Nat

VARIABLES
  orders,       \* in the order of their nonces, which name them
  credit,
  balance,      \* the ether the contract holds
  withdrawing,  \* inside the call of a withdrawal
  paid          \* history: what each account has drawn

vars == <<orders, credit, balance, withdrawing, paid>>

-----------------------------------------------------------------------------
(* Faulty variants of the definitions below, for mutation tests.           *)

LessIsEnough(value, total) == value <= total

RepeatsAllowed(members) == TRUE

Overwritten(a, amount) == amount

OneIsMissing(order) == order.accepted + 1 >= order.memberCount

-----------------------------------------------------------------------------
Init ==
  /\ orders = << >>
  /\ credit = [a \in Accounts |-> 0]
  /\ balance = 0
  /\ withdrawing = FALSE
  /\ paid = [a \in Accounts |-> 0]

NoRepeats(members) == \A i, j \in DOMAIN members : members[i] = members[j] => i = j

ExactValue(value, total) == value = total

\* The loop that writes promised[orderId]: a later entry wins.
Promised(members, amounts) ==
  [a \in Accounts |->
     IF a \notin {members[i] : i \in DOMAIN members} THEN 0
     ELSE amounts[CHOOSE i \in DOMAIN members :
                    members[i] = a /\ \A j \in DOMAIN members : members[j] = a => j <= i]]

Lists(S) == UNION {[1 .. n -> S] : n \in 1 .. MaxMembers}

OpenOrder(buyer, value) ==
  /\ Len(orders) < MaxOrders
  /\ \E members \in Lists(Accounts), amounts \in Lists(Prices) :
       /\ Len(members) = Len(amounts)
       /\ [buyer |-> buyer, members |-> {members[i] : i \in DOMAIN members}] \in ThresholdSets
       /\ \A i \in DOMAIN amounts : amounts[i] # 0
       /\ NoRepeats(members)
       /\ ExactValue(value, Total(amounts))
       /\ orders' = Append(orders,
            [buyer |-> buyer, accepted |-> 0, memberCount |-> Len(members),
             prefunded |-> Total(amounts), successful |-> FALSE,
             promised |-> Promised(members, amounts), acceptedFrom |-> {}])
  /\ balance' = balance + value
  /\ UNCHANGED <<credit, withdrawing, paid>>

Complete(order) == order.accepted = order.memberCount

\* The member's credit after its share was accepted.
Credited(a, amount) == credit[a] + amount

SubmitShare(id, a) ==
  /\ id \in DOMAIN orders
  /\ orders[id].promised[a] # 0
  /\ a \notin orders[id].acceptedFrom
  /\ LET taken == [orders[id] EXCEPT !.accepted = @ + 1, !.acceptedFrom = @ \cup {a}]
     IN  orders' =
           [orders EXCEPT ![id] = [taken EXCEPT !.successful = @ \/ Complete(taken)]]
  /\ credit' = [credit EXCEPT ![a] = Credited(a, orders[id].promised[a])]
  /\ UNCHANGED <<balance, withdrawing, paid>>

WithdrawCredit(a) ==
  /\ ~withdrawing
  /\ credit[a] # 0
  /\ credit' = [credit EXCEPT ![a] = 0]
  /\ balance' = balance - credit[a]
  /\ paid' = [paid EXCEPT ![a] = @ + credit[a]]
  /\ withdrawing' = TRUE
  /\ UNCHANGED orders

ReturnFromTransfer ==
  /\ withdrawing
  /\ withdrawing' = FALSE
  /\ UNCHANGED <<orders, credit, balance, paid>>

Next ==
  \/ \E buyer \in Accounts, value \in Values : OpenOrder(buyer, value)
  \/ \E id \in 1 .. MaxOrders, a \in Accounts : SubmitShare(id, a)
  \/ \E a \in Accounts : WithdrawCredit(a)
  \/ ReturnFromTransfer

Spec == Init /\ [][Next]_vars

-----------------------------------------------------------------------------
(* Properties.                                                             *)

\* What an order has credited to its members, and what it has left to pay.
EarnedFrom(order) ==
  [a \in Accounts |-> IF a \in order.acceptedFrom THEN order.promised[a] ELSE 0]

LeftIn(order) ==
  [a \in Accounts |-> IF a \in order.acceptedFrom THEN 0 ELSE order.promised[a]]

OrderRecords ==
  [buyer : Accounts, accepted : Nat, memberCount : Nat, prefunded : Nat,
   successful : BOOLEAN, promised : [Accounts -> Nat], acceptedFrom : SUBSET Accounts]

\* The types; the contract never sends ether it does not hold.
TypeOK ==
  /\ orders \in Seq(OrderRecords)
  /\ credit \in [Accounts -> Nat]
  /\ balance \in Nat
  /\ withdrawing \in BOOLEAN
  /\ paid \in [Accounts -> Nat]

\* The ether held is what the orders have left to pay plus what is credited
\* and not yet drawn, also when orders are opened and shares are submitted
\* in the middle of a withdrawal.
Solvency ==
  balance = Total([id \in DOMAIN orders |-> Total(LeftIn(orders[id]))]) + Total(credit)

\* A member gets what the orders promised it, once for each order it served,
\* however its shares and withdrawals interleave; nobody gets anything else.  An
\* order is successful exactly when its whole prefunding was credited.
PaidAsPromised ==
  /\ \A a \in Accounts :
       credit[a] + paid[a] = Total([id \in DOMAIN orders |-> EarnedFrom(orders[id])[a]])
  /\ \A id \in DOMAIN orders :
       orders[id].successful <=> Total(EarnedFrom(orders[id])) = orders[id].prefunded

\* What the repository's README says of the contract: a member draws money
\* only after the threshold set of one of its orders is complete.
WithdrawnAfterCompletion ==
  \A a \in Accounts :
    paid[a] # 0 =>
      \E id \in DOMAIN orders : a \in orders[id].acceptedFrom /\ orders[id].successful
-----------------------------------------------------------------------------
(* What makes the properties inductive.                                    *)

\* The members of an order are those it promises something.
MembersOf(order) == {a \in Accounts : order.promised[a] # 0}

\* An order keeps the account of its opening: the prefunding is what it
\* promises, the counts are those of its members and of those accepted, and it
\* is successful as soon as, and only if, all of them are.
AsOpened(order) ==
  /\ order.prefunded = Total(order.promised)
  /\ order.memberCount = Cardinality(MembersOf(order))
  /\ order.acceptedFrom \subseteq MembersOf(order)
  /\ order.accepted = Cardinality(order.acceptedFrom)
  /\ order.successful <=> order.acceptedFrom = MembersOf(order)

OrdersAsOpened == \A id \in DOMAIN orders : AsOpened(orders[id])

XInv == TypeOK /\ OrdersAsOpened /\ Solvency /\ PaidAsPromised
=============================================================================
