-------------------------- MODULE PaidOrdersProofs --------------------------
(***************************************************************************)
(* Proofs about the two parts that sell threshold responses against        *)
(* prefunded orders.                                                       *)
(*                                                                         *)
(* The exchange contract stays solvent and pays its members what was       *)
(* promised, for all accounts, threshold sets, prices and orders.  The     *)
(* inductive invariant is XInv.  That an order is successful exactly when  *)
(* its whole prefunding was credited is not inductive by itself: it        *)
(* follows from the account that OrdersAsOpened keeps of each order.       *)
(*                                                                         *)
(* The single-host experiment keeps the books of an order, returns what    *)
(* the call computes although its workers may die, and judges it truly,    *)
(* for all committees, prices and calls.  The inductive invariant is       *)
(* ServiceInv: its heart is PipesInOrder, which makes the answer that is   *)
(* read the one that was asked for, and LedgerInOrder, which ties the      *)
(* ledger to the computation.  The computation is a recursive function of  *)
(* the responses; that it is defined, and how it unfolds, follows from a   *)
(* least counterexample (LedgersExist, LedgerCharged).                     *)
(***************************************************************************)
EXTENDS PrefundedThresholdExchange, ThresholdResponseService, AmountsProofs, SequenceTheorems

-----------------------------------------------------------------------------
(* Facts about one order.                                                  *)

\* What an order has credited and what it has left to pay make up what it
\* promises.
LEMMA LeftAndEarned ==
  ASSUME NEW order \in OrderRecords
  PROVE  /\ EarnedFrom(order) \in [Accounts -> Nat]
         /\ LeftIn(order) \in [Accounts -> Nat]
         /\ Total(EarnedFrom(order)) \in Nat
         /\ Total(LeftIn(order)) \in Nat
         /\ Total(order.promised) = Total(EarnedFrom(order)) + Total(LeftIn(order))
<1>. DEFINE E == EarnedFrom(order)
            L == LeftIn(order)
<1>1. order.promised \in [Accounts -> Nat]
  BY DEF OrderRecords
<1>2. E \in [Accounts -> Nat] /\ L \in [Accounts -> Nat]
  BY <1>1 DEF EarnedFrom, LeftIn
<1>3. order.promised = [a \in Accounts |-> E[a] + L[a]]
  BY <1>1 DEF EarnedFrom, LeftIn
<1>. HIDE DEF E, L
<1>4. Total([a \in Accounts |-> E[a] + L[a]]) = Total(E) + Total(L)
  BY <1>2, ExchangeConstants, TotalSum
<1>5. Total(E) \in Nat /\ Total(L) \in Nat
  BY <1>2, ExchangeConstants, TotalType
<1>6. QED
  BY <1>2, <1>3, <1>4, <1>5 DEF E, L

\* The whole prefunding is credited when, and only when, every member was
\* accepted.
LEMMA WholePrefunding ==
  ASSUME NEW order \in OrderRecords, order.acceptedFrom \subseteq MembersOf(order)
  PROVE  order.acceptedFrom = MembersOf(order)
           <=> Total(EarnedFrom(order)) = Total(order.promised)
<1>. DEFINE L == LeftIn(order)
<1>1. order.promised \in [Accounts -> Nat] /\ order.acceptedFrom \subseteq Accounts
  BY DEF OrderRecords
<1>2. /\ L \in [Accounts -> Nat]
      /\ Total(EarnedFrom(order)) \in Nat /\ Total(L) \in Nat
      /\ Total(order.promised) = Total(EarnedFrom(order)) + Total(L)
  BY LeftAndEarned
<1>3. (\A a \in Accounts : L[a] = 0) <=> order.acceptedFrom = MembersOf(order)
  BY <1>1 DEF LeftIn, MembersOf
<1>. HIDE DEF L
<1>4. (\A a \in Accounts : L[a] = 0) => Total(L) = 0
  BY <1>2, ExchangeConstants, TotalZero, TotalOnAll
<1>5. Total(L) = 0 => \A a \in Accounts : L[a] = 0
  <2>. SUFFICES ASSUME Total(L) = 0, NEW a \in Accounts PROVE L[a] = 0
    OBVIOUS
  <2>1. L[a] <= Total(L) /\ L[a] \in Nat
    BY <1>2, ExchangeConstants, KeyAtMostTotal
  <2>2. QED
    BY <2>1
<1>6. Total(L) = 0 <=> Total(EarnedFrom(order)) = Total(order.promised)
  BY <1>2
<1>7. QED
  BY <1>3, <1>4, <1>5, <1>6

\* An accepted share moves the member's amount from what is left to what is
\* credited.
LEMMA ShareMoves ==
  ASSUME NEW order \in OrderRecords, NEW next \in OrderRecords, NEW a \in Accounts,
         a \notin order.acceptedFrom,
         next.promised = order.promised,
         next.acceptedFrom = order.acceptedFrom \cup {a}
  PROVE  /\ Total(LeftIn(next)) = Total(LeftIn(order)) - order.promised[a]
         /\ EarnedFrom(next)[a] = EarnedFrom(order)[a] + order.promised[a]
         /\ \A b \in Accounts \ {a} : EarnedFrom(next)[b] = EarnedFrom(order)[b]
<1>1. order.promised \in [Accounts -> Nat]
  BY DEF OrderRecords
<1>2. /\ LeftIn(order)[a] = order.promised[a] /\ LeftIn(next)[a] = 0
      /\ \A b \in Accounts \ {a} : LeftIn(next)[b] = LeftIn(order)[b]
  BY DEF LeftIn
<1>3. LeftIn(order) \in [Accounts -> Nat] /\ LeftIn(next) \in [Accounts -> Nat]
  BY LeftAndEarned
<1>4. Total(LeftIn(next)) = Total(LeftIn(order)) - LeftIn(order)[a] + LeftIn(next)[a]
  BY <1>2, <1>3, ExchangeConstants, TotalUpdate
<1>5. Total(LeftIn(order)) \in Nat /\ order.promised[a] \in Nat
  BY <1>1, LeftAndEarned
<1>6. Total(LeftIn(next)) = Total(LeftIn(order)) - order.promised[a]
  BY <1>2, <1>4, <1>5
<1>7. /\ EarnedFrom(next)[a] = EarnedFrom(order)[a] + order.promised[a]
      /\ \A b \in Accounts \ {a} : EarnedFrom(next)[b] = EarnedFrom(order)[b]
  BY <1>1 DEF EarnedFrom
<1>8. QED
  BY <1>6, <1>7

\* The loop that writes the promises of an order whose members do not repeat
\* promises each member its own amount and nobody else anything.
LEMMA PromisesOfMembers ==
  ASSUME NEW members \in Lists(Accounts), NEW amounts \in Lists(Prices),
         Len(members) = Len(amounts), \A i \in DOMAIN amounts : amounts[i] # 0,
         NoRepeats(members)
  PROVE  LET p == Promised(members, amounts)
             called == {members[i] : i \in DOMAIN members}
         IN  /\ p \in [Accounts -> Nat]
             /\ Total(amounts) = Total(p)
             /\ Total(amounts) \in Nat
             /\ {a \in Accounts : p[a] # 0} = called
             /\ Len(members) \in Nat
             /\ Cardinality(called) = Len(members)
<1>. DEFINE p == Promised(members, amounts)
            called == {members[i] : i \in DOMAIN members}
<1>1. PICK n \in 1 .. MaxMembers : members \in [1 .. n -> Accounts]
  BY DEF Lists
<1>2. PICK m \in 1 .. MaxMembers : amounts \in [1 .. m -> Prices]
  BY DEF Lists
<1>3. n \in Nat /\ m \in Nat /\ Len(members) = n /\ Len(amounts) = m /\ n = m
  BY <1>1, <1>2, ExchangeConstants
<1>4. /\ DOMAIN members = 1 .. n /\ DOMAIN amounts = 1 .. n
      /\ amounts \in [1 .. n -> Nat] /\ members \in [1 .. n -> Accounts]
      /\ \A i \in 1 .. n : members[i] \in Accounts /\ amounts[i] \in Nat /\ amounts[i] # 0
      /\ called \in SUBSET Accounts
  BY <1>1, <1>2, <1>3, ExchangeConstants
<1>5. \A i, j \in 1 .. n : members[i] = members[j] => i = j
  BY <1>4 DEF NoRepeats
<1>6. ASSUME NEW i \in 1 .. n
      PROVE  p[members[i]] = amounts[i]
  <2>1. \A j \in DOMAIN members : members[j] = members[i] => j = i
    BY <1>4, <1>5
  <2>2. i = CHOOSE k \in DOMAIN members :
              members[k] = members[i] /\ \A j \in DOMAIN members : members[j] = members[i] => j <= k
    <3>1. /\ i \in DOMAIN members
          /\ \A j \in DOMAIN members : members[j] = members[i] => j <= i
      BY <1>4, <2>1
    <3>2. QED
      BY <2>1, <3>1
  <2>3. members[i] \in called /\ members[i] \in Accounts
    BY <1>4
  <2>4. QED
    BY <2>2, <2>3 DEF Promised
<1>7. \A a \in Accounts \ called : p[a] = 0
  BY DEF Promised
<1>8. p \in [Accounts -> Nat]
  <2>1. \A a \in Accounts : p[a] \in Nat
    BY <1>4, <1>6, <1>7
  <2>2. p = [a \in Accounts |-> p[a]]
    BY DEF Promised
  <2>3. QED
    BY <2>1, <2>2
<1>9. {a \in Accounts : p[a] # 0} = called
  BY <1>4, <1>6, <1>7
<1>. HIDE DEF p
<1>10. IsFiniteSet(1 .. n) /\ Cardinality(1 .. n) = n
  BY <1>3, FS_Interval
<1>11. Total(amounts) = Total(p)
  <2>1. amounts = [i \in 1 .. n |-> p[members[i]]]
    BY <1>4, <1>6
  <2>2. Total([i \in 1 .. n |-> p[members[i]]]) = TotalOn(p, {members[i] : i \in 1 .. n})
    <3>. DEFINE I == 1 .. n
    <3>1. IsFiniteSet(I) /\ members \in [I -> Accounts]
          /\ \A i, j \in I : members[i] = members[j] => i = j
      BY <1>4, <1>5, <1>10
    <3>. HIDE DEF I
    <3>2. Total([i \in I |-> p[members[i]]]) = TotalOn(p, {members[i] : i \in I})
      BY <1>8, <3>1, TotalRenamed
    <3>. QED
      BY <3>2 DEF I
  <2>3. Total(p) = TotalOn(p, called) + TotalOn(p, Accounts \ called)
    BY <1>4, <1>8, ExchangeConstants, TotalSplit
  <2>4. TotalOn(p, Accounts \ called) = 0
    BY <1>7, <1>8, TotalZero
  <2>5. TotalOn(p, called) \in Nat
    BY <1>4, <1>8, ExchangeConstants, TotalSplit
  <2>6. TotalOn(p, {members[i] : i \in 1 .. n}) = TotalOn(p, called)
    BY <1>4
  <2>7. QED
    BY <2>1, <2>2, <2>3, <2>4, <2>5, <2>6
<1>12. Total(p) \in Nat
  BY <1>8, ExchangeConstants, TotalType
<1>13. Cardinality(called) = n
  <2>1. members \in [1 .. n -> called]
    BY <1>4
  <2>2. \A b \in called : \E i \in 1 .. n : members[i] = b
    BY <1>4
  <2>3. members \in Bijection(1 .. n, called)
    BY <1>5, <2>1, <2>2 DEF Bijection, Injection, Surjection, IsInjective
  <2>4. QED
    BY <1>10, <2>3, FS_Bijection DEF ExistsBijection
<1>14. QED
  BY <1>3, <1>8, <1>9, <1>11, <1>12, <1>13 DEF p

\* The second half of PaidAsPromised follows from the accounts of the orders.
LEMMA SuccessMeansPaid ==
  ASSUME NEW order \in OrderRecords, AsOpened(order)
  PROVE  order.successful <=> Total(EarnedFrom(order)) = order.prefunded
BY WholePrefunding DEF AsOpened

-----------------------------------------------------------------------------
(* The invariant and the calls.                                            *)

\* The state of an order, as the invariant gives it.
LEMMA OrderState ==
  ASSUME XInv, NEW id \in DOMAIN orders
  PROVE  /\ orders[id] \in OrderRecords
         /\ DOMAIN orders = 1 .. Len(orders) /\ Len(orders) \in Nat
         /\ IsFiniteSet(DOMAIN orders)
         /\ orders[id].promised \in [Accounts -> Nat]
         /\ orders[id].acceptedFrom \subseteq Accounts
<1>1. orders \in Seq(OrderRecords)
  BY DEF XInv, TypeOK
<1>2. DOMAIN orders = 1 .. Len(orders) /\ Len(orders) \in Nat
  BY <1>1, LenProperties
<1>3. IsFiniteSet(DOMAIN orders)
  BY <1>2, FS_Interval
<1>4. orders[id] \in OrderRecords
  BY <1>1, <1>2, ElementOfSeq
<1>5. QED
  BY <1>2, <1>3, <1>4 DEF OrderRecords

\* Before any order nothing is held, owed or paid.
LEMMA InitXInv == Init => XInv
<1>. SUFFICES ASSUME Init PROVE XInv
  OBVIOUS
<1>1. DOMAIN orders = {}
  BY DEF Init
<1>2. \A f : DOMAIN f = {} => Total(f) = 0
  <2>1. \A f : DOMAIN f = {} => Units(f) = {}
    BY DEF Units
  <2>2. QED
    BY <2>1, FS_EmptySet DEF Total
<1>3. Total(credit) = 0
  BY ExchangeConstants, TotalZero, TotalOnAll DEF Init
<1>4. TypeOK
  BY EmptySeq DEF Init, TypeOK
<1>5. Total([id \in DOMAIN orders |-> Total(LeftIn(orders[id]))]) = 0
  BY <1>1, <1>2
<1>6. \A a \in Accounts : Total([id \in DOMAIN orders |-> EarnedFrom(orders[id])[a]]) = 0
  BY <1>1, <1>2
<1>7. Solvency
  BY <1>3, <1>5 DEF Init, Solvency
<1>8. PaidAsPromised
  BY <1>1, <1>6 DEF Init, PaidAsPromised
<1>9. OrdersAsOpened
  BY <1>1 DEF OrdersAsOpened
<1>10. QED
  BY <1>4, <1>7, <1>8, <1>9 DEF XInv

\* openOrder: what the buyer brings in is what its order still has to credit.
LEMMA OpenOrderXInv ==
  ASSUME XInv, NEW buyer \in Accounts, NEW value \in Values, OpenOrder(buyer, value)
  PROVE  XInv'
<1>. DEFINE D == DOMAIN orders
            n == Len(orders) + 1
            left == [id \in DOMAIN orders |-> Total(LeftIn(orders[id]))]
            earned(a) == [id \in DOMAIN orders |-> EarnedFrom(orders[id])[a]]
<1>1. TypeOK /\ OrdersAsOpened /\ Solvency /\ PaidAsPromised
  BY DEF XInv
<1>2. PICK members \in Lists(Accounts), amounts \in Lists(Prices) :
        /\ Len(members) = Len(amounts)
        /\ [buyer |-> buyer, members |-> {members[i] : i \in DOMAIN members}] \in ThresholdSets
        /\ \A i \in DOMAIN amounts : amounts[i] # 0
        /\ NoRepeats(members)
        /\ ExactValue(value, Total(amounts))
        /\ orders' = Append(orders,
             [buyer |-> buyer, accepted |-> 0, memberCount |-> Len(members),
              prefunded |-> Total(amounts), successful |-> FALSE,
              promised |-> Promised(members, amounts), acceptedFrom |-> {}])
  BY DEF OpenOrder
<1>. DEFINE p == Promised(members, amounts)
            new == [buyer |-> buyer, accepted |-> 0, memberCount |-> Len(members),
                    prefunded |-> Total(amounts), successful |-> FALSE,
                    promised |-> p, acceptedFrom |-> {}]
<1>3. /\ p \in [Accounts -> Nat]
      /\ Total(amounts) = Total(p) /\ Total(amounts) \in Nat
      /\ {a \in Accounts : p[a] # 0} = {members[i] : i \in DOMAIN members}
      /\ Len(members) \in Nat
      /\ Cardinality({members[i] : i \in DOMAIN members}) = Len(members)
  BY <1>2, PromisesOfMembers
<1>4. /\ value = Total(p) /\ orders' = Append(orders, new)
      /\ balance' = balance + value /\ UNCHANGED <<credit, withdrawing, paid>>
  BY <1>2, <1>3 DEF OpenOrder, ExactValue
<1>5. /\ new.promised = p /\ new.acceptedFrom = {} /\ new.accepted = 0
      /\ new.memberCount = Len(members) /\ new.prefunded = Total(p) /\ ~new.successful
      /\ new \in OrderRecords
  BY <1>3 DEF OrderRecords
<1>. HIDE DEF p, new
<1>6. /\ orders \in Seq(OrderRecords) /\ Len(orders) \in Nat /\ D = 1 .. Len(orders)
      /\ IsFiniteSet(D)
  <2>1. orders \in Seq(OrderRecords)
    BY <1>1 DEF TypeOK
  <2>2. QED
    BY <2>1, LenProperties, FS_Interval
<1>7. /\ orders' \in Seq(OrderRecords) /\ DOMAIN orders' = D \cup {n} /\ n \notin D
      /\ orders'[n] = new /\ \A id \in D : orders'[id] = orders[id]
  <2>1. /\ orders' \in Seq(OrderRecords) /\ Len(orders') = n
        /\ orders'[n] = new /\ \A id \in 1 .. Len(orders) : orders'[id] = orders[id]
    BY <1>4, <1>5, <1>6
  <2>2. DOMAIN orders' = 1 .. n
    BY <2>1, LenProperties
  <2>3. QED
    BY <1>6, <2>1, <2>2
<1>8. \A id \in D : orders[id] \in OrderRecords
  BY <1>6, ElementOfSeq
<1>9. /\ Total(LeftIn(new)) = Total(p) /\ Total(LeftIn(new)) \in Nat
      /\ \A a \in Accounts : EarnedFrom(new)[a] = 0
  <2>1. \A a \in Accounts : EarnedFrom(new)[a] = 0
    BY <1>5 DEF EarnedFrom
  <2>2. Total(EarnedFrom(new)) = 0
    BY <1>5, <2>1, LeftAndEarned, ExchangeConstants, TotalZero, TotalOnAll
  <2>3. /\ Total(new.promised) = Total(EarnedFrom(new)) + Total(LeftIn(new))
        /\ Total(LeftIn(new)) \in Nat
    BY <1>5, LeftAndEarned
  <2>4. QED
    BY <1>5, <2>1, <2>2, <2>3
<1>10. AsOpened(new)
  <2>1. MembersOf(new) = {members[i] : i \in DOMAIN members}
    BY <1>3, <1>5 DEF MembersOf
  <2>2. Len(members) # 0
    <3>1. PICK m \in 1 .. MaxMembers : members \in [1 .. m -> Accounts]
      BY DEF Lists
    <3>2. QED
      BY <3>1, ExchangeConstants
  <2>3. MembersOf(new) # {}
    BY <1>3, <2>1, <2>2, FS_EmptySet
  <2>4. QED
    BY <1>3, <1>5, <2>1, <2>3, FS_EmptySet DEF AsOpened
<1>11. OrdersAsOpened'
  BY <1>1, <1>7, <1>10 DEF OrdersAsOpened
<1>. HIDE DEF n
<1>12. \A f \in [D -> Nat], g \in [D \cup {n} -> Nat] :
         (\A id \in D : g[id] = f[id]) => Total(g) = Total(f) + g[n]
  <2>1. IsFiniteSet(D) /\ n \notin D
    BY <1>6, <1>7
  <2>. HIDE DEF D
  <2>2. QED
    BY <2>1, TotalOneMore
<1>13. /\ Total(left') = Total(left) + Total(LeftIn(new))
       /\ Total(left) \in Nat
  <2>1. left \in [D -> Nat] /\ left' \in [D \cup {n} -> Nat]
    BY <1>5, <1>7, <1>8, LeftAndEarned
  <2>2. left'[n] = Total(LeftIn(new)) /\ \A id \in D : left'[id] = left[id]
    BY <1>7
  <2>. HIDE DEF left, D, n
  <2>3. Total(left') = Total(left) + left'[n]
    BY <1>12, <2>1, <2>2
  <2>4. Total(left) \in Nat
    BY <1>6, <2>1, TotalType
  <2>5. QED
    BY <2>2, <2>3, <2>4
<1>14. ASSUME NEW a \in Accounts
       PROVE  Total(earned(a)') = Total(earned(a))
  <2>1. earned(a) \in [D -> Nat] /\ earned(a)' \in [D \cup {n} -> Nat]
    BY <1>5, <1>7, <1>8, LeftAndEarned
  <2>2. earned(a)'[n] = 0 /\ \A id \in D : earned(a)'[id] = earned(a)[id]
    BY <1>7, <1>9
  <2>3. Total(earned(a)) \in Nat
    BY <1>6, <2>1, TotalType
  <2>. HIDE DEF earned, D, n
  <2>4. Total(earned(a)') = Total(earned(a)) + earned(a)'[n]
    BY <1>12, <2>1, <2>2
  <2>5. QED
    BY <2>2, <2>3, <2>4
<1>15. credit \in [Accounts -> Nat] /\ Total(credit) \in Nat
       /\ balance = Total(left) + Total(credit)
  BY <1>1, ExchangeConstants, TotalType DEF TypeOK, Solvency
<1>16. Solvency'
  <2>1. balance' = Total(left') + Total(credit)
    <3>. HIDE DEF left
    <3>. QED
      BY <1>4, <1>9, <1>13, <1>15
  <2>2. QED
    BY <1>4, <2>1 DEF Solvency
<1>17. TypeOK'
  <2>1. balance' \in Nat
    BY <1>1, <1>3, <1>4 DEF TypeOK
  <2>2. QED
    BY <1>1, <1>4, <1>7, <2>1 DEF TypeOK
<1>18. PaidAsPromised'
  <2>1. \A a \in Accounts : credit[a] + paid[a] = Total(earned(a)')
    BY <1>1, <1>14 DEF PaidAsPromised
  <2>2. \A id \in DOMAIN orders' : orders'[id] \in OrderRecords /\ AsOpened(orders'[id])
    BY <1>1, <1>5, <1>7, <1>8, <1>10 DEF OrdersAsOpened
  <2>3. QED
    BY <1>4, <2>1, <2>2, SuccessMeansPaid DEF PaidAsPromised
<1>19. QED
  BY <1>11, <1>16, <1>17, <1>18 DEF XInv

\* An accepted share completes the order exactly when it is the last one.
LEMMA ShareCompletes ==
  ASSUME NEW order \in OrderRecords, AsOpened(order), NEW a \in Accounts,
         order.promised[a] # 0, a \notin order.acceptedFrom,
         NEW next \in OrderRecords,
         next.promised = order.promised, next.prefunded = order.prefunded,
         next.memberCount = order.memberCount, next.accepted = order.accepted + 1,
         next.acceptedFrom = order.acceptedFrom \cup {a},
         next.successful <=> order.successful \/ next.accepted = next.memberCount
  PROVE  AsOpened(next)
<1>. DEFINE M == MembersOf(order)
<1>1. /\ order.prefunded = Total(order.promised)
      /\ order.memberCount = Cardinality(M)
      /\ order.acceptedFrom \subseteq M
      /\ order.accepted = Cardinality(order.acceptedFrom)
      /\ order.successful <=> order.acceptedFrom = M
  BY DEF AsOpened
<1>2. MembersOf(next) = M /\ a \in M /\ M \subseteq Accounts
  BY DEF MembersOf
<1>3. IsFiniteSet(M) /\ IsFiniteSet(order.acceptedFrom)
  BY <1>1, <1>2, ExchangeConstants, FS_Subset
<1>. HIDE DEF M
<1>4. next.acceptedFrom \subseteq M /\ next.accepted = Cardinality(next.acceptedFrom)
  <2>1. Cardinality(order.acceptedFrom \cup {a}) = Cardinality(order.acceptedFrom) + 1
    BY <1>3, FS_AddElement
  <2>2. next.accepted = Cardinality(order.acceptedFrom) + 1
    BY <1>1
  <2>3. order.acceptedFrom \cup {a} \subseteq M
    BY <1>1, <1>2
  <2>4. QED
    BY <2>1, <2>2, <2>3
<1>5. ~order.successful
  BY <1>1, <1>2
<1>6. next.accepted = next.memberCount <=> next.acceptedFrom = M
  <2>1. Cardinality(M) = Cardinality(next.acceptedFrom) => M = next.acceptedFrom
    BY <1>3, <1>4, FS_Subset
  <2>2. next.accepted = Cardinality(next.acceptedFrom) /\ next.memberCount = Cardinality(M)
    BY <1>1, <1>4
  <2>3. QED
    BY <2>1, <2>2
<1>7. QED
  BY <1>1, <1>2, <1>4, <1>5, <1>6 DEF AsOpened

\* submitShare: the member's price moves from what the order has left to the
\* member's credit, and the last share completes the order.
LEMMA SubmitShareXInv ==
  ASSUME XInv, NEW id \in 1 .. MaxOrders, NEW a \in Accounts, SubmitShare(id, a)
  PROVE  XInv'
<1>. DEFINE D == DOMAIN orders
            order == orders[id]
            next == orders'[id]
            amount == order.promised[a]
            left == [x \in DOMAIN orders |-> Total(LeftIn(orders[x]))]
            earned(b) == [x \in DOMAIN orders |-> EarnedFrom(orders[x])[b]]
<1>1. TypeOK /\ OrdersAsOpened /\ Solvency /\ PaidAsPromised
  BY DEF XInv
<1>2. /\ id \in D /\ amount # 0 /\ a \notin order.acceptedFrom
      /\ credit' = [credit EXCEPT ![a] = credit[a] + amount]
      /\ UNCHANGED <<balance, withdrawing, paid>>
  BY DEF SubmitShare, Credited
<1>3. /\ order \in OrderRecords /\ D = 1 .. Len(orders) /\ Len(orders) \in Nat
      /\ IsFiniteSet(D) /\ amount \in Nat /\ AsOpened(order)
      /\ orders \in Seq(OrderRecords)
  BY <1>1, <1>2, OrderState DEF TypeOK, OrdersAsOpened
<1>4. /\ next \in OrderRecords
      /\ next.promised = order.promised /\ next.prefunded = order.prefunded
      /\ next.memberCount = order.memberCount /\ next.accepted = order.accepted + 1
      /\ next.acceptedFrom = order.acceptedFrom \cup {a}
      /\ next.successful <=> order.successful \/ next.accepted = next.memberCount
      /\ orders' = [orders EXCEPT ![id] = next]
  <2>. DEFINE taken == [order EXCEPT !.accepted = @ + 1, !.acceptedFrom = @ \cup {a}]
              then == [taken EXCEPT !.successful = @ \/ Complete(taken)]
  <2>1. orders' = [orders EXCEPT ![id] = then]
    BY DEF SubmitShare
  <2>2. /\ taken \in OrderRecords
        /\ taken.promised = order.promised /\ taken.prefunded = order.prefunded
        /\ taken.memberCount = order.memberCount /\ taken.accepted = order.accepted + 1
        /\ taken.acceptedFrom = order.acceptedFrom \cup {a}
        /\ taken.successful = order.successful
    <3>1. /\ order.accepted + 1 \in Nat
          /\ order.acceptedFrom \cup {a} \in SUBSET Accounts
      <4>1. order.accepted \in Nat /\ order.acceptedFrom \subseteq Accounts
        BY <1>3 DEF OrderRecords
      <4>2. QED
        BY <4>1
    <3>2. taken = [order EXCEPT !.accepted = order.accepted + 1,
                                !.acceptedFrom = order.acceptedFrom \cup {a}]
      BY <1>3 DEF OrderRecords
    <3>. HIDE DEF taken
    <3>3. QED
      BY <1>3, <3>1, <3>2 DEF OrderRecords
  <2>. HIDE DEF taken
  <2>3. /\ then \in OrderRecords
        /\ then.promised = taken.promised /\ then.prefunded = taken.prefunded
        /\ then.memberCount = taken.memberCount /\ then.accepted = taken.accepted
        /\ then.acceptedFrom = taken.acceptedFrom
        /\ then.successful <=> taken.successful \/ taken.accepted = taken.memberCount
    BY <2>2 DEF OrderRecords, Complete
  <2>. HIDE DEF then
  <2>4. next = then
    BY <1>2, <1>3, <2>1
  <2>5. QED
    BY <2>1, <2>2, <2>3, <2>4
<1>. HIDE DEF next
<1>5. /\ orders' \in Seq(OrderRecords) /\ DOMAIN orders' = D
      /\ \A x \in D \ {id} : orders'[x] = orders[x]
      /\ orders'[id] = next
  BY <1>2, <1>3, <1>4, ExceptSeq
<1>6. AsOpened(next)
  BY <1>2, <1>3, <1>4, ShareCompletes
<1>7. OrdersAsOpened'
  BY <1>1, <1>5, <1>6 DEF OrdersAsOpened
<1>8. \A x \in D : orders[x] \in OrderRecords /\ orders'[x] \in OrderRecords
  BY <1>3, <1>4, <1>5, ElementOfSeq
<1>9. /\ Total(LeftIn(next)) = Total(LeftIn(order)) - amount
      /\ EarnedFrom(next)[a] = EarnedFrom(order)[a] + amount
      /\ \A b \in Accounts \ {a} : EarnedFrom(next)[b] = EarnedFrom(order)[b]
  BY <1>2, <1>3, <1>4, ShareMoves
<1>10. \A f, g \in [D -> Nat] :
         (\A x \in D \ {id} : g[x] = f[x]) => Total(g) = Total(f) - f[id] + g[id]
  <2>. SUFFICES ASSUME NEW f \in [D -> Nat], NEW g \in [D -> Nat],
                       \A x \in D \ {id} : g[x] = f[x]
                PROVE  Total(g) = Total(f) - f[id] + g[id]
    OBVIOUS
  <2>1. IsFiniteSet(D) /\ id \in D
    BY <1>2, <1>3
  <2>. HIDE DEF D
  <2>2. QED
    BY <2>1, TotalUpdate, ZenonT(30)
<1>11. \A f \in [D -> Nat] : Total(f) \in Nat
  BY <1>3, TotalType
<1>12. Total(left') = Total(left) - amount /\ Total(left) \in Nat
  <2>1. left \in [D -> Nat] /\ left' \in [D -> Nat]
    BY <1>5, <1>8, LeftAndEarned
  <2>2. /\ left[id] = Total(LeftIn(order)) /\ left'[id] = Total(LeftIn(next))
        /\ \A x \in D \ {id} : left'[x] = left[x]
    BY <1>2, <1>5
  <2>3. Total(LeftIn(order)) \in Nat
    BY <1>3, LeftAndEarned
  <2>. HIDE DEF left, D, order, amount
  <2>4. Total(left') = Total(left) - left[id] + left'[id] /\ Total(left) \in Nat
    BY <1>10, <1>11, <2>1, <2>2
  <2>5. amount \in Nat
    BY <1>3
  <2>6. QED
    BY <1>9, <2>2, <2>3, <2>4, <2>5
<1>13. ASSUME NEW b \in Accounts
       PROVE  Total(earned(b)') = Total(earned(b)) + (IF b = a THEN amount ELSE 0)
  <2>1. earned(b) \in [D -> Nat] /\ earned(b)' \in [D -> Nat]
    BY <1>5, <1>8, LeftAndEarned
  <2>2. /\ earned(b)[id] = EarnedFrom(order)[b] /\ earned(b)'[id] = EarnedFrom(next)[b]
        /\ \A x \in D \ {id} : earned(b)'[x] = earned(b)[x]
    BY <1>2, <1>5
  <2>3. EarnedFrom(order)[b] \in Nat
    BY <1>3, LeftAndEarned
  <2>. HIDE DEF earned, D, order, amount
  <2>4. /\ Total(earned(b)') = Total(earned(b)) - earned(b)[id] + earned(b)'[id]
        /\ Total(earned(b)) \in Nat
    BY <1>10, <1>11, <2>1, <2>2
  <2>5. amount \in Nat
    BY <1>3
  <2>6. QED
    BY <1>9, <2>2, <2>3, <2>4, <2>5
<1>. HIDE DEF order, amount
<1>14. /\ credit \in [Accounts -> Nat] /\ credit' \in [Accounts -> Nat]
       /\ credit'[a] = credit[a] + amount
       /\ \A b \in Accounts \ {a} : credit'[b] = credit[b]
  BY <1>1, <1>2, <1>3 DEF TypeOK
<1>15. Total(credit') = Total(credit) + amount /\ Total(credit) \in Nat
  <2>1. Total(credit') = Total(credit) - credit[a] + credit'[a]
    BY <1>14, ExchangeConstants, TotalUpdate
  <2>2. Total(credit) \in Nat
    BY <1>14, ExchangeConstants, TotalType
  <2>3. credit[a] \in Nat /\ amount \in Nat
    BY <1>3, <1>14
  <2>4. QED
    BY <1>14, <2>1, <2>2, <2>3
<1>16. Solvency'
  <2>1. balance = Total(left) + Total(credit)
    BY <1>1 DEF Solvency
  <2>2. balance' = Total(left') + Total(credit')
    <3>. HIDE DEF left
    <3>1. amount \in Nat
      BY <1>3
    <3>2. QED
      BY <1>2, <1>12, <1>15, <2>1, <3>1
  <2>3. QED
    BY <2>2 DEF Solvency
<1>17. TypeOK'
  BY <1>1, <1>2, <1>5, <1>14 DEF TypeOK
<1>18. PaidAsPromised'
  <2>1. ASSUME NEW b \in Accounts
        PROVE  credit'[b] + paid[b] = Total(earned(b)')
    <3>1. credit[b] + paid[b] = Total(earned(b))
      BY <1>1 DEF PaidAsPromised
    <3>2. credit[b] \in Nat /\ paid[b] \in Nat /\ amount \in Nat
      BY <1>1, <1>3 DEF TypeOK
    <3>3. credit'[b] = credit[b] + (IF b = a THEN amount ELSE 0)
      BY <1>14, <3>2
    <3>4. Total(earned(b)') = Total(earned(b)) + (IF b = a THEN amount ELSE 0)
      BY <1>13
    <3>. HIDE DEF earned
    <3>5. QED
      BY <3>1, <3>2, <3>3, <3>4
  <2>2. \A x \in DOMAIN orders' : orders'[x] \in OrderRecords /\ AsOpened(orders'[x])
    BY <1>5, <1>7, <1>8 DEF OrdersAsOpened
  <2>3. QED
    BY <1>2, <2>1, <2>2, SuccessMeansPaid DEF PaidAsPromised
<1>19. QED
  BY <1>7, <1>16, <1>17, <1>18 DEF XInv

\* withdrawCredit: the credit is cleared before the ether leaves, so that calls
\* nested in the transfer find the books balanced.
LEMMA WithdrawCreditXInv ==
  ASSUME XInv, NEW a \in Accounts, WithdrawCredit(a)
  PROVE  XInv'
<1>. DEFINE sum == credit[a]
            left == [x \in DOMAIN orders |-> Total(LeftIn(orders[x]))]
<1>1. TypeOK /\ OrdersAsOpened /\ Solvency /\ PaidAsPromised
  BY DEF XInv
<1>2. /\ credit' = [credit EXCEPT ![a] = 0]
      /\ balance' = balance - sum
      /\ paid' = [paid EXCEPT ![a] = paid[a] + sum]
      /\ withdrawing' = TRUE
      /\ orders' = orders
  BY DEF WithdrawCredit
<1>3. /\ credit \in [Accounts -> Nat] /\ paid \in [Accounts -> Nat] /\ sum \in Nat
      /\ credit' \in [Accounts -> Nat] /\ paid' \in [Accounts -> Nat]
      /\ credit'[a] = 0 /\ paid'[a] = paid[a] + sum
      /\ \A b \in Accounts \ {a} : credit'[b] = credit[b] /\ paid'[b] = paid[b]
  BY <1>1, <1>2 DEF TypeOK
<1>4. /\ Total(credit') = Total(credit) - sum
      /\ Total(credit) \in Nat /\ Total(credit') \in Nat
  <2>1. Total(credit') = Total(credit) - credit[a] + credit'[a]
    BY <1>3, ExchangeConstants, TotalUpdate
  <2>2. Total(credit) \in Nat /\ Total(credit') \in Nat
    BY <1>3, ExchangeConstants, TotalType
  <2>3. QED
    BY <1>3, <2>1, <2>2
<1>5. balance = Total(left) + Total(credit) /\ Total(left) \in Nat
  <2>1. orders \in Seq(OrderRecords)
    BY <1>1 DEF TypeOK
  <2>2. IsFiniteSet(DOMAIN orders) /\ \A x \in DOMAIN orders : orders[x] \in OrderRecords
    BY <2>1, LenProperties, ElementOfSeq, FS_Interval
  <2>3. left \in [DOMAIN orders -> Nat]
    BY <2>2, LeftAndEarned
  <2>. HIDE DEF left
  <2>4. Total(left) \in Nat
    BY <2>2, <2>3, TotalType
  <2>5. QED
    BY <1>1, <2>4 DEF Solvency, left
<1>6. balance' = Total(left) + Total(credit') /\ balance' \in Nat
  <2>. HIDE DEF left, sum
  <2>. QED
    BY <1>2, <1>3, <1>4, <1>5
<1>7. Solvency'
  BY <1>2, <1>6 DEF Solvency
<1>8. TypeOK'
  BY <1>1, <1>2, <1>3, <1>6 DEF TypeOK
<1>9. OrdersAsOpened'
  BY <1>1, <1>2 DEF OrdersAsOpened
<1>10. \A b \in Accounts : credit'[b] + paid'[b] = credit[b] + paid[b]
  BY <1>3
<1>11. PaidAsPromised'
  BY <1>1, <1>2, <1>10 DEF PaidAsPromised
<1>12. QED
  BY <1>7, <1>8, <1>9, <1>11 DEF XInv

\* The end of a withdrawal moves nothing.
LEMMA BooksUntouchedXInv ==
  ASSUME XInv, UNCHANGED <<orders, credit, balance, paid>>, withdrawing' \in BOOLEAN
  PROVE  XInv'
BY DEF XInv, TypeOK, OrdersAsOpened, Solvency, PaidAsPromised

-----------------------------------------------------------------------------
(* The theorems.                                                           *)

\* XInv is inductive: every call preserves what each order promised, what was
\* credited from it and what the contract holds for it.
THEOREM Invariant == Spec => []XInv
<1>1. Init => XInv
  BY InitXInv
<1>2. XInv /\ [Next]_vars => XInv'
  <2>. SUFFICES ASSUME XInv, [Next]_vars PROVE XInv'
    OBVIOUS
  <2>1. ASSUME NEW buyer \in Accounts, NEW value \in Values, OpenOrder(buyer, value)
        PROVE  XInv'
    BY <2>1, OpenOrderXInv
  <2>2. ASSUME NEW id \in 1 .. MaxOrders, NEW a \in Accounts, SubmitShare(id, a)
        PROVE  XInv'
    BY <2>2, SubmitShareXInv
  <2>3. ASSUME NEW a \in Accounts, WithdrawCredit(a)
        PROVE  XInv'
    BY <2>3, WithdrawCreditXInv
  <2>4. CASE ReturnFromTransfer
    BY <2>4, BooksUntouchedXInv DEF ReturnFromTransfer
  <2>5. CASE UNCHANGED vars
    BY <2>5, BooksUntouchedXInv DEF vars, XInv, TypeOK
  <2>6. QED
    BY <2>1, <2>2, <2>3, <2>4, <2>5 DEF Next
<1>3. QED
  BY <1>1, <1>2, PTL DEF Spec

\* The types: above all, the balance is never negative.
THEOREM TypeCorrect == Spec => []TypeOK
BY Invariant, PTL DEF XInv

\* The exchange is solvent whatever is opened, submitted and drawn, and also
\* while a withdrawal hands over control.
THEOREM Solvent == Spec => []Solvency
BY Invariant, PTL DEF XInv

\* Every member is paid exactly what was promised for the shares it gave, and
\* an order is successful exactly when all of its prefunding is credited.
THEOREM Paid == Spec => []PaidAsPromised
BY Invariant, PTL DEF XInv

-----------------------------------------------------------------------------
(* The ledger as a computation.                                            *)

\* f holds the ledgers after the first n responses, up to N.
LedgersFor(f, p, s, a, rs, N) ==
  f = [n \in 0 .. N |-> IF n = 0 THEN Open(p, s) ELSE Charge(f[n - 1], a, rs[n])]

\* The ledger after each of the first responses exists: were there a first
\* number of responses without, the ledger before it could be charged once more.
LEMMA LedgersExist ==
  ASSUME NEW p, NEW s, NEW a, NEW rs, NEW N \in Nat
  PROVE  \E f : LedgersFor(f, p, s, a, rs, N)
<1>. DEFINE Body(f, n) == IF n = 0 THEN Open(p, s) ELSE Charge(f[n - 1], a, rs[n])
            Good(m) == \E f : f = [n \in 0 .. m |-> Body(f, n)]
            T == {m \in Nat : ~Good(m)}
<1>1. CASE T = {}
  BY <1>1 DEF LedgersFor
<1>2. ASSUME T # {}
      PROVE  FALSE
  <2>1. PICK m \in T : \A y \in T : m <= y
    <3>. HIDE DEF T
    <3>. QED
      <4>1. T \in SUBSET Nat
        BY DEF T
      <4>2. QED
        BY <1>2, <4>1, LeastNatural
  <2>2. m \in Nat /\ ~Good(m)
    BY <2>1
  <2>3. CASE m = 0
    <3>. DEFINE g == [n \in 0 .. m |-> Open(p, s)]
    <3>1. g = [n \in 0 .. m |-> Body(g, n)]
      <4>1. \A n \in 0 .. m : n = 0
        BY <2>3
      <4>2. \A n \in 0 .. m : Body(g, n) = Open(p, s)
        BY <4>1
      <4>. HIDE DEF Body
      <4>3. QED
        BY <4>2
    <3>2. QED
      BY <2>2, <3>1
  <2>4. CASE m # 0
    <3>1. m - 1 \in Nat /\ m - 1 \notin T
      <4>. HIDE DEF T
      <4>. QED
        BY <2>1, <2>2, <2>4
    <3>2. PICK f : f = [n \in 0 .. (m - 1) |-> Body(f, n)]
      BY <3>1
    <3>. DEFINE g == [n \in 0 .. m |-> IF n = m THEN Charge(f[m - 1], a, rs[m]) ELSE f[n]]
    <3>3. ASSUME NEW n \in 0 .. m
          PROVE  g[n] = Body(g, n)
      <4>1. CASE n = m
        BY <2>2, <2>4, <4>1
      <4>2. CASE n # m
        <5>1. n \in 0 .. (m - 1) /\ (n # 0 => n - 1 \in 0 .. m /\ n - 1 # m)
          BY <2>2, <4>2
        <5>2. f[n] = Body(f, n)
          BY <3>2, <5>1, Zenon
        <5>3. g[n] = f[n] /\ (n # 0 => g[n - 1] = f[n - 1])
          BY <4>2, <5>1
        <5>4. QED
          BY <5>2, <5>3
      <4>3. QED
        BY <4>1, <4>2
    <3>4. g = [n \in 0 .. m |-> g[n]]
      OBVIOUS
    <3>5. [n \in 0 .. m |-> g[n]] = [n \in 0 .. m |-> Body(g, n)]
      <4>. HIDE DEF g, Body
      <4>. QED
        BY <3>3
    <3>6. g = [n \in 0 .. m |-> Body(g, n)]
      <4>. HIDE DEF g, Body
      <4>. QED
        BY <3>4, <3>5, Zenon
    <3>7. QED
      BY <2>2, <3>6 DEF LedgersFor
  <2>5. QED
    BY <2>3, <2>4
<1>3. QED
  BY <1>1, <1>2

\* The ledgers after the first responses, as LedgerAfter computes them.
LEMMA LedgersDefined ==
  ASSUME NEW p, NEW s, NEW a, NEW rs, Len(rs) \in Nat
  PROVE  \E f : LedgersFor(f, p, s, a, rs, Len(rs)) /\ LedgerAfter(p, s, a, rs) = f[Len(rs)]
<1>. DEFINE f == CHOOSE g : LedgersFor(g, p, s, a, rs, Len(rs))
<1>1. \E g : LedgersFor(g, p, s, a, rs, Len(rs))
  BY LedgersExist
<1>2. LedgersFor(f, p, s, a, rs, Len(rs))
  BY <1>1
<1>3. LedgerAfter(p, s, a, rs) = f[Len(rs)]
  BY DEF LedgerAfter, LedgersFor
<1>4. QED
  BY <1>2, <1>3

\* Nothing charged: the ledger as it was opened.
LEMMA LedgerOpened ==
  ASSUME NEW p, NEW s, NEW a
  PROVE  LedgerAfter(p, s, a, << >>) = Open(p, s)
<1>1. Len(<< >>) = 0
  OBVIOUS
<1>2. PICK f : /\ LedgersFor(f, p, s, a, << >>, Len(<< >>))
               /\ LedgerAfter(p, s, a, << >>) = f[Len(<< >>)]
  BY <1>1, LedgersDefined
<1>3. f[0] = Open(p, s)
  <2>1. 0 \in 0 .. Len(<< >>)
    BY <1>1
  <2>2. QED
    BY <1>2, <2>1 DEF LedgersFor
<1>4. QED
  BY <1>1, <1>2, <1>3

\* One more response: the ledger is charged once more.
LEMMA LedgerCharged ==
  ASSUME NEW p, NEW s, NEW a, NEW S, NEW rs \in Seq(S), NEW r \in S
  PROVE  LedgerAfter(p, s, a, Append(rs, r)) = Charge(LedgerAfter(p, s, a, rs), a, r)
<1>. DEFINE more == Append(rs, r)
            N == Len(rs)
<1>1. /\ N \in Nat /\ Len(more) = N + 1 /\ Len(more) \in Nat
      /\ \A n \in 1 .. N : more[n] = rs[n]
      /\ more[N + 1] = r
  BY AppendProperties, LenProperties
<1>2. PICK f : LedgersFor(f, p, s, a, rs, Len(rs)) /\ LedgerAfter(p, s, a, rs) = f[Len(rs)]
  BY <1>1, LedgersDefined
<1>3. PICK g : LedgersFor(g, p, s, a, more, Len(more)) /\ LedgerAfter(p, s, a, more) = g[Len(more)]
  <2>. HIDE DEF more
  <2>. QED
    BY <1>1, LedgersDefined
<1>. HIDE DEF more, N
<1>. DEFINE T == {n \in 0 .. N : f[n] # g[n]}
<1>4. ASSUME T # {}
      PROVE  FALSE
  <2>1. PICK m \in T : \A y \in T : m <= y
    <3>1. T \in SUBSET Nat
      BY <1>1
    <3>. HIDE DEF T
    <3>2. QED
      BY <1>4, <3>1, LeastNatural
  <2>2. m \in 0 .. N /\ f[m] # g[m]
    BY <2>1
  <2>3. CASE m = 0
    <3>1. m \in 0 .. Len(rs) /\ m \in 0 .. Len(more)
      BY <1>1, <2>2 DEF N
    <3>2. f[m] = Open(p, s)
      BY <1>2, <2>3, <3>1 DEF LedgersFor
    <3>3. g[m] = Open(p, s)
      BY <1>3, <2>3, <3>1 DEF LedgersFor
    <3>4. QED
      BY <2>2, <3>2, <3>3
  <2>4. CASE m # 0
    <3>1. m - 1 \in 0 .. N /\ m - 1 \notin T /\ m \in 1 .. N
      <4>1. m - 1 \in 0 .. N /\ m \in 1 .. N
        BY <1>1, <2>2, <2>4
      <4>2. ~(m <= m - 1)
        BY <1>1, <2>2
      <4>. HIDE DEF T
      <4>3. QED
        BY <2>1, <4>1, <4>2
    <3>2. f[m - 1] = g[m - 1]
      BY <3>1
    <3>3. m \in 0 .. Len(rs) /\ m \in 0 .. Len(more)
      BY <1>1, <2>2 DEF N
    <3>4. f[m] = Charge(f[m - 1], a, rs[m])
      BY <1>2, <2>4, <3>3 DEF LedgersFor
    <3>5. g[m] = Charge(g[m - 1], a, more[m])
      BY <1>3, <2>4, <3>3 DEF LedgersFor
    <3>6. QED
      BY <1>1, <2>2, <3>1, <3>2, <3>4, <3>5
  <2>5. QED
    BY <2>3, <2>4
<1>5. f[N] = g[N]
  <2>1. N \in 0 .. N
    BY <1>1
  <2>2. QED
    BY <1>4, <2>1
<1>6. g[Len(more)] = Charge(g[N], a, more[N + 1])
  <2>. DEFINE M == Len(more)
  <2>1. M \in 0 .. Len(more) /\ M # 0 /\ M - 1 = N /\ M = N + 1
    BY <1>1
  <2>2. \A n \in 0 .. Len(more) : n # 0 => g[n] = Charge(g[n - 1], a, more[n])
    BY <1>3 DEF LedgersFor
  <2>. HIDE DEF M
  <2>3. g[M] = Charge(g[M - 1], a, more[M])
    BY <2>1, <2>2
  <2>4. g[M] = Charge(g[N], a, more[N + 1])
    BY <2>1, <2>3
  <2>5. QED
    BY <2>4 DEF M
<1>7. QED
  BY <1>1, <1>2, <1>3, <1>5, <1>6 DEF N, more

-----------------------------------------------------------------------------
(* The operations of a ledger.                                             *)

\* A charge moves the price from the escrow to what was charged, and to the
\* operator's credit, which it overwrites if there is one.
LEMMA ChargedFacts ==
  ASSUME NEW l \in Ledgers, NEW r \in LedgerRecords, r.price <= l.escrow
  PROVE  LET m == Charged(l, r) IN
         /\ m \in Ledgers
         /\ m.prices = l.prices /\ m.source = l.source /\ m.deposit = l.deposit
         /\ m.buyerDebit = l.buyerDebit /\ m.sponsorFunding = l.sponsorFunding
         /\ m.returns = l.returns
         /\ m.escrow = l.escrow - r.price
         /\ m.responses = Append(l.responses, r)
         /\ ChargedBy(l) \in Nat /\ CreditsTotal(l) \in Nat /\ CreditsTotal(m) \in Nat
         /\ ChargedBy(m) = ChargedBy(l) + r.price
         /\ CreditsTotal(m) <= CreditsTotal(l) + r.price
         /\ r.operator \notin DOMAIN l.credits => CreditsTotal(m) = CreditsTotal(l) + r.price
<1>. DEFINE C == l.credits
            op == r.operator
            S == DOMAIN C
            E == S \cup {op}
            D == [o \in E |-> IF o = op THEN r.price ELSE C[o]]
            m == Charged(l, r)
            k == Append(l.responses, r)
            before == [i \in DOMAIN l.responses |-> l.responses[i].price]
            after == [i \in DOMAIN k |-> k[i].price]
<1>1. /\ S \in SUBSET Operators /\ C \in [S -> Nat]
  BY DEF Ledgers, Credits
<1>2. /\ l.escrow \in Nat /\ l.step \in Nat /\ r.price \in Nat /\ op \in Operators
      /\ l.responses \in Seq(LedgerRecords)
  BY DEF Ledgers, LedgerRecords
<1>3. /\ E \in SUBSET Operators /\ D \in [E -> Nat]
      /\ IsFiniteSet(E) /\ IsFiniteSet(S)
  <2>1. E \in SUBSET Operators /\ D \in [E -> Nat]
    BY <1>1, <1>2
  <2>2. IsFiniteSet(Operators) /\ S \in SUBSET Operators
    BY <1>1, ServiceConstants
  <2>. HIDE DEF D, E, S
  <2>3. QED
    BY <2>1, <2>2, FS_Subset
<1>4. /\ k \in Seq(LedgerRecords) /\ Len(k) = Len(l.responses) + 1
      /\ DOMAIN k = 1 .. Len(k) /\ DOMAIN l.responses = 1 .. Len(l.responses)
      /\ Len(l.responses) \in Nat
      /\ \A i \in 1 .. Len(l.responses) : k[i] = l.responses[i]
      /\ k[Len(l.responses) + 1] = r
  BY <1>2, AppendProperties, LenProperties
<1>5. m = [l EXCEPT !.step = l.step + 2, !.escrow = l.escrow - r.price,
                    !.credits = D, !.responses = k]
  BY DEF Charged, Ledgers
<1>6. D \in Credits /\ l.escrow - r.price \in Nat /\ l.step + 2 \in Nat
  <2>1. l.escrow - r.price \in Nat /\ l.step + 2 \in Nat
    BY <1>2
  <2>. HIDE DEF D, E
  <2>2. D \in Credits
    BY <1>3 DEF Credits
  <2>3. QED
    BY <2>1, <2>2
<1>. HIDE DEF D, k, m, E, C
<1>7. /\ m \in Ledgers
      /\ m.prices = l.prices /\ m.source = l.source /\ m.deposit = l.deposit
      /\ m.buyerDebit = l.buyerDebit /\ m.sponsorFunding = l.sponsorFunding
      /\ m.returns = l.returns
      /\ m.escrow = l.escrow - r.price
      /\ m.responses = k /\ m.credits = D
  BY <1>4, <1>5, <1>6 DEF Ledgers
<1>8. ChargedBy(m) = ChargedBy(l) + r.price /\ ChargedBy(l) \in Nat
  <2>. DEFINE N == Len(l.responses)
              I == 1 .. N
  <2>1. IsFiniteSet(I) /\ N + 1 \notin I /\ DOMAIN k = I \cup {N + 1}
    <3>1. IsFiniteSet(I)
      BY <1>4, FS_Interval
    <3>2. DOMAIN k = 1 .. N + 1 /\ N \in Nat
      BY <1>4
    <3>. HIDE DEF N
    <3>3. QED
      BY <3>1, <3>2
  <2>2. \A i \in I : l.responses[i] \in LedgerRecords
    BY <1>2, <1>4, ElementOfSeq
  <2>3. before \in [I -> Nat]
    BY <1>4, <2>2 DEF LedgerRecords
  <2>4. after \in [I \cup {N + 1} -> Nat] /\ after[N + 1] = r.price
        /\ \A i \in I : after[i] = before[i]
    BY <1>2, <1>4, <2>1, <2>2 DEF LedgerRecords
  <2>. HIDE DEF I, N, before, after
  <2>5. Total(after) = Total(before) + r.price /\ Total(before) \in Nat
    <3>1. Total(before) \in Nat
      BY <2>1, <2>3, TotalType
    <3>2. Total(after) = Total(before) + after[N + 1]
      BY <2>1, <2>3, <2>4, TotalOneMore
    <3>3. QED
      BY <2>4, <3>1, <3>2
  <2>6. ChargedBy(l) = Total(before) /\ ChargedBy(m) = Total(after)
    BY <1>7 DEF ChargedBy, before, after
  <2>7. QED
    BY <2>5, <2>6
<1>9. /\ Total(C) \in Nat /\ Total(D) \in Nat
      /\ Total(D) <= Total(C) + r.price
      /\ op \notin S => Total(D) = Total(C) + r.price
  <2>1. C \in [S -> Nat]
    BY <1>1
  <2>2. D[op] = r.price /\ \A o \in S \ {op} : D[o] = C[o]
    BY DEF D, E
  <2>3. Total(C) \in Nat /\ Total(D) \in Nat
    BY <1>3, <2>1, TotalType
  <2>4. CASE op \notin S
    <3>1. D \in [S \cup {op} -> Nat] /\ \A o \in S : D[o] = C[o]
      BY <1>3, <2>2, <2>4 DEF E
    <3>. HIDE DEF S, op
    <3>2. Total(D) = Total(C) + D[op]
      BY <1>3, <2>1, <2>4, <3>1, TotalOneMore
    <3>3. QED
      BY <1>2, <2>2, <2>3, <2>4, <3>2
  <2>5. CASE op \in S
    <3>1. E = S
      BY <2>5 DEF E
    <3>2. D \in [S -> Nat] /\ C[op] \in Nat
      BY <1>3, <2>1, <2>5, <3>1
    <3>. HIDE DEF S, op
    <3>3. Total(D) = Total(C) - C[op] + D[op]
      BY <1>3, <2>1, <2>2, <2>5, <3>2, TotalUpdate
    <3>4. QED
      BY <1>2, <2>2, <2>3, <2>5, <3>2, <3>3
  <2>6. QED
    BY <2>3, <2>4, <2>5
<1>10. CreditsTotal(l) = Total(C) /\ CreditsTotal(m) = Total(D)
  BY <1>7 DEF CreditsTotal, C
<1>11. QED
  BY <1>7, <1>8, <1>9, <1>10 DEF m, k, C

\* The constants as the arguments of a call.
LEMMA ArgumentTypes ==
  ASSUME call \in Calls, prices \in PriceVectors, bad \in BadShares
  PROVE  /\ prices \in [Operators -> Nat]
         /\ call.responders \in SUBSET Operators /\ call.order \in Seq(Operators)
         /\ call.source \in Sources
         /\ Len(call.order) \in Nat
         /\ DOMAIN call.order = 1 .. Len(call.order)
         /\ \A i \in 1 .. Len(call.order) : call.order[i] \in Operators
         /\ \A i \in 1 .. Len(call.order) : Response(call.order[i], i, bad) \in Digests
         /\ IsFiniteSet(Operators) /\ Threshold \in Nat \ {0} /\ Threshold \in Operators
         /\ Total(prices) \in Nat
<1>1. /\ prices \in [Operators -> Nat]
      /\ call \in [responders : SUBSET Operators, order : Seq(Operators),
                   source : STRING, ablation : STRING]
      /\ IsFiniteSet(Operators) /\ Threshold \in Nat \ {0} /\ Threshold \in Operators
  BY ServiceConstants
<1>2. call.order \in Seq(Operators)
  BY <1>1
<1>3. /\ Len(call.order) \in Nat /\ DOMAIN call.order = 1 .. Len(call.order)
      /\ \A i \in 1 .. Len(call.order) : call.order[i] \in Operators
  BY <1>2, LenProperties, ElementOfSeq
<1>4. \A i \in 1 .. Len(call.order) : Response(call.order[i], i, bad) \in Digests
  BY <1>3 DEF Response, Digests
<1>5. Total(prices) \in Nat
  BY <1>1, TotalType
<1>6. call.source \in Sources
  BY DEF Sources
<1>7. QED
  BY <1>1, <1>2, <1>3, <1>4, <1>5, <1>6

\* A sum over no keys.
LEMMA TotalOfNone == \A f : DOMAIN f = {} => Total(f) = 0
<1>. SUFFICES ASSUME NEW f, DOMAIN f = {} PROVE Total(f) = 0
  OBVIOUS
<1>1. Units(f) = {}
  BY DEF Units
<1>2. QED
  BY <1>1, FS_EmptySet DEF Total

\* A new ledger holds its deposit and was charged for nothing.
LEMMA OpenedFits ==
  ASSUME call \in Calls, prices \in PriceVectors, bad \in BadShares
  PROVE  AsCharged(Open(prices, call.source), 0)
<1>. DEFINE l == Open(prices, call.source)
            none == [op \in {} |-> 0]
<1>1. prices \in [Operators -> Nat] /\ call.source \in Sources /\ Total(prices) \in Nat
  BY ArgumentTypes
<1>2. none \in Credits
  BY DEF Credits
<1>3. << >> \in Seq(LedgerRecords) /\ << >> \in Seq(ReturnRecords) /\ Len(<< >>) = 0
  BY EmptySeq
<1>4. /\ l.prices = prices /\ l.source = call.source /\ l.deposit = Total(prices)
      /\ l.escrow = Total(prices) /\ l.responses = << >> /\ l.returns = << >>
      /\ l.credits = none
      /\ l.buyerDebit = (IF call.source = Buyer THEN Total(prices) ELSE 0)
      /\ l.sponsorFunding = (IF call.source # Buyer THEN Total(prices) ELSE 0)
  BY DEF Open
<1>5. l \in Ledgers
  <2>. HIDE DEF none
  <2>1. QED
    BY <1>1, <1>2, <1>3 DEF Open, Ledgers, none
<1>6. CreditsTotal(l) = 0
  <2>1. DOMAIN none = {}
    OBVIOUS
  <2>2. QED
    BY <1>4, <2>1, TotalOfNone DEF CreditsTotal
<1>7. ChargedBy(l) = 0
  <2>. DEFINE f == [i \in DOMAIN l.responses |-> l.responses[i].price]
  <2>1. DOMAIN f = {}
    BY <1>4
  <2>. HIDE DEF f
  <2>2. Total(f) = 0
    BY <2>1, TotalOfNone
  <2>3. QED
    BY <2>2 DEF ChargedBy, f
<1>. HIDE DEF l
<1>8. QED
  <2>1. \A i \in 1 .. 0 : RecordFits(l.responses[i], i)
    OBVIOUS
  <2>2. l.deposit = l.escrow + ChargedBy(l) /\ CreditsTotal(l) <= ChargedBy(l)
    BY <1>1, <1>4, <1>6, <1>7
  <2>3. Len(l.responses) = 0
    BY <1>3, <1>4
  <2>4. /\ l.buyerDebit = IF call.source = Buyer THEN l.deposit ELSE 0
        /\ l.sponsorFunding = IF call.source # Buyer THEN l.deposit ELSE 0
    BY <1>4
  <2>5. AsCharged(l, 0)
    BY <1>4, <1>5, <1>6, <1>7, <2>1, <2>2, <2>3, <2>4 DEF AsCharged
  <2>6. QED
    BY <2>5 DEF l

\* The types of a record.
LEMMA RecordType ==
  ASSUME NEW op \in Operators, NEW price \in Nat,
         NEW route \in {"paid_response", "bypass_response"}, NEW digest \in Digests,
         NEW valid \in BOOLEAN, NEW x \in Nat, NEW y \in Nat, NEW ordering \in BOOLEAN
  PROVE  Record(op, price, route, digest, valid, x, y, ordering) \in LedgerRecords
BY DEF Record, LedgerRecords

\* What a charge appends, in each of the ways to charge.
LEMMA ChargeAppends ==
  ASSUME call \in Calls, prices \in PriceVectors, bad \in BadShares,
         NEW l \in Ledgers, l.prices = prices, NEW n \in 1 .. Len(call.order),
         Chargeable(l, call.ablation, call.order[n])
  PROVE  \E r \in LedgerRecords :
           /\ Charge(l, call.ablation, Response(call.order[n], n, bad)) = Charged(l, r)
           /\ r.price <= l.escrow
           /\ RecordFits(r, n)
           /\ call.ablation # "early_release" => r.operator \notin DOMAIN l.credits
<1>. DEFINE op == call.order[n]
            a == call.ablation
            d == Response(op, n, bad)
<1>1. op \in Operators /\ prices[op] \in Nat /\ d \in Digests
  BY ArgumentTypes
<1>2. d.operator = op /\ d.valid \in BOOLEAN
  BY <1>1 DEF Response, Digests
<1>3. /\ l.step \in Nat /\ l.step + 1 \in Nat /\ l.step + 2 \in Nat /\ l.escrow \in Nat
      /\ 0 \in Nat /\ TRUE \in BOOLEAN /\ FALSE \in BOOLEAN
      /\ "paid_response" \in {"paid_response", "bypass_response"}
      /\ "bypass_response" \in {"paid_response", "bypass_response"}
  <2>1. l.step \in Nat /\ l.escrow \in Nat
    BY DEF Ledgers
  <2>2. QED
    BY <2>1
<1>. HIDE DEF d
<1>4. CASE a = "bypass"
  <2>. DEFINE r == Record(op, 0, "bypass_response", d, d.valid, l.step + 1, l.step + 2, TRUE)
  <2>1. Charge(l, a, d) = RecordBypass(l, op, d, d.valid)
    BY <1>2, <1>4 DEF Charge
  <2>2. Charge(l, a, d) = Charged(l, r)
    BY <2>1 DEF RecordBypass
  <2>3. r \in LedgerRecords
    BY <1>1, <1>2, <1>3, RecordType, Zenon
  <2>4. op \notin DOMAIN l.credits /\ l.escrow >= 0
    BY <1>4 DEF Chargeable, CanCredit
  <2>5. RecordFits(r, n) /\ r.operator = op /\ r.price <= l.escrow
    BY <1>1, <1>3, <1>4, <2>4 DEF RecordFits, Record
  <2>. HIDE DEF r
  <2>6. QED
    BY <1>4, <2>2, <2>3, <2>4, <2>5 DEF d
<1>5. CASE a = "early_release"
  <2>. DEFINE r == Record(op, prices[op], "paid_response", d, d.valid, l.step + 2, l.step + 1, TRUE)
  <2>1. Charge(l, a, d) = ReleaseBeforeCredit(l, op, d, d.valid)
    BY <1>2, <1>5 DEF Charge
  <2>2. Charge(l, a, d) = Charged(l, r)
    BY <2>1 DEF ReleaseBeforeCredit
  <2>3. r \in LedgerRecords
    BY <1>1, <1>2, <1>3, RecordType, Zenon
  <2>4. l.escrow >= prices[op]
    BY <1>5 DEF Chargeable, CanRelease
  <2>5. RecordFits(r, n) /\ r.operator = op /\ r.price <= l.escrow
    BY <1>1, <1>3, <1>5, <2>4 DEF RecordFits, Record
  <2>. HIDE DEF r
  <2>6. QED
    BY <1>5, <2>2, <2>3, <2>4, <2>5 DEF d
<1>6. CASE a = "untimed"
  <2>. DEFINE r == Record(op, prices[op], "paid_response", d, d.valid, l.step + 1, l.step + 2, FALSE)
  <2>1. Charge(l, a, d) = RecordUntimed(l, op, d, d.valid)
    BY <1>2, <1>6 DEF Charge
  <2>2. Charge(l, a, d) = Charged(l, r)
    BY <2>1 DEF RecordUntimed
  <2>3. r \in LedgerRecords
    BY <1>1, <1>2, <1>3, RecordType, Zenon
  <2>4. op \notin DOMAIN l.credits /\ l.escrow >= prices[op]
    BY <1>6 DEF Chargeable, CanCredit
  <2>5. RecordFits(r, n) /\ r.operator = op /\ r.price <= l.escrow
    BY <1>1, <1>3, <1>6, <2>4 DEF RecordFits, Record
  <2>. HIDE DEF r
  <2>6. QED
    BY <1>6, <2>2, <2>3, <2>4, <2>5 DEF d
<1>7. CASE a \notin {"bypass", "early_release", "untimed"}
  <2>. DEFINE r == Record(op, prices[op], "paid_response", d, d.valid, l.step + 1, l.step + 2, TRUE)
  <2>1. Charge(l, a, d) = CreditBeforeRelease(l, op, d, d.valid)
    BY <1>2, <1>7 DEF Charge
  <2>2. Charge(l, a, d) = Charged(l, r)
    BY <2>1 DEF CreditBeforeRelease
  <2>3. r \in LedgerRecords
    BY <1>1, <1>2, <1>3, RecordType, Zenon
  <2>4. op \notin DOMAIN l.credits /\ l.escrow >= prices[op]
    BY <1>7 DEF Chargeable, CanCredit
  <2>5. RecordFits(r, n) /\ r.operator = op /\ r.price <= l.escrow
    BY <1>1, <1>3, <1>7, <2>4 DEF RecordFits, Record
  <2>. HIDE DEF r
  <2>6. QED
    BY <1>7, <2>2, <2>3, <2>4, <2>5 DEF d
<1>8. QED
  BY <1>4, <1>5, <1>6, <1>7

\* A charge for the next position of the order fits the call.
LEMMA ChargedFits ==
  ASSUME call \in Calls, prices \in PriceVectors, bad \in BadShares,
         NEW n \in Nat, n < Len(call.order), NEW l, AsCharged(l, n),
         Chargeable(l, call.ablation, call.order[n + 1])
  PROVE  AsCharged(Charge(l, call.ablation, Response(call.order[n + 1], n + 1, bad)), n + 1)
<1>1. /\ l \in Ledgers /\ l.prices = prices /\ Len(l.responses) = n
      /\ n + 1 \in 1 .. Len(call.order)
  BY ArgumentTypes DEF AsCharged
<1>2. PICK r \in LedgerRecords :
        /\ Charge(l, call.ablation, Response(call.order[n + 1], n + 1, bad)) = Charged(l, r)
        /\ r.price <= l.escrow
        /\ RecordFits(r, n + 1)
        /\ call.ablation # "early_release" => r.operator \notin DOMAIN l.credits
  BY <1>1, ChargeAppends
<1>. DEFINE m == Charged(l, r)
<1>3. /\ m \in Ledgers
      /\ m.prices = l.prices /\ m.source = l.source /\ m.deposit = l.deposit
      /\ m.buyerDebit = l.buyerDebit /\ m.sponsorFunding = l.sponsorFunding
      /\ m.returns = l.returns
      /\ m.escrow = l.escrow - r.price
      /\ m.responses = Append(l.responses, r)
      /\ ChargedBy(l) \in Nat /\ CreditsTotal(l) \in Nat /\ CreditsTotal(m) \in Nat
      /\ ChargedBy(m) = ChargedBy(l) + r.price
      /\ CreditsTotal(m) <= CreditsTotal(l) + r.price
      /\ r.operator \notin DOMAIN l.credits => CreditsTotal(m) = CreditsTotal(l) + r.price
  BY <1>1, <1>2, ChargedFacts
<1>. HIDE DEF m
<1>4. l.escrow \in Nat /\ l.deposit \in Nat /\ r.price \in Nat /\ l.responses \in Seq(LedgerRecords)
  BY <1>1 DEF Ledgers, LedgerRecords
<1>5. /\ Len(m.responses) = n + 1
      /\ \A i \in 1 .. n : m.responses[i] = l.responses[i]
      /\ m.responses[n + 1] = r
  <2>. DEFINE seq == Append(l.responses, r)
  <2>1. Len(l.responses) = n /\ l.responses \in Seq(LedgerRecords) /\ r \in LedgerRecords
    BY <1>1, <1>2, <1>4
  <2>2. /\ Len(seq) = Len(l.responses) + 1
        /\ \A i \in 1 .. Len(l.responses) : seq[i] = l.responses[i]
        /\ seq[Len(l.responses) + 1] = r
    BY <2>1, AppendProperties
  <2>3. m.responses = seq
    BY <1>3
  <2>. HIDE DEF seq
  <2>4. QED
    BY <2>1, <2>2, <2>3
<1>6. \A i \in 1 .. n + 1 : RecordFits(m.responses[i], i)
  <2>1. \A i \in 1 .. n : RecordFits(l.responses[i], i)
    BY DEF AsCharged
  <2>2. \A i \in 1 .. n + 1 : i \in 1 .. n \/ i = n + 1
    OBVIOUS
  <2>3. QED
    BY <1>2, <1>5, <2>1, <2>2
<1>7. /\ m.deposit = m.escrow + ChargedBy(m)
      /\ CreditsTotal(m) <= ChargedBy(m)
      /\ call.ablation # "early_release" => CreditsTotal(m) = ChargedBy(m)
  <2>1. /\ l.deposit = l.escrow + ChargedBy(l)
        /\ CreditsTotal(l) <= ChargedBy(l)
        /\ call.ablation # "early_release" => CreditsTotal(l) = ChargedBy(l)
    BY DEF AsCharged
  <2>2. /\ m.deposit = l.deposit /\ m.escrow = l.escrow - r.price
        /\ ChargedBy(l) \in Nat /\ CreditsTotal(l) \in Nat /\ CreditsTotal(m) \in Nat
        /\ ChargedBy(m) = ChargedBy(l) + r.price
        /\ CreditsTotal(m) <= CreditsTotal(l) + r.price
    BY <1>3
  <2>3. call.ablation # "early_release" => CreditsTotal(m) = CreditsTotal(l) + r.price
    BY <1>2, <1>3
  <2>4. m.deposit = m.escrow + ChargedBy(m)
    BY <1>4, <2>1, <2>2
  <2>5. CreditsTotal(m) <= ChargedBy(m)
    BY <1>4, <2>1, <2>2
  <2>6. call.ablation # "early_release" => CreditsTotal(m) = ChargedBy(m)
    BY <2>1, <2>2, <2>3
  <2>7. QED
    BY <2>4, <2>5, <2>6
<1>8. AsCharged(m, n + 1)
  BY <1>3, <1>5, <1>6, <1>7 DEF AsCharged
<1>9. QED
  BY <1>2, <1>8 DEF m

-----------------------------------------------------------------------------
(* The inductive invariant of an execution.                                *)

\* The first positions of the order are operators'.
LEMMA AskedIsOperator ==
  ASSUME ServiceTypes, Len(responses) < Len(call.order)
  PROVE  /\ Len(responses) \in Nat
         /\ Len(responses) + 1 \in 1 .. Len(call.order)
         /\ Asked \in Operators
         /\ Response(Asked, Len(responses) + 1, bad) \in Digests
<1>1. call \in Calls /\ prices \in PriceVectors /\ bad \in BadShares
      /\ Len(responses) \in Nat
  BY LenProperties DEF ServiceTypes
<1>2. /\ Len(call.order) \in Nat
      /\ \A i \in 1 .. Len(call.order) : call.order[i] \in Operators
      /\ \A i \in 1 .. Len(call.order) : Response(call.order[i], i, bad) \in Digests
  BY <1>1, ArgumentTypes
<1>3. Len(responses) + 1 \in 1 .. Len(call.order)
  BY <1>1, <1>2
<1>4. QED
  BY <1>1, <1>2, <1>3 DEF Asked

\* Nothing was asked, charged or returned.
LEMMA ServiceStarts == ServiceInit => ServiceInv
<1>. SUFFICES ASSUME ServiceInit PROVE ServiceInv
  OBVIOUS
<1>1. ServiceTypes
  <2>1. << >> \in Seq(Digests)
    OBVIOUS
  <2>2. Silence \in [kind : {"none", "respond", "stop"}, at : Nat]
        /\ Silence \in [kind : {"none", "response", "stopped"}, at : Nat]
    BY DEF Silence
  <2>3. 0 \in 0 .. Cardinality(Operators) + 1
    BY ServiceConstants, FS_CardinalityType
  <2>4. QED
    BY <2>1, <2>2, <2>3 DEF ServiceInit, ServiceTypes
<1>2. PipesInOrder
  BY DEF ServiceInit, PipesInOrder
<1>3. Len(responses) = 0 /\ ~Returned
  BY DEF ServiceInit, Returned, Nothing
<1>4. ResponsesInOrder
  <2>1. Len(call.order) \in Nat
    BY ArgumentTypes DEF ServiceInit
  <2>2. << >> = [i \in 1 .. 0 |-> Response(call.order[i], i, bad)]
    OBVIOUS
  <2>3. QED
    BY <1>3, <2>1, <2>2 DEF ServiceInit, ResponsesInOrder
<1>5. LedgerInOrder
  BY <1>3 DEF ServiceInit, LedgerInOrder
<1>6. ReportInOrder
  BY DEF ServiceInit, ReportInOrder, Judged
<1>7. QED
  BY <1>1, <1>2, <1>4, <1>5, <1>6 DEF ServiceInv

\* A step that charges nothing and returns nothing, which may give up.
LEMMA LedgerKept ==
  ASSUME LedgerInOrder,
         arguments' = arguments, ledger' = ledger, responses' = responses,
         \/ result' = result /\ pc' = pc
         \/ result' = result /\ pc' # "start" /\ (pc' \in {"launch", "ask", "await"} => pc \in {"launch", "ask", "await"})
         \/ result' = Raised /\ ~Returned /\ pc' \in {"close", "failed"}
  PROVE  LedgerInOrder'
<1>1. prices' = prices /\ call' = call /\ bad' = bad
  BY DEF arguments
<1>2. Computed' = Computed
  BY <1>1 DEF Computed
<1>3. AsCharged(Computed, Len(responses)) => AsCharged(Computed, Len(responses))'
  BY <1>1, <1>2 DEF AsCharged, RecordFits
<1>4. CASE result' = result
  <2>1. Returned' = Returned
    BY <1>4 DEF Returned
  <2>2. QED
    BY <1>1, <1>2, <1>3, <1>4, <2>1 DEF LedgerInOrder
<1>5. CASE result' = Raised /\ ~Returned /\ pc' \in {"close", "failed"}
  <2>1. ~Returned'
    BY <1>5 DEF Returned, Raised
  <2>2. QED
    BY <1>1, <1>2, <1>3, <1>5, <2>1 DEF LedgerInOrder
<1>6. QED
  BY <1>4, <1>5

\* A step that takes no response.
LEMMA ResponsesKept ==
  ASSUME ResponsesInOrder, arguments' = arguments, responses' = responses
  PROVE  ResponsesInOrder'
<1>1. call' = call /\ bad' = bad
  BY DEF arguments
<1>2. QED
  BY <1>1 DEF ResponsesInOrder

\* A step before anything was returned, or one that returns nothing and judges nothing.
LEMMA ReportKept ==
  ASSUME ReportInOrder, arguments' = arguments, report' = report, result' = result \/ ~Returned
  PROVE  ReportInOrder'
<1>1. prices' = prices
  BY DEF arguments
<1>2. CASE Judged
  <2>1. Returned /\ result' = result
    BY <1>2 DEF ReportInOrder
  <2>2. Returned'
    BY <2>1 DEF Returned
  <2>3. QED
    BY <1>1, <1>2, <2>1, <2>2 DEF ReportInOrder, Judged
<1>3. CASE ~Judged
  BY <1>3 DEF ReportInOrder, Judged
<1>4. QED
  BY <1>2, <1>3

\* A worker's or a pipe's change that keeps its type.
LEMMA MessageTypes ==
  /\ \A at \in Nat : Message("respond", at) \in [kind : {"none", "respond", "stop"}, at : Nat]
  /\ \A at \in Nat : Message("stop", at) \in [kind : {"none", "respond", "stop"}, at : Nat]
  /\ \A at \in Nat : Message("response", at) \in [kind : {"none", "response", "stopped"}, at : Nat]
  /\ \A at \in Nat : Message("stopped", at) \in [kind : {"none", "response", "stopped"}, at : Nat]
  /\ Silence \in [kind : {"none", "respond", "stop"}, at : Nat]
  /\ Silence \in [kind : {"none", "response", "stopped"}, at : Nat]
BY DEF Message, Silence

\* The operators are numbered.
LEMMA NobodyLeft == Cardinality(Operators) \in Nat /\ \A op \in Operators : op \in 1 .. Cardinality(Operators)
BY ServiceConstants, FS_CardinalityType

\* A call that is refused leaves nothing behind; else the ledger is opened.
LEMMA StartKeeps == ServiceInv /\ Start => ServiceInv'
<1>. SUFFICES ASSUME ServiceInv, Start PROVE ServiceInv'
  OBVIOUS
<1>. USE DEF Start
<1>1. ServiceTypes /\ PipesInOrder /\ ResponsesInOrder /\ LedgerInOrder /\ ReportInOrder
  BY DEF ServiceInv
<1>2. /\ responses = << >> /\ ledger = Nothing /\ result = Nothing
      /\ prices' = prices /\ call' = call /\ bad' = bad /\ processMode' = processMode
      /\ call \in Calls /\ prices \in PriceVectors /\ bad \in BadShares
  BY <1>1 DEF LedgerInOrder, arguments, ServiceTypes
<1>3. ~Returned
  BY <1>2 DEF Returned, Nothing
<1>4. ReportInOrder'
  BY <1>1, <1>3, ReportKept
<1>5. ResponsesInOrder'
  BY <1>1, ResponsesKept
<1>6. PipesInOrder'
  BY <1>1 DEF PipesInOrder, pipes
<1>7. CASE Accepted(call)
  <2>1. /\ pc' \in {"launch", "ask"} /\ ledger' = Open(prices, call.source) /\ result' = result
        /\ worker' = worker /\ toWorker' = toWorker /\ toParent' = toParent
    BY <1>7 DEF pipes
  <2>2. AsCharged(Open(prices, call.source), 0)
    BY <1>2, OpenedFits
  <2>3. Open(prices, call.source) \in Ledgers /\ Open(prices, call.source) # Nothing
    BY <2>2 DEF AsCharged, Ledgers, Nothing
  <2>4. ServiceTypes'
    BY <1>1, <1>2, <2>1, <2>3 DEF ServiceTypes
  <2>5. Computed' = Open(prices, call.source)
    BY <1>2, LedgerOpened DEF Computed
  <2>6. AsCharged(Computed, Len(responses))'
    BY <1>2, <2>2, <2>5 DEF AsCharged, RecordFits
  <2>7. ~Returned'
    BY <1>2, <2>1 DEF Returned, Nothing
  <2>8. LedgerInOrder'
    BY <1>2, <1>7, <2>1, <2>3, <2>5, <2>6, <2>7 DEF LedgerInOrder
  <2>9. QED
    BY <1>4, <1>5, <1>6, <2>4, <2>8 DEF ServiceInv
<1>8. CASE ~Accepted(call)
  <2>1. /\ pc' = "over" /\ ledger' = ledger /\ result' = Raised
        /\ worker' = worker /\ toWorker' = toWorker /\ toParent' = toParent
    BY <1>8 DEF pipes
  <2>2. ServiceTypes'
    BY <1>1, <1>2, <2>1 DEF ServiceTypes
  <2>3. ~Returned'
    BY <2>1 DEF Returned, Raised
  <2>4. LedgerInOrder'
    BY <1>2, <2>1, <2>3 DEF LedgerInOrder
  <2>5. QED
    BY <1>4, <1>5, <1>6, <2>2, <2>4 DEF ServiceInv
<1>9. QED
  BY <1>7, <1>8

\* A worker that is started has nothing in its pipe; a launch that fails returns nothing.
LEMMA LaunchKeeps == ServiceInv /\ (Launch \/ LaunchFails) => ServiceInv'
<1>. SUFFICES ASSUME ServiceInv, Launch \/ LaunchFails PROVE ServiceInv'
  OBVIOUS
<1>1. ServiceTypes /\ PipesInOrder /\ ResponsesInOrder /\ LedgerInOrder /\ ReportInOrder
  BY DEF ServiceInv
<1>2. /\ pc = "launch" /\ arguments' = arguments /\ ledger' = ledger
      /\ responses' = responses /\ report' = report /\ closing' = closing
      /\ prices' = prices /\ call' = call /\ bad' = bad /\ processMode' = processMode
      /\ toWorker' = toWorker /\ toParent' = toParent
  BY DEF Launch, LaunchFails, arguments, pipes
<1>3. ~Returned
  BY <1>1, <1>2 DEF LedgerInOrder, Returned, Nothing
<1>4. \/ result' = result /\ pc' \in {"launch", "ask"}
      \/ result' = Raised /\ pc' = "failed"
  BY <1>2 DEF Launch, LaunchFails
<1>5. LedgerInOrder' /\ ResponsesInOrder' /\ ReportInOrder'
  BY <1>1, <1>2, <1>3, <1>4, LedgerKept, ResponsesKept, ReportKept
<1>6. PipesInOrder'
  BY <1>1, <1>2, <1>4 DEF PipesInOrder
<1>7. ServiceTypes'
  BY <1>1, <1>2, <1>4 DEF Launch, LaunchFails, pipes, ServiceTypes
<1>8. QED
  BY <1>5, <1>6, <1>7 DEF ServiceInv

\* The question for the next position is put into the pipe of its operator.
LEMMA AskKeeps == ServiceInv /\ Ask => ServiceInv'
<1>. SUFFICES ASSUME ServiceInv, Ask PROVE ServiceInv'
  OBVIOUS
<1>. USE DEF Ask
<1>1. ServiceTypes /\ PipesInOrder /\ ResponsesInOrder /\ LedgerInOrder /\ ReportInOrder
  BY DEF ServiceInv
<1>2. /\ prices' = prices /\ call' = call /\ bad' = bad /\ processMode' = processMode
      /\ result = Nothing /\ ~Returned
  BY <1>1 DEF LedgerInOrder, arguments, Returned, Nothing
<1>3. ReportInOrder' /\ ResponsesInOrder'
  BY <1>1, <1>2, ReportKept, ResponsesKept
<1>4. /\ Len(responses) \in Nat /\ Asked \in Operators
      /\ Len(responses) + 1 \in 1 .. Len(call.order)
  BY <1>1, AskedIsOperator
<1>5. CASE Hung(Asked)
  <2>1. Unwind /\ toWorker' = toWorker
    BY <1>5
  <2>2. LedgerInOrder'
    BY <1>1, <1>2, <2>1, LedgerKept DEF Unwind
  <2>3. PipesInOrder'
    BY <2>1 DEF PipesInOrder, Unwind
  <2>4. ServiceTypes'
    BY <1>1, <1>2, <2>1, NobodyLeft DEF ServiceTypes, Unwind
  <2>5. QED
    BY <1>3, <2>2, <2>3, <2>4 DEF ServiceInv
<1>6. CASE ~Hung(Asked)
  <2>1. /\ toWorker' = [toWorker EXCEPT ![Asked] = Message("respond", Len(responses) + 1)]
        /\ pc' = "await" /\ closing' = closing /\ result' = result
    BY <1>6
  <2>2. LedgerInOrder'
    BY <1>1, <2>1, LedgerKept
  <2>3. Asked' = Asked
    BY <1>2 DEF Asked
  <2>4. PipesInOrder'
    BY <1>1, <1>2, <1>4, <2>1, <2>3 DEF PipesInOrder, ServiceTypes
  <2>5. ServiceTypes'
    <3>. DEFINE next == Len(responses) + 1
    <3>1. next \in Nat
      BY <1>4
    <3>. HIDE DEF next
    <3>2. Message("respond", next) \in [kind : {"none", "respond", "stop"}, at : Nat]
      BY <3>1, MessageTypes
    <3>3. toWorker' = [toWorker EXCEPT ![Asked] = Message("respond", next)]
      BY <2>1 DEF next
    <3>4. toWorker' \in [Operators -> [kind : {"none", "respond", "stop"}, at : Nat]]
      BY <1>1, <1>4, <3>2, <3>3 DEF ServiceTypes
    <3>5. QED
      BY <1>1, <1>2, <2>1, <3>4 DEF ServiceTypes
  <2>6. QED
    BY <1>3, <2>2, <2>4, <2>5 DEF ServiceInv
<1>7. QED
  BY <1>5, <1>6

\* A ledger is something.
LEMMA NoLedger == \A l \in Ledgers : l # Nothing
<1>1. \A l \in Ledgers : "prices" \in DOMAIN l
  BY DEF Ledgers
<1>2. "prices" \notin DOMAIN Nothing
  BY DEF Nothing
<1>3. QED
  BY <1>1, <1>2

\* Taking the response to the next position, or raising.
LEMMA TakeResponseKeeps ==
  ASSUME ServiceInv, pc \in {"ask", "await"}, Len(responses) < Len(call.order),
         arguments' = arguments, report' = report, TakeResponse(Len(responses) + 1)
  PROVE  /\ LedgerInOrder' /\ ResponsesInOrder' /\ ReportInOrder'
         /\ ledger' \in Ledgers /\ responses' \in Seq(Digests)
         /\ pc' \in {"ask", "close"} /\ closing' \in {closing, 1}
<1>. DEFINE n == Len(responses)
            d == Response(Asked, n + 1, bad)
<1>1. ServiceTypes /\ PipesInOrder /\ ResponsesInOrder /\ LedgerInOrder /\ ReportInOrder
  BY DEF ServiceInv
<1>2. /\ prices' = prices /\ call' = call /\ bad' = bad /\ processMode' = processMode
      /\ result = Nothing /\ ~Returned /\ ledger # Nothing /\ ledger \in Ledgers
      /\ call \in Calls /\ prices \in PriceVectors /\ bad \in BadShares
  BY <1>1 DEF LedgerInOrder, arguments, Returned, Nothing, ServiceTypes
<1>3. ReportInOrder'
  BY <1>1, <1>2, ReportKept
<1>4. n \in Nat /\ n + 1 \in 1 .. Len(call.order) /\ Asked = call.order[n + 1]
      /\ d \in Digests /\ responses \in Seq(Digests)
  BY <1>1, AskedIsOperator DEF Asked, ServiceTypes
<1>5. ledger = Computed /\ AsCharged(ledger, n) /\ Accepted(call)
  BY <1>1, <1>2 DEF LedgerInOrder
<1>6. CASE Chargeable(ledger, call.ablation, Asked)
  <2>1. /\ ledger' = Charge(ledger, call.ablation, d) /\ responses' = Append(responses, d)
        /\ pc' = "ask" /\ closing' = closing /\ result' = result
    BY <1>6 DEF TakeResponse
  <2>. HIDE DEF d
  <2>2. /\ Len(responses') = n + 1 /\ responses' \in Seq(Digests)
        /\ \A i \in 1 .. n : responses'[i] = responses[i]
        /\ responses'[n + 1] = d
        /\ DOMAIN responses' = 1 .. n + 1
    BY <1>4, <2>1, AppendProperties, LenProperties
  <2>3. ResponsesInOrder'
    <3>1. \A i \in 1 .. n + 1 : responses'[i] = Response(call.order[i], i, bad)
      <4>1. \A i \in 1 .. n : responses[i] = Response(call.order[i], i, bad)
        BY <1>1 DEF ResponsesInOrder
      <4>2. \A i \in 1 .. n + 1 : i \in 1 .. n \/ i = n + 1
        BY <1>4
      <4>3. QED
        BY <1>4, <2>2, <4>1, <4>2 DEF d
    <3>2. responses' = [i \in 1 .. n + 1 |-> responses'[i]]
      BY <2>2
    <3>3. responses' = [i \in 1 .. n + 1 |-> Response(call.order[i], i, bad)]
      BY <3>1, <3>2
    <3>4. QED
      BY <1>2, <1>4, <2>2, <3>3 DEF ResponsesInOrder
  <2>4. AsCharged(ledger', n + 1)
    BY <1>2, <1>4, <1>5, <1>6, <2>1, ChargedFits DEF d
  <2>5. Computed' = ledger'
    <3>1. LedgerAfter(prices, call.source, call.ablation, Append(responses, d))
            = Charge(LedgerAfter(prices, call.source, call.ablation, responses), call.ablation, d)
      BY <1>4, LedgerCharged
    <3>2. QED
      BY <1>2, <1>5, <2>1, <3>1 DEF Computed
  <2>6. ledger' \in Ledgers /\ ledger' # Nothing
    <3>1. ledger' \in Ledgers
      BY <2>4 DEF AsCharged
    <3>2. QED
      BY <3>1, NoLedger
  <2>7. AsCharged(Computed, Len(responses))'
    BY <1>2, <2>2, <2>4, <2>5 DEF AsCharged, RecordFits
  <2>8. ~Returned'
    BY <1>2, <2>1 DEF Returned, Nothing
  <2>9. LedgerInOrder'
    BY <1>2, <1>5, <2>1, <2>5, <2>6, <2>7, <2>8 DEF LedgerInOrder
  <2>10. QED
    BY <1>3, <2>1, <2>2, <2>3, <2>6, <2>9
<1>7. CASE ~Chargeable(ledger, call.ablation, Asked)
  <2>1. Unwind /\ ledger' = ledger /\ responses' = responses
    BY <1>7 DEF TakeResponse
  <2>2. LedgerInOrder' /\ ResponsesInOrder'
    BY <1>1, <1>2, <2>1, LedgerKept, ResponsesKept DEF Unwind
  <2>3. QED
    BY <1>2, <1>3, <1>4, <2>1, <2>2 DEF Unwind
<1>8. QED
  BY <1>6, <1>7

\* Without workers the response is computed where it is charged.
LEMMA RespondInProcessKeeps == ServiceInv /\ RespondInProcess => ServiceInv'
<1>. SUFFICES ASSUME ServiceInv, RespondInProcess PROVE ServiceInv'
  OBVIOUS
<1>. USE DEF RespondInProcess
<1>1. ServiceTypes /\ PipesInOrder
  BY DEF ServiceInv
<1>2. /\ LedgerInOrder' /\ ResponsesInOrder' /\ ReportInOrder'
      /\ ledger' \in Ledgers /\ responses' \in Seq(Digests)
      /\ pc' \in {"ask", "close"} /\ closing' \in {closing, 1}
  BY TakeResponseKeeps
<1>3. /\ prices' = prices /\ call' = call /\ bad' = bad /\ processMode' = processMode
      /\ worker' = worker /\ toWorker' = toWorker /\ toParent' = toParent
  BY DEF arguments, pipes
<1>4. PipesInOrder'
  BY <1>1, <1>2, <1>3 DEF PipesInOrder
<1>5. ServiceTypes'
  BY <1>1, <1>2, <1>3, NobodyLeft DEF ServiceTypes
<1>6. QED
  BY <1>2, <1>4, <1>5 DEF ServiceInv

\* What is read is the answer for the next position: the pipes are in order.
LEMMA ReceiveKeeps == ServiceInv /\ Receive => ServiceInv'
<1>. SUFFICES ASSUME ServiceInv, Receive PROVE ServiceInv'
  OBVIOUS
<1>. USE DEF Receive
<1>1. ServiceTypes /\ PipesInOrder
  BY DEF ServiceInv
<1>2. Len(responses) \in Nat /\ Len(call.order) \in Nat
  <2>1. call \in Calls /\ prices \in PriceVectors /\ bad \in BadShares
    BY <1>1 DEF ServiceTypes
  <2>2. QED
    BY <1>1, <2>1, ArgumentTypes, LenProperties DEF ServiceTypes
<1>3. Len(responses) < Len(call.order)
  BY <1>1, <1>2 DEF PipesInOrder
<1>4. Asked \in Operators
  BY <1>1, <1>3, AskedIsOperator
<1>5. toParent[Asked] = Message("response", Len(responses) + 1)
  <2>1. toParent[Asked] \in {Silence, Message("response", Len(responses) + 1)}
    BY <1>1 DEF PipesInOrder
  <2>2. QED
    BY <2>1 DEF Silence
<1>6. TakeResponse(Len(responses) + 1)
  BY <1>5 DEF Message
<1>7. /\ LedgerInOrder' /\ ResponsesInOrder' /\ ReportInOrder'
      /\ ledger' \in Ledgers /\ responses' \in Seq(Digests)
      /\ pc' \in {"ask", "close"} /\ closing' \in {closing, 1}
  BY <1>3, <1>6, TakeResponseKeeps
<1>8. /\ prices' = prices /\ call' = call /\ bad' = bad /\ processMode' = processMode
      /\ worker' = worker /\ toWorker' = toWorker
      /\ toParent' = [toParent EXCEPT ![Asked] = Silence]
  BY DEF arguments, TakenFrom
<1>9. ServiceTypes'
  <2>1. Silence \in [kind : {"none", "response", "stopped"}, at : Nat]
    BY MessageTypes
  <2>2. toParent' \in [Operators -> [kind : {"none", "response", "stopped"}, at : Nat]]
    BY <1>1, <1>8, <2>1 DEF ServiceTypes
  <2>3. QED
    BY <1>1, <1>7, <1>8, <2>2, NobodyLeft DEF ServiceTypes
<1>10. PipesInOrder'
  <2>1. pc = "await" /\ toParent \in [Operators -> [kind : {"none", "response", "stopped"}, at : Nat]]
    BY <1>1 DEF ServiceTypes
  <2>2. \A op \in Operators : toParent'[op] = Silence
    BY <1>1, <1>4, <1>8, <2>1 DEF PipesInOrder
  <2>3. \A op \in Operators : toWorker[op] = Silence
    <3>1. toWorker[Asked] = Silence
      BY <1>1, <1>5 DEF PipesInOrder, Silence, Message
    <3>2. QED
      BY <1>1, <3>1 DEF PipesInOrder
  <2>4. QED
    BY <1>7, <1>8, <2>2, <2>3 DEF PipesInOrder
<1>11. QED
  BY <1>7, <1>9, <1>10 DEF ServiceInv

\* A worker that died ends the execution, with the ledger as it was.
LEMMA ReceiveNothingKeeps == ServiceInv /\ ReceiveNothing => ServiceInv'
<1>. SUFFICES ASSUME ServiceInv, ReceiveNothing PROVE ServiceInv'
  OBVIOUS
<1>. USE DEF ReceiveNothing
<1>1. ServiceTypes /\ PipesInOrder /\ ResponsesInOrder /\ LedgerInOrder /\ ReportInOrder
  BY DEF ServiceInv
<1>2. /\ prices' = prices /\ call' = call /\ bad' = bad /\ processMode' = processMode
      /\ worker' = worker /\ toWorker' = toWorker /\ toParent' = toParent
      /\ Unwind /\ ~Returned
  BY <1>1 DEF LedgerInOrder, arguments, pipes, Returned, Nothing
<1>3. LedgerInOrder' /\ ResponsesInOrder' /\ ReportInOrder'
  BY <1>1, <1>2, LedgerKept, ResponsesKept, ReportKept DEF Unwind
<1>4. PipesInOrder'
  BY <1>2 DEF PipesInOrder, Unwind
<1>5. ServiceTypes'
  BY <1>1, <1>2, NobodyLeft DEF ServiceTypes, Unwind
<1>6. QED
  BY <1>3, <1>4, <1>5 DEF ServiceInv

\* Asking the workers to stop and waiting for them.
LEMMA ClosingKeeps == ServiceInv /\ (AskToStop \/ Stopped \/ Join) => ServiceInv'
<1>. SUFFICES ASSUME ServiceInv, AskToStop \/ Stopped \/ Join PROVE ServiceInv'
  OBVIOUS
<1>1. ServiceTypes /\ PipesInOrder /\ ResponsesInOrder /\ LedgerInOrder /\ ReportInOrder
  BY DEF ServiceInv
<1>2. /\ arguments' = arguments /\ ledger' = ledger /\ responses' = responses
      /\ result' = result /\ report' = report
      /\ pc \in {"close", "awaitStop"} /\ pc' \in {"close", "awaitStop", "over"}
      /\ prices' = prices /\ call' = call /\ bad' = bad /\ processMode' = processMode
  BY DEF AskToStop, Stopped, Join, arguments
<1>3. LedgerInOrder' /\ ResponsesInOrder' /\ ReportInOrder'
  BY <1>1, <1>2, LedgerKept, ResponsesKept, ReportKept
<1>4. PipesInOrder'
  BY <1>2 DEF PipesInOrder
<1>5. ServiceTypes'
  <2>1. CASE AskToStop
    <3>1. closing \in Operators => closing + 1 \in 0 .. Cardinality(Operators) + 1
      BY NobodyLeft
    <3>2. toWorker' \in [Operators -> [kind : {"none", "respond", "stop"}, at : Nat]]
      <4>1. 0 \in Nat /\ Message("stop", 0) \in [kind : {"none", "respond", "stop"}, at : Nat]
        BY MessageTypes
      <4>2. QED
        BY <1>1, <2>1, <4>1 DEF AskToStop, ServiceTypes
    <3>3. QED
      BY <1>1, <1>2, <2>1, <3>1, <3>2 DEF AskToStop, ServiceTypes
  <2>2. CASE Stopped
    <3>1. closing \in Operators /\ closing + 1 \in 0 .. Cardinality(Operators) + 1
      BY <1>1, <2>2, NobodyLeft DEF Stopped, ServiceTypes
    <3>2. Silence \in [kind : {"none", "response", "stopped"}, at : Nat]
      BY MessageTypes
    <3>3. toParent' \in [Operators -> [kind : {"none", "response", "stopped"}, at : Nat]]
      BY <1>1, <2>2, <3>2 DEF Stopped, TakenFrom, ServiceTypes
    <3>4. QED
      BY <1>1, <1>2, <2>2, <3>1, <3>3 DEF Stopped, ServiceTypes
  <2>3. CASE Join
    BY <1>1, <1>2, <2>3 DEF Join, ServiceTypes
  <2>4. QED
    BY <2>1, <2>2, <2>3
<1>6. QED
  BY <1>3, <1>4, <1>5 DEF ServiceInv

\* The report is the assessment of what was returned.
LEMMA JudgeKeeps == \A coverage \in Coverages : ServiceInv /\ Judge(coverage) => ServiceInv'
<1>. SUFFICES ASSUME NEW coverage \in Coverages, ServiceInv, Judge(coverage) PROVE ServiceInv'
  OBVIOUS
<1>. USE DEF Judge
<1>1. ServiceTypes /\ PipesInOrder /\ ResponsesInOrder /\ LedgerInOrder /\ ReportInOrder
  BY DEF ServiceInv
<1>2. /\ prices' = prices /\ call' = call /\ bad' = bad /\ processMode' = processMode
      /\ worker' = worker /\ toWorker' = toWorker /\ toParent' = toParent
  BY DEF arguments, pipes
<1>3. LedgerInOrder' /\ ResponsesInOrder'
  BY <1>1, LedgerKept, ResponsesKept
<1>4. PipesInOrder' /\ ServiceTypes'
  BY <1>1, <1>2 DEF PipesInOrder, ServiceTypes
<1>5. ReportInOrder'
  <2>1. Returned'
    BY DEF Returned
  <2>2. QED
    BY <1>2, <2>1 DEF ReportInOrder
<1>6. QED
  BY <1>3, <1>4, <1>5 DEF ServiceInv

\* The workers, and what may happen to them.
LEMMA WorkerKeeps == \A op \in Operators : ServiceInv /\ (Work(op) \/ Die(op)) => ServiceInv'
<1>. SUFFICES ASSUME NEW op \in Operators, ServiceInv, Work(op) \/ Die(op) PROVE ServiceInv'
  OBVIOUS
<1>1. ServiceTypes /\ PipesInOrder /\ ResponsesInOrder /\ LedgerInOrder /\ ReportInOrder
  BY DEF ServiceInv
<1>2. /\ arguments' = arguments /\ ledger' = ledger /\ responses' = responses
      /\ result' = result /\ report' = report /\ pc' = pc /\ closing' = closing
      /\ prices' = prices /\ call' = call /\ bad' = bad /\ processMode' = processMode
  BY DEF Work, Respond, Stop, Exit, Die, arguments
<1>3. LedgerInOrder' /\ ResponsesInOrder' /\ ReportInOrder'
  BY <1>1, <1>2, LedgerKept, ResponsesKept, ReportKept
<1>4. PipesInOrder'
  <2>1. CASE Respond(op)
    <3>1. pc \notin {"start", "launch", "ask"}
      BY <1>1, <2>1 DEF PipesInOrder, Respond, Silence
    <3>2. CASE pc = "await"
      <4>1. /\ toWorker[Asked] \in {Silence, Message("respond", Len(responses) + 1)}
            /\ Len(responses) + 1 <= Len(call.order)
            /\ \A other \in Operators \ {Asked} : toWorker[other] = Silence /\ toParent[other] = Silence
        BY <1>1, <3>2 DEF PipesInOrder
      <4>2. op = Asked /\ toWorker[Asked] = Message("respond", Len(responses) + 1)
        BY <2>1, <4>1 DEF Respond, Silence
      <4>3. /\ toWorker' = [toWorker EXCEPT ![op] = Silence]
            /\ toParent' = [toParent EXCEPT ![op] = Message("response", Len(responses) + 1)]
        BY <2>1, <4>2 DEF Respond, Message
      <4>4. Asked' = Asked
        BY <1>2 DEF Asked
      <4>5. DOMAIN toWorker = Operators /\ DOMAIN toParent = Operators
        BY <1>1 DEF ServiceTypes
      <4>6. QED
        BY <1>2, <3>2, <4>1, <4>2, <4>3, <4>4, <4>5 DEF PipesInOrder
    <3>3. CASE pc \notin {"start", "launch", "ask", "await"}
      BY <1>2, <3>3 DEF PipesInOrder
    <3>4. QED
      BY <3>1, <3>2, <3>3
  <2>2. CASE Stop(op)
    <3>1. pc \notin {"start", "launch", "ask"}
      BY <1>1, <2>2 DEF PipesInOrder, Stop, Silence
    <3>2. pc # "await"
      BY <1>1, <2>2 DEF PipesInOrder, Stop, Silence, Message
    <3>3. QED
      BY <1>2, <3>1, <3>2 DEF PipesInOrder
  <2>3. CASE Exit(op) \/ Die(op)
    <3>1. toWorker' = toWorker /\ toParent' = toParent /\ Asked' = Asked
      BY <1>2, <2>3 DEF Exit, Die, Asked
    <3>2. QED
      BY <1>1, <1>2, <3>1 DEF PipesInOrder
  <2>4. QED
    BY <2>1, <2>2, <2>3 DEF Work
<1>5. ServiceTypes'
  <2>1. CASE Respond(op)
    <3>1. toWorker[op].at \in Nat
      BY <1>1 DEF ServiceTypes
    <3>2. QED
      BY <1>1, <1>2, <2>1, <3>1, MessageTypes DEF Respond, ServiceTypes
  <2>2. CASE Stop(op)
    BY <1>1, <1>2, <2>2, MessageTypes DEF Stop, ServiceTypes
  <2>3. CASE Exit(op) \/ Die(op)
    BY <1>1, <1>2, <2>3 DEF Exit, Die, ServiceTypes
  <2>4. QED
    BY <2>1, <2>2, <2>3 DEF Work
<1>6. QED
  BY <1>3, <1>4, <1>5 DEF ServiceInv

-----------------------------------------------------------------------------
(* The end of an execution that is not interrupted.                        *)

\* Nothing but the success and the step changes.
LEMMA SuccessMarked ==
  ASSUME NEW l \in Ledgers
  PROVE  LET m == MarkSuccess(l) IN
         /\ m \in Ledgers
         /\ m.prices = l.prices /\ m.source = l.source /\ m.deposit = l.deposit
         /\ m.buyerDebit = l.buyerDebit /\ m.sponsorFunding = l.sponsorFunding
         /\ m.escrow = l.escrow /\ m.responses = l.responses /\ m.returns = l.returns
         /\ m.credits = l.credits
<1>1. l.step \in Nat /\ l.step + 1 \in Nat
  BY DEF Ledgers
<1>2. MarkSuccess(l) = [l EXCEPT !.step = l.step + 1, !.success = l.step + 1]
  BY DEF MarkSuccess, Ledgers
<1>3. QED
  BY <1>1, <1>2 DEF Ledgers

\* The sum over one index.
LEMMA TotalOfOne ==
  ASSUME NEW i, NEW f \in [{i} -> Nat]
  PROVE  Total(f) = f[i]
BY TotalOne, TotalOnAll

\* What is left goes back to the source, and nobody else gets anything.
LEMMA RefundFinalized ==
  ASSUME NEW l \in Ledgers, l.returns = << >>
  PROVE  LET m == FinalizeRefund(l) IN
         /\ m \in Ledgers
         /\ m.prices = l.prices /\ m.source = l.source /\ m.deposit = l.deposit
         /\ m.buyerDebit = l.buyerDebit /\ m.sponsorFunding = l.sponsorFunding
         /\ m.escrow = 0 /\ m.responses = l.responses /\ m.credits = l.credits
         /\ RefundedBy(m) = l.escrow
         /\ \A i \in DOMAIN m.returns :
              /\ m.returns[i].kind = "refund" /\ m.returns[i].beneficiary = l.source
              /\ m.returns[i].accounted
<1>1. l.step \in Nat /\ l.step + 1 \in Nat /\ l.escrow \in Nat /\ l.source \in Sources
  BY DEF Ledgers
<1>2. CASE l.escrow = 0
  <2>1. FinalizeRefund(l) = l
    BY <1>2 DEF FinalizeRefund
  <2>. DEFINE I == {i \in DOMAIN l.returns : l.returns[i].kind = "refund"}
              f == [i \in I |-> l.returns[i].amount]
  <2>2. DOMAIN f = {}
    OBVIOUS
  <2>. HIDE DEF f
  <2>3. Total(f) = 0
    BY <2>2, TotalOfNone
  <2>4. RefundedBy(l) = 0
    BY <2>3 DEF RefundedBy, ReturnedBy, f
  <2>5. QED
    BY <1>2, <2>1, <2>4
<1>3. CASE l.escrow # 0
  <2>. DEFINE e == [kind |-> "refund", beneficiary |-> l.source, amount |-> l.escrow, accounted |-> TRUE]
              m == FinalizeRefund(l)
              s == Append(l.returns, e)
  <2>1. m = [l EXCEPT !.step = l.step + 1, !.escrow = 0, !.returns = s]
    BY <1>3 DEF FinalizeRefund, Ledgers
  <2>2. e \in ReturnRecords
    BY <1>1 DEF ReturnRecords
  <2>3. e.kind = "refund" /\ e.beneficiary = l.source /\ e.amount = l.escrow /\ e.accounted
    OBVIOUS
  <2>. HIDE DEF e
  <2>4. s \in Seq(ReturnRecords) /\ DOMAIN s = {1} /\ s[1] = e
    <3>1. l.returns \in Seq(ReturnRecords) /\ Len(l.returns) = 0
      BY DEF Ledgers
    <3>2. s \in Seq(ReturnRecords) /\ Len(s) = 1 /\ s[Len(l.returns) + 1] = e
      BY <2>2, <3>1, AppendProperties
    <3>. HIDE DEF s
    <3>3. QED
      BY <3>1, <3>2, LenProperties
  <2>. HIDE DEF m, s
  <2>5. /\ m \in Ledgers
        /\ m.prices = l.prices /\ m.source = l.source /\ m.deposit = l.deposit
        /\ m.buyerDebit = l.buyerDebit /\ m.sponsorFunding = l.sponsorFunding
        /\ m.escrow = 0 /\ m.responses = l.responses /\ m.credits = l.credits
        /\ m.returns = s
    BY <1>1, <2>1, <2>4 DEF Ledgers
  <2>6. {i \in DOMAIN m.returns : m.returns[i].kind = "refund"} = {1}
    BY <2>3, <2>4, <2>5
  <2>7. RefundedBy(m) = l.escrow
    <3>. DEFINE f == [i \in {1} |-> s[i].amount]
    <3>1. f \in [{1} -> Nat] /\ f[1] = l.escrow
      BY <1>1, <2>3, <2>4
    <3>2. ReturnedBy(m, {1}) = Total(f)
      BY <2>5 DEF ReturnedBy
    <3>. HIDE DEF f
    <3>3. Total(f) = f[1]
      BY <3>1, TotalOfOne
    <3>4. QED
      BY <2>6, <3>1, <3>2, <3>3 DEF RefundedBy
  <2>8. QED
    BY <2>3, <2>4, <2>5, <2>7 DEF m
<1>4. QED
  BY <1>2, <1>3

\* An unaccounted return leaves the books of the escrow alone.
LEMMA ReimbursementAdded ==
  ASSUME NEW l \in Ledgers, NEW amount \in Nat
  PROVE  LET m == AddReimbursement(l, amount, FALSE) IN
         /\ m \in Ledgers
         /\ m.prices = l.prices /\ m.source = l.source /\ m.deposit = l.deposit
         /\ m.buyerDebit = l.buyerDebit /\ m.sponsorFunding = l.sponsorFunding
         /\ m.escrow = l.escrow /\ m.responses = l.responses /\ m.credits = l.credits
         /\ RefundedBy(m) = RefundedBy(l)
         /\ \E i \in DOMAIN m.returns : ~m.returns[i].accounted
<1>. DEFINE e == [kind |-> "reimbursement", beneficiary |-> Buyer, amount |-> amount, accounted |-> FALSE]
            m == AddReimbursement(l, amount, FALSE)
            s == Append(l.returns, e)
            n == Len(l.returns)
<1>1. l.step \in Nat /\ l.step + 1 \in Nat /\ l.returns \in Seq(ReturnRecords)
  BY DEF Ledgers
<1>2. e \in ReturnRecords
  BY DEF ReturnRecords, Sources
<1>3. e.kind # "refund" /\ ~e.accounted
  OBVIOUS
<1>4. m = [l EXCEPT !.step = l.step + 1, !.returns = s]
  BY DEF AddReimbursement, Ledgers
<1>. HIDE DEF e
<1>5. /\ s \in Seq(ReturnRecords) /\ n \in Nat
      /\ DOMAIN s = 1 .. n + 1 /\ DOMAIN l.returns = 1 .. n
      /\ s[n + 1] = e /\ \A i \in 1 .. n : s[i] = l.returns[i]
  BY <1>1, <1>2, AppendProperties, LenProperties
<1>. HIDE DEF m, s, n
<1>6. /\ m \in Ledgers
      /\ m.prices = l.prices /\ m.source = l.source /\ m.deposit = l.deposit
      /\ m.buyerDebit = l.buyerDebit /\ m.sponsorFunding = l.sponsorFunding
      /\ m.escrow = l.escrow /\ m.responses = l.responses /\ m.credits = l.credits
      /\ m.returns = s
  BY <1>1, <1>4, <1>5 DEF Ledgers
<1>. DEFINE I == {i \in DOMAIN m.returns : m.returns[i].kind = "refund"}
            J == {i \in DOMAIN l.returns : l.returns[i].kind = "refund"}
<1>7. I = J /\ \A i \in J : s[i] = l.returns[i]
  BY <1>3, <1>5, <1>6
<1>8. [i \in I |-> m.returns[i].amount] = [i \in J |-> l.returns[i].amount]
  <2>. HIDE DEF I, J
  <2>1. QED
    BY <1>6, <1>7
<1>9. RefundedBy(m) = RefundedBy(l)
  BY <1>8 DEF RefundedBy, ReturnedBy
<1>10. n + 1 \in DOMAIN m.returns /\ ~m.returns[n + 1].accounted
  BY <1>3, <1>5, <1>6
<1>11. QED
  BY <1>6, <1>9, <1>10 DEF m

\* The responses that are combined were accepted by the named buyer.
Delivered(c, rs) == AllValid(Used(c, rs)) /\ c.ablation # "wrong_buyer"

\* What the end makes of a ledger that was charged.
LEMMA ConcludedFacts ==
  ASSUME NEW c, NEW l \in Ledgers, l.returns = << >>, IsFiniteSet(Operators), NEW rs
  PROVE  LET result1 == Conclude(c, l, rs)
             m == result1.ledger IN
         /\ "used" \in DOMAIN result1 /\ result1.used = Used(c, rs)
         /\ result1.threshold = Threshold
         /\ result1.aggregateValid <=> AllValid(Used(c, rs))
         /\ result1.accepted <=> Delivered(c, rs)
         /\ m \in Ledgers
         /\ m.prices = l.prices /\ m.source = l.source /\ m.deposit = l.deposit
         /\ m.buyerDebit = l.buyerDebit /\ m.sponsorFunding = l.sponsorFunding
         /\ m.escrow = 0 /\ m.responses = l.responses /\ m.credits = l.credits
         /\ RefundedBy(m) = l.escrow
         /\ IF c.ablation = "reimbursement" /\ Delivered(c, rs)
            THEN \E i \in DOMAIN m.returns : ~m.returns[i].accounted
            ELSE \A i \in DOMAIN m.returns :
                   /\ m.returns[i].kind = "refund" /\ m.returns[i].beneficiary = l.source
                   /\ m.returns[i].accounted
<1>. DEFINE used == Used(c, rs)
            delivered == IF Delivered(c, rs) THEN MarkSuccess(l) ELSE l
            refunded == FinalizeRefund(delivered)
            r == Conclude(c, l, rs)
            m == IF c.ablation = "reimbursement" /\ Delivered(c, rs)
                 THEN AddReimbursement(refunded, CreditsTotal(refunded), FALSE)
                 ELSE refunded
            consumer == IF c.ablation = "wrong_buyer" THEN "mallory" ELSE Buyer
<1>0. consumer = Buyer <=> c.ablation # "wrong_buyer"
  BY DEF Buyer
<1>1. r = [threshold |-> Threshold, aggregateValid |-> AllValid(used),
           accepted |-> AllValid(used) /\ consumer = Buyer,
           consumer |-> consumer, used |-> used,
           ledger |-> m]
  BY <1>0 DEF Conclude, Delivered
<1>2. /\ "used" \in DOMAIN r /\ r.used = used /\ r.threshold = Threshold /\ r.ledger = m
      /\ r.aggregateValid <=> AllValid(used)
      /\ r.accepted <=> Delivered(c, rs)
  <2>. HIDE DEF m, used, r, consumer
  <2>1. /\ "used" \in DOMAIN r /\ r.used = used /\ r.threshold = Threshold /\ r.ledger = m
        /\ r.aggregateValid = AllValid(used) /\ r.accepted = (AllValid(used) /\ consumer = Buyer)
    BY <1>1
  <2>2. QED
    BY <1>0, <2>1 DEF Delivered, used
<1>3. /\ delivered \in Ledgers
      /\ delivered.prices = l.prices /\ delivered.source = l.source /\ delivered.deposit = l.deposit
      /\ delivered.buyerDebit = l.buyerDebit /\ delivered.sponsorFunding = l.sponsorFunding
      /\ delivered.escrow = l.escrow /\ delivered.responses = l.responses
      /\ delivered.returns = l.returns /\ delivered.credits = l.credits
  BY SuccessMarked
<1>. HIDE DEF delivered
<1>4. /\ refunded \in Ledgers
      /\ refunded.prices = l.prices /\ refunded.source = l.source /\ refunded.deposit = l.deposit
      /\ refunded.buyerDebit = l.buyerDebit /\ refunded.sponsorFunding = l.sponsorFunding
      /\ refunded.escrow = 0 /\ refunded.responses = l.responses /\ refunded.credits = l.credits
      /\ RefundedBy(refunded) = l.escrow
      /\ \A i \in DOMAIN refunded.returns :
           /\ refunded.returns[i].kind = "refund" /\ refunded.returns[i].beneficiary = l.source
           /\ refunded.returns[i].accounted
  BY <1>3, RefundFinalized
<1>. HIDE DEF refunded
<1>5. CASE c.ablation = "reimbursement" /\ Delivered(c, rs)
  <2>1. CreditsTotal(refunded) \in Nat
    <3>1. PICK S \in SUBSET Operators : refunded.credits \in [S -> Nat]
      BY <1>4 DEF Ledgers, Credits
    <3>2. IsFiniteSet(S)
      BY FS_Subset
    <3>3. QED
      BY <3>1, <3>2, TotalType DEF CreditsTotal
  <2>2. m = AddReimbursement(refunded, CreditsTotal(refunded), FALSE)
    BY <1>5
  <2>. HIDE DEF m
  <2>3. /\ m \in Ledgers
        /\ m.prices = refunded.prices /\ m.source = refunded.source /\ m.deposit = refunded.deposit
        /\ m.buyerDebit = refunded.buyerDebit /\ m.sponsorFunding = refunded.sponsorFunding
        /\ m.escrow = refunded.escrow /\ m.responses = refunded.responses /\ m.credits = refunded.credits
        /\ RefundedBy(m) = RefundedBy(refunded)
        /\ \E i \in DOMAIN m.returns : ~m.returns[i].accounted
    BY <1>4, <2>1, <2>2, ReimbursementAdded
  <2>4. QED
    BY <1>2, <1>4, <1>5, <2>3
<1>6. CASE ~(c.ablation = "reimbursement" /\ Delivered(c, rs))
  <2>1. m = refunded
    BY <1>6
  <2>. HIDE DEF m
  <2>2. QED
    BY <1>2, <1>4, <1>6, <2>1
<1>7. QED
  BY <1>5, <1>6

\* What was charged is a number of units.
LEMMA LedgerSums ==
  ASSUME NEW l \in Ledgers
  PROVE  ChargedBy(l) \in Nat
<1>. DEFINE I == DOMAIN l.responses
            f == [i \in I |-> l.responses[i].price]
<1>1. l.responses \in Seq(LedgerRecords)
  BY DEF Ledgers
<1>2. I = 1 .. Len(l.responses) /\ Len(l.responses) \in Nat
      /\ \A i \in I : l.responses[i] \in LedgerRecords
  BY <1>1, LenProperties, ElementOfSeq
<1>3. IsFiniteSet(I) /\ f \in [I -> Nat]
  <2>1. f \in [I -> Nat]
    BY <1>2 DEF LedgerRecords
  <2>. HIDE DEF f
  <2>2. IsFiniteSet(1 .. Len(l.responses))
    BY <1>2, FS_Interval
  <2>3. QED
    BY <1>2, <2>1, <2>2
<1>. HIDE DEF f, I
<1>4. Total(f) \in Nat
  BY <1>3, TotalType
<1>5. QED
  BY <1>4 DEF ChargedBy, f, I

\* Concluding the order, or failing to combine.
LEMMA FinishKeeps == ServiceInv /\ Finish => ServiceInv'
<1>. SUFFICES ASSUME ServiceInv, Finish PROVE ServiceInv'
  OBVIOUS
<1>. USE DEF Finish
<1>1. ServiceTypes /\ PipesInOrder /\ ResponsesInOrder /\ LedgerInOrder /\ ReportInOrder
  BY DEF ServiceInv
<1>2. /\ prices' = prices /\ call' = call /\ bad' = bad /\ processMode' = processMode
      /\ worker' = worker /\ toWorker' = toWorker /\ toParent' = toParent
      /\ result = Nothing /\ ~Returned /\ ledger # Nothing
  BY <1>1 DEF LedgerInOrder, arguments, pipes, Returned, Nothing
<1>3. ReportInOrder' /\ ResponsesInOrder'
  BY <1>1, <1>2, ReportKept, ResponsesKept
<1>4. PipesInOrder'
  BY DEF PipesInOrder
<1>5. CASE ~Combines(Used(call, responses))
  <2>1. result' = Raised /\ ledger' = ledger
    BY <1>5
  <2>2. LedgerInOrder'
    BY <1>1, <1>2, <2>1, LedgerKept
  <2>3. ServiceTypes'
    BY <1>1, <1>2, <2>1, NobodyLeft DEF ServiceTypes
  <2>4. QED
    BY <1>3, <1>4, <2>2, <2>3 DEF ServiceInv
<1>6. CASE Combines(Used(call, responses))
  <2>1. result' = Conclude(call, ledger, responses) /\ ledger' = Conclude(call, ledger, responses).ledger
    BY <1>6
  <2>2. ledger = Computed /\ Accepted(call) /\ AsCharged(Computed, Len(responses))
    BY <1>1, <1>2 DEF LedgerInOrder
  <2>3. ledger \in Ledgers /\ ledger.returns = << >>
    BY <2>2 DEF AsCharged
  <2>4. /\ "used" \in DOMAIN Conclude(call, ledger, responses)
        /\ Conclude(call, ledger, responses).ledger \in Ledgers
    BY <2>3, ServiceConstants, ConcludedFacts
  <2>5. Returned' /\ ledger' \in Ledgers /\ ledger' # Nothing
    BY <2>1, <2>4, NoLedger DEF Returned
  <2>6. Computed' = Computed
    BY <1>2 DEF Computed
  <2>7. AsCharged(Computed, Len(responses))'
    BY <1>2, <2>2, <2>6 DEF AsCharged, RecordFits
  <2>8. LedgerInOrder'
    BY <1>2, <1>6, <2>1, <2>2, <2>5, <2>6, <2>7 DEF LedgerInOrder
  <2>9. ServiceTypes'
    BY <1>1, <1>2, <2>5, NobodyLeft DEF ServiceTypes
  <2>10. QED
    BY <1>3, <1>4, <2>8, <2>9 DEF ServiceInv
<1>7. QED
  BY <1>5, <1>6

\* A step that changes nothing.
LEMMA ServiceStutters == ServiceInv /\ UNCHANGED serviceVars => ServiceInv'
<1>. SUFFICES ASSUME ServiceInv, UNCHANGED serviceVars PROVE ServiceInv'
  OBVIOUS
<1>1. ServiceTypes /\ PipesInOrder /\ ResponsesInOrder /\ LedgerInOrder /\ ReportInOrder
  BY DEF ServiceInv
<1>2. /\ prices' = prices /\ call' = call /\ bad' = bad /\ processMode' = processMode
      /\ worker' = worker /\ toWorker' = toWorker /\ toParent' = toParent /\ pc' = pc
      /\ ledger' = ledger /\ responses' = responses /\ closing' = closing
      /\ result' = result /\ report' = report
      /\ arguments' = arguments
  BY DEF serviceVars, arguments
<1>3. LedgerInOrder' /\ ResponsesInOrder' /\ ReportInOrder'
  BY <1>1, <1>2, LedgerKept, ResponsesKept, ReportKept
<1>4. PipesInOrder' /\ ServiceTypes'
  <2>1. Asked' = Asked
    BY <1>2 DEF Asked
  <2>2. QED
    BY <1>1, <1>2, <2>1 DEF PipesInOrder, ServiceTypes
<1>5. QED
  BY <1>3, <1>4 DEF ServiceInv

\* ThresholdResponseService.execute with workers that may die: at most one
\* question is under way, the responses are those to the first positions of the
\* order, and the ledger is what the computation makes of them.
THEOREM ServiceInvariant == ServiceSpec => []ServiceInv
<1>1. ServiceInit => ServiceInv
  BY ServiceStarts
<1>2. ServiceInv /\ [ServiceNext]_serviceVars => ServiceInv'
  <2>. SUFFICES ASSUME ServiceInv, [ServiceNext]_serviceVars PROVE ServiceInv'
    OBVIOUS
  <2>1. CASE Start
    BY <2>1, StartKeeps
  <2>2. CASE Ask
    BY <2>2, AskKeeps
  <2>3. CASE RespondInProcess
    BY <2>3, RespondInProcessKeeps
  <2>4. CASE Receive
    BY <2>4, ReceiveKeeps
  <2>5. CASE ReceiveNothing
    BY <2>5, ReceiveNothingKeeps
  <2>6. CASE Finish
    BY <2>6, FinishKeeps
  <2>7. CASE AskToStop \/ Stopped \/ Join
    BY <2>7, ClosingKeeps
  <2>8. CASE \E coverage \in Coverages : Judge(coverage)
    BY <2>8, JudgeKeeps
  <2>9. CASE \E op \in Operators : Work(op) \/ Die(op)
    BY <2>9, WorkerKeeps
  <2>10. CASE UNCHANGED serviceVars
    BY <2>10, ServiceStutters
  <2>11. CASE Launch \/ LaunchFails
    BY <2>11, LaunchKeeps
  <2>12. QED
    BY <2>1, <2>2, <2>3, <2>4, <2>5, <2>6, <2>7, <2>8, <2>9, <2>10, <2>11 DEF ServiceNext, Execute
<1>3. QED
  BY <1>1, <1>2, PTL DEF ServiceSpec

\* Types of every reachable state, for any committee, prices and calls; above
\* all, the escrow of an order is never overdrawn.
THEOREM ServiceTypeCorrect == ServiceSpec => []ServiceTypes
<1>1. ServiceInv => ServiceTypes
  BY DEF ServiceInv
<1>2. QED
  BY <1>1, ServiceInvariant, PTL

\* The ledger of an order at all times: the deposit is in escrow, was charged or
\* was refunded, and the credits are what was charged.
THEOREM BooksAreBalanced == ServiceSpec => []BooksBalance
<1>1. ServiceInv => BooksBalance
  <2>. SUFFICES ASSUME ServiceInv, ledger # Nothing
                PROVE  /\ ledger.deposit = ledger.escrow + ChargedBy(ledger) + RefundedBy(ledger)
                       /\ CreditsTotal(ledger) <= ChargedBy(ledger)
                       /\ call.ablation # "early_release" => CreditsTotal(ledger) = ChargedBy(ledger)
    BY DEF BooksBalance
  <2>. DEFINE l == Computed
  <2>1. /\ LedgerInOrder /\ AsCharged(l, Len(responses))
        /\ ledger = l \/ (Returned /\ ledger = Conclude(call, l, responses).ledger)
    BY DEF ServiceInv, LedgerInOrder
  <2>. HIDE DEF l
  <2>2. /\ l \in Ledgers /\ l.returns = << >>
        /\ l.deposit = l.escrow + ChargedBy(l)
        /\ CreditsTotal(l) <= ChargedBy(l)
        /\ call.ablation # "early_release" => CreditsTotal(l) = ChargedBy(l)
    BY <2>1 DEF AsCharged
  <2>3. l.escrow \in Nat /\ l.deposit \in Nat
    BY <2>2 DEF Ledgers
  <2>4. CASE ledger = l
    <3>. DEFINE I == {i \in DOMAIN l.returns : l.returns[i].kind = "refund"}
                f == [i \in I |-> l.returns[i].amount]
    <3>1. DOMAIN f = {}
      BY <2>2
    <3>. HIDE DEF f
    <3>2. Total(f) = 0
      BY <3>1, TotalOfNone
    <3>3. RefundedBy(l) = 0
      BY <3>2 DEF RefundedBy, ReturnedBy, f
    <3>4. ChargedBy(l) \in Nat
      BY <2>2, LedgerSums
    <3>5. QED
      BY <2>2, <2>3, <2>4, <3>3, <3>4
  <2>5. CASE Returned /\ ledger = Conclude(call, l, responses).ledger
    <3>1. /\ ledger.deposit = l.deposit /\ ledger.escrow = 0 /\ ledger.responses = l.responses
          /\ ledger.credits = l.credits /\ RefundedBy(ledger) = l.escrow
      BY <2>2, <2>5, ServiceConstants, ConcludedFacts
    <3>2. ChargedBy(ledger) = ChargedBy(l) /\ CreditsTotal(ledger) = CreditsTotal(l)
      BY <3>1 DEF ChargedBy, CreditsTotal
    <3>3. ChargedBy(l) \in Nat
      BY <2>2, LedgerSums
    <3>4. QED
      BY <2>2, <2>3, <3>1, <3>2, <3>3
  <2>6. QED
    BY <2>1, <2>4, <2>5
<1>2. QED
  BY <1>1, ServiceInvariant, PTL

\* What execute returns with worker processes, whatever dies when, is what the
\* computation without processes returns.
THEOREM ResultIsOfTheCall == ServiceSpec => []ResultOfTheCall
<1>1. ServiceInv => ResultOfTheCall
  <2>. SUFFICES ASSUME ServiceInv, Returned, bad = {} PROVE result = Execution(prices, call)
    BY DEF ResultOfTheCall
  <2>1. /\ result = Conclude(call, Computed, responses)
        /\ Len(responses) = Len(call.order)
        /\ responses = [i \in 1 .. Len(responses) |-> Response(call.order[i], i, bad)]
        /\ call \in Calls /\ prices \in PriceVectors /\ bad \in BadShares
    BY DEF ServiceInv, LedgerInOrder, ResponsesInOrder, ServiceTypes
  <2>2. DOMAIN call.order = 1 .. Len(call.order)
    BY <2>1, ArgumentTypes
  <2>3. responses = ResponsesTo(call, {})
    BY <2>1, <2>2 DEF ResponsesTo
  <2>4. QED
    BY <2>1, <2>3 DEF Execution, Computed
<1>2. QED
  BY <1>1, ServiceInvariant, PTL

-----------------------------------------------------------------------------
(* The verdict on a result.                                                *)

\* As many are asked as are combined.
LEMMA OrderLongEnough ==
  ASSUME call \in Calls, prices \in PriceVectors, bad \in BadShares, Accepted(call)
  PROVE  Threshold \in Nat /\ Threshold \in 1 .. Len(call.order)
<1>. DEFINE I == 1 .. Len(call.order)
            T == ToSet(call.order)
<1>1. /\ Len(call.order) \in Nat /\ DOMAIN call.order = I
      /\ call.order \in Seq(Operators) /\ Threshold \in Nat \ {0}
  BY ArgumentTypes
<1>2. call.order \in Surjection(I, T)
  <2>1. call.order \in [I -> T]
    BY <1>1, LenProperties DEF ToSet
  <2>2. QED
    BY <1>1, <2>1 DEF ToSet, Surjection
<1>3. IsFiniteSet(I) /\ Cardinality(I) = Len(call.order)
  <2>1. 1 \in Int /\ Len(call.order) \in Int
        /\ (1 > Len(call.order) => Len(call.order) = 0)
        /\ Len(call.order) - 1 + 1 = Len(call.order)
    BY <1>1
  <2>2. QED
    BY <2>1, FS_Interval
<1>. HIDE DEF I, T
<1>4. IsFiniteSet(T) /\ Cardinality(T) <= Len(call.order)
  BY <1>2, <1>3, FS_Surjection
<1>5. Cardinality(T) >= Threshold /\ Cardinality(T) \in Nat
  BY <1>4, FS_CardinalityType DEF Accepted, T
<1>6. QED
  BY <1>1, <1>4, <1>5

\* The last of the entries of an operator is one of them.
LEMMA LastOfFacts ==
  ASSUME NEW S, NEW seq \in Seq(S), NEW op, \E i \in 1 .. Len(seq) : seq[i].operator = op
  PROVE  \E i \in 1 .. Len(seq) : LastOf(seq, op) = seq[i] /\ seq[i].operator = op
<1>. DEFINE T == {i \in 1 .. Len(seq) : seq[i].operator = op}
            Latest(i) == seq[i].operator = op /\ \A j \in DOMAIN seq : seq[j].operator = op => j <= i
<1>1. Len(seq) \in Nat /\ DOMAIN seq = 1 .. Len(seq)
  BY LenProperties
<1>2. T \in SUBSET Nat /\ T # {}
  BY <1>1
<1>3. IsFiniteSet(T)
  <2>1. IsFiniteSet(1 .. Len(seq)) /\ T \in SUBSET (1 .. Len(seq))
    BY <1>1, FS_Interval
  <2>. HIDE DEF T
  <2>2. QED
    BY <2>1, FS_Subset
<1>4. PICK m \in T : \A j \in T : m >= j
  <2>. HIDE DEF T
  <2>1. QED
    BY <1>2, <1>3, GreatestNatural
<1>5. m \in DOMAIN seq /\ Latest(m)
  BY <1>1, <1>4
<1>. DEFINE k == CHOOSE i \in DOMAIN seq : Latest(i)
<1>6. k \in DOMAIN seq /\ Latest(k)
  <2>. HIDE DEF Latest
  <2>1. QED
    BY <1>5
<1>7. LastOf(seq, op) = seq[k]
  BY DEF LastOf
<1>8. QED
  BY <1>1, <1>6, <1>7

\* What a result was computed from.
LEMMA ReturnedFacts ==
  ASSUME ServiceInv, Returned
  PROVE  /\ call \in Calls /\ prices \in PriceVectors /\ bad \in BadShares
         /\ Accepted(call) /\ responses \in Seq(Digests) /\ Len(responses) = Len(call.order)
         /\ \A i \in 1 .. Len(call.order) : responses[i] = Response(call.order[i], i, bad)
         /\ AsCharged(Computed, Len(call.order))
         /\ Combines(Used(call, responses))
         /\ result = Conclude(call, Computed, responses)
<1>1. ServiceTypes /\ LedgerInOrder /\ ResponsesInOrder
  BY DEF ServiceInv
<1>2. call \in Calls /\ prices \in PriceVectors /\ bad \in BadShares /\ responses \in Seq(Digests)
  BY <1>1 DEF ServiceTypes
<1>3. /\ Accepted(call) /\ Len(responses) = Len(call.order)
      /\ AsCharged(Computed, Len(responses))
      /\ Combines(Used(call, responses))
      /\ result = Conclude(call, Computed, responses)
  BY <1>1 DEF LedgerInOrder
<1>4. responses = [i \in 1 .. Len(responses) |-> Response(call.order[i], i, bad)]
  BY <1>1 DEF ResponsesInOrder
<1>5. \A i \in 1 .. Len(call.order) : responses[i] = Response(call.order[i], i, bad)
  BY <1>3, <1>4
<1>6. QED
  BY <1>2, <1>3, <1>5

\* The responses that were combined are of the operators asked first.
LEMMA UsedFacts ==
  ASSUME ServiceInv, Returned
  PROVE  /\ DOMAIN Used(call, responses) = 1 .. Threshold
         /\ \A i \in 1 .. Threshold :
              /\ Used(call, responses)[i].operator = call.order[i]
              /\ call.order[i] \in Operators
         /\ OperatorsOf(Used(call, responses)) = {call.order[i] : i \in 1 .. Threshold}
<1>. DEFINE used == Used(call, responses)
<1>1. /\ call \in Calls /\ prices \in PriceVectors /\ bad \in BadShares
      /\ Accepted(call) /\ responses \in Seq(Digests) /\ Len(responses) = Len(call.order)
      /\ \A i \in 1 .. Len(call.order) : responses[i] = Response(call.order[i], i, bad)
  BY ReturnedFacts
<1>2. /\ Threshold \in Nat /\ Threshold \in 1 .. Len(call.order) /\ Len(call.order) \in Nat
      /\ \A i \in 1 .. Len(call.order) : call.order[i] \in Operators
  BY <1>1, OrderLongEnough, ArgumentTypes
<1>3. used = [i \in 1 .. Threshold |-> LastOf(responses, call.order[i])]
  BY DEF Used
<1>4. ASSUME NEW i \in 1 .. Threshold
      PROVE  used[i].operator = call.order[i] /\ call.order[i] \in Operators
  <2>1. i \in 1 .. Len(call.order)
    BY <1>2
  <2>2. responses[i].operator = call.order[i]
    <3>1. responses[i] = Response(call.order[i], i, bad)
      BY <1>1, <2>1
    <3>2. QED
      BY <3>1 DEF Response
  <2>3. \E j \in 1 .. Len(responses) : responses[j].operator = call.order[i]
    BY <1>1, <2>1, <2>2
  <2>4. PICK j \in 1 .. Len(responses) :
          LastOf(responses, call.order[i]) = responses[j] /\ responses[j].operator = call.order[i]
    BY <1>1, <2>3, LastOfFacts
  <2>5. QED
    BY <1>2, <1>3, <2>1, <2>4
<1>. HIDE DEF used
<1>5. DOMAIN used = 1 .. Threshold
  BY <1>3
<1>6. OperatorsOf(used) = {call.order[i] : i \in 1 .. Threshold}
  BY <1>4, <1>5 DEF OperatorsOf
<1>7. QED
  BY <1>4, <1>5, <1>6 DEF used

\* What is in the records of the responses that were combined: the record of
\* the first operator asked is among them.
LEMMA CountedFacts ==
  ASSUME ServiceInv, Returned
  PROVE  /\ (\E r \in CountedRecords(result) : ~r.ordering) <=> call.ablation = "untimed"
         /\ (\E r \in CountedRecords(result) : r.creditStep > r.releaseStep) <=> call.ablation = "early_release"
         /\ (\E r \in CountedRecords(result) : r.route \notin CoveredRoutes) <=> call.ablation = "bypass"
<1>. DEFINE l == Computed
            n == Len(call.order)
            Fits(r) ==
              /\ ~r.ordering <=> call.ablation = "untimed"
              /\ r.creditStep > r.releaseStep <=> call.ablation = "early_release"
              /\ r.route \notin CoveredRoutes <=> call.ablation = "bypass"
<1>1. /\ call \in Calls /\ prices \in PriceVectors /\ bad \in BadShares /\ Accepted(call)
      /\ AsCharged(l, n) /\ result = Conclude(call, l, responses)
  BY ReturnedFacts
<1>. HIDE DEF l
<1>2. /\ l \in Ledgers /\ l.returns = << >> /\ Len(l.responses) = n
      /\ \A i \in 1 .. n : RecordFits(l.responses[i], i)
  BY <1>1 DEF AsCharged
<1>3. result.used = Used(call, responses) /\ result.ledger.responses = l.responses
  BY <1>1, <1>2, ServiceConstants, ConcludedFacts
<1>4. n \in Nat /\ Threshold \in Nat /\ Threshold \in 1 .. n
  BY <1>1, OrderLongEnough, ArgumentTypes
<1>5. DOMAIN l.responses = 1 .. n
  <2>1. l.responses \in Seq(LedgerRecords)
    BY <1>2 DEF Ledgers
  <2>2. QED
    BY <1>2, <2>1, LenProperties
<1>6. \A i \in 1 .. n : Fits(l.responses[i])
  BY <1>2 DEF RecordFits, CoveredRoutes
<1>7. \A r \in CountedRecords(result) : Fits(r)
  <2>. HIDE DEF Fits
  <2>1. QED
    BY <1>3, <1>5, <1>6 DEF CountedRecords, Range
<1>8. l.responses[1] \in CountedRecords(result)
  <2>1. 1 \in 1 .. n /\ 1 \in 1 .. Threshold
    BY <1>4
  <2>2. l.responses[1].operator = call.order[1]
    BY <1>2, <2>1 DEF RecordFits
  <2>3. call.order[1] \in OperatorsOf(result.used)
    BY <1>3, <2>1, UsedFacts
  <2>4. QED
    BY <1>3, <1>5, <2>1, <2>2, <2>3 DEF CountedRecords, Range
<1>9. QED
  BY <1>7, <1>8

\* The operators of the aggregation witness, in order.
LEMMA WitnessFacts ==
  ASSUME ServiceInv, Returned
  PROVE  LET agg == AggregationWitness(result) IN
         /\ agg.operators = [i \in 1 .. Threshold |-> call.order[i]]
         /\ agg.operators \in Seq(Operators) /\ Len(agg.operators) = Threshold
         /\ agg.bitmap = OperatorsOf(result.used) /\ agg.hashes = result.used
         /\ agg.valid <=> AllValid(result.used)
         /\ result.threshold = Threshold
         /\ result.accepted <=> DeliveredToBuyer
<1>. DEFINE l == Computed
            ops == [i \in 1 .. Threshold |-> call.order[i]]
            agg == AggregationWitness(result)
            theirs == [i \in DOMAIN result.used |-> result.used[i].operator]
<1>1. /\ call \in Calls /\ prices \in PriceVectors /\ bad \in BadShares /\ Accepted(call)
      /\ AsCharged(l, Len(call.order)) /\ result = Conclude(call, l, responses)
  BY ReturnedFacts
<1>. HIDE DEF l
<1>2. l \in Ledgers /\ l.returns = << >>
  BY <1>1 DEF AsCharged
<1>3. /\ result.used = Used(call, responses) /\ result.threshold = Threshold
      /\ result.aggregateValid <=> AllValid(Used(call, responses))
      /\ result.accepted <=> Delivered(call, responses)
  BY <1>1, <1>2, ServiceConstants, ConcludedFacts
<1>4. result.accepted <=> DeliveredToBuyer
  BY <1>3 DEF Delivered, DeliveredToBuyer
<1>5. theirs = ops
  BY <1>3, UsedFacts
<1>6. ops \in Seq(Operators) /\ Len(ops) = Threshold
  <2>1. ops \in [1 .. Threshold -> Operators] /\ Threshold \in Nat
    BY <1>1, UsedFacts, OrderLongEnough
  <2>. HIDE DEF ops
  <2>2. ops \in Seq(Operators)
    BY <2>1, SeqDef
  <2>3. 1 .. Len(ops) = 1 .. Threshold /\ Len(ops) \in Nat
    BY <2>1, <2>2, LenProperties
  <2>4. QED
    BY <2>1, <2>3
<1>7. agg = [bitmap |-> OperatorsOf(result.used), operators |-> theirs,
             hashes |-> result.used, valid |-> result.aggregateValid]
  BY DEF AggregationWitness
<1>. HIDE DEF agg, theirs
<1>8. /\ agg.operators = theirs /\ agg.bitmap = OperatorsOf(result.used)
      /\ agg.hashes = result.used /\ agg.valid = result.aggregateValid
  BY <1>7
<1>. HIDE DEF ops
<1>9. QED
  BY <1>3, <1>4, <1>5, <1>6, <1>8 DEF agg, ops

\* What each gate says.
LEMMA GateFacts ==
  ASSUME ServiceInv, Returned, NEW coverage \in Coverages
  PROVE  LET gates == Gates(result, AggregationWitness(result), coverage) IN
         /\ gates.B1 = IF DeliveredToBuyer THEN Pass ELSE Counterexample
         /\ gates.B2 = IF call.source = Buyer THEN Pass ELSE Counterexample
         /\ gates.B3 = IF ~DeliveredToBuyer THEN NotApplicable
                       ELSE IF call.ablation = "untimed" THEN MissingEvidence
                       ELSE IF call.ablation = "early_release" THEN Counterexample ELSE Pass
         /\ gates.B4 = IF call.ablation = "reimbursement" /\ DeliveredToBuyer
                       THEN Counterexample ELSE Pass
         /\ gates.B5 = IF coverage = "UNKNOWN" THEN MissingEvidence
                       ELSE IF coverage = "REFUTED" \/ call.ablation = "bypass"
                       THEN Counterexample ELSE Pass
         /\ Range(gates) = {gates.B1, gates.B2, gates.B3, gates.B4, gates.B5}
<1>. DEFINE l == Computed
            m == result.ledger
            agg == AggregationWitness(result)
            gates == Gates(result, agg, coverage)
<1>1. /\ call \in Calls /\ prices \in PriceVectors /\ bad \in BadShares /\ Accepted(call)
      /\ AsCharged(l, Len(call.order)) /\ result = Conclude(call, l, responses)
  BY ReturnedFacts
<1>. HIDE DEF l
<1>2. /\ l \in Ledgers /\ l.returns = << >> /\ l.source = call.source
      /\ l.sponsorFunding = IF call.source # Buyer THEN l.deposit ELSE 0
  BY <1>1 DEF AsCharged
<1>3. /\ m.source = l.source /\ m.sponsorFunding = l.sponsorFunding /\ m.escrow = 0
      /\ IF call.ablation = "reimbursement" /\ Delivered(call, responses)
         THEN \E i \in DOMAIN m.returns : ~m.returns[i].accounted
         ELSE \A i \in DOMAIN m.returns : m.returns[i].accounted
      /\ result.used = Used(call, responses)
  <2>. DEFINE q == Conclude(call, l, responses)
  <2>1. /\ q.used = Used(call, responses)
        /\ q.ledger.source = l.source /\ q.ledger.sponsorFunding = l.sponsorFunding
        /\ q.ledger.escrow = 0
        /\ IF call.ablation = "reimbursement" /\ Delivered(call, responses)
           THEN \E i \in DOMAIN q.ledger.returns : ~q.ledger.returns[i].accounted
           ELSE \A i \in DOMAIN q.ledger.returns : q.ledger.returns[i].accounted
    BY <1>2, ServiceConstants, ConcludedFacts
  <2>2. q = result
    BY <1>1
  <2>. HIDE DEF q
  <2>3. QED
    BY <2>1, <2>2
<1>4. Delivered(call, responses) <=> DeliveredToBuyer
  BY <1>3 DEF Delivered, DeliveredToBuyer
<1>5. /\ Len(agg.operators) = Threshold /\ result.threshold = Threshold
      /\ agg.valid <=> AllValid(result.used)
      /\ result.accepted <=> DeliveredToBuyer
      /\ Threshold \in Nat
  BY <1>1, WitnessFacts, OrderLongEnough
<1>. HIDE DEF m, agg
<1>6. GateB1(result, agg) = IF DeliveredToBuyer THEN Pass ELSE Counterexample
  BY <1>5 DEF GateB1, DeliveredToBuyer
<1>7. GateB2(result) = IF call.source = Buyer THEN Pass ELSE Counterexample
  BY <1>2, <1>3 DEF GateB2, m
<1>8. GateB3(result, GateB1(result, agg)) =
        IF ~DeliveredToBuyer THEN NotApplicable
        ELSE IF call.ablation = "untimed" THEN MissingEvidence
        ELSE IF call.ablation = "early_release" THEN Counterexample ELSE Pass
  <2>1. Pass # Counterexample
    BY DEF Pass, Counterexample
  <2>. DEFINE U == \E r \in CountedRecords(result) : ~r.ordering
              E == \E r \in CountedRecords(result) : r.creditStep > r.releaseStep
  <2>2. (U <=> call.ablation = "untimed") /\ (E <=> call.ablation = "early_release")
    BY CountedFacts, Zenon
  <2>3. GateB3(result, GateB1(result, agg)) =
          IF GateB1(result, agg) # Pass THEN NotApplicable
          ELSE IF U THEN MissingEvidence ELSE IF E THEN Counterexample ELSE Pass
    BY DEF GateB3
  <2>. HIDE DEF U, E
  <2>4. QED
    BY <1>6, <2>1, <2>2, <2>3
<1>9. GateB4(result) = IF call.ablation = "reimbursement" /\ DeliveredToBuyer THEN Counterexample ELSE Pass
  BY <1>3, <1>4 DEF GateB4, m
<1>10. GateB5(result, coverage) =
         IF coverage = "UNKNOWN" THEN MissingEvidence
         ELSE IF coverage = "REFUTED" \/ call.ablation = "bypass" THEN Counterexample ELSE Pass
  <2>. DEFINE U == \E r \in CountedRecords(result) : r.route \notin CoveredRoutes
  <2>1. U <=> call.ablation = "bypass"
    BY CountedFacts, Zenon
  <2>2. GateB5(result, coverage) =
          IF coverage = "UNKNOWN" THEN MissingEvidence
          ELSE IF coverage = "REFUTED" \/ U THEN Counterexample ELSE Pass
    BY DEF GateB5
  <2>. HIDE DEF U
  <2>3. QED
    BY <2>1, <2>2
<1>11. gates = [B1 |-> GateB1(result, agg), B2 |-> GateB2(result),
                B3 |-> GateB3(result, GateB1(result, agg)),
                B4 |-> GateB4(result), B5 |-> GateB5(result, coverage)]
  BY DEF Gates
<1>. HIDE DEF gates
<1>12. /\ gates.B1 = GateB1(result, agg) /\ gates.B2 = GateB2(result)
       /\ gates.B3 = GateB3(result, GateB1(result, agg))
       /\ gates.B4 = GateB4(result) /\ gates.B5 = GateB5(result, coverage)
       /\ DOMAIN gates = {"B1", "B2", "B3", "B4", "B5"}
  BY <1>11
<1>13. Range(gates) = {gates.B1, gates.B2, gates.B3, gates.B4, gates.B5}
  BY <1>12 DEF Range
<1>14. QED
  BY <1>6, <1>7, <1>8, <1>9, <1>10, <1>12, <1>13 DEF gates, agg

\* Nothing is taken off a debit when there is nothing to offset.
LEMMA NothingOffset == \A d, b \in Nat : Min({d, Max({0, 0 - b})}) = 0
<1>. SUFFICES ASSUME NEW d \in Nat, NEW b \in Nat PROVE Min({d, Max({0, 0 - b})}) = 0
  OBVIOUS
<1>1. Max({0, 0 - b}) = 0
  <2>. DEFINE Most(x) == \A y \in {0, 0 - b} : x >= y
  <2>1. Most(0) /\ 0 \in {0, 0 - b} /\ \A x \in {0, 0 - b} : Most(x) => x = 0
    OBVIOUS
  <2>2. Max({0, 0 - b}) = CHOOSE x \in {0, 0 - b} : Most(x)
    BY DEF Max
  <2>. HIDE DEF Most
  <2>3. QED
    BY <2>1, <2>2
<1>2. Min({d, 0}) = 0
  <2>. DEFINE Least(x) == \A y \in {d, 0} : x <= y
  <2>1. Least(0) /\ 0 \in {d, 0} /\ \A x \in {d, 0} : Least(x) => x = 0
    OBVIOUS
  <2>2. Min({d, 0}) = CHOOSE x \in {d, 0} : Least(x)
    BY DEF Min
  <2>. HIDE DEF Least
  <2>3. QED
    BY <2>1, <2>2
<1>3. QED
  BY <1>1, <1>2

\* The record of each operator asked first, unless the charge was bypassed.
LEMMA PriceFacts ==
  ASSUME ServiceInv, Returned, call.ablation # "bypass", NEW i \in 1 .. Threshold
  PROVE  /\ LastOf(result.ledger.responses, call.order[i]).price = prices[call.order[i]]
         /\ LastOf(result.ledger.responses, call.order[i]).debit = call.order[i]
<1>. DEFINE l == Computed
            n == Len(call.order)
            op == call.order[i]
<1>1. /\ call \in Calls /\ prices \in PriceVectors /\ bad \in BadShares /\ Accepted(call)
      /\ AsCharged(l, n) /\ result = Conclude(call, l, responses)
  BY ReturnedFacts
<1>. HIDE DEF l
<1>2. /\ l \in Ledgers /\ l.returns = << >> /\ Len(l.responses) = n
      /\ \A j \in 1 .. n : RecordFits(l.responses[j], j)
      /\ l.responses \in Seq(LedgerRecords)
  BY <1>1 DEF AsCharged, Ledgers
<1>3. result.ledger.responses = l.responses
  BY <1>1, <1>2, ServiceConstants, ConcludedFacts
<1>4. i \in 1 .. n
  BY <1>1, OrderLongEnough, ArgumentTypes
<1>5. l.responses[i].operator = op
  BY <1>2, <1>4 DEF RecordFits
<1>6. \E j \in 1 .. Len(l.responses) : l.responses[j].operator = op
  BY <1>2, <1>4, <1>5
<1>. HIDE DEF op
<1>7. PICK j \in 1 .. Len(l.responses) : LastOf(l.responses, op) = l.responses[j] /\ l.responses[j].operator = op
  BY <1>2, <1>6, LastOfFacts
<1>8. l.responses[j].price = prices[op] /\ l.responses[j].debit = op
  BY <1>2, <1>7 DEF RecordFits
<1>9. QED
  BY <1>3, <1>7, <1>8 DEF op

\* The sum over the operators asked first: it is what the theory bounds.
LEMMA CoverBoundsFloor ==
  ASSUME ServiceInv, Returned, AllValid(result.used)
  PROVE  LET charges == [i \in 1 .. Threshold |-> prices[call.order[i]]] IN
         /\ charges \in [1 .. Threshold -> Nat] /\ IsFiniteSet(1 .. Threshold)
         /\ IsInjective([i \in 1 .. Threshold |-> call.order[i]])
         /\ TheoryCover(prices, Threshold) <= Total(charges)
<1>. DEFINE I == 1 .. Threshold
            k == [i \in I |-> call.order[i]]
            U == {k[i] : i \in I}
            charges == [i \in I |-> prices[call.order[i]]]
            theirs == [i \in DOMAIN result.used |-> result.used[i].operator]
<1>1. /\ call \in Calls /\ prices \in PriceVectors /\ bad \in BadShares
      /\ Combines(Used(call, responses)) /\ AsCharged(Computed, Len(call.order))
      /\ result = Conclude(call, Computed, responses)
  BY ReturnedFacts
<1>2. result.used = Used(call, responses)
  <2>1. Computed \in Ledgers /\ Computed.returns = << >>
    BY <1>1 DEF AsCharged
  <2>2. QED
    BY <1>1, <2>1, ServiceConstants, ConcludedFacts
<1>3. /\ prices \in [Operators -> Nat] /\ IsFiniteSet(Operators) /\ Threshold \in Nat \ {0}
      /\ Threshold \in Operators /\ Cardinality(Operators) \in Nat
      /\ Threshold <= Cardinality(Operators)
  BY <1>1, ArgumentTypes, NobodyLeft
<1>4. k \in [I -> Operators] /\ charges \in [I -> Nat]
  BY <1>3, UsedFacts
<1>5. theirs = k
  BY <1>2, UsedFacts
<1>6. IsInjective(k)
  <2>1. IsInjective(theirs)
    BY <1>1, <1>2 DEF Combines
  <2>. HIDE DEF theirs, k
  <2>2. QED
    BY <1>5, <2>1
<1>7. \A i, j \in I : k[i] = k[j] => i = j
  <2>1. DOMAIN k = I
    OBVIOUS
  <2>. HIDE DEF k
  <2>2. QED
    BY <1>6, <2>1 DEF IsInjective
<1>8. IsFiniteSet(I) /\ Cardinality(I) = Threshold
  <2>1. 1 \in Int /\ Threshold \in Int /\ (1 > Threshold => Threshold = 0) /\ Threshold - 1 + 1 = Threshold
    BY <1>3
  <2>2. QED
    BY <2>1, FS_Interval
<1>9. U \in SUBSET Operators /\ Cardinality(U) = Threshold
  <2>1. U \in SUBSET Operators
    BY <1>4
  <2>2. k \in Surjection(I, U) /\ k \in Injection(I, U)
    <3>1. k \in [I -> U] /\ \A u \in U : \E i \in I : k[i] = u
      OBVIOUS
    <3>. HIDE DEF k, U, I
    <3>2. QED
      BY <1>6, <3>1 DEF Surjection, Injection
  <2>. HIDE DEF k, U, I
  <2>3. Cardinality(U) = Cardinality(I)
    BY <1>8, <2>2, FS_Surjection
  <2>4. QED
    BY <1>8, <2>1, <2>3
<1>10. Total(charges) = TotalOn(prices, U)
  <2>1. charges = [i \in I |-> prices[k[i]]]
    OBVIOUS
  <2>. HIDE DEF k, I, charges
  <2>2. /\ IsFiniteSet(I) /\ prices \in [Operators -> Nat] /\ k \in [I -> Operators]
        /\ \A i, j \in I : k[i] = k[j] => i = j
    BY <1>3, <1>4, <1>7, <1>8
  <2>3. Total([i \in I |-> prices[k[i]]]) = TotalOn(prices, {k[i] : i \in I})
    BY <2>2, TotalRenamed
  <2>4. QED
    BY <2>1, <2>3
<1>11. TheoryCover(prices, Threshold) <= TotalOn(prices, U)
  <2>. DEFINE S == SmallestOf(prices, Threshold)
  <2>. HIDE DEF U
  <2>1. \E C \in SUBSET Operators :
          /\ Cardinality(C) = Threshold
          /\ \A s \in C, t \in Operators \ C : prices[s] <= prices[t]
    <3>1. /\ IsFiniteSet(Operators) /\ prices \in [Operators -> Nat] /\ Threshold \in Nat
          /\ Threshold <= Cardinality(Operators)
      BY <1>3
    <3>2. QED
      BY <3>1, CheapestExist
  <2>2. DOMAIN prices = Operators
    BY <1>3
  <2>3. /\ S \in SUBSET Operators /\ Cardinality(S) = Threshold
        /\ \A s \in S, t \in Operators \ S : prices[s] <= prices[t]
    BY <2>1, <2>2 DEF SmallestOf
  <2>. HIDE DEF S
  <2>4. TotalOn(prices, S) <= TotalOn(prices, U)
    BY <1>3, <1>9, <2>3, CheapestIsLeast
  <2>5. QED
    BY <2>4 DEF TheoryCover, S
<1>. HIDE DEF charges, I, k
<1>12. QED
  BY <1>4, <1>6, <1>8, <1>10, <1>11 DEF charges, I, k

\* What the buyer paid in the end, when nothing is wrong: what was charged,
\* and that is at least what the operators asked first were charged.
LEMMA OutflowCovers ==
  ASSUME ServiceInv, Returned, ~Wrong
  PROVE  /\ NamedBuyerNetOutflow(result.ledger) \in Nat
         /\ Total([i \in 1 .. Threshold |-> prices[call.order[i]]]) <= NamedBuyerNetOutflow(result.ledger)
<1>. DEFINE l == Computed
            m == result.ledger
            n == Len(call.order)
            f == [i \in 1 .. n |-> prices[call.order[i]]]
            charges == [i \in 1 .. Threshold |-> prices[call.order[i]]]
            I == {i \in DOMAIN m.returns : m.returns[i].beneficiary = Buyer}
            J == {i \in DOMAIN m.returns : m.returns[i].kind = "refund"}
<1>1. /\ call \in Calls /\ prices \in PriceVectors /\ bad \in BadShares /\ Accepted(call)
      /\ AsCharged(l, n) /\ result = Conclude(call, l, responses)
  BY ReturnedFacts
<1>2. call.source = Buyer /\ call.ablation \notin {"early_release", "reimbursement", "bypass"}
  BY DEF Wrong
<1>. HIDE DEF l
<1>3. /\ l \in Ledgers /\ l.returns = << >> /\ l.source = call.source
      /\ l.buyerDebit = l.deposit /\ l.deposit = l.escrow + ChargedBy(l)
      /\ Len(l.responses) = n
      /\ \A i \in 1 .. n : RecordFits(l.responses[i], i)
  BY <1>1, <1>2 DEF AsCharged
<1>4. /\ m.buyerDebit = l.buyerDebit
      /\ RefundedBy(m) = l.escrow
      /\ \A i \in DOMAIN m.returns : m.returns[i].kind = "refund" /\ m.returns[i].beneficiary = l.source
  BY <1>1, <1>2, <1>3, ServiceConstants, ConcludedFacts
<1>5. l.escrow \in Nat /\ l.deposit \in Nat /\ l.responses \in Seq(LedgerRecords) /\ ChargedBy(l) \in Nat
  BY <1>3, LedgerSums DEF Ledgers
<1>. HIDE DEF m
<1>6. ReturnsToBuyer(m) = l.escrow
  <2>1. I = J
    BY <1>2, <1>3, <1>4
  <2>2. QED
    BY <1>4, <2>1 DEF ReturnsToBuyer, RefundedBy
<1>7. NamedBuyerNetOutflow(m) = ChargedBy(l)
  BY <1>3, <1>4, <1>5, <1>6 DEF NamedBuyerNetOutflow
<1>8. ChargedBy(l) = Total(f)
  <2>1. DOMAIN l.responses = 1 .. n
    BY <1>3, <1>5, LenProperties
  <2>2. \A i \in 1 .. n : l.responses[i].price = prices[call.order[i]]
    BY <1>2, <1>3 DEF RecordFits
  <2>3. [i \in DOMAIN l.responses |-> l.responses[i].price] = f
    BY <2>1, <2>2
  <2>4. QED
    BY <2>3 DEF ChargedBy
<1>9. Total(charges) <= Total(f)
  <2>1. /\ n \in Nat /\ Threshold \in 1 .. n /\ prices \in [Operators -> Nat]
        /\ \A i \in 1 .. n : call.order[i] \in Operators
    BY <1>1, OrderLongEnough, ArgumentTypes
  <2>2. f \in [1 .. n -> Nat] /\ 1 .. Threshold \in SUBSET (1 .. n)
    BY <2>1
  <2>3. charges = Restrict(f, 1 .. Threshold)
    BY <2>2 DEF Restrict
  <2>4. IsFiniteSet(1 .. n)
    BY <2>1, FS_Interval
  <2>. HIDE DEF f, charges
  <2>5. /\ TotalOn(f, 1 .. Threshold) \in Nat /\ TotalOn(f, (1 .. n) \ (1 .. Threshold)) \in Nat
        /\ Total(f) = TotalOn(f, 1 .. Threshold) + TotalOn(f, (1 .. n) \ (1 .. Threshold))
    <3>. DEFINE D == 1 .. n
                S == 1 .. Threshold
    <3>1. IsFiniteSet(D) /\ f \in [D -> Nat] /\ S \in SUBSET D
      BY <2>2, <2>4
    <3>. HIDE DEF D, S
    <3>2. /\ TotalOn(f, S) \in Nat /\ TotalOn(f, D \ S) \in Nat
          /\ Total(f) = TotalOn(f, S) + TotalOn(f, D \ S)
      BY <3>1, TotalSplit
    <3>3. QED
      BY <3>2 DEF D, S
  <2>6. TotalOn(f, 1 .. Threshold) = Total(charges)
    BY <2>3 DEF TotalOn
  <2>7. QED
    BY <2>5, <2>6
<1>10. QED
  BY <1>5, <1>7, <1>8, <1>9 DEF m

\* The allocation when nothing is wrong: each of the operators asked first has
\* an entry with its price, and nothing is offset or funded by a sponsor.
LEMMA AllocationFacts ==
  ASSUME ServiceInv, Returned, ~Wrong
  PROVE  LET agg == AggregationWitness(result)
             entry == AllocationWitness(result, agg).entries
         IN  /\ AllocationWitness(result, agg).bitmap = agg.bitmap
             /\ DOMAIN entry = 1 .. Threshold
             /\ \A i \in 1 .. Threshold :
                  /\ entry[i].operator = call.order[i] /\ entry[i].bitmap = agg.bitmap
                  /\ entry[i].hash = LastOf(agg.hashes, call.order[i])
                  /\ entry[i].debitId = call.order[i]
                  /\ entry[i].debit = prices[call.order[i]]
                  /\ entry[i].refund = 0 /\ entry[i].funding = 0 /\ entry[i].returnIds = {}
<1>. DEFINE agg == AggregationWitness(result)
            l == result.ledger
            I == 1 .. Threshold
            Price(i) == LastOf(l.responses, agg.operators[i]).price
            offsetting == {i \in DOMAIN l.returns :
                             l.returns[i].beneficiary = Buyer /\ l.returns[i].kind # "refund"}
            offset == ReturnedBy(l, offsetting)
            funded == l.source = Buyer
            Debit(i) == IF funded THEN Price(i) ELSE 0
            Before(i) == Total([j \in 1 .. i - 1 |-> Debit(j)])
            Take(i) == Min({Debit(i), Max({0, offset - Before(i)})})
            Entry(i) ==
              [operator |-> agg.operators[i], bitmap |-> agg.bitmap,
               hash |-> LastOf(agg.hashes, agg.operators[i]),
               debitId |-> LastOf(l.responses, agg.operators[i]).debit,
               debit |-> Debit(i), refund |-> Take(i), funding |-> IF funded THEN 0 ELSE Price(i),
               returnIds |-> (IF i = 1 /\ offsetting # {} THEN {"offsets"} ELSE {})
                             \cup (IF ~funded /\ Price(i) # 0 THEN {"sponsor"} ELSE {})]
            alloc == AllocationWitness(result, agg)
<1>1. alloc = [bitmap |-> agg.bitmap, entries |-> [i \in DOMAIN agg.operators |-> Entry(i)]]
  BY DEF AllocationWitness
<1>2. call.source = Buyer /\ call.ablation \notin {"early_release", "reimbursement", "bypass"}
  BY DEF Wrong
<1>3. /\ call \in Calls /\ prices \in PriceVectors /\ bad \in BadShares /\ Accepted(call)
      /\ AsCharged(Computed, Len(call.order)) /\ result = Conclude(call, Computed, responses)
  BY ReturnedFacts
<1>4. /\ funded
      /\ \A i \in DOMAIN l.returns : l.returns[i].kind = "refund"
  <2>. DEFINE c == Computed
  <2>1. /\ c \in Ledgers /\ c.returns = << >> /\ c.source = call.source
        /\ result = Conclude(call, c, responses)
    BY <1>3 DEF AsCharged
  <2>. HIDE DEF c
  <2>2. /\ result.ledger.source = c.source
        /\ \A i \in DOMAIN result.ledger.returns : result.ledger.returns[i].kind = "refund"
    BY <1>2, <2>1, ServiceConstants, ConcludedFacts
  <2>3. QED
    BY <1>2, <2>1, <2>2
<1>5. agg.operators = [i \in I |-> call.order[i]] /\ DOMAIN agg.operators = I
  BY WitnessFacts
<1>6. \A i \in I : Price(i) = prices[call.order[i]]
                   /\ LastOf(l.responses, agg.operators[i]).debit = call.order[i]
  BY <1>2, <1>5, PriceFacts
<1>7. \A i \in I : prices[call.order[i]] \in Nat
  <2>1. prices \in [Operators -> Nat]
    BY <1>3, ArgumentTypes
  <2>2. QED
    BY <2>1, UsedFacts
<1>8. offsetting = {}
  BY <1>4
<1>9. offset = 0
  <2>. DEFINE none == [i \in offsetting |-> l.returns[i].amount]
  <2>1. DOMAIN none = {}
    BY <1>8
  <2>. HIDE DEF none
  <2>2. Total(none) = 0
    BY <2>1, TotalOfNone
  <2>3. QED
    BY <2>2 DEF ReturnedBy, none
<1>10. \A i \in I : Debit(i) = prices[call.order[i]]
  BY <1>4, <1>6
<1>11. ASSUME NEW i \in I
       PROVE  Take(i) = 0
  <2>. DEFINE before == [j \in 1 .. i - 1 |-> Debit(j)]
  <2>1. Threshold \in Nat /\ i \in Int /\ \A j \in 1 .. i - 1 : j \in I
    BY <1>3, OrderLongEnough
  <2>2. \A j \in 1 .. i - 1 : Debit(j) \in Nat
    BY <1>7, <1>10, <2>1
  <2>. HIDE DEF Debit
  <2>3. before \in [1 .. i - 1 -> Nat]
    BY <2>2
  <2>4. IsFiniteSet(1 .. i - 1)
    BY <2>1, FS_Interval
  <2>5. Total(before) \in Nat
    <3>. DEFINE D == 1 .. i - 1
    <3>1. IsFiniteSet(D) /\ before \in [D -> Nat]
      BY <2>3, <2>4
    <3>. HIDE DEF D, before
    <3>2. QED
      BY <3>1, TotalType
  <2>6. Debit(i) \in Nat
    BY <1>7, <1>10
  <2>7. Before(i) = Total(before)
    OBVIOUS
  <2>. HIDE DEF before, Before, offset
  <2>8. Min({Debit(i), Max({0, 0 - Before(i)})}) = 0
    BY <2>5, <2>6, <2>7, NothingOffset
  <2>9. QED
    BY <1>9, <2>8
<1>. HIDE DEF Take, Debit, Price, offsetting, funded, agg, alloc, l
<1>12. ASSUME NEW i \in I
       PROVE  /\ Entry(i).operator = agg.operators[i] /\ Entry(i).bitmap = agg.bitmap
              /\ Entry(i).hash = LastOf(agg.hashes, agg.operators[i])
              /\ Entry(i).debitId = LastOf(l.responses, agg.operators[i]).debit
              /\ Entry(i).debit = Debit(i) /\ Entry(i).refund = Take(i)
              /\ Entry(i).funding = 0 /\ Entry(i).returnIds = {}
  BY <1>4, <1>8
<1>. HIDE DEF Entry
<1>13. alloc.bitmap = agg.bitmap /\ alloc.entries = [i \in I |-> Entry(i)]
  BY <1>1, <1>5
<1>14. QED
  BY <1>5, <1>6, <1>10, <1>11, <1>12, <1>13 DEF alloc, agg

\* When nothing is wrong the allocation verifies, and its total is the floor.
LEMMA AllocationIsVerified ==
  ASSUME ServiceInv, Returned, ~Wrong
  PROVE  LET agg == AggregationWitness(result)
             alloc == AllocationWitness(result, agg)
             observed == NamedBuyerNetOutflow(result.ledger)
             charges == [i \in 1 .. Threshold |-> prices[call.order[i]]]
         IN  /\ TotalAllocated(alloc) = Total(charges)
             /\ Total(charges) <= observed
             /\ AllocationVerifies(agg, alloc, prices, observed)
<1>. DEFINE agg == AggregationWitness(result)
            alloc == AllocationWitness(result, agg)
            entry == alloc.entries
            observed == NamedBuyerNetOutflow(result.ledger)
            I == 1 .. Threshold
            charges == [i \in I |-> prices[call.order[i]]]
            nothing == [i \in I |-> 0]
            ops == [i \in I |-> call.order[i]]
<1>1. AllValid(result.used)
  BY DEF Wrong, DeliveredToBuyer
<1>2. /\ agg.operators = ops /\ alloc.bitmap = agg.bitmap /\ DOMAIN entry = I
      /\ \A i \in I :
           /\ entry[i].operator = call.order[i] /\ entry[i].bitmap = agg.bitmap
           /\ entry[i].hash = LastOf(agg.hashes, call.order[i])
           /\ entry[i].debitId = call.order[i]
           /\ entry[i].debit = prices[call.order[i]]
           /\ entry[i].refund = 0 /\ entry[i].funding = 0 /\ entry[i].returnIds = {}
  BY WitnessFacts, AllocationFacts
<1>3. /\ charges \in [I -> Nat] /\ IsFiniteSet(I) /\ IsInjective(ops)
      /\ Total(charges) <= observed
  BY <1>1, CoverBoundsFloor, OutflowCovers
<1>4. Total(nothing) = 0
  <2>1. nothing \in [I -> Nat] /\ \A i \in I : nothing[i] = 0
    OBVIOUS
  <2>. HIDE DEF nothing, I
  <2>2. TotalOn(nothing, I) = 0
    BY <2>1, TotalZero
  <2>3. QED
    BY <2>1, <2>2, TotalOnAll
<1>5. Total(charges) \in Nat
  <2>. HIDE DEF charges, I
  <2>1. QED
    BY <1>3, TotalType
<1>. HIDE DEF agg, alloc, observed
<1>6. TotalAllocated(alloc) = Total(charges)
  <2>1. /\ [i \in DOMAIN entry |-> entry[i].debit] = charges
        /\ [i \in DOMAIN entry |-> entry[i].refund] = nothing
        /\ [i \in DOMAIN entry |-> entry[i].funding] = nothing
    BY <1>2
  <2>2. TotalAllocated(alloc) = Total(charges) - Total(nothing) - Total(nothing)
    BY <2>1 DEF TotalAllocated
  <2>. HIDE DEF charges, nothing
  <2>3. QED
    BY <1>4, <1>5, <2>2
<1>7. \A i, j \in I : i # j => call.order[i] # call.order[j]
  <2>1. DOMAIN ops = I /\ \A i \in I : ops[i] = call.order[i]
    OBVIOUS
  <2>2. \A i, j \in I : ops[i] = ops[j] => i = j
    <3>. HIDE DEF ops
    <3>1. QED
      BY <1>3, <2>1 DEF IsInjective
  <2>3. QED
    BY <2>1, <2>2
<1>8. OperatorsOf(entry) = ToSet(agg.operators)
  <2>1. DOMAIN ops = I /\ \A i \in I : ops[i] = call.order[i]
    OBVIOUS
  <2>. HIDE DEF ops, I
  <2>2. QED
    BY <1>2, <2>1 DEF OperatorsOf, ToSet
<1>9. ASSUME NEW i \in I
      PROVE  /\ entry[i].bitmap = agg.bitmap
             /\ entry[i].hash = LastOf(agg.hashes, entry[i].operator)
             /\ Net(entry[i]) >= prices[entry[i].operator]
             /\ \A j \in I : i # j =>
                  /\ entry[i].debitId # entry[j].debitId
                  /\ entry[i].returnIds \cap entry[j].returnIds = {}
  <2>1. prices[call.order[i]] \in Nat
    BY <1>3
  <2>2. Net(entry[i]) = prices[call.order[i]] - 0 - 0
    BY <1>2 DEF Net
  <2>3. \A j \in I : i # j => entry[i].debitId # entry[j].debitId
    BY <1>2, <1>7
  <2>4. \A j \in I : entry[i].returnIds \cap entry[j].returnIds = {}
    BY <1>2
  <2>5. QED
    BY <1>2, <2>1, <2>2, <2>3, <2>4
<1>10. AllocationVerifies(agg, alloc, prices, observed)
  <2>1. TotalAllocated(alloc) <= observed
    BY <1>3, <1>6
  <2>. HIDE DEF I
  <2>2. QED
    BY <1>2, <1>8, <1>9, <2>1 DEF AllocationVerifies
<1>11. QED
  BY <1>3, <1>6, <1>10 DEF agg, alloc, observed

\* The status by the gates.
LEMMA StatusFacts ==
  ASSUME ServiceInv, Returned, NEW coverage \in Coverages, NEW verified
  PROVE  LET status == Status(Gates(result, AggregationWitness(result), coverage), verified)
             refuted ==
               \/ ~DeliveredToBuyer \/ call.source # Buyer
               \/ call.ablation \in {"early_release", "reimbursement"}
               \/ call.ablation = "bypass" /\ coverage # "UNKNOWN"
               \/ coverage = "REFUTED"
             missing == coverage = "UNKNOWN" \/ call.ablation = "untimed" \/ ~verified
         IN  /\ status = "REFUTED" <=> refuted
             /\ status = "CERTIFIED" <=> ~refuted /\ ~missing
<1>. DEFINE gates == Gates(result, AggregationWitness(result), coverage)
            a == call.ablation
<1>1. /\ gates.B1 = IF DeliveredToBuyer THEN Pass ELSE Counterexample
      /\ gates.B2 = IF call.source = Buyer THEN Pass ELSE Counterexample
      /\ gates.B3 = IF ~DeliveredToBuyer THEN NotApplicable
                    ELSE IF a = "untimed" THEN MissingEvidence
                    ELSE IF a = "early_release" THEN Counterexample ELSE Pass
      /\ gates.B4 = IF a = "reimbursement" /\ DeliveredToBuyer
                    THEN Counterexample ELSE Pass
      /\ gates.B5 = IF coverage = "UNKNOWN" THEN MissingEvidence
                    ELSE IF coverage = "REFUTED" \/ a = "bypass"
                    THEN Counterexample ELSE Pass
      /\ Range(gates) = {gates.B1, gates.B2, gates.B3, gates.B4, gates.B5}
  BY GateFacts
<1>2. coverage \in {"PROVED", "REFUTED", "UNKNOWN"}
  BY DEF Coverages
<1>3. /\ Pass # Counterexample /\ Pass # MissingEvidence /\ NotApplicable # Counterexample
      /\ NotApplicable # MissingEvidence /\ MissingEvidence # Counterexample
  BY DEF Pass, Counterexample, MissingEvidence, NotApplicable
<1>. HIDE DEF gates
<1>4. Counterexample \in Range(gates) <=>
        \/ ~DeliveredToBuyer \/ call.source # Buyer
        \/ a \in {"early_release", "reimbursement"}
        \/ a = "bypass" /\ coverage # "UNKNOWN"
        \/ coverage = "REFUTED"
  BY <1>1, <1>2, <1>3
<1>5. Counterexample \notin Range(gates) =>
        (MissingEvidence \in Range(gates) <=> coverage = "UNKNOWN" \/ a = "untimed")
  BY <1>1, <1>2, <1>3
<1>6. QED
  BY <1>4, <1>5 DEF Status, gates

\* evaluate_execution and the builders of the witnesses: the verdict is the truth
\* about the execution, and a certified one has cost the buyer at least the price
\* of the cheapest threshold set.
THEOREM VerdictIsSound == ServiceSpec => []VerdictIsRight
<1>1. ServiceInv => VerdictIsRight
  <2>. DEFINE verdict == report.verdict
              coverage == report.coverage
              agg == AggregationWitness(result)
              alloc == AllocationWitness(result, agg)
              observed == NamedBuyerNetOutflow(result.ledger)
              charges == [i \in 1 .. Threshold |-> prices[call.order[i]]]
              verified == AllocationVerifies(agg, alloc, prices, observed)
              gates == Gates(result, agg, coverage)
  <2>. SUFFICES ASSUME ServiceInv, Judged
                PROVE  /\ verdict.status = "REFUTED" <=>
                            \/ Wrong /\ ~BypassUnseen
                            \/ coverage = "REFUTED"
                       /\ verdict.status = "CERTIFIED" <=>
                            ~Wrong /\ call.ablation # "untimed" /\ coverage = "PROVED"
                       /\ verdict.status = "CERTIFIED" =>
                            /\ TheoryCover(prices, Threshold) <= verdict.floor
                            /\ verdict.floor =
                                 Total([i \in DOMAIN result.used |-> prices[result.used[i].operator]])
                            /\ verdict.floor <= verdict.observed
    BY DEF VerdictIsRight
  <2>1. Returned /\ coverage \in Coverages /\ verdict = Assess(result, prices, coverage)
    BY DEF ServiceInv, ReportInOrder
  <2>2. verdict = [gates |-> gates, verified |-> verified, observed |-> observed,
                   floor |-> IF verified THEN TotalAllocated(alloc) ELSE NoFloor,
                   status |-> Status(gates, verified)]
    BY <2>1 DEF Assess, EvaluateExecution
  <2>. HIDE DEF verdict, gates, verified, agg, alloc, observed, coverage
  <2>3. /\ verdict.status = Status(gates, verified) /\ verdict.observed = observed
        /\ verified => verdict.floor = TotalAllocated(alloc)
    BY <2>2
  <2>4. LET refuted ==
              \/ ~DeliveredToBuyer \/ call.source # Buyer
              \/ call.ablation \in {"early_release", "reimbursement"}
              \/ call.ablation = "bypass" /\ coverage # "UNKNOWN"
              \/ coverage = "REFUTED"
            missing == coverage = "UNKNOWN" \/ call.ablation = "untimed" \/ ~verified
        IN  /\ verdict.status = "REFUTED" <=> refuted
            /\ verdict.status = "CERTIFIED" <=> ~refuted /\ ~missing
    BY <2>1, <2>3, StatusFacts DEF gates, agg
  <2>5. verdict.status = "REFUTED" <=> (Wrong /\ ~BypassUnseen) \/ coverage = "REFUTED"
    BY <2>4 DEF Wrong, BypassUnseen, coverage
  <2>6. ~Wrong => /\ TotalAllocated(alloc) = Total(charges)
                  /\ Total(charges) <= observed
                  /\ verified
    BY <2>1, AllocationIsVerified DEF agg, alloc, observed, verified
  <2>7. verdict.status = "CERTIFIED" <=>
          ~Wrong /\ call.ablation # "untimed" /\ coverage = "PROVED"
    BY <2>1, <2>4, <2>6 DEF Wrong, Coverages
  <2>8. ASSUME verdict.status = "CERTIFIED"
        PROVE  /\ TheoryCover(prices, Threshold) <= verdict.floor
               /\ verdict.floor = Total([i \in DOMAIN result.used |-> prices[result.used[i].operator]])
               /\ verdict.floor <= verdict.observed
    <3>1. /\ ~Wrong /\ verdict.floor = Total(charges) /\ Total(charges) <= verdict.observed
      BY <2>3, <2>6, <2>7, <2>8
    <3>2. AllValid(result.used)
      BY <3>1 DEF Wrong, DeliveredToBuyer
    <3>3. TheoryCover(prices, Threshold) <= Total(charges)
      BY <2>1, <3>2, CoverBoundsFloor
    <3>4. result.used = Used(call, responses)
      <4>. DEFINE c == Computed
      <4>1. /\ c \in Ledgers /\ c.returns = << >> /\ result = Conclude(call, c, responses)
        BY <2>1, ReturnedFacts DEF AsCharged
      <4>. HIDE DEF c
      <4>2. QED
        BY <4>1, ServiceConstants, ConcludedFacts
    <3>5. [i \in DOMAIN result.used |-> prices[result.used[i].operator]] = charges
      BY <2>1, <3>4, UsedFacts
    <3>6. QED
      BY <3>1, <3>3, <3>5
  <2>9. QED
    BY <2>5, <2>7, <2>8
<1>2. QED
  BY <1>1, ServiceInvariant, PTL
=============================================================================
