-------------------- MODULE OverlappingPoolEscrowProofs --------------------
(***************************************************************************)
(* Proofs that the properties of module OverlappingPoolEscrow hold for     *)
(* every committee, every two pools that cover it, every cap, floor and    *)
(* threshold, and that the receipts of module CaptureCertificate are true. *)
(***************************************************************************)
EXTENDS CaptureCertificate, AmountsProofs

\* There are finitely many accounts.
LEMMA AccountsFinite == IsFiniteSet(Accounts)
<1>1. IsFiniteSet({Controller})
  BY FS_Singleton
<1>2. IsFiniteSet(Members \cup {Controller})
  BY <1>1, EscrowConstants, FS_Union
<1>3. QED
  BY <1>2, EscrowConstants, FS_Union DEF Accounts

\* An amount per member, seen as an amount per account.
Extended(f, S) == [a \in Accounts |-> IF a \in S THEN f[a] ELSE 0]

\* Accounts that hold nothing do not change a total.
LEMMA TotalExtended ==
  ASSUME NEW S \in SUBSET Members, NEW f \in [S -> Nat]
  PROVE  /\ Extended(f, S) \in [Accounts -> Nat]
         /\ Total(Extended(f, S)) = Total(f)
<1>. DEFINE g == Extended(f, S)
<1>1. S \in SUBSET Accounts /\ Accounts \ S \in SUBSET Accounts
  BY DEF Accounts
<1>2. g \in [Accounts -> Nat]
  BY DEF Extended
<1>3. \A x \in Accounts \ S : g[x] = 0
  BY DEF Extended
<1>4. \A x \in S : g[x] = f[x]
  BY <1>1 DEF Extended
<1>. HIDE DEF g
<1>5. Total(g) = TotalOn(g, S) + TotalOn(g, Accounts \ S)
  BY <1>1, <1>2, AccountsFinite, TotalSplit
<1>6. TotalOn(g, Accounts \ S) = 0
  BY <1>1, <1>2, <1>3, TotalZero
<1>7. TotalOn(g, S) = TotalOn(f, S)
  BY <1>4, TotalOnSame
<1>8. TotalOn(f, S) = Total(f)
  BY TotalOnAll
<1>9. TotalOn(g, S) \in Nat
  BY <1>1, <1>2, AccountsFinite, TotalSplit
<1>10. QED
  BY <1>2, <1>5, <1>6, <1>7, <1>8, <1>9 DEF g

\* What two capped pools leave open of the gross floors of a threshold set:
\* the acquirer's payment has a positive lower bound.
LEMMA QuoteBound ==
  ASSUME TypeOK, CreditsBeforeSale, configured,
         NEW S \in SUBSET Members, Cardinality(S) = Threshold
  PROVE  /\ [m \in S |-> residualPrice(m)] \in [S -> Nat]
         /\ quoteFour(S) \in Nat
         /\ quoteFour(S) >= Threshold * Floor - 2 * PoolCap
<1>. DEFINE c == [m \in S |-> credits[m]]
            r == [m \in S |-> residualPrice(m)]
            full == [m \in S |-> c[m] + r[m]]
<1>1. IsFiniteSet(S)
  BY EscrowConstants, FS_Subset
<1>2. /\ c \in [S -> Nat]
      /\ r \in [S -> Nat]
      /\ full \in [S -> Nat]
      /\ \A m \in S : full[m] = Floor
  BY EscrowConstants DEF TypeOK, residualPrice
<1>3. Total(full) = Total(c) + Total(r)
  <2>. HIDE DEF c, r
  <2>1. QED
    BY <1>1, <1>2, TotalSum
<1>4. Total(full) = Threshold * Floor
  <2>. HIDE DEF full
  <2>1. QED
    BY <1>1, <1>2, EscrowConstants, TotalConstant
<1>5. Total(c) = TotalOn(credits, S)
  <2>1. TotalOn(c, S) = TotalOn(credits, S)
    BY TotalOnSame
  <2>. HIDE DEF c
  <2>2. TotalOn(c, S) = Total(c)
    BY <1>2, TotalOnAll
  <2>3. QED
    BY <2>1, <2>2
<1>6. credits \in [Members -> Nat]
  BY EscrowConstants DEF TypeOK
<1>7. TotalOn(credits, S) <= TotalOn(credits, FirstPool) + TotalOn(credits, SecondPool)
  <2>1. FirstPool \in SUBSET Members /\ SecondPool \in SUBSET Members
        /\ S \subseteq FirstPool \cup SecondPool
    BY EscrowConstants
  <2>2. QED
    BY <1>6, <2>1, EscrowConstants, TotalCover
<1>8. TotalOn(credits, FirstPool) <= PoolCap /\ TotalOn(credits, SecondPool) <= PoolCap
  BY DEF CreditsBeforeSale, PoolUsage
<1>9. /\ TotalOn(credits, FirstPool) \in Nat /\ TotalOn(credits, SecondPool) \in Nat
      /\ TotalOn(credits, S) \in Nat
  <2>1. FirstPool \in SUBSET Members /\ SecondPool \in SUBSET Members
    BY EscrowConstants
  <2>2. QED
    BY <1>6, <2>1, EscrowConstants, TotalSplit
<1>10. Total(r) \in Nat /\ quoteFour(S) = Total(r)
  <2>1. quoteFour(S) = Total(r)
    BY DEF quoteFour
  <2>. HIDE DEF r
  <2>2. QED
    BY <1>1, <1>2, <2>1, TotalType
<1>. DEFINE tf == Threshold * Floor
<1>11. tf \in Nat /\ PoolCap \in Nat
  BY EscrowConstants, FS_CardinalityType
<1>. DEFINE tc == TotalOn(credits, S)
            t1 == TotalOn(credits, FirstPool)
            t2 == TotalOn(credits, SecondPool)
            tr == Total(r)
<1>12. tf = tc + tr /\ tc <= t1 + t2 /\ t1 <= PoolCap /\ t2 <= PoolCap
       /\ tc \in Nat /\ t1 \in Nat /\ t2 \in Nat /\ tr \in Nat
  BY <1>3, <1>4, <1>5, <1>7, <1>8, <1>9, <1>10
<1>. HIDE DEF tc, t1, t2, tr, tf
<1>13. tr >= tf - 2 * PoolCap
  BY <1>11, <1>12
<1>14. QED
  BY <1>2, <1>10, <1>13 DEF tr, tf

-----------------------------------------------------------------------------
\* The invariant holds when the contract is deployed.
LEMMA EInvInit == Init => EInv
<1>1. SUFFICES ASSUME Init PROVE EInv
  OBVIOUS
<1>2. TypeOK
  <2>1. 0 \in 0 .. Floor
    BY EscrowConstants
  <2>2. shareOwner \in [Members -> Accounts]
    BY <1>1 DEF Init, Accounts
  <2>3. QED
    BY <1>1, <2>1, <2>2 DEF Init, TypeOK
<1>3. Total(claimable) = 0
  <2>1. Accounts \in SUBSET Accounts /\ claimable \in [Accounts -> Nat]
        /\ \A a \in Accounts : claimable[a] = 0
    BY <1>1 DEF Init
  <2>2. QED
    BY <2>1, TotalZero, TotalOnAll
<1>4. QED
  BY <1>1, <1>2, <1>3 DEF Init, EInv, Solvency, MembersMadeWhole, CreditsBeforeSale,
     ResidualIncidence, SaleAtQuote

\* Configuring the credits preserves the invariant.
LEMMA ConfigureKeeps ==
  ASSUME EInv, NEW value \in Values, ConfigureCredits(value)
  PROVE  EInv'
<1>1. PICK candidate \in [Members -> 0 .. Floor + 1] :
        /\ ValidCredits(candidate)
        /\ ExactFunding(value, Total(candidate))
        /\ credits' = candidate
        /\ claimable' =
             [a \in Accounts |-> claimable[a] + (IF a \in Members THEN candidate[a] ELSE 0)]
  BY DEF ConfigureCredits
<1>2. /\ candidate \in [Members -> Nat]
      /\ candidate \in [Members -> 0 .. Floor]
  BY <1>1, EscrowConstants DEF ValidCredits
<1>3. /\ claimable \in [Accounts -> Nat] /\ received \in [Accounts -> Nat] /\ balance \in Nat
      /\ balance = Total(claimable)
  BY DEF EInv, TypeOK, Solvency
<1>. DEFINE e == Extended(candidate, Members)
<1>4. e \in [Accounts -> Nat] /\ Total(e) = Total(candidate)
  BY <1>2, TotalExtended
<1>5. claimable' = [a \in Accounts |-> claimable[a] + e[a]]
  BY <1>1 DEF Extended
<1>. HIDE DEF e
<1>6. Total(claimable') = Total(claimable) + Total(e)
  BY <1>3, <1>4, <1>5, AccountsFinite, TotalSum
<1>7. Total(candidate) \in Nat
  BY <1>2, EscrowConstants, TotalType
<1>8. value = Total(candidate)
  BY <1>1 DEF ExactFunding
<1>9. TypeOK'
  <2>1. claimable' \in [Accounts -> Nat]
    BY <1>3, <1>4, <1>5
  <2>2. balance' \in Nat
    BY <1>3, <1>7, <1>8 DEF ConfigureCredits
  <2>3. QED
    BY <1>1, <1>2, <2>1, <2>2 DEF EInv, TypeOK, ConfigureCredits, sale
<1>10. Solvency'
  BY <1>3, <1>4, <1>6, <1>8 DEF Solvency, ConfigureCredits
<1>11. ~completed /\ \A m \in Members : shareOwner[m] = m /\ credits[m] = 0
  BY DEF EInv, CreditsBeforeSale, ConfigureCredits
<1>12. MembersMadeWhole'
  <2>1. SUFFICES ASSUME NEW a \in Accounts
                 PROVE  claimable'[a] + received'[a] =
                          IF a \notin Members THEN 0
                          ELSE IF shareOwner'[a] # a THEN Floor ELSE credits'[a]
    BY DEF MembersMadeWhole
  <2>2. claimable[a] + received[a] = 0
    BY <1>11 DEF EInv, MembersMadeWhole
  <2>3. received' = received /\ shareOwner' = shareOwner
    BY DEF ConfigureCredits, sale
  <2>4. claimable'[a] = claimable[a] + (IF a \in Members THEN candidate[a] ELSE 0)
    BY <1>1
  <2>5. CASE a \in Members
    <3>1. candidate[a] \in Nat /\ claimable[a] \in Nat /\ received[a] \in Nat
      BY <1>2, <1>3, <2>5
    <3>2. claimable'[a] + received'[a] = candidate[a]
      BY <2>2, <2>3, <2>4, <2>5, <3>1
    <3>3. QED
      BY <1>1, <1>11, <2>3, <2>5, <3>2
  <2>6. CASE a \notin Members
    BY <1>3, <2>2, <2>3, <2>4, <2>6
  <2>7. QED
    BY <2>5, <2>6
<1>13. CreditsBeforeSale'
  BY <1>1, <1>11 DEF CreditsBeforeSale, ConfigureCredits, sale, ValidCredits, PoolUsage
<1>14. ResidualIncidence'
  BY <1>11 DEF ResidualIncidence, ConfigureCredits, sale
<1>15. SaleAtQuote'
  BY <1>11 DEF SaleAtQuote, ConfigureCredits, sale
<1>16. QED
  BY <1>9, <1>10, <1>12, <1>13, <1>14, <1>15 DEF EInv

\* The sale preserves the invariant.
LEMMA AcquireKeeps ==
  ASSUME EInv, NEW a \in Accounts, NEW value \in Values, AcquireFour(a, value)
  PROVE  EInv'
<1>1. PICK S \in SUBSET Members :
        /\ Cardinality(S) = Threshold
        /\ ExactFunding(value, quoteFour(S))
        /\ shareOwner' = [m \in Members |-> IF m \in S THEN a ELSE shareOwner[m]]
        /\ claimable' =
             [x \in Accounts |-> IF x \in S THEN Augmented(x, residualPrice(x)) ELSE claimable[x]]
        /\ terminal' = S
        /\ totalAcquisitionCallValue' = quoteFour(S)
  BY DEF AcquireFour
<1>. DEFINE r == [m \in S |-> residualPrice(m)]
            e == Extended(r, S)
<1>2. /\ claimable \in [Accounts -> Nat] /\ received \in [Accounts -> Nat] /\ balance \in Nat
      /\ balance = Total(claimable)
  BY DEF EInv, TypeOK, Solvency
<1>3. /\ r \in [S -> Nat] /\ quoteFour(S) \in Nat
      /\ quoteFour(S) >= Threshold * Floor - 2 * PoolCap
  <2>1. configured /\ TypeOK /\ CreditsBeforeSale
    BY DEF EInv, AcquireFour
  <2>2. QED
    BY <1>1, <2>1, QuoteBound
<1>4. quoteFour(S) = Total(r)
  BY DEF quoteFour
<1>5. e \in [Accounts -> Nat] /\ Total(e) = Total(r)
  BY <1>3, TotalExtended
<1>6. claimable' = [x \in Accounts |-> claimable[x] + e[x]]
  <2>1. \A x \in Accounts :
          (IF x \in S THEN Augmented(x, residualPrice(x)) ELSE claimable[x]) = claimable[x] + e[x]
    BY <1>2 DEF Extended, Augmented
  <2>2. QED
    BY <1>1, <2>1
<1>7. Total(claimable') = Total(claimable) + Total(e)
  <2>. HIDE DEF e
  <2>1. QED
    BY <1>2, <1>5, <1>6, AccountsFinite, TotalSum
<1>8. External(a) /\ ~completed /\ configured
  BY DEF AcquireFour
<1>9. TypeOK'
  <2>1. claimable' \in [Accounts -> Nat]
    <3>. HIDE DEF e
    <3>1. QED
      BY <1>2, <1>5, <1>6
  <2>2. balance' \in Nat
    BY <1>1, <1>2, <1>3 DEF AcquireFour, ExactFunding
  <2>3. shareOwner' \in [Members -> Accounts]
    BY <1>1 DEF EInv, TypeOK
  <2>4. QED
    BY <1>1, <1>3, <2>1, <2>2, <2>3 DEF EInv, TypeOK, AcquireFour, setup
<1>10. Solvency'
  <2>. HIDE DEF e, r
  <2>1. QED
    BY <1>1, <1>2, <1>4, <1>5, <1>7 DEF Solvency, AcquireFour, ExactFunding
<1>11. \A m \in Members : shareOwner[m] = m
  BY <1>8 DEF EInv, CreditsBeforeSale
<1>12. MembersMadeWhole'
  <2>1. SUFFICES ASSUME NEW x \in Accounts
                 PROVE  claimable'[x] + received'[x] =
                          IF x \notin Members THEN 0
                          ELSE IF shareOwner'[x] # x THEN Floor ELSE credits'[x]
    BY DEF MembersMadeWhole
  <2>2. received' = received /\ credits' = credits
    BY DEF AcquireFour, setup
  <2>3. claimable[x] + received[x] = IF x \notin Members THEN 0 ELSE credits[x]
    BY <1>11 DEF EInv, MembersMadeWhole
  <2>4. CASE x \in S
    <3>1. claimable'[x] = claimable[x] + (Floor - credits[x])
      BY <1>1, <2>4 DEF Augmented, residualPrice
    <3>2. credits[x] \in 0 .. Floor /\ claimable[x] \in Nat /\ received[x] \in Nat
      BY <1>2, <2>4 DEF EInv, TypeOK
    <3>3. claimable'[x] + received'[x] = Floor
      BY <2>2, <2>3, <2>4, <3>1, <3>2, EscrowConstants
    <3>4. shareOwner'[x] = a /\ a # x
      BY <1>1, <1>8, <2>4 DEF External
    <3>5. QED
      BY <2>4, <3>3, <3>4
  <2>5. CASE x \notin S
    <3>1. claimable'[x] = claimable[x]
      BY <1>1, <2>5
    <3>2. x \in Members => shareOwner'[x] = x
      BY <1>1, <1>11, <2>5
    <3>3. QED
      BY <2>2, <2>3, <3>1, <3>2
  <2>6. QED
    BY <2>4, <2>5
<1>13. CreditsBeforeSale'
  BY <1>8 DEF EInv, CreditsBeforeSale, AcquireFour, setup, PoolUsage
<1>14. ResidualIncidence'
  <2>1. acquirer' = a /\ terminal' = S /\ totalAcquisitionCallValue' = quoteFour(S)
    BY <1>1 DEF AcquireFour
  <2>2. \A m \in Members : shareOwner'[m] = IF m \in S THEN a ELSE m
    BY <1>1, <1>11
  <2>3. a \notin Members
    BY <1>8 DEF External
  <2>4. S = {m \in Members : shareOwner'[m] = a}
    BY <2>2, <2>3
  <2>5. QED
    BY <1>1, <1>3, <1>8, <2>1, <2>2, <2>4 DEF ResidualIncidence, External
<1>15. SaleAtQuote'
  BY <1>1 DEF SaleAtQuote, AcquireFour, setup, quoteFour, residualPrice
<1>16. QED
  BY <1>9, <1>10, <1>12, <1>13, <1>14, <1>15 DEF EInv

\* A withdrawal preserves the invariant.
LEMMA WithdrawKeeps ==
  ASSUME EInv, NEW a \in Accounts, Withdraw(a)
  PROVE  EInv'
<1>1. /\ claimable \in [Accounts -> Nat] /\ received \in [Accounts -> Nat] /\ balance \in Nat
      /\ balance = Total(claimable)
  BY DEF EInv, TypeOK, Solvency
<1>2. /\ claimable' = [claimable EXCEPT ![a] = 0]
      /\ received' = [received EXCEPT ![a] = @ + claimable[a]]
      /\ balance' = balance - claimable[a]
      /\ entered' = TRUE
      /\ UNCHANGED <<setup, sale>>
  BY DEF Withdraw
<1>3. claimable' \in [Accounts -> Nat] /\ received' \in [Accounts -> Nat]
  BY <1>1, <1>2
<1>4. Total(claimable') = Total(claimable) - claimable[a] + 0
  <2>1. claimable'[a] = 0 /\ \A x \in Accounts \ {a} : claimable'[x] = claimable[x]
    BY <1>1, <1>2
  <2>2. Total(claimable') = Total(claimable) - claimable[a] + claimable'[a]
    BY <1>1, <1>3, <2>1, AccountsFinite, TotalUpdate
  <2>3. QED
    BY <2>1, <2>2
<1>5. Total(claimable') \in Nat
  BY <1>3, AccountsFinite, TotalType
<1>6. balance' = Total(claimable')
  BY <1>1, <1>2, <1>4
<1>7. TypeOK'
  BY <1>2, <1>3, <1>5, <1>6 DEF EInv, TypeOK, setup, sale
<1>8. Solvency'
  BY <1>6 DEF Solvency
<1>9. MembersMadeWhole'
  <2>1. \A x \in Accounts : claimable'[x] + received'[x] = claimable[x] + received[x]
    BY <1>1, <1>2
  <2>2. QED
    BY <1>2, <2>1 DEF EInv, MembersMadeWhole, setup, sale
<1>10. CreditsBeforeSale' /\ ResidualIncidence'
  BY <1>2 DEF EInv, CreditsBeforeSale, ResidualIncidence, PoolUsage, setup, sale
<1>11. SaleAtQuote'
  BY <1>2 DEF EInv, SaleAtQuote, quoteFour, residualPrice, setup, sale
<1>12. QED
  BY <1>7, <1>8, <1>9, <1>10, <1>11 DEF EInv

\* Every step preserves the invariant.
LEMMA EInvNext == EInv /\ [Next]_vars => EInv'
<1>1. SUFFICES ASSUME EInv, [Next]_vars PROVE EInv'
  OBVIOUS
<1>2. CASE \E value \in Values : ConfigureCredits(value)
  BY <1>1, <1>2, ConfigureKeeps
<1>3. CASE \E a \in Accounts, value \in Values : AcquireFour(a, value)
  BY <1>1, <1>3, AcquireKeeps
<1>4. CASE \E a \in Accounts : Withdraw(a)
  BY <1>1, <1>4, WithdrawKeeps
<1>5. CASE ReturnFromTransfer
  BY <1>1, <1>5 DEF ReturnFromTransfer, EInv, TypeOK, Solvency, MembersMadeWhole,
     CreditsBeforeSale, ResidualIncidence, SaleAtQuote, quoteFour, residualPrice,
     PoolUsage, setup, sale, money
<1>6. CASE UNCHANGED vars
  BY <1>1, <1>6 DEF vars, EInv, TypeOK, Solvency, MembersMadeWhole,
     CreditsBeforeSale, ResidualIncidence, SaleAtQuote, quoteFour, residualPrice,
     PoolUsage, setup, sale, money
<1>7. QED
  BY <1>1, <1>2, <1>3, <1>4, <1>5, <1>6 DEF Next

\* The invariant of the contract.
THEOREM Invariant == Spec => []EInv
<1>1. Init => EInv
  BY EInvInit
<1>2. EInv /\ [Next]_vars => EInv'
  BY EInvNext
<1>3. QED
  BY <1>1, <1>2, PTL DEF Spec

\* The contract always holds what its members may claim, no more and no less.
THEOREM Solvent == Spec => []Solvency
<1>1. EInv => Solvency
  BY DEF EInv
<1>2. QED
  BY <1>1, Invariant, PTL

\* Every member is granted the gross floor for its right, or its credit.
THEOREM MadeWhole == Spec => []MembersMadeWhole
<1>1. EInv => MembersMadeWhole
  BY DEF EInv
<1>2. QED
  BY <1>1, Invariant, PTL

\* Whatever the controller grants and whichever set is bought, the acquirer
\* pays what the two caps leave open, and gets that set's rights.
THEOREM Incidence == Spec => []ResidualIncidence
<1>1. EInv => ResidualIncidence
  BY DEF EInv
<1>2. QED
  BY <1>1, Invariant, PTL

-----------------------------------------------------------------------------
(* The receipt of a sale.                                                  *)

\* Whatever was withdrawn, what the members were granted besides their credits
\* is the quote of the set that was sold: the contract took in nothing else.
LEMMA PaidTheQuote ==
  ASSUME EInv, completed
  PROVE  balance + Total(received) - Total(credits) = quoteFour(terminal)
<1>. DEFINE r == [m \in terminal |-> residualPrice(m)]
            c == Extended(credits, Members)
            e == Extended(r, terminal)
            granted == [x \in Accounts |-> claimable[x] + received[x]]
<1>1. /\ claimable \in [Accounts -> Nat] /\ received \in [Accounts -> Nat]
      /\ terminal \in SUBSET Members
      /\ credits \in [Members -> Nat]
  BY EscrowConstants DEF EInv, TypeOK
<1>2. r \in [terminal -> Nat]
  <2>1. \A m \in terminal : residualPrice(m) \in Nat
    BY EscrowConstants DEF EInv, TypeOK, residualPrice
  <2>2. QED
    BY <2>1
<1>3. c \in [Accounts -> Nat] /\ Total(c) = Total(credits)
  BY <1>1, TotalExtended
<1>4. e \in [Accounts -> Nat] /\ Total(e) = quoteFour(terminal)
  <2>1. quoteFour(terminal) = Total(r)
    BY DEF quoteFour
  <2>2. QED
    BY <1>1, <1>2, <2>1, TotalExtended
<1>5. ASSUME NEW x \in Accounts
      PROVE  claimable[x] + received[x] = c[x] + e[x]
  <2>1. claimable[x] + received[x] =
          IF x \notin Members THEN 0 ELSE IF shareOwner[x] # x THEN Floor ELSE credits[x]
    BY DEF EInv, MembersMadeWhole
  <2>2. /\ External(acquirer)
        /\ terminal = {m \in Members : shareOwner[m] = acquirer}
        /\ \A m \in Members \ terminal : shareOwner[m] = m
    BY DEF EInv, ResidualIncidence
  <2>3. CASE x \in terminal
    <3>1. x \in Members /\ shareOwner[x] # x
      BY <2>2, <2>3 DEF External
    <3>2. c[x] = credits[x] /\ e[x] = Floor - credits[x]
      BY <2>3, <3>1 DEF Extended, residualPrice
    <3>3. credits[x] \in Nat /\ Floor \in Nat
      BY <1>1, <3>1, EscrowConstants
    <3>4. QED
      BY <2>1, <3>1, <3>2, <3>3
  <2>4. CASE x \in Members \ terminal
    <3>1. c[x] = credits[x] /\ e[x] = 0
      BY <2>4 DEF Extended
    <3>2. credits[x] \in Nat
      BY <1>1, <2>4
    <3>3. QED
      BY <2>1, <2>2, <2>4, <3>1, <3>2
  <2>5. CASE x \notin Members
    <3>1. c[x] = 0 /\ e[x] = 0
      BY <1>1, <2>5 DEF Extended
    <3>2. QED
      BY <2>1, <2>5, <3>1
  <2>6. QED
    BY <2>3, <2>4, <2>5
<1>. HIDE DEF c, e
<1>6. granted = [x \in Accounts |-> c[x] + e[x]]
  BY <1>5
<1>7. Total(granted) = Total(claimable) + Total(received)
  BY <1>1, AccountsFinite, TotalSum
<1>8. Total(granted) = Total(c) + Total(e)
  <2>1. Total([x \in Accounts |-> c[x] + e[x]]) = Total(c) + Total(e)
    BY <1>3, <1>4, AccountsFinite, TotalSum
  <2>2. QED
    BY <1>6, <2>1
<1>9. /\ Total(claimable) \in Nat /\ Total(received) \in Nat
      /\ Total(c) \in Nat /\ Total(e) \in Nat
  BY <1>1, <1>3, <1>4, AccountsFinite, TotalType
<1>10. balance = Total(claimable)
  BY DEF EInv, Solvency
<1>11. QED
  BY <1>3, <1>4, <1>7, <1>8, <1>9, <1>10

\* A completed sale has a true receipt.
LEMMA ReceiptHolds ==
  ASSUME EInv, completed, Threshold = 4
  PROVE  /\ Receipt.value = quoteFour(terminal)
         /\ RolesSeparate(acquirer) /\ ValidRoute(Receipt, acquirer)
         /\ \A r \in Misreported(Receipt) : ValidRoute(r, acquirer) => r = Receipt
<1>1. Receipt.value = quoteFour(terminal)
  BY PaidTheQuote DEF Receipt
<1>2. /\ External(acquirer) /\ Cardinality(terminal) = 4
      /\ terminal = {m \in Members : shareOwner[m] = acquirer}
  BY DEF EInv, ResidualIncidence
<1>3. RolesSeparate(acquirer)
  BY <1>2, EscrowConstants DEF RolesSeparate, External
<1>4. acquirer \in Accounts
  <2>1. terminal # {}
    BY <1>2, FS_EmptySet
  <2>2. PICK m \in Members : shareOwner[m] = acquirer
    BY <1>2, <2>1
  <2>3. QED
    BY <2>2 DEF EInv, TypeOK
<1>5. claimable[acquirer] = 0
  <2>1. claimable[acquirer] + received[acquirer] = 0
    BY <1>2, <1>4 DEF EInv, MembersMadeWhole, External
  <2>2. claimable[acquirer] \in Nat /\ received[acquirer] \in Nat
    BY <1>4 DEF EInv, TypeOK
  <2>3. QED
    BY <2>1, <2>2
<1>6. totalAcquisitionCallValue = Receipt.value
  BY <1>1 DEF EInv, SaleAtQuote
<1>. DEFINE R == Receipt
<1>7. /\ R.selected = terminal /\ R.operators = terminal /\ R.success = TRUE
      /\ R.from = acquirer /\ R.to = "escrow" /\ R.acquirer = acquirer
      /\ R.completed = TRUE /\ R.claimable = 0
      /\ R.total = R.value
      /\ R.mask = terminal /\ R.delivered = terminal
      /\ R.policy = FinalityConfirmations /\ R.observed = FinalityConfirmations
      /\ R.singleUse = TRUE /\ R.signer = acquirer
  BY <1>2, <1>5, <1>6 DEF Receipt
<1>8. FinalityConfirmations = 6
  BY DEF FinalityConfirmations
<1>9. ValidRoute(R, acquirer)
  <2>. HIDE DEF R
  <2>1. QED
    BY <1>2, <1>7, <1>8 DEF ValidRoute
<1>10. ASSUME NEW r \in Misreported(R), ValidRoute(r, acquirer)
       PROVE  r = R
  <2>1. /\ r.operators = r.selected /\ r.delivered = r.selected
        /\ r.from = acquirer /\ r.signer = acquirer
        /\ r.claimable = 0 /\ r.total = r.value /\ r.observed >= 6
        /\ r.completed /\ r.singleUse
    BY <1>8, <1>10 DEF ValidRoute
  <2>2. CASE \E S : r = [R EXCEPT !.selected = S]
    BY <1>7, <2>1, <2>2 DEF Receipt
  <2>3. CASE \E S : r = [R EXCEPT !.operators = S]
    BY <1>7, <2>1, <2>3 DEF Receipt
  <2>4. CASE \E S : r = [R EXCEPT !.delivered = S]
    BY <1>7, <2>1, <2>4 DEF Receipt
  <2>5. CASE \E v : r = [R EXCEPT !.value = v]
    BY <1>7, <2>1, <2>5 DEF Receipt
  <2>6. CASE \E v : r = [R EXCEPT !.claimable = v]
    BY <1>7, <2>1, <2>6 DEF Receipt
  <2>7. CASE \E a : r = [R EXCEPT !.from = a]
    BY <1>7, <2>1, <2>7 DEF Receipt
  <2>8. CASE \E a : r = [R EXCEPT !.signer = a]
    BY <1>7, <2>1, <2>8 DEF Receipt
  <2>9. CASE \E n \in 0 .. FinalityConfirmations : r = [R EXCEPT !.observed = n]
    BY <1>7, <1>8, <2>1, <2>9 DEF Receipt
  <2>10. CASE r = [R EXCEPT !.singleUse = FALSE] \/ r = [R EXCEPT !.completed = FALSE]
    BY <1>7, <2>1, <2>10 DEF Receipt
  <2>11. QED
    BY <2>2, <2>3, <2>4, <2>5, <2>6, <2>7, <2>8, <2>9, <2>10, <1>10 DEF Misreported
<1>11. QED
  BY <1>1, <1>3, <1>9, <1>10

\* The receipt of a sale is true for every committee, pair of pools, cap and floor
\* when four members are a threshold set.
THEOREM ReceiptsAreTrue == ASSUME Threshold = 4 PROVE Spec => []ReceiptIsTrue
<1>1. EInv => ReceiptIsTrue
  BY ReceiptHolds DEF ReceiptIsTrue
<1>2. QED
  BY <1>1, Invariant, PTL
=============================================================================
