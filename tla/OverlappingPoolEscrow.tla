----------------------- MODULE OverlappingPoolEscrow -----------------------
(***************************************************************************)
(* The residual-price contract OverlappingPoolEscrow.  A pool controller   *)
(* funds a vector of credits for the members, within the caps of two pools *)
(* that overlap; a single acquirer from outside then buys the share rights *)
(* of a threshold set of members and pays each of them what its credit     *)
(* leaves open up to the gross floor; members draw their money later.      *)
(*                                                                         *)
(* Amounts are in CREDIT_UNITs.  A call that reverts leaves no trace, so   *)
(* only successful calls are steps; withdraw is split where the recipient's*)
(* code runs.                                                              *)
(***************************************************************************)
EXTENDS Amounts

CONSTANTS
  Members,     \* the committee (COMMITTEE_SIZE members)
  FirstPool,   \* the members at index 0 .. 3
  SecondPool,  \* the members at index 3 .. 6
  PoolCap,     \* POOL_CAP
  Floor,       \* MEMBER_GROSS_FLOOR
  Threshold,   \* THRESHOLD
  Controller,  \* poolController
  Outsiders,   \* other addresses
  NoAccount,   \* address(0)
  Values       \* the values that callers may send along

Accounts == Members \cup {Controller} \cup Outsiders

\* The constructor refuses a controller or a duplicate among the members.
ASSUME EscrowConstants ==
  /\ IsFiniteSet(Members)
  /\ IsFiniteSet(Outsiders)
  /\ FirstPool \cup SecondPool = Members
  /\ PoolCap \in Nat
  /\ Floor \in Nat
  /\ Threshold \in 1 .. Cardinality(Members)
  /\ Controller \notin Members
  /\ Outsiders \cap (Members \cup {Controller}) = {}
  /\ NoAccount \notin Accounts
  /\ Values \subseteq Nat

VARIABLES
  credits,                    \* credits[m], zero until configured
  shareOwner,                 \* who owns the share right of each member
  configured,
  completed,
  terminal,                   \* terminalMask = deliveredShareMask
  totalAcquisitionCallValue,
  acquirer,
  claimable,
  balance,                    \* the ether the contract holds
  entered,                    \* the reentrancy guard
  received                    \* history: what each account has drawn

setup == <<credits, configured>>
sale  == <<shareOwner, completed, terminal, totalAcquisitionCallValue, acquirer>>
money == <<claimable, balance, received>>

vars == <<setup, sale, money, entered>>

-----------------------------------------------------------------------------
(* Faulty variants of the definitions below, for mutation tests.           *)

\* i < 3 and i > 3: the member in both pools is charged to neither.
CreditsOf(candidate, pool) == TotalOn(candidate, pool \ (FirstPool \cap SecondPool))

AnyPayment(value, due) == TRUE

NotValidated(candidate) == TRUE

\* The direct payment replaces what the member has not drawn yet.
Replaced(m, amount) == amount

-----------------------------------------------------------------------------
Init ==
  /\ credits = [m \in Members |-> 0]
  /\ shareOwner = [m \in Members |-> m]
  /\ configured = FALSE
  /\ completed = FALSE
  /\ terminal = {}
  /\ totalAcquisitionCallValue = 0
  /\ acquirer = NoAccount
  /\ claimable = [a \in Accounts |-> 0]
  /\ balance = 0
  /\ entered = FALSE
  /\ received = [a \in Accounts |-> 0]

-----------------------------------------------------------------------------
(* Credits.                                                                *)

PoolUsage(candidate, pool) == TotalOn(candidate, pool)

\* _validateCredits
ValidCredits(candidate) ==
  /\ \A m \in Members : candidate[m] <= Floor
  /\ PoolUsage(candidate, FirstPool) <= PoolCap
  /\ PoolUsage(candidate, SecondPool) <= PoolCap

ExactFunding(value, due) == value = due

ConfigureCredits(value) ==
  /\ ~entered
  /\ ~configured
  /\ \E candidate \in [Members -> 0 .. Floor + 1] :
       /\ ValidCredits(candidate)
       /\ ExactFunding(value, Total(candidate))
       /\ credits' = candidate
       /\ claimable' =
            [a \in Accounts |-> claimable[a] + (IF a \in Members THEN candidate[a] ELSE 0)]
  /\ configured' = TRUE
  /\ balance' = balance + value
  /\ UNCHANGED <<sale, received, entered>>

-----------------------------------------------------------------------------
(* The sale.                                                               *)

residualPrice(m) == Floor - credits[m]

\* The four indices must increase strictly: they are a set.
quoteFour(S) == Total([m \in S |-> residualPrice(m)])

External(a) == a \notin Members \cup {Controller}

\* What a member of the set may claim after its residual was paid.
Augmented(m, amount) == claimable[m] + amount

AcquireFour(a, value) ==
  /\ ~entered
  /\ configured
  /\ ~completed
  /\ External(a)
  /\ \E S \in SUBSET Members :
       /\ Cardinality(S) = Threshold
       /\ ExactFunding(value, quoteFour(S))
       /\ \A m \in S : shareOwner[m] = m
       /\ shareOwner' = [m \in Members |-> IF m \in S THEN a ELSE shareOwner[m]]
       /\ claimable' =
            [x \in Accounts |->
               IF x \in S THEN Augmented(x, residualPrice(x)) ELSE claimable[x]]
       /\ terminal' = S
       /\ totalAcquisitionCallValue' = quoteFour(S)
  /\ completed' = TRUE
  /\ acquirer' = a
  /\ balance' = balance + value
  /\ UNCHANGED <<setup, received, entered>>

-----------------------------------------------------------------------------
(* Withdrawals.                                                            *)

Withdraw(a) ==
  /\ ~entered
  /\ claimable[a] # 0
  /\ claimable' = [claimable EXCEPT ![a] = 0]
  /\ balance' = balance - claimable[a]
  /\ received' = [received EXCEPT ![a] = @ + claimable[a]]
  /\ entered' = TRUE
  /\ UNCHANGED <<setup, sale>>

ReturnFromTransfer ==
  /\ entered
  /\ entered' = FALSE
  /\ UNCHANGED <<setup, sale, money>>

Next ==
  \/ \E value \in Values : ConfigureCredits(value)
  \/ \E a \in Accounts, value \in Values : AcquireFour(a, value)
  \/ \E a \in Accounts : Withdraw(a)
  \/ ReturnFromTransfer

Spec == Init /\ [][Next]_vars

-----------------------------------------------------------------------------
(* Properties.                                                             *)

\* The types; a residual price never underflows.
TypeOK ==
  /\ credits \in [Members -> 0 .. Floor]
  /\ shareOwner \in [Members -> Accounts]
  /\ configured \in BOOLEAN
  /\ completed \in BOOLEAN
  /\ terminal \subseteq Members
  /\ totalAcquisitionCallValue \in Nat
  /\ acquirer \in Accounts \cup {NoAccount}
  /\ claimable \in [Accounts -> Nat]
  /\ balance \in Nat
  /\ entered \in BOOLEAN
  /\ received \in [Accounts -> Nat]

\* The contract holds exactly what the members may still claim.
Solvency == balance = Total(claimable)

\* However its withdrawals fall between the funding and the sale, a member
\* is granted the gross floor in exchange for its share right, or keeps its
\* right and is granted its credit.  Nobody else is ever granted anything.
MembersMadeWhole ==
  \A a \in Accounts :
    claimable[a] + received[a] =
      IF a \notin Members THEN 0
      ELSE IF shareOwner[a] # a THEN Floor ELSE credits[a]

\* The credits of two capped pools, even if they share a member, cannot pay
\* for a threshold set: the acquirer, who is neither the controller nor a
\* member, brings what the caps leave open, and owns just that set's rights.
ResidualIncidence ==
  completed =>
    /\ External(acquirer)
    /\ Cardinality(terminal) = Threshold
    /\ terminal = {m \in Members : shareOwner[m] = acquirer}
    /\ \A m \in Members \ terminal : shareOwner[m] = m
    /\ totalAcquisitionCallValue >= Threshold * Floor - 2 * PoolCap
-----------------------------------------------------------------------------
(* The invariant that the proofs of module OverlappingPoolEscrowProofs     *)
(* carry from one call to the next.                                        *)

\* Nothing is sold before the credits are fixed, within the caps, and the
\* rights stay with the members until they are sold.
CreditsBeforeSale ==
  /\ ~configured => ~completed /\ \A m \in Members : credits[m] = 0
  /\ configured =>
       PoolUsage(credits, FirstPool) <= PoolCap /\ PoolUsage(credits, SecondPool) <= PoolCap
  /\ ~completed => \A m \in Members : shareOwner[m] = m

\* The price that was recorded is still the quote of the set that was sold.
SaleAtQuote == completed => totalAcquisitionCallValue = quoteFour(terminal)

EInv ==
  /\ TypeOK
  /\ Solvency
  /\ MembersMadeWhole
  /\ CreditsBeforeSale
  /\ ResidualIncidence
  /\ SaleAtQuote
=============================================================================
