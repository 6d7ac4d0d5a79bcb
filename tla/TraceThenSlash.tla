--------------------------- MODULE TraceThenSlash ---------------------------
(***************************************************************************)
(* The bonded-committee contract TraceThenSlash: the owner posts one bond  *)
(* per member and freezes the committee, then opens release jobs; anyone   *)
(* outside the committee may submit evidence that a member disclosed its   *)
(* share before the release time, one piece or a whole package at a time;  *)
(* the caller's reward and the treasury's penalty are credited and drawn   *)
(* later; when every window has ended the owner retires the committee and  *)
(* takes the remaining bonds.                                              *)
(*                                                                         *)
(* A call that reverts leaves no trace, so only successful calls are       *)
(* steps.  The three withdrawals hand control to the recipient in the      *)
(* middle of the call: they are split at that point, `entered' is the      *)
(* ReentrancyGuard's flag, and whatever the recipient may still call runs  *)
(* in between.  If the recipient fails the whole call reverts, the nested  *)
(* calls with it, and none of these steps happened.                        *)
(***************************************************************************)
EXTENDS Amounts, Sequences

CONSTANTS
  Members,      \* committee positions (0 .. COMMITTEE_SIZE - 1)
  Threshold,    \* THRESHOLD: the shares that open a release
  Addresses,    \* the non-zero addresses that may call or be registered
  Signers,      \* the addresses the owner considers registering
  NoAddress,    \* address(0)
  Treasury,     \* the address the penalties belong to
  Verifier,     \* the address whose attestation is trusted
  BondValues,   \* values the owner may send along with a registration
  Reward,       \* callerRewardPerSlash
  Evidence,     \* the evidence that callers may submit
  MaxPackage,   \* bound: longest package submitted
  MaxTime,      \* bound: latest block timestamp
  MaxJobs       \* bound: number of release jobs

(***************************************************************************)
(* Evidence names a job, a member and a share, carries a signature of the  *)
(* artifact (by anyone) and an attestation of the whole (by anyone).       *)
(***************************************************************************)
ASSUME ConstantsAssumption ==
  /\ IsFiniteSet(Members)
  /\ Threshold \in 1 .. Cardinality(Members)
  /\ IsFiniteSet(Addresses)
  /\ Signers \subseteq Addresses
  /\ NoAddress \notin Addresses
  /\ Treasury \in Addresses
  /\ BondValues \subseteq Nat
  /\ Reward \in Nat \ {0}
  /\ \A e \in Evidence :
       /\ DOMAIN e = {"job", "member", "share", "signedBy", "attestedBy"}
       /\ e.member \in Members
  /\ MaxPackage \in Nat
  /\ MaxTime \in Nat
  /\ MaxJobs \in Nat

VARIABLES
  signer,                   \* members[m].signer; NoAddress: not registered
  bond,                     \* members[m].bond
  slashed,                  \* the members whose slashed flag is set
  committeeFrozen,
  committeeRetired,
  jobs,                     \* release times; a job is named by its nonce
  latestReleaseTime,
  frozenThresholdBondFloor,
  usedEvidence,             \* digests of the evidence that was applied
  claimableRewards,
  treasuryAccrued,
  balance,                  \* the ether the contract holds
  now,                      \* block.timestamp
  entered,                  \* ReentrancyGuard: inside a nonReentrant call
  deposit,                  \* history: the bond each member registered with
  paid                      \* history: ether sent out, by kind of withdrawal

committee == <<signer, bond, slashed, deposit>>
phase     == <<committeeFrozen, committeeRetired, frozenThresholdBondFloor>>
windows   == <<jobs, latestReleaseTime, now>>
credits   == <<claimableRewards, treasuryAccrued, usedEvidence>>
ether     == <<balance, paid>>

vars == <<committee, phase, windows, credits, ether, entered>>

-----------------------------------------------------------------------------
(* Faulty variants of the definitions below, for mutation tests.           *)

AcceptAnyBond(value) == TRUE

FreezeNotRequired == ~committeeRetired

LastReleaseTime(releaseTime) == releaseTime

DearestMembers(b) ==
  CHOOSE S \in SUBSET Members :
    /\ Cardinality(S) = Threshold
    /\ \A s \in S, t \in Members \ S : b[s] >= b[t]

RepeatsAllowed(pkg) == TRUE

RewardPerCall(pkg) == Reward

AnyTimeAfterFirstJob == jobs # << >>

-----------------------------------------------------------------------------
Registered == {m \in Members : signer[m] # NoAddress}

SignerRegistered(a) == \E m \in Registered : signer[m] = a

WindowOpen(job) == now < jobs[job]

BondAcceptable(value) == value > Reward

JobsAllowed == committeeFrozen /\ ~committeeRetired

(***************************************************************************)
(* currentCertificate sorts the bonds and adds up the first THRESHOLD of   *)
(* them: a set of that many members with no cheaper member outside it.     *)
(***************************************************************************)
Cheapest(b) ==
  CHOOSE S \in SUBSET Members :
    /\ Cardinality(S) = Threshold
    /\ \A s \in S, t \in Members \ S : b[s] <= b[t]

Certificate(b) == TotalOn(b, Cheapest(b))

-----------------------------------------------------------------------------
Init ==
  /\ signer = [m \in Members |-> NoAddress]
  /\ bond = [m \in Members |-> 0]
  /\ slashed = {}
  /\ committeeFrozen = FALSE
  /\ committeeRetired = FALSE
  /\ jobs = << >>
  /\ latestReleaseTime = 0
  /\ frozenThresholdBondFloor = 0
  /\ usedEvidence = {}
  /\ claimableRewards = [a \in Addresses |-> 0]
  /\ treasuryAccrued = 0
  /\ balance = 0
  /\ now = 0
  /\ entered = FALSE
  /\ deposit = [m \in Members |-> 0]
  /\ paid = [reward |-> 0, treasury |-> 0, bonds |-> 0]

-----------------------------------------------------------------------------
(* The owner's calls.  None of them is guarded against reentrancy.         *)

RegisterMember(m, a, value) ==
  /\ ~committeeFrozen
  /\ BondAcceptable(value)
  /\ m \notin Registered
  /\ ~SignerRegistered(a)
  /\ signer' = [signer EXCEPT ![m] = a]
  /\ bond' = [bond EXCEPT ![m] = value]
  /\ deposit' = [deposit EXCEPT ![m] = value]
  /\ balance' = balance + value
  /\ UNCHANGED <<slashed, phase, windows, credits, paid, entered>>

FreezeCommittee ==
  /\ ~committeeFrozen
  /\ Registered = Members
  /\ committeeFrozen' = TRUE
  /\ frozenThresholdBondFloor' = Certificate(bond)
  /\ UNCHANGED <<committee, committeeRetired, windows, credits, ether, entered>>

LaterReleaseTime(releaseTime) ==
  IF releaseTime > latestReleaseTime THEN releaseTime ELSE latestReleaseTime

OpenRelease(releaseTime) ==
  /\ JobsAllowed
  /\ releaseTime > now
  /\ Len(jobs) < MaxJobs
  /\ jobs' = Append(jobs, releaseTime)
  /\ latestReleaseTime' = LaterReleaseTime(releaseTime)
  /\ UNCHANGED <<committee, phase, now, credits, ether, entered>>

-----------------------------------------------------------------------------
(* Slashing.                                                               *)

Digest(e) ==
  [job |-> e.job, member |-> e.member, share |-> e.share, signedBy |-> e.signedBy]

\* _validateEvidence
ValidEvidence(e) ==
  /\ e.job \in DOMAIN jobs
  /\ WindowOpen(e.job)
  /\ e.member \notin slashed
  /\ bond[e.member] # 0
  /\ e.signedBy = signer[e.member]
  /\ Digest(e) \notin usedEvidence
  /\ e.attestedBy = Verifier

\* The losses of a package are read before the first of them is applied.
Losses(pkg) == [i \in DOMAIN pkg |-> bond[pkg[i].member]]

CallerReward(pkg) == Len(pkg) * Reward

\* What the two entry points have in common; _applySlash for every item.
Slash(caller, pkg) ==
  LET accused == {pkg[i].member : i \in DOMAIN pkg}
  IN  /\ ~entered
      /\ ~SignerRegistered(caller)
      /\ \A i \in DOMAIN pkg : ValidEvidence(pkg[i])
      /\ usedEvidence' = usedEvidence \cup {Digest(pkg[i]) : i \in DOMAIN pkg}
      /\ bond' = [m \in Members |-> IF m \in accused THEN 0 ELSE bond[m]]
      /\ slashed' = slashed \cup accused
      /\ claimableRewards' =
           [claimableRewards EXCEPT ![caller] = @ + CallerReward(pkg)]
      /\ treasuryAccrued' = treasuryAccrued + (Total(Losses(pkg)) - CallerReward(pkg))
      /\ UNCHANGED <<signer, deposit, phase, windows, ether, entered>>

SlashEarlyShare(caller, e) == Slash(caller, <<e>>)

DistinctMembers(pkg) ==
  \A i, j \in DOMAIN pkg : pkg[i].member = pkg[j].member => i = j

SlashPackage(caller, pkg) ==
  /\ Len(pkg) \in 1 .. Cardinality(Members)
  /\ \A i \in DOMAIN pkg : pkg[i].job = pkg[1].job
  /\ DistinctMembers(pkg)
  /\ Slash(caller, pkg)

-----------------------------------------------------------------------------
(* Withdrawals, up to the point where the recipient's code runs.           *)

WithdrawReward(a) ==
  /\ ~entered
  /\ claimableRewards[a] # 0
  /\ claimableRewards' = [claimableRewards EXCEPT ![a] = 0]
  /\ balance' = balance - claimableRewards[a]
  /\ paid' = [paid EXCEPT !.reward = @ + claimableRewards[a]]
  /\ entered' = TRUE
  /\ UNCHANGED <<committee, phase, windows, treasuryAccrued, usedEvidence>>

WithdrawTreasury ==
  /\ ~entered
  /\ treasuryAccrued # 0
  /\ treasuryAccrued' = 0
  /\ balance' = balance - treasuryAccrued
  /\ paid' = [paid EXCEPT !.treasury = @ + treasuryAccrued]
  /\ entered' = TRUE
  /\ UNCHANGED <<committee, phase, windows, claimableRewards, usedEvidence>>

WindowsOver == jobs # << >> /\ now >= latestReleaseTime

WithdrawRemainingBonds ==
  /\ ~entered
  /\ committeeFrozen
  /\ ~committeeRetired
  /\ WindowsOver
  /\ Total(bond) # 0
  /\ bond' = [m \in Members |-> 0]
  /\ committeeRetired' = TRUE
  /\ balance' = balance - Total(bond)
  /\ paid' = [paid EXCEPT !.bonds = @ + Total(bond)]
  /\ entered' = TRUE
  /\ UNCHANGED <<signer, slashed, deposit, committeeFrozen,
                 frozenThresholdBondFloor, windows, credits>>

\* The recipient returned; the guard is released.
ReturnFromTransfer ==
  /\ entered
  /\ entered' = FALSE
  /\ UNCHANGED <<committee, phase, windows, credits, ether>>

-----------------------------------------------------------------------------
\* Blocks are produced between transactions only.
Tick ==
  /\ ~entered
  /\ now < MaxTime
  /\ now' = now + 1
  /\ UNCHANGED <<committee, phase, jobs, latestReleaseTime, credits, ether, entered>>

\* A package with one invalid item reverts, so only the others are tried.
Packages ==
  UNION {[1 .. n -> {e \in Evidence : ValidEvidence(e)}] : n \in 1 .. MaxPackage}

Next ==
  \/ \E m \in Members, a \in Signers, value \in BondValues : RegisterMember(m, a, value)
  \/ FreezeCommittee
  \/ \E releaseTime \in 1 .. MaxTime : OpenRelease(releaseTime)
  \/ \E caller \in Addresses, e \in Evidence : SlashEarlyShare(caller, e)
  \/ \E caller \in Addresses, pkg \in Packages : SlashPackage(caller, pkg)
  \/ \E a \in Addresses : WithdrawReward(a)
  \/ WithdrawTreasury
  \/ WithdrawRemainingBonds
  \/ ReturnFromTransfer
  \/ Tick

Spec == Init /\ [][Next]_vars

-----------------------------------------------------------------------------
(* Properties.                                                             *)

\* Every variable keeps its type; no amount becomes negative, although
\* _applySlash subtracts the reward from the loss.
TypeOK ==
  /\ signer \in [Members -> Addresses \cup {NoAddress}]
  /\ bond \in [Members -> Nat]
  /\ slashed \subseteq Members
  /\ committeeFrozen \in BOOLEAN
  /\ committeeRetired \in BOOLEAN
  /\ jobs \in Seq(Nat)
  /\ latestReleaseTime \in Nat
  /\ frozenThresholdBondFloor \in Nat
  /\ claimableRewards \in [Addresses -> Nat]
  /\ treasuryAccrued \in Nat
  /\ balance \in Nat
  /\ now \in Nat
  /\ entered \in BOOLEAN
  /\ deposit \in [Members -> Nat]
  /\ paid \in [reward : Nat, treasury : Nat, bonds : Nat]

\* The contract holds exactly what it owes, also while a recipient's code
\* runs in the middle of a withdrawal: the live bonds, the unclaimed rewards
\* and the accrued penalties.
Solvency == balance = Total(bond) + Total(claimableRewards) + treasuryAccrued

\* What was charged and credited depends on which members were slashed and
\* on nothing else: not on the order, the grouping into packages, the caller
\* or the withdrawals in between.  A slashed bond is never refunded.
LossesFollowSlashedSet ==
  LET fees == Reward * Cardinality(slashed)
  IN  /\ Total(claimableRewards) + paid.reward = fees
      /\ treasuryAccrued + paid.treasury = TotalOn(deposit, slashed) - fees
      /\ Total(bond) + paid.bonds = TotalOn(deposit, Members \ slashed)

\* Bonds are only given back when no release window is open, and none opens
\* afterwards: no early share can go unpunished for lack of a bond.
NoWindowAfterRetirement ==
  committeeRetired => \A job \in DOMAIN jobs : ~WindowOpen(job)

\* No member of the committee is ever credited a caller reward: callers are
\* outside the committee and cannot join it after they were credited.
NoMemberHoldsReward ==
  \A a \in Addresses : SignerRegistered(a) => claimableRewards[a] = 0

\* Once a threshold of members has been slashed, their total loss (paid out
\* or still held) is at least the floor certified when the committee froze.
ThresholdLossAtLeastFloor ==
  Cardinality(slashed) >= Threshold =>
    Total(claimableRewards) + paid.reward + treasuryAccrued + paid.treasury
      >= frozenThresholdBondFloor

-----------------------------------------------------------------------------
(* The contract implements the life cycle of module BondLifecycle.         *)

fateBar ==
  [m \in Members |->
     IF m \notin Registered THEN "unposted"
     ELSE IF m \in slashed THEN "slashed"
     ELSE IF committeeRetired THEN "refunded" ELSE "live"]

Lifecycle == INSTANCE BondLifecycle WITH
  fate       <- fateBar,
  windowOpen <- \E job \in DOMAIN jobs : WindowOpen(job),
  penalties  <- Total(claimableRewards) + treasuryAccrued + paid.reward + paid.treasury,
  refunds    <- paid.bonds

\* Every bond is slashed whole while a window is open, or refunded when all
\* are closed, and never both: the contract's steps are steps of the promise.
ImplementsBondLifecycle == Lifecycle!Spec
-----------------------------------------------------------------------------
(* The invariant that the proofs of module TraceThenSlashProofs carry from *)
(* one call to the next.                                                   *)

\* A registered member posted more than one reward; its bond is whole, or
\* gone because it was slashed or because the committee retired.
BondsAsPosted ==
  \A m \in Members :
    /\ m \notin Registered => deposit[m] = 0 /\ m \notin slashed
    /\ m \in Registered => deposit[m] > Reward
    /\ bond[m] = IF m \in slashed \/ committeeRetired THEN 0 ELSE deposit[m]

\* The committee is complete once it is frozen, and nothing was slashed,
\* opened, credited or retired before.
FrozenFirst ==
  /\ committeeFrozen => Registered = Members
  /\ ~committeeFrozen =>
       /\ jobs = << >>
       /\ slashed = {}
       /\ ~committeeRetired
       /\ \A a \in Addresses : claimableRewards[a] = 0

\* The latest release time bounds every job's, and is past on retirement.
LatestBoundsJobs ==
  /\ \A job \in DOMAIN jobs : jobs[job] <= latestReleaseTime
  /\ committeeRetired => now >= latestReleaseTime

\* The frozen floor is the certificate of the bonds as they were posted.
FloorCertified ==
  committeeFrozen => frozenThresholdBondFloor = Certificate(deposit)

IInv ==
  /\ TypeOK
  /\ Solvency
  /\ LossesFollowSlashedSet
  /\ NoMemberHoldsReward
  /\ BondsAsPosted
  /\ FrozenFirst
  /\ LatestBoundsJobs
  /\ FloorCertified
=============================================================================
