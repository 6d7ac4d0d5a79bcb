---------------------------- MODULE KeyperSlasher ----------------------------
(***************************************************************************)
(* The slashing contracts of the public deployment                         *)
(* (deployment/contracts/BondedKeyperSlasherRewarded.sol): the owner posts *)
(* one bond per keyper, freezes the committee and opens releases, and      *)
(* whoever holds the verifier's attestation of an early share may slash    *)
(* its keyper.  The contract of the first deployment                       *)
(* (BondedKeyperSlasher.sol) is the case reward = 0: it pays no caller and *)
(* lets a keyper submit its own slashing.                                  *)
(*                                                                         *)
(* The caller and the treasury are paid in the middle of the call, one     *)
(* after the other, and `entered' is what the call still owes: the views   *)
(* can be read from inside both transfers.  A recipient that fails undoes  *)
(* the whole call, which is then no step at all.  The guard refuses a      *)
(* nested slashing, and the other functions are the owner's, a wallet that *)
(* has no code to be called back.                                          *)
(***************************************************************************)
EXTENDS Amounts, Sequences, FiniteSetsExt

CONSTANTS
    Keypers,       \* the member indices
    Threshold,
    Rewards,       \* the values of callerRewardWei considered; 0: first deployment
    MaxTime        \* bound: latest block timestamp

\* COMMITTEE_SIZE is 7 and THRESHOLD is 4.  With a threshold of one the certificate
\* is zero after the first slashing and no later one would show in it.
ASSUME SlasherAssumption ==
    /\ Keypers \subseteq Nat /\ IsFiniteSet(Keypers)
    /\ Threshold \in 2 .. Cardinality(Keypers)
    /\ Rewards \subseteq Nat /\ MaxTime \in Nat

VARIABLES
    reward,        \* callerRewardWei, immutable
    signer,        \* members[m].signer of the registered members
    bond,          \* members[m].bond of the registered members
    slashed,       \* the members with the slashed flag
    committeeFrozen,
    jobs,          \* release times; a job is named by its release time and nonce
    attested,      \* the evidence the verifier's key has signed
    usedEvidence,
    balance,
    now,           \* block.timestamp
    entered,       \* the slashing that is paying, or NoCall
    events,        \* the EarlyShareSlashed log
    paid           \* history: ether received by callers and treasury

committee == <<reward, signer, bond, committeeFrozen>>
penalties == <<slashed, usedEvidence, balance, entered, events, paid>>
contract == <<committee, penalties, jobs, now>>

NoCall == [due |-> 0]

totalBond == Total(bond)

\* The sum of the smallest bonds; a slashed keyper counts with a bond of zero.
currentCertificate ==
    Min({TotalOn(bond, S) : S \in kSubset(Threshold, DOMAIN bond)})

JobExists(job) == job[2] \in DOMAIN jobs /\ jobs[job[2]] = job[1]

SlasherInit ==
    /\ reward \in Rewards
    /\ signer = <<>> /\ bond = <<>> /\ committeeFrozen = FALSE
    /\ slashed = {} /\ jobs = <<>> /\ attested = {} /\ usedEvidence = {}
    /\ balance = 0 /\ now = 0 /\ entered = NoCall /\ events = <<>>
    /\ paid = [callers |-> 0, treasury |-> 0]

RegisterMember(m, address, value) ==
    /\ ~committeeFrozen
    /\ m \in Keypers \ DOMAIN signer /\ address \notin Range(signer)
    /\ value > reward
    /\ signer' = [k \in DOMAIN signer \cup {m} |-> IF k = m THEN address ELSE signer[k]]
    /\ bond' = [k \in DOMAIN bond \cup {m} |-> IF k = m THEN value ELSE bond[k]]
    /\ balance' = balance + value
    /\ UNCHANGED <<reward, committeeFrozen, slashed, usedEvidence, entered, events,
                   paid, jobs, now>>

FreezeCommittee ==
    /\ ~committeeFrozen
    /\ DOMAIN signer = Keypers
    /\ committeeFrozen' = TRUE
    /\ UNCHANGED <<reward, signer, bond, penalties, jobs, now>>

OpenRelease(releaseTime) ==
    /\ committeeFrozen
    /\ releaseTime > now
    /\ jobs' = Append(jobs, releaseTime)
    /\ UNCHANGED <<committee, penalties, now>>

MaySlash(caller, e) ==
    /\ entered = NoCall
    /\ JobExists(e.job) /\ now < e.job[1]
    /\ e.member \notin slashed /\ bond[e.member] # 0
    /\ reward # 0 => caller # signer[e.member]
    /\ e \in attested \ usedEvidence

(* A faulty variant, for mutation tests: the bond is not cleared. *)
BondKept(m) == bond[m]

BondAfterSlash(m) == 0

\* Up to the caller's reward, which is sent first.
SlashEarlyShare(caller, e) ==
    /\ MaySlash(caller, e)
    /\ usedEvidence' = usedEvidence \cup {e}
    /\ bond' = [bond EXCEPT ![e.member] = BondAfterSlash(e.member)]
    /\ slashed' = slashed \cup {e.member}
    /\ balance' = balance - reward
    /\ paid' = [paid EXCEPT !.callers = @ + reward]
    /\ entered' = [due |-> bond[e.member] - reward, member |-> e.member,
                   amount |-> bond[e.member], caller |-> caller]
    /\ UNCHANGED <<reward, signer, committeeFrozen, events, jobs, now>>

\* The rest goes to the treasury, and the call returns.
PayTreasury ==
    /\ entered # NoCall
    /\ balance' = balance - entered.due
    /\ paid' = [paid EXCEPT !.treasury = @ + entered.due]
    /\ events' = Append(events, [member |-> entered.member, caller |-> entered.caller,
                                 amount |-> entered.amount, observedAt |-> now])
    /\ entered' = NoCall
    /\ UNCHANGED <<committee, slashed, usedEvidence, jobs, now>>

Tick ==
    /\ entered = NoCall
    /\ now < MaxTime
    /\ now' = now + 1
    /\ UNCHANGED <<committee, penalties, jobs>>

\* Property: the contract holds what the bonds and the running call say, also
\* while a recipient is being paid, and every penalty was paid out once, the reward
\* to its caller and the rest to the treasury (slashEarlyShare).
PenaltiesPaidOnce ==
    /\ balance = totalBond + entered.due
    /\ paid.callers = reward * Cardinality(slashed)
    /\ entered = NoCall =>
         /\ paid.callers + paid.treasury = Total([i \in DOMAIN events |-> events[i].amount])
         /\ slashed = {events[i].member : i \in DOMAIN events}
         /\ Cardinality(slashed) = Len(events)
=============================================================================
