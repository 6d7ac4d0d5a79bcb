---------------------------- MODULE SlashingRecord ----------------------------
(***************************************************************************)
(* The scripts around a keyper slasher: one deploys it and posts the bonds,*)
(* runs of a second open releases, runs of a third have the verifier       *)
(* attest a share and submit it, each leaving a file, and the offline      *)
(* verifier judges the files (deployment/scripts).  Runs do not exclude    *)
(* each other: what a run reads before and after its transaction is stale  *)
(* as soon as another transaction is mined, and anyone may repeat an       *)
(* attested slashing it sees waiting to be mined.  A script waits for the  *)
(* receipt of its transaction, whose status it does not look at: it writes *)
(* its file after a transaction that reverted as well, and only the        *)
(* verifier reads the status.  A transaction that the node refuses when    *)
(* its gas is estimated is never sent; the run then stays where it is, as  *)
(* with one that is not mined.  Those of the deployment nobody can         *)
(* disturb: the contract takes them from its owner only.                   *)
(***************************************************************************)
EXTENDS KeyperSlasher

CONSTANTS
    KeyperSet,     \* the exported keyper set: index to address
    EvidenceFiles, \* the exported evidence considered: addresses, valid shares
    Bond,          \* bondWeiPerMember
    Delay,         \* RELEASE_DELAY_SECONDS
    GasCosts,      \* gas costs of a slashing transaction
    Others,        \* wallets that may repeat a slashing they see
    Openers,       \* runs of the release script
    Submitters,    \* runs of the evidence script
    Wallet         \* the submitting wallet of each of these

ASSUME RecordAssumption ==
    /\ KeyperSet \in [Keypers -> Range(KeyperSet)]
    /\ Bond \in Nat /\ Delay \in Nat /\ GasCosts \subseteq Nat

VARIABLES
    evidence,      \* the evidence file
    deployment, jobFile, slashing,  \* the files of the three scripts
    opener,        \* the state of each run of the release script
    submitter      \* the state of each run of the evidence script

files == <<evidence, deployment, jobFile, slashing>>
runs == <<opener, submitter>>
recordVars == <<contract, attested, files, runs>>

NoFile == [written |-> FALSE]
Ready == [at |-> "ready"]
Over == [at |-> "over"]

RecordInit ==
    /\ SlasherInit
    /\ evidence \in EvidenceFiles
    /\ deployment = NoFile /\ jobFile = NoFile /\ slashing = NoFile
    /\ opener = [o \in Openers |-> Ready]
    /\ submitter = [s \in Submitters |-> Ready]

Files(d, j, s) == deployment' = d /\ jobFile' = j /\ slashing' = s /\ UNCHANGED evidence

(*** Deployment: the members in the order of their index, then the freeze. ***)

Register ==
    /\ \E m \in Keypers :
         /\ DOMAIN signer = {k \in Keypers : k < m}
         /\ RegisterMember(m, KeyperSet[m], Bond)
    /\ UNCHANGED <<attested, files, runs>>

Freeze == FreezeCommittee /\ UNCHANGED <<attested, files, runs>>

WriteDeployment ==
    /\ committeeFrozen /\ deployment = NoFile
    /\ Files([written |-> TRUE, keypers |-> signer, bond |-> Bond, callerReward |-> reward,
              totalBond |-> totalBond, certificate |-> currentCertificate],
             jobFile, slashing)
    /\ UNCHANGED <<contract, attested, runs>>

(*** A release: the time is read before the transaction, the nonce after. ***)

ReadBlock(o) ==
    /\ deployment.written /\ opener[o].at = "ready"
    /\ opener' = [opener EXCEPT ![o] = [at |-> "sent", releaseTime |-> now + Delay]]
    /\ UNCHANGED <<contract, attested, files, submitter>>

ReleaseMined(o, success) ==
    opener' = [opener EXCEPT ![o] =
      [at |-> "mined", releaseTime |-> opener[o].releaseTime, success |-> success]]

MineRelease(o) ==
    /\ entered = NoCall /\ opener[o].at = "sent"
    /\ OpenRelease(opener[o].releaseTime)
    /\ ReleaseMined(o, TRUE)
    /\ UNCHANGED <<attested, files, submitter>>

\* Mined too late: the release time is over.
RevertRelease(o) ==
    /\ entered = NoCall /\ opener[o].at = "sent"
    /\ opener[o].releaseTime <= now
    /\ ReleaseMined(o, FALSE)
    /\ UNCHANGED <<contract, attested, files, submitter>>

\* The job is named by the count of jobs at the time of reading, whether or not the
\* transaction opened it.
WriteJob(o) ==
    /\ entered = NoCall /\ opener[o].at = "mined"
    /\ Files(deployment, [written |-> TRUE, job |-> <<opener[o].releaseTime, Len(jobs)>>,
                          releaseTime |-> opener[o].releaseTime,
                          success |-> opener[o].success], slashing)
    /\ opener' = [opener EXCEPT ![o] = Over]
    /\ UNCHANGED <<contract, attested, submitter>>

(*** A slashing. ***)

\* The share is checked against the evidence and the deployment before the
\* verifier's key signs it; then the certificate is read and the transaction sent.
Submit(s, m) ==
    /\ entered = NoCall /\ jobFile.written /\ submitter[s].at = "ready"
    /\ m \in evidence.valid /\ deployment.keypers[m] = evidence.keypers[m]
    /\ attested' = attested \cup {[job |-> jobFile.job, member |-> m]}
    /\ submitter' = [submitter EXCEPT ![s] =
         [at |-> "sent", job |-> jobFile.job, releaseTime |-> jobFile.releaseTime,
          member |-> m, certificateBefore |-> currentCertificate]]
    /\ UNCHANGED <<contract, files, opener>>

SlashMined(s, success) ==
    LET run == submitter[s]
    IN  submitter' = [submitter EXCEPT ![s] =
          [at |-> "mined", job |-> run.job, releaseTime |-> run.releaseTime,
           member |-> run.member, certificateBefore |-> run.certificateBefore,
           observedAt |-> now, success |-> success]]

MineSlash(s) ==
    /\ submitter[s].at = "sent"
    /\ SlashEarlyShare(Wallet[s], [job |-> submitter[s].job, member |-> submitter[s].member])
    /\ SlashMined(s, TRUE)
    /\ UNCHANGED <<attested, files, opener>>

\* Mined too late, after the same slashing by another, or with a recipient that fails.
RevertSlash(s) ==
    /\ entered = NoCall /\ submitter[s].at = "sent"
    /\ SlashMined(s, FALSE)
    /\ UNCHANGED <<contract, attested, files, opener>>

FrontRun(caller, s) ==
    LET run == submitter[s]
    IN  /\ run.at = "sent"
        /\ SlashEarlyShare(caller, [job |-> run.job, member |-> run.member])
        /\ UNCHANGED <<attested, files, runs>>

Pay == PayTreasury /\ UNCHANGED <<attested, files, runs>>

\* The certificate is read again; the amounts are copied from the deployment.
WriteSlashing(s, gas) ==
    LET run == submitter[s]
    IN  /\ entered = NoCall /\ run.at = "mined"
        /\ Files(deployment, jobFile,
             [written |-> TRUE, job |-> run.job, member |-> run.member,
              success |-> run.success, caller |-> Wallet[s], keyper |-> evidence.keypers[run.member],
              observedAt |-> run.observedAt,
              prematureBy |-> run.releaseTime - run.observedAt,
              certificateBefore |-> run.certificateBefore,
              certificateAfter |-> currentCertificate,
              bondForfeited |-> deployment.bond, callerReward |-> deployment.callerReward,
              treasuryAmount |-> deployment.bond - deployment.callerReward,
              gasCost |-> gas,
              netGain |-> deployment.callerReward - gas])
        /\ submitter' = [submitter EXCEPT ![s] = Over]
        /\ UNCHANGED <<contract, attested, opener>>

TimePasses == Tick /\ UNCHANGED <<attested, files, runs>>

RecordNext ==
    \/ Register \/ Freeze \/ WriteDeployment
    \/ \E o \in Openers : ReadBlock(o) \/ MineRelease(o) \/ RevertRelease(o) \/ WriteJob(o)
    \/ \E s \in Submitters, m \in Keypers : Submit(s, m)
    \/ \E s \in Submitters : MineSlash(s) \/ RevertSlash(s)
    \/ \E s \in Submitters, gas \in GasCosts : WriteSlashing(s, gas)
    \/ \E c \in Others, s \in Submitters : FrontRun(c, s)
    \/ Pay
    \/ TimePasses

RecordSpec == RecordInit /\ [][RecordNext]_recordVars

(*** The offline verifier. ***)

threshold_cover(bonds) == Min({TotalOn(bonds, S) : S \in kSubset(Threshold, DOMAIN bonds)})

IdentitiesAlign ==
    /\ deployment.keypers = KeyperSet /\ KeyperSet = evidence.keypers
    /\ evidence.valid = Keypers
    /\ jobFile.job = slashing.job
    /\ slashing.keyper = evidence.keypers[slashing.member]

ObservedEarly ==
    /\ slashing.observedAt < jobFile.releaseTime
    /\ jobFile.releaseTime - slashing.observedAt = slashing.prematureBy

(* A faulty variant, for mutation tests: the status of the slashing is not read. *)
OnlyTheRelease == jobFile.success

\* Those of the deployment are not in question.
TransactionsSucceeded == jobFile.success /\ slashing.success

BondsBefore == [m \in Keypers |-> deployment.bond]
BondsAfter == [BondsBefore EXCEPT ![slashing.member] = 0]

CertificatesMatch ==
    /\ deployment.totalBond = Cardinality(Keypers) * deployment.bond
    /\ deployment.certificate = threshold_cover(BondsBefore)
    /\ slashing.certificateBefore = threshold_cover(BondsBefore)
    /\ slashing.certificateAfter = threshold_cover(BondsAfter)

\* Only for the rewarded contract.
RewardCoversGas ==
    /\ deployment.bond > deployment.callerReward
    /\ slashing.bondForfeited = deployment.bond
    /\ slashing.callerReward = deployment.callerReward
    /\ slashing.bondForfeited = slashing.callerReward + slashing.treasuryAmount
    /\ slashing.netGain = slashing.callerReward - slashing.gasCost
    /\ slashing.netGain > 0

build_certificate ==
    /\ deployment.written /\ jobFile.written /\ slashing.written
    /\ IdentitiesAlign
    /\ ObservedEarly
    /\ TransactionsSucceeded
    /\ CertificatesMatch
    /\ reward # 0 => RewardCoversGas

\* report_slashing_fee_ratio: the bond is taken to be what the certificate lost.
FeeExceedsBond == slashing.gasCost > slashing.certificateBefore - slashing.certificateAfter

(*** Property ***)

\* What an accepted record claims, told from the contract's log.
RecordIsTrue ==
    LET first == events[1]
    IN  /\ first.member = slashing.member /\ first.caller = slashing.caller
        /\ first.observedAt = slashing.observedAt
        /\ first.amount = slashing.bondForfeited
        /\ JobExists(slashing.job) /\ first.observedAt < slashing.job[1]
        /\ reward # 0 => slashing.gasCost < reward
        /\ FeeExceedsBond <=> slashing.gasCost > first.amount

\* Property: the verifier accepts the files only if the recorded slashing was the
\* contract's first one and happened as recorded, whatever other runs and callers
\* did between the two readings of the certificate and whichever transactions
\* reverted; and it accepts the record of a slashing that succeeded, that nothing
\* disturbed and whose reward covered its gas.
AcceptedRecordIsTrue ==
    /\ build_certificate => RecordIsTrue
    /\ /\ slashing.written /\ slashing.success /\ Len(events) = 1 /\ entered = NoCall
       /\ jobFile.job = slashing.job /\ jobFile.success
       /\ evidence.keypers = KeyperSet /\ evidence.valid = Keypers
       /\ reward # 0 => slashing.gasCost < reward
       => build_certificate
=============================================================================
