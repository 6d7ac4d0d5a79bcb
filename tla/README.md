# TLA+ verification of the threshold-certificate repository

The repository studies what it costs to obtain a decryption from a threshold
committee before its time, and what deposits, payments and audits change about
that cost. One part of it *runs*, with several parties, money and failures: a
handful of contracts, two paid threshold-response runtimes of several processes,
and the scripts that deploy, release, slash and settle. The other part is
computation: the solvers, closed forms and audits that the certificates rest on.
This directory models both, the first as state machines and the second as
operators compared with their definitions on every small input, checks them
with TLC and proves the most important facts with TLAPS.

Paths below are relative to `src/`; `A/` stands for `artifact/`.

## 1. Inventory

### Modelled

| Component | State | Operations | Hard behaviour | What makes it correct |
|---|---|---|---|---|
| **TraceThenSlash** `A/chiado_public_runs/contracts/TraceThenSlash.sol` | members and bonds, frozen / retired flags, release jobs, used evidence, rewards, treasury, ether | `registerMember`, `freezeCommittee`, `openRelease`, `slash`, `slashPackage`, three withdrawals | evidence in any order and grouping by competing callers; recipients that call back in the middle of a withdrawal; windows that overlap and end out of order | holds what it owes; losses depend only on *who* was slashed; no bond returned while a window is open; a threshold of disclosures costs at least the certified floor |
| **Overlapping-pool escrow** `A/joint_incidence_refinement/contracts/OverlappingPoolEscrow.sol` | credits, configured / completed flags, share owners, residual payment, ether | `configureCredits`, `acquireFour`, `withdraw` | withdrawals before, between and after configuration and sale; nested calls | solvent; every member made whole; the buyer pays at least what the pools' caps leave open |
| **Prefunded exchange** `A/joint_incidence_refinement/contracts/PrefundedThresholdExchange.sol` | orders, accepted shares, credits, ether | `openOrder`, `submitShare`, `withdrawCredit` | orders and shares inside a withdrawal; members shared by orders; orders that never finish | holds what it owes; each member paid what it was promised, once per order; success means the prefunding was credited |
| **PTR v3 operator** `A/ope_process_positive/runtime/ptr_v3/operator_server.py` | nonces in memory, nonce log, transcript, lock, threads | `POST /partial` (eleven steps), start, kill | threads between lookup and answer; kills between accept, log, transcript and send; appends that fail half-way; nonces that the log does not give back | a nonce that the log gives back is answered at most once, also across restarts, any other once by each process; every answer is in the transcript; no thread waits for ever |
| **PTR v3 coordinator and runner** `.../ptr_v3/coordinator.py`, `A/ope_process_positive/run_positive_certificate.py` | ports, processes, nonces seen, verified answers, route, probes | starting and stopping operators, `request`, `_verify`, `combine`, `run_routes`, four probes | late, lost, repeated, misrouted, altered, unreadable answers; ports picked before they are bound; processes that do not start; payments that occur twice | only authentic answers count, once; what counts combines; a payment serves one route; every probe is rejected; the session ends and leaves no process |
| **PTR v3 cryptography and dealing** `.../ptr_v3/crypto.py`, `network_identity.py`, `dealer.py` | keys, ciphertexts, partial decryptions, proofs, signatures, dealt files | `create_partial`, `verify_partial`, `combine_partials`, `sign`, `verify`, `deal` | witnesses that are reused, shares of zero, values outside the subgroup | any threshold set decrypts; a proof and a signature are good for one statement |
| **Settlement script** `A/chiado_public_runs/scripts/settle-chiado.ts` | result file, records in memory, chain | scan, audit, withdraw, wait, write | interruptions anywhere; transactions of dead runs mined later; two reads that disagree; torn files | a record is the contract's own withdrawal; a finished run has all; running it again recovers everything |
| **Sequential certificate** `scripts/defense_lattice.py`, `verification_scripts/core.py` | table of reachable sets with predecessors, best set, witness; the acquirer's purchases | the pass over all masks, the recovery of the witness; buying a member | which order of purchases is allowed, offers exactly at a cap, exposures exactly at the threshold | no attack costs less than certified; the witness is an attack of that cost; both implementations agree |
| **Certificates with packages and partial evidence** `A/core_formula_checks/*.py` | a ledger of evidence, the certificate issued on it, what the acquirer holds and paid | declaring a ledger; buying one member or a package, at most so often | the certificate is issued before the attack, on less than the truth; many closed forms for one quantity | no attack consistent with the evidence pays less; some attack pays just that; all closed forms agree |
| **Defenses, evidence and windows** `scripts/defense_lattice.py`, `scripts/run_*.py`, `extended_experiments/` | none (pure) | transforms over sets of defenses, greedy and exact choices, admission of evidence, refresh windows, detection of replacements | layers of the lattice, evidence at the day it expires, epochs too short for a threshold | transforms are exact; nothing is admitted that is not lost; shares kept over a window add up |
| **Escrow certificates** `A/joint_incidence_refinement/verify_schema_independent.py`, `A/reviewer_revision_v77/`, the capture in `run_positive_certificate.py` | the captured sale | enumeration of roots, terminal sets and payments; validation of a capture | credits drawn before and after the sale that is captured | exactly the contract's sales are listed; no misreported sale is accepted |
| **Named-acquirer toy** `A/joint_incidence_refinement/contracts/GlobalNamedAcquirerToy.sol`, `A/global_named_acquirer_toy/`, `A/finite_toy_delivery_extension/`, `A/process_route_stress_fixture/` | order, shares, credits, balances; the enumerated world; traces and route records | `open`, `submitShare`, `withdrawCredit`; `apply_action`; finality and delivery; the two audits | a paid member calls back or fails; records that tell only part of a run | the contract is the enumerated world; the buyer pays the floor; audits accept what happened and nothing else |
| **Keyper slasher and its tools** `deployment/contracts/BondedKeyperSlasherRewarded.sol`, `deployment/scripts/*-rewarded.ts`, `verify_chiado_certificate_rewarded.py` | bonds, slashed flags, jobs, used evidence; the three files; the runs of each script | register, freeze, open, `slashEarlyShare`; deploy, release and slash scripts; offline verifier | two payments inside one call; scripts and strangers between two readings of the chain; files written after transactions that reverted | a penalty is split once and paid once; an accepted record is the first slashing and true |
| **Single-host PTR experiment** `A/paid_threshold_response_host1_v2/extracted/src/ptr_exp/` | order ledger, worker processes, pipes, witnesses, verdict | every method of the ledger, `execute` with one process per operator, gates, the experiment, its judge | workers that die at any point; operators asked twice; ablations that release, pay or deliver wrongly | the books balance; the verdict tells what happened; `execute` ends and, unless the launch fails half-way, leaves no process |

How they interact: the settlement script calls `withdrawRemainingBonds` of many
TraceThenSlash contracts, which succeeds once per contract; `Settlement` uses
just that of the contract. The runner and its coordinator talk to the operators
over HTTP; `PtrSession` uses of an operator what `AnswerOnce` promises, and
`PtrOperator` is shown to implement `AnswerOnce`; what it takes for granted of
proofs and signatures is checked on the code's arithmetic in `ThresholdElGamal`,
which extends it. The runner's certificate starts from a captured sale of the two
pools' escrow, and `CaptureCertificate` takes its receipts from the states of that
escrow's model. The scripts of the keyper slasher read the contract between each
other's transactions (`SlashingRecord` extends `KeyperSlasher`). The contract of the
toy and its delivery extension are both related to the one enumerated world. The
contracts share their arithmetic (`Amounts`). The certificate is computed for a
committee before anybody attacks it; `MinimumSequentialCost` lets the attack of
`SequentialAcquisition` follow the solver, and `PackageAttack` an attack with packages
follow a certificate on partial evidence. Components otherwise meet through files
that are written once and read afterwards.

### Not modelled

* The finite-LTS audit (`A/threshold_deployment_audit/`): a batch audit of
  transition systems declared in files, in the plan as a set of operators.
* The escrow of `joint_incidence_fixture/`, and the contracts of
  `trace_then_slash_phase1/` and `trace_then_slash_phase2_chiado/`: earlier versions
  of modelled contracts. `verification_scripts/` and the copies of `scripts/` inside
  `artifact/` repeat modelled code.
* `deploy-chiado.ts`, `verify-chiado.ts`: sequential drivers; their call sequences
  are behaviours of the contract models. `run_halmos_bridge.py` starts an external
  symbolic executor on the escrow.
* The evidence exporter (`deployment/rolling-shutter/`), the parsing of evidence,
  and all reading of data, timing, tables, figures, manifests and downloads: what
  they do is input and output; the decisions taken on the data are modelled.
* `scaling_fast.py` and the scaling benchmarks: faster copies of the modelled
  solvers, compared with them by the repository itself.

`PROJECT.json` lists the components with their sources and, under `hazards`,
each thing in this code that is hard to test, at its line, with the properties
that guard it.

## 2. Modules

```
Amounts ── sums of balances           BondLifecycle ── what happens to a bond
   │                                       ▲ implements (TLC and TLAPS)
   ├── TraceThenSlash ─────────────────────┘
   ├── OverlappingPoolEscrow ── SchemaCertificate ── CaptureCertificate
   ├── PrefundedThresholdExchange     AnswerOnce ── a nonce is spent, then answered
   ├── KeyperSlasher ── SlashingRecord      ▲ implements (TLC and TLAPS)
   ├── OrderLedger ─┐                   PtrOperator
   │                ▼
   │   ResponseEvidence, ResponseCertificate ── HostExperiment ── ThresholdResponseService
   │
   └── SequentialAcquisition ── MinimumSequentialCost ── PackageAttack ─┐
        DefenseLattice ── EvidenceAdmission, ReplacementHull ───────────┴─ CertificateExperiments

 PtrSession ── ThresholdElGamal      Settlement      ProcessRouteAudit

 NamedAcquirerToy ──┐ implement
 ProcessDelivery  ──┴─────────▶ NamedAcquirerWorld   (TLC and TLAPS)

 *Proofs: theorems     MC*: instances for TLC
```

A line is EXTENDS, an arrow a refinement. `MCSmallContracts` puts the toy, the
delivery extension, the route audit and the keyper slasher side by side: they share
no state, and none has enough of its own for a run to itself. Where modules come
together like this their specifications have names of their own: `ToyInit`, `ToySpec`;
`RecordInit`, `RecordSpec`; `ServiceInit`, `ServiceNext`, `ServiceSpec` (safety) and
`FairSpec` (with fairness).

Conventions. A contract call that reverts leaves no trace, so only successful
calls are steps (except where a script writes a file from the receipt of one that
reverted); their guards are the negated `revert` conditions. A call that
hands control to somebody else's code (a withdrawal) is split at that point, and
whatever the recipient may still call runs in between; a recipient that fails
makes the whole call, nested calls included, not have happened. Amounts are
natural numbers; the `uint256` sums cannot overflow with amounts that exist, and
`uint96` limits on a bond are left out. Addresses are model values, `address(0)`
is `NoAddress`. Digests and signatures are compared by what they bind: hashes do
not collide and nobody signs for another. History variables (`deposit`, `paid`)
are marked as such and guard nothing.

### TraceThenSlash, BondLifecycle
One action per call: `RegisterMember`, `FreezeCommittee`, `OpenRelease`,
`SlashEarlyShare` and `SlashPackage` (both are `Slash` of a package),
`WithdrawReward`, `WithdrawTreasury`, `WithdrawRemainingBonds`, the return from
an external call (`ReturnFromTransfer`), and the passing of time (`Tick`). A job is named by its nonce. Evidence is a record of what it binds (job,
member, share, who signed the artifact, who attested). `entered` is the
`ReentrancyGuard`'s flag. The owner check, share hashes of zero and ether sent
by force are left out. `BondLifecycle` says what the contract promises about each bond:
posted, then live, then slashed whole in an open window or refunded when none
is open, penalties and refunds growing by exactly that.
`frozenThresholdBondFloor` is the sum of the `Threshold` smallest bonds, as
`_thresholdBondFloor` finds it.

### OverlappingPoolEscrow
`ConfigureCredits`, `AcquireFour`, `Withdraw` and the return. Pools, caps, floor
and threshold are constants; the contract's own are seven members, two pools of
four that share one member, cap 2, floor 2, threshold 4.

### PrefundedThresholdExchange
`OpenOrder`, `SubmitShare`, `WithdrawCredit` and the return. `withdrawing` is
looked at by withdrawals alone, so orders are opened and served inside them.
What the registry admits is a constant relation, and the verifier approves a
share at any time or never.

### AnswerOnce, PtrOperator
Every server thread walks through `do_POST`: lookup and remembering under the
lock, append to the nonce log, release, decrypt, transcript, send. An append may
fail before or half-way through its line; the process may be killed between any
two steps and reloads the log when it starts. A nonce is any text the client chose:
a sequence of lines, each with or without white space around what is left of it.
`AppendNonce` writes it as it is, and `log` is what `_load_nonces` reads of the file:
`Stripped` lines that are not blank, each a nonce. `Survives` says of a nonce that it is
read back as it was; the coordinator's own (`deterministic_nonce`, a hex digest) are
of this kind. A cut is in the middle of a line, and the fragment, with what is
written after it on its line, is a text of its own. `AnswerOnce` has two variables, the
nonces spent and the answers given, and promises nothing of nonces that do not survive;
these may still spend others, several at once (`Spend`). Requests refused before anything is read or
written (malformed, wrong version, expired on arrival) are left out, and so is
`GET /health`.

### PtrSession, ThresholdElGamal
The runner starts the operators (`Launch`, `LaunchFails`, and `Start` of each process),
waits for them (`Ready`, `NotReady`), loops with `Ask`, `Receive`, `TransportFails`, `Garbled`,
`Combine` and the probes, and stops what it started (`Stop`); `Respond` is an operator's
answer to any request ever sent to it. An answer that arrives is any answer ever
sent, changed in any one field or unchanged. `port` is what `free_port` returned for
each operator, which may return one port twice; whoever binds it serves it, the
other exits, and readiness is that every endpoint answers, whoever answers.
`payment` assigns routes the payments of the capture, which nothing compares. If
starting a process raises, those already started are not stopped (`LaunchFails`):
the code starts them before its try block, and `SessionEnds` says so. Left out: the
report. `ThresholdElGamal` adds no variables: it has the arithmetic of keys, proofs,
signatures and dealt files, with hashes as free choices, and `CryptographyHolds` uses
the sets of operators that the session has counted. A proof fixes the value it is
about only up to its sign, since the value is not checked to be in the subgroup.

### Settlement
The script's steps in order: for each contract `ReadCommitteeRetired`, then
`AuditRetired` or `FoundPending`, then the withdrawals one after the other with
their receipts, each recorded and written to the file at once, and a last write.
Writing is two steps, `Truncate` and the write. `EndWindow` and `Mine` belong to
the chain, `Kill` interrupts the script anywhere. `txs` is in the order of the
account's nonces; reorganisations of the chain are not modelled.

### SequentialAcquisition, MinimumSequentialCost
`SequentialAcquisition` is the game: an acquirer buys members one after the
other, each only while its resistance is within its cap at the exposure reached
so far, until the exposure is at the threshold. It also holds the
activation-cover formula of `core.py`. `MinimumSequentialCost` is
`exact_minimum_sequential_solution`: one step for each mask (`Skip`, `Succeed`,
`Extend`), then the recovery of the witness (`StartTrace`, `TraceBack`,
`EndTrace`), or no solution (`NoAttackExists`); afterwards `Attack` plays the game
against the certified committee. Weights, thresholds and amounts are fractions
in the code and multiples of a common unit here; `best = {}` is the code's
`None`, since the empty set never reaches the threshold. Of the order of the
masks only this is assumed: a set comes after those it contains.

### PackageAttack
After the solver a ledger of evidence is declared: which members have a floor,
which have a certified gate (an exposure before which they are not for sale), which
packages exist and how often they can be used. The certificate is computed from
the ledger alone (`Declare`), and then the acquirer plays with what the members
really ask for (`BuyOne`, `BuyPackage`). The scripts of `core_formula_checks` each give
a closed form or a search for this quantity under some restriction; they are
operators here, and `HierarchyHolds` (checked within `EvidenceHolds`) compares them with one another and with the
search through all schedules, at every ledger that is declared.

### DefenseLattice, EvidenceAdmission, ReplacementHull, CertificateExperiments
The pure part. `DefenseLattice` has the transforms over sets of defenses, the greedy
and exhaustive choices and the families of committees built to mislead them;
`EvidenceAdmission` decides what counts as a floor and what follows from floors, with
refresh windows and the audit of the production committee (`EvaluateMember`, which refuses a row
or yields its floor and its gaps); `ReplacementHull` has the
two formulas for what replacing contributions leaves detectable, as vertices of a
linear program in integers. `CertificateExperiments` states what the repository's
experiments require of them, once for each committee of the run. Random trials of
the scripts become all inputs up to a bound. Probabilities are parts of a whole.

### SchemaCertificate, CaptureCertificate
`SchemaCertificate` is the enumeration of the escrow's sales (117 roots, 35 terminal
sets, 4095 records) and the relation of acquisition paths to payments, with the two
premises without which it fails. `CertificateIsComplete` relates it to the contract in
every state: before the configuration the roots are what the contract admits, then
every record is on offer, then the sale is a record. `CaptureCertificate` is the
receipt written of a sale, the runner's validation of it, and the gates of the
result; `ReceiptIsTrue`, a part of `CaptureIsBound`, tampers with each field.

### NamedAcquirerWorld, NamedAcquirerToy, ProcessDelivery, ProcessRouteAudit
`NamedAcquirerWorld` is the transition system of `verify_global_named_acquirer_toy.py`,
which the script enumerates and certifies. `NamedAcquirerToy` is the contract;
`WithdrawCredit` hands control to the member, who may call anything (`calling` keeps
what a failure restores), then returns or fails. `ProcessDelivery` splits the success
into finality, shares and delivery and has the audit of traces; `ProcessRouteAudit` has
the audit of the three declared routes. The module of the toy names the extension as an
instance (`Delivery`), with variables of its own, since both promise the same world. Both audits are checked against tampered
records: one action dropped, repeated, exchanged or added, one declared value changed.

### KeyperSlasher, SlashingRecord
`SlashEarlyShare` pays the caller and `PayTreasury` the treasury; `entered` is what is still
due in between, when either recipient may read the views. The other calls are
the owner's. A recipient that fails makes the call not have happened. The contract
without rewards is `reward = 0`, where a keyper may report itself. In
`SlashingRecord` the release script is three steps (`ReadBlock`, `MineRelease`, `WriteJob`)
and the evidence script four (`Submit`, `MineSlash` or `RevertSlash`, `WriteSlashing`), for
several runs at once. Both wait for a receipt and write their file whatever its status
(`RevertRelease`: the release time passed before it was mined; `RevertSlash`: for whatever
reason, a stranger's slashing above all); only the offline verifier reads the status
(`TransactionsSucceeded`). Of a transaction that is never sent nothing is seen; `FrontRun` is a stranger with the same evidence.
`build_certificate` is the offline verifier: what the files say, nothing of the chain.

### OrderLedger, ResponseEvidence, ResponseCertificate, HostExperiment, ThresholdResponseService
A ledger is a value and each of its methods an operator that yields the next one, with
the condition under which it does not raise; `LedgerAfter` is the recursive function
that gives the ledger after each response of the loop. `ResponseEvidence` has the witnesses, the
five gates and the verdict; `ResponseCertificate` the closed forms and the dynamic program;
`HostExperiment` one order as a computation (`Execution`), the experiment that runs
many and the script that judges its report. `ThresholdResponseService` is the same
order with one worker process for each operator: `Start`, `Launch` of one worker after the
other, `Ask`, `Receive` or
`ReceiveNothing`, `Finish`, and the finally clause `AskToStop`, `Stopped`, `Join`; the
workers `Respond`, `Stop`, `Exit`, and may `Die` anywhere. The launch is before the try: if a
pipe or a process cannot be made, those already started are not stopped (`LaunchFails`), and
`ExecutionEnds` says so. A worker that neither answers nor
ends is left out: `recv` has no timeout, and the parent waits for it for ever.

## 3. Runs

| Run | What is instantiated | What it shows |
|---|---|---|
| `trace_then_slash` | 3 members, threshold 2, bonds 1, 3 or 4 against a reward of 2, two jobs, packages of up to 2 | all properties of the contract and `ImplementsBondLifecycle` |
| `pool_escrow` | the contract's own sizes | `Solvency`, `MembersMadeWhole`, `ResidualIncidence` for all 117 admissible credit vectors and all 35 threshold sets, and `CertificatesHold` (`CertificateIsComplete`, `CaptureIsBound`) |
| `prefunded_exchange` | 4 accounts, 2 orders, up to 3 members, prices 1 and 2 | `Solvency`, `PaidAsPromised` |
| `ptr_operator` | 3 threads, 3 requests, 3 nonces (two that survive, one the log reads as the second of them), 2 kills | `AnsweredOnce`, `AnswersAudited`, `RequestsEnd`, `ImplementsAnswerOnce` |
| `ptr_session` | 3 operators, threshold 2, 3 ports, 3 routes, 3 payments; squares modulo 11 | `CountedIsAuthentic`, `CombineSucceeds`, `PaymentServesOneRoute`, `ProbesRejected`, `SessionEnds`, `CryptographyHolds` |
| `settlement` | 3 contracts, 3 interruptions | `RecordedByWithdrawal`, `Recovered` |
| `minimum_sequential_cost` | 4 members, 2 weightings, resistances 1 and 2, 3 cap schedules: 2592 committees, each with 2 ledgers | `NoCheaperAttack`, `WitnessIsAttack`, `PackagesCostTheCertificate`, `LatticeExperimentsHold`, `EvidenceHolds` |
| `threshold_response` | 3 operators, threshold 2, orders of up to 3 responses, 6 ablations, 2 sources, 3 price vectors, one bad share or none | `BooksBalance`, `VerdictIsRight`, `ResultOfTheCall`, `ExperimentConfirms`, `ExecutionEnds` |
| `small_contracts` | toy: 2 members; slasher: 3 keypers, threshold 2, rewards 0 and 2, 2 release and 2 evidence runs, one stranger | `BuyerPaysFloor`, `ImplementsWorld`, `DeliveryExtendsWorld`, `RecordsAreTrue`, `PenaltiesPaidOnce`, `AcceptedRecordIsTrue` |

The runs `ptr_operator_full_disk`, `prefunded_early_payment` and `settlement_torn_file`
are below, under Disagreements.

**Why the bounds are enough.** *trace_then_slash*: with threshold two of three
the cheapest set, a set above the floor and a set below the threshold all occur;
bonds of 1 are refused, 3 and 4 differ, so the certificate has to choose; two
jobs give overlapping windows that end in either order and evidence of one
applied in the other; packages of two give repeated members and mixtures of
used and new evidence. Five addresses let an account be a caller and a signer.
*prefunded_exchange*: two orders that share members, with a promise of another
amount, is what overwriting, double crediting and mixing up orders need.
*ptr_operator*: three threads, so that one holds the lock, one waits with the
same nonce and one with another; two kills, so that a restart is itself
interrupted; three requests, so that a nonce is asked for before, between and after
them; and of the three nonces one is forgotten, and spends another when it is read back.
*ptr_session*: any two threshold sets of two out of three operators share one,
as any two of four out of seven do; three routes allow a payment to recur at once
or later. *minimum_sequential_cost*: with four members an attack may need two
others to be bought before the one that makes it cheap; the weightings make sets
that hit the threshold exactly and sets that jump over it, the caps offers that
are exactly at the cap and members that can be bought always, never, or from an
exposure of one, two or three on. One ledger knows everything and packages that
overlap in a chain, the other misses two floors and one gate, so that each kind of
ignorance occurs alone and with the others. *ptr_session* again: with three ports for
three operators every pattern of coinciding ports occurs; a group of order five
is small enough to take every key, witness and challenge, those of zero included.
*threshold_response*: three responses with repetitions are the least with which an
operator is asked twice among those that count, or after them; the price vectors
have two equal prices, one zero and two zeros, so that the certificate is decided
by a tie and may be zero. *small_contracts*: two
runs of each script are what it takes for one to read what the other did; gas below,
at and above the reward, bonds above it, and evidence that is complete, partial
or names the wrong address; the slasher runs beside the initial state of the other
two only, since no property relates them. *settlement*: a third run can meet transactions of two dead ones.

**Deadlock.** Checked in `settlement`, where some step is always possible. The
other systems may really stop: a contract nobody can call any more within the
bounds, a session or an execution that has ended, an operator without requests, an
attack that has succeeded or found nobody left to buy.

**Fairness.** `PtrOperator`: the operating system runs every thread that can
run (`WF` of each thread's steps); nothing forces a request, a kill or a
restart. Requests are bounded, so weak fairness is enough against contention
for the lock. `Settlement`: time passes, transactions are mined, a running
script goes on and its operator starts it again (`WF` of each); nothing forces an
interruption, and they are bounded. `PtrSession`: the runner goes on (`WF` of
`Runner`), because every wait of it has a timeout: ten seconds for readiness, five for
connecting and for each read of an answer, three before a process is killed; nothing forces an operator or the
network to do anything. `ThresholdResponseService`: the parent and each worker that
is asked something get to run (`WF` of `Execute` and of each `Work`); nothing forces a
worker to die. All else is safety, without fairness.

**Disagreements.** Three runs end in a violation on purpose:

* `ptr_operator_full_disk` — `operator_server.py:92-94` says that a killed process
  cannot forget what it answered. After an append that a full disk cut
  short, the next nonce is written on the fragment's line, is answered, and is
  not read back after a restart; it is then answered again.
* `prefunded_early_payment` — the README of the joint-incidence refinement
  (`README.md:46-47`) says that credits become withdrawable only after the threshold set is
  complete. A member is credited and may withdraw as soon as its own share is
  accepted. (The contract's tests rely on that.)
* `settlement_torn_file` — `chiado_public_runs/README.md:101-103` says that an
  interruption does not hide a partial recovery. One in the middle of the
  in-place write leaves a file no later run can parse.

Two more are built into properties that hold, which say what the code does instead:

* `AnsweredOnce`: the same comment in `operator_server.py` is not true of every nonce
  even with complete appends. One that is blank, has white space around it or
  contains a line break is accepted and answered (line 200), is read back from the log as
  another one or not at all (lines 97-101), and is answered again after a restart, once
  by each process (`Earlier`).
* `GapsExplainTheFloor`, a part of `EvidenceHolds`: the report of
  `run_production_evidence_audit.py` (lines 238-243) names two ways to a positive floor,
  the direct one and the penalty. With certified and additional insurance the code
  finds a positive floor (lines 68-76) and reports both as incomplete.

Each property of a passing run has a mutant in `PROJECT.json`: a plausible
defect of the code under which TLC finds the property violated.

## 4. Proofs

The theorems hold for every value of the constants that the modules' assumptions allow.

**TraceThenSlashProofs** (`TypeCorrect`, `Solvent`, `OrderIndependent`,
`RewardsStayOutside`, `RetiredForGood`, `FloorIsPaid`, `Refinement`). None of the properties is
inductive alone: that the books balance after a slash needs that the bond is
still whole and exceeds the reward (`BondsAsPosted`), that a member's reward is
impossible needs that nothing is credited before freezing (`FrozenFirst`), that
retirement is final needs that the latest release time bounds every job
(`LatestBoundsJobs`), and that the floor is paid needs that the frozen floor is
the certificate of the bonds as posted (`FloorCertified`). `IInv` is their
conjunction. `CertificateIsMinimum` shows that the `Threshold` cheapest bonds are
the least any threshold set can lose, from which `FloorIsPaid` follows. `Refinement`:
under `IInv` every step of the contract is a step of `BondLifecycle` or a stutter.

**OverlappingPoolEscrowProofs** (`Invariant`, `Solvent`, `MadeWhole`,
`Incidence`, `ReceiptsAreTrue`). `EInv` ties credits and grants to the configuration and
the sale; the bound on the payment is an inequality of sums over the two pools in which
the shared member is counted once. `ReceiptsAreTrue` is about `ReceiptIsTrue`, the part of
`CaptureIsBound` that concerns one sale: with a threshold of four, as the runner assumes,
the receipt shows the quote as what was paid, the runner accepts it, and no field can be
reported otherwise. What was paid is not a variable but what the contract took in besides
the credits, so the proof (`PaidTheQuote`) adds up what everyone was granted
(`MembersMadeWhole`) and compares it with the credits and the residual prices.

**PaidOrdersProofs**, the two parts that sell responses against a prefunded order.
*The exchange contract* (`Invariant`, `TypeCorrect`, `Solvent`, `Paid`): `XInv` adds to
types, `Solvency` and `PaidAsPromised` that each order still has the members and amounts
it was opened with (`OrdersAsOpened`): without it the share that is handed in last need not bring the credited amounts to the prefunding. A share
moves its price from what the order has left to what the member earned
(`ShareMoves`), and both sums are over all orders, since members share them. No case is
needed for calls nested in a withdrawal: the books balance before the recipient
gets control, so any call it makes starts from them.

*The single-host experiment* (`ServiceInvariant`, `ServiceTypeCorrect`,
`ResultIsOfTheCall`, `BooksAreBalanced`, `VerdictIsSound`): `ServiceInv` says that only the
worker that was asked has a message in its pipes, either the question or the answer to
the current position of the order (`PipesInOrder`), so that the answer read is the one
asked for; that the responses charged are those to the first positions
(`ResponsesInOrder`); and that the ledger is the one the call computes from them, each of
its records fitting its position, until `Finish` concludes the order from just that
ledger (`LedgerInOrder`, `ReportInOrder`). From the last the result is a function of the
call however the workers fared (`ResultIsOfTheCall`). The ledger after n responses is a
recursive function. That it exists and unfolds is shown by a least counterexample
(`LedgersExist`, `LedgerCharged`), which is as much induction as is needed, since the
rest is an invariant of the steps. `BooksAreBalanced` adds up what each method of the
ledger does to the sums. `VerdictIsSound` goes through the five gates (`GateFacts`),
the allocation of returns to counted debits (`AllocationIsVerified`) and the outflow
(`OutflowCovers`); that the certificate is at most the prices of any threshold set is the
lemma about cheapest sets that the bond contract uses (`CheapestIsLeast`). Assumed: operators
are 1 to n, as the code numbers them, prices are natural numbers, the threshold is one of
1 to n.

**PtrOperatorProofs** (`Invariant`, `NeverAnsweredTwice`, `EveryAnswerAudited`,
`Refinement`), for nonces of any lines. `OInv` says which thread a nonce was granted to: it
is known, not yet answered by this process, on disk once the lock was released as far as
the log gives it back, and granted to no other thread (`GrantsAreExclusive`); what
was answered is on disk if it survives there, and in memory while the process runs
(`DiskIsAhead`). A nonce that survives is answered once ever, any other once in the life
of each process (`Earlier`), and a line left by another nonce can only spend more
(`AppendedFacts`, `EarlierFacts`). Assumed: no append is cut short
(`MaxShortWrites = 0`), since with one `AnsweredOnce` is false (see above).

**PtrSessionProofs** (`Invariant`, `TypeCorrect`, `Authentic`, `ProbesFail`,
`CombineAlwaysSucceeds`, `OnePaymentOneRoute`). `SInv` fixes what the list of counted
answers looks like: its blocks of `Threshold` slots belong to the routes in their
order, and the slot of each operator holds that operator's answer for the payment and the
ciphertext of its route (`RoutesInOrder`, `SlotsFilled`); nonces differ, because the coordinator
remembers those it has seen (`NoncesDiffer`); and whatever was sent was an operator's
answer to some request (`SentByOperators`), so that an answer altered in transit
is either refused or the one that was sent (`AcceptedIsUnchanged`). With that a payment
used by two routes is impossible: two threshold sets share an operator
(`SelectionsMeet`, from `2 * Threshold > Cardinality(Operators)`), whose two answers
would bear one nonce. Assumed of the cryptography is what `ThresholdElGamal` checks.

**ScriptsProofs**, the programs that act on a contract, and the toy.
*Settlement* (`SettlementInvariant`, `SettlementTypes`, `Recorded`, `RecordedUniquely`,
`RecordsKept`): `SettlementInv` says that a contract has at most one successful
withdrawal (`OneWithdrawal`), that the receipt a run waits for is that of the first
contract on its list (`AwaitedReceipt`), that a contract seen retired is retired
(`RetiredAsSeen`), that every contract already looked at is recorded or on the list
(`NoneSkipped`, which makes the script's last check one that cannot fail), and that
a running script is never behind its file (`MemoryHasFile`).
`RecordedUniquely` and `RecordsKept` are stronger than what the run checks: all runs
that record a contract record the same transaction, and only an exit of the script
can lose a record from the file. That an interrupted write does lose it is the
disagreement above.

*The keyper slasher and its scripts* (`RecordInvariant`, `PenaltiesOnce`,
`AcceptedIsTrue`): `RecordInv` is told from the log of the chain, in which a slashing stands
from the moment its bond is forfeited, one payment earlier than its event. The bonds
are whole but for the members the log names, each of which it names once (`BondsInv`,
`LogInv`), and what callers and the treasury received are the shares of so many
penalties (`PenaltyInv`). A run of the evidence script has read the certificate
at some length of the log, and its slashing, if it succeeded, came after that (`RunsInv`);
the slashing file repeats what that run read (`FilesInv`), and says whether it succeeded. The certificate tells how many members had been slashed
(`CoverTells`: it falls by one bond with each, until fewer than a threshold are
left to lose), which is why a file whose two readings are the certificates of no and of one
slashing can only be that of the first (`RecordedIsFirst`). This needs a threshold of
at least two, a named assumption of the module: with one the certificate is zero after the first
slashing and shows no other. The contract's threshold is four.

*The toy* (`ToyImplementsWorld`, `ToyPaysFloor`, `DeliveryImplementsWorld`): while a
payment runs, the state of the world is the one before it; `ToyInv` says that this state differs from the contract's only by the
payment, and that credits are nonzero only after success, so that a callback can change neither.
Every call is then a step of the enumerated world or a stutter. `ToyPaysFloor` needs the world's own
invariant over routes: the controls and the gates of a route that ended in success
hold with two members, whatever the amounts (`ControlsComeOut`, `GatesFollow`). The delivery
extension has no balance to check, so it implements the world if the buyer can pay for the
order (`Total(Amount) <= InitialBalance`, the theorem's one hypothesis). There the route of
the world is the trace without its second action, which is the finality, and without the
last one while that is a share nobody has delivered or the delivery itself; `DeliveryInv` says that the trace has this shape.

`TypeCorrect` proves a module's type invariant, which its run does not list.

**MinimumSequentialCostProofs** (`Invariant`, `TypeCorrect`, `CertificateHolds`,
`WitnessAttains`). That the certificate is a lower bound is a fact about all
orders of purchases; the invariant `CInv` reduces it to sets. `VisitedSetsAreDone`
says that a reachable mask that was looked at either has all its successors in
the table or costs at least what the best one costs; since a successor comes
later in the order of the masks, no set enters the table after its turn. When
all masks were looked at the table is closed, the attack cannot leave it
(`AttackIsInTable`), and what it has spent is the cost of a set the solver has
compared. `StepsAreOffers` and the shape of the predecessors give that the witness
can be bought in its order (`WitnessFollowsCursor`).

The same module proves the certificate on partial evidence (`CommitteeImplements`,
`PackageInvariant`, `PackagesAreSound`, `GatesAreCaps`). An attack mixes single members and
packages, and the closed form puts all packages first; `PackageInv` says that this loses
nothing: some union of disjoint packages is held, and the other members could have
been bought after it one by one (`PackagesCouldComeFirst`). A package bought late
can come first because exposures only grow and gates only open (`BuildableGrows`).
From there the held set is one that the closed form has compared, and its true cost is
at least the one on the ledger, which knows less (`CertificateBound`). The closed forms
speak of gates and the solver of cap schedules; `GatesAreCaps` shows that the two say
the same at every exposure that occurs. `CommitteeImplements` carries the
theorems about `Spec` over to the specification that the run uses.

**AmountsProofs**. Sums of functions over finite sets, on which the contracts'
proofs rest: a sum is shown to be the cardinality of a set of pairs, so that
facts about finite sets apply and no induction over data is needed. That a set of
numbers has a least and, if it is bounded, a greatest one comes from the
well-foundedness of the naturals (`LeastNatural`, `GreatestNatural`). Of the sets of
a given size there is a cheapest, and no set of at least that size costs
less (`CheapestExist`, `CheapestIsLeast`): both certificates that sort prices or
bonds and add up the first of them rest on these two.

**Only model-checked.** Liveness under fairness (`RequestsEnd`, `Recovered`, `SessionEnds`,
`ExecutionEnds`) and anything about ENABLED are outside what the proof system handles
here; so are induction over data, on which the folds of the pure modules rest, and
RECURSIVE operators, of which there are none in the modules. So of
the certificates with packages the soundness (`PackagesCostTheCertificate`) is proved,
and the agreement of the closed forms with one another and with the search
(`HierarchyHolds`, a part of `EvidenceHolds`) is checked; the rest of `CertificatesHold`,
`LatticeExperimentsHold`, `ExperimentConfirms` and `RecordsAreTrue` are of the second kind: they
evaluate a fixed computation on every input of a bounded set. `CryptographyHolds` needs the
arithmetic of a cyclic group, of which the provers know nothing; the proofs about
the session take its conclusions as assumptions.

## 5. Plan

1. *Done*: the modules above and their runs; the proofs of section 4.
2. `CertificatesHold`: that the record of a sale is in the completeness certificate needs
   the fold that the certificate sums with to agree with `Total`, an induction over data.
3. The finite-LTS audit: gate combination and the bounded relaxation, against the
   least cost over all paths.
