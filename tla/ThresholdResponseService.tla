---------------------- MODULE ThresholdResponseService ----------------------
(***************************************************************************)
(* ThresholdResponseService.execute with one process for each operator: it *)
(* starts a pipe and a worker for one operator of the committee after the  *)
(* other, asks the responders in turn, charges the order's ledger for each *)
(* response, combines the first threshold of them, and in the end (also    *)
(* when it raised) asks every worker to stop and waits for it.  Only a     *)
(* launch that fails half-way is before the try: the workers it started    *)
(* stay.  Without processes execute computes the responses itself.         *)
(* Afterwards the result is judged.                                        *)
(*                                                                         *)
(* A worker may die at any time; what it had sent can still be read.  A    *)
(* worker that never answers and never dies is left out: the code waits    *)
(* for it for ever, there is no timeout on recv.                           *)
(***************************************************************************)
EXTENDS HostExperiment

CONSTANTS
  PriceVectors,  \* prices of a committee, which are its declared floors
  Calls,         \* arguments of execute
  BadShares      \* sets of operators whose partial decryptions do not verify

ASSUME ServiceConstants ==
  /\ IsFiniteSet(Operators)
  /\ Operators = 1 .. Cardinality(Operators)
  /\ Threshold \in Operators
  /\ PriceVectors \subseteq [Operators -> Nat]
  /\ Calls \subseteq [responders : SUBSET Operators, order : Seq(Operators),
                     source : STRING, ablation : STRING]
  /\ BadShares \subseteq SUBSET Operators

VARIABLES
  prices, call, processMode, bad,  \* the keyset, the arguments: never change
  pc,         \* where execute is
  worker,     \* by operator: absent, up, stopping, gone, dead
  toWorker,   \* the message in the pipe to it, and in the pipe from it:
  toParent,   \* what kind, or "none", and for which position of the order
  ledger,
  responses,  \* those charged, in the order they came
  closing,    \* the workers that were asked to stop, or are being asked
  result,     \* what execute returned, or an exception
  report

serviceVars == <<prices, call, processMode, bad, pc, worker, toWorker, toParent,
                 ledger, responses, closing, result, report>>

arguments == <<prices, call, processMode, bad>>
pipes == <<worker, toWorker, toParent>>

Nothing == [none |-> TRUE]
Silence == [kind |-> "none", at |-> 0]
Message(kind, at) == [kind |-> kind, at |-> at]
Raised == [raised |-> TRUE]

Returned == "used" \in DOMAIN result

-----------------------------------------------------------------------------
(* Faulty variants of the definitions below, for mutation tests.           *)

EndOfFileIgnored(op) == FALSE

AnswerStays(op) == toParent' = toParent

-----------------------------------------------------------------------------
ServiceInit ==
  /\ prices \in PriceVectors
  /\ call \in Calls
  /\ processMode \in BOOLEAN
  /\ bad \in BadShares
  /\ pc = "start"
  /\ worker = [op \in Operators |-> "absent"]
  /\ toWorker = [op \in Operators |-> Silence]
  /\ toParent = [op \in Operators |-> Silence]
  /\ ledger = Nothing
  /\ responses = << >>
  /\ closing = 0
  /\ result = Nothing
  /\ report = Nothing

\* Refuses what it was asked, or opens the ledger.
Start ==
  /\ pc = "start"
  /\ IF Accepted(call)
     THEN /\ pc' = IF processMode THEN "launch" ELSE "ask"
          /\ ledger' = Open(prices, call.source)
          /\ UNCHANGED result
     ELSE /\ pc' = "over"
          /\ result' = Raised
          /\ UNCHANGED ledger
  /\ UNCHANGED <<arguments, pipes, responses, closing, report>>

\* The operator whose pipe and process come next.
IsNext(op) ==
  /\ worker[op] = "absent"
  /\ \A other \in Operators : other < op => worker[other] # "absent"

Launch ==
  /\ pc = "launch"
  /\ \E op \in Operators :
       /\ IsNext(op)
       /\ worker' = [worker EXCEPT ![op] = "up"]
       /\ pc' = IF op = Cardinality(Operators) THEN "ask" ELSE pc
  /\ UNCHANGED <<arguments, toWorker, toParent, ledger, responses, closing, result, report>>

\* A pipe or a process that cannot be made: execute raises before its try, and
\* nobody stops the workers that already run.
LaunchFails ==
  /\ pc = "launch"
  /\ pc' = "failed"
  /\ result' = Raised
  /\ UNCHANGED <<arguments, pipes, ledger, responses, closing, report>>

Asked == call.order[Len(responses) + 1]

\* The pipe's other end is closed.
Hung(op) == worker[op] \in {"gone", "dead"}

Unwind == pc' = "close" /\ closing' = 1 /\ result' = Raised

Ask ==
  /\ pc = "ask" /\ Len(responses) < Len(call.order) /\ processMode
  /\ IF Hung(Asked)
     THEN Unwind /\ UNCHANGED toWorker
     ELSE /\ toWorker' = [toWorker EXCEPT ![Asked] = Message("respond", Len(responses) + 1)]
          /\ pc' = "await"
          /\ UNCHANGED <<closing, result>>
  /\ UNCHANGED <<arguments, worker, toParent, ledger, responses, report>>

\* Charges the ledger for the response to a position, or raises.
TakeResponse(at) ==
  IF Chargeable(ledger, call.ablation, Asked)
  THEN /\ ledger' = Charge(ledger, call.ablation, Response(Asked, at, bad))
       /\ responses' = Append(responses, Response(Asked, at, bad))
       /\ pc' = "ask"
       /\ UNCHANGED <<closing, result>>
  ELSE Unwind /\ UNCHANGED <<ledger, responses>>

RespondInProcess ==
  /\ pc = "ask" /\ Len(responses) < Len(call.order) /\ ~processMode
  /\ TakeResponse(Len(responses) + 1)
  /\ UNCHANGED <<arguments, pipes, report>>

\* Reading takes the message out of the pipe.
TakenFrom(op) == toParent' = [toParent EXCEPT ![op] = Silence]

Receive ==
  /\ pc = "await" /\ toParent[Asked].kind = "response"
  /\ TakenFrom(Asked)
  /\ TakeResponse(toParent[Asked].at)
  /\ UNCHANGED <<arguments, worker, toWorker, report>>

\* recv raises EOFError when nothing is left to read and the other end is closed.
EndOfFile(op) == toParent[op] = Silence /\ Hung(op)

ReceiveNothing ==
  /\ pc = "await" /\ EndOfFile(Asked)
  /\ Unwind
  /\ UNCHANGED <<arguments, pipes, ledger, responses, report>>

Finish ==
  /\ pc = "ask" /\ Len(responses) = Len(call.order)
  /\ pc' = "close" /\ closing' = 1
  /\ IF Combines(Used(call, responses))
     THEN /\ result' = Conclude(call, ledger, responses)
          /\ ledger' = Conclude(call, ledger, responses).ledger
     ELSE result' = Raised /\ UNCHANGED ledger
  /\ UNCHANGED <<arguments, pipes, responses, report>>

-----------------------------------------------------------------------------
(* The finally clause: one worker after the other.                         *)

AskToStop ==
  /\ pc = "close" /\ closing \in Operators /\ processMode
  /\ IF Hung(closing)
     THEN closing' = closing + 1 /\ UNCHANGED <<pc, toWorker>>
     ELSE /\ toWorker' = [toWorker EXCEPT ![closing] = Message("stop", 0)]
          /\ pc' = "awaitStop"
          /\ UNCHANGED closing
  /\ UNCHANGED <<arguments, worker, toParent, ledger, responses, result, report>>

\* Whatever comes, and the end of the file as well, is good enough.
Stopped ==
  /\ pc = "awaitStop"
  /\ toParent[closing] # Silence \/ EndOfFile(closing)
  /\ TakenFrom(closing)
  /\ closing' = closing + 1
  /\ pc' = "close"
  /\ UNCHANGED <<arguments, worker, toWorker, ledger, responses, result, report>>

\* join waits five seconds for each worker; one that is still alive is terminated.
Join ==
  /\ pc = "close" /\ (closing \notin Operators \/ ~processMode)
  /\ worker' = [op \in Operators |-> IF Hung(op) \/ ~processMode THEN worker[op] ELSE "gone"]
  /\ pc' = "over"
  /\ UNCHANGED <<arguments, toWorker, toParent, ledger, responses, closing, result, report>>

\* The experiment judges what execute returned.
Judge(coverage) ==
  /\ pc = "over" /\ Returned /\ report = Nothing
  /\ report' = [coverage |-> coverage, verdict |-> Assess(result, prices, coverage)]
  /\ UNCHANGED <<arguments, pc, pipes, ledger, responses, closing, result>>

-----------------------------------------------------------------------------
(* The workers (_operator_worker).                                         *)

Respond(op) ==
  /\ worker[op] = "up" /\ toWorker[op].kind = "respond"
  /\ toWorker' = [toWorker EXCEPT ![op] = Silence]
  /\ toParent' = [toParent EXCEPT ![op] = Message("response", toWorker[op].at)]
  /\ UNCHANGED <<arguments, pc, worker, ledger, responses, closing, result, report>>

Stop(op) ==
  /\ worker[op] = "up" /\ toWorker[op].kind = "stop"
  /\ toWorker' = [toWorker EXCEPT ![op] = Silence]
  /\ toParent' = [toParent EXCEPT ![op] = Message("stopped", 0)]
  /\ worker' = [worker EXCEPT ![op] = "stopping"]
  /\ UNCHANGED <<arguments, pc, ledger, responses, closing, result, report>>

Exit(op) ==
  /\ worker[op] = "stopping"
  /\ worker' = [worker EXCEPT ![op] = "gone"]
  /\ UNCHANGED <<arguments, pc, toWorker, toParent, ledger, responses, closing, result, report>>

Die(op) ==
  /\ worker[op] \in {"up", "stopping"}
  /\ worker' = [worker EXCEPT ![op] = "dead"]
  /\ UNCHANGED <<arguments, pc, toWorker, toParent, ledger, responses, closing, result, report>>

Execute ==
  \/ Start \/ Launch \/ LaunchFails
  \/ Ask \/ RespondInProcess \/ Receive \/ ReceiveNothing \/ Finish
  \/ AskToStop \/ Stopped \/ Join

Work(op) == Respond(op) \/ Stop(op) \/ Exit(op)

Coverages == {"PROVED", "REFUTED", "UNKNOWN"}

ServiceNext ==
  \/ Execute
  \/ \E coverage \in Coverages : Judge(coverage)
  \/ \E op \in Operators : Work(op) \/ Die(op)

ServiceSpec == ServiceInit /\ [][ServiceNext]_serviceVars

\* The parent and the workers are processes that get to run; nobody has to die.
Fairness == WF_serviceVars(Execute) /\ \A op \in Operators : WF_serviceVars(Work(op))

FairSpec == ServiceSpec /\ Fairness

-----------------------------------------------------------------------------
(* Properties.                                                             *)

Judged == report # Nothing

Digests == [operator : Operators, at : Nat, valid : BOOLEAN]

LedgerRecords ==
  [operator : Operators, price : Nat, route : {"paid_response", "bypass_response"},
   digest : Digests, valid : BOOLEAN, debit : Operators,
   creditStep : Nat, releaseStep : Nat, ordering : BOOLEAN]

Sources == {c.source : c \in Calls} \cup {Buyer}

ReturnRecords ==
  [kind : {"refund", "reimbursement"}, beneficiary : Sources, amount : Nat, accounted : BOOLEAN]

\* Of some operators.
Credits == UNION {[S -> Nat] : S \in SUBSET Operators}

Ledgers ==
  [prices : [Operators -> Nat], source : Sources, deposit : Nat, buyerDebit : Nat,
   sponsorFunding : Nat, escrow : Nat, responses : Seq(LedgerRecords),
   returns : Seq(ReturnRecords), credits : Credits,
   step : Nat, success : Nat]

\* The types: above all, the escrow is never overdrawn.
ServiceTypes ==
  /\ prices \in PriceVectors /\ call \in Calls /\ processMode \in BOOLEAN /\ bad \in BadShares
  /\ pc \in {"start", "launch", "failed", "ask", "await", "close", "awaitStop", "over"}
  /\ worker \in [Operators -> {"absent", "up", "stopping", "gone", "dead"}]
  /\ toWorker \in [Operators -> [kind : {"none", "respond", "stop"}, at : Nat]]
  /\ toParent \in [Operators -> [kind : {"none", "response", "stopped"}, at : Nat]]
  /\ ledger = Nothing \/ ledger \in Ledgers
  /\ responses \in Seq(Digests)
  /\ closing \in 0 .. Cardinality(Operators) + 1
  /\ pc = "awaitStop" => closing \in Operators

\* What the responses were charged, and what was refunded.
ChargedBy(l) == Total([i \in DOMAIN l.responses |-> l.responses[i].price])

RefundedBy(l) == ReturnedBy(l, {i \in DOMAIN l.returns : l.returns[i].kind = "refund"})

\* The deposit is in the escrow, was charged, or went back to the funder; and
\* what was charged is what the operators hold as credits, unless a response
\* was released first: release_before_credit charges an operator again and
\* overwrites its credit.
BooksBalance ==
  ledger # Nothing =>
    /\ ledger.deposit = ledger.escrow + ChargedBy(ledger) + RefundedBy(ledger)
    /\ CreditsTotal(ledger) <= ChargedBy(ledger)
    /\ call.ablation # "early_release" => CreditsTotal(ledger) = ChargedBy(ledger)

\* What really is wrong with an execution, whatever its witnesses say.
DeliveredToBuyer == AllValid(result.used) /\ call.ablation # "wrong_buyer"

Wrong ==
  \/ ~DeliveredToBuyer
  \/ call.source # Buyer
  \/ call.ablation \in {"early_release", "reimbursement", "bypass"}

\* Nothing else is wrong than that routes were not looked at.
BypassUnseen ==
  /\ call.ablation = "bypass" /\ report.coverage = "UNKNOWN"
  /\ DeliveredToBuyer /\ call.source = Buyer

\* The verdict is the truth, for whatever is asked in whatever order: refuted
\* when something is wrong or a bypass was exhibited, unknown when nothing is
\* but evidence is missing, certified otherwise; and then the buyer has paid
\* for the responses that were counted at least what any threshold set costs.
VerdictIsRight ==
  Judged =>
    LET verdict == report.verdict IN
    /\ verdict.status = "REFUTED" <=>
         \/ Wrong /\ ~BypassUnseen
         \/ report.coverage = "REFUTED"
    /\ verdict.status = "CERTIFIED" <=>
         ~Wrong /\ call.ablation # "untimed" /\ report.coverage = "PROVED"
    /\ verdict.status = "CERTIFIED" =>
         /\ TheoryCover(prices, Threshold) <= verdict.floor
         /\ verdict.floor = Total([i \in DOMAIN result.used |-> prices[result.used[i].operator]])
         /\ verdict.floor <= verdict.observed

\* With processes and deaths of workers the result, if there is one, is that
\* of the computation: no response is lost, repeated or taken for another's.
ResultOfTheCall ==
  Returned /\ bad = {} => result = Execution(prices, call)

\* The experiment, which makes its baseline call here: over every ordered
\* threshold set the least floor found in a ledger is the closed form; the
\* ablations refute their gates and no other; the script that judges the
\* report agrees; the dynamic program finds what enumeration finds.
ExperimentConfirms ==
  pc = "start" /\ call = Call(prices, Buyer, "none") /\ ~processMode /\ bad = {} =>
    LET data == RunExperiment(prices) IN
    /\ Checks(data)
    /\ ResultVerifies(data)
    /\ data.positive <=> data.cover > 0
    /\ \A weights \in [Operators -> 1 .. 3], threshold \in 1 .. 10 :
         WeightedDP(weights, prices, threshold) = BruteForceWeighted(weights, prices, threshold)

\* However many workers die, execute comes to an end and, unless its workers could
\* not all be launched, leaves none behind.  (A worker of a failed launch holds its
\* pipe's other end itself, inherited in the fork, so it never reads its end of
\* file: it stays as long as the interpreter.)
ExecutionEnds ==
  <>(\/ pc = "failed"
     \/ pc = "over" /\ \A op \in Operators : worker[op] \notin {"up", "stopping"})

-----------------------------------------------------------------------------
(* What makes the properties inductive.                                    *)

\* A pipe is empty unless its worker is being asked, and then it holds the question
\* or the answer for the next position of the order.
PipesInOrder ==
  LET next == Len(responses) + 1 IN
  /\ pc \in {"start", "launch", "ask"} =>
       \A op \in Operators : toWorker[op] = Silence /\ toParent[op] = Silence
  /\ pc = "await" =>
       /\ next <= Len(call.order)
       /\ toWorker[Asked] \in {Silence, Message("respond", next)}
       /\ toParent[Asked] \in {Silence, Message("response", next)}
       /\ toWorker[Asked] = Silence \/ toParent[Asked] = Silence
       /\ \A op \in Operators \ {Asked} : toWorker[op] = Silence /\ toParent[op] = Silence

\* The responses so far are those to the first positions of the order.
ResponsesInOrder ==
  /\ Len(responses) <= Len(call.order)
  /\ responses = [i \in 1 .. Len(responses) |-> Response(call.order[i], i, bad)]

\* The record of the response to a position.
RecordFits(r, i) ==
  LET op == call.order[i] IN
  /\ r.operator = op /\ r.debit = op
  /\ r.price = IF call.ablation = "bypass" THEN 0 ELSE prices[op]
  /\ r.route = IF call.ablation = "bypass" THEN "bypass_response" ELSE "paid_response"
  /\ r.ordering <=> call.ablation # "untimed"
  /\ r.creditStep > r.releaseStep <=> call.ablation = "early_release"

\* A ledger that was opened for the call, charged n times and not yet concluded.
AsCharged(l, n) ==
  /\ l \in Ledgers
  /\ l.prices = prices /\ l.source = call.source /\ l.deposit = Total(prices)
  /\ l.buyerDebit = IF call.source = Buyer THEN l.deposit ELSE 0
  /\ l.sponsorFunding = IF call.source # Buyer THEN l.deposit ELSE 0
  /\ l.returns = << >>
  /\ Len(l.responses) = n
  /\ \A i \in 1 .. n : RecordFits(l.responses[i], i)
  /\ l.deposit = l.escrow + ChargedBy(l)
  /\ CreditsTotal(l) <= ChargedBy(l)
  /\ call.ablation # "early_release" => CreditsTotal(l) = ChargedBy(l)

\* The ledger that the computation has after the responses so far.
Computed == LedgerAfter(prices, call.source, call.ablation, responses)

LedgerInOrder ==
  /\ pc = "start" => ledger = Nothing /\ responses = << >> /\ result = Nothing
  /\ pc \in {"launch", "ask", "await"} => ledger # Nothing /\ result = Nothing
  /\ ledger # Nothing => Accepted(call) /\ AsCharged(Computed, Len(responses))
  /\ ledger # Nothing /\ ~Returned => ledger = Computed
  /\ Returned =>
       /\ ledger # Nothing
       /\ Len(responses) = Len(call.order)
       /\ Combines(Used(call, responses))
       /\ result = Conclude(call, Computed, responses)
       /\ ledger = result.ledger

ReportInOrder ==
  Judged =>
    /\ Returned
    /\ report.coverage \in Coverages
    /\ report.verdict = Assess(result, prices, report.coverage)

ServiceInv ==
  /\ ServiceTypes
  /\ PipesInOrder
  /\ ResponsesInOrder
  /\ LedgerInOrder
  /\ ReportInOrder
=============================================================================
