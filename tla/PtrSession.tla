----------------------------- MODULE PtrSession -----------------------------
(***************************************************************************)
(* A session of the paid threshold-response runtime: the runner of the     *)
(* process certificate starts the operator processes and waits for them,   *)
(* asks, for one paid route after the other, the operators of a threshold  *)
(* set for their partial decryptions, has the coordinator verify every     *)
(* answer, combines them, tries four probes of its own that must all be    *)
(* rejected, and stops the processes.                                      *)
(*                                                                         *)
(* An operator is what AnswerOnce promises and PtrOperator implements: it  *)
(* answers a nonce once.  Between the processes everything may go wrong:   *)
(* two operators may be given one port, which is picked before it is       *)
(* bound, so that an endpoint leads to another operator; an answer may be  *)
(* late, lost, unreadable, delivered again to another request, or changed  *)
(* in one of its fields.  Hashes do not collide, and only an operator      *)
(* makes its signatures and its proofs (ThresholdElGamal has their         *)
(* arithmetic).                                                            *)
(*                                                                         *)
(* Buyer, resource, epoch, host and source digest are constants of a       *)
(* session; an order stands for the whole context of an answer.            *)
(***************************************************************************)
EXTENDS Naturals, Sequences, FiniteSets

CONSTANTS
  Operators,   \* the registered operators, 1 .. n
  Ports,       \* that free_port may return
  Strangers,   \* operator ids that are not in the registry
  Threshold,
  Payments,    \* the payments of the capture, which name the orders
  SwapOrder, ProofOrder,   \* the orders that two of the probes make up
  Selections   \* for each route the operators it asks, in this order

Orders == Payments \cup {SwapOrder, ProofOrder}

\* What validate_capture requires of the routes (it requires seven operators
\* and a threshold of four).  It does not compare the payments.
ASSUME SessionConstants ==
  /\ Cardinality(Operators) \in Nat /\ Operators = 1 .. Cardinality(Operators)
  /\ Threshold \in 1 .. Cardinality(Operators)
  /\ 2 * Threshold > Cardinality(Operators)
  /\ Operators \cap Strangers = {}
  /\ SwapOrder \notin Payments \cup {ProofOrder}
  /\ ProofOrder \notin Payments
  /\ Selections \in Seq(Seq(Operators)) \ {<< >>}
  /\ \A r \in DOMAIN Selections :
       /\ Len(Selections[r]) = Threshold
       /\ \A i, j \in 1 .. Threshold : Selections[r][i] = Selections[r][j] => i = j

VARIABLES
  port,        \* of each operator process started so far, in their order
  process,     \* its state: "starting", "serving", "exited" or "stopped"
  payment,     \* the payment of each route
  phase,       \* "launch", "ready", "routes", one of the probes, or an end
  route,       \* the route that is asked for
  waiting,     \* for an answer to the last request
  seen,        \* Coordinator.seen_nonces
  counted,     \* the answers that were verified in this session
  probes,      \* the probes that were not rejected
  requests,    \* ever sent
  spent,       \* the nonces each operator has answered
  sent         \* the answers ever sent

started  == <<port, process>>
given    == <<started, payment>>
network  == <<requests, spent, sent>>
position == <<phase, route>>

vars == <<given, position, waiting, seen, counted, probes, network>>

-----------------------------------------------------------------------------
(* Faulty variants of the definitions below, for mutation tests.           *)

\* The nonce names the route and not the order.
NonceOfRoute(order, o) == <<route, o>>

\* Two of the coordinator's checks dropped.
NotRemembered(n) == TRUE

AnyOperator(a, q) == TRUE

OneShort(answers) == Len(answers) + 1 >= Threshold

-----------------------------------------------------------------------------
(* What is asked, and what is answered.                                    *)

\* deterministic_nonce.
Nonce(order, o) == <<order, o>>

Nonces == {Nonce(order, o) : order \in Orders, o \in Operators}

\* Ciphertexts are told apart by their seed: one per route, and one that the
\* proof probe encrypts.
ProofSeed == 0

Seeds == {ProofSeed} \cup DOMAIN Selections

\* An operator's partial decryption of a ciphertext, with its proof.
Partial(o, seed) == [by |-> o, of |-> seed, intact |-> TRUE]

Partials == [by : Operators, of : Seeds, intact : BOOLEAN]

\* An operator's answer, and its signature over everything in it.
Answer(o, q) ==
  LET content == [operator |-> o, order |-> q.order, nonce |-> q.nonce,
                  partial |-> Partial(o, q.seed)]
  IN  [operator |-> o, order |-> q.order, nonce |-> q.nonce,
       partial |-> Partial(o, q.seed), signed |-> content]

\* The answers to the present route: those to the earlier ones come first.
Verified == SubSeq(counted, Threshold * (route - 1) + 1, Len(counted))

RouteAnswered == phase = "routes" /\ Len(Verified) = Threshold

Asking(o, order, seed) ==
  [to |-> o, order |-> order, nonce |-> Nonce(order, o), seed |-> seed]

Question ==
  CASE phase = "routes" ->
         Asking(Selections[route][Len(Verified) + 1], payment[route], route)
    [] phase = "replay" -> Asking(Selections[1][1], payment[1], 1)
    [] phase = "swap"   -> Asking(Selections[1][1], SwapOrder, 1)
    [] phase = "proof"  -> Asking(Selections[1][1], ProofOrder, ProofSeed)

-----------------------------------------------------------------------------
(* The coordinator's checks, in its order; 5 and 6 compare the hashes and  *)
(* verify the proof.                                                       *)

AnswersTheOrder(a, q) == a.order = q.order

NotReplayed(n) == n \notin seen

Registered(a) == a.operator \in Operators

SignatureVerifies(a) ==
  /\ a.signed.operator = a.operator
  /\ a.signed.order = a.order
  /\ a.signed.nonce = a.nonce

MaterialMatches(a) == a.partial = a.signed.partial

ProofVerifies(a, q) == a.partial = Partial(a.operator, q.seed)

FromTheOneAsked(a, q) == a.operator = q.to

Accepted(a, q) ==
  /\ AnswersTheOrder(a, q)
  /\ a.nonce = q.nonce
  /\ NotReplayed(q.nonce)
  /\ Registered(a)
  /\ SignatureVerifies(a)
  /\ MaterialMatches(a)
  /\ ProofVerifies(a, q)
  /\ FromTheOneAsked(a, q)

\* combine_partials: it raises unless these hold.
Enough(answers) == Len(answers) >= Threshold

Combines(answers) ==
  /\ Enough(answers)
  /\ \A i, j \in DOMAIN answers \cap (1 .. Threshold) :
       answers[i].operator = answers[j].operator => i = j

\* The combined plaintext is the one that was committed to.
CommitmentHolds(answers, seed) ==
  \A i \in 1 .. Threshold : answers[i].partial = Partial(answers[i].operator, seed)

-----------------------------------------------------------------------------
Init ==
  /\ port = << >>
  /\ process = << >>
  /\ payment \in [DOMAIN Selections -> Payments]
  /\ phase = "launch"
  /\ route = 1
  /\ waiting = FALSE
  /\ seen = {}
  /\ counted = << >>
  /\ probes = {}
  /\ requests = {}
  /\ spent = [o \in Operators |-> {}]
  /\ sent = {}

-----------------------------------------------------------------------------
(* The operator processes.                                                 *)

Listening(p) == {o \in DOMAIN port : port[o] = p /\ process[o] = "serving"}

\* free_port: a port that nobody listens on now, be it promised or not.
Launch ==
  /\ phase = "launch"
  /\ \E p \in Ports :
       /\ Listening(p) = {}
       /\ port' = Append(port, p)
  /\ process' = Append(process, "starting")
  /\ phase' = IF Len(port') = Cardinality(Operators) THEN "ready" ELSE phase
  /\ UNCHANGED <<payment, route, waiting, seen, counted, probes, network>>

\* The processes are started before the runner looks after them: nobody stops
\* those that run.
LaunchFails ==
  /\ phase = "launch"
  /\ phase' = "failed"
  /\ UNCHANGED <<given, route, waiting, seen, counted, probes, network>>

\* A process that cannot bind its port, or cannot start, exits.
Start(o) ==
  /\ process[o] = "starting"
  /\ \E outcome \in {"serving", "exited"} :
       /\ outcome = "serving" => Listening(port[o]) = {}
       /\ process' = [process EXCEPT ![o] = outcome]
  /\ UNCHANGED <<port, payment, position, waiting, seen, counted, probes, network>>

\* wait_until_ready: every endpoint answers, whoever it is that answers.
Ready ==
  /\ phase = "ready"
  /\ \A o \in Operators : Listening(port[o]) # {}
  /\ phase' = "routes"
  /\ UNCHANGED <<given, route, waiting, seen, counted, probes, network>>

NotReady ==
  /\ phase = "ready"
  /\ phase' = "aborted"
  /\ UNCHANGED <<given, route, waiting, seen, counted, probes, network>>

\* The processes that still run.
Running == {o \in DOMAIN process : process[o] \in {"starting", "serving"}}

\* Faulty variant: the processes are stopped after a success only.
StopAfterSuccess ==
  /\ phase = "done" /\ Running # {}
  /\ process' = [o \in DOMAIN process |-> IF o \in Running THEN "stopped" ELSE process[o]]
  /\ UNCHANGED <<port, payment, position, waiting, seen, counted, probes, network>>

\* stop_operators, after a success and after an exception.
Stop ==
  /\ phase \in {"done", "aborted"} /\ Running # {}
  /\ process' = [o \in DOMAIN process |-> IF o \in Running THEN "stopped" ELSE process[o]]
  /\ UNCHANGED <<port, payment, position, waiting, seen, counted, probes, network>>

-----------------------------------------------------------------------------
(* Requests and answers.                                                   *)

Ask ==
  /\ phase \in {"routes", "replay", "proof"}
  /\ ~waiting
  /\ ~RouteAnswered
  /\ waiting' = TRUE
  /\ requests' = requests \cup {Question}
  /\ UNCHANGED <<given, position, seen, counted, probes, spent, sent>>

\* An operator gets round to a request, in time or not.
Respond(q) ==
  \E o \in Listening(port[q.to]) :
    /\ q.nonce \notin spent[o]
    /\ spent' = [spent EXCEPT ![o] = @ \cup {q.nonce}]
    /\ sent' = sent \cup {Answer(o, q)}
    /\ UNCHANGED <<given, position, waiting, seen, counted, probes, requests>>

-----------------------------------------------------------------------------
(* What becomes of a request.                                              *)

AfterProbe == [replay |-> "swap", swap |-> "proof", proof |-> "short"]

\* The runner's require().
Abort == phase' = "aborted" /\ UNCHANGED route

\* A faulty variant: the nonce of a rejected answer is remembered too.
RememberedToo ==
  /\ phase' = IF phase = "routes" THEN "aborted" ELSE AfterProbe[phase]
  /\ seen' = seen \cup {Question.nonce}
  /\ UNCHANGED <<route, counted, probes>>

Rejected ==
  /\ IF phase = "routes" THEN Abort ELSE phase' = AfterProbe[phase] /\ UNCHANGED route
  /\ UNCHANGED <<seen, counted, probes>>

Counted(a) ==
  /\ seen' = seen \cup {a.nonce}
  /\ counted' = Append(counted, a)
  /\ IF phase = "routes"
     THEN UNCHANGED <<phase, probes>>
     ELSE phase' = AfterProbe[phase] /\ probes' = probes \cup {phase}
  /\ UNCHANGED route

Checked(a) == IF Accepted(a, Question) THEN Counted(a) ELSE Rejected

\* What may arrive in place of an answer: the answer, or the answer with one
\* of its fields changed.
Arriving(a) ==
  UNION {{[a EXCEPT !.operator = o] : o \in Operators \cup Strangers},
         {[a EXCEPT !.order = order] : order \in Orders},
         {[a EXCEPT !.nonce = n] : n \in Nonces},
         {[a EXCEPT !.partial = p] : p \in Partials}}

\* The proof probe spoils the proof before it is checked.
Tampered(a) == IF phase = "proof" THEN [a EXCEPT !.partial.intact = FALSE] ELSE a

\* Any answer that was ever sent is read as the answer to this request.
Receive ==
  /\ waiting
  /\ \E a \in sent : \E b \in Arriving(a) : Checked(Tampered(b))
  /\ waiting' = FALSE
  /\ UNCHANGED <<given, network>>

\* An HTTP error, such as the refusal of a spent nonce, or a timeout.
TransportFails ==
  /\ waiting
  /\ Rejected
  /\ waiting' = FALSE
  /\ UNCHANGED <<given, network>>

\* A body that is cut short or is not JSON raises what request() does not catch.
Garbled ==
  /\ waiting
  /\ Abort
  /\ waiting' = FALSE
  /\ UNCHANGED <<given, seen, counted, probes, network>>

-----------------------------------------------------------------------------
\* All operators of the route have answered: the plaintext is delivered, or
\* an exception ends the run.
Combine ==
  /\ RouteAnswered
  /\ IF ~(Combines(Verified) /\ CommitmentHolds(Verified, route)) THEN Abort
     ELSE IF route = Len(Selections) THEN phase' = "replay" /\ UNCHANGED route
     ELSE route' = route + 1 /\ UNCHANGED phase
  /\ UNCHANGED <<given, waiting, seen, counted, probes, network>>

\* The first answer is presented as the answer to another order.
SwapProbe ==
  /\ phase = "swap"
  /\ Checked(counted[1])
  /\ UNCHANGED <<given, waiting, network>>

\* The first route's answers but one are combined.
ShortProbe ==
  /\ phase = "short"
  /\ probes' = IF Combines(SubSeq(counted, 1, Threshold - 1)) THEN probes \cup {phase} ELSE probes
  /\ phase' = "done"
  /\ UNCHANGED <<given, route, waiting, seen, counted, network>>

Runner ==
  \/ Launch \/ LaunchFails \/ Ready \/ NotReady
  \/ Ask \/ Receive \/ TransportFails \/ Garbled \/ Combine \/ SwapProbe \/ ShortProbe
  \/ Stop

Next == Runner \/ (\E o \in DOMAIN process : Start(o)) \/ \E q \in requests : Respond(q)

\* Every wait of the runner has a timeout, so that it goes on whatever the
\* operators do.
Spec == Init /\ [][Next]_vars /\ WF_vars(Runner)

-----------------------------------------------------------------------------
(* Properties.                                                             *)

\* The types; the coordinator remembers the nonces it counted an answer for.
TypeOK ==
  /\ port \in Seq(Ports) /\ process \in [DOMAIN port -> {"starting", "serving", "exited", "stopped"}]
  /\ payment \in [DOMAIN Selections -> Payments]
  /\ phase \in {"launch", "failed", "ready", "routes", "replay", "swap", "proof", "short", "done", "aborted"}
  /\ route \in DOMAIN Selections
  /\ waiting \in BOOLEAN
  /\ seen = {counted[i].nonce : i \in DOMAIN counted}
  /\ probes \subseteq {"replay", "swap", "proof", "short"}
  /\ requests \subseteq [to : Operators, order : Orders, nonce : Nonces, seed : Seeds]
  /\ spent \in [Operators -> SUBSET Nonces]
  /\ \A a \in sent : a.nonce \in spent[a.operator]

\* A counted answer is one that its operator gave, unchanged, to a request
\* for that order that was meant for it and reached it: nobody relabels an
\* answer, and no operator stands in for one that cannot be reached.  None is
\* counted twice in a session.
CountedIsAuthentic ==
  /\ \A i \in DOMAIN counted :
       LET a == counted[i]
       IN  /\ a \in sent
           /\ a.nonce = Nonce(a.order, a.operator)
           /\ process[a.operator] \in {"serving", "stopped"}
  /\ \A i, j \in DOMAIN counted : counted[i] = counted[j] => i = j

\* What the coordinator has verified can be combined and gives the plaintext
\* that was committed to: the last two checks of a route never fail.
CombineSucceeds ==
  RouteAnswered => Combines(Verified) /\ CommitmentHolds(Verified, route)

\* A payment is good for one route, whatever payments the capture names: two
\* threshold sets share an operator, which answers for an order only once.
PaymentServesOneRoute ==
  \A r, t \in DOMAIN Selections :
    r < t /\ t * Threshold <= Len(counted) => payment[r] # payment[t]

\* Whatever the network does, a probe is never accepted.
ProbesRejected == probes = {}

\* A session ends, however its operators fail, and no operator process outlives
\* it, unless the runner fails while it still starts them.
SessionEnds ==
  <>[](\/ phase = "failed"
       \/ phase \in {"done", "aborted"} /\ Running = {})
-----------------------------------------------------------------------------
(* What makes the properties inductive.                                    *)

\* Operators are started once each.
LaunchedOnce ==
  /\ Len(port) <= Cardinality(Operators)
  /\ phase = "launch" => Len(port) < Cardinality(Operators)

\* Whatever was sent, an operator that served gave as its answer to a request.
SentByOperators ==
  \A a \in sent :
    \E o \in DOMAIN process, q \in requests :
      a = Answer(o, q) /\ process[o] \in {"serving", "stopped"}

\* The runner waits only for what it asked for.
WaitsForAnswer == waiting => phase \in {"routes", "replay", "proof"} /\ ~RouteAnswered

\* The answers of the routes before this one are complete, and those of all
\* routes when the probes begin.
RoutesInOrder ==
  /\ counted \in Seq(sent)
  /\ Len(counted) \in Threshold * (route - 1) .. Threshold * route
  /\ phase \in {"replay", "swap", "proof", "short"} =>
       route = Len(Selections) /\ Len(counted) = Threshold * route

\* The k-th answer of a route is from the k-th operator of its selection, for
\* the payment and the ciphertext of that route.
SlotsFilled ==
  \A r \in DOMAIN Selections, k \in 1 .. Threshold :
    Threshold * (r - 1) + k <= Len(counted) =>
      LET a == counted[Threshold * (r - 1) + k]
      IN  /\ a.operator = Selections[r][k]
          /\ a.order = payment[r]
          /\ a.partial = Partial(a.operator, r)

NoncesDiffer == \A i, j \in DOMAIN counted : counted[i].nonce = counted[j].nonce => i = j

SInv ==
  /\ TypeOK /\ LaunchedOnce /\ SentByOperators /\ WaitsForAnswer
  /\ RoutesInOrder /\ SlotsFilled /\ NoncesDiffer
  /\ CountedIsAuthentic /\ ProbesRejected
=============================================================================
