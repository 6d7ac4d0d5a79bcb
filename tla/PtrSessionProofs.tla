-------------------------- MODULE PtrSessionProofs --------------------------
(***************************************************************************)
(* Proofs that a session counts only authentic answers, that what it has   *)
(* verified combines, that no payment serves two routes, and that no probe *)
(* is accepted, for all operators, thresholds, routes and payments,        *)
(* whatever the network and the operators do.                              *)
(*                                                                         *)
(* The inductive invariant is SInv: each verified answer sits in the slot  *)
(* of the route and the operator it was asked for, and no two of them have *)
(* one nonce.  That two threshold sets share an operator then gives        *)
(* PaymentServesOneRoute.                                                  *)
(***************************************************************************)
EXTENDS PtrSession, SequenceTheorems, FiniteSetTheorems, TLAPS

-----------------------------------------------------------------------------
(* Facts about slots, selections and answers.                              *)

\* The k-th slot of a route of t slots comes before those of later routes.
LEMMA SlotsInOrder ==
  ASSUME NEW t \in Nat \ {0}, NEW r \in Nat \ {0}, NEW s \in Nat \ {0},
         NEW k \in 1 .. t, NEW l \in 1 .. t, r < s
  PROVE  /\ t * (r - 1) + k < t * (s - 1) + l
         /\ t * (r - 1) + k \in Nat \ {0}
         /\ t * (s - 1) + l <= t * s
         /\ t * r <= t * (s - 1)
<1>. DEFINE d == s - 1 - r
            a == t * d
            b == t * r
<1>1. d \in Nat /\ r - 1 \in Nat /\ s - 1 = r + d /\ s = r + d + 1
  OBVIOUS
<1>. HIDE DEF d
<1>2. a \in Nat /\ b \in Nat
  BY <1>1
<1>3. t * (s - 1) = b + a /\ t * (r - 1) = b - t /\ t * s = b + a + t
  BY <1>1
<1>4. t * (r - 1) \in Nat
  BY <1>1
<1>. HIDE DEF a, b
<1>5. QED
  BY <1>2, <1>3, <1>4 DEF b

\* Slots are different slots of one route or of different routes.
LEMMA SlotsDiffer ==
  ASSUME NEW t \in Nat \ {0}, NEW r \in Nat \ {0}, NEW s \in Nat \ {0},
         NEW k \in 1 .. t, NEW l \in 1 .. t,
         t * (r - 1) + k = t * (s - 1) + l
  PROVE  r = s /\ k = l
<1>1. ~(r < s)
  BY SlotsInOrder
<1>2. ~(s < r)
  BY SlotsInOrder
<1>3. r = s
  BY <1>1, <1>2
<1>4. t * (r - 1) \in Int
  OBVIOUS
<1>5. QED
  BY <1>3, <1>4

\* What the constants say of the routes.
LEMMA RouteFacts ==
  /\ Threshold \in Nat \ {0}
  /\ IsFiniteSet(Operators) /\ Cardinality(Operators) \in Nat
  /\ Operators = 1 .. Cardinality(Operators)
  /\ Len(Selections) \in Nat \ {0} /\ DOMAIN Selections = 1 .. Len(Selections)
  /\ \A r \in DOMAIN Selections, k \in 1 .. Threshold :
       /\ r \in Nat \ {0}
       /\ Selections[r][k] \in Operators
       /\ \A l \in 1 .. Threshold : Selections[r][k] = Selections[r][l] => k = l
<1>1. Threshold \in Nat \ {0} /\ Cardinality(Operators) \in Nat
  BY SessionConstants
<1>2. IsFiniteSet(Operators)
  BY <1>1, FS_Interval, SessionConstants
<1>3. Selections \in Seq(Seq(Operators)) /\ Selections # << >>
  BY SessionConstants
<1>4. Len(Selections) \in Nat \ {0} /\ DOMAIN Selections = 1 .. Len(Selections)
  BY <1>3, EmptySeq, LenProperties
<1>5. ASSUME NEW r \in DOMAIN Selections, NEW k \in 1 .. Threshold
      PROVE  /\ r \in Nat \ {0}
             /\ Selections[r][k] \in Operators
             /\ \A l \in 1 .. Threshold : Selections[r][k] = Selections[r][l] => k = l
  <2>1. Selections[r] \in Seq(Operators) /\ Len(Selections[r]) = Threshold
    BY <1>3, <1>4, ElementOfSeq, SessionConstants
  <2>2. Selections[r][k] \in Operators
    BY <2>1, ElementOfSeq
  <2>3. QED
    BY <1>4, <2>2, SessionConstants
<1>6. QED
  BY <1>1, <1>2, <1>4, <1>5, SessionConstants

\* Two threshold sets share an operator.
LEMMA SelectionsMeet ==
  ASSUME NEW r \in DOMAIN Selections, NEW s \in DOMAIN Selections
  PROVE  \E k, l \in 1 .. Threshold : Selections[r][k] = Selections[s][l]
<1>. DEFINE I == 1 .. Threshold
            A == {Selections[r][k] : k \in I}
            B == {Selections[s][k] : k \in I}
            n == Cardinality(Operators)
<1>1. IsFiniteSet(I) /\ Cardinality(I) = Threshold /\ Threshold \in Nat /\ n \in Nat
  <2>1. Threshold \in Nat \ {0} /\ n \in Nat
    BY RouteFacts
  <2>2. QED
    BY <2>1, FS_Interval
<1>2. ASSUME NEW x \in DOMAIN Selections
      PROVE  LET S == {Selections[x][k] : k \in I}
             IN  S \in SUBSET Operators /\ IsFiniteSet(S) /\ Cardinality(S) = Threshold
  <2>. DEFINE S == {Selections[x][k] : k \in I}
              f == [k \in I |-> Selections[x][k]]
  <2>1. f \in [I -> S] /\ (\A k, l \in I : f[k] = f[l] => k = l) /\ \A o \in S : \E k \in I : f[k] = o
    BY RouteFacts
  <2>2. f \in Bijection(I, S)
    BY <2>1 DEF Bijection, Injection, Surjection, IsInjective
  <2>3. IsFiniteSet(S) /\ Cardinality(S) = Threshold
    BY <1>1, <2>2, FS_Bijection DEF ExistsBijection
  <2>4. S \in SUBSET Operators
    BY RouteFacts
  <2>5. QED
    BY <2>3, <2>4
<1>3. /\ A \in SUBSET Operators /\ IsFiniteSet(A) /\ Cardinality(A) = Threshold
      /\ B \in SUBSET Operators /\ IsFiniteSet(B) /\ Cardinality(B) = Threshold
  BY <1>2
<1>4. A \cap B # {}
  <2>. SUFFICES ASSUME A \cap B = {} PROVE FALSE
    OBVIOUS
  <2>. HIDE DEF A, B
  <2>1. Cardinality(A \cup B) = Cardinality(A) + Cardinality(B) - Cardinality(A \cap B)
    BY <1>3, FS_Union
  <2>2. Cardinality(A \cap B) = 0
    BY FS_EmptySet
  <2>3. A \cup B \in SUBSET Operators
    BY <1>3
  <2>4. Cardinality(A \cup B) <= n
    BY <2>3, RouteFacts, FS_Subset
  <2>5. 2 * Threshold > n
    BY SessionConstants
  <2>6. QED
    BY <1>1, <1>3, <2>1, <2>2, <2>4, <2>5
<1>5. QED
  BY <1>4

\* An answer that the network changed in any field is not accepted.
LEMMA AcceptedIsUnchanged ==
  ASSUME NEW o, NEW p, NEW b \in Arriving(Answer(o, p)), NEW q, Accepted(b, q)
  PROVE  b = Answer(o, p)
<1>. DEFINE a == Answer(o, p)
            content == [operator |-> o, order |-> p.order, nonce |-> p.nonce,
                        partial |-> Partial(o, p.seed)]
<1>1. a = [operator |-> o, order |-> p.order, nonce |-> p.nonce,
           partial |-> Partial(o, p.seed), signed |-> content]
  BY DEF Answer
<1>2. /\ b.signed.operator = b.operator /\ b.signed.order = b.order
      /\ b.signed.nonce = b.nonce /\ b.partial = b.signed.partial
  BY DEF Accepted, SignatureVerifies, MaterialMatches
<1>. HIDE DEF a, content
<1>3. CASE \E x \in Operators \cup Strangers : b = [a EXCEPT !.operator = x]
  <2>1. PICK x : b = [a EXCEPT !.operator = x]
    BY <1>3
  <2>2. b.signed = content /\ b.operator = x
    BY <1>1, <2>1
  <2>3. x = o
    BY <1>2, <2>2 DEF content
  <2>4. QED
    BY <1>1, <2>1, <2>3 DEF a
<1>4. CASE \E x \in Orders : b = [a EXCEPT !.order = x]
  <2>1. PICK x : b = [a EXCEPT !.order = x]
    BY <1>4
  <2>2. b.signed = content /\ b.order = x
    BY <1>1, <2>1
  <2>3. x = p.order
    BY <1>2, <2>2 DEF content
  <2>4. QED
    BY <1>1, <2>1, <2>3 DEF a
<1>5. CASE \E x \in Nonces : b = [a EXCEPT !.nonce = x]
  <2>1. PICK x : b = [a EXCEPT !.nonce = x]
    BY <1>5
  <2>2. b.signed = content /\ b.nonce = x
    BY <1>1, <2>1
  <2>3. x = p.nonce
    BY <1>2, <2>2 DEF content
  <2>4. QED
    BY <1>1, <2>1, <2>3 DEF a
<1>6. CASE \E x \in Partials : b = [a EXCEPT !.partial = x]
  <2>1. PICK x : b = [a EXCEPT !.partial = x]
    BY <1>6
  <2>2. b.signed = content /\ b.partial = x
    BY <1>1, <2>1
  <2>3. x = Partial(o, p.seed)
    BY <1>2, <2>2 DEF content
  <2>4. QED
    BY <1>1, <2>1, <2>3 DEF a
<1>7. QED
  BY <1>3, <1>4, <1>5, <1>6 DEF Arriving, a

\* An answer whose proof was spoilt is not accepted, whatever else happened to
\* it.
LEMMA TamperedIsRejected ==
  ASSUME NEW o \in Operators, NEW p, p.seed \in Seeds,
         NEW b \in Arriving(Answer(o, p)), NEW q
  PROVE  ~Accepted([b EXCEPT !.partial.intact = FALSE], q)
<1>. DEFINE a == Answer(o, p)
            c == [b EXCEPT !.partial.intact = FALSE]
<1>1. /\ DOMAIN a = {"operator", "order", "nonce", "partial", "signed"}
      /\ a.partial \in Partials
  BY DEF Answer, Partial, Partials
<1>2. DOMAIN b = DOMAIN a /\ b.partial \in Partials
  <2>. HIDE DEF a
  <2>1. CASE \E x \in Operators \cup Strangers : b = [a EXCEPT !.operator = x]
    BY <1>1, <2>1
  <2>2. CASE \E x \in Orders : b = [a EXCEPT !.order = x]
    BY <1>1, <2>2
  <2>3. CASE \E x \in Nonces : b = [a EXCEPT !.nonce = x]
    BY <1>1, <2>3
  <2>4. CASE \E x \in Partials : b = [a EXCEPT !.partial = x]
    BY <1>1, <2>4
  <2>5. QED
    BY <2>1, <2>2, <2>3, <2>4 DEF Arriving, a
<1>3. c.partial = [b.partial EXCEPT !.intact = FALSE]
  BY <1>1, <1>2
<1>4. c.partial.intact = FALSE
  BY <1>2, <1>3 DEF Partials
<1>. HIDE DEF c
<1>5. \A x, seed : Partial(x, seed).intact = TRUE
  BY DEF Partial
<1>6. QED
  BY <1>4, <1>5 DEF Accepted, ProofVerifies, c

-----------------------------------------------------------------------------
(* What the invariant says of the present route and of the probes.         *)

\* The answers to the present route are the last of the verified ones.
LEMMA VerifiedFacts ==
  ASSUME TypeOK, RoutesInOrder
  PROVE  /\ route \in DOMAIN Selections /\ route \in Nat \ {0} /\ Len(counted) \in Nat
         /\ DOMAIN counted = 1 .. Len(counted)
         /\ Threshold * (route - 1) \in Nat
         /\ Len(Verified) \in 0 .. Threshold
         /\ Len(counted) = Threshold * (route - 1) + Len(Verified)
         /\ DOMAIN Verified = 1 .. Len(Verified)
         /\ \A k \in 1 .. Len(Verified) : Verified[k] = counted[Threshold * (route - 1) + k]
<1>. DEFINE base == Threshold * (route - 1)
<1>1. /\ counted \in Seq(sent) /\ Len(counted) \in base .. Threshold * route
      /\ route \in DOMAIN Selections
  BY DEF RoutesInOrder, TypeOK
<1>2. Threshold \in Nat \ {0} /\ route \in Nat \ {0}
  BY <1>1, RouteFacts
<1>3. base \in Nat /\ Threshold * route = base + Threshold
  BY <1>2
<1>4. Len(counted) \in Nat /\ DOMAIN counted = 1 .. Len(counted)
  BY <1>1, LenProperties
<1>. HIDE DEF base
<1>5. \A i \in base + 1 .. Len(counted) : counted[i] \in sent
  BY <1>1, <1>3, <1>4, ElementOfSeq
<1>6. /\ Verified \in Seq(sent)
      /\ Len(Verified) = IF base + 1 <= Len(counted) THEN Len(counted) - (base + 1) + 1 ELSE 0
      /\ \A k \in 1 .. Len(counted) - (base + 1) + 1 : Verified[k] = counted[base + 1 + k - 1]
  <2>1. base + 1 \in Int /\ Len(counted) \in Int
    BY <1>3, <1>4
  <2>2. Verified = SubSeq(counted, base + 1, Len(counted))
    BY DEF Verified, base
  <2>3. QED
    BY <1>5, <2>1, <2>2, SubSeqProperties
<1>7. /\ Len(Verified) = Len(counted) - base
      /\ Len(Verified) \in 0 .. Threshold
  <2>1. Len(counted) \in base .. base + Threshold
    BY <1>1, <1>3
  <2>2. base \in Nat /\ Threshold \in Nat
    BY <1>2, <1>3
  <2>3. Len(Verified) = IF base + 1 <= Len(counted) THEN Len(counted) - (base + 1) + 1 ELSE 0
    BY <1>6
  <2>4. Len(counted) \in Nat /\ Len(counted) >= base /\ Len(counted) <= base + Threshold
    BY <1>4, <2>1, <2>2
  <2>5. CASE base + 1 <= Len(counted)
    BY <2>2, <2>3, <2>4, <2>5
  <2>6. CASE ~(base + 1 <= Len(counted))
    BY <2>2, <2>3, <2>4, <2>6
  <2>7. QED
    BY <2>5, <2>6
<1>8. \A k \in 1 .. Len(Verified) : Verified[k] = counted[base + k]
  <2>. SUFFICES ASSUME NEW k \in 1 .. Len(Verified) PROVE Verified[k] = counted[base + k]
    OBVIOUS
  <2>1. base \in Nat /\ k \in Int /\ base + 1 + k - 1 = base + k
    BY <1>3, <1>7
  <2>2. k \in 1 .. Len(counted) - (base + 1) + 1
    BY <1>3, <1>4, <1>7
  <2>3. QED
    BY <1>6, <2>1, <2>2
<1>9. DOMAIN Verified = 1 .. Len(Verified)
  BY <1>6, LenProperties
<1>10. /\ base \in Nat /\ Len(counted) = base + Len(Verified)
       /\ \A k \in 1 .. Len(Verified) : Verified[k] = counted[base + k]
  <2>1. Len(counted) = base + Len(Verified)
    BY <1>3, <1>4, <1>7
  <2>2. QED
    BY <1>3, <1>8, <2>1
<1>11. route \in DOMAIN Selections /\ route \in Nat \ {0} /\ Len(Verified) \in 0 .. Threshold
  BY <1>1, <1>2, <1>7
<1>12. QED
  BY <1>4, <1>9, <1>10, <1>11 DEF base

\* While the probes run, the first answer is the one to the first request.
LEMMA FirstAnswer ==
  ASSUME SInv, phase \in {"replay", "swap", "proof", "short"}
  PROVE  /\ 1 \in DOMAIN counted
         /\ counted[1].order = payment[1]
         /\ counted[1].nonce = Nonce(payment[1], Selections[1][1])
         /\ payment[1] \in Payments
<1>1. TypeOK /\ RoutesInOrder /\ SlotsFilled /\ CountedIsAuthentic
  BY DEF SInv
<1>2. /\ Threshold \in Nat \ {0} /\ 1 \in DOMAIN Selections /\ 1 \in 1 .. Threshold
      /\ Len(Selections) \in Nat \ {0}
  BY RouteFacts
<1>3. Len(counted) = Threshold * Len(Selections)
  BY <1>1 DEF RoutesInOrder
<1>4. 1 <= Len(counted) /\ 1 \in DOMAIN counted
  <2>1. Threshold * Len(Selections) >= 1
    BY <1>2
  <2>2. DOMAIN counted = 1 .. Len(counted) /\ Len(counted) \in Nat
    BY <1>1, VerifiedFacts
  <2>3. QED
    BY <1>3, <2>1, <2>2
<1>5. Threshold * (1 - 1) + 1 = 1
  BY <1>2
<1>6. counted[1].operator = Selections[1][1] /\ counted[1].order = payment[1]
  BY <1>1, <1>2, <1>4, <1>5 DEF SlotsFilled
<1>7. counted[1].nonce = Nonce(counted[1].order, counted[1].operator)
  BY <1>1, <1>4 DEF CountedIsAuthentic
<1>8. payment[1] \in Payments
  BY <1>1, <1>2 DEF TypeOK
<1>9. QED
  BY <1>4, <1>6, <1>7, <1>8

\* No answer is accepted in a probe: the nonce of the first is remembered, and
\* the order of the second was never asked for.
LEMMA ReplayRejected ==
  ASSUME SInv, phase = "replay", NEW a
  PROVE  ~Accepted(a, Question)
<1>1. 1 \in DOMAIN counted /\ counted[1].nonce = Nonce(payment[1], Selections[1][1])
  BY FirstAnswer
<1>2. seen = {counted[i].nonce : i \in DOMAIN counted}
  BY DEF SInv, TypeOK
<1>3. Question.nonce = Nonce(payment[1], Selections[1][1])
  BY DEF Question, Asking
<1>4. Question.nonce \in seen
  BY <1>1, <1>2, <1>3
<1>5. QED
  BY <1>4 DEF Accepted, NotReplayed

\* An answer for a payment is not one for the order of the swap probe.
LEMMA SwapRejected ==
  ASSUME SInv, phase = "swap"
  PROVE  ~Accepted(counted[1], Question)
<1>1. counted[1].order \in Payments
  BY FirstAnswer
<1>2. Question.order = SwapOrder
  BY DEF Question, Asking
<1>3. QED
  BY <1>1, <1>2, SessionConstants DEF Accepted, AnswersTheOrder

-----------------------------------------------------------------------------
(* The invariant and the steps.                                            *)

\* Nothing is started, asked or counted yet.
LEMMA InitSInv == Init => SInv
<1>. SUFFICES ASSUME Init PROVE SInv
  OBVIOUS
<1>1. /\ port = << >> /\ process = << >> /\ payment \in [DOMAIN Selections -> Payments]
      /\ phase = "launch" /\ route = 1 /\ waiting = FALSE /\ seen = {} /\ counted = << >>
      /\ probes = {} /\ requests = {} /\ spent = [o \in Operators |-> {}] /\ sent = {}
  BY DEF Init
<1>2. Threshold \in Nat \ {0} /\ Cardinality(Operators) \in Nat /\ 1 \in DOMAIN Selections
  BY RouteFacts
<1>3. Cardinality(Operators) # 0
  BY SessionConstants
<1>4. DOMAIN counted = {} /\ DOMAIN port = {} /\ Len(counted) = 0 /\ Len(port) = 0
  BY <1>1
<1>5. port \in Seq(Ports) /\ counted \in Seq(sent)
  BY <1>1
<1>6. process \in [DOMAIN port -> {"starting", "serving", "exited", "stopped"}]
  BY <1>1, <1>4
<1>7. TypeOK
  BY <1>1, <1>2, <1>4, <1>5, <1>6 DEF TypeOK
<1>8. LaunchedOnce /\ SentByOperators /\ WaitsForAnswer /\ NoncesDiffer /\ ProbesRejected
      /\ CountedIsAuthentic
  BY <1>1, <1>2, <1>3, <1>4
     DEF LaunchedOnce, SentByOperators, WaitsForAnswer, NoncesDiffer, ProbesRejected,
         CountedIsAuthentic
<1>9. RoutesInOrder
  <2>1. Threshold * (route - 1) = 0 /\ Threshold * route = Threshold
    BY <1>1, <1>2
  <2>2. Len(counted) \in Threshold * (route - 1) .. Threshold * route
    BY <1>2, <1>4, <2>1
  <2>3. QED
    BY <1>1, <1>5, <2>2 DEF RoutesInOrder
<1>10. SlotsFilled
  <2>. SUFFICES ASSUME NEW r \in DOMAIN Selections, NEW k \in 1 .. Threshold
                PROVE  ~(Threshold * (r - 1) + k <= Len(counted))
    BY DEF SlotsFilled
  <2>1. r \in Nat \ {0}
    BY RouteFacts
  <2>2. Threshold * (r - 1) \in Nat
    BY <1>2, <2>1
  <2>3. QED
    BY <1>4, <2>2
<1>11. QED
  BY <1>7, <1>8, <1>9, <1>10 DEF SInv

\* A step of the runner that only moves to another phase or route.
LEMMA PositionSInv ==
  ASSUME SInv, UNCHANGED <<given, seen, counted, probes, network>>,
         phase' \in {"failed", "routes", "replay", "swap", "proof", "short", "done", "aborted"},
         route' \in DOMAIN Selections, waiting' = FALSE,
         Len(counted) \in Threshold * (route' - 1) .. Threshold * route',
         phase' \in {"replay", "swap", "proof", "short"} =>
           route' = Len(Selections) /\ Len(counted) = Threshold * route'
  PROVE  SInv'
<1>1. UNCHANGED <<port, process, payment, seen, counted, probes, requests, spent, sent>>
  BY DEF given, started, network
<1>2. TypeOK'
  BY <1>1 DEF SInv, TypeOK
<1>3. LaunchedOnce' /\ SentByOperators' /\ WaitsForAnswer'
  BY <1>1 DEF SInv, LaunchedOnce, SentByOperators, WaitsForAnswer
<1>4. RoutesInOrder'
  BY <1>1 DEF SInv, RoutesInOrder
<1>5. SlotsFilled' /\ NoncesDiffer' /\ CountedIsAuthentic' /\ ProbesRejected'
  BY <1>1 DEF SInv, SlotsFilled, NoncesDiffer, CountedIsAuthentic, ProbesRejected
<1>6. QED
  BY <1>2, <1>3, <1>4, <1>5 DEF SInv

\* A step of an operator process: none is started again, and one that serves
\* goes on serving or is stopped.
LEMMA ProcessSInv ==
  ASSUME SInv, UNCHANGED <<payment, route, waiting, seen, counted, probes, network>>,
         phase' = phase \/ (~waiting /\ phase' = "ready"),
         port' \in Seq(Ports), Len(port') <= Cardinality(Operators),
         phase' = "launch" => Len(port') < Cardinality(Operators),
         process' \in [DOMAIN port' -> {"starting", "serving", "exited", "stopped"}],
         DOMAIN process \subseteq DOMAIN process',
         \A o \in DOMAIN process :
           process[o] \in {"serving", "stopped"} => process'[o] \in {"serving", "stopped"}
  PROVE  SInv'
<1>1. UNCHANGED <<payment, route, waiting, seen, counted, probes, requests, spent, sent>>
  BY DEF network
<1>2. /\ TypeOK /\ LaunchedOnce /\ SentByOperators /\ WaitsForAnswer /\ RoutesInOrder
      /\ SlotsFilled /\ NoncesDiffer /\ CountedIsAuthentic /\ ProbesRejected
  BY DEF SInv
<1>3. TypeOK'
  BY <1>1, <1>2 DEF TypeOK
<1>4. LaunchedOnce'
  BY DEF LaunchedOnce
<1>5. SentByOperators'
  BY <1>1, <1>2 DEF SentByOperators
<1>6. WaitsForAnswer'
  <2>1. Verified' = Verified
    BY <1>1 DEF Verified
  <2>2. CASE ~waiting
    BY <1>1, <2>2 DEF WaitsForAnswer
  <2>3. CASE waiting /\ phase' = phase
    <3>1. RouteAnswered' <=> RouteAnswered
      BY <2>1, <2>3 DEF RouteAnswered
    <3>2. QED
      BY <1>2, <2>3, <3>1 DEF WaitsForAnswer
  <2>4. QED
    BY <2>2, <2>3
<1>7. RoutesInOrder' /\ SlotsFilled' /\ NoncesDiffer' /\ ProbesRejected'
  BY <1>1, <1>2 DEF RoutesInOrder, SlotsFilled, NoncesDiffer, ProbesRejected
<1>8. CountedIsAuthentic'
  <2>1. \A i \in DOMAIN counted : counted[i] \in sent /\ counted[i].operator \in DOMAIN process
    BY <1>2 DEF CountedIsAuthentic, SentByOperators, Answer
  <2>2. QED
    BY <1>1, <1>2, <2>1 DEF CountedIsAuthentic
<1>9. QED
  BY <1>3, <1>4, <1>5, <1>6, <1>7, <1>8 DEF SInv

\* One more operator process is started.
LEMMA LaunchSInv ==
  ASSUME SInv, Launch
  PROVE  SInv'
<1>1. /\ TypeOK /\ LaunchedOnce /\ WaitsForAnswer
  BY DEF SInv
<1>2. PICK p \in Ports : port' = Append(port, p)
  BY DEF Launch
<1>3. /\ phase = "launch" /\ process' = Append(process, "starting")
      /\ phase' = IF Len(port') = Cardinality(Operators) THEN "ready" ELSE phase
      /\ UNCHANGED <<payment, route, waiting, seen, counted, probes, network>>
  BY DEF Launch
<1>4. /\ port \in Seq(Ports) /\ Len(port) \in Nat /\ DOMAIN port = 1 .. Len(port)
      /\ port' \in Seq(Ports) /\ Len(port') = Len(port) + 1 /\ DOMAIN port' = 1 .. Len(port')
  <2>1. port \in Seq(Ports)
    BY <1>1 DEF TypeOK
  <2>2. port' \in Seq(Ports) /\ Len(port') = Len(port) + 1
    BY <1>2, <2>1
  <2>3. QED
    BY <2>1, <2>2, LenProperties
<1>5. /\ process' \in [DOMAIN port' -> {"starting", "serving", "exited", "stopped"}]
      /\ DOMAIN process \subseteq DOMAIN process'
      /\ \A o \in DOMAIN process : process'[o] = process[o]
  <2>. DEFINE States == {"starting", "serving", "exited", "stopped"}
  <2>1. process \in [1 .. Len(port) -> States]
    BY <1>1, <1>4 DEF TypeOK
  <2>2. process \in Seq(States) /\ Len(process) = Len(port)
    BY <1>4, <2>1
  <2>3. "starting" \in States
    OBVIOUS
  <2>. HIDE DEF States
  <2>4. /\ process' \in Seq(States) /\ Len(process') = Len(port')
        /\ \A o \in 1 .. Len(process) : process'[o] = process[o]
    BY <1>3, <1>4, <2>2, <2>3
  <2>5. process' \in [DOMAIN port' -> States]
    BY <1>4, <2>4, LenProperties
  <2>6. DOMAIN process = 1 .. Len(port) /\ DOMAIN process' = 1 .. Len(port')
    BY <1>4, <2>1, <2>5
  <2>7. QED
    BY <1>4, <2>2, <2>4, <2>5, <2>6 DEF States
<1>6. Cardinality(Operators) \in Nat
  BY RouteFacts
<1>7. Len(port') <= Cardinality(Operators) /\ (phase' = "launch" => Len(port') < Cardinality(Operators))
  BY <1>1, <1>3, <1>4, <1>6 DEF LaunchedOnce
<1>8. phase' = phase \/ (~waiting /\ phase' = "ready")
  BY <1>1, <1>3 DEF WaitsForAnswer
<1>9. QED
  BY <1>3, <1>4, <1>5, <1>7, <1>8, ProcessSInv

\* A process serves its port, or exits because another one does.
LEMMA StartSInv ==
  ASSUME SInv, NEW o \in DOMAIN process, Start(o)
  PROVE  SInv'
<1>1. PICK outcome \in {"serving", "exited"} : process' = [process EXCEPT ![o] = outcome]
  BY DEF Start
<1>2. /\ process[o] = "starting"
      /\ UNCHANGED <<port, payment, phase, route, waiting, seen, counted, probes, network>>
  BY DEF Start, position
<1>3. /\ port \in Seq(Ports)
      /\ process \in [DOMAIN port -> {"starting", "serving", "exited", "stopped"}]
      /\ Len(port) <= Cardinality(Operators)
      /\ phase = "launch" => Len(port) < Cardinality(Operators)
  BY DEF SInv, TypeOK, LaunchedOnce
<1>4. /\ process' \in [DOMAIN port -> {"starting", "serving", "exited", "stopped"}]
      /\ DOMAIN process \subseteq DOMAIN process'
      /\ \A p \in DOMAIN process :
           process[p] \in {"serving", "stopped"} => process'[p] \in {"serving", "stopped"}
  BY <1>1, <1>2, <1>3
<1>5. QED
  BY <1>2, <1>3, <1>4, ProcessSInv

\* The processes are stopped; what they had answered stays their answer.
LEMMA StopSInv ==
  ASSUME SInv, Stop
  PROVE  SInv'
<1>1. /\ process' = [o \in DOMAIN process |-> IF o \in Running THEN "stopped" ELSE process[o]]
      /\ UNCHANGED <<port, payment, phase, route, waiting, seen, counted, probes, network>>
  BY DEF Stop, position
<1>2. /\ port \in Seq(Ports)
      /\ process \in [DOMAIN port -> {"starting", "serving", "exited", "stopped"}]
      /\ Len(port) <= Cardinality(Operators)
      /\ phase = "launch" => Len(port) < Cardinality(Operators)
  BY DEF SInv, TypeOK, LaunchedOnce
<1>3. /\ process' \in [DOMAIN port -> {"starting", "serving", "exited", "stopped"}]
      /\ DOMAIN process \subseteq DOMAIN process'
      /\ \A p \in DOMAIN process :
           process[p] \in {"serving", "stopped"} => process'[p] \in {"serving", "stopped"}
  BY <1>1, <1>2
<1>4. QED
  BY <1>1, <1>2, <1>3, ProcessSInv

\* What the runner asks is a request to an operator for an order.
LEMMA QuestionType ==
  ASSUME TypeOK, RoutesInOrder,
         phase \in {"routes", "replay", "swap", "proof"}, ~RouteAnswered
  PROVE  Question \in [to : Operators, order : Orders, nonce : Nonces, seed : Seeds]
<1>1. ASSUME NEW o \in Operators, NEW order \in Orders, NEW seed \in Seeds
      PROVE  Asking(o, order, seed) \in [to : Operators, order : Orders, nonce : Nonces, seed : Seeds]
  BY DEF Asking, Nonces
<1>2. /\ 1 \in DOMAIN Selections /\ 1 \in 1 .. Threshold
      /\ payment \in [DOMAIN Selections -> Payments]
  BY RouteFacts DEF TypeOK
<1>3. /\ Selections[1][1] \in Operators /\ payment[1] \in Orders /\ 1 \in Seeds
      /\ SwapOrder \in Orders /\ ProofOrder \in Orders /\ ProofSeed \in Seeds
  BY <1>2, RouteFacts DEF Orders, Seeds
<1>4. CASE phase = "routes"
  <2>1. Len(Verified) + 1 \in 1 .. Threshold
    <3>1. Len(Verified) \in 0 .. Threshold /\ Len(Verified) # Threshold
      BY <1>4, VerifiedFacts DEF RouteAnswered
    <3>2. Threshold \in Nat
      BY RouteFacts
    <3>3. QED
      BY <3>1, <3>2
  <2>2. route \in DOMAIN Selections
    BY DEF TypeOK
  <2>3. /\ Selections[route][Len(Verified) + 1] \in Operators
        /\ payment[route] \in Orders /\ route \in Seeds
    BY <1>2, <2>1, <2>2, RouteFacts DEF Orders, Seeds
  <2>4. Question = Asking(Selections[route][Len(Verified) + 1], payment[route], route)
    BY <1>4 DEF Question
  <2>5. QED
    BY <1>1, <2>3, <2>4
<1>5. CASE phase = "replay"
  BY <1>1, <1>3, <1>5 DEF Question
<1>6. CASE phase = "swap"
  BY <1>1, <1>3, <1>6 DEF Question
<1>7. CASE phase = "proof"
  BY <1>1, <1>3, <1>7 DEF Question
<1>8. QED
  BY <1>4, <1>5, <1>6, <1>7

\* The request is for the next slot of the route, or for a probe.
LEMMA AskSInv ==
  ASSUME SInv, Ask
  PROVE  SInv'
<1>1. /\ phase \in {"routes", "replay", "proof"} /\ ~RouteAnswered
      /\ waiting' = TRUE /\ requests' = requests \cup {Question}
      /\ UNCHANGED <<port, process, payment, phase, route, seen, counted, probes, spent, sent>>
  BY DEF Ask, given, started, position
<1>2. /\ TypeOK /\ LaunchedOnce /\ SentByOperators /\ RoutesInOrder
      /\ SlotsFilled /\ NoncesDiffer /\ CountedIsAuthentic /\ ProbesRejected
  BY DEF SInv
<1>3. Question \in [to : Operators, order : Orders, nonce : Nonces, seed : Seeds]
  BY <1>1, <1>2, QuestionType
<1>4. TypeOK'
  BY <1>1, <1>2, <1>3 DEF TypeOK
<1>5. SentByOperators'
  BY <1>1, <1>2 DEF SentByOperators
<1>6. WaitsForAnswer'
  <2>1. Verified' = Verified
    BY <1>1 DEF Verified
  <2>2. ~RouteAnswered'
    BY <1>1, <2>1 DEF RouteAnswered
  <2>3. QED
    BY <1>1, <2>2 DEF WaitsForAnswer
<1>7. LaunchedOnce' /\ RoutesInOrder' /\ SlotsFilled' /\ NoncesDiffer' /\ ProbesRejected'
      /\ CountedIsAuthentic'
  BY <1>1, <1>2
     DEF LaunchedOnce, RoutesInOrder, SlotsFilled, NoncesDiffer, ProbesRejected, CountedIsAuthentic
<1>8. QED
  BY <1>4, <1>5, <1>6, <1>7 DEF SInv

\* An operator answers, to the nonce and the order it was asked for.
LEMMA RespondSInv ==
  ASSUME SInv, NEW q \in requests, Respond(q)
  PROVE  SInv'
<1>1. PICK o \in Listening(port[q.to]) :
        /\ q.nonce \notin spent[o]
        /\ spent' = [spent EXCEPT ![o] = @ \cup {q.nonce}]
        /\ sent' = sent \cup {Answer(o, q)}
        /\ UNCHANGED <<given, position, waiting, seen, counted, probes, requests>>
  BY DEF Respond
<1>2. UNCHANGED <<port, process, payment, phase, route, waiting, seen, counted, probes, requests>>
  BY <1>1 DEF given, started, position
<1>3. /\ TypeOK /\ LaunchedOnce /\ SentByOperators /\ WaitsForAnswer /\ RoutesInOrder
      /\ SlotsFilled /\ NoncesDiffer /\ CountedIsAuthentic /\ ProbesRejected
  BY DEF SInv
<1>4. o \in DOMAIN process /\ process[o] = "serving" /\ o \in Operators
  <2>1. /\ port \in Seq(Ports) /\ Len(port) <= Cardinality(Operators)
        /\ process \in [DOMAIN port -> {"starting", "serving", "exited", "stopped"}]
    BY <1>3 DEF TypeOK, LaunchedOnce
  <2>2. o \in DOMAIN port /\ process[o] = "serving"
    BY <1>1 DEF Listening
  <2>3. DOMAIN port = 1 .. Len(port) /\ Len(port) \in Nat
    BY <2>1, LenProperties
  <2>4. Cardinality(Operators) \in Nat /\ Operators = 1 .. Cardinality(Operators)
    BY RouteFacts
  <2>5. o \in 1 .. Cardinality(Operators)
    BY <2>1, <2>2, <2>3, <2>4
  <2>6. QED
    BY <2>1, <2>2, <2>4, <2>5
<1>5. Answer(o, q).nonce = q.nonce /\ Answer(o, q).operator = o
  BY DEF Answer
<1>6. TypeOK'
  <2>1. q.nonce \in Nonces /\ spent \in [Operators -> SUBSET Nonces]
    BY <1>3 DEF TypeOK
  <2>2. spent' \in [Operators -> SUBSET Nonces]
    BY <1>1, <2>1
  <2>3. \A a \in sent' : a.nonce \in spent'[a.operator]
    <3>. SUFFICES ASSUME NEW a \in sent' PROVE a.nonce \in spent'[a.operator]
      OBVIOUS
    <3>1. CASE a = Answer(o, q)
      BY <1>1, <1>4, <1>5, <2>1, <3>1
    <3>2. CASE a \in sent
      <4>1. a.nonce \in spent[a.operator]
        BY <1>3, <3>2 DEF TypeOK
      <4>2. a.operator \in DOMAIN process
        BY <1>3, <3>2 DEF SentByOperators, Answer
      <4>3. QED
        BY <1>1, <1>4, <2>1, <4>1
    <3>3. QED
      BY <1>1, <3>1, <3>2
  <2>4. QED
    BY <1>2, <1>3, <2>2, <2>3 DEF TypeOK
<1>7. SentByOperators'
  <2>. SUFFICES ASSUME NEW a \in sent'
                PROVE  \E p \in DOMAIN process, r \in requests :
                         a = Answer(p, r) /\ process[p] \in {"serving", "stopped"}
    BY <1>2 DEF SentByOperators
  <2>1. CASE a = Answer(o, q)
    BY <1>4, <2>1
  <2>2. CASE a \in sent
    BY <1>3, <2>2 DEF SentByOperators
  <2>3. QED
    BY <1>1, <2>1, <2>2
<1>8. RoutesInOrder'
  <2>1. counted' \in Seq(sent')
    BY <1>1, <1>2, <1>3, SeqMonotonic DEF RoutesInOrder
  <2>2. QED
    BY <1>2, <1>3, <2>1 DEF RoutesInOrder
<1>9. WaitsForAnswer'
  <2>1. Verified' = Verified
    BY <1>2 DEF Verified
  <2>2. RouteAnswered' <=> RouteAnswered
    BY <1>2, <2>1 DEF RouteAnswered
  <2>3. QED
    BY <1>2, <1>3, <2>2 DEF WaitsForAnswer
<1>10. CountedIsAuthentic'
  BY <1>1, <1>2, <1>3 DEF CountedIsAuthentic
<1>11. LaunchedOnce' /\ SlotsFilled' /\ NoncesDiffer' /\ ProbesRejected'
  BY <1>2, <1>3 DEF LaunchedOnce, SlotsFilled, NoncesDiffer, ProbesRejected
<1>12. QED
  BY <1>6, <1>7, <1>8, <1>9, <1>10, <1>11 DEF SInv

\* A step of the runner to a later phase of the same route.
LEMMA PhaseSInv ==
  ASSUME SInv, UNCHANGED <<given, route, seen, counted, probes, network>>, waiting' = FALSE,
         phase' \in {"failed", "routes", "replay", "swap", "proof", "short", "done", "aborted"},
         phase' \in {"replay", "swap", "proof", "short"} =>
           phase \in {"replay", "swap", "proof", "short"}
  PROVE  SInv'
<1>1. TypeOK /\ RoutesInOrder
  BY DEF SInv
<1>2. route' = route /\ route \in DOMAIN Selections
  BY <1>1 DEF TypeOK
<1>3. Len(counted) \in Threshold * (route - 1) .. Threshold * route
  BY <1>1 DEF RoutesInOrder
<1>4. phase' \in {"replay", "swap", "proof", "short"} =>
        route = Len(Selections) /\ Len(counted) = Threshold * route
  BY <1>1 DEF RoutesInOrder
<1>5. QED
  BY <1>2, <1>3, <1>4, PositionSInv

\* The runner does not wait outside the phases in which it asks.
LEMMA NotWaiting ==
  ASSUME SInv, phase \notin {"routes", "replay", "proof"} \/ RouteAnswered
  PROVE  waiting = FALSE
BY DEF SInv, TypeOK, WaitsForAnswer

\* A refusal ends the run in a route, and passes a probe.
LEMMA RejectedSInv ==
  ASSUME SInv, Rejected, phase \in {"routes", "replay", "swap", "proof"}, waiting' = FALSE,
         UNCHANGED <<given, network>>
  PROVE  SInv'
<1>1. UNCHANGED <<given, route, seen, counted, probes, network>>
  BY DEF Rejected, Abort
<1>2. CASE phase = "routes"
  <2>1. phase' = "aborted"
    BY <1>2 DEF Rejected, Abort
  <2>2. QED
    BY <1>1, <2>1, PhaseSInv
<1>3. CASE phase \in {"replay", "swap", "proof"}
  <2>1. phase' \in {"swap", "proof", "short"}
    BY <1>3 DEF Rejected, AfterProbe
  <2>2. QED
    BY <1>1, <1>3, <2>1, PhaseSInv
<1>4. QED
  BY <1>2, <1>3

\* An answer that was sent and accepted for a route fills the route's next
\* slot.
LEMMA CountedSInv ==
  ASSUME SInv, phase = "routes", ~RouteAnswered, NEW a \in sent,
         Accepted(a, Question), Counted(a), waiting' = FALSE, UNCHANGED <<given, network>>
  PROVE  SInv'
<1>. DEFINE n == Len(counted)
            base == Threshold * (route - 1)
            next == Len(Verified) + 1
<1>1. /\ TypeOK /\ LaunchedOnce /\ SentByOperators /\ RoutesInOrder
      /\ SlotsFilled /\ NoncesDiffer /\ CountedIsAuthentic /\ ProbesRejected
  BY DEF SInv
<1>2. /\ seen' = seen \cup {a.nonce} /\ counted' = Append(counted, a)
      /\ UNCHANGED <<port, process, payment, phase, route, probes, requests, spent, sent>>
  BY DEF Counted, given, started, network
<1>3. /\ Threshold \in Nat \ {0} /\ route \in DOMAIN Selections /\ route \in Nat \ {0}
      /\ n \in Nat /\ DOMAIN counted = 1 .. n /\ base \in Nat
      /\ next \in 1 .. Threshold /\ n + 1 = base + next
  <2>1. /\ route \in DOMAIN Selections /\ route \in Nat \ {0} /\ n \in Nat
        /\ DOMAIN counted = 1 .. n /\ base \in Nat
        /\ Len(Verified) \in 0 .. Threshold /\ n = base + Len(Verified)
    BY <1>1, VerifiedFacts
  <2>2. Len(Verified) # Threshold /\ Threshold \in Nat \ {0}
    BY RouteFacts DEF RouteAnswered
  <2>. HIDE DEF n, base
  <2>3. QED
    BY <2>1, <2>2
<1>4. /\ Question.to = Selections[route][next]
      /\ Question.order = payment[route] /\ Question.seed = route
      /\ Question.nonce = Nonce(payment[route], Selections[route][next])
  BY DEF Question, Asking
<1>5. /\ a.operator = Selections[route][next] /\ a.order = payment[route]
      /\ a.partial = Partial(a.operator, route)
      /\ a.nonce = Nonce(a.order, a.operator) /\ a.nonce \notin seen
  BY <1>4 DEF Accepted, AnswersTheOrder, NotReplayed, ProofVerifies, FromTheOneAsked
<1>. HIDE DEF n, base, next
<1>6. /\ counted \in Seq(sent) /\ counted' \in Seq(sent)
      /\ Len(counted') = n + 1 /\ DOMAIN counted' = 1 .. n + 1
      /\ counted'[n + 1] = a /\ \A i \in 1 .. n : counted'[i] = counted[i]
  <2>1. counted \in Seq(sent)
    BY <1>1 DEF RoutesInOrder
  <2>2. /\ counted' \in Seq(sent) /\ Len(counted') = n + 1
        /\ counted'[n + 1] = a /\ \A i \in 1 .. n : counted'[i] = counted[i]
    BY <1>2, <1>3, <2>1 DEF n
  <2>3. QED
    BY <2>1, <2>2, LenProperties
<1>7. 1 .. n + 1 = 1 .. n \cup {n + 1}
  BY <1>3
<1>8. seen = {counted[i].nonce : i \in 1 .. n}
  BY <1>1, <1>3 DEF TypeOK
<1>9. TypeOK'
  <2>1. seen' = {counted'[i].nonce : i \in DOMAIN counted'}
    <3>1. {counted'[i].nonce : i \in DOMAIN counted'}
            = {counted'[i].nonce : i \in 1 .. n} \cup {counted'[n + 1].nonce}
      BY <1>6, <1>7
    <3>2. {counted'[i].nonce : i \in 1 .. n} = {counted[i].nonce : i \in 1 .. n}
      BY <1>6
    <3>3. QED
      BY <1>2, <1>6, <1>8, <3>1, <3>2
  <2>2. QED
    BY <1>1, <1>2, <2>1 DEF TypeOK
<1>10. NoncesDiffer'
  <2>. SUFFICES ASSUME NEW i \in 1 .. n + 1, NEW j \in 1 .. n + 1,
                       counted'[i].nonce = counted'[j].nonce
                PROVE  i = j
    BY <1>6 DEF NoncesDiffer
  <2>1. \A k \in 1 .. n : counted'[k].nonce # a.nonce
    BY <1>5, <1>6, <1>8
  <2>2. CASE i \in 1 .. n /\ j \in 1 .. n
    BY <1>1, <1>3, <1>6, <2>2 DEF NoncesDiffer
  <2>3. CASE i = n + 1 \/ j = n + 1
    BY <1>6, <1>7, <2>1, <2>3
  <2>4. QED
    BY <1>7, <2>2, <2>3
<1>11. SlotsFilled'
  <2>. SUFFICES ASSUME NEW r \in DOMAIN Selections, NEW k \in 1 .. Threshold,
                       Threshold * (r - 1) + k <= n + 1
                PROVE  LET b == counted'[Threshold * (r - 1) + k]
                       IN  /\ b.operator = Selections[r][k]
                           /\ b.order = payment[r]
                           /\ b.partial = Partial(b.operator, r)
    BY <1>2, <1>6 DEF SlotsFilled
  <2>. DEFINE slot == Threshold * (r - 1) + k
  <2>1. r \in Nat \ {0}
    BY RouteFacts
  <2>2. slot \in Nat \ {0}
    <3>1. Threshold \in Nat /\ r - 1 \in Nat
      BY <2>1, RouteFacts
    <3>2. Threshold * (r - 1) \in Nat
      BY <3>1
    <3>3. QED
      BY <3>2
  <2>3. CASE slot = n + 1
    <3>1. Threshold * (r - 1) + k = Threshold * (route - 1) + next
      BY <1>3, <2>3 DEF base
    <3>2. Threshold \in Nat \ {0} /\ route \in Nat \ {0} /\ next \in 1 .. Threshold
      BY <1>3
    <3>3. r = route /\ k = next
      BY <2>1, <3>1, <3>2, SlotsDiffer
    <3>4. counted'[slot] = a
      BY <1>6, <2>3
    <3>5. QED
      BY <1>5, <3>3, <3>4
  <2>4. CASE slot # n + 1
    <3>1. slot \in 1 .. n
      <4>. HIDE DEF slot
      <4>1. slot <= n + 1
        BY DEF slot
      <4>2. QED
        BY <1>3, <2>2, <2>4, <4>1
    <3>2. slot <= Len(counted)
      <4>. HIDE DEF slot
      <4>1. QED
        BY <1>3, <3>1 DEF n
    <3>3. counted'[slot] = counted[slot]
      BY <1>6, <3>1
    <3>4. QED
      BY <1>1, <3>2, <3>3 DEF SlotsFilled
  <2>5. QED
    BY <2>3, <2>4
<1>12. RoutesInOrder'
  <2>1. Threshold * route = base + Threshold
    BY <1>3 DEF base
  <2>2. n + 1 \in base .. base + Threshold
    BY <1>3
  <2>3. Len(counted') \in Threshold * (route' - 1) .. Threshold * route'
    BY <1>2, <1>6, <2>1, <2>2 DEF base
  <2>4. phase' = "routes"
    BY <1>2
  <2>5. QED
    BY <1>2, <1>6, <2>3, <2>4 DEF RoutesInOrder
<1>13. CountedIsAuthentic'
  <2>1. process[a.operator] \in {"serving", "stopped"}
    BY <1>1 DEF SentByOperators, Answer
  <2>2. \A i \in DOMAIN counted' :
          /\ counted'[i] \in sent
          /\ counted'[i].nonce = Nonce(counted'[i].order, counted'[i].operator)
          /\ process[counted'[i].operator] \in {"serving", "stopped"}
    BY <1>1, <1>3, <1>5, <1>6, <1>7, <2>1 DEF CountedIsAuthentic
  <2>3. \A i, j \in DOMAIN counted' : counted'[i] = counted'[j] => i = j
    BY <1>10 DEF NoncesDiffer
  <2>4. QED
    BY <1>2, <2>2, <2>3 DEF CountedIsAuthentic
<1>14. LaunchedOnce' /\ SentByOperators' /\ ProbesRejected' /\ WaitsForAnswer'
  BY <1>1, <1>2 DEF LaunchedOnce, SentByOperators, ProbesRejected, WaitsForAnswer
<1>15. QED
  BY <1>9, <1>10, <1>11, <1>12, <1>13, <1>14 DEF SInv

\* Whatever is read as an answer is rejected or is an answer that was sent.
LEMMA ReceiveSInv ==
  ASSUME SInv, Receive
  PROVE  SInv'
<1>1. PICK a \in sent : \E b \in Arriving(a) : Checked(Tampered(b))
  BY DEF Receive
<1>2. PICK b \in Arriving(a) : Checked(Tampered(b))
  BY <1>1
<1>3. waiting' = FALSE /\ UNCHANGED <<given, network>>
  BY DEF Receive
<1>4. phase \in {"routes", "replay", "proof"} /\ ~RouteAnswered
  BY DEF Receive, SInv, WaitsForAnswer
<1>5. PICK o \in Operators, q \in requests : a = Answer(o, q) /\ q.seed \in Seeds
  <2>1. PICK o \in DOMAIN process, q \in requests : a = Answer(o, q)
    BY DEF SInv, SentByOperators
  <2>2. /\ port \in Seq(Ports) /\ Len(port) <= Cardinality(Operators)
        /\ DOMAIN process = DOMAIN port /\ q.seed \in Seeds
    BY DEF SInv, TypeOK, LaunchedOnce
  <2>3. DOMAIN port = 1 .. Len(port) /\ Len(port) \in Nat
    BY <2>2, LenProperties
  <2>4. Cardinality(Operators) \in Nat /\ Operators = 1 .. Cardinality(Operators)
    BY RouteFacts
  <2>5. o \in Operators
    BY <2>2, <2>3, <2>4
  <2>6. QED
    BY <2>1, <2>2, <2>5
<1>6. CASE ~Accepted(Tampered(b), Question)
  <2>1. Rejected
    BY <1>2, <1>6 DEF Checked
  <2>2. QED
    BY <1>3, <1>4, <2>1, RejectedSInv
<1>7. CASE Accepted(Tampered(b), Question)
  <2>1. phase # "replay"
    BY <1>7, ReplayRejected
  <2>2. phase # "proof"
    BY <1>5, <1>7, TamperedIsRejected DEF Tampered
  <2>3. phase = "routes"
    BY <1>4, <2>1, <2>2
  <2>4. Tampered(b) = b
    BY <2>3 DEF Tampered
  <2>5. b = a
    BY <1>5, <1>7, <2>4, AcceptedIsUnchanged
  <2>6. Counted(a)
    BY <1>2, <1>7, <2>4, <2>5 DEF Checked
  <2>7. QED
    BY <1>3, <1>4, <1>7, <2>3, <2>4, <2>5, <2>6, CountedSInv
<1>8. QED
  BY <1>6, <1>7

\* No answer at all is a refusal.
LEMMA TransportFailsSInv ==
  ASSUME SInv, TransportFails
  PROVE  SInv'
<1>1. phase \in {"routes", "replay", "proof"}
  BY DEF TransportFails, SInv, WaitsForAnswer
<1>2. Rejected /\ waiting' = FALSE /\ UNCHANGED <<given, network>>
  BY DEF TransportFails
<1>3. QED
  BY <1>1, <1>2, RejectedSInv

\* The answer presented to the other order is refused.
LEMMA SwapProbeSInv ==
  ASSUME SInv, SwapProbe
  PROVE  SInv'
<1>1. phase = "swap" /\ Checked(counted[1]) /\ UNCHANGED <<given, waiting, network>>
  BY DEF SwapProbe
<1>2. Rejected
  BY <1>1, SwapRejected DEF Checked
<1>3. waiting' = FALSE
  BY <1>1, NotWaiting
<1>4. QED
  BY <1>1, <1>2, <1>3, RejectedSInv

\* One answer less than the threshold does not combine.
LEMMA ShortProbeSInv ==
  ASSUME SInv, ShortProbe
  PROVE  SInv'
<1>1. /\ phase = "short" /\ phase' = "done"
      /\ probes' = IF Combines(SubSeq(counted, 1, Threshold - 1)) THEN probes \cup {phase} ELSE probes
      /\ UNCHANGED <<given, route, waiting, seen, counted, network>>
  BY DEF ShortProbe
<1>2. ~Combines(SubSeq(counted, 1, Threshold - 1))
  <2>. DEFINE short == SubSeq(counted, 1, Threshold - 1)
  <2>1. Threshold \in Nat \ {0}
    BY RouteFacts
  <2>2. /\ counted \in Seq(sent) /\ route = Len(Selections)
        /\ Len(counted) = Threshold * Len(Selections)
    BY <1>1 DEF SInv, RoutesInOrder
  <2>3. Len(Selections) \in Nat \ {0}
    BY RouteFacts
  <2>4. Threshold - 1 <= Len(counted) /\ Len(counted) \in Nat
    <3>1. Threshold * Len(Selections) >= Threshold
      BY <2>1, <2>3
    <3>2. Len(counted) \in Nat
      BY <2>2, LenProperties
    <3>3. QED
      BY <2>1, <2>2, <3>1, <3>2
  <2>5. \A i \in 1 .. Threshold - 1 : counted[i] \in sent
    BY <2>1, <2>2, <2>4, ElementOfSeq
  <2>6. Len(short) = IF 1 <= Threshold - 1 THEN Threshold - 1 - 1 + 1 ELSE 0
    <3>1. 1 \in Int /\ Threshold - 1 \in Int
      BY <2>1
    <3>2. QED
      BY <2>5, <3>1, SubSeqProperties
  <2>7. Len(short) = Threshold - 1
    BY <2>1, <2>6
  <2>. HIDE DEF short
  <2>8. ~Combines(short)
    BY <2>1, <2>7 DEF Combines, Enough
  <2>9. QED
    BY <2>8 DEF short
<1>3. UNCHANGED <<given, route, seen, counted, probes, network>>
  BY <1>1, <1>2
<1>4. waiting' = FALSE
  BY <1>1, NotWaiting
<1>5. QED
  BY <1>1, <1>3, <1>4, PhaseSInv

\* A route that is complete is followed by the next one, or by the probes.
LEMMA CombineSInv ==
  ASSUME SInv, Combine
  PROVE  SInv'
<1>1. /\ phase = "routes" /\ Len(Verified) = Threshold
      /\ UNCHANGED <<given, waiting, seen, counted, probes, network>>
  BY DEF Combine, RouteAnswered
<1>2. waiting' = FALSE
  BY <1>1, NotWaiting DEF RouteAnswered
<1>3. CASE phase' = "aborted" /\ route' = route
  BY <1>1, <1>2, <1>3, PhaseSInv
<1>4. /\ Threshold \in Nat \ {0} /\ route \in Nat \ {0} /\ route \in DOMAIN Selections
      /\ Len(counted) = Threshold * route
  <2>1. /\ route \in DOMAIN Selections /\ route \in Nat \ {0}
        /\ Len(counted) = Threshold * (route - 1) + Len(Verified)
    BY VerifiedFacts DEF SInv
  <2>2. Threshold \in Nat \ {0}
    BY RouteFacts
  <2>3. Threshold * route = Threshold * (route - 1) + Threshold
    BY <2>1, <2>2
  <2>4. QED
    BY <1>1, <2>1, <2>2, <2>3
<1>5. CASE route = Len(Selections) /\ phase' = "replay" /\ route' = route
  <2>1. Threshold * (route - 1) <= Threshold * route /\ Threshold * (route - 1) \in Int
        /\ Threshold * route \in Int
    BY <1>4
  <2>2. Len(counted) \in Threshold * (route' - 1) .. Threshold * route'
    BY <1>4, <1>5, <2>1
  <2>3. QED
    BY <1>1, <1>2, <1>4, <1>5, <2>2, PositionSInv
<1>6. CASE route # Len(Selections) /\ phase' = "routes" /\ route' = route + 1
  <2>1. route' \in DOMAIN Selections
    <3>1. DOMAIN Selections = 1 .. Len(Selections) /\ Len(Selections) \in Nat
      BY RouteFacts
    <3>2. route \in 1 .. Len(Selections) /\ route # Len(Selections) /\ route' = route + 1
      BY <1>4, <1>6, <3>1
    <3>. DEFINE last == Len(Selections)
    <3>3. last \in Nat /\ route \in 1 .. last /\ route # last
      BY <3>1, <3>2
    <3>. HIDE DEF last
    <3>4. route + 1 \in 1 .. last
      BY <3>3
    <3>5. QED
      BY <3>1, <3>2, <3>4 DEF last
  <2>2. /\ Threshold * (route' - 1) = Threshold * route
        /\ Threshold * route' = Threshold * route + Threshold
        /\ Threshold * route \in Int
    BY <1>4, <1>6
  <2>3. Len(counted) \in Threshold * (route' - 1) .. Threshold * route'
    BY <1>4, <2>2
  <2>4. QED
    BY <1>1, <1>2, <1>6, <2>1, <2>3, PositionSInv
<1>7. QED
  BY <1>1, <1>3, <1>5, <1>6 DEF Combine, Abort

-----------------------------------------------------------------------------
(* The theorems.                                                           *)

\* SInv is inductive: whatever the processes and the network do, the verified
\* answers are those that were asked for, in their order.
THEOREM Invariant == Spec => []SInv
<1>1. Init => SInv
  BY InitSInv
<1>2. SInv /\ [Next]_vars => SInv'
  <2>. SUFFICES ASSUME SInv, [Next]_vars PROVE SInv'
    OBVIOUS
  <2>1. CASE Launch
    BY <2>1, LaunchSInv
  <2>2. CASE LaunchFails
    <3>1. waiting' = FALSE
      BY <2>2, NotWaiting DEF LaunchFails
    <3>2. QED
      BY <2>2, <3>1, PhaseSInv DEF LaunchFails
  <2>3. CASE Ready
    <3>1. waiting' = FALSE
      BY <2>3, NotWaiting DEF Ready
    <3>2. QED
      BY <2>3, <3>1, PhaseSInv DEF Ready
  <2>4. CASE NotReady
    <3>1. waiting' = FALSE
      BY <2>4, NotWaiting DEF NotReady
    <3>2. QED
      BY <2>4, <3>1, PhaseSInv DEF NotReady
  <2>5. CASE Ask
    BY <2>5, AskSInv
  <2>6. CASE Receive
    BY <2>6, ReceiveSInv
  <2>7. CASE TransportFails
    BY <2>7, TransportFailsSInv
  <2>8. CASE Garbled
    BY <2>8, PhaseSInv DEF Garbled, Abort
  <2>9. CASE Combine
    BY <2>9, CombineSInv
  <2>10. CASE SwapProbe
    BY <2>10, SwapProbeSInv
  <2>11. CASE ShortProbe
    BY <2>11, ShortProbeSInv
  <2>12. CASE Stop
    BY <2>12, StopSInv
  <2>13. ASSUME NEW o \in DOMAIN process, Start(o)
         PROVE  SInv'
    BY <2>13, StartSInv
  <2>14. ASSUME NEW q \in requests, Respond(q)
         PROVE  SInv'
    BY <2>14, RespondSInv
  <2>15. CASE UNCHANGED vars
    <3>1. UNCHANGED <<port, process, payment, phase, route, waiting, seen, counted, probes,
                      requests, spent, sent>>
      BY <2>15 DEF vars, given, started, network, position
    <3>2. /\ port \in Seq(Ports) /\ Len(port) <= Cardinality(Operators)
          /\ phase = "launch" => Len(port) < Cardinality(Operators)
          /\ process \in [DOMAIN port -> {"starting", "serving", "exited", "stopped"}]
      BY DEF SInv, TypeOK, LaunchedOnce
    <3>3. QED
      BY <3>1, <3>2, ProcessSInv DEF network
  <2>16. QED
    BY <2>1, <2>2, <2>3, <2>4, <2>5, <2>6, <2>7, <2>8, <2>9, <2>10, <2>11, <2>12, <2>13,
       <2>14, <2>15 DEF Next, Runner
<1>3. QED
  BY <1>1, <1>2, PTL DEF Spec

\* The types; above all, the coordinator remembers exactly the nonces of the
\* answers it counted.
THEOREM TypeCorrect == Spec => []TypeOK
BY Invariant, PTL DEF SInv

\* Nobody relabels an answer and no operator stands in for another, over any
\* number of requests, late answers and duplicates.
THEOREM Authentic == Spec => []CountedIsAuthentic
BY Invariant, PTL DEF SInv

\* No probe of the runner is ever accepted.
THEOREM ProbesFail == Spec => []ProbesRejected
BY Invariant, PTL DEF SInv

\* The last two checks of a route never fail: enough answers, from different
\* operators, for the route's ciphertext.
THEOREM CombineAlwaysSucceeds == Spec => []CombineSucceeds
<1>1. SInv => CombineSucceeds
  <2>. SUFFICES ASSUME SInv, RouteAnswered
                PROVE  Combines(Verified) /\ CommitmentHolds(Verified, route)
    BY DEF CombineSucceeds
  <2>1. TypeOK /\ RoutesInOrder /\ SlotsFilled
    BY DEF SInv
  <2>2. /\ route \in DOMAIN Selections /\ Len(Verified) = Threshold
        /\ Threshold * (route - 1) \in Nat
        /\ Len(counted) = Threshold * (route - 1) + Threshold
        /\ DOMAIN Verified = 1 .. Threshold
        /\ \A k \in 1 .. Threshold : Verified[k] = counted[Threshold * (route - 1) + k]
    BY <2>1, VerifiedFacts DEF RouteAnswered
  <2>3. Threshold \in Nat
    BY RouteFacts
  <2>4. ASSUME NEW k \in 1 .. Threshold
        PROVE  /\ Verified[k].operator = Selections[route][k]
               /\ Verified[k].partial = Partial(Verified[k].operator, route)
    <3>1. Threshold * (route - 1) + k <= Len(counted)
      <4>. DEFINE base == Threshold * (route - 1)
      <4>1. base \in Nat /\ Len(counted) = base + Threshold
        BY <2>2
      <4>. HIDE DEF base
      <4>2. base + k <= Len(counted)
        BY <2>3, <4>1
      <4>3. QED
        BY <4>2 DEF base
    <3>2. QED
      BY <2>1, <2>2, <3>1 DEF SlotsFilled
  <2>5. CommitmentHolds(Verified, route)
    BY <2>4 DEF CommitmentHolds
  <2>6. Combines(Verified)
    BY <2>2, <2>3, <2>4, RouteFacts DEF Combines, Enough
  <2>7. QED
    BY <2>5, <2>6
<1>2. QED
  BY <1>1, Invariant, PTL

\* No payment is good for two routes, whatever the capture names: an operator
\* of both threshold sets would have been counted twice with one nonce.
THEOREM OnePaymentOneRoute == Spec => []PaymentServesOneRoute
<1>1. SInv => PaymentServesOneRoute
  <2>. SUFFICES ASSUME SInv, NEW r \in DOMAIN Selections, NEW s \in DOMAIN Selections,
                       r < s, s * Threshold <= Len(counted), payment[r] = payment[s]
                PROVE  FALSE
    BY DEF PaymentServesOneRoute
  <2>1. TypeOK /\ RoutesInOrder /\ SlotsFilled /\ CountedIsAuthentic /\ NoncesDiffer
    BY DEF SInv
  <2>2. PICK k \in 1 .. Threshold, l \in 1 .. Threshold : Selections[r][k] = Selections[s][l]
    BY SelectionsMeet
  <2>. DEFINE i == Threshold * (r - 1) + k
              j == Threshold * (s - 1) + l
  <2>3. Threshold \in Nat \ {0} /\ r \in Nat \ {0} /\ s \in Nat \ {0}
    BY RouteFacts
  <2>4. i < j /\ i \in Nat \ {0} /\ j <= Threshold * s
    BY <2>3, SlotsInOrder
  <2>5. s * Threshold = Threshold * s /\ Threshold * s \in Nat
    BY <2>3
  <2>6. j \in Int
    BY <2>3
  <2>7. Len(counted) \in Nat /\ DOMAIN counted = 1 .. Len(counted)
    BY <2>1, VerifiedFacts
  <2>8. i <= Len(counted) /\ j <= Len(counted) /\ i \in DOMAIN counted /\ j \in DOMAIN counted /\ i # j
    <3>. HIDE DEF i, j
    <3>1. QED
      BY <2>4, <2>5, <2>6, <2>7
  <2>9. /\ counted[i].operator = Selections[r][k] /\ counted[i].order = payment[r]
        /\ counted[j].operator = Selections[s][l] /\ counted[j].order = payment[s]
    BY <2>1, <2>8 DEF SlotsFilled
  <2>. HIDE DEF i, j
  <2>10. counted[i].nonce = counted[j].nonce
    BY <2>1, <2>2, <2>8, <2>9 DEF CountedIsAuthentic
  <2>11. QED
    BY <2>1, <2>8, <2>10 DEF NoncesDiffer
<1>2. QED
  BY <1>1, Invariant, PTL
=============================================================================
