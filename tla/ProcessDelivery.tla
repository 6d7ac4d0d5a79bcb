---------------------------- MODULE ProcessDelivery ----------------------------
(***************************************************************************)
(* The delivery extension of the toy world                                 *)
(* (finite_toy_delivery_extension/check_toy_v15.py): the same order with   *)
(* finality and delivery as actions of their own, so that the last share   *)
(* is no longer the success.  A trace is replayed into a record of events, *)
(* and the record is audited.                                              *)
(***************************************************************************)
EXTENDS Amounts, FiniteSetsExt, SequencesExt

CONSTANTS Members, Amount, InitialBalance

VARIABLES process,   \* the state tuple of the LTS
          trace      \* the actions up to the first delivery

processVars == <<process, trace>>

Nobody == "nobody"
Act(type, m) == [type |-> type, member |-> m]
Actions == {Act(t, Nobody) : t \in {"open", "finalize", "deliver"}}
           \cup {Act(t, m) : t \in {"submit", "withdraw"}, m \in Members}

InitialState == [opened |-> FALSE, finalized |-> FALSE, submitted |-> {},
                 delivered |-> FALSE, withdrawn |-> {}]

\* Faulty variant, for a mutation test: one share is enough.
AnyResponded(s) == s.submitted # {}

AllResponded(s) == s.submitted = Members

Enabled(s, a) ==
    IF ~s.opened THEN a.type = "open"
    ELSE \/ a.type = "finalize" /\ ~s.finalized
         \/ a.type = "submit" /\ s.finalized /\ ~s.delivered /\ a.member \notin s.submitted
         \/ a.type = "deliver" /\ s.finalized /\ ~s.delivered /\ AllResponded(s)
         \/ a.type = "withdraw" /\ s.delivered /\ a.member \notin s.withdrawn

After(s, a) ==
    CASE a.type = "open"     -> [s EXCEPT !.opened = TRUE]
      [] a.type = "finalize" -> [s EXCEPT !.finalized = TRUE]
      [] a.type = "submit"   -> [s EXCEPT !.submitted = @ \cup {a.member}]
      [] a.type = "deliver"  -> [s EXCEPT !.delivered = TRUE]
      [] a.type = "withdraw" -> [s EXCEPT !.withdrawn = @ \cup {a.member}]

Init == process = InitialState /\ trace = <<>>

Step(a) ==
    /\ Enabled(process, a)
    /\ process' = After(process, a)
    /\ trace' = IF process.delivered THEN trace ELSE Append(trace, a)

Next == \E a \in Actions : Step(a)

Spec == Init /\ [][Next]_processVars

-----------------------------------------------------------------------------
(* Replaying and auditing a trace.                                          *)

EventsOf(a) ==
    CASE a.type = "open"     -> <<[type |-> "Request"],
                                  [type |-> "Transfer", sender |-> "A", receiver |-> "S"]>>
      [] a.type = "finalize" -> <<[type |-> "Finalize"]>>
      [] a.type = "submit"   -> <<[type |-> "Respond", member |-> a.member]>>
      [] a.type = "deliver"  -> <<[type |-> "Deliver"]>>
      [] OTHER               -> <<>>

\* A disabled action raises: nothing after it is replayed.
Replay(t) ==
    FoldLeft(LAMBDA r, a : IF r.legal /\ Enabled(r.state, a)
                           THEN [legal |-> TRUE, state |-> After(r.state, a),
                                 events |-> r.events \o EventsOf(a)]
                           ELSE [r EXCEPT !.legal = FALSE],
             [legal |-> TRUE, state |-> InitialState, events |-> <<>>], t)

\* The first position of each required type; types.index raises when one is missing.
Ordered(events) ==
    LET At(type) == {i \in DOMAIN events : events[i].type = type}
        First(type) == Min(At(type))
    IN  /\ \A type \in {"Request", "Transfer", "Finalize", "Respond", "Deliver"} :
              At(type) # {}
        /\ First("Request") <= First("Transfer")
        /\ First("Transfer") < First("Finalize")
        /\ First("Finalize") < First("Respond")
        /\ First("Respond") < First("Deliver")

ValidFirstSuccess(t) ==
    LET r == Replay(t) IN
    /\ r.legal /\ r.state.delivered
    /\ Last(t) = Act("deliver", Nobody)
    /\ Ordered(r.events)
    /\ {e.member : e \in {x \in ToSet(r.events) : x.type = "Respond"}} = Members
    /\ \A e \in ToSet(r.events) :
          e.type = "Transfer" => e.sender = "A" /\ e.receiver = "S"

\* enumerate_histories: the traces without a delivery that are n actions long,
\* and the traces whose last action is the first delivery.
Undelivered[n \in Nat] ==
    IF n = 0 THEN {<<>>}
    ELSE {Append(p[1], p[2]) : p \in {q \in Undelivered[n - 1] \X Actions :
             /\ Enabled(Replay(q[1]).state, q[2])
             /\ ~After(Replay(q[1]).state, q[2]).delivered}}

FirstSuccesses ==
    {Append(p[1], p[2]) : p \in {q \in
        (UNION {Undelivered[n] : n \in 0 .. Cardinality(Members) + 2}) \X Actions :
             /\ Enabled(Replay(q[1]).state, q[2])
             /\ After(Replay(q[1]).state, q[2]).delivered}}

\* The mutation controls: a trace that does not deliver, one that delivers before
\* finality, and an action the language does not have.
Bypass == Act("zero_cost_bypass", Nobody)
Tampered(t) ==
    {RemoveAt(t, i) : i \in DOMAIN t}
    \cup {ReplaceAt(t, i, a) : i \in DOMAIN t, a \in {Bypass, Act("deliver", Nobody)}}
    \cup {Append(t, a) : a \in Actions \cup {Bypass}}
    \cup {ReplaceAt(ReplaceAt(t, i, t[i + 1]), i + 1, t[i]) : i \in 1 .. Len(t) - 1}

-----------------------------------------------------------------------------
\* Property: the audit accepts the trace of a run exactly when the run has just
\* delivered, and accepts no trace that drops, repeats, swaps or adds an action
\* unless that is a first-success trace of the language too.
TracesAreTrue ==
    /\ ValidFirstSuccess(trace) <=> process.delivered
    /\ process.delivered => trace \in FirstSuccesses
    /\ \A t \in Tampered(trace) : ValidFirstSuccess(t) => t \in FirstSuccesses

\* The toy world seen in the extension: the last share counts when it is delivered,
\* and the route is the trace without its finality and without its delivery.
Pending == ~process.delivered /\ process.submitted = Members
WorldRoute ==
    LET last == Len(trace) - (IF Pending \/ process.delivered THEN 1 ELSE 0)
    IN  IF process.opened THEN <<trace[1]>> \o SubSeq(trace, 3, last) ELSE <<>>
Withdrawn == [m \in Members |-> IF m \in process.withdrawn THEN Amount[m] ELSE 0]
Debit == IF process.opened THEN Total(Amount) ELSE 0

World == INSTANCE NamedAcquirerWorld WITH
    opened <- process.opened,
    accepted <- IF Pending THEN process.submitted \ {Last(trace).member}
                ELSE process.submitted,
    successful <- process.delivered, outputUsable <- process.delivered,
    buyer <- InitialBalance - Debit,
    exchange <- Debit - Total(Withdrawn),
    member <- Withdrawn,
    credit <- [m \in Members |-> IF process.delivered /\ m \notin process.withdrawn
                                 THEN Amount[m] ELSE 0],
    route <- WorldRoute

\* Property: the extension only makes the success of the toy world later: with the
\* last share counted at its delivery, every run of it is a run of that world.
DeliveryExtendsWorld == World!Spec
=============================================================================
