--------------------------- MODULE NamedAcquirerWorld ---------------------------
(***************************************************************************)
(* The declared toy world of the named-acquirer certificate                *)
(* (artifact/global_named_acquirer_toy/verify_global_named_acquirer_toy.py):*)
(* a buyer opens an order by paying the sum of the member amounts into an  *)
(* exchange, every member submits one share, the last share makes the      *)
(* order successful, and the members withdraw their credits.  The script   *)
(* enumerates this world breadth first and certifies that no route to      *)
(* success costs the buyer less than the floor.                            *)
(***************************************************************************)
EXTENDS Amounts, Sequences, FiniteSetsExt

CONSTANTS
    Members,         \* "member_a" and "member_b"
    Amount,          \* the credit of each member, claim.memberCredits
    InitialBalance   \* the buyer's balance before the order

VARIABLES
    opened, accepted, successful, outputUsable,
    buyer, exchange, member, credit,   \* the four accounts and the credits
    route            \* the actions up to the first success ("visit")

worldVars == <<opened, accepted, successful, outputUsable,
               buyer, exchange, member, credit, route>>

\* The debit of "open" and the certified floor: validate_model requires both to
\* equal the sum of the member credits.
Floor == Total(Amount)

Nobody == "nobody"
Act(type, m) == [type |-> type, member |-> m]

Init ==
    /\ opened = FALSE /\ accepted = {} /\ successful = FALSE /\ outputUsable = FALSE
    /\ buyer = InitialBalance /\ exchange = 0
    /\ member = [m \in Members |-> 0] /\ credit = [m \in Members |-> 0]
    /\ route = <<>>

Open ==
    /\ ~opened /\ buyer >= Floor
    /\ opened' = TRUE
    /\ buyer' = buyer - Floor
    /\ exchange' = exchange + Floor
    /\ route' = Append(route, Act("open", Nobody))
    /\ UNCHANGED <<accepted, successful, outputUsable, member, credit>>

Submit(m) ==
    /\ opened /\ m \notin accepted /\ ~successful
    /\ accepted' = accepted \cup {m}
    /\ route' = Append(route, Act("submit", m))
    /\ IF accepted' = Members
       THEN successful' = TRUE /\ outputUsable' = TRUE /\ credit' = Amount
       ELSE UNCHANGED <<successful, outputUsable, credit>>
    /\ UNCHANGED <<opened, buyer, exchange, member>>

Withdraw(m) ==
    /\ credit[m] # 0 /\ exchange >= credit[m]
    /\ exchange' = exchange - credit[m]
    /\ member' = [member EXCEPT ![m] = @ + credit[m]]
    /\ credit' = [credit EXCEPT ![m] = 0]
    /\ UNCHANGED <<opened, accepted, successful, outputUsable, buyer, route>>

Next == Open \/ \E m \in Members : Submit(m) \/ Withdraw(m)

Spec == Init /\ [][Next]_worldVars

-----------------------------------------------------------------------------
(* What build_certificate requires of the enumerated world.                 *)

ExpectedRoutes ==
    {<<Act("open", Nobody), Act("submit", m), Act("submit", n)>> : m, n \in Members}

DebitPrecedesOutput ==
    successful => /\ Head(route) = Act("open", Nobody)
                  /\ route[Len(route)].type = "submit"

Conserved == exchange + Total(member) + buyer = InitialBalance

StateGates ==
    /\ successful => /\ outputUsable                           \* B1
                     /\ buyer = InitialBalance - Floor         \* B2
                     /\ route \in ExpectedRoutes               \* B5
    /\ DebitPrecedesOutput                                     \* B3
    /\ Conserved

NoReturn == buyer' <= buyer                                    \* B4

\* Of the route it is known at every moment how far it has come.
RouteInv ==
    \/ ~opened /\ accepted = {} /\ route = <<>>
    \/ opened /\ accepted = {} /\ route = <<Act("open", Nobody)>>
    \/ /\ opened
       /\ \E m \in Members : /\ accepted = {m}
                             /\ route = <<Act("open", Nobody), Act("submit", m)>>
    \/ /\ opened
       /\ \E m, n \in Members :
             /\ m # n /\ accepted = {m, n}
             /\ route = <<Act("open", Nobody), Act("submit", m), Act("submit", n)>>

\* The inductive invariant behind the gates.
WorldInv ==
    /\ {opened, successful, outputUsable} \subseteq BOOLEAN
    /\ outputUsable = successful
    /\ successful <=> accepted = Members
    /\ RouteInv
    /\ buyer = InitialBalance - (IF opened THEN Floor ELSE 0)
    /\ exchange \in Int /\ member \in [Members -> Nat] /\ credit \in [Members -> Nat]
    /\ Conserved

-----------------------------------------------------------------------------
(* The verdict the script gives to a variant of the world that breaks one   *)
(* of the five gates.                                                       *)

BaseWorld == [usable |-> TRUE, funding |-> 0, debitFirst |-> TRUE,
              returned |-> 0, bypass |-> FALSE]

Outflow(v) ==
    Max({0, (IF v.bypass THEN 0 ELSE Floor) - v.funding - v.returned})

Gates(v) == [B1 |-> v.usable, B2 |-> v.funding = 0, B3 |-> v.debitFirst,
             B4 |-> v.returned = 0, B5 |-> ~v.bypass]

FailedGates(v) == {b \in DOMAIN Gates(v) : ~Gates(v)[b]}

Verdict(v) ==
    CASE v.usable /\ Outflow(v) < Floor -> "MODEL-REFUTED"
      [] ~(v.usable /\ Outflow(v) < Floor) /\ FailedGates(v) # {} -> "UNKNOWN"
      [] OTHER -> "CERTIFIED"

\* One control per broken gate, with the one gate and the verdict the script
\* expects; the fifth gives the buyer one member's amount back.
NegativeControls ==
    {<<[BaseWorld EXCEPT !.usable = FALSE], "B1", "UNKNOWN">>,
     <<[BaseWorld EXCEPT !.funding = Floor], "B2", "MODEL-REFUTED">>,
     <<[BaseWorld EXCEPT !.debitFirst = FALSE], "B3", "UNKNOWN">>,
     <<[BaseWorld EXCEPT !.returned = Floor], "B4", "MODEL-REFUTED">>,
     <<[BaseWorld EXCEPT !.bypass = TRUE], "B5", "MODEL-REFUTED">>}
    \cup {<<[BaseWorld EXCEPT !.returned = Amount[m]], "B4", "MODEL-REFUTED">> :
             m \in Members}

ControlsHold ==
    /\ \A c \in NegativeControls :
          FailedGates(c[1]) = {c[2]} /\ Verdict(c[1]) = c[3]
    /\ \A v \in {[BaseWorld EXCEPT !.funding = Floor],
                 [BaseWorld EXCEPT !.returned = Floor]} : Outflow(v) = 0

\* Property: in every reachable state and step the gates B1 to B5 hold and no
\* value appears or disappears, whatever order the actions come in; and the
\* verdict is CERTIFIED exactly for a world that breaks no gate.
CertificateHolds ==
    /\ [](StateGates /\ ControlsHold)
    /\ [][NoReturn]_worldVars
=============================================================================
