---------------------------- MODULE NamedAcquirerToy ----------------------------
(***************************************************************************)
(* The contract the toy world is bound to                                  *)
(* (joint_incidence_refinement/contracts/GlobalNamedAcquirerToy.sol).       *)
(* A withdrawal pays its member in the middle of the call: the member's    *)
(* account may call back into any function of the contract, and may make   *)
(* the transfer fail, which undoes the whole call.                         *)
(***************************************************************************)
EXTENDS Integers, Sequences, FiniteSets

CONSTANTS
    Members, Amount, InitialBalance,
    Shares, Resources, \* share commitments and resource ids
    Zero,              \* bytes32(0), a member of both
    Values             \* the msg.value a caller may send with open

\* The contract names two members, and both amounts are positive.
ASSUME ToyAssumption ==
    /\ IsFiniteSet(Members) /\ Cardinality(Members) = 2
    /\ Amount \in [Members -> Nat \ {0}] /\ InitialBalance \in Nat

Buyer == "buyer"
NoOutput == [resource |-> Zero]
Idle == [member |-> "none"]

VARIABLES
    opened, resourceId, expected, accepted, successful, output, credit,
    buyer, exchange, member,  \* the balances
    calling,   \* the withdrawal whose transfer is running, with the state before it
    route      \* history: the calls that succeeded, up to the first success

toyVars == <<opened, resourceId, expected, accepted, successful, output, credit,
          buyer, exchange, member, calling, route>>

\* The values before a running withdrawal, restored when it reverts.
Before == IF calling = Idle
          THEN [accepted |-> accepted, successful |-> successful, output |-> output,
                credit |-> credit, exchange |-> exchange, member |-> member,
                route |-> route]
          ELSE calling.before

World == INSTANCE NamedAcquirerWorld WITH
    accepted <- Before.accepted, successful <- Before.successful,
    outputUsable <- Before.output # NoOutput, exchange <- Before.exchange,
    member <- Before.member, credit <- Before.credit, route <- Before.route

withdrawing == calling # Idle

(* Faulty variants, for mutation tests: any value opens; a share is replayed. *)
AnyValue(value) == value > 0
NeverReplayed(sender) == FALSE

ExactValue(value) == value = World!Floor
ReplayedShare(sender) == sender \in accepted

ToyInit ==
    /\ opened = FALSE /\ resourceId = Zero /\ expected = [m \in Members |-> Zero]
    /\ accepted = {} /\ successful = FALSE /\ output = NoOutput
    /\ credit = [m \in Members |-> 0]
    /\ buyer = InitialBalance /\ exchange = 0 /\ member = [m \in Members |-> 0]
    /\ calling = Idle /\ route = <<>>

Open(sender, value, resource, shares) ==
    /\ sender = Buyer
    /\ ~opened
    /\ ExactValue(value) /\ buyer >= value
    /\ resource # Zero /\ \A m \in Members : shares[m] # Zero
    /\ opened' = TRUE /\ resourceId' = resource /\ expected' = shares
    /\ buyer' = buyer - value /\ exchange' = exchange + value
    /\ route' = Append(route, World!Act("open", World!Nobody))
    /\ UNCHANGED <<accepted, successful, output, credit, member, calling>>

\* There is no test of "successful" here: only acceptedA and acceptedB keep a
\* replayed share from assigning the credits a second time.
SubmitShare(sender, share) ==
    /\ opened
    /\ sender \in Members /\ ~ReplayedShare(sender)
    /\ share = expected[sender]
    /\ accepted' = accepted \cup {sender}
    /\ route' = Append(route, World!Act("submit", sender))
    /\ IF accepted' = Members
       THEN /\ successful' = TRUE
            /\ credit' = Amount
            /\ output' = [resource |-> resourceId, shares |-> expected, buyer |-> Buyer]
       ELSE UNCHANGED <<successful, credit, output>>
    /\ UNCHANGED <<opened, resourceId, expected, buyer, exchange, member, calling>>

\* withdrawCredit up to the transfer: the credit is cleared, the flag is set and
\* the value has left the contract when the member's code runs.
WithdrawCredit(sender) ==
    /\ sender \in Members
    /\ credit[sender] # 0
    /\ ~withdrawing
    /\ exchange >= credit[sender]
    /\ calling' = [member |-> sender, before |-> Before]
    /\ credit' = [credit EXCEPT ![sender] = 0]
    /\ exchange' = exchange - credit[sender]
    /\ member' = [member EXCEPT ![sender] = @ + credit[sender]]
    /\ UNCHANGED <<opened, resourceId, expected, accepted, successful, output,
                   buyer, route>>

TransferReturns ==
    /\ withdrawing
    /\ calling' = Idle
    /\ UNCHANGED <<opened, resourceId, expected, accepted, successful, output, credit,
                   buyer, exchange, member, route>>

\* TransferFailed: everything since the start of the call is undone.
TransferFails ==
    /\ withdrawing
    /\ accepted' = calling.before.accepted
    /\ successful' = calling.before.successful
    /\ output' = calling.before.output
    /\ credit' = calling.before.credit
    /\ exchange' = calling.before.exchange
    /\ member' = calling.before.member
    /\ route' = calling.before.route
    /\ calling' = Idle
    /\ UNCHANGED <<opened, resourceId, expected, buyer>>

\* Between WithdrawCredit and its return the calls are those of the member's
\* callback; when nothing is being withdrawn they are transactions of their own.
ToyNext ==
    \/ \E sender \in Members \cup {Buyer} :
          \/ \E value \in Values, resource \in Resources, shares \in [Members -> Shares] :
                Open(sender, value, resource, shares)
          \/ \E share \in Shares : SubmitShare(sender, share)
          \/ WithdrawCredit(sender)
    \/ TransferReturns
    \/ TransferFails

ToySpec == ToyInit /\ [][ToyNext]_toyVars

-----------------------------------------------------------------------------
\* Property: the contract behaves as the certified world: a call that re-enters
\* during a payment changes nothing, a failed payment leaves no trace, and a
\* share replayed after a withdrawal never restores a credit.
ImplementsWorld == World!Spec

\* Property: what the script certifies of the world (gates B1 to B5 and
\* conservation) holds of the contract itself, at every call.
BuyerPaysFloor == World!CertificateHolds

-----------------------------------------------------------------------------
(* The delivery extension of the same order, which has a state of its own.  *)

VARIABLES process, trace

Delivery == INSTANCE ProcessDelivery

\* Property: finality and delivery only make the success of the certified world later:
\* with the last share counted at its delivery, the extension is that world too.
DeliveryExtendsWorld == Delivery!DeliveryExtendsWorld
=============================================================================
