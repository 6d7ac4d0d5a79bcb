---------------------------- MODULE MCSmallContracts ----------------------------
(***************************************************************************)
(* Three parts that share no state and have few states of their own: the   *)
(* toy contract, the delivery extension of its world, and the keyper       *)
(* slasher with its scripts.  A step is a step of one of them.  The first  *)
(* two run side by side; the slasher runs while both are in their initial  *)
(* state and they run while it is in its own, which loses nothing, as      *)
(* every property is about one of the three.                               *)
(***************************************************************************)
EXTENDS NamedAcquirerToy, SlashingRecord

\* The rebate of the fixture is one unit of the four paid, its operators are four
\* of seven and its payment is in block 3.
Audit == INSTANCE ProcessRouteAudit
         WITH Debit <- 4, Rebate <- 1, Operators <- {1, 2, 5, 6}, PaymentBlock <- 3

MCMembers == {"member_a", "member_b"}
MCAmount == [m \in MCMembers |-> IF m = "member_a" THEN 2 ELSE 3]

\* Two of three keypers open a release.  The evidence may hold every share, one
\* share, or every share with two addresses exchanged; one submitter is a keyper.
MCKeypers == 0 .. 2
MCKeyperSet == [m \in MCKeypers |-> <<"k0", "k1", "k2">>[m + 1]]
MCEvidenceFiles ==
    {[keypers |-> MCKeyperSet, valid |-> MCKeypers],
     [keypers |-> MCKeyperSet, valid |-> {0}],
     [keypers |-> [MCKeyperSet EXCEPT ![1] = "k2", ![2] = "k1"], valid |-> MCKeypers]}
MCWallet == [s \in Submitters |-> IF s = "s1" THEN "wallet" ELSE "k0"]

MCInit == ToyInit /\ Delivery!Init /\ RecordInit

others == <<toyVars, process, trace>>

\* The initial state of the slasher beside which the other two run.
SlasherIdle == reward = 0 /\ evidence.valid = {0} /\ signer = <<>> /\ now = 0

MCNext ==
    \/ /\ SlasherIdle /\ UNCHANGED recordVars
       /\ \/ ToyNext /\ UNCHANGED <<process, trace>>
          \/ Delivery!Next /\ UNCHANGED toyVars
    \/ ToyInit /\ Delivery!Init /\ RecordNext /\ UNCHANGED others

MCSpec == MCInit /\ [][MCNext]_<<others, recordVars>>

\* Property: both audits accept the records of real runs and reject every record
\* that hides a return, a missing delivery or a delivery before finality
\* (validate_first_success and validate_route).
RecordsAreTrue == SlasherIdle => Delivery!TracesAreTrue /\ Audit!RoutesAreTrue
=============================================================================
