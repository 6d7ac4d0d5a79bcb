--------------------------- MODULE BondLifecycle ---------------------------
(***************************************************************************)
(* What the bond mechanism promises, without jobs, evidence or accounts.   *)
(*                                                                         *)
(* A bond that was posted stays live until exactly one of two things       *)
(* happens to it: it is slashed, which only happens while some release     *)
(* window is open and adds the whole bond to the penalties, or it is       *)
(* refunded, together with every other live bond, when no window is open.  *)
(* After the refund no window opens again.                                 *)
(***************************************************************************)
EXTENDS Amounts

CONSTANTS
  Members,     \* the positions of the committee
  BondValues   \* the amounts a bond may have

VARIABLES
  fate,        \* what has happened to each member's bond
  deposit,     \* what each member's bond was worth when it was posted
  windowOpen,  \* is some release window open?
  penalties,   \* everything ever taken from slashed members
  refunds      \* everything ever returned

ledger == <<fate, deposit, windowOpen, penalties, refunds>>

Live == {m \in Members : fate[m] = "live"}

Init ==
  /\ fate = [m \in Members |-> "unposted"]
  /\ deposit = [m \in Members |-> 0]
  /\ windowOpen = FALSE
  /\ penalties = 0
  /\ refunds = 0

Post(m, value) ==
  /\ fate[m] = "unposted"
  /\ fate' = [fate EXCEPT ![m] = "live"]
  /\ deposit' = [deposit EXCEPT ![m] = value]
  /\ UNCHANGED <<windowOpen, penalties, refunds>>

\* Windows concern complete committees, and none opens once bonds went back.
OpenWindow ==
  /\ \A m \in Members : fate[m] \in {"live", "slashed"}
  /\ windowOpen' = TRUE
  /\ UNCHANGED <<fate, deposit, penalties, refunds>>

CloseWindows ==
  /\ windowOpen' = FALSE
  /\ UNCHANGED <<fate, deposit, penalties, refunds>>

Slash(S) ==
  /\ windowOpen
  /\ fate' = [m \in Members |-> IF m \in S THEN "slashed" ELSE fate[m]]
  /\ penalties' = penalties + TotalOn(deposit, S)
  /\ UNCHANGED <<deposit, windowOpen, refunds>>

Refund ==
  /\ ~windowOpen
  /\ Live # {}
  /\ fate' = [m \in Members |-> IF m \in Live THEN "refunded" ELSE fate[m]]
  /\ refunds' = refunds + TotalOn(deposit, Live)
  /\ UNCHANGED <<deposit, windowOpen, penalties>>

Next ==
  \/ \E m \in Members, value \in BondValues : Post(m, value)
  \/ OpenWindow
  \/ CloseWindows
  \/ \E S \in (SUBSET Live) \ {{}} : Slash(S)
  \/ Refund

Spec == Init /\ [][Next]_ledger
=============================================================================
