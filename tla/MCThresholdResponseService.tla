--------------------- MODULE MCThresholdResponseService ---------------------
(***************************************************************************)
(* A committee of three with threshold two.  Orders of up to three         *)
(* responses, repetitions among them; a call below the threshold and one   *)
(* whose order is not that of its responders.                              *)
(***************************************************************************)
EXTENDS ThresholdResponseService

MCPriceVectors == {<<1, 1, 2>>, <<0, 2, 1>>, <<2, 0, 0>>}

MCOrders == {o \in SeqOf(Operators, 3) : Cardinality(ToSet(o)) >= Threshold}

MCCalls ==
  {[responders |-> ToSet(o), order |-> o, source |-> Buyer, ablation |-> a] : o \in MCOrders,
     a \in {"none", "bypass", "early_release", "untimed", "wrong_buyer", "reimbursement"}}
  \cup {[responders |-> ToSet(o), order |-> o, source |-> "sponsor", ablation |-> "none"] : o \in MCOrders}
  \cup {[responders |-> {1}, order |-> <<1>>, source |-> Buyer, ablation |-> "none"],
        [responders |-> {1, 2}, order |-> <<1, 3>>, source |-> Buyer, ablation |-> "none"]}

MCBadShares == {{}, {1}}
=============================================================================
