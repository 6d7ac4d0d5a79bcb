-------------------- MODULE MCPrefundedThresholdExchange --------------------
(***************************************************************************)
(* Four accounts, each a possible buyer and member; two orders of up to    *)
(* three members.  The registry admits every set the buyer is not in.      *)
(***************************************************************************)
EXTENDS PrefundedThresholdExchange, TLC

MCThresholdSets ==
  {s \in [buyer : Accounts, members : SUBSET Accounts] : s.buyer \notin s.members}

Symmetry == Permutations(Accounts)
=============================================================================
