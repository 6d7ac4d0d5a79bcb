----------------------- MODULE MCMinimumSequentialCost -----------------------
(***************************************************************************)
(* Four members in two weightings; members that ask for 1 or 2 and whose   *)
(* caps never grow, grow to 2 at an exposure of two, or grow by steps: so  *)
(* that a member is for sale always, never, or from an exposure of one,    *)
(* two or three on.                                                        *)
(***************************************************************************)
EXTENDS CertificateExperiments, TLC

MCMembers == 1 .. 4

MCWeightings == {<<1, 1, 2, 2>>, <<3, 1, 1, 1>>}

Step(from, value) == [from |-> from, value |-> value]

MCCaps ==
  {<<Step(0, 1)>>,
   <<Step(0, 0), Step(2, 2)>>,
   <<Step(0, 0), Step(1, 1), Step(3, 2)>>}

\* Member m stands for the bit of value 2^(m - 1).
MCMasks ==
  [k \in 1 .. 2 ^ 4 |-> {m \in MCMembers : ((k - 1) \div 2 ^ (m - 1)) % 2 = 1}]

Knows(backed, certified, family, repeats) ==
  [backed |-> backed, certified |-> certified, family |-> family, repeats |-> repeats]

Chain == {{1, 2}, {2, 3}, {3, 4}}

\* One that leaves nothing open, and one where two members whose gates are
\* certified have no floor, and one whose floor is known has no gate.
MCLedgers ==
  {Knows(MCMembers, MCMembers, Chain, 2),
   Knows({3, 4}, {1, 2, 3}, {{1, 4}, {2, 4}}, 2)}

MCIncrements == <<1, 2, 1, 3>>

\* Too short for three members at once in the first weighting.
MCDurations == <<3, 2>>
=============================================================================
