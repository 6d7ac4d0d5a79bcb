----------------------- MODULE MinimumSequentialCost -----------------------
(***************************************************************************)
(* The certificate of a committee: exact_minimum_sequential_solution goes  *)
(* through all subsets of members in the order of their bit masks, finds   *)
(* those that a sequence of acquisitions leads to, and keeps the cheapest  *)
(* one that reaches the threshold, from which it recovers the sequence.    *)
(* Then the committee is attacked, in any way that SequentialAcquisition   *)
(* allows, and the certificate has to hold.                                *)
(***************************************************************************)
EXTENDS SequentialAcquisition

CONSTANT Masks   \* the subsets of Members in the order of their masks

\* All that matters of the order: a set comes after those it contains.
ASSUME MaskAssumption ==
  /\ Masks \in Seq(SUBSET Members)
  /\ \A S \in SUBSET Members : \E k \in DOMAIN Masks : Masks[k] = S
  /\ \A j, k \in DOMAIN Masks : Masks[j] \subseteq Masks[k] => j <= k

VARIABLES
  phase,         \* "scan", "trace" or "done"
  position,      \* of the mask that is looked at
  reachable,
  predecessor,   \* the set from which each reachable set was first reached
  best,          \* best_mask; the empty set, which never succeeds, is None
  cursor,
  witness

table == <<reachable, predecessor>>
trace == <<cursor, witness>>

vars == <<instance, acquisition, phase, position, table, best, trace>>

-----------------------------------------------------------------------------
(* Faulty variants of the definitions below, for mutation tests.           *)

BeyondThreshold(S) == Exposure(S) > Threshold

\* The member's own weight already counts towards its cap.
WithinNextCap(m, S) == Accepts(m, Exposure(S \cup {m}))

LaterIsBetter(S) == best = {} \/ Cost(S) >= Cost(best)

\* One unit below the threshold is taken for the threshold.
NearlyReaches(S) == Exposure(S) + 1 >= Threshold

-----------------------------------------------------------------------------
Init ==
  /\ InitAcquisition
  /\ phase = "scan"
  /\ position = 1
  /\ reachable = {{}}
  /\ predecessor = << >>
  /\ best = {}
  /\ cursor = {}
  /\ witness = << >>

Mask == Masks[position]

Scanning == phase = "scan" /\ position <= Len(Masks)

Reaches(S) == Exposure(S) >= Threshold

WithinCap(m, S) == Accepts(m, Exposure(S))

Successors(S) == {S \cup {m} : m \in {n \in Members \ S : WithinCap(n, S)}}

Better(S) == best = {} \/ Cost(S) < Cost(best)

Advance == position' = position + 1

\* No sequence of acquisitions leads to the mask.
Skip ==
  /\ Scanning
  /\ Mask \notin reachable
  /\ Advance
  /\ UNCHANGED <<instance, acquisition, phase, table, best, trace>>

\* The mask is a successful attack, and is not extended.
Succeed ==
  /\ Scanning
  /\ Mask \in reachable
  /\ Reaches(Mask)
  /\ best' = IF Better(Mask) THEN Mask ELSE best
  /\ Advance
  /\ UNCHANGED <<instance, acquisition, phase, table, trace>>

\* Every member within its cap is added to the mask; the first mask from
\* which a set is reached is remembered.
Extend ==
  /\ Scanning
  /\ Mask \in reachable
  /\ ~Reaches(Mask)
  /\ reachable' = reachable \cup Successors(Mask)
  /\ predecessor' =
       [S \in DOMAIN predecessor \cup Successors(Mask) |->
          IF S \in DOMAIN predecessor THEN predecessor[S] ELSE Mask]
  /\ Advance
  /\ UNCHANGED <<instance, acquisition, phase, best, trace>>

Scanned == phase = "scan" /\ position > Len(Masks)

NoAttackExists ==
  /\ Scanned
  /\ best = {}
  /\ phase' = "done"
  /\ UNCHANGED <<instance, acquisition, position, table, best, trace>>

StartTrace ==
  /\ Scanned
  /\ best # {}
  /\ cursor' = best
  /\ phase' = "trace"
  /\ UNCHANGED <<instance, acquisition, position, table, best, witness>>

\* The witness is collected from its end.
TraceBack ==
  /\ phase = "trace"
  /\ cursor # {}
  /\ \E m \in cursor \ predecessor[cursor] : witness' = <<m>> \o witness
  /\ cursor' = predecessor[cursor]
  /\ UNCHANGED <<instance, acquisition, phase, position, table, best>>

EndTrace ==
  /\ phase = "trace"
  /\ cursor = {}
  /\ phase' = "done"
  /\ UNCHANGED <<instance, acquisition, position, table, best, trace>>

Solve ==
  \/ Skip \/ Succeed \/ Extend
  \/ NoAttackExists \/ StartTrace \/ TraceBack \/ EndTrace

\* A step of an attack on the certified committee.
Attack(m) ==
  /\ phase = "done"
  /\ Buy(m)
  /\ UNCHANGED <<phase, position, table, best, trace>>

Next == Solve \/ \E m \in Members : Attack(m)

Spec == Init /\ [][Next]_vars

-----------------------------------------------------------------------------
(* Properties.                                                             *)

\* The types; every reachable set but the empty one has a predecessor, a
\* reachable set that lacks one member and does not reach the threshold, and
\* the best set is a reachable one that does.
TypeOK ==
  /\ weight \in Weightings
  /\ resistance \in [Members -> Resistances]
  /\ cap \in [Members -> Caps]
  /\ bought \in SUBSET Members
  /\ spent \in Nat
  /\ phase \in {"scan", "trace", "done"}
  /\ position \in 1 .. Len(Masks) + 1
  /\ reachable \in SUBSET SUBSET Members
  /\ DOMAIN predecessor = reachable \ {{}}
  /\ \A S \in DOMAIN predecessor :
       /\ predecessor[S] \in reachable
       /\ Exposure(predecessor[S]) < Threshold
       /\ \E m \in Members \ predecessor[S] : S = predecessor[S] \cup {m}
  /\ best \in reachable
  /\ best # {} => Exposure(best) >= Threshold
  /\ cursor \in reachable
  /\ witness \in Seq(Members)

\* The certificate holds: whatever the acquirer buys and in whatever order,
\* once it reaches the threshold it has spent at least the certified cost.
\* If there is no certificate it never reaches the threshold.
NoCheaperAttack ==
  phase = "done" /\ Exposure(bought) >= Threshold =>
    best # {} /\ spent >= Cost(best)

\* The witness is an attack: each of its members can be bought when its turn
\* comes, the threshold is crossed by the last one and not before, and
\* together they are the best set.
WitnessIsAttack ==
  LET Before(r) == {witness[i] : i \in 1 .. r - 1}
  IN  phase = "done" /\ best # {} =>
        /\ best = Before(Len(witness) + 1)
        /\ Cardinality(best) = Len(witness)
        /\ Exposure(best) >= Threshold
        /\ \A r \in DOMAIN witness :
             /\ Exposure(Before(r)) < Threshold
             /\ Accepts(witness[r], Exposure(Before(r)))

-----------------------------------------------------------------------------
(* The invariant that the proofs of module MinimumSequentialCostProofs     *)
(* carry from one step to the next.                                        *)

\* A set was reached by adding a member that was within its cap.
StepsAreOffers ==
  \A S \in DOMAIN predecessor :
    \A m \in S \ predecessor[S] : Accepts(m, Exposure(predecessor[S]))

\* Whatever can follow a set that was looked at is in the table, and best is
\* as cheap as any successful set that was looked at.
VisitedSetsAreDone ==
  \A k \in 1 .. position - 1 : Masks[k] \in reachable =>
    IF Exposure(Masks[k]) < Threshold THEN Successors(Masks[k]) \subseteq reachable
    ELSE best # {} /\ Cost(best) <= Cost(Masks[k])

AllVisited == phase # "scan" => position = Len(Masks) + 1

\* The attack stays within the table.
AttackIsInTable == bought \in reachable /\ spent = Cost(bought)

\* The members of best are those of the cursor and those of the witness, and
\* the witness can be bought after the cursor.
WitnessFollowsCursor ==
  LET Before(r) == cursor \cup {witness[i] : i \in 1 .. r - 1}
  IN  phase # "scan" /\ best # {} =>
        /\ best = Before(Len(witness) + 1)
        /\ Cardinality(best) = Cardinality(cursor) + Len(witness)
        /\ \A r \in DOMAIN witness :
             /\ Exposure(Before(r)) < Threshold
             /\ Accepts(witness[r], Exposure(Before(r)))
        /\ phase = "done" => cursor = {}

CInv ==
  /\ TypeOK
  /\ StepsAreOffers
  /\ VisitedSetsAreDone
  /\ AllVisited
  /\ AttackIsInTable
  /\ phase = "scan" => witness = << >>
  /\ WitnessFollowsCursor
=============================================================================
