----------------------- MODULE SequentialAcquisition -----------------------
(***************************************************************************)
(* The sequential private-offer benchmark: an acquirer buys members of a   *)
(* weighted committee one after the other.  What a member asks for is its  *)
(* resistance; it can be bought only if its acquisition cap, which grows   *)
(* with the exposure reached so far, allows that much.  Once the exposure  *)
(* reaches the threshold the acquirer has succeeded and stops.             *)
(*                                                                         *)
(* Weights and amounts are fractions in the code; here they are multiples  *)
(* of a common unit, Whole of which make up a total weight of one.         *)
(***************************************************************************)
EXTENDS Amounts, Sequences

CONSTANTS
  Members,
  Whole,             \* a weight of one
  Threshold,
  InitialExposure,   \* of the members that are corrupted from the start
  Weightings,        \* the weights the members may have
  Resistances,       \* what a member may ask for
  Caps               \* the schedules a member's cap may follow

\* StepCap.__post_init__: a schedule starts at exposure zero; exposures
\* increase strictly and values weakly.
StepCap(c) ==
  /\ c # << >>
  /\ c[1].from = 0
  /\ \A j, k \in DOMAIN c : j < k => c[j].from < c[k].from /\ c[j].value <= c[k].value

\* SequentialInstance.__post_init__
ASSUME InstanceAssumption ==
  /\ IsFiniteSet(Members)
  /\ Weightings \subseteq [Members -> Nat \ {0}]
  /\ \A w \in Weightings : Total(w) = Whole
  /\ Resistances \subseteq Nat
  /\ Caps \subseteq Seq([from : Nat, value : Nat])
  /\ \A c \in Caps : StepCap(c)
  /\ InitialExposure \in Nat
  /\ Threshold \in Nat
  /\ InitialExposure < Threshold
  /\ Threshold <= Whole

VARIABLES
  weight, resistance, cap,   \* the instance, which never changes
  bought,                    \* the members acquired so far
  spent                      \* what they cost

instance    == <<weight, resistance, cap>>
acquisition == <<bought, spent>>

Exposure(S) == InitialExposure + TotalOn(weight, S)

Cost(S) == TotalOn(resistance, S)

\* The value of the last breakpoint that is not beyond the exposure.
At(c, exposure) ==
  LET passed == {k \in DOMAIN c : c[k].from <= exposure}
  IN  c[CHOOSE k \in passed : \A j \in passed : j <= k].value

Accepts(m, exposure) == resistance[m] <= At(cap[m], exposure)

InitAcquisition ==
  /\ weight \in Weightings
  /\ resistance \in [Members -> Resistances]
  /\ cap \in [Members -> Caps]
  /\ bought = {}
  /\ spent = 0

Buy(m) ==
  /\ m \notin bought
  /\ Exposure(bought) < Threshold
  /\ Accepts(m, Exposure(bought))
  /\ bought' = bought \cup {m}
  /\ spent' = spent + resistance[m]
  /\ UNCHANGED instance

-----------------------------------------------------------------------------
(* The scalar form of a cap: the exposure from which a member can be bought. *)

Never == InitialExposure + Whole + 1

\* The tau of verification_scripts/core.py.
ActivatedAt(m) ==
  CHOOSE e \in 0 .. Never :
    /\ e = Never \/ Accepts(m, e)
    /\ \A d \in 0 .. e - 1 : ~Accepts(m, d)
=============================================================================
