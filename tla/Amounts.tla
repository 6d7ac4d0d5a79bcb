------------------------------ MODULE Amounts ------------------------------
(***************************************************************************)
(* Sums of amounts of wei held under different keys.                       *)
(*                                                                         *)
(* An amount is a natural number of indivisible units, so the units held   *)
(* under the keys of f form the disjoint union of the sets 1..f[x], and    *)
(* the total is the size of that union.  Stating it as a cardinality and   *)
(* not as a recursion lets the theorems of module AmountsProofs follow     *)
(* from the library's facts on finite sets.                                *)
(***************************************************************************)
EXTENDS Integers, FiniteSets, Functions

UnitsAt(f, x) == {x} \X (1 .. f[x])

Units(f) == UNION {UnitsAt(f, x) : x \in DOMAIN f}

\* The sum of f over all its keys, and over a set of them.
Total(f) == Cardinality(Units(f))

TotalOn(f, S) == Total(Restrict(f, S))
=============================================================================
