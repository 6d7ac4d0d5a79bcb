---------------------------- MODULE ReplacementHull ----------------------------
(***************************************************************************)
(* What can be detected when a member's contribution is replaced: the      *)
(* advantage over all replacement distributions, at a price for their      *)
(* total weight (core_formula_checks/replacement_hull.py).                 *)
(*                                                                         *)
(* There are two replacements, each a distribution on a few outcomes given *)
(* as counts out of D, and a price e / E.  The code minimises by going     *)
(* through the vertices of a linear program in fractions; here those are   *)
(* the crossings of the lines on which an outcome is just matched or a     *)
(* weight is zero, and a fraction is a numerator and a positive denominator.*)
(***************************************************************************)
EXTENDS Integers, Sequences, FiniteSetsExt

Positive(x) == IF x > 0 THEN x ELSE 0
Less(x, y) == x[1] * y[2] < y[1] * x[2]
Equal(x, y) == x[1] * y[2] = y[1] * x[2]

Distributions(n, D) == {q \in [1 .. n -> 0 .. D] : MapThenSumSet(LAMBDA v : q[v], 1 .. n) = D}

\* Where the lines p and r, each a1 * x + a2 * y = b, cross.
Crossing(p, r) ==
  LET det == p[1] * r[2] - p[2] * r[1]
      x   == p[3] * r[2] - p[2] * r[3]
      y   == p[1] * r[3] - p[3] * r[1]
  IN  CASE det = 0 -> {}
        [] det > 0 -> {[x |-> x, y |-> y, det |-> det]}
        [] OTHER   -> {[x |-> -x, y |-> -y, det |-> -det]}

\* The pairs of weights at which formula 1 can be smallest.
Weights(qc, Q1, Q2) ==
  LET lines == {<<Q1[v], Q2[v], qc[v]>> : v \in DOMAIN qc} \cup {<<1, 0, 0>>, <<0, 1, 0>>}
  IN  {w \in UNION {Crossing(p, r) : p \in lines, r \in lines} : w.x >= 0 /\ w.y >= 0}

Uncovered(qc, Q1, Q2, w) ==
  MapThenSumSet(LAMBDA v : Positive(qc[v] * w.det - w.x * Q1[v] - w.y * Q2[v]), DOMAIN qc)

\* The price of the weights and what they leave uncovered, out of D.
Formula1At(qc, Q1, Q2, e, E, D, w) ==
  <<e * D * (w.x + w.y) + E * Uncovered(qc, Q1, Q2, w), E * D * w.det>>

\* The best pairs of weights, of which the code keeps the first it meets.
formula1_solution(qc, Q1, Q2, e, E, D) ==
  {w \in Weights(qc, Q1, Q2) :
     \A u \in Weights(qc, Q1, Q2) :
       ~Less(Formula1At(qc, Q1, Q2, e, E, D, u), Formula1At(qc, Q1, Q2, e, E, D, w))}

formula1_value(qc, Q1, Q2, e, E, D) ==
  Formula1At(qc, Q1, Q2, e, E, D, CHOOSE w \in formula1_solution(qc, Q1, Q2, e, E, D) : TRUE)

\* The mixtures of the two replacements at which formula 2 can be smallest for a
\* total weight of s: the ends, and where an outcome is just matched.
Mixtures(qc, Q1, Q2, s) ==
  {<<0, 1>>, <<1, 1>>} \cup
  {m \in {LET num == qc[v] * s[2] - s[1] * Q2[v]
              den == s[1] * (Q1[v] - Q2[v])
          IN  IF den < 0 THEN <<-num, -den>> ELSE <<num, den>> : v \in DOMAIN qc} :
     m[2] > 0 /\ m[1] >= 0 /\ m[1] <= m[2]}

Formula2At(qc, Q1, Q2, s, D, m) ==
  <<MapThenSumSet(LAMBDA v : Positive(qc[v] * s[2] * m[2]
                                - s[1] * (m[1] * Q1[v] + (m[2] - m[1]) * Q2[v])), DOMAIN qc),
    D * s[2] * m[2]>>

formula2_inner(qc, Q1, Q2, s, D) ==
  LET Value(m) == Formula2At(qc, Q1, Q2, s, D, m)
      least == CHOOSE m \in Mixtures(qc, Q1, Q2, s) :
                 \A k \in Mixtures(qc, Q1, Q2, s) : ~Less(Value(k), Value(m))
  IN  Value(least)

\* A mixture that matches every outcome.
in_convex_hull(qc, Q1, Q2) ==
  \E m \in Mixtures(qc, Q1, Q2, <<1, 1>>) :
    \A v \in DOMAIN qc : qc[v] * m[2] = m[1] * Q1[v] + (m[2] - m[1]) * Q2[v]

\* _formula_equivalence_one: formula 2, solved at a total weight that is best for
\* formula 1.
FormulasAgree(qc, Q1, Q2, e, E, D) ==
  \A w \in formula1_solution(qc, Q1, Q2, e, E, D) :
    LET s     == <<w.x + w.y, w.det>>
        inner == formula2_inner(qc, Q1, Q2, s, D)
    IN  Equal(formula1_value(qc, Q1, Q2, e, E, D),
              IF s[1] = 0 THEN <<1, 1>>
              ELSE <<s[1] * e * inner[2] + inner[1] * s[2] * E, s[2] * E * inner[2]>>)

Expectation(test, q) == MapThenSumSet(LAMBDA v : test[v] * q[v], DOMAIN q)

Separates(test, qc, Q1, Q2) ==
  Expectation(test, qc) > Max({Expectation(test, Q1), Expectation(test, Q2)})

\* test_separation_corollary, for every contribution and not only the chosen ones:
\* outside the hull some test separates, inside it none does, and then a price of
\* e / E is all that can be gained.
HullIsCharacterized(qc, Q1, Q2, D) ==
  /\ in_convex_hull(qc, Q1, Q2)
       <=> \A test \in [DOMAIN qc -> 0 .. D] : ~Separates(test, qc, Q1, Q2)
  /\ in_convex_hull(qc, Q1, Q2) =>
       \A e \in 0 .. 2 : ~Less(<<e, 2>>, formula1_value(qc, Q1, Q2, e, 2, D))
=============================================================================
