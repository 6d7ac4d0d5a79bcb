--------------------------- MODULE SchemaCertificate ---------------------------
(***************************************************************************)
(* The completeness certificate of the residual-price contract: the roots  *)
(* (admissible credit vectors), the terminal sets and the payment of every *)
(* pair, as the independent checkers enumerate them                        *)
(* (verify_schema_independent.py, verify_completeness_certificates_v1.py), *)
(* and the relation of acquisition paths to payments with its two premises *)
(* (refinement_quantifier_boundaries.py).                                  *)
(***************************************************************************)
EXTENDS OverlappingPoolEscrow, FiniteSetsExt, SequencesExt

SumOf(f, S) == MapThenSumSet(LAMBDA m : f[m], S)

\* admissible_credits, credit_roots
CreditRoots ==
  {y \in [Members -> 0 .. 2] : SumOf(y, FirstPool) <= 2 /\ SumOf(y, SecondPool) <= 2}

\* terminal_sets
TerminalSets == kSubset(4, Members)

\* The payment of a set under a credit vector y and gross prices q.
Quote(q, y, S) == SumOf(q, S) - SumOf(y, S)

-----------------------------------------------------------------------------
(* Paths of an abstract graph.  An edge <<source, block, target>> acquires *)
(* the members of block on top of those of source.                         *)

Edge(source, block) == <<source, block, source \cup block>>

\* terminal_paths: the blocks of every path from the root that stops at the
\* first terminal set it meets.
TerminalPaths(root, terminals, edges) ==
  LET states == {root} \cup {e[3] : e \in edges}
      Visit[s \in states] ==
        IF s \in terminals THEN {<<>>}
        ELSE UNION {{<<e[2]>> \o p : p \in Visit[e[3]]} : e \in {x \in edges : x[1] = s}}
  IN  Visit[root]

Reached(root, path) == root \cup UNION ToSet(path)

\* The cost of a path is the sum of the payments of its blocks.
PathCost(q, y, path) == FoldLeft(LAMBDA n, block : n + Quote(q, y, block), 0, path)

TraceRelation(root, paths, offsets, q) ==
  {<<Reached(root, p), y, PathCost(q, y, p)>> : p \in paths, y \in offsets}

ExpectedRelation(terminals, offsets, q) ==
  {<<S, y, Quote(q, y, S)>> : S \in terminals, y \in offsets}

\* The premises CR2 and CR5 of a system that is its own abstraction (the other
\* three compare the system with itself).
IdentityRefinementHolds(root, terminals, edges, q, offsets) ==
  LET paths == TerminalPaths(root, terminals, edges)
      reachable == UNION {{Reached(root, SubSeq(p, 1, n)) : n \in 0 .. Len(p)} : p \in paths}
  IN  /\ \A p \in paths : Reached(root, p) \in terminals
      /\ \A e \in edges : e[1] \in reachable /\ e[3] = e[1] \cup e[2]
      /\ \A e \in edges, y \in offsets : Quote(q, y, e[2]) >= 0

-----------------------------------------------------------------------------
(* The instances of the regression; amounts are doubled, for a credit of    *)
(* one half.                                                                *)

Universe == 0 .. 3
Pairs == kSubset(2, Universe)
PairEdges ==
  {Edge({}, S) : S \in Pairs}
  \cup {Edge({}, {i}) : i \in Universe}
  \cup UNION {{Edge({i}, {j}) : j \in Universe \ {i}} : i \in Universe}
GrossPrice == [i \in Universe |-> 4]
Offsets == {[i \in Universe |-> 0],
            [i \in Universe |-> CASE i = 0 -> 2 [] i = 2 -> 1 [] OTHER -> 0]}

\* Each pair is reached at once or in two orders, at the same cost.
PartitionsCostTheSame ==
  LET paths == TerminalPaths({}, Pairs, PairEdges) IN
  /\ {Reached({}, p) : p \in paths} = Pairs
  /\ \A S \in Pairs : Cardinality({p \in paths : Reached({}, p) = S}) = 3
  /\ IdentityRefinementHolds({}, Pairs, PairEdges, GrossPrice, Offsets)
  /\ TraceRelation({}, paths, Offsets, GrossPrice)
       = ExpectedRelation(Pairs, Offsets, GrossPrice)

\* A terminal family that omits a declared set, and a mechanism that omits an
\* outcome, pass the refinement premises and still miss part of the relation.
PremisesAreNeeded ==
  LET q == [i \in {0, 1} |-> 2]
      zero == {[i \in {0, 1} |-> 0]}
      declared == {{0}, {1}}
      traces(terminals) ==
        TraceRelation({}, TerminalPaths({}, terminals, {Edge({}, S) : S \in terminals}), zero, q)
  IN  /\ \A terminals \in {{{0}}, declared} :
           IdentityRefinementHolds({}, terminals, {Edge({}, S) : S \in terminals}, q, zero)
      /\ traces({{0}}) # ExpectedRelation(declared, zero, q)
      /\ traces(declared) = ExpectedRelation(declared, zero, q)
      /\ traces(declared) # {<<{0}, y, 2>> : y \in zero}

-----------------------------------------------------------------------------
(* The records of the certificate: one for every root and terminal set.    *)

UnitPrice == [m \in Members |-> 2]
DirectEdges == {Edge({}, S) : S \in TerminalSets}
Records ==
  TraceRelation({}, TerminalPaths({}, TerminalSets, DirectEdges), CreditRoots, UnitPrice)

CountsAreRight ==
  /\ Cardinality(CreditRoots) = 117
  /\ Cardinality(TerminalSets) = 35
  /\ Cardinality(Records) = 4095
  /\ Records = ExpectedRelation(TerminalSets, CreditRoots, UnitPrice)
  /\ LET costs == {r[3] : r \in Records} IN Min(costs) = 4 /\ Max(costs) = 8
  /\ \A m \in Members : Min({2 - y[m] : y \in CreditRoots}) = 0

\* Property: the certificate has a record for every sale of the contract and no
\* other: what _validateCredits admits are the roots, a completed sale is a
\* record, and every record of the configured credits is a sale still on offer.
CertificateIsComplete ==
  /\ CountsAreRight /\ PartitionsCostTheSame /\ PremisesAreNeeded
  /\ ~configured => {y \in [Members -> 0 .. Floor + 1] : ValidCredits(y)} = CreditRoots
  /\ completed => <<terminal, credits, totalAcquisitionCallValue>> \in Records
  /\ configured /\ ~completed =>
       \A S \in TerminalSets : /\ <<S, credits, quoteFour(S)>> \in Records
                               /\ \A m \in S : shareOwner[m] = m
=============================================================================
