--------------------------- MODULE AmountsProofs ---------------------------
(***************************************************************************)
(* The laws of Total: the facts about sums that the proofs of the          *)
(* contracts rest on.                                                      *)
(***************************************************************************)
EXTENDS Amounts, FiniteSetTheorems, WellFoundedInduction, TLAPS

\* The units held under one key are as many as its amount.
LEMMA UnitsAtFacts ==
  ASSUME NEW D, NEW f \in [D -> Nat], NEW x \in D
  PROVE  /\ IsFiniteSet(UnitsAt(f, x))
         /\ Cardinality(UnitsAt(f, x)) = f[x]
<1>. DEFINE K == {x}
            I == 1 .. f[x]
<1>1. f[x] \in Nat
  OBVIOUS
<1>2. IsFiniteSet(K) /\ Cardinality(K) = 1
  BY FS_Singleton
<1>3. IsFiniteSet(I) /\ Cardinality(I) = f[x]
  <2>1. 1 \in Int /\ f[x] \in Int /\ (1 > f[x] => f[x] = 0) /\ f[x] - 1 + 1 = f[x]
    BY <1>1
  <2>2. QED
    BY <2>1, FS_Interval
<1>. HIDE DEF K, I
<1>4. IsFiniteSet(K \X I) /\ Cardinality(K \X I) = 1 * f[x]
  BY <1>2, <1>3, FS_Product
<1>5. UnitsAt(f, x) = K \X I
  BY DEF UnitsAt, K, I
<1>6. QED
  BY <1>1, <1>4, <1>5

\* A finite set of keys holds finitely many units.
LEMMA UnitsFinite ==
  ASSUME NEW D, IsFiniteSet(D), NEW f \in [D -> Nat]
  PROVE  IsFiniteSet(Units(f))
<1>. DEFINE g == [x \in D |-> UnitsAt(f, x)]
            T == {UnitsAt(f, x) : x \in D}
<1>1. g \in Surjection(D, T)
  BY DEF Surjection
<1>2. IsFiniteSet(T)
  BY <1>1, FS_Surjection
<1>3. \A t \in T : IsFiniteSet(t)
  BY UnitsAtFacts
<1>4. Units(f) = UNION T
  BY DEF Units
<1>. HIDE DEF T
<1>5. QED
  BY <1>2, <1>3, <1>4, FS_UNION

\* A total over finitely many keys is a natural number.
LEMMA TotalType ==
  ASSUME NEW D, IsFiniteSet(D), NEW f \in [D -> Nat]
  PROVE  Total(f) \in Nat
BY UnitsFinite, FS_CardinalityType DEF Total

\* A unit of f is a pair of a key and a number up to the key's amount.
LEMMA UnitsElements ==
  ASSUME NEW D, NEW f \in [D -> Nat], NEW u
  PROVE  u \in Units(f) <=> \E x \in D : \E i \in 1 .. f[x] : u = <<x, i>>
BY DEF Units, UnitsAt

\* The total over a set of keys is the sum over the two parts of a split.
LEMMA TotalSplit ==
  ASSUME NEW D, IsFiniteSet(D), NEW f \in [D -> Nat], NEW S \in SUBSET D
  PROVE  /\ TotalOn(f, S) \in Nat
         /\ TotalOn(f, D \ S) \in Nat
         /\ Total(f) = TotalOn(f, S) + TotalOn(f, D \ S)
<1>. DEFINE a == Restrict(f, S)
            b == Restrict(f, D \ S)
<1>1. IsFiniteSet(S) /\ IsFiniteSet(D \ S)
  BY FS_Subset
<1>2. a \in [S -> Nat] /\ b \in [D \ S -> Nat]
  BY DEF Restrict
<1>3. IsFiniteSet(Units(a)) /\ IsFiniteSet(Units(b))
  BY <1>1, <1>2, UnitsFinite
<1>4. Units(f) = Units(a) \cup Units(b)
  BY DEF Units, UnitsAt, Restrict
<1>5. Units(a) \cap Units(b) = {}
  BY DEF Units, UnitsAt, Restrict
<1>6. Cardinality(Units(f)) = Cardinality(Units(a)) + Cardinality(Units(b)) - Cardinality({})
  <2>1. Cardinality(Units(a) \cup Units(b))
          = Cardinality(Units(a)) + Cardinality(Units(b)) - Cardinality(Units(a) \cap Units(b))
    <3>. HIDE DEF a, b
    <3>1. QED
      BY <1>3, FS_Union
  <2>2. QED
    BY <1>4, <1>5, <2>1
<1>7. Cardinality(Units(a)) \in Nat /\ Cardinality(Units(b)) \in Nat
  BY <1>3, FS_CardinalityType
<1>8. QED
  BY <1>6, <1>7, FS_EmptySet DEF Total, TotalOn

\* The total over one key is its amount.
LEMMA TotalOne ==
  ASSUME NEW D, NEW f \in [D -> Nat], NEW x \in D
  PROVE  TotalOn(f, {x}) = f[x]
<1>1. Units(Restrict(f, {x})) = UnitsAt(f, x)
  BY DEF Units, UnitsAt, Restrict
<1>2. QED
  BY <1>1, UnitsAtFacts DEF Total, TotalOn

\* Functions that agree on S have the same total over S.
LEMMA TotalOnSame ==
  ASSUME NEW f, NEW g, NEW S, \A x \in S : f[x] = g[x]
  PROVE  TotalOn(f, S) = TotalOn(g, S)
<1>1. Restrict(f, S) = Restrict(g, S)
  BY DEF Restrict
<1>2. QED
  BY <1>1 DEF TotalOn

\* The total over no key at all, or over keys without any amount, is zero.
LEMMA TotalZero ==
  ASSUME NEW D, NEW f \in [D -> Nat], NEW S \in SUBSET D, \A x \in S : f[x] = 0
  PROVE  TotalOn(f, S) = 0
<1>1. Units(Restrict(f, S)) = {}
  BY DEF Units, UnitsAt, Restrict
<1>2. QED
  BY <1>1, FS_EmptySet DEF Total, TotalOn

\* The total over all keys is the total.
LEMMA TotalOnAll ==
  ASSUME NEW D, NEW f \in [D -> Nat]
  PROVE  TotalOn(f, D) = Total(f)
BY DEF TotalOn, Restrict

\* Changing the amount of one key changes the total by the difference.
LEMMA TotalUpdate ==
  ASSUME NEW D, IsFiniteSet(D), NEW f \in [D -> Nat], NEW g \in [D -> Nat],
         NEW x \in D, \A y \in D \ {x} : g[y] = f[y]
  PROVE  Total(g) = Total(f) - f[x] + g[x]
<1>1. g[x] \in Nat /\ f[x] \in Nat
  OBVIOUS
<1>2. TotalOn(f, D \ {x}) = TotalOn(g, D \ {x})
  BY TotalOnSame
<1>3. TotalOn(f, {x}) = f[x] /\ TotalOn(g, {x}) = g[x]
  BY TotalOne
<1>4. Total(f) = f[x] + TotalOn(f, D \ {x}) /\ TotalOn(f, D \ {x}) \in Nat
  BY <1>3, TotalSplit
<1>5. Total(g) = g[x] + TotalOn(g, D \ {x})
  BY <1>3, TotalSplit
<1>6. QED
  BY <1>1, <1>2, <1>4, <1>5

\* Clearing the keys of S takes the total over S away.
LEMMA TotalClear ==
  ASSUME NEW D, IsFiniteSet(D), NEW f \in [D -> Nat], NEW g \in [D -> Nat],
         NEW S \in SUBSET D, \A x \in S : g[x] = 0, \A x \in D \ S : g[x] = f[x]
  PROVE  Total(g) = Total(f) - TotalOn(f, S)
<1>1. TotalOn(g, S) = 0
  BY TotalZero
<1>2. TotalOn(g, D \ S) = TotalOn(f, D \ S)
  BY TotalOnSame
<1>3. Total(g) = TotalOn(g, S) + TotalOn(g, D \ S)
  BY TotalSplit
<1>4. QED
  BY <1>1, <1>2, <1>3, TotalSplit

\* Renaming the keys one to one keeps the total.
LEMMA TotalRenamed ==
  ASSUME NEW C, IsFiniteSet(C), NEW D, NEW f \in [D -> Nat],
         NEW k \in [C -> D], \A i, j \in C : k[i] = k[j] => i = j
  PROVE  Total([i \in C |-> f[k[i]]]) = TotalOn(f, {k[i] : i \in C})
<1>. DEFINE g == [i \in C |-> f[k[i]]]
            S == {k[i] : i \in C}
            r == Restrict(f, S)
            h == [u \in Units(g) |-> <<k[u[1]], u[2]>>]
<1>1. g \in [C -> Nat] /\ r \in [S -> Nat]
  BY DEF Restrict
<1>2. \A u \in Units(g) : u[1] \in C /\ u[2] \in 1 .. f[k[u[1]]] /\ u = <<u[1], u[2]>>
  BY DEF Units, UnitsAt
<1>3. h \in [Units(g) -> Units(r)]
  BY <1>2 DEF Units, UnitsAt, Restrict
<1>4. \A u, v \in Units(g) : h[u] = h[v] => u = v
  BY <1>2
<1>5. ASSUME NEW w \in Units(r)
      PROVE  \E u \in Units(g) : h[u] = w
  <2>1. PICK y \in S : \E n \in 1 .. r[y] : w = <<y, n>>
    <3>. HIDE DEF r, S
    <3>1. QED
      BY <1>1, UnitsElements
  <2>2. PICK n \in 1 .. r[y] : w = <<y, n>>
    BY <2>1
  <2>3. PICK i \in C : y = k[i]
    OBVIOUS
  <2>4. n \in 1 .. g[i]
    BY <2>3 DEF Restrict
  <2>5. <<i, n>> \in Units(g)
    BY <1>1, <2>4, UnitsElements
  <2>6. h[<<i, n>>] = w
    BY <2>2, <2>3, <2>5
  <2>7. QED
    BY <2>5, <2>6
<1>6. IsFiniteSet(Units(g))
  BY <1>1, UnitsFinite
<1>7. h \in Bijection(Units(g), Units(r))
  BY <1>3, <1>4, <1>5 DEF Bijection, Injection, Surjection, IsInjective
<1>8. ExistsBijection(Units(g), Units(r))
  BY <1>7 DEF ExistsBijection
<1>9. Cardinality(Units(r)) = Cardinality(Units(g))
  BY <1>6, <1>8, FS_Bijection
<1>10. QED
  BY <1>9 DEF Total, TotalOn

\* If no key of S holds less than c, the total over S is at least c for each.
LEMMA TotalAtLeast ==
  ASSUME NEW D, IsFiniteSet(D), NEW f \in [D -> Nat], NEW S \in SUBSET D,
         NEW c \in Nat, \A x \in S : f[x] >= c
  PROVE  TotalOn(f, S) >= Cardinality(S) * c
<1>. DEFINE r == Restrict(f, S)
            I == 1 .. c
<1>1. IsFiniteSet(S)
  BY FS_Subset
<1>2. r \in [S -> Nat]
  BY DEF Restrict
<1>3. IsFiniteSet(I) /\ Cardinality(I) = c
  <2>1. 1 \in Int /\ c \in Int /\ (1 > c => c = 0) /\ c - 1 + 1 = c
    OBVIOUS
  <2>2. QED
    BY <2>1, FS_Interval
<1>4. S \X I \subseteq Units(r)
  BY DEF Units, UnitsAt, Restrict
<1>5. Cardinality(S \X I) = Cardinality(S) * Cardinality(I)
  BY <1>1, <1>3, FS_Product
<1>6. IsFiniteSet(Units(r))
  BY <1>1, <1>2, UnitsFinite
<1>7. Cardinality(S \X I) <= Cardinality(Units(r))
  BY <1>4, <1>6, FS_Subset
<1>. HIDE DEF I
<1>8. Cardinality(S \X I) = Cardinality(S) * c
  BY <1>3, <1>5
<1>9. Cardinality(Units(r)) \in Nat /\ Cardinality(S \X I) \in Nat
  <2>1. IsFiniteSet(S \X I)
    BY <1>4, <1>6, FS_Subset
  <2>2. QED
    BY <2>1, <1>6, FS_CardinalityType
<1>10. QED
  BY <1>7, <1>8, <1>9 DEF Total, TotalOn

\* Totals over disjoint sets of keys add up.
LEMMA TotalUnion ==
  ASSUME NEW D, IsFiniteSet(D), NEW f \in [D -> Nat],
         NEW S \in SUBSET D, NEW T \in SUBSET D, S \cap T = {}
  PROVE  TotalOn(f, S \cup T) = TotalOn(f, S) + TotalOn(f, T)
<1>. DEFINE r == Restrict(f, S \cup T)
<1>1. IsFiniteSet(S \cup T)
  BY FS_Subset
<1>2. r \in [S \cup T -> Nat]
  BY DEF Restrict
<1>3. (S \cup T) \ S = T /\ S \subseteq S \cup T
  OBVIOUS
<1>4. TotalOn(r, S) = TotalOn(f, S) /\ TotalOn(r, T) = TotalOn(f, T)
  BY TotalOnSame DEF Restrict
<1>. HIDE DEF r
<1>5. Total(r) = TotalOn(r, S) + TotalOn(r, (S \cup T) \ S)
  BY <1>1, <1>2, TotalSplit
<1>6. QED
  BY <1>3, <1>4, <1>5 DEF TotalOn, r

\* If no key of S holds more than c, the total over S is at most c for each.
LEMMA TotalAtMost ==
  ASSUME NEW D, IsFiniteSet(D), NEW f \in [D -> Nat], NEW S \in SUBSET D,
         NEW c \in Nat, \A x \in S : f[x] <= c
  PROVE  TotalOn(f, S) <= Cardinality(S) * c
<1>. DEFINE r == Restrict(f, S)
            I == 1 .. c
<1>1. IsFiniteSet(S)
  BY FS_Subset
<1>2. IsFiniteSet(I) /\ Cardinality(I) = c
  <2>1. 1 \in Int /\ c \in Int /\ (1 > c => c = 0) /\ c - 1 + 1 = c
    OBVIOUS
  <2>2. QED
    BY <2>1, FS_Interval
<1>3. Units(r) \subseteq S \X I
  BY DEF Units, UnitsAt, Restrict
<1>. HIDE DEF I
<1>4. IsFiniteSet(S \X I) /\ Cardinality(S \X I) = Cardinality(S) * c
  BY <1>1, <1>2, FS_Product
<1>5. Cardinality(Units(r)) <= Cardinality(S \X I)
  BY <1>3, <1>4, FS_Subset
<1>6. QED
  BY <1>4, <1>5 DEF Total, TotalOn

\* Adding two functions key by key adds their totals.
LEMMA TotalSum ==
  ASSUME NEW D, IsFiniteSet(D), NEW f \in [D -> Nat], NEW g \in [D -> Nat]
  PROVE  Total([x \in D |-> f[x] + g[x]]) = Total(f) + Total(g)
<1>. DEFINE h == [x \in D |-> f[x] + g[x]]
            F == Units(f)
            G == Units(g)
            H == Units(h)
            s == [u \in G |-> <<u[1], f[u[1]] + u[2]>>]
<1>1. h \in [D -> Nat] /\ \A x \in D : f[x] \in Nat /\ g[x] \in Nat /\ h[x] = f[x] + g[x]
  OBVIOUS
<1>2. IsFiniteSet(F) /\ IsFiniteSet(G) /\ IsFiniteSet(H)
  <2>. HIDE DEF h
  <2>1. QED
    BY <1>1, UnitsFinite
<1>3. \A u : /\ u \in F <=> \E x \in D : \E i \in 1 .. f[x] : u = <<x, i>>
             /\ u \in G <=> \E x \in D : \E i \in 1 .. g[x] : u = <<x, i>>
             /\ u \in H <=> \E x \in D : \E i \in 1 .. h[x] : u = <<x, i>>
  <2>. HIDE DEF h
  <2>1. QED
    BY <1>1, UnitsElements
<1>4. F \subseteq H
  <2>1. \A x \in D : 1 .. f[x] \subseteq 1 .. h[x]
    BY <1>1
  <2>. HIDE DEF F, H, h
  <2>2. QED
    BY <1>3, <2>1
<1>5. s \in [G -> H \ F]
  <2>1. SUFFICES ASSUME NEW u \in G
                 PROVE  <<u[1], f[u[1]] + u[2]>> \in H \ F
    OBVIOUS
  <2>2. PICK x \in D : \E i \in 1 .. g[x] : u = <<x, i>>
    <3>. HIDE DEF G, F, H, h
    <3>1. QED
      BY <1>3
  <2>3. PICK i \in 1 .. g[x] : u = <<x, i>>
    BY <2>2
  <2>4. u[1] = x /\ u[2] = i
    BY <2>3
  <2>5. f[x] + i \in 1 .. h[x] /\ f[x] + i \notin 1 .. f[x]
    BY <1>1
  <2>6. <<x, f[x] + i>> \in H
    <3>. HIDE DEF h, H
    <3>1. QED
      BY <1>3, <2>5
  <2>7. <<x, f[x] + i>> \notin F
    <3>1. SUFFICES ASSUME <<x, f[x] + i>> \in F
                   PROVE  FALSE
      OBVIOUS
    <3>2. PICK y \in D : \E j \in 1 .. f[y] : <<x, f[x] + i>> = <<y, j>>
      <4>. HIDE DEF F
      <4>1. QED
        BY <1>3, <3>1
    <3>3. f[x] + i \in 1 .. f[x]
      BY <3>2
    <3>4. QED
      BY <2>5, <3>3
  <2>8. QED
    BY <2>4, <2>6, <2>7
<1>6. \A u, v \in G : s[u] = s[v] => u = v
  <2>1. SUFFICES ASSUME NEW u \in G, NEW v \in G, s[u] = s[v]
                 PROVE  u = v
    OBVIOUS
  <2>2. \A w \in G : w = <<w[1], w[2]>> /\ w[1] \in D /\ w[2] \in Nat
    BY <1>1 DEF Units, UnitsAt
  <2>3. u[1] = v[1] /\ f[u[1]] + u[2] = f[v[1]] + v[2]
    BY <2>1
  <2>4. u[2] = v[2]
    <3>1. f[u[1]] \in Nat /\ f[v[1]] = f[u[1]] /\ u[2] \in Nat /\ v[2] \in Nat
      BY <2>2, <2>3
    <3>2. QED
      BY <2>3, <3>1
  <2>5. QED
    BY <2>2, <2>3, <2>4
<1>7. ASSUME NEW w \in H \ F
      PROVE  \E u \in G : s[u] = w
  <2>1. PICK x \in D : \E n \in 1 .. h[x] : w = <<x, n>>
    <3>. HIDE DEF G, F, H, h
    <3>1. QED
      BY <1>3
  <2>2. PICK n \in 1 .. h[x] : w = <<x, n>>
    BY <2>1
  <2>3. n \notin 1 .. f[x]
    <3>. HIDE DEF F, H
    <3>1. QED
      BY <1>3, <2>2
  <2>4. n - f[x] \in 1 .. g[x]
    BY <1>1, <2>3
  <2>5. <<x, n - f[x]>> \in G
    <3>. HIDE DEF G
    <3>1. QED
      BY <1>3, <2>4
  <2>6. s[<<x, n - f[x]>>] = <<x, f[x] + (n - f[x])>>
    BY <2>5
  <2>7. f[x] + (n - f[x]) = n
    BY <1>1
  <2>8. QED
    BY <2>2, <2>5, <2>6, <2>7
<1>8. s \in Bijection(G, H \ F)
  <2>. HIDE DEF G, H, F
  <2>1. QED
    BY <1>5, <1>6, <1>7 DEF Bijection, Injection, Surjection, IsInjective
<1>9. Cardinality(H \ F) = Cardinality(G)
  <2>1. ExistsBijection(G, H \ F)
    BY <1>8 DEF ExistsBijection
  <2>. HIDE DEF G, H, F
  <2>2. QED
    BY <1>2, <2>1, FS_Bijection
<1>10. Cardinality(H \ F) = Cardinality(H) - Cardinality(F)
  <2>. HIDE DEF F, H
  <2>1. Cardinality(H \ F) = Cardinality(H) - Cardinality(H \cap F) /\ H \cap F = F
    BY <1>2, <1>4, FS_Difference
  <2>2. QED
    BY <2>1
<1>11. Cardinality(F) \in Nat /\ Cardinality(G) \in Nat /\ Cardinality(H) \in Nat
  <2>. HIDE DEF F, G, H
  <2>1. QED
    BY <1>2, FS_CardinalityType
<1>12. Cardinality(H) = Cardinality(F) + Cardinality(G)
  <2>. HIDE DEF F, G, H
  <2>1. QED
    BY <1>9, <1>10, <1>11
<1>13. QED
  BY <1>12 DEF Total

\* If every key of S holds c, the total over S is c for each of them.
LEMMA TotalConstant ==
  ASSUME NEW D, IsFiniteSet(D), NEW c \in Nat, NEW f \in [D -> Nat], \A x \in D : f[x] = c
  PROVE  Total(f) = Cardinality(D) * c
<1>1. D \in SUBSET D /\ \A x \in D : f[x] >= c /\ f[x] <= c
  OBVIOUS
<1>2. TotalOn(f, D) >= Cardinality(D) * c
  BY <1>1, TotalAtLeast
<1>3. TotalOn(f, D) <= Cardinality(D) * c
  BY <1>1, TotalAtMost
<1>4. TotalOn(f, D) = Total(f) /\ Total(f) \in Nat
  BY TotalOnAll, TotalType
<1>5. Cardinality(D) * c \in Nat
  BY FS_CardinalityType
<1>6. QED
  BY <1>2, <1>3, <1>4, <1>5

\* The total over S is no more than the totals over two sets that cover it.
LEMMA TotalCover ==
  ASSUME NEW D, IsFiniteSet(D), NEW f \in [D -> Nat],
         NEW S \in SUBSET D, NEW A \in SUBSET D, NEW B \in SUBSET D, S \subseteq A \cup B
  PROVE  TotalOn(f, S) <= TotalOn(f, A) + TotalOn(f, B)
<1>. DEFINE inA == S \cap A
            inB == S \ A
<1>1. /\ inA \in SUBSET D /\ inB \in SUBSET D /\ inA \cap inB = {} /\ inA \cup inB = S
      /\ A \ inA \in SUBSET D /\ inA \cap (A \ inA) = {} /\ inA \cup (A \ inA) = A
      /\ B \ inB \in SUBSET D /\ inB \cap (B \ inB) = {} /\ inB \cup (B \ inB) = B
  OBVIOUS
<1>. HIDE DEF inA, inB
<1>2. TotalOn(f, S) = TotalOn(f, inA) + TotalOn(f, inB)
  BY <1>1, TotalUnion
<1>3. TotalOn(f, A) = TotalOn(f, inA) + TotalOn(f, A \ inA)
  BY <1>1, TotalUnion
<1>4. TotalOn(f, B) = TotalOn(f, inB) + TotalOn(f, B \ inB)
  BY <1>1, TotalUnion
<1>5. /\ TotalOn(f, inA) \in Nat /\ TotalOn(f, A \ inA) \in Nat
      /\ TotalOn(f, inB) \in Nat /\ TotalOn(f, B \ inB) \in Nat
  BY <1>1, TotalSplit
<1>6. QED
  BY <1>2, <1>3, <1>4, <1>5

\* One more key adds its amount to the total.
LEMMA TotalOneMore ==
  ASSUME NEW D, IsFiniteSet(D), NEW x, x \notin D,
         NEW f \in [D -> Nat], NEW g \in [D \cup {x} -> Nat], \A y \in D : g[y] = f[y]
  PROVE  Total(g) = Total(f) + g[x]
<1>. DEFINE E == D \cup {x}
<1>1. IsFiniteSet(E) /\ D \in SUBSET E /\ E \ D = {x} /\ x \in E
  BY FS_AddElement
<1>. HIDE DEF E
<1>2. g \in [E -> Nat]
  BY DEF E
<1>3. Total(g) = TotalOn(g, D) + TotalOn(g, E \ D)
  BY <1>1, <1>2, TotalSplit
<1>4. TotalOn(g, D) = Total(f)
  BY TotalOnSame, TotalOnAll
<1>5. TotalOn(g, {x}) = g[x]
  BY <1>1, <1>2, TotalOne
<1>6. QED
  BY <1>1, <1>3, <1>4, <1>5

\* No key holds more than the total.
LEMMA KeyAtMostTotal ==
  ASSUME NEW D, IsFiniteSet(D), NEW f \in [D -> Nat], NEW x \in D
  PROVE  f[x] <= Total(f)
<1>1. /\ TotalOn(f, D \ {x}) \in Nat
      /\ Total(f) = TotalOn(f, {x}) + TotalOn(f, D \ {x})
  BY TotalSplit
<1>2. TotalOn(f, {x}) = f[x] /\ f[x] \in Nat
  BY TotalOne
<1>3. QED
  BY <1>1, <1>2

\* Larger amounts have a larger total.
LEMMA TotalMonotone ==
  ASSUME NEW D, IsFiniteSet(D), NEW f \in [D -> Nat], NEW g \in [D -> Nat],
         NEW S \in SUBSET D, \A x \in S : f[x] <= g[x]
  PROVE  TotalOn(f, S) <= TotalOn(g, S)
<1>. DEFINE a == Restrict(f, S)
            b == Restrict(g, S)
<1>1. a \in [S -> Nat] /\ b \in [S -> Nat] /\ IsFiniteSet(S) /\ \A x \in S : a[x] <= b[x]
  BY FS_Subset DEF Restrict
<1>. HIDE DEF a, b
<1>2. ASSUME NEW x \in S
      PROVE  1 .. a[x] \subseteq 1 .. b[x]
  <2>1. a[x] \in Nat /\ b[x] \in Nat /\ a[x] <= b[x]
    BY <1>1
  <2>2. QED
    BY <2>1
<1>3. Units(a) \subseteq Units(b)
  <2>1. DOMAIN a = S /\ DOMAIN b = S
    BY <1>1
  <2>2. QED
    BY <1>2, <2>1 DEF Units, UnitsAt
<1>4. IsFiniteSet(Units(b))
  BY <1>1, UnitsFinite
<1>5. Cardinality(Units(a)) <= Cardinality(Units(b))
  BY <1>3, <1>4, FS_Subset
<1>6. QED
  BY <1>5 DEF TotalOn, Total, a, b

\* More keys have a larger total.
LEMMA TotalGrows ==
  ASSUME NEW D, IsFiniteSet(D), NEW f \in [D -> Nat],
         NEW S \in SUBSET D, NEW T \in SUBSET D, S \subseteq T
  PROVE  TotalOn(f, S) <= TotalOn(f, T)
<1>1. /\ T \ S \in SUBSET D /\ S \cap (T \ S) = {} /\ S \cup (T \ S) = T
  OBVIOUS
<1>2. TotalOn(f, T) = TotalOn(f, S) + TotalOn(f, T \ S)
  BY <1>1, TotalUnion
<1>3. TotalOn(f, S) \in Nat /\ TotalOn(f, T \ S) \in Nat
  BY <1>1, TotalSplit
<1>4. QED
  BY <1>2, <1>3

\* A non-empty set of naturals has a least element.
LEMMA LeastNatural ==
  ASSUME NEW T \in SUBSET Nat, T # {}
  PROVE  \E x \in T : \A y \in T : x <= y
<1>. DEFINE R == OpToRel(<, Nat)
<1>1. IsWellFoundedOn(R, Nat)
  BY NatLessThanWellFounded
<1>2. PICK x \in T : \A y \in T : ~(<<y, x>> \in R)
  <2>. HIDE DEF R
  <2>1. QED
    BY <1>1, WFMin
<1>3. \A y \in T : ~(y < x)
  BY <1>2 DEF OpToRel
<1>4. QED
  BY <1>3

\* A finite non-empty set of naturals has a greatest element: the least of
\* its upper bounds, of which the sum of its elements is one.
LEMMA GreatestNatural ==
  ASSUME NEW T \in SUBSET Nat, T # {}, IsFiniteSet(T)
  PROVE  \E x \in T : \A y \in T : x >= y
<1>. DEFINE f == [x \in T |-> x]
            B == {b \in Nat : \A y \in T : b >= y}
<1>1. f \in [T -> Nat]
  OBVIOUS
<1>2. Total(f) \in B
  <2>1. Total(f) \in Nat
    BY <1>1, TotalType
  <2>2. ASSUME NEW y \in T PROVE Total(f) >= y
    <3>1. f[y] <= Total(f)
      BY <1>1, KeyAtMostTotal
    <3>2. QED
      BY <2>1, <3>1
  <2>3. QED
    BY <2>1, <2>2
<1>3. PICK b \in B : \A c \in B : b <= c
  <2>. HIDE DEF f
  <2>1. B \in SUBSET Nat /\ B # {}
    BY <1>2
  <2>. HIDE DEF B
  <2>2. QED
    BY <2>1, LeastNatural
<1>4. CASE b \in T
  BY <1>4
<1>5. CASE b \notin T
  <2>1. \A y \in T : y \in Nat /\ y <= b - 1
    BY <1>5
  <2>2. b - 1 \in Nat
    <3>1. PICK y \in T : TRUE
      OBVIOUS
    <3>2. b \in Nat /\ y \in Nat /\ y <= b - 1
      BY <2>1, <3>1
    <3>3. QED
      BY <3>2
  <2>3. b - 1 \in B
    BY <2>1, <2>2
  <2>4. QED
    BY <1>3, <2>2, <2>3
<1>6. QED
  BY <1>4, <1>5

-----------------------------------------------------------------------------
(* The cheapest sets of a size.                                            *)

\* A set within D can be filled up with elements of D to any size up to D's.
LEMMA SubsetOfSize ==
  ASSUME NEW D, IsFiniteSet(D), NEW A \in SUBSET D, NEW n \in Nat,
         Cardinality(A) <= n, n <= Cardinality(D)
  PROVE  \E S \in SUBSET D : A \subseteq S /\ Cardinality(S) = n
<1>. DEFINE Sizes == {k \in Nat : k >= n /\ \E S \in SUBSET D : A \subseteq S /\ Cardinality(S) = k}
<1>1. Cardinality(D) \in Sizes
  BY FS_CardinalityType
<1>2. PICK k \in Sizes : \A l \in Sizes : k <= l
  <2>. HIDE DEF Sizes
  <2>1. Sizes \in SUBSET Nat
    BY DEF Sizes
  <2>2. QED
    BY <1>1, <2>1, LeastNatural
<1>3. PICK S \in SUBSET D : A \subseteq S /\ Cardinality(S) = k
  OBVIOUS
<1>4. k = n
  <2>1. SUFFICES ASSUME k > n
                 PROVE  FALSE
    OBVIOUS
  <2>2. IsFiniteSet(S) /\ IsFiniteSet(A)
    BY FS_Subset
  <2>3. PICK x \in S : x \notin A
    <3>1. S # A
      BY <1>3, <2>1, <2>2, FS_CardinalityType
    <3>2. QED
      BY <1>3, <3>1
  <2>4. Cardinality(S \ {x}) = k - 1
    BY <1>3, <2>2, <2>3, FS_RemoveElement
  <2>5. k - 1 \in Sizes
    BY <1>3, <2>1, <2>3, <2>4
  <2>6. QED
    BY <1>2, <2>5
<1>5. QED
  BY <1>3, <1>4

\* A finite set of n elements or more has a subset of n elements.
LEMMA SetOfSize ==
  ASSUME NEW D, IsFiniteSet(D), NEW n \in Nat, n <= Cardinality(D)
  PROVE  \E S \in SUBSET D : Cardinality(S) = n
<1>1. {} \in SUBSET D /\ Cardinality({}) = 0
  BY FS_EmptySet
<1>2. Cardinality({}) <= n
  BY <1>1
<1>3. QED
  BY <1>1, <1>2, SubsetOfSize

\* A set of q keys with the least sum has no key that is greater than one
\* outside it, or swapping the two would save.
LEMMA CheapestExist ==
  ASSUME NEW D, IsFiniteSet(D), NEW b \in [D -> Nat], NEW q \in Nat, q <= Cardinality(D)
  PROVE  \E C \in SUBSET D :
           /\ Cardinality(C) = q
           /\ \A s \in C, t \in D \ C : b[s] <= b[t]
<1>. DEFINE Sets == {S \in SUBSET D : Cardinality(S) = q}
            Sums == {TotalOn(b, S) : S \in Sets}
<1>1. Sums \subseteq Nat /\ Sums # {}
  <2>1. \E S \in SUBSET D : Cardinality(S) = q
    BY SetOfSize
  <2>2. \A S \in Sets : TotalOn(b, S) \in Nat
    BY TotalSplit
  <2>3. QED
    BY <2>1, <2>2
<1>2. PICK x \in Sums : \A y \in Sums : x <= y
  <2>. HIDE DEF Sums
  <2>1. QED
    BY <1>1, LeastNatural
<1>3. PICK S \in Sets : x = TotalOn(b, S)
  BY <1>2
<1>4. ASSUME NEW s \in S, NEW t \in D \ S, ~(b[s] <= b[t])
      PROVE  FALSE
  <2>. DEFINE U == S \ {s}
              V == U \cup {t}
  <2>1. /\ S \in SUBSET D /\ U \in SUBSET D /\ V \in SUBSET D
        /\ S = U \cup {s} /\ s \notin U /\ t \notin U
        /\ s \in D /\ t \in D
    BY <1>3
  <2>2. IsFiniteSet(S) /\ IsFiniteSet(U)
    BY <2>1, FS_Subset
  <2>3. Cardinality(V) = Cardinality(S)
    <3>. HIDE DEF U
    <3>1. Cardinality(S) = Cardinality(U) + 1 /\ Cardinality(V) = Cardinality(U) + 1
      BY <2>1, <2>2, FS_AddElement
    <3>2. QED
      BY <3>1
  <2>4. V \in Sets
    BY <1>3, <2>1, <2>3
  <2>5. TotalOn(b, S) = TotalOn(b, U) + b[s] /\ TotalOn(b, V) = TotalOn(b, U) + b[t]
    <3>. HIDE DEF U
    <3>1. TotalOn(b, {s}) = b[s] /\ TotalOn(b, {t}) = b[t]
      BY <2>1, TotalOne
    <3>2. U \cap {s} = {} /\ U \cap {t} = {} /\ {s} \in SUBSET D /\ {t} \in SUBSET D
      BY <2>1
    <3>3. QED
      BY <2>1, <3>1, <3>2, TotalUnion
  <2>6. TotalOn(b, S) <= TotalOn(b, V)
    BY <1>2, <1>3, <2>4
  <2>7. TotalOn(b, U) \in Nat /\ b[s] \in Nat /\ b[t] \in Nat
    <3>. HIDE DEF U
    <3>1. QED
      BY <2>1, TotalSplit
  <2>8. QED
    <3>. HIDE DEF U, V
    <3>1. QED
      BY <1>4, <2>5, <2>6, <2>7
<1>5. QED
  BY <1>3, <1>4

\* A set of keys with no greater key than those outside it has the least sum
\* of all sets of as many keys.
LEMMA CheapestIsLeast ==
  ASSUME NEW D, IsFiniteSet(D), NEW b \in [D -> Nat],
         NEW S \in SUBSET D, \A s \in S, t \in D \ S : b[s] <= b[t],
         NEW C \in SUBSET D, Cardinality(C) = Cardinality(S)
  PROVE  TotalOn(b, S) <= TotalOn(b, C)
<1>. DEFINE A == S \ C
            B == C \ S
            K == S \cap C
<1>1. /\ A \in SUBSET D /\ B \in SUBSET D /\ K \in SUBSET D
      /\ K \cap A = {} /\ K \cap B = {} /\ S = K \cup A /\ C = K \cup B
  OBVIOUS
<1>2. Cardinality(A) = Cardinality(B) /\ Cardinality(B) \in Nat
  <2>1. IsFiniteSet(S) /\ IsFiniteSet(C)
    BY FS_Subset
  <2>2. Cardinality(A) = Cardinality(S) - Cardinality(S \cap C)
    BY <2>1, FS_Difference
  <2>3. Cardinality(B) = Cardinality(C) - Cardinality(C \cap S)
    BY <2>1, FS_Difference
  <2>4. IsFiniteSet(B) /\ S \cap C = C \cap S
    BY <2>1, FS_Difference
  <2>5. Cardinality(B) \in Nat
    BY <2>4, FS_CardinalityType
  <2>. HIDE DEF A, B
  <2>6. QED
    BY <2>2, <2>3, <2>4, <2>5
<1>3. \E v \in Nat : (\A x \in A : b[x] <= v) /\ (\A x \in B : b[x] >= v)
  <2>1. CASE B = {}
    <3>1. Cardinality(A) = 0
      <4>. HIDE DEF A, B
      <4>1. QED
        BY <1>2, <2>1, FS_EmptySet
    <3>2. IsFiniteSet(A)
      BY <1>1, FS_Subset
    <3>3. A = {}
      <4>. HIDE DEF A
      <4>1. QED
        BY <3>1, <3>2, FS_EmptySet
    <3>4. QED
      BY <2>1, <3>3
  <2>2. CASE B # {}
    <3>. DEFINE T == {b[x] : x \in B}
    <3>1. T \in SUBSET Nat /\ T # {}
      BY <1>1, <2>2
    <3>2. PICK v \in T : \A y \in T : v <= y
      <4>. HIDE DEF T
      <4>1. QED
        BY <3>1, LeastNatural
    <3>3. \A x \in A : b[x] <= v
      BY <3>2
    <3>4. \A x \in B : b[x] >= v
      BY <1>1, <3>1, <3>2
    <3>5. v \in Nat
      BY <3>1, <3>2
    <3>6. QED
      BY <3>3, <3>4, <3>5
  <2>3. QED
    BY <2>1, <2>2
<1>. HIDE DEF A, B, K
<1>4. PICK v \in Nat : (\A x \in A : b[x] <= v) /\ (\A x \in B : b[x] >= v)
  BY <1>3
<1>5. TotalOn(b, A) <= Cardinality(A) * v /\ TotalOn(b, B) >= Cardinality(B) * v
  BY <1>1, <1>4, TotalAtLeast, TotalAtMost
<1>6. TotalOn(b, S) = TotalOn(b, K) + TotalOn(b, A) /\ TotalOn(b, C) = TotalOn(b, K) + TotalOn(b, B)
  BY <1>1, TotalUnion
<1>7. TotalOn(b, K) \in Nat /\ TotalOn(b, A) \in Nat /\ TotalOn(b, B) \in Nat
  BY <1>1, TotalSplit
<1>8. Cardinality(B) * v \in Nat
  BY <1>2, <1>4
<1>9. QED
  BY <1>2, <1>5, <1>6, <1>7, <1>8
=============================================================================
