---------------------------- MODULE ServicesProofs ----------------------------
(***************************************************************************)
(* What the routing of a panel, the prices of a reseller and the summaries *)
(* promise, for any requests, clients, inbounds, outbounds, prices,        *)
(* resellers and amounts.                                                  *)
(*                                                                         *)
(* All three compute over data: a rule list is rebuilt inbound by inbound, *)
(* tiers are built up and added up, segments are added up.  The lemmas in  *)
(* front say what such computations yield.  They rest on one fact, that a  *)
(* set of naturals has a least element: a smallest counterexample, to the  *)
(* length of a loop or to the size of a set, is refuted.                   *)
(***************************************************************************)
EXTENDS Routing, Pricing, Summaries, FiniteSetTheorems, WellFoundedInduction, TLAPS

\* Every set of naturals that is not empty has a least element.
LEMMA LeastOf ==
  ASSUME NEW S, S \subseteq Nat, S # {}
  PROVE  \E n \in S : \A k \in S : n <= k
  <1>1. PICK n \in S : \A k \in S : ~(<<k, n>> \in OpToRel(<, Nat))
    BY NatLessThanWellFounded, WFMin
  <1>2. \A k \in S : ~(k < n)
    BY <1>1 DEF OpToRel
  <1>3. QED
    BY <1>2

\* The first of some places.
LEMMA FirstOf ==
  ASSUME NEW S, S \subseteq Nat, S # {}
  PROVE  Min(S) \in S /\ \A i \in S : Min(S) <= i
  <1>1. PICK m \in S : \A i \in S : m <= i
    BY LeastOf
  <1>2. QED
    BY <1>1 DEF Min

\* What is taken out of a set first, and what is left.
Pick(s) == CHOOSE x \in s : TRUE
Left(s) == s \ {Pick(s)}

SumsUp(g, f, S) ==
    g = [s \in SUBSET S |-> IF s = {} THEN 0 ELSE f[Pick(s)] + g[Left(s)]]

\* Of the subsets of a finite set that are bad, one is bad and none of its proper subsets is.
LEMMA SmallestBad ==
  ASSUME NEW S, IsFiniteSet(S), NEW Bad \in SUBSET SUBSET S, Bad # {}
  PROVE  \E s \in Bad : \A t \in Bad : t \subseteq s => t = s
  <1> DEFINE Sizes == {Cardinality(s) : s \in Bad}
  <1>1. \A s \in SUBSET S : IsFiniteSet(s) /\ Cardinality(s) \in Nat
    BY FS_Subset, FS_CardinalityType
  <1>2. Sizes \subseteq Nat /\ Sizes # {}
    BY <1>1
  <1>3. PICK n \in Sizes : \A k \in Sizes : n <= k
    BY <1>2, LeastOf
  <1>4. PICK s \in Bad : n = Cardinality(s)
    BY <1>3
  <1>5. ASSUME NEW t \in Bad, t \subseteq s
        PROVE  t = s
    <2>1. Cardinality(s) <= Cardinality(t)
      BY <1>3, <1>4
    <2>2. Cardinality(t) <= Cardinality(s) /\ (Cardinality(s) = Cardinality(t) => s = t)
      BY <1>1, <1>5, FS_Subset
    <2>3. Cardinality(s) \in Nat /\ Cardinality(t) \in Nat
      BY <1>1
    <2>4. QED
      BY <2>1, <2>2, <2>3
  <1>6. QED
    BY <1>5

\* What is left is smaller by what was taken out.
LEMMA Leftover ==
  ASSUME NEW s, s # {}
  PROVE  Pick(s) \in s /\ Left(s) \subseteq s /\ Left(s) # s /\ s = Left(s) \cup {Pick(s)}
  <1>1. Pick(s) \in s
    BY DEF Pick
  <1>2. QED
    BY <1>1 DEF Left

\* A sum is determined by its equation ...
LEMMA SumUnique ==
  ASSUME NEW S, IsFiniteSet(S), NEW f, NEW g, NEW h, SumsUp(g, f, S), SumsUp(h, f, S)
  PROVE  g = h
  <1> DEFINE Bad == {s \in SUBSET S : g[s] # h[s]}
  <1>1. ASSUME Bad # {} PROVE FALSE
    <2>0. Bad \in SUBSET SUBSET S
      OBVIOUS
    <2> HIDE DEF Bad
    <2>1a. PICK s \in Bad : \A t \in Bad : t \subseteq s => t = s
      BY <1>1, <2>0, SmallestBad
    <2> USE DEF Bad
    <2>1. s \in SUBSET S /\ g[s] # h[s] /\ \A t \in SUBSET S : t \subseteq s /\ t # s => g[t] = h[t]
      BY <2>1a
    <2>2. CASE s = {}
      BY <2>1, <2>2 DEF SumsUp
    <2>3. CASE s # {}
      <3>1. Left(s) \in SUBSET S /\ g[Left(s)] = h[Left(s)]
        BY <2>1, <2>3, Leftover
      <3>2. g[s] = f[Pick(s)] + g[Left(s)] /\ h[s] = f[Pick(s)] + h[Left(s)]
        BY <2>3 DEF SumsUp
      <3>3. QED
        BY <3>1, <3>2, <2>1
    <2>4. QED
      BY <2>2, <2>3
  <1>2. \A s \in SUBSET S : g[s] = h[s]
    BY <1>1
  <1>3. g = [s \in SUBSET S |-> g[s]] /\ h = [s \in SUBSET S |-> h[s]]
    BY DEF SumsUp
  <1>4. QED
    BY <1>2, <1>3

\* ... and of part of the set by the same.
LEMMA SumOfPart ==
  ASSUME NEW S, IsFiniteSet(S), NEW T \in SUBSET S, NEW f, NEW g, NEW e, SumsUp(g, f, S), SumsUp(e, f, T)
  PROVE  e[T] = g[T]
  <1> DEFINE h == [s \in SUBSET T |-> g[s]]
  <1>1. ASSUME NEW s \in SUBSET T
        PROVE  h[s] = IF s = {} THEN 0 ELSE f[Pick(s)] + h[Left(s)]
    <2>1. g[s] = IF s = {} THEN 0 ELSE f[Pick(s)] + g[Left(s)]
      BY DEF SumsUp
    <2>2. s # {} => Left(s) \in SUBSET T
      BY Leftover
    <2>3. QED
      BY <2>1, <2>2
  <1> HIDE DEF h
  <1>2. h = [s \in SUBSET T |-> h[s]]
    BY DEF h
  <1>3. h = [s \in SUBSET T |-> IF s = {} THEN 0 ELSE f[Pick(s)] + h[Left(s)]]
    BY <1>1, <1>2
  <1>4. SumsUp(h, f, T)
    BY <1>3 DEF SumsUp
  <1>5. IsFiniteSet(T)
    BY FS_Subset
  <1>6. e = h
    BY <1>4, <1>5, SumUnique
  <1>7. QED
    BY <1>6 DEF h

\* There is one.
LEMMA SumExists ==
  ASSUME NEW S, IsFiniteSet(S), NEW f
  PROVE  \E g : SumsUp(g, f, S)
  <1> DEFINE Bad == {s \in SUBSET S : ~\E g : SumsUp(g, f, s)}
             Sum(s) == CHOOSE g : SumsUp(g, f, s)
  <1>1. ASSUME Bad # {} PROVE FALSE
    <2>0. Bad \in SUBSET SUBSET S
      OBVIOUS
    <2> HIDE DEF Bad
    <2>1a. PICK T \in Bad : \A t \in Bad : t \subseteq T => t = T
      BY <1>1, <2>0, SmallestBad
    <2> USE DEF Bad
    <2>1. T \in SUBSET S /\ ~(\E g : SumsUp(g, f, T)) /\ \A t \in SUBSET S : t \subseteq T /\ t # T => \E g : SumsUp(g, f, t)
      BY <2>1a
    <2>2. ASSUME NEW s \in SUBSET T, s # T PROVE SumsUp(Sum(s), f, s) /\ IsFiniteSet(s)
      <3>1. \E g : SumsUp(g, f, s)
        BY <2>1, <2>2
      <3>2. QED
        BY <3>1, FS_Subset
    <2> DEFINE h == [s \in SUBSET T |-> IF s = T /\ T # {} THEN f[Pick(T)] + Sum(Left(T))[Left(T)] ELSE Sum(s)[s]]
    <2>3. T # {}
      <3>1. SumsUp([s \in SUBSET {} |-> 0], f, {})
        BY DEF SumsUp
      <3>2. QED
        BY <3>1, <2>1
    <2>4. ASSUME NEW s \in SUBSET T, s # T, NEW t \in SUBSET s
          PROVE  Sum(s)[t] = Sum(t)[t]
      <3>1. SumsUp(Sum(s), f, s) /\ SumsUp(Sum(t), f, t) /\ IsFiniteSet(t)
        BY <2>2, <2>4
      <3>2. IsFiniteSet(s)
        BY <2>2, <2>4
      <3> HIDE DEF Sum
      <3>3. QED
        BY <3>1, <3>2, SumOfPart
    <2>5. ASSUME NEW s \in SUBSET T
          PROVE  h[s] = IF s = {} THEN 0 ELSE f[Pick(s)] + h[Left(s)]
      <3>1. CASE s = T
        <4>1. Left(T) \in SUBSET T /\ Left(T) # T
          BY <2>3, Leftover
        <4> HIDE DEF Sum
        <4>2. h[Left(T)] = Sum(Left(T))[Left(T)]
          BY <4>1
        <4>3. QED
          BY <4>2, <3>1, <2>3
      <3>2. CASE s # T
        <4>1. SumsUp(Sum(s), f, s)
          BY <2>2, <3>2
        <4>2. s # {} => Left(s) \in SUBSET s /\ Left(s) \in SUBSET T /\ Left(s) # T
          BY <3>2, Leftover
        <4>3. s # {} => Sum(s)[Left(s)] = Sum(Left(s))[Left(s)]
          BY <4>2, <3>2, <2>4
        <4> HIDE DEF Sum
        <4>4. Sum(s)[s] = IF s = {} THEN 0 ELSE f[Pick(s)] + Sum(s)[Left(s)]
          BY <4>1 DEF SumsUp
        <4>5. h[s] = Sum(s)[s] /\ (s # {} => h[Left(s)] = Sum(Left(s))[Left(s)])
          BY <3>2, <4>2
        <4> HIDE DEF h
        <4>6. QED
          BY <4>3, <4>4, <4>5
      <3>3. QED
        BY <3>1, <3>2
    <2> HIDE DEF Sum
    <2>6. h = [s \in SUBSET T |-> h[s]]
      OBVIOUS
    <2> HIDE DEF h
    <2>7. SumsUp(h, f, T)
      BY <2>5, <2>6 DEF SumsUp
    <2>8. QED
      BY <2>7, <2>1
  <1>2. S \notin Bad
    BY <1>1
  <1>3. QED
    BY <1>2

\* A sum over a finite set is what its equation says.
LEMMA SumIs ==
  ASSUME NEW S, IsFiniteSet(S), NEW f
  PROVE  \E g : SumsUp(g, f, S) /\ SumFunctionOnSet(f, S) = g[S]
  <1>1. PICK g : SumsUp(g, f, S)
    BY SumExists
  <1>2. \A h : SumsUp(h, f, S) => h = g
    BY <1>1, SumUnique
  <1>3. SumFunctionOnSet(f, S) = g[S]
    BY <1>1, <1>2 DEF SumsUp, Pick, Left, SumFunctionOnSet, FoldFunctionOnSet, MapThenFoldSet
  <1>4. QED
    BY <1>1, <1>3

\* A sum over a set: nothing, or one summand and the sum of the others.
LEMMA SumStep ==
  ASSUME NEW S, IsFiniteSet(S), NEW f
  PROVE  SumFunctionOnSet(f, S) = IF S = {} THEN 0 ELSE f[Pick(S)] + SumFunctionOnSet(f, Left(S))
  <1>1. PICK g : SumsUp(g, f, S) /\ SumFunctionOnSet(f, S) = g[S]
    BY SumIs
  <1>2. CASE S = {}
    BY <1>1, <1>2 DEF SumsUp
  <1>3. CASE S # {}
    <2>1. Left(S) \in SUBSET S /\ IsFiniteSet(Left(S))
      BY <1>3, Leftover, FS_Subset
    <2>2. PICK h : SumsUp(h, f, Left(S)) /\ SumFunctionOnSet(f, Left(S)) = h[Left(S)]
      BY <2>1, SumIs
    <2>5. h[Left(S)] = g[Left(S)]
      BY <1>1, <2>1, <2>2, SumOfPart
    <2>6. g[S] = f[Pick(S)] + g[Left(S)]
      BY <1>1, <1>3 DEF SumsUp
    <2>7. QED
      BY <1>1, <1>3, <2>2, <2>5, <2>6
  <1>4. QED
    BY <1>2, <1>3

\* Integers add up to an integer.
LEMMA SumType ==
  ASSUME NEW S, IsFiniteSet(S), NEW f, \A x \in S : f[x] \in Int
  PROVE  SumFunctionOnSet(f, S) \in Int
  <1> DEFINE Bad == {s \in SUBSET S : SumFunctionOnSet(f, s) \notin Int}
  <1>1. ASSUME Bad # {} PROVE FALSE
    <2>1. Bad \in SUBSET SUBSET S
      OBVIOUS
    <2> HIDE DEF Bad
    <2>2. PICK s \in Bad : \A t \in Bad : t \subseteq s => t = s
      BY <1>1, <2>1, SmallestBad
    <2> USE DEF Bad
    <2>3. IsFiniteSet(s)
      BY <2>2, FS_Subset
    <2>4. SumFunctionOnSet(f, s) = IF s = {} THEN 0 ELSE f[Pick(s)] + SumFunctionOnSet(f, Left(s))
      BY <2>3, SumStep
    <2>5. s # {} => SumFunctionOnSet(f, Left(s)) \in Int /\ f[Pick(s)] \in Int
      BY <2>2, Leftover
    <2>6. QED
      BY <2>2, <2>4, <2>5
  <1>2. S \notin Bad
    BY <1>1
  <1>3. QED
    BY <1>2

\* Whatever is taken out first.
LEMMA SumSplit ==
  ASSUME NEW S, IsFiniteSet(S), NEW f, \A x \in S : f[x] \in Int, NEW y \in S
  PROVE  SumFunctionOnSet(f, S) = f[y] + SumFunctionOnSet(f, S \ {y})
  <1> DEFINE Sum(s) == SumFunctionOnSet(f, s)
             Bad == {s \in SUBSET S : \E x \in s : Sum(s) # f[x] + Sum(s \ {x})}
  <1>0. \A s \in SUBSET S : IsFiniteSet(s) /\ Sum(s) \in Int /\ Sum(s) = IF s = {} THEN 0 ELSE f[Pick(s)] + Sum(Left(s))
    <2>1. \A s \in SUBSET S : IsFiniteSet(s)
      BY FS_Subset
    <2>2. QED
      BY <2>1, SumType, SumStep
  <1> HIDE DEF Sum
  <1>1. ASSUME Bad # {} PROVE FALSE
    <2>1. Bad \in SUBSET SUBSET S
      OBVIOUS
    <2> HIDE DEF Bad
    <2>2. PICK s \in Bad : \A t \in Bad : t \subseteq s => t = s
      BY <1>1, <2>1, SmallestBad
    <2> USE DEF Bad
    <2>3. PICK x \in s : Sum(s) # f[x] + Sum(s \ {x})
      BY <2>2
    <2> DEFINE p == Pick(s)
    <2>4. p \in s /\ Left(s) = s \ {p} /\ Sum(s) = f[p] + Sum(s \ {p}) /\ p # x
      BY <1>0, <2>2, <2>3, Leftover DEF Left
    <2> HIDE DEF p
    <2>5. Sum(s \ {p}) = f[x] + Sum((s \ {p}) \ {x}) /\ Sum(s \ {x}) = f[p] + Sum((s \ {x}) \ {p})
      <3>1. s \ {p} \in SUBSET S /\ s \ {x} \in SUBSET S /\ s \ {p} # s /\ s \ {x} # s
        BY <2>2, <2>3, <2>4
      <3>2. s \ {p} \notin Bad /\ s \ {x} \notin Bad
        BY <2>2, <3>1
      <3>3. QED
        BY <3>1, <3>2, <2>3, <2>4
    <2>6. (s \ {p}) \ {x} = (s \ {x}) \ {p}
      OBVIOUS
    <2>7. f[x] \in Int /\ f[p] \in Int /\ Sum((s \ {x}) \ {p}) \in Int
      BY <1>0, <2>2, <2>3, <2>4
    <2>8. Sum(s) = f[x] + Sum(s \ {x})
      <3> DEFINE r == Sum((s \ {x}) \ {p})
      <3>1. Sum(s) = f[p] + (f[x] + r) /\ Sum(s \ {x}) = f[p] + r
        BY <2>4, <2>5, <2>6
      <3> HIDE DEF r
      <3>2. f[x] \in Int /\ f[p] \in Int /\ r \in Int
        BY <2>7 DEF r
      <3> HIDE DEF Bad
      <3>3. QED
        BY <3>1, <3>2
    <2>9. QED
      BY <2>3, <2>8
  <1>2. S \notin Bad
    BY <1>1
  <1>3. QED
    BY <1>2 DEF Sum

AllOf(X, S) == UNION {X[i] : i \in S}

\* The sum of the sizes of sets that have nothing in common is the size of their union.
LEMMA SumOfSizes ==
  ASSUME NEW S, IsFiniteSet(S), NEW X, NEW f,
         \A i \in S : IsFiniteSet(X[i]) /\ f[i] = Cardinality(X[i]),
         \A i, j \in S : i # j => X[i] \cap X[j] = {}
  PROVE  IsFiniteSet(AllOf(X, S)) /\ SumFunctionOnSet(f, S) = Cardinality(AllOf(X, S))
  <1> DEFINE All(s) == AllOf(X, s)
             Good(s) == IsFiniteSet(All(s)) /\ SumFunctionOnSet(f, s) = Cardinality(All(s))
             Bad == {s \in SUBSET S : ~Good(s)}
  <1>0. \A i \in S : f[i] \in Int
    BY FS_CardinalityType
  <1>1. ASSUME Bad # {} PROVE FALSE
    <2>1. Bad \in SUBSET SUBSET S
      OBVIOUS
    <2> HIDE DEF Bad
    <2>2. PICK s \in Bad : \A t \in Bad : t \subseteq s => t = s
      BY <1>1, <2>1, SmallestBad
    <2> USE DEF Bad
    <2>3. IsFiniteSet(s) /\ s \in SUBSET S
      BY <2>2, FS_Subset
    <2>4. CASE s = {}
      <3>1. All(s) = {} /\ SumFunctionOnSet(f, s) = 0
        BY <2>3, <2>4, SumStep DEF AllOf
      <3>2. QED
        BY <3>1, <2>2, FS_EmptySet
    <2>5. CASE s # {}
      <3>1. PICK i \in s : TRUE
        BY <2>5
      <3> DEFINE t == s \ {i}
      <3>2. t \in SUBSET S /\ t \notin Bad
        BY <2>2, <2>3, <3>1
      <3>3. IsFiniteSet(All(t)) /\ SumFunctionOnSet(f, t) = Cardinality(All(t))
        BY <3>2
      <3>4. SumFunctionOnSet(f, s) = f[i] + SumFunctionOnSet(f, t)
        BY <1>0, <2>3, <3>1, SumSplit
      <3>5. All(s) = All(t) \cup X[i]
        BY <3>1 DEF AllOf
      <3>6. All(t) \cap X[i] = {}
        BY <2>3, <3>1 DEF AllOf
      <3> HIDE DEF All, t
      <3>7. IsFiniteSet(X[i]) /\ f[i] = Cardinality(X[i])
        BY <2>3, <3>1
      <3>8. /\ IsFiniteSet(All(t) \cup X[i])
            /\ Cardinality(All(t) \cup X[i]) = Cardinality(All(t)) + Cardinality(X[i]) - Cardinality({})
        BY <3>3, <3>6, <3>7, FS_Union
      <3>9. Cardinality({}) = 0 /\ Cardinality(All(t)) \in Nat /\ Cardinality(X[i]) \in Nat
        BY <3>3, <3>7, FS_EmptySet, FS_CardinalityType
      <3>10. Good(s)
        BY <3>3, <3>4, <3>5, <3>7, <3>8, <3>9
      <3>11. QED
        BY <3>10, <2>2
    <2>6. QED
      BY <2>4, <2>5
  <1>2. S \notin Bad
    BY <1>1
  <1>3. QED
    BY <1>2

\* What a loop computes in N rounds.
Iterates(g, N, T, base, step) ==
    g \in [0..N -> T] /\ g[0] = base /\ \A n \in 1..N : g[n] = step[<<n, g[n - 1]>>]

\* Every loop of N rounds computes something.
LEMMA IterationExists ==
  ASSUME NEW N \in Nat, NEW T, NEW base \in T, NEW step \in [(1..N) \X T -> T]
  PROVE  \E g : Iterates(g, N, T, base, step)
  <1> DEFINE Bad == {k \in 0..N : ~\E g : Iterates(g, k, T, base, step)}
  <1>1. ASSUME Bad # {} PROVE FALSE
    <2>1. Bad \subseteq Nat
      OBVIOUS
    <2> HIDE DEF Bad
    <2>2. PICK k \in Bad : \A m \in Bad : k <= m
      BY <1>1, <2>1, LeastOf
    <2> USE DEF Bad
    <2>3. CASE k = 0
      <3>1. Iterates([n \in 0..0 |-> base], 0, T, base, step)
        BY DEF Iterates
      <3>2. QED
        BY <3>1, <2>2, <2>3
    <2>4. CASE k # 0
      <3>1. k \in Nat /\ k - 1 \in 0..N /\ k - 1 \in Nat /\ k - 1 \notin Bad /\ k \in 1..N
        BY <2>2, <2>4
      <3>2. PICK h : Iterates(h, k - 1, T, base, step)
        BY <3>1
      <3> DEFINE v == step[<<k, h[k - 1]>>]
                 g == [n \in 0..k |-> IF n = k THEN v ELSE h[n]]
      <3>3. v \in T /\ \A n \in 0..(k - 1) : h[n] \in T
        BY <3>1, <3>2 DEF Iterates
      <3>4. g[k] = v /\ \A n \in 0..(k - 1) : g[n] = h[n]
        BY <3>1
      <3>5. g \in [0..k -> T]
        BY <3>1, <3>3
      <3> HIDE DEF g
      <3>6. g[0] = base
        BY <3>1, <3>2, <3>4 DEF Iterates
      <3>7. ASSUME NEW n \in 1..k PROVE g[n] = step[<<n, g[n - 1]>>]
        <4>1. CASE n = k
          BY <4>1, <3>1, <3>4
        <4>2. CASE n # k
          <5>1. n \in 1..(k - 1) /\ n \in 0..(k - 1) /\ n - 1 \in 0..(k - 1)
            BY <4>2, <3>1
          <5>2. h[n] = step[<<n, h[n - 1]>>]
            BY <5>1, <3>2 DEF Iterates
          <5>3. QED
            BY <5>1, <5>2, <3>4
        <4>3. QED
          BY <4>1, <4>2
      <3>8. Iterates(g, k, T, base, step)
        BY <3>5, <3>6, <3>7 DEF Iterates
      <3>9. QED
        BY <3>8, <2>2
    <2>5. QED
      BY <2>3, <2>4
  <1>2. N \notin Bad
    BY <1>1
  <1>3. QED
    BY <1>2

\* Two sequences, one behind the other.
LEMMA Joined ==
  ASSUME NEW S, NEW d \in Seq(S), NEW b \in Seq(S)
  PROVE  /\ d \o b \in Seq(S) /\ Len(d \o b) = Len(d) + Len(b)
         /\ \A i \in 1..(Len(d) + Len(b)) : (d \o b)[i] = IF i <= Len(d) THEN d[i] ELSE b[i - Len(d)]
  OBVIOUS

\* What a sequence is after something was put into it.
LEMMA PutIn ==
  ASSUME NEW S, NEW t \in Seq(S), NEW at \in 1..(Len(t) + 1), NEW new \in S
  PROVE  /\ InsertAt(t, at, new) \in Seq(S) /\ Len(InsertAt(t, at, new)) = Len(t) + 1
         /\ \A i \in 1..(Len(t) + 1) :
               InsertAt(t, at, new)[i] = IF i < at THEN t[i] ELSE IF i = at THEN new ELSE t[i - 1]
  <1> DEFINE n == Len(t)
             a == SubSeq(t, 1, at - 1)
             b == SubSeq(t, at, Len(t))
             r == InsertAt(t, at, new)
  <1>1. n \in Nat /\ at \in 1..(n + 1) /\ at \in Nat
    OBVIOUS
  <1>2. /\ a \in Seq(S) /\ Len(a) = at - 1 /\ \A i \in 1..(at - 1) : a[i] = t[i]
        /\ b \in Seq(S) /\ Len(b) = n - at + 1 /\ \A i \in 1..(n - at + 1) : b[i] = t[at + i - 1]
    BY <1>1
  <1>3. r = (a \o <<new>>) \o b
    BY DEF InsertAt
  <1> HIDE DEF a, b, n
  <1>4. /\ a \o <<new>> \in Seq(S) /\ Len(a \o <<new>>) = at
        /\ \A i \in 1..at : (a \o <<new>>)[i] = IF i < at THEN a[i] ELSE new
    <2>1. at \in 1..(n + 1) /\ a \in Seq(S) /\ Len(a) = at - 1
      BY <1>1, <1>2
    <2>2. QED
      BY <2>1
  <1> DEFINE d == a \o <<new>>
  <1> HIDE DEF d
  <1>5. /\ r \in Seq(S) /\ Len(r) = n + 1
        /\ \A i \in 1..(n + 1) : r[i] = IF i <= at THEN d[i] ELSE b[i - at]
    <2>1. Len(d) = at /\ Len(b) = n - at + 1 /\ r = d \o b /\ d \in Seq(S) /\ b \in Seq(S)
      BY <1>2, <1>3, <1>4 DEF d
    <2>2. Len(d) + Len(b) = n + 1
      BY <1>1, <2>1
    <2>3. /\ d \o b \in Seq(S) /\ Len(d \o b) = Len(d) + Len(b)
          /\ \A i \in 1..(Len(d) + Len(b)) : (d \o b)[i] = IF i <= Len(d) THEN d[i] ELSE b[i - Len(d)]
      <3>1. d \in Seq(S) /\ b \in Seq(S)
        BY <2>1
      <3>2. QED
        BY <3>1, Joined
    <2>4. /\ r \in Seq(S) /\ Len(r) = n + 1
          /\ \A i \in 1..(n + 1) : r[i] = IF i <= Len(d) THEN d[i] ELSE b[i - Len(d)]
      BY <2>1, <2>2, <2>3
    <2>5. QED
      BY <2>1, <2>4
  <1>6. ASSUME NEW i \in 1..(n + 1)
        PROVE  r[i] = IF i < at THEN t[i] ELSE IF i = at THEN new ELSE t[i - 1]
    <2>0. at \in Int /\ i \in Int /\ n \in Int /\ i >= 1 /\ i <= n + 1
      BY <1>1 DEF n
    <2>1. CASE i <= at
      <3>1. r[i] = d[i]
        BY <1>5, <2>1
      <3>2. d[i] = IF i < at THEN a[i] ELSE new
        <4>1. i \in 1..at
          BY <2>0, <2>1
        <4>2. QED
          BY <1>4, <4>1 DEF d
      <3>3. i < at => a[i] = t[i]
        <4>1. i < at => i \in 1..(at - 1)
          BY <2>0
        <4>2. QED
          BY <1>2, <4>1
      <3>4. i < at \/ i = at
        BY <2>0, <2>1
      <3>5. QED
        BY <3>1, <3>2, <3>3, <3>4, <2>0
    <2>2. CASE ~(i <= at)
      <3>1. i - at \in 1..(n - at + 1) /\ at + (i - at) - 1 = i - 1
        BY <1>1, <2>2 DEF n
      <3>2. b[i - at] = t[i - 1]
        BY <1>2, <3>1
      <3>3. QED
        BY <1>1, <1>5, <2>2, <3>2 DEF n
    <2>3. QED
      BY <2>1, <2>2
  <1>7. QED
    BY <1>5, <1>6 DEF n
-------------------------------------------------------------------------------
AllTags == {Direct, "api"} \cup Outbounds
AllIns == ToSet(Inbounds) \cup {"api"}

\* Rules that name the inbounds of all clients they name, and nothing else.
FineRules == {rule \in [users : SUBSET Users, ins : SUBSET AllIns, out : AllTags] :
                 \A u \in rule.users : InboundOf[u] \in rule.ins}

\* A client leaves by an outbound: a rule that names it is the first that matches it.
Stands(rules, u, tag) ==
    \E k \in 1..Len(rules) : /\ u \in rules[k].users /\ rules[k].out = tag
                             /\ \A j \in 1..(k - 1) : ~Matches(rules[j], u)

Quiet(rules, u) == \A j \in 1..Len(rules) : ~Matches(rules[j], u)

\* The inbounds have names of their own, and every client is in one of them.
LEMMA InboundsAre ==
  /\ Len(Inbounds) \in Nat /\ ToSet(Inbounds) = {Inbounds[i] : i \in 1..Len(Inbounds)}
  /\ \A u \in Users : InboundOf[u] \in ToSet(Inbounds) /\ InboundOf[u] \in AllIns /\ InboundOf[u] # "api"
  <1>1. Inbounds \in Seq(STRING) /\ "api" \notin ToSet(Inbounds) /\ InboundOf \in [Users -> ToSet(Inbounds)]
    BY RoutingAssumption
  <1>2. DOMAIN Inbounds = 1..Len(Inbounds) /\ Len(Inbounds) \in Nat
    BY <1>1
  <1>3. ToSet(Inbounds) = {Inbounds[i] : i \in 1..Len(Inbounds)}
    BY <1>2 DEF ToSet
  <1>4. QED
    BY <1>1, <1>2, <1>3 DEF AllIns

\* A rule of which kind, and whom it matches.
LEMMA FineRule ==
  ASSUME NEW rule \in FineRules
  PROVE  /\ rule.users \subseteq Users /\ rule.ins \subseteq AllIns /\ rule.out \in AllTags
         /\ rule = [users |-> rule.users, ins |-> rule.ins, out |-> rule.out]
         /\ \A u \in rule.users : InboundOf[u] \in rule.ins /\ Matches(rule, u)
         /\ rule.ins = {} => rule.users = {}
  BY DEF FineRules, Matches

\* What is put in front, behind the rule of the api, hides from a client only what it matches.
LEMMA NewRuleStands ==
  ASSUME NEW rules \in Seq(FineRules), NEW new \in FineRules, NEW u \in Users, NEW tag,
         NEW result, result = InsertAt(rules, NewRuleIndex(rules), new)
  PROVE  /\ result \in Seq(FineRules)
         /\ Stands(rules, u, tag) /\ ~Matches(new, u) => Stands(result, u, tag)
         /\ u \in new.users => Stands(result, u, new.out)
  <1> DEFINE at == NewRuleIndex(rules)
             n == Len(rules)
  <1>1. n \in Nat /\ at \in 1..2 /\ at <= n + 1 /\ (at = 2 => rules[1] = Api)
    BY DEF NewRuleIndex
  <1>2. /\ result \in Seq(FineRules) /\ Len(result) = n + 1
        /\ \A i \in 1..(n + 1) : result[i] = IF i < at THEN rules[i] ELSE IF i = at THEN new ELSE rules[i - 1]
    <2>1. at \in 1..(Len(rules) + 1) /\ result = InsertAt(rules, at, new)
      BY <1>1
    <2> HIDE DEF at
    <2>2. /\ InsertAt(rules, at, new) \in Seq(FineRules) /\ Len(InsertAt(rules, at, new)) = Len(rules) + 1
          /\ \A i \in 1..(Len(rules) + 1) :
                InsertAt(rules, at, new)[i] = IF i < at THEN rules[i] ELSE IF i = at THEN new ELSE rules[i - 1]
      <3>1. PICK S : S = FineRules
        OBVIOUS
      <3>2. PICK k : k = at
        OBVIOUS
      <3>3. rules \in Seq(S) /\ new \in S /\ k \in 1..(Len(rules) + 1)
        BY <2>1, <3>1, <3>2
      <3>4. /\ InsertAt(rules, k, new) \in Seq(S) /\ Len(InsertAt(rules, k, new)) = Len(rules) + 1
            /\ \A i \in 1..(Len(rules) + 1) :
                  InsertAt(rules, k, new)[i] = IF i < k THEN rules[i] ELSE IF i = k THEN new ELSE rules[i - 1]
        BY <3>3, PutIn
      <3>5. QED
        BY <3>1, <3>2, <3>4
    <2>3. QED
      BY <2>1, <2>2
  <1> HIDE DEF at, n
  <1>3. at = 2 => ~Matches(result[1], u)
    <2>1. ~Matches(Api, u)
      BY InboundsAre DEF Matches, Api
    <2>2. QED
      BY <1>1, <1>2, <2>1
  <1>4. ASSUME Stands(rules, u, tag), ~Matches(new, u) PROVE Stands(result, u, tag)
    <2>1. PICK k \in 1..n : u \in rules[k].users /\ rules[k].out = tag /\ \A j \in 1..(k - 1) : ~Matches(rules[j], u)
      BY <1>4 DEF Stands, n
    <2> DEFINE l == IF k < at THEN k ELSE k + 1
    <2>2. l \in 1..(n + 1) /\ result[l] = rules[k]
      BY <1>1, <1>2
    <2>3. ASSUME NEW j \in 1..(l - 1) PROVE ~Matches(result[j], u)
      <3>1. CASE j < at
        BY <1>1, <1>2, <2>1, <2>2, <3>1
      <3>2. CASE j = at
        BY <1>1, <1>2, <1>4, <2>2, <3>2
      <3>3. CASE j > at
        <4>1. j - 1 \in 1..(k - 1) /\ result[j] = rules[j - 1]
          BY <1>1, <1>2, <2>2, <3>3
        <4>2. QED
          BY <2>1, <4>1
      <3>4. QED
        BY <1>1, <3>1, <3>2, <3>3
    <2>4. QED
      BY <1>2, <2>1, <2>2, <2>3 DEF Stands
  <1>5. ASSUME u \in new.users PROVE Stands(result, u, new.out)
    <2>1. at \in 1..(n + 1) /\ result[at] = new
      BY <1>1, <1>2
    <2>2. \A j \in 1..(at - 1) : ~Matches(result[j], u)
      BY <1>1, <1>3
    <2>3. QED
      BY <1>2, <1>5, <2>1, <2>2 DEF Stands
  <1>6. QED
    BY <1>2, <1>4, <1>5
-------------------------------------------------------------------------------
\* The place of the first rule of a kind, or 0.
LEMMA FirstRule ==
  ASSUME NEW rules \in Seq(FineRules), NEW u \in Users, NEW tag
  PROVE  /\ FindRule(rules, u, tag) \in 0..Len(rules)
         /\ FindRule(rules, u, tag) # 0 => /\ rules[FindRule(rules, u, tag)].out = tag
                                           /\ Matches(rules[FindRule(rules, u, tag)], u)
  <1> DEFINE Test(rule) == rule.out = tag /\ Matches(rule, u)
             I == {i \in 1..Len(rules) : Test(rules[i])}
  <1>1. FindRule(rules, u, tag) = IF I # {} THEN Min(I) ELSE 0
    BY DEF FindRule, SelectInSeq
  <1>2. I \subseteq Nat
    OBVIOUS
  <1> HIDE DEF I
  <1>3. I # {} => Min(I) \in I
    BY <1>2, FirstOf
  <1>4. QED
    BY <1>1, <1>3 DEF I

\* A client that joins a rule hides nobody else: the rule loses its width and its users keep it.
LEMMA JoinKeeps ==
  ASSUME NEW rule \in FineRules, NEW v \in Users
  PROVE  /\ JoinRule(rule, v) \in FineRules /\ JoinRule(rule, v).out = rule.out
         /\ rule.users \subseteq JoinRule(rule, v).users
         /\ \A u \in Users \ {v} : Matches(JoinRule(rule, v), u) => Matches(rule, u)
  <1> DEFINE new == JoinRule(rule, v)
  <1>1. rule.users \subseteq Users /\ rule.ins \subseteq AllIns /\ rule.out \in AllTags
    BY FineRule
  <1>2. /\ new \in [users : SUBSET Users, ins : SUBSET AllIns, out : AllTags]
        /\ new.out = rule.out /\ new.users = rule.users \cup {v} /\ new.ins = rule.ins \cup {InboundOf[v]}
    BY <1>1, InboundsAre DEF JoinRule, FineRules
  <1> HIDE DEF new
  <1>3. new \in FineRules
    BY <1>2, FineRule DEF FineRules
  <1>4. ASSUME NEW u \in Users \ {v}, Matches(new, u) PROVE Matches(rule, u)
    <2>1. u \in rule.users
      BY <1>2, <1>4 DEF Matches
    <2>2. QED
      BY <2>1, FineRule
  <1>5. QED
    BY <1>2, <1>3, <1>4 DEF new

\* One rule is replaced by one that names as many and matches no more.
LEMMA ReplacedStands ==
  ASSUME NEW rules \in Seq(FineRules), NEW k \in 1..Len(rules), NEW new \in FineRules,
         NEW u \in Users, NEW tag, Stands(rules, u, tag),
         new.out = rules[k].out, rules[k].users \subseteq new.users,
         Matches(new, u) => Matches(rules[k], u)
  PROVE  [rules EXCEPT ![k] = new] \in Seq(FineRules) /\ Stands([rules EXCEPT ![k] = new], u, tag)
  <1> DEFINE result == [rules EXCEPT ![k] = new]
  <1>1. /\ result \in Seq(FineRules) /\ Len(result) = Len(rules)
        /\ \A j \in 1..Len(rules) : result[j] = IF j = k THEN new ELSE rules[j]
    OBVIOUS
  <1> HIDE DEF result
  <1>2. PICK l \in 1..Len(rules) : /\ u \in rules[l].users /\ rules[l].out = tag
                                   /\ \A j \in 1..(l - 1) : ~Matches(rules[j], u)
    BY DEF Stands
  <1>3. u \in result[l].users /\ result[l].out = tag
    BY <1>1, <1>2
  <1>4. ASSUME NEW j \in 1..(l - 1) PROVE ~Matches(result[j], u)
    <2>1. j \in 1..Len(rules) /\ ~Matches(rules[j], u)
      BY <1>2
    <2>2. QED
      BY <1>1, <2>1
  <1>5. Stands(result, u, tag)
    BY <1>1, <1>3, <1>4 DEF Stands
  <1>6. QED
    BY <1>1, <1>5 DEF result

\* Choosing the outbound of a client: the rules of the others stand, and a rule that is made
\* for it does.
LEMMA ChoiceKeeps ==
  ASSUME NEW rules \in Seq(FineRules), NEW v \in Users, NEW tag \in AllTags
  PROVE  /\ RulesWithClient(rules, v, tag) \in Seq(FineRules)
         /\ \A u \in Users, out \in AllTags :
               u # v /\ Stands(rules, u, out) => Stands(RulesWithClient(rules, v, tag), u, out)
         /\ FindRule(rules, v, tag) = 0 => Stands(RulesWithClient(rules, v, tag), v, tag)
  <1> DEFINE k == FindRule(rules, v, tag)
             new == [users |-> {v}, ins |-> {InboundOf[v]}, out |-> tag]
             result == RulesWithClient(rules, v, tag)
  <1>1. k \in 0..Len(rules)
    BY FirstRule
  <1>2. CASE k # 0
    <2>1. result = [rules EXCEPT ![k] = JoinRule(rules[k], v)]
      BY <1>2 DEF RulesWithClient
    <2> HIDE DEF k, result
    <2>2. k \in 1..Len(rules) /\ rules[k] \in FineRules
      BY <1>1, <1>2
    <2>3. /\ JoinRule(rules[k], v) \in FineRules /\ JoinRule(rules[k], v).out = rules[k].out
          /\ rules[k].users \subseteq JoinRule(rules[k], v).users
          /\ \A u \in Users \ {v} : Matches(JoinRule(rules[k], v), u) => Matches(rules[k], u)
      BY <2>2, JoinKeeps
    <2>4. result \in Seq(FineRules)
      BY <2>1, <2>2, <2>3
    <2>5. ASSUME NEW u \in Users, NEW out \in AllTags, u # v, Stands(rules, u, out) PROVE Stands(result, u, out)
      BY <2>1, <2>2, <2>3, <2>5, ReplacedStands
    <2>6. QED
      BY <2>4, <2>5, <1>2 DEF k, result
  <1>3. CASE k = 0
    <2>1. result = InsertAt(rules, NewRuleIndex(rules), new)
      BY <1>3 DEF RulesWithClient
    <2>2. new \in FineRules /\ new.out = tag /\ v \in new.users /\ \A u \in Users : u # v => ~Matches(new, u)
      BY InboundsAre DEF FineRules, Matches
    <2> HIDE DEF new, result
    <2>3. result \in Seq(FineRules) /\ Stands(result, v, tag)
      BY <2>1, <2>2, NewRuleStands
    <2>4. ASSUME NEW u \in Users, NEW out \in AllTags, u # v, Stands(rules, u, out) PROVE Stands(result, u, out)
      BY <2>1, <2>2, <2>4, NewRuleStands
    <2>5. QED
      BY <2>3, <2>4 DEF result
  <1>4. QED
    BY <1>2, <1>3
-------------------------------------------------------------------------------
Keeps(g, rules, ins) ==
    g = [n \in 0..Len(rules) |-> IF n = 0 THEN <<>>
                                 ELSE IF \E i \in ins : IsWide(rules[n], i) THEN g[n - 1]
                                 ELSE Append(g[n - 1], rules[n])]

\* Rules are taken out one after the other.
LEMMA KeptIs ==
  ASSUME NEW rules \in Seq(FineRules), NEW ins
  PROVE  \E g : Keeps(g, rules, ins) /\ WithoutWide(rules, ins) = g[Len(rules)]
  <1> DEFINE N == Len(rules)
             T == Seq(FineRules)
             Step(n, s) == IF \E i \in ins : IsWide(rules[n], i) THEN s ELSE Append(s, rules[n])
             step == [x \in (1..N) \X T |-> Step(x[1], x[2])]
  <1>1. N \in Nat /\ <<>> \in T
    OBVIOUS
  <1>2. \A n \in 1..N, s \in T : Step(n, s) \in T /\ step[<<n, s>>] = Step(n, s)
    OBVIOUS
  <1>3. step \in [(1..N) \X T -> T]
    BY <1>2
  <1> HIDE DEF step
  <1>4. PICK g : Iterates(g, N, T, <<>>, step)
    BY <1>1, <1>3, IterationExists
  <1>5. ASSUME NEW n \in 0..N
        PROVE  g[n] = IF n = 0 THEN <<>> ELSE Step(n, g[n - 1])
    <2>1. CASE n = 0
      BY <1>4, <2>1 DEF Iterates
    <2>2. CASE n # 0
      <3>1. n \in 1..N /\ n - 1 \in 0..N
        BY <1>1, <2>2
      <3>2. g[n] = step[<<n, g[n - 1]>>] /\ g[n - 1] \in T
        BY <1>4, <3>1 DEF Iterates
      <3>3. g[n] = Step(n, g[n - 1])
        BY <1>2, <3>1, <3>2
      <3>4. QED
        BY <2>2, <3>3
    <2>3. QED
      BY <2>1, <2>2
  <1>6. g = [n \in 0..N |-> g[n]]
    BY <1>4 DEF Iterates
  <1>7. g = [n \in 0..N |-> IF n = 0 THEN <<>> ELSE Step(n, g[n - 1])]
    BY <1>5, <1>6
  <1>8. \E h : Keeps(h, rules, ins)
    BY <1>7 DEF Keeps
  <1> DEFINE some == CHOOSE h : Keeps(h, rules, ins)
  <1>9. Keeps(some, rules, ins)
    BY <1>8
  <1>10. WithoutWide(rules, ins) = some[Len(rules)]
    BY DEF WithoutWide, Keeps
  <1> HIDE DEF some
  <1>11. QED
    BY <1>9, <1>10

\* A rule behind others.
LEMMA AppendStands ==
  ASSUME NEW s \in Seq(FineRules), NEW new \in FineRules, NEW u, NEW tag
  PROVE  /\ Append(s, new) \in Seq(FineRules)
         /\ Stands(s, u, tag) => Stands(Append(s, new), u, tag)
         /\ Quiet(s, u) /\ ~Matches(new, u) => Quiet(Append(s, new), u)
         /\ Quiet(s, u) /\ u \in new.users /\ new.out = tag => Stands(Append(s, new), u, tag)
  <1> DEFINE r == Append(s, new)
             n == Len(s)
  <1>1. /\ n \in Nat /\ r \in Seq(FineRules) /\ Len(r) = n + 1
        /\ r[n + 1] = new /\ \A i \in 1..n : r[i] = s[i]
    OBVIOUS
  <1> HIDE DEF r, n
  <1>2. ASSUME Stands(s, u, tag) PROVE Stands(r, u, tag)
    <2>1. PICK k \in 1..n : u \in s[k].users /\ s[k].out = tag /\ \A j \in 1..(k - 1) : ~Matches(s[j], u)
      BY <1>2 DEF Stands, n
    <2>2. k \in 1..(n + 1) /\ r[k] = s[k] /\ \A j \in 1..(k - 1) : j \in 1..n /\ r[j] = s[j]
      BY <1>1
    <2>3. QED
      BY <1>1, <2>1, <2>2 DEF Stands
  <1>3. ASSUME Quiet(s, u), ~Matches(new, u) PROVE Quiet(r, u)
    <2>1. \A j \in 1..n : ~Matches(s[j], u)
      BY <1>3 DEF Quiet, n
    <2>2. \A j \in 1..(n + 1) : j \in 1..n \/ j = n + 1
      BY <1>1
    <2>3. QED
      BY <1>1, <1>3, <2>1, <2>2 DEF Quiet
  <1>4. ASSUME Quiet(s, u), u \in new.users, new.out = tag PROVE Stands(r, u, tag)
    <2>1. \A j \in 1..n : ~Matches(s[j], u)
      BY <1>4 DEF Quiet, n
    <2>2. n + 1 \in 1..(n + 1) /\ \A j \in 1..((n + 1) - 1) : j \in 1..n
      BY <1>1
    <2>3. QED
      BY <1>1, <1>4, <2>1, <2>2 DEF Stands
  <1>5. QED
    BY <1>1, <1>2, <1>3, <1>4 DEF r

\* The rules that name clients are not wide: they stay, in their order.
LEMMA WithoutWideKeeps ==
  ASSUME NEW rules \in Seq(FineRules), NEW ins
  PROVE  /\ WithoutWide(rules, ins) \in Seq(FineRules)
         /\ \A u \in Users, tag \in AllTags :
               Stands(rules, u, tag) => Stands(WithoutWide(rules, ins), u, tag)
  <1>1. PICK g : Keeps(g, rules, ins) /\ WithoutWide(rules, ins) = g[Len(rules)]
    BY KeptIs
  <1> DEFINE N == Len(rules)
  <1>3. N \in Nat /\ \A n \in 1..N : rules[n] \in FineRules
    OBVIOUS
  <1> HIDE DEF N
  <1>2. /\ g[0] = <<>>
        /\ \A n \in 1..N : g[n] = IF \E i \in ins : IsWide(rules[n], i) THEN g[n - 1] ELSE Append(g[n - 1], rules[n])
    <2>1. \A n \in 0..N : g[n] = IF n = 0 THEN <<>>
                                 ELSE IF \E i \in ins : IsWide(rules[n], i) THEN g[n - 1]
                                 ELSE Append(g[n - 1], rules[n])
      BY <1>1 DEF Keeps, N
    <2>2. 0 \in 0..N /\ \A n \in 1..N : n \in 0..N /\ n # 0
      BY <1>3
    <2>3. QED
      BY <2>1, <2>2
  <1>4. \A n \in 0..N : g[n] \in Seq(FineRules)
    <2> DEFINE Bad == {n \in 0..N : g[n] \notin Seq(FineRules)}
    <2>1. ASSUME Bad # {} PROVE FALSE
      <3>1. Bad \subseteq Nat
        OBVIOUS
      <3> HIDE DEF Bad
      <3>2. PICK n \in Bad : \A m \in Bad : n <= m
        BY <2>1, <3>1, LeastOf
      <3> USE DEF Bad
      <3>3. n # 0
        <4>1. g[0] \in Seq(FineRules)
          BY <1>2
        <4>2. QED
          BY <3>2, <4>1
      <3>4. n \in 1..N /\ n - 1 \in 0..N /\ ~(n <= n - 1)
        BY <1>3, <3>3
      <3>5. g[n - 1] \in Seq(FineRules)
        BY <3>2, <3>4
      <3>6. g[n] \in Seq(FineRules)
        <4>1. Append(g[n - 1], rules[n]) \in Seq(FineRules)
          BY <1>3, <3>4, <3>5
        <4>2. g[n] = g[n - 1] \/ g[n] = Append(g[n - 1], rules[n])
          BY <1>2, <3>4
        <4>3. QED
          BY <3>5, <4>1, <4>2
      <3>7. QED
        BY <3>2, <3>6
    <2>2. QED
      BY <2>1
  <1>5. ASSUME NEW u \in Users, NEW tag \in AllTags, Stands(rules, u, tag)
        PROVE  Stands(g[N], u, tag)
    <2>1. PICK k \in 1..N : u \in rules[k].users /\ rules[k].out = tag /\ \A j \in 1..(k - 1) : ~Matches(rules[j], u)
      BY <1>5 DEF Stands, N
    <2> DEFINE Good(n) == IF n < k THEN Quiet(g[n], u) ELSE Stands(g[n], u, tag)
               Bad == {n \in 0..N : ~Good(n)}
    <2>2. ASSUME Bad # {} PROVE FALSE
      <3>1. Bad \subseteq Nat
        OBVIOUS
      <3> HIDE DEF Bad
      <3>2. PICK n \in Bad : \A m \in Bad : n <= m
        BY <2>2, <3>1, LeastOf
      <3> USE DEF Bad
      <3>3. n # 0
        BY <1>2, <2>1, <3>2 DEF Quiet
      <3>4. n \in 1..N /\ n - 1 \in 0..N /\ ~(n <= n - 1) /\ n \in Nat /\ k \in Nat
        BY <1>3, <2>1, <3>3
      <3>5. Good(n - 1) /\ ~Good(n)
        BY <3>2, <3>4
      <3>6. /\ g[n - 1] \in Seq(FineRules) /\ rules[n] \in FineRules
            /\ g[n] = IF \E i \in ins : IsWide(rules[n], i) THEN g[n - 1] ELSE Append(g[n - 1], rules[n])
        BY <1>2, <1>3, <1>4, <3>4
      <3> HIDE DEF Bad, Good
      <3>7. CASE n < k
        <4>1. ~Matches(rules[n], u)
          BY <2>1, <3>4, <3>7
        <4>2. Quiet(g[n - 1], u)
          BY <3>4, <3>5, <3>7 DEF Good
        <4>3. Quiet(Append(g[n - 1], rules[n]), u)
          BY <3>6, <4>1, <4>2, AppendStands
        <4>4. Quiet(g[n], u)
          BY <3>6, <4>2, <4>3
        <4>5. QED
          BY <3>5, <3>7, <4>4 DEF Good
      <3>8. CASE n = k
        <4>1. ~\E i \in ins : IsWide(rules[n], i)
          BY <2>1, <3>8 DEF IsWide
        <4>2. Quiet(g[n - 1], u)
          BY <3>4, <3>5, <3>8 DEF Good
        <4>3. Stands(Append(g[n - 1], rules[n]), u, tag)
          BY <2>1, <3>6, <3>8, <4>2, AppendStands
        <4>4. QED
          BY <3>4, <3>5, <3>6, <3>8, <4>1, <4>3 DEF Good
      <3>9. CASE n > k
        <4>1. Stands(g[n - 1], u, tag)
          BY <3>4, <3>5, <3>9 DEF Good
        <4>2. Stands(Append(g[n - 1], rules[n]), u, tag)
          BY <3>6, <4>1, AppendStands
        <4>3. Stands(g[n], u, tag)
          BY <3>6, <4>1, <4>2
        <4>4. QED
          BY <3>4, <3>5, <3>9, <4>3 DEF Good
      <3>10. QED
        BY <3>4, <3>7, <3>8, <3>9
    <2>3. N \notin Bad /\ N \in 0..N /\ ~(N < k)
      BY <1>3, <2>1, <2>2
    <2>4. QED
      BY <2>3
  <1>6. QED
    BY <1>1, <1>3, <1>4, <1>5 DEF N
-------------------------------------------------------------------------------
\* Room for an inbound is made where only its own clients see it.
LEMMA WidenKeeps ==
  ASSUME NEW rules \in Seq(FineRules), NEW i \in ToSet(Inbounds), NEW changing, NEW tag \in AllTags
  PROVE  /\ Widen(rules, i, changing, tag) \in Seq(FineRules)
         /\ \A u \in Users, out \in AllTags :
               InboundOf[u] # i /\ Stands(rules, u, out) => Stands(Widen(rules, i, changing, tag), u, out)
  <1> DEFINE I == {k \in 1..Len(rules) : rules[k].out = tag /\ (rules[k].ins = {} \/ i \in rules[k].ins)}
             k == IF I # {} THEN Min(I) ELSE 0
             kept == WithoutWide(rules, changing)
             new == [users |-> {}, ins |-> {i}, out |-> tag]
             result == Widen(rules, i, changing, tag)
  <1>1. k \in I \/ (I = {} /\ k = 0)
    <2>1. I \subseteq Nat
      OBVIOUS
    <2> HIDE DEF I
    <2>2. I # {} => Min(I) \in I
      BY <2>1, FirstOf
    <2>3. QED
      BY <2>2
  <1>2. result = IF k # 0 THEN [rules EXCEPT ![k].ins = @ \cup {i}] ELSE InsertAt(kept, NewRuleIndex(kept), new)
    BY DEF Widen, SelectInSeq
  <1>3. i \in AllIns
    BY DEF AllIns
  <1> HIDE DEF k, result
  <1>4. CASE k # 0
    <2>1. k \in 1..Len(rules) /\ rules[k] \in FineRules /\ (rules[k].ins = {} \/ i \in rules[k].ins)
      BY <1>1, <1>4
    <2> DEFINE old == rules[k]
               wider == [old EXCEPT !.ins = @ \cup {i}]
    <2>2. result = [rules EXCEPT ![k] = wider]
      BY <1>2, <1>4
    <2>3. /\ wider.users = old.users /\ wider.out = old.out /\ wider.ins = old.ins \cup {i}
          /\ wider \in FineRules
      <3>1. old \in [users : SUBSET Users, ins : SUBSET AllIns, out : AllTags]
        BY <2>1 DEF FineRules
      <3> HIDE DEF old
      <3>2. /\ wider \in [users : SUBSET Users, ins : SUBSET AllIns, out : AllTags]
            /\ wider.users = old.users /\ wider.out = old.out /\ wider.ins = old.ins \cup {i}
        BY <1>3, <3>1
      <3> HIDE DEF wider
      <3>3. \A u \in wider.users : InboundOf[u] \in wider.ins
        BY <2>1, <3>2, FineRule DEF old
      <3>4. QED
        BY <3>2, <3>3 DEF FineRules
    <2> HIDE DEF wider
    <2>4. ASSUME NEW u \in Users, NEW out \in AllTags, InboundOf[u] # i, Stands(rules, u, out)
          PROVE  Stands(result, u, out)
      <3>1. Matches(wider, u) => Matches(old, u)
        BY <2>1, <2>3, <2>4 DEF Matches
      <3>2. QED
        BY <2>1, <2>2, <2>3, <2>4, <3>1, ReplacedStands
    <2>5. result \in Seq(FineRules)
      BY <2>1, <2>2, <2>3
    <2>6. QED
      BY <2>4, <2>5 DEF result
  <1>5. CASE k = 0
    <2>1. /\ kept \in Seq(FineRules)
          /\ \A u \in Users, out \in AllTags : Stands(rules, u, out) => Stands(kept, u, out)
      BY WithoutWideKeeps
    <2>2. new \in FineRules /\ \A u \in Users : InboundOf[u] # i => ~Matches(new, u)
      BY <1>3 DEF FineRules, Matches
    <2>3. result = InsertAt(kept, NewRuleIndex(kept), new)
      BY <1>2, <1>5
    <2> HIDE DEF new, kept
    <2>4. ASSUME NEW u \in Users, NEW out \in AllTags, InboundOf[u] # i, Stands(rules, u, out)
          PROVE  Stands(result, u, out)
      BY <2>1, <2>2, <2>3, <2>4, NewRuleStands
    <2>5. result \in Seq(FineRules)
      <3>1. NewRuleIndex(kept) \in 1..(Len(kept) + 1)
        BY <2>1 DEF NewRuleIndex
      <3>2. QED
        BY <2>1, <2>2, <2>3, <3>1, PutIn
    <2>6. QED
      BY <2>4, <2>5 DEF result
  <1>6. QED
    BY <1>4, <1>5

Widens(g, rules, ins, tag) ==
    LET changing == {i \in ins : ~HasDefault(rules, i, tag)}
    IN  g = [n \in 0..Len(Inbounds) |->
                IF n = 0 THEN rules
                ELSE IF Inbounds[n] \in changing THEN Widen(g[n - 1], Inbounds[n], changing, tag)
                ELSE g[n - 1]]

\* A default is set for one inbound after the other.
LEMMA WidenedIs ==
  ASSUME NEW rules \in Seq(FineRules), NEW ins, NEW tag \in AllTags
  PROVE  \E g : Widens(g, rules, ins, tag) /\ RulesWithDefault(rules, ins, tag) = g[Len(Inbounds)]
  <1> DEFINE N == Len(Inbounds)
             T == Seq(FineRules)
             changing == {i \in ins : ~HasDefault(rules, i, tag)}
             Step(n, s) == IF Inbounds[n] \in changing THEN Widen(s, Inbounds[n], changing, tag) ELSE s
             step == [x \in (1..N) \X T |-> Step(x[1], x[2])]
  <1>1. N \in Nat /\ \A n \in 1..N : Inbounds[n] \in ToSet(Inbounds)
    BY InboundsAre
  <1>2. \A n \in 1..N, s \in T : Step(n, s) \in T /\ step[<<n, s>>] = Step(n, s)
    <2> TAKE n \in 1..N, s \in T
    <2> HIDE DEF changing
    <2>1. Widen(s, Inbounds[n], changing, tag) \in T
      BY <1>1, WidenKeeps
    <2>2. QED
      BY <2>1
  <1> HIDE DEF changing
  <1>3. step \in [(1..N) \X T -> T]
    BY <1>2
  <1> HIDE DEF step
  <1>4. PICK g : Iterates(g, N, T, rules, step)
    BY <1>1, <1>3, IterationExists
  <1>5. ASSUME NEW n \in 0..N
        PROVE  g[n] = IF n = 0 THEN rules ELSE Step(n, g[n - 1])
    <2>1. CASE n = 0
      BY <1>4, <2>1 DEF Iterates
    <2>2. CASE n # 0
      <3>1. n \in 1..N /\ n - 1 \in 0..N
        BY <1>1, <2>2
      <3>2. g[n] = step[<<n, g[n - 1]>>] /\ g[n - 1] \in T
        BY <1>4, <3>1 DEF Iterates
      <3>3. g[n] = Step(n, g[n - 1])
        BY <1>2, <3>1, <3>2
      <3>4. QED
        BY <2>2, <3>3
    <2>3. QED
      BY <2>1, <2>2
  <1>6. g = [n \in 0..N |-> g[n]]
    BY <1>4 DEF Iterates
  <1>7. g = [n \in 0..N |-> IF n = 0 THEN rules ELSE Step(n, g[n - 1])]
    BY <1>5, <1>6
  <1>8. \E h : Widens(h, rules, ins, tag)
    BY <1>7 DEF Widens, changing
  <1> DEFINE some == CHOOSE h : Widens(h, rules, ins, tag)
  <1>9. Widens(some, rules, ins, tag)
    BY <1>8
  <1>10. RulesWithDefault(rules, ins, tag) = some[Len(Inbounds)]
    BY DEF RulesWithDefault, Widens
  <1> HIDE DEF some
  <1>11. QED
    BY <1>9, <1>10

\* A default is of no concern to the clients of other inbounds that have a rule of their own.
LEMMA DefaultKeeps ==
  ASSUME NEW rules \in Seq(FineRules), NEW ins, NEW tag \in AllTags
  PROVE  /\ RulesWithDefault(rules, ins, tag) \in Seq(FineRules)
         /\ \A u \in Users, out \in AllTags :
               InboundOf[u] \notin ins /\ Stands(rules, u, out)
                  => Stands(RulesWithDefault(rules, ins, tag), u, out)
  <1> DEFINE N == Len(Inbounds)
             changing == {i \in ins : ~HasDefault(rules, i, tag)}
  <1>1. PICK g : Widens(g, rules, ins, tag) /\ RulesWithDefault(rules, ins, tag) = g[N]
    BY WidenedIs
  <1>2. N \in Nat /\ \A n \in 1..N : Inbounds[n] \in ToSet(Inbounds)
    BY InboundsAre
  <1>3. /\ g[0] = rules
        /\ \A n \in 1..N : g[n] = IF Inbounds[n] \in changing THEN Widen(g[n - 1], Inbounds[n], changing, tag)
                                  ELSE g[n - 1]
    <2>1. \A n \in 0..N : g[n] = IF n = 0 THEN rules
                                 ELSE IF Inbounds[n] \in changing THEN Widen(g[n - 1], Inbounds[n], changing, tag)
                                 ELSE g[n - 1]
      BY <1>1 DEF Widens
    <2>2. 0 \in 0..N /\ \A n \in 1..N : n \in 0..N /\ n # 0
      BY <1>2
    <2> HIDE DEF N, changing
    <2>3. QED
      BY <2>1, <2>2
  <1>4. changing \subseteq ins
    OBVIOUS
  <1> HIDE DEF N, changing
  <1> DEFINE Good(s) == /\ s \in Seq(FineRules)
                        /\ \A u \in Users, out \in AllTags :
                              InboundOf[u] \notin ins /\ Stands(rules, u, out) => Stands(s, u, out)
             Bad == {n \in 0..N : ~Good(g[n])}
  <1>5. ASSUME Bad # {} PROVE FALSE
    <2>1. Bad \subseteq Nat
      OBVIOUS
    <2> HIDE DEF Bad
    <2>2. PICK n \in Bad : \A m \in Bad : n <= m
      BY <1>5, <2>1, LeastOf
    <2> USE DEF Bad
    <2>3. n # 0
      <3>1. Good(g[0])
        BY <1>3
      <3> HIDE DEF Good
      <3>2. QED
        BY <2>2, <3>1
    <2>4. n \in 1..N /\ n - 1 \in 0..N /\ ~(n <= n - 1)
      BY <1>2, <2>2, <2>3
    <2> HIDE DEF Good
    <2>5. Good(g[n - 1])
      BY <2>2, <2>4
    <2>6. CASE Inbounds[n] \in changing
      <3>1. g[n] = Widen(g[n - 1], Inbounds[n], changing, tag) /\ Inbounds[n] \in ToSet(Inbounds)
        BY <1>2, <1>3, <2>4, <2>6
      <3>2. /\ g[n] \in Seq(FineRules)
            /\ \A u \in Users, out \in AllTags : InboundOf[u] # Inbounds[n] /\ Stands(g[n - 1], u, out) => Stands(g[n], u, out)
        BY <2>5, <3>1, WidenKeeps DEF Good
      <3>3. Inbounds[n] \in ins
        BY <1>4, <2>6
      <3>4. Good(g[n])
        BY <2>5, <3>2, <3>3 DEF Good
      <3>5. QED
        BY <2>2, <3>4
    <2>7. CASE Inbounds[n] \notin changing
      <3>1. g[n] = g[n - 1]
        BY <1>3, <2>4, <2>7
      <3>2. QED
        BY <2>2, <2>5, <3>1
    <2>8. QED
      BY <2>6, <2>7
  <1>6. N \in 0..N
    BY <1>2
  <1> HIDE DEF Good
  <1>7. Good(g[N])
    BY <1>5, <1>6
  <1>8. QED
    BY <1>1, <1>7 DEF Good
-------------------------------------------------------------------------------
Configs == [outs : SUBSET AllTags, rules : Seq(FineRules)]

\* The calls that write the configuration, each right behind the one that reads it.
Writes == {"write client", "write default", "write outbound", "reload"}
Follows(todo) == \A k \in 2..Len(todo) : todo[k] \in Writes => todo[k - 1] = "read"

CallNames == Writes \cup {"allowed", "read", "restart", "own"}
Jobs == [todo : Seq(CallNames), delegated : BOOLEAN, u : Users \cup {"none"}, tag : AllTags,
         ins : SUBSET ToSet(Inbounds), cfg : Configs]

FitJob(t) == /\ t \in Jobs
             /\ t.todo = <<>> => t = Rest
             /\ Follows(t.todo)
             /\ \A k \in 1..Len(t.todo) : t.todo[k] = "write client" => t.u \in Users

RoutingTyped ==
    /\ xray \in Configs
    /\ mixed \in BOOLEAN
    /\ first \subseteq Users \X AllTags
    /\ task = [r \in Routers |-> task[r]]
    /\ \A r \in Routers : FitJob(task[r])

\* Whoever is about to write has read what is there.
Alone == \A q, r \in Routers : task[q] # Rest /\ task[r] # Rest => q = r
Fresh == \A r \in Routers : task[r].todo # <<>> /\ Head(task[r].todo) \in Writes => task[r].cfg = xray

RoutingInv ==
    /\ RoutingTyped
    /\ ~mixed => /\ Alone
                 /\ Fresh
                 /\ \A p \in first : Stands(xray.rules, p[1], p[2])
                 /\ added \subseteq xray.outs
-------------------------------------------------------------------------------
Placed(t) == IF t.todo = <<>> THEN Rest ELSE t

\* A request that does nothing is fit.
LEMMA RestFits == FitJob(Rest)
  <1>1. Rest \in Jobs
    <2>1. <<>> \in Seq(CallNames) /\ <<>> \in Seq(FineRules) /\ Direct \in AllTags
      BY DEF AllTags
    <2>2. QED
      BY <2>1 DEF Rest, Jobs, Configs
  <1>2. Rest.todo = <<>> /\ Len(Rest.todo) = 0 /\ 1..0 = {} /\ 2..0 = {}
    BY DEF Rest
  <1>3. Follows(Rest.todo) /\ \A k \in 1..Len(Rest.todo) : Rest.todo[k] = "write client" => Rest.u \in Users
    BY <1>2 DEF Follows
  <1>4. QED
    BY <1>1, <1>3 DEF FitJob

\* How the plans begin.
LEMMA Begins ==
  /\ SetClientLocation # <<>> /\ Head(SetClientLocation) = "allowed"
  /\ SetDefaultLocation # <<>> /\ Head(SetDefaultLocation) = "allowed"
  /\ AddOutbound # <<>> /\ Head(AddOutbound) = "read"
  <1>1. SetClientLocation # <<>> /\ SetDefaultLocation # <<>> /\ AddOutbound # <<>>
    BY DEF SetClientLocation, SetDefaultLocation, AddOutbound
  <1>2. Head(SetClientLocation) = "allowed"
    BY DEF SetClientLocation
  <1>3. Head(SetDefaultLocation) = "allowed"
    BY DEF SetDefaultLocation
  <1>4. Head(AddOutbound) = "read"
    BY DEF AddOutbound
  <1>5. QED
    BY <1>1, <1>2, <1>3, <1>4

\* The calls of the plans, one after the other.
LEMMA Calls ==
  /\ SetClientLocation \in Seq(CallNames) /\ Len(SetClientLocation) = 6
  /\ SetClientLocation[1] = "allowed" /\ SetClientLocation[2] = "read" /\ SetClientLocation[3] = "write client"
  /\ SetClientLocation[4] = "restart" /\ SetClientLocation[5] = "read" /\ SetClientLocation[6] = "reload"
  /\ SetDefaultLocation \in Seq(CallNames) /\ Len(SetDefaultLocation) = 4
  /\ SetDefaultLocation[1] = "allowed" /\ SetDefaultLocation[2] = "read"
  /\ SetDefaultLocation[3] = "write default" /\ SetDefaultLocation[4] = "restart"
  /\ AddOutbound \in Seq(CallNames) /\ Len(AddOutbound) = 3
  /\ AddOutbound[1] = "read" /\ AddOutbound[2] = "write outbound" /\ AddOutbound[3] = "own"
  <1>1. /\ SetClientLocation \in Seq(CallNames) /\ Len(SetClientLocation) = 6
        /\ SetDefaultLocation \in Seq(CallNames) /\ Len(SetDefaultLocation) = 4
        /\ AddOutbound \in Seq(CallNames) /\ Len(AddOutbound) = 3
    <2>1. SetClientLocation \in Seq(CallNames) /\ SetDefaultLocation \in Seq(CallNames) /\ AddOutbound \in Seq(CallNames)
      BY DEF SetClientLocation, SetDefaultLocation, AddOutbound, CallNames, Writes
    <2>2. Len(SetClientLocation) = 6 /\ Len(SetDefaultLocation) = 4 /\ Len(AddOutbound) = 3
      BY DEF SetClientLocation, SetDefaultLocation, AddOutbound
    <2>3. QED
      BY <2>1, <2>2
  <1>2. /\ SetClientLocation[1] = "allowed" /\ SetClientLocation[2] = "read" /\ SetClientLocation[3] = "write client"
        /\ SetClientLocation[4] = "restart" /\ SetClientLocation[5] = "read" /\ SetClientLocation[6] = "reload"
    BY DEF SetClientLocation
  <1>3. /\ SetDefaultLocation[1] = "allowed" /\ SetDefaultLocation[2] = "read"
        /\ SetDefaultLocation[3] = "write default" /\ SetDefaultLocation[4] = "restart"
    BY DEF SetDefaultLocation
  <1>4. AddOutbound[1] = "read" /\ AddOutbound[2] = "write outbound" /\ AddOutbound[3] = "own"
    BY DEF AddOutbound
  <1>5. QED
    BY <1>1, <1>2, <1>3, <1>4

\* A new job is fit, and begins with no write.
LEMMA PlansFit ==
  ASSUME NEW t \in Jobs,
         \/ t.todo = SetClientLocation /\ t.u \in Users
         \/ t.todo = SetDefaultLocation
         \/ t.todo = AddOutbound
  PROVE  FitJob(Placed(t)) /\ Head(t.todo) \notin Writes
  <1>1. CASE t.todo = SetClientLocation /\ t.u \in Users
    <2>1. \A k \in 2..6 : SetClientLocation[k] \in Writes => SetClientLocation[k - 1] = "read"
      <3>1. ASSUME NEW k \in 2..6 PROVE k = 2 \/ (k = 3 /\ k - 1 = 2) \/ k = 4 \/ k = 5 \/ (k = 6 /\ k - 1 = 5)
        OBVIOUS
      <3>2. QED
        BY <3>1, Calls DEF Writes
    <2>2. t.todo # <<>> /\ Head(t.todo) \notin Writes
      <3>1. SetClientLocation # <<>> /\ Head(SetClientLocation) = "allowed"
        BY Begins
      <3>2. QED
        BY <1>1, <3>1 DEF Writes
    <2>3. QED
      BY <1>1, <2>1, <2>2, Calls DEF FitJob, Placed, Follows
  <1>2. CASE t.todo = SetDefaultLocation
    <2>1. ASSUME NEW k \in 1..4 PROVE k = 1 \/ k = 2 \/ (k = 3 /\ k - 1 = 2) \/ k = 4
      OBVIOUS
    <2>2. /\ \A k \in 2..4 : SetDefaultLocation[k] \in Writes => SetDefaultLocation[k - 1] = "read"
          /\ \A k \in 1..4 : SetDefaultLocation[k] # "write client"
      <3>1. \A k \in 2..4 : k \in 1..4
        OBVIOUS
      <3>2. QED
        BY <2>1, <3>1, Calls DEF Writes
    <2>3. t.todo # <<>> /\ Head(t.todo) \notin Writes
      <3>1. SetDefaultLocation # <<>> /\ Head(SetDefaultLocation) = "allowed"
        BY Begins
      <3>2. QED
        BY <1>2, <3>1 DEF Writes
    <2>4. QED
      BY <1>2, <2>2, <2>3, Calls DEF FitJob, Placed, Follows
  <1>3. CASE t.todo = AddOutbound
    <2>1. ASSUME NEW k \in 1..3 PROVE k = 1 \/ (k = 2 /\ k - 1 = 1) \/ k = 3
      OBVIOUS
    <2>2. /\ \A k \in 2..3 : AddOutbound[k] \in Writes => AddOutbound[k - 1] = "read"
          /\ \A k \in 1..3 : AddOutbound[k] # "write client"
      <3>1. \A k \in 2..3 : k \in 1..3
        OBVIOUS
      <3>2. QED
        BY <2>1, <3>1, Calls DEF Writes
    <2>3. t.todo # <<>> /\ Head(t.todo) \notin Writes
      <3>1. AddOutbound # <<>> /\ Head(AddOutbound) = "read"
        BY Begins
      <3>2. QED
        BY <1>3, <3>1 DEF Writes
    <2>4. QED
      BY <1>3, <2>2, <2>3, Calls DEF FitJob, Placed, Follows
  <1>4. QED
    BY <1>1, <1>2, <1>3

\* A job goes on with its next call, which writes only right after the one that reads.
LEMMA AdvanceFits ==
  ASSUME NEW t, FitJob(t), t.todo # <<>>, NEW n \in Jobs, n.todo = Tail(t.todo), n.u = t.u
  PROVE  FitJob(Placed(n)) /\ (n.todo # <<>> /\ Head(n.todo) \in Writes => Head(t.todo) = "read")
  <1> DEFINE L == Len(t.todo)
  <1>1. t.todo \in Seq(CallNames) /\ L \in Nat /\ L >= 1
    <2>1. t.todo \in Seq(CallNames)
      BY DEF FitJob, Jobs
    <2>2. QED
      BY <2>1
  <1>2. Len(n.todo) = L - 1 /\ \A k \in 1..(L - 1) : n.todo[k] = t.todo[k + 1]
    BY <1>1
  <1>3. CASE n.todo = <<>>
    BY <1>3, RestFits DEF Placed
  <1>4. CASE n.todo # <<>>
    <2>1. \A k \in 2..Len(t.todo) : t.todo[k] \in Writes => t.todo[k - 1] = "read"
      BY DEF FitJob, Follows
    <2> HIDE DEF L
    <2>2. \A k \in 1..(L - 1) : t.todo[k + 1] \in Writes => t.todo[k] = "read"
      <3> TAKE k \in 1..(L - 1)
      <3>1. k + 1 \in 2..Len(t.todo) /\ (k + 1) - 1 = k
        BY <1>1 DEF L
      <3>2. QED
        BY <2>1, <3>1
    <2>3. Follows(n.todo)
      <3>1. ASSUME NEW k \in 2..Len(n.todo), n.todo[k] \in Writes PROVE n.todo[k - 1] = "read"
        <4>1. k \in 1..(L - 1) /\ k - 1 \in 1..(L - 1) /\ (k - 1) + 1 = k
          BY <1>1, <1>2
        <4>2. t.todo[k + 1] \in Writes /\ n.todo[k - 1] = t.todo[k]
          BY <1>2, <3>1, <4>1
        <4>3. QED
          BY <2>2, <4>1, <4>2
      <3>2. QED
        BY <3>1 DEF Follows
    <2>4. \A k \in 1..Len(n.todo) : n.todo[k] = "write client" => n.u \in Users
      <3> TAKE k \in 1..Len(n.todo)
      <3>1. k + 1 \in 1..Len(t.todo) /\ n.todo[k] = t.todo[k + 1]
        BY <1>1, <1>2 DEF L
      <3>2. QED
        BY <3>1 DEF FitJob
    <2>5. FitJob(n)
      BY <1>4, <2>3, <2>4 DEF FitJob
    <2>6. n.todo \in Seq(CallNames)
      BY DEF Jobs
    <2>7. Head(n.todo) = n.todo[1] /\ Head(t.todo) = t.todo[1] /\ 1 \in 1..(L - 1)
      BY <1>1, <1>2, <1>4, <2>6
    <2>8. Head(n.todo) \in Writes => Head(t.todo) = "read"
      BY <1>2, <2>2, <2>7
    <2>9. QED
      BY <1>4, <2>5, <2>8 DEF Placed
  <1>5. QED
    BY <1>3, <1>4

\* One request moves while the others rest.
LEMMA OneMoves ==
  ASSUME RoutingTyped, NEW r \in Routers, NEW t, Sets(r, t), FitJob(Placed(t))
  PROVE  /\ task' = [q \in Routers |-> task'[q]] /\ \A q \in Routers : FitJob(task'[q])
         /\ /\ \A q \in Routers : q # r => task[q] = Rest
            /\ t.todo # <<>> /\ Head(t.todo) \in Writes => t.cfg = xray'
            => Alone' /\ Fresh'
  <1>1. /\ task = [q \in Routers |-> task[q]] /\ task' = [task EXCEPT ![r] = Placed(t)]
        /\ \A q \in Routers : FitJob(task[q])
    BY DEF RoutingTyped, Sets, Placed
  <1>2. task' = [q \in Routers |-> task'[q]] /\ \A q \in Routers : task'[q] = IF q = r THEN Placed(t) ELSE task[q]
    BY <1>1
  <1>3. ASSUME \A q \in Routers : q # r => task[q] = Rest,
               t.todo # <<>> /\ Head(t.todo) \in Writes => t.cfg = xray'
        PROVE  Alone' /\ Fresh'
    <2>1. \A q \in Routers : q # r => task'[q] = Rest
      BY <1>2, <1>3
    <2>2. Alone'
      BY <2>1 DEF Alone
    <2>3. Rest.todo = <<>>
      BY DEF Rest
    <2>4. task'[r] = Placed(t)
      BY <1>2
    <2>5. Fresh'
      BY <1>3, <2>1, <2>3, <2>4 DEF Fresh, Placed
    <2>6. QED
      BY <2>2, <2>5
  <1>4. QED
    BY <1>1, <1>2, <1>3
-------------------------------------------------------------------------------
\* At the start nobody has asked for anything.
LEMMA RoutingBegins == ASSUME RoutingInit PROVE RoutingInv
  <1>1. Api \in FineRules /\ ByHand \in FineRules
    BY DEF Api, ByHand, FineRules, AllIns, AllTags
  <1>2. <<Api>> \in Seq(FineRules) /\ <<ByHand>> \in Seq(FineRules) /\ <<>> \in Seq(FineRules)
    BY <1>1
  <1>3. xray \in Configs
    BY <1>2 DEF RoutingInit, Configs, AllTags
  <1>4. task = [r \in Routers |-> task[r]] /\ \A r \in Routers : task[r] = Rest
    BY DEF RoutingInit
  <1>5. RoutingTyped
    BY <1>3, <1>4, RestFits DEF RoutingInit, RoutingTyped
  <1>6. Alone /\ Fresh
    BY <1>4 DEF Alone, Fresh, Rest
  <1>7. QED
    BY <1>5, <1>6 DEF RoutingInit, RoutingInv

\* An operation that begins while another is under way is never again alone.
LEMMA BeginKeeps ==
  ASSUME RoutingInv, NEW r \in Routers, NEW t \in Jobs, BeginRouting(r, t),
         \/ t.todo = SetClientLocation /\ t.u \in Users
         \/ t.todo = SetDefaultLocation
         \/ t.todo = AddOutbound
  PROVE  RoutingInv'
  <1>1. FitJob(Placed(t)) /\ Head(t.todo) \notin Writes
    BY PlansFit
  <1>2. RoutingTyped /\ Sets(r, t) /\ UNCHANGED <<xray, first, added>>
        /\ mixed' = (mixed \/ \E q \in Routers : task[q] # Rest)
    BY DEF RoutingInv, BeginRouting, routingGhosts
  <1>3. /\ task' = [q \in Routers |-> task'[q]] /\ \A q \in Routers : FitJob(task'[q])
        /\ (\A q \in Routers : q # r => task[q] = Rest) => Alone' /\ Fresh'
    BY <1>1, <1>2, OneMoves
  <1>4. RoutingTyped'
    BY <1>2, <1>3 DEF RoutingTyped
  <1>5. ASSUME ~mixed' PROVE ~mixed /\ \A q \in Routers : task[q] = Rest
    BY <1>2, <1>5
  <1>6. QED
    BY <1>2, <1>3, <1>4, <1>5 DEF RoutingInv

\* A call that writes nothing.
LEMMA LeavesKeeps ==
  ASSUME RoutingInv, NEW r \in Routers, task[r] # Rest, NEW t, Leaves(r, t), FitJob(Placed(t)),
         t.todo # <<>> /\ Head(t.todo) \in Writes => t.cfg = xray
  PROVE  RoutingInv'
  <1>1. RoutingTyped /\ Sets(r, t) /\ UNCHANGED <<xray, mixed, first, added>>
    BY DEF RoutingInv, Leaves, routingGhosts
  <1>2. /\ task' = [q \in Routers |-> task'[q]] /\ \A q \in Routers : FitJob(task'[q])
        /\ (\A q \in Routers : q # r => task[q] = Rest) => Alone' /\ Fresh'
    BY <1>1, OneMoves
  <1>3. RoutingTyped'
    BY <1>1, <1>2 DEF RoutingTyped
  <1>4. ~mixed => \A q \in Routers : q # r => task[q] = Rest
    BY DEF RoutingInv, Alone
  <1>5. QED
    BY <1>1, <1>2, <1>3, <1>4 DEF RoutingInv

\* A job that is under way goes on.
LEMMA GoesOn ==
  ASSUME RoutingInv, NEW r \in Routers, NEW step, Doing(r, step)
  PROVE  /\ FitJob(task[r]) /\ task[r] # Rest /\ Advance(r) \in Jobs /\ FitJob(Placed(Advance(r)))
         /\ Advance(r).todo = Tail(task[r].todo) /\ Advance(r).u = task[r].u
         /\ step # "read" => ~(Advance(r).todo # <<>> /\ Head(Advance(r).todo) \in Writes)
  <1>1. FitJob(task[r]) /\ task[r] \in Jobs /\ task[r].todo # <<>> /\ Head(task[r].todo) = step
    BY DEF RoutingInv, RoutingTyped, FitJob, Doing
  <1>2. Tail(task[r].todo) \in Seq(CallNames)
    BY <1>1 DEF Jobs
  <1>3. Advance(r) \in Jobs /\ Advance(r).todo = Tail(task[r].todo) /\ Advance(r).u = task[r].u
    BY <1>1, <1>2 DEF Advance, Jobs
  <1>4. task[r] # Rest
    BY <1>1 DEF Rest
  <1>5. QED
    BY <1>1, <1>3, <1>4, AdvanceFits

\* A call that writes, alone, what it worked out from what is there.
LEMMA WriteKeeps ==
  ASSUME RoutingInv, NEW r \in Routers, NEW step \in Writes, Doing(r, step),
         NEW cfg \in Configs, WritesXray(r, cfg), first' \subseteq Users \X AllTags,
         ~mixed => /\ \A p \in first' : Stands(cfg.rules, p[1], p[2])
                   /\ added' \subseteq cfg.outs
  PROVE  RoutingInv'
  <1>1. RoutingTyped /\ Sets(r, Advance(r)) /\ xray' = cfg /\ mixed' = mixed
    BY DEF RoutingInv, WritesXray
  <1>2. task[r] # Rest /\ FitJob(Placed(Advance(r))) /\ ~(Advance(r).todo # <<>> /\ Head(Advance(r).todo) \in Writes)
    BY GoesOn DEF Writes
  <1>3. /\ task' = [q \in Routers |-> task'[q]] /\ \A q \in Routers : FitJob(task'[q])
        /\ (\A q \in Routers : q # r => task[q] = Rest) => Alone' /\ Fresh'
    BY <1>1, <1>2, OneMoves
  <1>4. RoutingTyped'
    BY <1>1, <1>3 DEF RoutingTyped
  <1>5. ~mixed => \A q \in Routers : q # r => task[q] = Rest
    BY <1>2 DEF RoutingInv, Alone
  <1>6. QED
    BY <1>1, <1>3, <1>4, <1>5 DEF RoutingInv

\* What a job that is about to write knows.
LEMMA WriterKnows ==
  ASSUME RoutingInv, NEW r \in Routers, NEW step \in Writes, Doing(r, step)
  PROVE  /\ task[r].cfg \in Configs /\ task[r].tag \in AllTags /\ task[r].ins \subseteq ToSet(Inbounds)
         /\ step = "write client" => task[r].u \in Users
         /\ ~mixed => task[r].cfg = xray
  <1>1. FitJob(task[r]) /\ task[r] \in Jobs /\ task[r].todo # <<>> /\ Head(task[r].todo) = step
    BY DEF RoutingInv, RoutingTyped, FitJob, Doing
  <1>2. task[r].todo \in Seq(CallNames)
    BY <1>1 DEF Jobs
  <1>3. 1 \in 1..Len(task[r].todo) /\ task[r].todo[1] = step
    BY <1>1, <1>2
  <1>4. step = "write client" => task[r].u \in Users
    BY <1>1, <1>3 DEF FitJob
  <1>5. ~mixed => task[r].cfg = xray
    BY <1>1 DEF RoutingInv, Fresh
  <1>6. QED
    BY <1>1, <1>4, <1>5 DEF Jobs
-------------------------------------------------------------------------------
\* What is asked for names clients, tags and inbounds that there are.
LEMMA AskKeeps ==
  ASSUME RoutingInv, NEW r \in Routers, PickLocation(r) \/ PickDefault(r) \/ SendLink(r)
  PROVE  RoutingInv'
  <1>1. /\ Rest \in Jobs /\ xray.outs \subseteq AllTags /\ \A d \in BOOLEAN : TagsFor(d) \subseteq AllTags
        /\ Outbounds \subseteq AllTags
    BY RestFits DEF FitJob, RoutingInv, RoutingTyped, Configs, TagsFor, AllTags
  <1>2. SetClientLocation \in Seq(CallNames) /\ SetDefaultLocation \in Seq(CallNames) /\ AddOutbound \in Seq(CallNames)
    BY Calls
  <1>3. CASE PickLocation(r)
    <2>1. PICK u \in Users, d \in BOOLEAN : \E t \in TagsFor(d) :
             BeginRouting(r, [Rest EXCEPT !.todo = SetClientLocation, !.delegated = d, !.u = u, !.tag = t])
      BY <1>3 DEF PickLocation
    <2>2. PICK t \in TagsFor(d) :
             BeginRouting(r, [Rest EXCEPT !.todo = SetClientLocation, !.delegated = d, !.u = u, !.tag = t])
      BY <2>1
    <2> DEFINE j == [Rest EXCEPT !.todo = SetClientLocation, !.delegated = d, !.u = u, !.tag = t]
    <2>3. j \in Jobs /\ j.todo = SetClientLocation /\ j.u \in Users
      BY <1>1, <1>2 DEF Jobs
    <2> HIDE DEF j
    <2>4. BeginRouting(r, j)
      BY <2>2 DEF j
    <2>5. QED
      BY <2>3, <2>4, BeginKeeps
  <1>4. CASE PickDefault(r)
    <2>1. PICK is \in SUBSET ToSet(Inbounds) \ {{}}, d \in BOOLEAN : \E t \in TagsFor(d) :
             BeginRouting(r, [Rest EXCEPT !.todo = SetDefaultLocation, !.delegated = d, !.ins = is, !.tag = t])
      BY <1>4 DEF PickDefault
    <2>2. PICK t \in TagsFor(d) :
             BeginRouting(r, [Rest EXCEPT !.todo = SetDefaultLocation, !.delegated = d, !.ins = is, !.tag = t])
      BY <2>1
    <2> DEFINE j == [Rest EXCEPT !.todo = SetDefaultLocation, !.delegated = d, !.ins = is, !.tag = t]
    <2>3. j \in Jobs /\ j.todo = SetDefaultLocation
      BY <1>1, <1>2 DEF Jobs
    <2> HIDE DEF j
    <2>4. BeginRouting(r, j)
      BY <2>2 DEF j
    <2>5. QED
      BY <2>3, <2>4, BeginKeeps
  <1>5. CASE SendLink(r)
    <2>1. PICK t \in Outbounds, d \in BOOLEAN :
             BeginRouting(r, [Rest EXCEPT !.todo = AddOutbound, !.delegated = d, !.tag = t])
      BY <1>5 DEF SendLink
    <2> DEFINE j == [Rest EXCEPT !.todo = AddOutbound, !.delegated = d, !.tag = t]
    <2>2. j \in Jobs /\ j.todo = AddOutbound
      BY <1>1, <1>2 DEF Jobs
    <2> HIDE DEF j
    <2>3. BeginRouting(r, j)
      BY <2>1 DEF j
    <2>4. QED
      BY <2>2, <2>3, BeginKeeps
  <1>6. QED
    BY <1>3, <1>4, <1>5

\* Calls that write nothing on the panel.
LEMMA QuietCallKeeps ==
  ASSUME RoutingInv, NEW r \in Routers, GiveUp(r) \/ MayUseTag(r) \/ ReadXray(r) \/ RestartXray(r)
  PROVE  RoutingInv'
  <1>1. CASE GiveUp(r)
    <2>1. task[r] # Rest /\ Leaves(r, Rest)
      BY <1>1 DEF GiveUp
    <2>2. Placed(Rest) = Rest /\ Rest.todo = <<>>
      BY DEF Placed, Rest
    <2>3. QED
      BY <2>1, <2>2, RestFits, LeavesKeeps
  <1>2. CASE MayUseTag(r)
    <2> DEFINE n == [Advance(r) EXCEPT !.delegated = FALSE]
    <2>1. Doing(r, "allowed") /\ Leaves(r, n)
      BY <1>2 DEF MayUseTag
    <2>2. /\ FitJob(task[r]) /\ task[r] # Rest /\ Advance(r) \in Jobs
          /\ Advance(r).todo = Tail(task[r].todo) /\ Advance(r).u = task[r].u
      BY <2>1, GoesOn
    <2>3. n \in Jobs /\ n.todo = Tail(task[r].todo) /\ n.u = task[r].u
      BY <2>2 DEF Jobs
    <2> HIDE DEF n
    <2>4. task[r].todo # <<>> /\ Head(task[r].todo) = "allowed"
      BY <2>1 DEF Doing
    <2>5. FitJob(Placed(n)) /\ ~(n.todo # <<>> /\ Head(n.todo) \in Writes)
      BY <2>2, <2>3, <2>4, AdvanceFits
    <2>6. QED
      BY <2>1, <2>2, <2>5, LeavesKeeps
  <1>3. CASE ReadXray(r)
    <2> DEFINE n == [Advance(r) EXCEPT !.cfg = xray]
    <2>1. Doing(r, "read") /\ Leaves(r, n)
      BY <1>3 DEF ReadXray
    <2>2. /\ FitJob(task[r]) /\ task[r] # Rest /\ Advance(r) \in Jobs
          /\ Advance(r).todo = Tail(task[r].todo) /\ Advance(r).u = task[r].u
      BY <2>1, GoesOn
    <2>3. n \in Jobs /\ n.todo = Tail(task[r].todo) /\ n.u = task[r].u /\ n.cfg = xray
      BY <2>2 DEF Jobs, RoutingInv, RoutingTyped
    <2> HIDE DEF n
    <2>4. task[r].todo # <<>>
      BY <2>1 DEF Doing
    <2>5. FitJob(Placed(n))
      BY <2>2, <2>3, <2>4, AdvanceFits
    <2>6. QED
      BY <2>1, <2>2, <2>3, <2>5, LeavesKeeps
  <1>4. CASE RestartXray(r)
    <2>1. Doing(r, "restart") /\ Leaves(r, Advance(r))
      BY <1>4 DEF RestartXray
    <2>2. QED
      BY <2>1, GoesOn, LeavesKeeps
  <1>5. QED
    BY <1>1, <1>2, <1>3, <1>4

\* The rule of a client, worked out from what is there, hides nobody.
LEMMA WriteClientRuleKeeps ==
  ASSUME RoutingInv, NEW r \in Routers, WriteClientRule(r)
  PROVE  RoutingInv'
  <1> DEFINE t == task[r]
             others == {p \in first : p[1] # t.u}
             result == RulesWithClient(t.cfg.rules, t.u, t.tag)
             cfg == [t.cfg EXCEPT !.rules = result]
  <1>1. /\ Doing(r, "write client") /\ WritesXray(r, cfg) /\ added' = added
        /\ first' = IF t.u \in chosen \/ FindRule(t.cfg.rules, t.u, t.tag) # 0
                    THEN others ELSE others \cup {<<t.u, t.tag>>}
    BY DEF WriteClientRule
  <1>2. t.cfg \in Configs /\ t.tag \in AllTags /\ t.u \in Users /\ (~mixed => t.cfg = xray)
    BY <1>1, WriterKnows DEF Writes
  <1>3. t.cfg.rules \in Seq(FineRules)
    BY <1>2 DEF Configs
  <1> HIDE DEF t
  <1>4. /\ result \in Seq(FineRules)
        /\ \A u \in Users, out \in AllTags : u # t.u /\ Stands(t.cfg.rules, u, out) => Stands(result, u, out)
        /\ FindRule(t.cfg.rules, t.u, t.tag) = 0 => Stands(result, t.u, t.tag)
    BY <1>2, <1>3, ChoiceKeeps
  <1> HIDE DEF result
  <1>5. cfg \in Configs /\ cfg.rules = result /\ cfg.outs = t.cfg.outs
    BY <1>2, <1>4 DEF Configs
  <1> HIDE DEF cfg
  <1>6. first \subseteq Users \X AllTags
    BY DEF RoutingInv, RoutingTyped
  <1>7. first' \subseteq Users \X AllTags
    <2>1. others \subseteq Users \X AllTags /\ <<t.u, t.tag>> \in Users \X AllTags
      BY <1>2, <1>6
    <2> HIDE DEF others
    <2>2. QED
      BY <1>1, <2>1
  <1>8. ASSUME ~mixed PROVE (\A p \in first' : Stands(cfg.rules, p[1], p[2])) /\ added' \subseteq cfg.outs
    <2>1. /\ t.cfg = xray /\ added \subseteq xray.outs
          /\ \A p \in first : Stands(xray.rules, p[1], p[2])
      BY <1>2, <1>8 DEF RoutingInv
    <2>2. ASSUME NEW p \in first' PROVE Stands(result, p[1], p[2])
      <3>1. CASE p \in others
        <4>1. p[1] \in Users /\ p[2] \in AllTags /\ p[1] # t.u /\ Stands(t.cfg.rules, p[1], p[2])
          BY <1>6, <2>1, <3>1
        <4>2. QED
          BY <1>4, <4>1
      <3>2. CASE p \notin others
        <4>1. p = <<t.u, t.tag>> /\ FindRule(t.cfg.rules, t.u, t.tag) = 0
          BY <1>1, <2>2, <3>2
        <4>2. QED
          BY <1>4, <4>1
      <3>3. QED
        BY <3>1, <3>2
    <2>3. QED
      BY <1>1, <1>5, <2>1, <2>2
  <1>9. "write client" \in Writes
    BY DEF Writes
  <1>10. QED
    BY <1>1, <1>5, <1>7, <1>8, <1>9, WriteKeeps

\* The default of some inbounds hides nothing from the clients of others.
LEMMA WriteDefaultKeeps ==
  ASSUME RoutingInv, NEW r \in Routers, WriteDefault(r)
  PROVE  RoutingInv'
  <1> DEFINE t == task[r]
             result == RulesWithDefault(t.cfg.rules, t.ins, t.tag)
             cfg == [t.cfg EXCEPT !.rules = result]
  <1>1. /\ Doing(r, "write default") /\ WritesXray(r, cfg) /\ added' = added
        /\ first' = {p \in first : InboundOf[p[1]] \notin t.ins}
    BY DEF WriteDefault
  <1>2. t.cfg \in Configs /\ t.tag \in AllTags /\ (~mixed => t.cfg = xray)
    BY <1>1, WriterKnows DEF Writes
  <1>3. t.cfg.rules \in Seq(FineRules)
    BY <1>2 DEF Configs
  <1> HIDE DEF t
  <1>4. /\ result \in Seq(FineRules)
        /\ \A u \in Users, out \in AllTags :
              InboundOf[u] \notin t.ins /\ Stands(t.cfg.rules, u, out) => Stands(result, u, out)
    BY <1>2, <1>3, DefaultKeeps
  <1> HIDE DEF result
  <1>5. cfg \in Configs /\ cfg.rules = result /\ cfg.outs = t.cfg.outs
    BY <1>2, <1>4 DEF Configs
  <1> HIDE DEF cfg
  <1>6. first \subseteq Users \X AllTags
    BY DEF RoutingInv, RoutingTyped
  <1>7. first' \subseteq Users \X AllTags
    BY <1>1, <1>6
  <1>8. ASSUME ~mixed PROVE (\A p \in first' : Stands(cfg.rules, p[1], p[2])) /\ added' \subseteq cfg.outs
    <2>1. /\ t.cfg = xray /\ added \subseteq xray.outs
          /\ \A p \in first : Stands(xray.rules, p[1], p[2])
      BY <1>2, <1>8 DEF RoutingInv
    <2>2. ASSUME NEW p \in first' PROVE Stands(result, p[1], p[2])
      <3>1. p[1] \in Users /\ p[2] \in AllTags /\ InboundOf[p[1]] \notin t.ins /\ Stands(t.cfg.rules, p[1], p[2])
        BY <1>1, <1>6, <2>1
      <3>2. QED
        BY <1>4, <3>1
    <2>3. QED
      BY <1>1, <1>5, <2>1, <2>2
  <1>9. "write default" \in Writes
    BY DEF Writes
  <1>10. QED
    BY <1>1, <1>5, <1>7, <1>8, <1>9, WriteKeeps

\* An outbound that is added leaves the rules alone; a reload writes what it has read.
LEMMA WriteOutboundKeeps ==
  ASSUME RoutingInv, NEW r \in Routers, WriteOutbound(r) \/ ReloadXray(r) \/ OwnOutbound(r)
  PROVE  RoutingInv'
  <1>1. first \subseteq Users \X AllTags
    BY DEF RoutingInv, RoutingTyped
  <1>2. "write outbound" \in Writes /\ "reload" \in Writes
    BY DEF Writes
  <1>3. CASE WriteOutbound(r)
    <2> DEFINE t == task[r]
               cfg == WithOutbound(t.cfg, t.tag)
    <2>1. Doing(r, "write outbound") /\ WritesXray(r, cfg) /\ added' = added \cup {t.tag} /\ first' = first
      BY <1>3 DEF WriteOutbound
    <2>2. t.cfg \in Configs /\ t.tag \in AllTags /\ (~mixed => t.cfg = xray)
      BY <1>2, <2>1, WriterKnows
    <2>3. cfg \in Configs /\ cfg.rules = t.cfg.rules /\ cfg.outs = t.cfg.outs \cup {t.tag}
      BY <2>2 DEF WithOutbound, Configs
    <2> HIDE DEF cfg, t
    <2>4. ~mixed => (\A p \in first' : Stands(cfg.rules, p[1], p[2])) /\ added' \subseteq cfg.outs
      BY <2>1, <2>2, <2>3 DEF RoutingInv
    <2>5. QED
      BY <1>1, <1>2, <2>1, <2>3, <2>4, WriteKeeps
  <1>4. CASE ReloadXray(r)
    <2>1. Doing(r, "reload") /\ WritesXray(r, task[r].cfg) /\ added' = added /\ first' = first
      BY <1>4 DEF ReloadXray, routingGhosts
    <2>2. task[r].cfg \in Configs /\ (~mixed => task[r].cfg = xray)
      BY <1>2, <2>1, WriterKnows
    <2>3. ~mixed => (\A p \in first' : Stands(task[r].cfg.rules, p[1], p[2])) /\ added' \subseteq task[r].cfg.outs
      BY <2>1, <2>2 DEF RoutingInv
    <2>4. QED
      BY <1>1, <1>2, <2>1, <2>2, <2>3, WriteKeeps
  <1>5. CASE OwnOutbound(r)
    <2>1. Doing(r, "own") /\ Sets(r, Advance(r)) /\ UNCHANGED <<xray, mixed, first, added>>
      BY <1>5 DEF OwnOutbound, routingGhosts
    <2>2. task[r] # Rest /\ FitJob(Placed(Advance(r))) /\ ~(Advance(r).todo # <<>> /\ Head(Advance(r).todo) \in Writes)
      BY <2>1, GoesOn
    <2>3. /\ task' = [q \in Routers |-> task'[q]] /\ \A q \in Routers : FitJob(task'[q])
          /\ (\A q \in Routers : q # r => task[q] = Rest) => Alone' /\ Fresh'
      BY <2>1, <2>2, OneMoves DEF RoutingInv
    <2>4. RoutingTyped'
      BY <2>1, <2>3 DEF RoutingInv, RoutingTyped
    <2>5. ~mixed => \A q \in Routers : q # r => task[q] = Rest
      BY <2>2 DEF RoutingInv, Alone
    <2>6. QED
      BY <2>1, <2>3, <2>4, <2>5 DEF RoutingInv
  <1>6. QED
    BY <1>3, <1>4, <1>5

\* What is there is of its kind; and as long as no two operations overlap, who is about to write
\* has read what is there, and every first choice has its rule, in front of what else matches.
THEOREM RoutingInvariant == RoutingSpec => []RoutingInv
  <1>1. RoutingInit => RoutingInv
    BY RoutingBegins
  <1>2. RoutingInv /\ [RoutingNext]_routingVars => RoutingInv'
    <2>1. ASSUME RoutingInv, RoutingNext PROVE RoutingInv'
      <3>1. PICK r \in Routers :
               \/ PickLocation(r) \/ PickDefault(r) \/ SendLink(r)
               \/ \E tags \in SUBSET ({Direct} \cup Outbounds) : ReplaceGrants(r, tags)
               \/ GiveUp(r) \/ MayUseTag(r) \/ ReadXray(r) \/ RestartXray(r)
               \/ WriteClientRule(r) \/ WriteDefault(r) \/ WriteOutbound(r) \/ OwnOutbound(r) \/ ReloadXray(r)
        BY <2>1 DEF RoutingNext
      <3>2. CASE PickLocation(r) \/ PickDefault(r) \/ SendLink(r)
        BY <2>1, <3>2, AskKeeps
      <3>3. CASE \E tags \in SUBSET ({Direct} \cup Outbounds) : ReplaceGrants(r, tags)
        <4>1. UNCHANGED <<xray, task, mixed, first, added>>
          BY <3>3 DEF ReplaceGrants, routingGhosts
        <4>2. QED
          BY <2>1, <4>1 DEF RoutingInv, RoutingTyped, Alone, Fresh
      <3>4. CASE GiveUp(r) \/ MayUseTag(r) \/ ReadXray(r) \/ RestartXray(r)
        BY <2>1, <3>4, QuietCallKeeps
      <3>5. CASE WriteClientRule(r)
        BY <2>1, <3>5, WriteClientRuleKeeps
      <3>6. CASE WriteDefault(r)
        BY <2>1, <3>6, WriteDefaultKeeps
      <3>7. CASE WriteOutbound(r) \/ OwnOutbound(r) \/ ReloadXray(r)
        BY <2>1, <3>7, WriteOutboundKeeps
      <3>8. QED
        BY <3>1, <3>2, <3>3, <3>4, <3>5, <3>6, <3>7
    <2>2. ASSUME RoutingInv, UNCHANGED routingVars PROVE RoutingInv'
      BY <2>2 DEF RoutingInv, RoutingTyped, Alone, Fresh, routingVars
    <2>3. QED
      BY <2>1, <2>2
  <1>3. QED
    BY <1>1, <1>2, PTL DEF RoutingSpec

\* A client that stands behind a rule of its own leaves by it.
LEMMA StandsIsRoute ==
  ASSUME RoutingTyped, NEW u \in Users, NEW tag, Stands(xray.rules, u, tag)
  PROVE  Route(u) = tag
  <1> DEFINE hits == {k \in DOMAIN xray.rules : Matches(xray.rules[k], u)}
  <1>1. xray.rules \in Seq(FineRules)
    BY DEF RoutingTyped, Configs
  <1>2. PICK k \in 1..Len(xray.rules) : /\ u \in xray.rules[k].users /\ xray.rules[k].out = tag
                                        /\ \A j \in 1..(k - 1) : ~Matches(xray.rules[j], u)
    BY DEF Stands
  <1>3. DOMAIN xray.rules = 1..Len(xray.rules) /\ Len(xray.rules) \in Nat /\ xray.rules[k] \in FineRules
    BY <1>1
  <1>4. k \in hits
    BY <1>2, <1>3, FineRule
  <1>5. hits \subseteq Nat
    BY <1>3
  <1>6. \A j \in hits : j \in 1..Len(xray.rules) /\ ~(j < k)
    BY <1>2, <1>3
  <1> HIDE DEF hits
  <1>7. Min(hits) \in hits /\ \A i \in hits : Min(hits) <= i
    BY <1>4, <1>5, FirstOf
  <1>8. Min(hits) = k
    <2>1. Min(hits) \in 1..Len(xray.rules) /\ ~(Min(hits) < k) /\ Min(hits) <= k
      BY <1>4, <1>6, <1>7
    <2> DEFINE m == Min(hits)
    <2> HIDE DEF m
    <2>2. m \in Nat /\ k \in Nat /\ ~(m < k) /\ m <= k
      BY <1>3, <2>1 DEF m
    <2>3. QED
      BY <2>2 DEF m
  <1>9. QED
    BY <1>2, <1>4, <1>8 DEF Route, hits

\* For any clients, inbounds, outbounds and requests: as long as operations do not overlap, a
\* client leaves by the outbound a rule was first made for until it is given another or its
\* inbound a default, whatever else is merged, inserted or taken out, and no outbound whose
\* addition was answered is lost.
THEOREM FirstChoicesStand == RoutingSpec => []FirstChoiceStands
  <1>1. RoutingInv => FirstChoiceStands
    <2>1. ASSUME RoutingInv, ~mixed, NEW p \in first PROVE Route(p[1]) = p[2]
      <3>1. p[1] \in Users /\ Stands(xray.rules, p[1], p[2]) /\ RoutingTyped
        BY <2>1 DEF RoutingInv, RoutingTyped
      <3>2. QED
        BY <3>1, StandsIsRoute
    <2>2. QED
      BY <2>1 DEF RoutingInv, FirstChoiceStands
  <1>2. QED
    BY <1>1, RoutingInvariant, PTL
-------------------------------------------------------------------------------
\* The sum of the first of some numbers.
SumTo(f, m) == SumFunctionOnSet(f, 1..m)

\* One more ...
LEMMA SumToNext ==
  ASSUME NEW m \in Nat, NEW f, \A i \in 1..(m + 1) : f[i] \in Int
  PROVE  /\ SumTo(f, 0) = 0
         /\ SumTo(f, m) \in Int
         /\ SumTo(f, m + 1) = SumTo(f, m) + f[m + 1]
  <1>1. IsFiniteSet(1..0) /\ IsFiniteSet(1..m) /\ IsFiniteSet(1..(m + 1))
    BY FS_Interval
  <1>2. 1..0 = {} /\ 1..m = (1..(m + 1)) \ {m + 1} /\ m + 1 \in 1..(m + 1)
    OBVIOUS
  <1>3. SumFunctionOnSet(f, 1..0) = 0
    <2>1. SumFunctionOnSet(f, {}) = 0
      BY FS_EmptySet, SumStep
    <2>2. QED
      BY <2>1, <1>2
  <1>4. SumFunctionOnSet(f, 1..m) \in Int
    BY <1>1, <1>2, SumType
  <1>5. SumFunctionOnSet(f, 1..(m + 1)) = f[m + 1] + SumFunctionOnSet(f, 1..m)
    BY <1>1, <1>2, SumSplit
  <1>6. QED
    BY <1>3, <1>4, <1>5 DEF SumTo

\* ... and some more that are all the same.
LEMMA SumToSame ==
  ASSUME NEW m \in Nat, NEW n \in Nat, m <= n, NEW f, \A i \in 1..n : f[i] \in Int,
         NEW p \in Nat, \A i \in (m + 1)..n : f[i] = p
  PROVE  SumTo(f, n) = SumTo(f, m) + (n - m) * p
  <1> DEFINE Bad == {k \in Nat : m + k <= n /\ SumTo(f, m + k) # SumTo(f, m) + k * p}
  <1>1. ASSUME Bad # {} PROVE FALSE
    <2>1. Bad \subseteq Nat
      OBVIOUS
    <2> HIDE DEF Bad
    <2>2. PICK k \in Bad : \A j \in Bad : k <= j
      BY <1>1, <2>1, LeastOf
    <2> USE DEF Bad
    <2>3. k # 0
      <3>1. SumTo(f, m) \in Int
        <4>1. CASE m < n
          <5>1. \A i \in 1..(m + 1) : f[i] \in Int
            BY <4>1
          <5>2. QED
            BY <5>1, SumToNext
        <4>2. CASE m = n
          <5>1. IsFiniteSet(1..n)
            BY FS_Interval
          <5>2. SumFunctionOnSet(f, 1..n) \in Int
            BY <5>1, SumType
          <5>3. QED
            BY <4>2, <5>2 DEF SumTo
        <4>3. QED
          BY <4>1, <4>2
      <3>2. QED
        BY <2>2, <3>1
    <2>4. /\ k - 1 \in Nat /\ m + (k - 1) \in Nat /\ m + (k - 1) <= n /\ m + k <= n
          /\ SumTo(f, m + (k - 1)) = SumTo(f, m) + (k - 1) * p
      BY <2>2, <2>3
    <2>5. /\ SumTo(f, m + k) = SumTo(f, m + (k - 1)) + f[m + k]
          /\ SumTo(f, m) \in Int
      <3> DEFINE l == m + (k - 1)
      <3>1. l \in Nat /\ l + 1 = m + k /\ \A i \in 1..(l + 1) : f[i] \in Int
        BY <2>4
      <3> HIDE DEF l
      <3>2. SumTo(f, l + 1) = SumTo(f, l) + f[l + 1]
        BY <3>1, SumToNext
      <3>3. \A i \in 1..(m + 1) : f[i] \in Int
        BY <2>2, <2>3
      <3>4. SumTo(f, m) \in Int
        BY <3>3, SumToNext
      <3>5. QED
        BY <3>1, <3>2, <3>4 DEF l
    <2>6. f[m + k] = p
      <3>1. m + k \in (m + 1)..n
        BY <2>2, <2>3
      <3>2. QED
        BY <3>1
    <2>7. (k - 1) * p + p = k * p
      BY <2>2
    <2>8. (k - 1) * p \in Int
      BY <2>2
    <2>9. SumTo(f, m + k) = SumTo(f, m) + k * p
      <3> DEFINE x == SumTo(f, m)
                 y == (k - 1) * p
                 z == k * p
      <3>1. x \in Int /\ y \in Int /\ y + p = z
        BY <2>5, <2>7, <2>8
      <3>2. SumTo(f, m + k) = (x + y) + p
        BY <2>4, <2>5, <2>6
      <3> HIDE DEF x, y, z
      <3>3. SumTo(f, m + k) = x + z
        BY <3>1, <3>2
      <3>4. QED
        BY <3>3 DEF x, z
    <2>10. QED
      BY <2>2, <2>9
  <1>2. n - m \in Nat /\ m + (n - m) <= n /\ m + (n - m) = n
    OBVIOUS
  <1>3. n - m \notin Bad
    BY <1>1
  <1>4. QED
    BY <1>2, <1>3
-------------------------------------------------------------------------------
PriceTiers == [upto : 0..MaxConsumed, price : Prices]
InOrder(tiers) == tiers \in Seq(PriceTiers) /\ \A i, j \in DOMAIN tiers : i < j => tiers[i].upto <= tiers[j].upto

\* A price is right for a step when the tier of the step says so, or the row where no tier does.
PriceOf(tiers, gb, i, p) ==
    /\ \A k \in DOMAIN tiers : From(tiers, k) < i /\ i <= tiers[k].upto => p = tiers[k].price
    /\ LastTier(tiers) < i => p = gb

\* Every step has a right price: of the first tier that reaches so far.
LEMMA PriceExists ==
  ASSUME NEW tiers, InOrder(tiers), NEW gb \in Prices, NEW i \in Nat \ {0}
  PROVE  \E p \in Prices : PriceOf(tiers, gb, i, p)
  <1> DEFINE Reach == {k \in DOMAIN tiers : i <= tiers[k].upto}
  <1>0. /\ Len(tiers) \in Nat /\ DOMAIN tiers = 1..Len(tiers)
        /\ \A k \in DOMAIN tiers : tiers[k].upto \in Nat /\ tiers[k].price \in Prices
    <2>1. Len(tiers) \in Nat /\ DOMAIN tiers = 1..Len(tiers) /\ \A k \in DOMAIN tiers : tiers[k] \in PriceTiers
      BY DEF InOrder
    <2>2. QED
      BY <2>1, PricingAssumption DEF PriceTiers
  <1>1. CASE Reach = {}
    <2>1. ASSUME NEW k \in DOMAIN tiers PROVE ~(i <= tiers[k].upto)
      BY <1>1
    <2>2. PriceOf(tiers, gb, i, gb)
      BY <2>1 DEF PriceOf
    <2>3. QED
      BY <2>2
  <1>2. CASE Reach # {}
    <2>1. Reach \subseteq Nat
      BY <1>0
    <2> HIDE DEF Reach
    <2>2. PICK k \in Reach : \A l \in Reach : k <= l
      BY <1>2, <2>1, LeastOf
    <2> USE DEF Reach
    <2>3. ASSUME NEW l \in DOMAIN tiers, From(tiers, l) < i, i <= tiers[l].upto
          PROVE  l = k
      <3>1. k <= l /\ k \in 1..Len(tiers) /\ l \in 1..Len(tiers)
        BY <1>0, <2>2, <2>3
      <3>2. CASE k < l
        <4>1. From(tiers, l) = tiers[l - 1].upto /\ l - 1 \in DOMAIN tiers
          BY <1>0, <3>1, <3>2 DEF From
        <4>2. tiers[k].upto <= tiers[l - 1].upto
          <5>1. CASE k = l - 1
            BY <5>1, <1>0, <2>2
          <5>2. CASE k < l - 1
            BY <5>2, <4>1, <2>2 DEF InOrder
          <5>3. QED
            BY <5>1, <5>2, <3>1, <3>2
        <4>3. i <= tiers[k].upto
          BY <2>2
        <4>4. QED
          BY <4>1, <4>2, <4>3, <2>3, <1>0, <2>2
      <3>3. QED
        BY <3>1, <3>2
    <2>4. ~(LastTier(tiers) < i)
      <3>1. k \in 1..Len(tiers) /\ i <= tiers[k].upto
        BY <1>0, <2>2
      <3>2. LastTier(tiers) = tiers[Len(tiers)].upto /\ Len(tiers) \in DOMAIN tiers
        BY <1>0, <3>1 DEF LastTier, From
      <3>3. tiers[k].upto <= tiers[Len(tiers)].upto
        <4>1. CASE k = Len(tiers)
          BY <4>1, <1>0, <3>1
        <4>2. CASE k < Len(tiers)
          BY <4>2, <3>1, <3>2, <1>0 DEF InOrder
        <4>3. QED
          BY <4>1, <4>2, <3>1, <1>0
      <3>4. tiers[Len(tiers)].upto \in Nat /\ tiers[k].upto \in Nat
        BY <1>0, <3>1, <3>2
      <3>5. QED
        BY <3>1, <3>2, <3>3, <3>4
    <2>5. PriceOf(tiers, gb, i, tiers[k].price)
      BY <2>3, <2>4 DEF PriceOf
    <2>6. tiers[k].price \in Prices
      BY <1>0, <2>2
    <2>7. QED
      BY <2>5, <2>6
  <1>3. QED
    BY <1>1, <1>2

\* Rounding down to whole GBs loses less than one.
LEMMA CostRounds ==
  ASSUME NEW from \in Nat, NEW to \in Nat, NEW price \in Nat
  PROVE  /\ Cost(from, to, price) \in Nat
         /\ from < to => /\ GbUnit * Cost(from, to, price) <= (to - from) * price
                         /\ (to - from) * price < GbUnit * Cost(from, to, price) + GbUnit
         /\ ~(from < to) => Cost(from, to, price) = 0
  <1> DEFINE u == GbUnit
             x == (to - from) * price
  <1>1. u \in Nat /\ u > 0
    BY PricingAssumption
  <1>2. CASE from < to
    <2>1. x \in Nat
      BY <1>2
    <2>2. Cost(from, to, price) = x \div u
      BY <1>2 DEF Cost
    <2> HIDE DEF x, u
    <2>3. x \div u \in Nat /\ u * (x \div u) <= x /\ x < u * (x \div u) + u
      BY <1>1, <2>1, Z3
    <2>4. QED
      BY <2>2, <2>3, <1>2 DEF x, u
  <1>3. CASE ~(from < to)
    BY <1>3 DEF Cost
  <1>4. QED
    BY <1>2, <1>3
-------------------------------------------------------------------------------
\* How far the first k tiers reach, of what was consumed.
Reach(tiers, c, k) == IF k = 0 THEN 0 ELSE IF c <= tiers[k].upto THEN c ELSE tiers[k].upto

TierCosts(tiers, c) == [k \in DOMAIN tiers |-> Cost(From(tiers, k), Min({c, tiers[k].upto}), tiers[k].price)]

\* Of which kinds the ends and the prices of tiers are, and what a tier costs.
LEMMA TierFacts ==
  ASSUME NEW tiers, InOrder(tiers), NEW c \in Nat
  PROVE  /\ Len(tiers) \in Nat /\ DOMAIN tiers = 1..Len(tiers) /\ GbUnit \in Nat /\ GbUnit > 0
         /\ Reach(tiers, c, 0) = 0 /\ \A k \in 0..Len(tiers) : Reach(tiers, c, k) \in 0..c
         /\ \A k \in 1..Len(tiers) :
               /\ tiers[k].upto \in 0..MaxConsumed /\ tiers[k].upto \in Nat
               /\ tiers[k].price \in Prices /\ tiers[k].price \in Nat
               /\ From(tiers, k) \in Nat /\ From(tiers, k) <= tiers[k].upto
               /\ Reach(tiers, c, k - 1) = IF c <= From(tiers, k) THEN c ELSE From(tiers, k)
               /\ Reach(tiers, c, k) = IF c <= tiers[k].upto THEN c ELSE tiers[k].upto
               /\ TierCosts(tiers, c)[k] = Cost(From(tiers, k), Reach(tiers, c, k), tiers[k].price)
               /\ TierCosts(tiers, c)[k] \in Nat
         /\ LastTier(tiers) \in Nat
         /\ LastTier(tiers) = IF tiers = <<>> THEN 0 ELSE tiers[Len(tiers)].upto
         /\ Reach(tiers, c, Len(tiers)) = IF c <= LastTier(tiers) THEN c ELSE LastTier(tiers)
         /\ \A k \in 1..Len(tiers) : tiers[k].upto <= LastTier(tiers)
  <1>1. /\ Len(tiers) \in Nat /\ DOMAIN tiers = 1..Len(tiers) /\ \A k \in 1..Len(tiers) : tiers[k] \in PriceTiers
        /\ \A i, j \in 1..Len(tiers) : i < j => tiers[i].upto <= tiers[j].upto
        /\ (tiers = <<>> <=> Len(tiers) = 0)
    BY DEF InOrder
  <1>2. GbUnit \in Nat /\ GbUnit > 0 /\ Prices \subseteq Nat /\ MaxConsumed \in Nat
    BY PricingAssumption
  <1>3. \A k \in 1..Len(tiers) : /\ tiers[k].upto \in 0..MaxConsumed /\ tiers[k].upto \in Nat
                                 /\ tiers[k].price \in Prices /\ tiers[k].price \in Nat
    <2>1. \A t \in PriceTiers : t.upto \in 0..MaxConsumed /\ t.price \in Prices
      BY DEF PriceTiers
    <2>2. \A x \in 0..MaxConsumed : x \in Nat
      BY <1>2
    <2>3. \A p \in Prices : p \in Nat
      BY <1>2
    <2>4. QED
      BY <1>1, <2>1, <2>2, <2>3
  <1>4. \A k \in 1..Len(tiers) : From(tiers, k) \in Nat /\ From(tiers, k) <= tiers[k].upto
    BY <1>1, <1>3 DEF From
  <1>5. \A k \in 0..Len(tiers) : Reach(tiers, c, k) \in 0..c
    BY <1>3 DEF Reach
  <1>6. ASSUME NEW k \in 1..Len(tiers)
        PROVE  /\ Reach(tiers, c, k - 1) = IF c <= From(tiers, k) THEN c ELSE From(tiers, k)
               /\ Reach(tiers, c, k) = IF c <= tiers[k].upto THEN c ELSE tiers[k].upto
    BY <1>3 DEF Reach, From
  <1>7. ASSUME NEW k \in 1..Len(tiers)
        PROVE  /\ TierCosts(tiers, c)[k] = Cost(From(tiers, k), Reach(tiers, c, k), tiers[k].price)
               /\ TierCosts(tiers, c)[k] \in Nat
    <2>1. Min({c, tiers[k].upto}) = Reach(tiers, c, k)
      <3>1. tiers[k].upto \in Nat
        BY <1>3
      <3>2. Min({c, tiers[k].upto}) = IF c <= tiers[k].upto THEN c ELSE tiers[k].upto
        BY <3>1 DEF Min
      <3>3. QED
        BY <3>2, <1>6
    <2>2. TierCosts(tiers, c)[k] = Cost(From(tiers, k), Reach(tiers, c, k), tiers[k].price)
      BY <1>1, <2>1 DEF TierCosts
    <2>3. From(tiers, k) \in Nat /\ Reach(tiers, c, k) \in Nat /\ tiers[k].price \in Nat
      <3>1. From(tiers, k) \in Nat /\ tiers[k].price \in Nat
        BY <1>3, <1>4
      <3>2. k \in 0..Len(tiers)
        BY <1>1
      <3>3. Reach(tiers, c, k) \in 0..c
        BY <1>5, <3>2
      <3>4. QED
        BY <3>1, <3>3
    <2>4. Cost(From(tiers, k), Reach(tiers, c, k), tiers[k].price) \in Nat
      BY <2>3, CostRounds
    <2>5. QED
      BY <2>2, <2>4
  <1>8. LastTier(tiers) = IF tiers = <<>> THEN 0 ELSE tiers[Len(tiers)].upto
    BY <1>1 DEF LastTier, From
  <1>9. LastTier(tiers) \in Nat
    BY <1>1, <1>3, <1>8
  <1>10. Reach(tiers, c, Len(tiers)) = IF c <= LastTier(tiers) THEN c ELSE LastTier(tiers)
    BY <1>1, <1>8 DEF Reach
  <1>11. ASSUME NEW k \in 1..Len(tiers) PROVE tiers[k].upto <= LastTier(tiers)
    <2>1. tiers # <<>> /\ Len(tiers) \in 1..Len(tiers)
      BY <1>1
    <2>2. CASE k = Len(tiers)
      BY <1>3, <1>8, <2>1, <2>2
    <2>3. CASE k < Len(tiers)
      BY <1>1, <1>8, <2>1, <2>3
    <2>4. k \in Int /\ Len(tiers) \in Int /\ k <= Len(tiers)
      BY <1>1
    <2>5. QED
      BY <2>2, <2>3, <2>4
  <1>12. Reach(tiers, c, 0) = 0
    BY DEF Reach
  <1>13. QED
    BY <1>1, <1>2, <1>3, <1>4, <1>5, <1>6, <1>7, <1>8, <1>9, <1>10, <1>11, <1>12

\* The prices of the steps are right ones.
Priced(tiers, gb, c, P) == P \in [1..c -> Prices] /\ \A i \in 1..c : PriceOf(tiers, gb, i, P[i])

\* Sums of prices are whole.
LEMMA PricesSum ==
  ASSUME NEW c \in Nat, NEW P \in [1..c -> Prices], NEW k \in 0..c
  PROVE  SumTo(P, k) \in Int /\ \A i \in 1..k : P[i] \in Int
  <1>1. Prices \subseteq Nat
    BY PricingAssumption
  <1>2. \A i \in 1..k : P[i] \in Int
    <2>1. \A i \in 1..k : i \in 1..c
      OBVIOUS
    <2>2. \A p \in Prices : p \in Int
      BY <1>1
    <2>3. QED
      BY <2>1, <2>2
  <1>4. IsFiniteSet(1..k)
    BY FS_Interval
  <1>3. QED
    BY <1>2, <1>4, SumType DEF SumTo

\* What the first k tiers cost is what their steps cost, rounded down by less than one GB's
\* worth for each.
TiersFit(tiers, c, P, k) ==
    /\ SumTo(TierCosts(tiers, c), k) \in Int
    /\ GbUnit * SumTo(TierCosts(tiers, c), k) <= SumTo(P, Reach(tiers, c, k))
    /\ SumTo(P, Reach(tiers, c, k)) <= GbUnit * SumTo(TierCosts(tiers, c), k) + GbUnit * k

\* A tier charges for the steps it covers, up to what is rounded ...
LEMMA NextTierFits ==
  ASSUME NEW tiers, InOrder(tiers), NEW gb, NEW c \in Nat, NEW P, Priced(tiers, gb, c, P),
         NEW k \in 1..Len(tiers), TiersFit(tiers, c, P, k - 1)
  PROVE  TiersFit(tiers, c, P, k)
  <1> DEFINE j == k - 1
             u == GbUnit
             from == From(tiers, k)
             to == Reach(tiers, c, k)
             price == tiers[k].price
             f == TierCosts(tiers, c)
             y == SumTo(f, j)
             z == f[k]
             r == Reach(tiers, c, j)
             s == SumTo(P, r)
  <1>1. /\ u \in Nat /\ u > 0 /\ from \in Nat /\ to \in 0..c /\ price \in Nat /\ z = Cost(from, to, price) /\ z \in Nat
        /\ from <= tiers[k].upto /\ r \in 0..c
        /\ r = (IF c <= from THEN c ELSE from) /\ to = (IF c <= tiers[k].upto THEN c ELSE tiers[k].upto)
        /\ tiers[k].upto \in Nat
        /\ Len(tiers) \in Nat /\ DOMAIN tiers = 1..Len(tiers)
    <2>1. k \in 0..Len(tiers) /\ j \in 0..Len(tiers)
      BY TierFacts
    <2>2. u \in Nat /\ u > 0 /\ to \in 0..c /\ r \in 0..c /\ Len(tiers) \in Nat /\ DOMAIN tiers = 1..Len(tiers)
      BY <2>1, TierFacts, ZenonT(40)
    <2>3. from \in Nat /\ price \in Nat
      BY TierFacts
    <2>4. f[k] = Cost(From(tiers, k), Reach(tiers, c, k), tiers[k].price) /\ f[k] \in Nat
      BY TierFacts
    <2>5. /\ from <= tiers[k].upto /\ tiers[k].upto \in Nat
          /\ r = (IF c <= from THEN c ELSE from) /\ to = (IF c <= tiers[k].upto THEN c ELSE tiers[k].upto)
      BY TierFacts
    <2>6. QED
      BY <2>2, <2>3, <2>4, <2>5
  <1>2. P \in [1..c -> Prices] /\ \A i \in 1..c : PriceOf(tiers, gb, i, P[i])
    BY DEF Priced
  <1>3. SumTo(f, k) = y + z /\ y \in Int
    <2>1. \A i \in 1..(j + 1) : f[i] \in Int
      <3>1. \A i \in 1..(j + 1) : i \in 1..Len(tiers)
        BY <1>1
      <3>2. \A i \in 1..Len(tiers) : f[i] \in Nat
        BY TierFacts
      <3>3. QED
        BY <3>1, <3>2
    <2>2. j \in Nat /\ j + 1 = k
      BY <1>1
    <2> HIDE DEF j, f
    <2>3. SumTo(f, j + 1) = SumTo(f, j) + f[j + 1] /\ SumTo(f, j) \in Int
      BY <2>1, <2>2, SumToNext
    <2>4. QED
      BY <2>2, <2>3
  <1>4. s \in Int /\ u * y <= s /\ s <= u * y + u * j
    <2>1. s \in Int
      BY <1>1, <1>2, PricesSum
    <2>2. QED
      BY <2>1 DEF TiersFit
  <1>5. j \in Int /\ k = j + 1 /\ u * k = u * j + u /\ u * j \in Int
    BY <1>1
  <1>6. u * y \in Int /\ u * z \in Int /\ u * (y + z) = u * y + u * z
    <2> HIDE DEF u, y, z
    <2>1. QED
      BY <1>1, <1>3, SMTT(40)
  <1>7. CASE from < to
    <2> DEFINE x == (to - from) * price
    <2>1. r = from /\ from <= to /\ to <= c
      BY <1>1, <1>7
    <2>2. ASSUME NEW i \in (from + 1)..to PROVE P[i] = price
      <3>1. i \in 1..c /\ from < i /\ i <= tiers[k].upto
        BY <1>1, <2>1
      <3>2. PriceOf(tiers, gb, i, P[i]) /\ k \in DOMAIN tiers
        BY <1>1, <1>2, <3>1
      <3>3. QED
        BY <3>1, <3>2 DEF PriceOf
    <2>3. SumTo(P, to) = s + x
      <3>1. \A i \in 1..to : P[i] \in Int
        BY <1>1, <1>2, PricesSum
      <3> HIDE DEF from, to, price
      <3>2. to \in Nat
        BY <1>1
      <3>3. SumTo(P, to) = SumTo(P, from) + (to - from) * price
        <4>1. from \in Nat /\ price \in Nat
          BY <1>1
        <4>2. QED
          BY <4>1, <2>1, <2>2, <3>1, <3>2, SumToSame
      <3>4. QED
        BY <2>1, <3>3
    <2>4. u * z <= x /\ x < u * z + u /\ x \in Int
      <3> HIDE DEF from, to, price
      <3>1. to \in Nat
        BY <1>1
      <3>2. z = Cost(from, to, price) /\ from \in Nat /\ price \in Nat
        BY <1>1
      <3>3. /\ u * Cost(from, to, price) <= (to - from) * price
            /\ (to - from) * price < u * Cost(from, to, price) + u
        BY <1>7, <3>1, <3>2, CostRounds
      <3>4. (to - from) * price \in Int
        BY <3>1, <3>2
      <3> HIDE DEF z, u
      <3>5. QED
        BY <3>2, <3>3, <3>4
    <2> HIDE DEF x, s, y, z, u, j, from, to
    <2>5. u * y + u * z <= s + x /\ s + x <= (u * y + u * z) + (u * j + u)
      <3> DEFINE a == u * y
                 b == u * z
                 d == u * j
      <3>1. /\ a \in Int /\ b \in Int /\ d \in Int /\ s \in Int /\ x \in Int /\ u \in Int
            /\ a <= s /\ s <= a + d /\ b <= x /\ x < b + u
        BY <1>1, <1>4, <1>5, <1>6, <2>4
      <3> HIDE DEF a, b, d
      <3>2. a + b <= s + x /\ s + x <= (a + b) + (d + u)
        BY <3>1
      <3>3. QED
        BY <3>2 DEF a, b, d
    <2>6. SumTo(f, k) \in Int /\ u * SumTo(f, k) = u * y + u * z
      <3>1. y + z \in Int
        BY <1>1, <1>3
      <3>2. QED
        BY <1>3, <1>6, <3>1
    <2>7. u * SumTo(f, k) <= SumTo(P, to) /\ SumTo(P, to) <= u * SumTo(f, k) + u * k
      BY <1>5, <2>3, <2>5, <2>6
    <2>8. QED
      BY <2>6, <2>7 DEF TiersFit, u, to
  <1>8. CASE ~(from < to)
    <2>1. r = to
      BY <1>1, <1>8
    <2>2. z = 0
      <3> HIDE DEF from, to, price
      <3>1. to \in Nat
        BY <1>1
      <3>2. QED
        BY <1>1, <1>8, <3>1, CostRounds
    <2>3. s = SumTo(P, to)
      BY <2>1
    <2> HIDE DEF s, y, z, u, j, from, to
    <2>4. SumTo(f, k) = y
      BY <1>3, <2>2
    <2>5. s <= u * y + u * k
      BY <1>1, <1>4, <1>5, <1>6, SMTT(40)
    <2>6. QED
      BY <1>3, <1>4, <2>3, <2>4, <2>5 DEF TiersFit, u, to
  <1>9. QED
    BY <1>7, <1>8

\* ... and so do all tiers together.
LEMMA TiersAddUp ==
  ASSUME NEW tiers, InOrder(tiers), NEW gb, NEW c \in Nat, NEW P, Priced(tiers, gb, c, P)
  PROVE  TiersFit(tiers, c, P, Len(tiers))
  <1> DEFINE Bad == {k \in 0..Len(tiers) : ~TiersFit(tiers, c, P, k)}
  <1>0. Len(tiers) \in Nat
    BY TierFacts
  <1>1. ASSUME Bad # {} PROVE FALSE
    <2>1. Bad \subseteq Nat
      OBVIOUS
    <2> HIDE DEF Bad
    <2>2. PICK k \in Bad : \A j \in Bad : k <= j
      BY <1>1, <2>1, LeastOf
    <2> USE DEF Bad
    <2>3. CASE k = 0
      <3>1. SumTo(TierCosts(tiers, c), 0) = 0 /\ SumTo(P, 0) = 0
        <4>1. SumFunctionOnSet(TierCosts(tiers, c), {}) = 0 /\ SumFunctionOnSet(P, {}) = 0
          BY FS_EmptySet, SumStep
        <4>2. 1..0 = {}
          OBVIOUS
        <4>3. QED
          BY <4>1, <4>2 DEF SumTo
      <3>2. Reach(tiers, c, 0) = 0 /\ GbUnit \in Nat
        BY TierFacts
      <3>3. GbUnit * 0 = 0
        BY <3>2
      <3>4. TiersFit(tiers, c, P, 0)
        BY <3>1, <3>2, <3>3 DEF TiersFit
      <3>5. QED
        BY <3>4, <2>2, <2>3
    <2>4. CASE k # 0
      <3>1. k \in 1..Len(tiers) /\ TiersFit(tiers, c, P, k - 1)
        BY <2>2, <2>4
      <3>2. TiersFit(tiers, c, P, k)
        BY <3>1, NextTierFits
      <3>3. QED
        BY <3>2, <2>2
    <2>5. QED
      BY <2>3, <2>4
  <1>2. QED
    BY <1>0, <1>1
-------------------------------------------------------------------------------
\* What the steps cost, priced right, is the debt but for what is rounded.
LEMMA DebtNear ==
  ASSUME NEW row, InOrder(row.tiers), row.gb \in Prices, NEW c \in Nat, NEW P, Priced(row.tiers, row.gb, c, P)
  PROVE  /\ Debt(row, c) \in Int /\ SumTo(P, c) \in Int
         /\ GbUnit * Debt(row, c) <= SumTo(P, c)
         /\ SumTo(P, c) < GbUnit * Debt(row, c) + GbUnit * (Len(row.tiers) + 1)
  <1> DEFINE t == row.tiers
             n == Len(t)
             u == GbUnit
             last == LastTier(t)
             m == Reach(t, c, n)
             y == SumTo(TierCosts(t, c), n)
             s == SumTo(P, m)
             d == Cost(last, c, row.gb)
  <1>1. /\ n \in Nat /\ u \in Nat /\ u > 0 /\ last \in Nat /\ m = (IF c <= last THEN c ELSE last) /\ m \in 0..c
        /\ DOMAIN t = 1..n
    <2> HIDE DEF t
    <2>1. n \in Nat /\ u \in Nat /\ u > 0 /\ last \in Nat /\ DOMAIN t = 1..n
      BY TierFacts DEF t
    <2>2. m = IF c <= last THEN c ELSE last
      BY TierFacts DEF t
    <2>3. QED
      BY <2>1, <2>2
  <1>2. y \in Int /\ u * y <= s /\ s <= u * y + u * n
    BY TiersAddUp DEF TiersFit
  <1>3. P \in [1..c -> Prices] /\ \A i \in 1..c : PriceOf(t, row.gb, i, P[i])
    BY DEF Priced
  <1>4. s \in Int /\ SumTo(P, c) \in Int /\ \A i \in 1..c : P[i] \in Int
    <2>1. c \in 0..c
      OBVIOUS
    <2>2. QED
      BY <1>1, <1>3, <2>1, PricesSum
  <1>5. row.gb \in Nat
    BY PricingAssumption
  <1>6. Debt(row, c) = y + d
    <2>1. Debt(row, c) = SumFunction(TierCosts(t, c)) + d
      BY DEF Debt, TierCosts
    <2>2. DOMAIN TierCosts(t, c) = 1..n
      BY <1>1 DEF TierCosts
    <2>3. SumFunction(TierCosts(t, c)) = y
      BY <2>2 DEF SumFunction, SumTo
    <2>4. QED
      BY <2>1, <2>3
  <1>7. d \in Nat /\ u * y \in Int /\ u * n \in Int /\ u * d \in Int
        /\ u * (y + d) = u * y + u * d /\ u * (n + 1) = u * n + u
    <2>1. d \in Nat
      BY <1>1, <1>5, CostRounds
    <2> HIDE DEF d, y, n, u
    <2>2. QED
      BY <1>1, <1>2, <2>1
  <1>8. CASE last < c
    <2> DEFINE x == (c - last) * row.gb
    <2>1. m = last
      BY <1>1, <1>8
    <2>2. ASSUME NEW i \in (last + 1)..c PROVE P[i] = row.gb
      <3>1. i \in 1..c /\ last < i
        BY <1>1
      <3>2. QED
        BY <1>3, <3>1 DEF PriceOf
    <2>3. SumTo(P, c) = s + x
      <3> HIDE DEF last
      <3> last <= c
        BY <1>1, <1>8
      <3>1. SumTo(P, c) = SumTo(P, last) + (c - last) * row.gb
        BY <1>1, <1>4, <1>5, <1>8, <2>2, SumToSame, ZenonT(40)
      <3>2. QED
        BY <2>1, <3>1
    <2>4. u * d <= x /\ x < u * d + u /\ x \in Int
      <3> HIDE DEF last
      <3>1. u * Cost(last, c, row.gb) <= (c - last) * row.gb /\ (c - last) * row.gb < u * Cost(last, c, row.gb) + u
        BY <1>1, <1>5, <1>8, CostRounds
      <3>2. (c - last) * row.gb \in Int
        BY <1>1, <1>5
      <3>3. QED
        BY <3>1, <3>2
    <2> DEFINE a == u * y
               b == u * d
               e == u * n
    <2>5. a + b <= s + x /\ s + x < (a + b) + (e + u)
      <3>1. /\ a \in Int /\ b \in Int /\ e \in Int /\ s \in Int /\ x \in Int /\ u \in Int
            /\ a <= s /\ s <= a + e /\ b <= x /\ x < b + u
        BY <1>1, <1>2, <1>4, <1>7, <2>4
      <3> HIDE DEF a, b, e, x, s, u
      <3>2. QED
        BY <3>1
    <2> HIDE DEF x, s, y, d
    <2>6. Debt(row, c) \in Int /\ u * Debt(row, c) = a + b
      <3>1. y + d \in Int
        BY <1>2, <1>7
      <3>2. QED
        BY <1>6, <1>7, <3>1
    <2>7. QED
      BY <1>4, <1>7, <2>3, <2>5, <2>6
  <1>9. CASE ~(last < c)
    <2>1. m = c
      BY <1>1, <1>9
    <2>2. d = 0
      BY <1>1, <1>5, <1>9, CostRounds
    <2>3. SumTo(P, c) = s
      BY <2>1
    <2> DEFINE a == u * y
               e == u * n
    <2>4. a <= s /\ s < a + (e + u)
      <3>1. a \in Int /\ e \in Int /\ s \in Int /\ u \in Int /\ a <= s /\ s <= a + e /\ u > 0
        BY <1>1, <1>2, <1>4, <1>7
      <3> HIDE DEF a, e, s, u
      <3>2. QED
        BY <3>1
    <2> HIDE DEF s, y, d
    <2>5. Debt(row, c) = y
      BY <1>2, <1>6, <2>2
    <2>6. QED
      BY <1>2, <1>4, <1>7, <2>3, <2>4, <2>5
  <1>10. QED
    BY <1>1, <1>8, <1>9
-------------------------------------------------------------------------------
\* Of finitely many prices, one is the highest.
LEMMA HighestPrice ==
  ASSUME Prices # {}
  PROVE  Max(Prices) \in Prices /\ \A p \in Prices : p <= Max(Prices)
  <1> DEFINE Bad == {s \in SUBSET Prices : s # {} /\ ~\E x \in s : \A y \in s : x >= y}
  <1>0. IsFiniteSet(Prices) /\ \A p \in Prices : p \in Nat
    BY PricingAssumption
  <1>1. ASSUME Bad # {} PROVE FALSE
    <2>1. Bad \in SUBSET SUBSET Prices
      OBVIOUS
    <2> HIDE DEF Bad
    <2>2. PICK s \in Bad : \A t \in Bad : t \subseteq s => t = s
      BY <1>0, <1>1, <2>1, SmallestBad
    <2> USE DEF Bad
    <2>3. PICK p \in s : TRUE
      BY <2>2
    <2> DEFINE t == s \ {p}
    <2>4. t \notin Bad /\ t \subseteq Prices
      BY <2>2, <2>3
    <2>5. CASE t = {}
      <3>1. \A y \in s : p >= y
        BY <1>0, <2>2, <2>3, <2>5
      <3>2. QED
        BY <2>2, <2>3, <3>1
    <2>6. CASE t # {}
      <3>1. PICK x \in t : \A y \in t : x >= y
        BY <2>4, <2>6
      <3>2. x \in Nat /\ p \in Nat /\ x \in s /\ \A y \in s : y \in Nat
        BY <1>0, <2>2, <2>3, <3>1
      <3>3. CASE x >= p
        BY <2>2, <3>1, <3>2, <3>3
      <3>4. CASE ~(x >= p)
        <4>1. \A y \in s : p >= y
          <5>1. ASSUME NEW y \in s PROVE p >= y
            <6>1. CASE y = p
              BY <6>1, <3>2
            <6>2. CASE y # p
              <7>1. x >= y
                BY <6>2, <3>1
              <7>2. y \in Nat
                BY <3>2
              <7>3. QED
                BY <3>2, <3>4, <7>1, <7>2
            <6>3. QED
              BY <6>1, <6>2
          <5>2. QED
            BY <5>1
        <4>2. QED
          BY <2>2, <2>3, <4>1
      <3>5. QED
        BY <3>3, <3>4
    <2>7. QED
      BY <2>5, <2>6
  <1>2. \E x \in Prices : \A y \in Prices : x >= y
    BY <1>1
  <1>3. Max(Prices) \in Prices /\ \A y \in Prices : Max(Prices) >= y
    BY <1>2 DEF Max
  <1>4. QED
    BY <1>0, <1>3

\* Two sums differ by no more than the highest price for each step they differ in.
LEMMA FewDiffer ==
  ASSUME NEW c \in Nat, NEW a \in [1..c -> Prices], NEW P \in [1..c -> Prices],
         NEW D \in SUBSET (1..c), \A i \in 1..c : i \notin D => a[i] = P[i],
         NEW top \in Nat, \A p \in Prices : p <= top
  PROVE  /\ Cardinality(D) \in Nat
         /\ SumTo(a, c) \in Int /\ SumTo(P, c) \in Int
         /\ SumTo(a, c) <= SumTo(P, c) + Cardinality(D) * top
         /\ SumTo(P, c) <= SumTo(a, c) + Cardinality(D) * top
  <1> DEFINE Some(m) == {i \in D : i <= m}
             count(m) == Cardinality(Some(m))
             Near(m) == /\ SumTo(a, m) <= SumTo(P, m) + count(m) * top
                        /\ SumTo(P, m) <= SumTo(a, m) + count(m) * top
             Bad == {m \in 0..c : ~Near(m)}
  <1>0. \A i \in 1..c : a[i] \in Nat /\ P[i] \in Nat /\ a[i] <= top /\ P[i] <= top
    <2>1. \A p \in Prices : p \in Nat
      BY PricingAssumption
    <2>2. QED
      BY <2>1
  <1>7. \A i \in D : i \in Int /\ i >= 1 /\ i <= c
    OBVIOUS
  <1>8. /\ Some(0) = {} /\ Some(c) = D
        /\ \A m \in 1..c : Some(m) = IF m \in D THEN Some(m - 1) \cup {m} ELSE Some(m - 1)
        /\ \A m \in 1..c : m \notin Some(m - 1)
    <2>1. Some(0) = {}
      <3>1. ASSUME NEW i \in D, i <= 0 PROVE FALSE
        BY <1>7, <3>1
      <3>2. QED
        BY <3>1
    <2>2. Some(c) = D
      BY <1>7
    <2>3. ASSUME NEW m \in 1..c
          PROVE  m \notin Some(m - 1) /\ Some(m) = IF m \in D THEN Some(m - 1) \cup {m} ELSE Some(m - 1)
      <3>1. ASSUME NEW i \in D PROVE i <= m <=> i <= m - 1 \/ i = m
        BY <1>7, <3>1
      <3>2. m \notin Some(m - 1)
        <4>1. ~(m <= m - 1)
          OBVIOUS
        <4>2. QED
          BY <4>1
      <3>3. CASE m \in D
        <4>1. m <= m
          OBVIOUS
        <4>2. \A i : i \in Some(m) <=> i \in Some(m - 1) \cup {m}
          BY <3>1, <3>3, <4>1
        <4> HIDE DEF Some
        <4>3. Some(m) = Some(m - 1) \cup {m}
          BY <4>2
        <4>4. QED
          BY <3>2, <3>3, <4>3
      <3>4. CASE m \notin D
        BY <3>1, <3>4
      <3>5. QED
        BY <3>2, <3>3, <3>4
    <2>4. QED
      BY <2>1, <2>2, <2>3
  <1>1. \A m \in 0..c : IsFiniteSet(Some(m)) /\ count(m) \in Nat
    <2>1. IsFiniteSet(1..c)
      BY FS_Interval
    <2>2. QED
      BY <2>1, FS_Subset, FS_CardinalityType
  <1>2. \A m \in 0..c : SumTo(a, m) \in Int /\ SumTo(P, m) \in Int
    BY PricesSum
  <1>3. ASSUME Bad # {} PROVE FALSE
    <2>1. Bad \subseteq Nat
      OBVIOUS
    <2> HIDE DEF Bad
    <2>2. PICK m \in Bad : \A j \in Bad : m <= j
      BY <1>3, <2>1, LeastOf
    <2> USE DEF Bad
    <2>3. CASE m = 0
      <3>1. SumTo(a, 0) = 0 /\ SumTo(P, 0) = 0
        <4>1. SumFunctionOnSet(a, {}) = 0 /\ SumFunctionOnSet(P, {}) = 0
          BY FS_EmptySet, SumStep
        <4>2. 1..0 = {}
          OBVIOUS
        <4>3. QED
          BY <4>1, <4>2 DEF SumTo
      <3>2. count(0) = 0
        <4>1. QED
          BY <1>8, FS_EmptySet
      <3> HIDE DEF count
      <3>3. Near(0)
        BY <3>1, <3>2
      <3>4. QED
        BY <2>2, <2>3, <3>3
    <2>4. CASE m # 0
      <3> DEFINE j == m - 1
      <3>1. j \in 0..c /\ j \in Nat /\ m = j + 1 /\ m \in 1..c
        BY <2>2, <2>4
      <3>2. Near(j)
        <4>1. j \notin Bad
          <5> HIDE DEF Bad
          <5>1. QED
            BY <2>2, <3>1
        <4> HIDE DEF Near
        <4>2. QED
          BY <3>1, <4>1
      <3>3. SumTo(a, m) = SumTo(a, j) + a[m] /\ SumTo(P, m) = SumTo(P, j) + P[m]
        <4>1. (\A i \in 1..(j + 1) : a[i] \in Int) /\ (\A i \in 1..(j + 1) : P[i] \in Int)
          BY <1>0, <3>1
        <4> HIDE DEF j
        <4>2. SumTo(a, j + 1) = SumTo(a, j) + a[j + 1]
          BY <3>1, <4>1, SumToNext
        <4>3. SumTo(P, j + 1) = SumTo(P, j) + P[j + 1]
          BY <3>1, <4>1, SumToNext
        <4>4. QED
          BY <3>1, <4>2, <4>3
      <3>4. a[m] \in Nat /\ P[m] \in Nat /\ a[m] <= top /\ P[m] <= top
        BY <1>0, <3>1
      <3> DEFINE A == SumTo(a, j)
                 B == SumTo(P, j)
                 e == count(j) * top
      <3>5. A \in Int /\ B \in Int /\ e \in Int /\ count(j) \in Nat /\ A <= B + e /\ B <= A + e
        <4>1. A \in Int /\ B \in Int /\ count(j) \in Nat
          BY <1>1, <1>2, <3>1
        <4>2. A <= B + e /\ B <= A + e
          BY <3>2
        <4> HIDE DEF count
        <4>3. e \in Int
          BY <4>1
        <4>4. QED
          BY <4>1, <4>2, <4>3
      <3>6. CASE m \in D
        <4>1. Some(m) = Some(j) \cup {m} /\ m \notin Some(j)
          BY <1>8, <3>1, <3>6
        <4>2. count(m) = count(j) + 1
          BY <1>1, <3>1, <4>1, FS_AddElement
        <4> HIDE DEF count, A, B, j, Some
        <4>3. count(m) * top = e + top
          BY <3>5, <4>2
        <4> HIDE DEF e
        <4>4. A + a[m] <= (B + P[m]) + (e + top) /\ B + P[m] <= (A + a[m]) + (e + top)
          BY <3>4, <3>5, SMTT(40)
        <4>5. Near(m)
          BY <3>3, <4>3, <4>4 DEF A, B
        <4>6. QED
          BY <2>2, <4>5
      <3>7. CASE m \notin D
        <4>1. Some(m) = Some(j)
          BY <1>8, <3>1, <3>7
        <4>2. count(m) * top = e
          BY <4>1
        <4>3. a[m] = P[m]
          BY <3>1, <3>7
        <4> HIDE DEF count, A, B, j, Some, e
        <4>4. A + a[m] <= (B + P[m]) + e /\ B + P[m] <= (A + a[m]) + e
          BY <3>4, <3>5, <4>3
        <4>5. Near(m)
          BY <3>3, <4>2, <4>4 DEF A, B
        <4>6. QED
          BY <2>2, <4>5
      <3>8. QED
        BY <3>6, <3>7
    <2>5. QED
      BY <2>3, <2>4
  <1>4. c \in 0..c /\ Some(c) = D
    BY <1>8
  <1>5. Near(c)
    BY <1>3, <1>4
  <1>6. QED
    BY <1>1, <1>2, <1>4, <1>5

\* The steps for which another price was agreed on than the tiers say.
Disputed(row, a, m) == {i \in 1..m : ~PriceOf(row.tiers, row.gb, i, a[i])}

\* When few steps are disputed, the debt is what was agreed on but for these and what is rounded.
LEMMA DebtAgrees ==
  ASSUME NEW row, InOrder(row.tiers), row.gb \in Prices, NEW c \in Nat, NEW a \in [1..c -> Prices],
         NEW doubted \in Nat, Cardinality(Disputed(row, a, c)) <= doubted
  PROVE  LET debt == GbUnit * Debt(row, c)
             doubt == doubted * Max(Prices)
         IN  /\ debt <= SumTo(a, c) + doubt
             /\ SumTo(a, c) - doubt < debt + GbUnit * (Len(row.tiers) + 1)
  <1> DEFINE D == Disputed(row, a, c)
             top == Max(Prices)
             P == [i \in 1..c |-> IF i \in D THEN CHOOSE p \in Prices : PriceOf(row.tiers, row.gb, i, p) ELSE a[i]]
  <1>1. Prices # {} /\ top \in Nat /\ \A p \in Prices : p <= top
    BY HighestPrice, PricingAssumption
  <1>2. D \in SUBSET (1..c)
    BY DEF Disputed
  <1>3. \A i \in 1..c : P[i] \in Prices /\ PriceOf(row.tiers, row.gb, i, P[i])
    <2>1. ASSUME NEW i \in 1..c PROVE P[i] \in Prices /\ PriceOf(row.tiers, row.gb, i, P[i])
      <3>1. CASE i \in D
        <4>1. \E p \in Prices : PriceOf(row.tiers, row.gb, i, p)
          BY PriceExists
        <4> DEFINE p == CHOOSE p \in Prices : PriceOf(row.tiers, row.gb, i, p)
        <4>2. p \in Prices /\ PriceOf(row.tiers, row.gb, i, p)
          BY <4>1
        <4>3. P[i] = p
          BY <3>1
        <4>4. QED
          BY <4>2, <4>3
      <3>2. CASE i \notin D
        <4>1. P[i] = a[i]
          BY <3>2
        <4>2. PriceOf(row.tiers, row.gb, i, a[i])
          BY <3>2 DEF Disputed
        <4>3. QED
          BY <4>1, <4>2
      <3>3. QED
        BY <3>1, <3>2
    <2>2. QED
      BY <2>1
  <1>4. \A i \in 1..c : i \notin D => a[i] = P[i]
    OBVIOUS
  <1>5. P \in [1..c -> Prices]
    <2>1. P = [i \in 1..c |-> P[i]]
      OBVIOUS
    <2> HIDE DEF P
    <2>2. QED
      BY <1>3, <2>1
  <1> HIDE DEF P, D, top
  <1>6. Priced(row.tiers, row.gb, c, P)
    BY <1>3, <1>5 DEF Priced
  <1> DEFINE k == Cardinality(D)
             A == SumTo(a, c)
             S == SumTo(P, c)
             debt == GbUnit * Debt(row, c)
             less == GbUnit * (Len(row.tiers) + 1)
  <1>7. k \in Nat /\ A \in Int /\ S \in Int /\ A <= S + k * top /\ S <= A + k * top
    BY <1>1, <1>2, <1>4, <1>5, FewDiffer
  <1>8. debt \in Int /\ less \in Int /\ debt <= S /\ S < debt + less
    <2>1. Debt(row, c) \in Int /\ debt <= S /\ S < debt + less
      BY <1>6, DebtNear
    <2>2. GbUnit \in Nat /\ Len(row.tiers) \in Nat
      BY TierFacts
    <2>3. QED
      BY <2>1, <2>2
  <1>9. k * top <= doubted * top /\ k * top \in Int /\ doubted * top \in Int
    <2>1. k <= doubted
      BY DEF D
    <2> HIDE DEF k
    <2>2. QED
      BY <1>1, <1>7, <2>1
  <1> DEFINE x == k * top
             y == doubted * top
  <1>10. debt <= A + y /\ A - y < debt + less
    <2>1. x \in Int /\ y \in Int /\ x <= y /\ A <= S + x /\ S <= A + x
      BY <1>7, <1>9
    <2> HIDE DEF x, y, A, S, debt, less
    <2>2. QED
      BY <1>7, <1>8, <2>1
  <1>11. QED
    BY <1>10 DEF top
-------------------------------------------------------------------------------
Bases == {"allocated", "consumed"}
PriceRows == [gb : Prices, basis : Bases, past : {0, 1}, tiers : Seq(PriceTiers)]
Snapshots == {NoSnapshot} \cup 0..MaxConsumed

\* A change that is under way has a price, and a snapshot where it was told to keep the old one.
SaveTyped(v) ==
    /\ v.at \in {"idle", "asked", "answered", "counting", "saving"}
    /\ v.basis \in Bases /\ v.choice \in Answers /\ v.snap \in Snapshots
    /\ v.at # "idle" => v.gb \in Prices
    /\ v.at = "saving" /\ v.choice = "no" /\ v.basis = "consumed" => v.snap # NoSnapshot
    /\ v.snap # NoSnapshot => v.at = "saving"
Saves == [at : {"idle", "asked", "answered", "counting", "saving"}, gb : Prices \cup {0},
          basis : Bases, choice : Answers, snap : Snapshots]

PricingTyped ==
    /\ pricing \in PriceRows /\ InOrder(pricing.tiers)
    /\ pricing.basis = "allocated" => pricing.tiers = <<>>
    /\ pricing.past = 1 => pricing.tiers = <<>>
    /\ consumed \in 0..MaxConsumed /\ agreed \in Seq(Prices) /\ Len(agreed) = consumed
    /\ save \in [Savers -> Saves] /\ \A s \in Savers : SaveTyped(save[s])
    /\ late \in 0..MaxConsumed /\ spoilt \in BOOLEAN

\* As long as nothing is spoilt, the tiers end where something was consumed, the steps in dispute
\* are among those that were late, and so are those behind a snapshot.
TiersSure ==
    /\ LastTier(pricing.tiers) <= consumed
    /\ Cardinality(Disputed(pricing, agreed, consumed)) <= late
SnapshotSure(v) ==
    v.snap # NoSnapshot =>
        /\ LastTier(pricing.tiers) <= v.snap /\ v.snap <= consumed
        /\ Cardinality(Disputed(pricing, agreed, v.snap)) + (consumed - v.snap) <= late

PricingInv ==
    /\ PricingTyped
    /\ ~spoilt => TiersSure /\ \A s \in Savers : SnapshotSure(save[s])
-------------------------------------------------------------------------------
\* Tiers stay in order when one is put where it belongs, ...
LEMMA InsertInOrder ==
  ASSUME NEW t, InOrder(t), NEW new \in PriceTiers
  PROVE  InOrder(Insert(t, new))
  <1> DEFINE n == Len(t)
             later == {i \in 1..n : t[i].upto > new.upto}
             k == SelectInSeq(t, LAMBDA x : x.upto > new.upto)
             at == IF k = 0 THEN n + 1 ELSE k
             r == InsertAt(t, at, new)
  <1>1. /\ n \in Nat /\ DOMAIN t = 1..n /\ t \in Seq(PriceTiers)
        /\ \A i \in 1..n : t[i] \in PriceTiers /\ t[i].upto \in Nat
        /\ \A i, j \in 1..n : i < j => t[i].upto <= t[j].upto
        /\ new.upto \in Nat
    <2>1. 0 \in Nat
      OBVIOUS
    <2>2. \A i \in 1..n : t[i].upto \in Nat
      BY <2>1, TierFacts
    <2>3. new.upto \in Nat
      BY PricingAssumption DEF PriceTiers
    <2>4. QED
      BY <2>2, <2>3 DEF InOrder
  <1>2. /\ at \in 1..(n + 1)
        /\ \A i \in 1..(at - 1) : t[i].upto <= new.upto
        /\ \A i \in at..n : new.upto <= t[i].upto
    <2>1. k = IF later # {} THEN Min(later) ELSE 0
      BY DEF SelectInSeq
    <2>2. CASE later = {}
      <3>1. at = n + 1
        BY <2>1, <2>2
      <3>2. ASSUME NEW i \in 1..n PROVE t[i].upto <= new.upto
        <4>1. ~(t[i].upto > new.upto)
          BY <2>2
        <4>2. QED
          BY <1>1, <4>1
      <3> HIDE DEF at, n
      <3>3. QED
        BY <1>1, <3>1, <3>2
    <2>3. CASE later # {}
      <3>1. later \subseteq Nat
        OBVIOUS
      <3> HIDE DEF later
      <3>2. PICK m \in later : \A j \in later : m <= j
        BY <2>3, <3>1, LeastOf
      <3>3. Min(later) \in later /\ \A j \in later : Min(later) <= j
        BY <3>2 DEF Min
      <3> USE DEF later
      <3>4. k \in later /\ \A j \in later : k <= j
        BY <2>1, <2>3, <3>3
      <3> HIDE DEF k
      <3>5. at = k /\ k \in 1..n /\ t[k].upto > new.upto
        BY <3>4
      <3>6. ASSUME NEW i \in 1..(k - 1) PROVE t[i].upto <= new.upto
        <4>1. i \in 1..n /\ ~(k <= i)
          BY <1>1, <3>5
        <4>2. i \notin later
          BY <3>4, <4>1
        <4>3. QED
          BY <1>1, <4>1, <4>2
      <3>7. ASSUME NEW i \in k..n PROVE new.upto <= t[i].upto
        <4>1. i \in 1..n /\ (i = k \/ k < i)
          BY <1>1, <3>5
        <4>2. t[k].upto <= t[i].upto
          BY <1>1, <3>5, <4>1
        <4>3. QED
          BY <1>1, <3>5, <4>1, <4>2
      <3> HIDE DEF at, n
      <3>8. QED
        BY <1>1, <3>5, <3>6, <3>7
    <2>4. QED
      BY <2>2, <2>3
  <1> HIDE DEF at, n
  <1>3. /\ r \in Seq(PriceTiers) /\ Len(r) = n + 1
        /\ \A i \in 1..(n + 1) : r[i] = IF i < at THEN t[i] ELSE IF i = at THEN new ELSE t[i - 1]
    <2>1. PICK S : S = PriceTiers
      OBVIOUS
    <2>2. PICK p : p = at
      OBVIOUS
    <2>3. t \in Seq(S) /\ new \in S /\ p \in 1..(Len(t) + 1)
      BY <1>1, <1>2, <2>1, <2>2 DEF n
    <2>4. /\ InsertAt(t, p, new) \in Seq(S) /\ Len(InsertAt(t, p, new)) = Len(t) + 1
          /\ \A i \in 1..(Len(t) + 1) :
                InsertAt(t, p, new)[i] = IF i < p THEN t[i] ELSE IF i = p THEN new ELSE t[i - 1]
      BY <2>3, PutIn
    <2>5. QED
      BY <2>1, <2>2, <2>4 DEF n
  <1>4. Insert(t, new) = r
    BY DEF Insert, at, n
  <1> HIDE DEF r
  <1>5. ASSUME NEW i \in 1..(n + 1), NEW j \in 1..(n + 1), i < j
        PROVE  r[i].upto <= r[j].upto
    <2>1. CASE j < at
      BY <1>1, <1>2, <1>3, <1>5, <2>1
    <2>2. CASE j = at
      BY <1>1, <1>2, <1>3, <1>5, <2>2
    <2>3. CASE j > at
      <3>1. r[j] = t[j - 1] /\ j - 1 \in at..n /\ j - 1 \in 1..n
        BY <1>1, <1>2, <1>3, <2>3
      <3>2. CASE i < at
        BY <1>1, <1>2, <1>3, <1>5, <3>1, <3>2
      <3>3. CASE i = at
        BY <1>1, <1>2, <1>3, <3>1, <3>3
      <3>4. CASE i > at
        <4>1. r[i] = t[i - 1] /\ i - 1 \in 1..n /\ i - 1 < j - 1
          BY <1>1, <1>2, <1>3, <1>5, <3>4
        <4>2. QED
          BY <1>1, <3>1, <4>1
      <3>5. QED
        BY <1>2, <3>2, <3>3, <3>4
    <2>4. QED
      BY <1>2, <2>1, <2>2, <2>3
  <1>6. QED
    BY <1>1, <1>3, <1>4, <1>5 DEF InOrder

\* ... behind all others where it reaches farthest, ...
LEMMA InsertBehind ==
  ASSUME NEW t, InOrder(t), NEW new \in PriceTiers, LastTier(t) <= new.upto
  PROVE  Insert(t, new) = Append(t, new)
  <1> DEFINE n == Len(t)
  <1>1. /\ n \in Nat /\ t \in Seq(PriceTiers) /\ LastTier(t) \in Nat /\ new.upto \in Nat
        /\ \A i \in 1..n : t[i].upto \in Nat /\ t[i].upto <= LastTier(t)
    <2>1. 0 \in Nat
      OBVIOUS
    <2>2. LastTier(t) \in Nat /\ \A i \in 1..n : t[i].upto \in Nat /\ t[i].upto <= LastTier(t)
      BY <2>1, TierFacts
    <2>3. new.upto \in Nat
      BY PricingAssumption DEF PriceTiers
    <2>4. QED
      BY <2>2, <2>3 DEF InOrder
  <1>2. \A i \in 1..n : ~(t[i].upto > new.upto)
    BY <1>1
  <1>3. {i \in 1..Len(t) : t[i].upto > new.upto} = {}
    BY <1>2
  <1>4. SelectInSeq(t, LAMBDA x : x.upto > new.upto) = 0
    BY <1>3 DEF SelectInSeq
  <1>5. Insert(t, new) = InsertAt(t, n + 1, new)
    BY <1>4 DEF Insert
  <1>6. InsertAt(t, n + 1, new) = Append(t, new)
    <2>1. SubSeq(t, 1, (n + 1) - 1) = t
      BY <1>1
    <2>2. SubSeq(t, n + 1, n) = <<>>
      BY <1>1
    <2>3. t \o <<new>> = Append(t, new) /\ Append(t, new) \in Seq(PriceTiers)
      BY <1>1
    <2> DEFINE a == Append(t, new)
    <2> HIDE DEF a
    <2>4. a \o <<>> = a
      BY <2>3 DEF a
    <2>5. QED
      BY <2>1, <2>2, <2>3, <2>4 DEF InsertAt, a
  <1>7. QED
    BY <1>5, <1>6

\* ... and then the prices that were right stay right.
LEMMA StaysRight ==
  ASSUME NEW t, InOrder(t), NEW gb \in Prices, NEW snap \in 0..MaxConsumed, LastTier(t) <= snap,
         NEW next, NEW i \in Nat \ {0}, i <= snap, NEW p
  PROVE  PriceOf(Append(t, [upto |-> snap, price |-> gb]), next, i, p) <=> PriceOf(t, gb, i, p)
  <1> DEFINE n == Len(t)
             new == [upto |-> snap, price |-> gb]
             r == Append(t, new)
  <1>1. n \in Nat /\ DOMAIN t = 1..n /\ t \in Seq(PriceTiers) /\ LastTier(t) \in Nat /\ snap \in Nat
    <2>1. 0 \in Nat
      OBVIOUS
    <2>2. LastTier(t) \in Nat
      BY <2>1, TierFacts
    <2>3. QED
      BY <2>2, PricingAssumption DEF InOrder
  <1>2. DOMAIN r = 1..(n + 1) /\ Len(r) = n + 1 /\ r[n + 1] = new /\ \A k \in 1..n : r[k] = t[k]
    <2>1. new \in PriceTiers
      BY DEF PriceTiers
    <2>2. QED
      BY <1>1, <2>1
  <1> HIDE DEF r, n
  <1>3. \A k \in 1..n : From(r, k) = From(t, k)
    BY <1>1, <1>2 DEF From
  <1>4. From(r, n + 1) = LastTier(t)
    BY <1>1, <1>2 DEF From, LastTier, n
  <1>5. LastTier(r) = snap
    BY <1>1, <1>2 DEF From, LastTier
  <1>6. \A k \in DOMAIN r : k \in 1..n \/ k = n + 1
    BY <1>1, <1>2
  <1>7. ASSUME PriceOf(r, next, i, p) PROVE PriceOf(t, gb, i, p)
    <2>1. ASSUME NEW k \in DOMAIN t, From(t, k) < i, i <= t[k].upto PROVE p = t[k].price
      <3>1. k \in DOMAIN r /\ From(r, k) < i /\ i <= r[k].upto /\ r[k] = t[k]
        BY <1>1, <1>2, <1>3, <2>1
      <3>2. QED
        BY <1>7, <3>1 DEF PriceOf
    <2>2. ASSUME LastTier(t) < i PROVE p = gb
      <3>1. n + 1 \in DOMAIN r /\ From(r, n + 1) < i /\ i <= r[n + 1].upto /\ r[n + 1].price = gb
        BY <1>1, <1>2, <1>4, <2>2
      <3>2. QED
        BY <1>7, <3>1 DEF PriceOf
    <2>3. QED
      BY <2>1, <2>2 DEF PriceOf
  <1>8. ASSUME PriceOf(t, gb, i, p) PROVE PriceOf(r, next, i, p)
    <2>1. ASSUME NEW k \in DOMAIN r, From(r, k) < i, i <= r[k].upto PROVE p = r[k].price
      <3>1. CASE k \in 1..n
        <4>1. k \in DOMAIN t /\ From(t, k) < i /\ i <= t[k].upto /\ r[k] = t[k]
          BY <1>1, <1>2, <1>3, <2>1, <3>1
        <4>2. QED
          BY <1>8, <4>1 DEF PriceOf
      <3>2. CASE k = n + 1
        <4>1. LastTier(t) < i /\ r[k].price = gb
          BY <1>2, <1>4, <2>1, <3>2
        <4>2. QED
          BY <1>8, <4>1 DEF PriceOf
      <3>3. QED
        BY <1>6, <3>1, <3>2
    <2>2. ~(LastTier(r) < i)
      BY <1>1, <1>5
    <2>3. QED
      BY <2>1, <2>2 DEF PriceOf
  <1>9. QED
    BY <1>7, <1>8 DEF r
-------------------------------------------------------------------------------
\* Of the first m steps no more than m are disputed, and of fewer no more.
LEMMA FewDisputed ==
  ASSUME NEW row, NEW a, NEW n \in Nat, NEW m \in 0..n
  PROVE  /\ IsFiniteSet(Disputed(row, a, m)) /\ Cardinality(Disputed(row, a, m)) \in 0..m
         /\ Cardinality(Disputed(row, a, m)) <= Cardinality(Disputed(row, a, n))
         /\ Cardinality(Disputed(row, a, n)) <= Cardinality(Disputed(row, a, m)) + (n - m)
  <1> DEFINE few == Disputed(row, a, m)
             many == Disputed(row, a, n)
  <1>1. IsFiniteSet(1..m) /\ Cardinality(1..m) = m /\ IsFiniteSet((m + 1)..n) /\ Cardinality((m + 1)..n) = n - m
        /\ IsFiniteSet(1..n)
    <2>1. IsFiniteSet((m + 1)..n) /\ Cardinality((m + 1)..n) = IF m + 1 > n THEN 0 ELSE n - (m + 1) + 1
      BY FS_Interval
    <2>2. IsFiniteSet(1..m) /\ Cardinality(1..m) = IF 1 > m THEN 0 ELSE m - 1 + 1
      BY FS_Interval
    <2>3. IsFiniteSet(1..n)
      BY FS_Interval
    <2>4. QED
      BY <2>1, <2>2, <2>3
  <1>2. few \subseteq 1..m /\ few \subseteq many /\ many \subseteq few \cup ((m + 1)..n) /\ many \subseteq 1..n
    BY DEF Disputed
  <1> HIDE DEF few, many
  <1>3. IsFiniteSet(few) /\ IsFiniteSet(many) /\ Cardinality(few) \in Nat /\ Cardinality(many) \in Nat
        /\ Cardinality(few) <= Cardinality(1..m) /\ Cardinality(few) <= Cardinality(many)
    <2>1. IsFiniteSet(many)
      BY <1>1, <1>2, FS_Subset
    <2>2. IsFiniteSet(few) /\ Cardinality(few) <= Cardinality(many)
      BY <2>1, <1>2, FS_Subset
    <2>3. Cardinality(few) <= Cardinality(1..m)
      BY <1>1, <1>2, FS_Subset
    <2>4. QED
      BY <2>1, <2>2, <2>3, FS_CardinalityType
  <1> DEFINE u == few \cup ((m + 1)..n)
  <1>4. Cardinality(u) <= Cardinality(few) + (n - m)
    <2>1. Cardinality(u) = Cardinality(few) + Cardinality((m + 1)..n) - Cardinality(few \cap ((m + 1)..n))
      BY <1>1, <1>3, FS_Union
    <2>2. Cardinality(few \cap ((m + 1)..n)) \in Nat
      BY <1>3, FS_Intersection, FS_CardinalityType
    <2>3. QED
      BY <1>1, <1>3, <2>1, <2>2
  <1>5. Cardinality(many) <= Cardinality(u) /\ Cardinality(u) \in Nat
    <2>1. IsFiniteSet(u)
      BY <1>1, <1>3, FS_Union
    <2>2. QED
      BY <1>2, <2>1, FS_Subset, FS_CardinalityType
  <1>6. QED
    BY <1>1, <1>3, <1>4, <1>5 DEF few, many

\* Where a price has just been set for all, nothing is in dispute.
LEMMA NothingDisputed ==
  ASSUME NEW row, row.tiers = <<>>, NEW c \in Nat, NEW a, \A i \in 1..c : a[i] = row.gb
  PROVE  LastTier(row.tiers) = 0 /\ Disputed(row, a, c) = {}
  <1>1. LastTier(row.tiers) = 0
    BY DEF LastTier, From
  <1>2. \A i \in 1..c : PriceOf(row.tiers, row.gb, i, a[i])
    BY DEF PriceOf
  <1>3. QED
    BY <1>1, <1>2 DEF Disputed

\* What depends only on the row, on the consumption and on who has a snapshot is kept where
\* these are.
LEMMA PricingRests ==
  ASSUME PricingInv, pricing' = pricing, consumed' = consumed, agreed' = agreed, late' = late,
         spoilt' = spoilt, save' \in [Savers -> Saves], \A s \in Savers : SaveTyped(save'[s]),
         \A s \in Savers : save'[s].snap \in {save[s].snap, NoSnapshot}
  PROVE  PricingInv'
  <1>1. PricingTyped'
    BY DEF PricingInv, PricingTyped
  <1>2. ASSUME ~spoilt PROVE TiersSure' /\ \A s \in Savers : SnapshotSure(save[s])'
    <2>1. TiersSure'
      BY <1>2 DEF PricingInv, TiersSure
    <2>2. ASSUME NEW s \in Savers PROVE SnapshotSure(save[s])'
      <3>1. SnapshotSure(save[s])
        BY <1>2 DEF PricingInv
      <3>2. QED
        BY <3>1 DEF SnapshotSure
    <2>3. QED
      BY <2>1, <2>2
  <1>3. QED
    BY <1>1, <1>2 DEF PricingInv

\* An invariant of all changes of a price: of which kinds the rows are, ...
LEMMA PricingBegins == PricingInit => PricingInv
  <1> SUFFICES ASSUME PricingInit PROVE PricingInv
    OBVIOUS
  <1>1. /\ pricing.gb \in Prices /\ pricing.tiers = <<>> /\ pricing \in PriceRows
        /\ consumed = 0 /\ agreed = <<>> /\ late = 0 /\ spoilt = FALSE
        /\ save = [s \in Savers |-> NoSave]
    BY DEF PricingInit, PriceRows, Bases
  <1>2. NoSave \in Saves /\ SaveTyped(NoSave)
    BY DEF NoSave, Saves, SaveTyped, Snapshots, Answers, Bases, NoSnapshot
  <1>3. PricingTyped
    <2>1. InOrder(<<>>)
      BY DEF InOrder
    <2>2. save \in [Savers -> Saves] /\ \A s \in Savers : SaveTyped(save[s])
      BY <1>1, <1>2
    <2>3. consumed \in 0..MaxConsumed /\ agreed \in Seq(Prices) /\ Len(agreed) = consumed /\ late \in 0..MaxConsumed
      BY <1>1, PricingAssumption
    <2>4. QED
      BY <1>1, <2>1, <2>2, <2>3 DEF PricingTyped
  <1>4. TiersSure
    <2>1. \A i \in 1..0 : agreed[i] = pricing.gb
      OBVIOUS
    <2>2. LastTier(pricing.tiers) = 0 /\ Disputed(pricing, agreed, 0) = {}
      BY <1>1, <2>1, NothingDisputed
    <2>3. Cardinality(Disputed(pricing, agreed, consumed)) = 0
      BY <1>1, <2>2, FS_EmptySet
    <2>4. QED
      BY <1>1, <2>2, <2>3 DEF TiersSure
  <1>5. \A s \in Savers : SnapshotSure(save[s])
    BY <1>1 DEF SnapshotSure, NoSave
  <1>6. QED
    BY <1>3, <1>4, <1>5 DEF PricingInv
-------------------------------------------------------------------------------
\* ... whatever the dialogs ask and answer, ...
LEMMA DialogsKeepPricing ==
  ASSUME PricingInv, NEW s \in Savers,
         \/ \E gb \in Prices : PricingDay(s, gb)
         \/ \E choice \in {"yes", "no"} : Answer(s, choice)
         \/ ReadBasis(s) \/ SwitchBasis(s) \/ Abandon(s)
  PROVE  PricingInv'
  <1> DEFINE v == save[s]
             w == save'[s]
  <1>1. /\ save \in [Savers -> Saves] /\ \A x \in Savers : SaveTyped(save[x])
        /\ pricing.gb \in Prices /\ pricing.basis \in Bases /\ v \in Saves /\ SaveTyped(v)
    BY DEF PricingInv, PricingTyped, PriceRows
  <1>2. NoSave \in Saves /\ SaveTyped(NoSave) /\ NoSave.snap = NoSnapshot
    BY DEF NoSave, Saves, SaveTyped, Snapshots, Answers, Bases, NoSnapshot
  <1>3. ASSUME NEW changed \in Saves, SaveTyped(changed), changed.snap \in {v.snap, NoSnapshot},
               Moves(s, changed), pricing' = pricing, consumed' = consumed, agreed' = agreed,
               late' = late, spoilt' = spoilt
        PROVE  PricingInv'
    <2>1. save' \in [Savers -> Saves] /\ \A x \in Savers : save'[x] = IF x = s THEN changed ELSE save[x]
      BY <1>1, <1>3 DEF Moves
    <2>2. \A x \in Savers : SaveTyped(save'[x]) /\ save'[x].snap \in {save[x].snap, NoSnapshot}
      BY <1>1, <1>3, <2>1
    <2>3. QED
      BY <1>3, <2>1, <2>2, PricingRests
  <1>4. ASSUME NEW gb \in Prices, PricingDay(s, gb) PROVE PricingInv'
    <2> DEFINE changed == [NoSave EXCEPT !.at = IF gb = pricing.gb THEN "answered" ELSE "asked", !.gb = gb]
    <2>1. changed \in Saves /\ SaveTyped(changed) /\ changed.snap = NoSnapshot
      BY DEF NoSave, Saves, SaveTyped, Snapshots, Answers, Bases, NoSnapshot
    <2>2. Moves(s, changed) /\ UNCHANGED <<pricing, consumed, agreed, late, spoilt>>
      BY <1>4 DEF PricingDay
    <2> HIDE DEF changed
    <2>3. QED
      BY <1>3, <2>1, <2>2
  <1>5. ASSUME NEW choice \in {"yes", "no"}, Answer(s, choice) PROVE PricingInv'
    <2> DEFINE changed == [v EXCEPT !.at = "answered", !.choice = choice]
    <2>1. v.at = "asked"
      BY <1>5 DEF Answer
    <2>2. changed \in Saves /\ SaveTyped(changed) /\ changed.snap = v.snap
      BY <1>1, <2>1 DEF Saves, SaveTyped, Answers
    <2>3. Moves(s, changed) /\ UNCHANGED <<pricing, consumed, agreed, late, spoilt>>
      BY <1>5 DEF Answer
    <2> HIDE DEF changed
    <2>4. QED
      BY <1>3, <2>2, <2>3
  <1>6. CASE ReadBasis(s)
    <2> DEFINE changed == [v EXCEPT !.basis = pricing.basis,
                             !.at = IF v.choice = "no" /\ pricing.basis = "consumed" THEN "counting" ELSE "saving"]
    <2>1. v.at = "answered"
      BY <1>6 DEF ReadBasis
    <2>2. changed \in Saves /\ SaveTyped(changed) /\ changed.snap = v.snap
      BY <1>1, <2>1 DEF Saves, SaveTyped, Answers
    <2>3. Moves(s, changed) /\ UNCHANGED <<pricing, consumed, agreed, late, spoilt>>
      BY <1>6 DEF ReadBasis
    <2> HIDE DEF changed
    <2>4. QED
      BY <1>3, <2>2, <2>3
  <1>7. CASE SwitchBasis(s)
    <2> DEFINE changed == [NoSave EXCEPT !.at = "saving", !.gb = pricing.gb,
                             !.basis = IF pricing.basis = "allocated" THEN "consumed" ELSE "allocated"]
    <2>1. changed \in Saves /\ SaveTyped(changed) /\ changed.snap = NoSnapshot
      BY <1>1 DEF NoSave, Saves, SaveTyped, Snapshots, Answers, Bases, NoSnapshot
    <2>2. Moves(s, changed) /\ UNCHANGED <<pricing, consumed, agreed, late, spoilt>>
      BY <1>7 DEF SwitchBasis
    <2> HIDE DEF changed
    <2>3. QED
      BY <1>3, <2>1, <2>2
  <1>8. CASE Abandon(s)
    BY <1>2, <1>3, <1>8 DEF Abandon
  <1>9. QED
    BY <1>4, <1>5, <1>6, <1>7, <1>8

\* ... when a summary is asked for the consumption, ...
LEMMA SnapshotKeepsPricing ==
  ASSUME PricingInv, NEW s \in Savers, TakeSnapshot(s)
  PROVE  PricingInv'
  <1> DEFINE v == save[s]
  <1>1. PICK seen \in 0..consumed : Moves(s, [v EXCEPT !.at = "saving", !.snap = seen]) /\ spoilt' = (spoilt \/ seen # consumed)
    BY DEF TakeSnapshot
  <1> DEFINE changed == [v EXCEPT !.at = "saving", !.snap = seen]
  <1>2. /\ save \in [Savers -> Saves] /\ \A x \in Savers : SaveTyped(save[x])
        /\ v \in Saves /\ SaveTyped(v) /\ v.at = "counting" /\ consumed \in 0..MaxConsumed /\ consumed \in Nat
        /\ UNCHANGED <<pricing, consumed, agreed, late>>
    BY PricingAssumption DEF PricingInv, PricingTyped, TakeSnapshot
  <1>3. changed \in Saves /\ SaveTyped(changed) /\ changed.snap = seen
    <2>1. seen \in Snapshots /\ seen # NoSnapshot
      BY <1>2, PricingAssumption DEF Snapshots, NoSnapshot
    <2>2. QED
      BY <1>2, <2>1 DEF Saves, SaveTyped
  <1>4. save' \in [Savers -> Saves] /\ \A x \in Savers : save'[x] = IF x = s THEN changed ELSE save[x]
    BY <1>1, <1>2, <1>3 DEF Moves
  <1> HIDE DEF changed
  <1>5. PricingTyped'
    <2>1. \A x \in Savers : SaveTyped(save'[x])
      BY <1>2, <1>3, <1>4
    <2>2. spoilt' \in BOOLEAN
      BY <1>1
    <2>3. QED
      BY <1>2, <1>4, <2>1, <2>2 DEF PricingInv, PricingTyped
  <1>6. ASSUME ~spoilt' PROVE TiersSure' /\ \A x \in Savers : SnapshotSure(save[x])'
    <2>1. ~spoilt /\ seen = consumed
      BY <1>1, <1>6
    <2>2. TiersSure /\ \A x \in Savers : SnapshotSure(save[x])
      BY <2>1 DEF PricingInv
    <2>3. TiersSure'
      BY <1>2, <2>2 DEF TiersSure
    <2>4. ASSUME NEW x \in Savers PROVE SnapshotSure(save[x])'
      <3>1. CASE x = s
        <4>1. save'[x].snap = consumed
          BY <1>3, <1>4, <2>1, <3>1
        <4>2. late \in Nat /\ Cardinality(Disputed(pricing, agreed, consumed)) \in Nat
          <5>1. consumed \in 0..consumed
            BY <1>2
          <5>2. Cardinality(Disputed(pricing, agreed, consumed)) \in 0..consumed
            BY <1>2, <5>1, FewDisputed
          <5>3. late \in Nat
            BY PricingAssumption DEF PricingInv, PricingTyped
          <5>4. QED
            BY <5>2, <5>3
        <4>3. Cardinality(Disputed(pricing, agreed, consumed)) + (consumed - consumed) <= late
          BY <1>2, <2>2, <4>2 DEF TiersSure
        <4>4. QED
          BY <1>2, <2>2, <4>1, <4>3 DEF SnapshotSure, TiersSure
      <3>2. CASE x # s
        <4>1. save'[x] = save[x] /\ SnapshotSure(save[x])
          BY <1>4, <2>2, <3>2
        <4>2. QED
          BY <1>2, <4>1 DEF SnapshotSure
      <3>3. QED
        BY <3>1, <3>2
    <2>5. QED
      BY <2>3, <2>4
  <1>7. QED
    BY <1>5, <1>6 DEF PricingInv
-------------------------------------------------------------------------------
\* What is in dispute depends on the steps in question alone.
LEMMA SameDisputed ==
  ASSUME NEW row, NEW a, NEW b, NEW m \in Nat, \A i \in 1..m : a[i] = b[i]
  PROVE  Disputed(row, a, m) = Disputed(row, b, m)
  BY DEF Disputed

\* Snapshots that are waiting.
LEMMA SnappedAre ==
  ASSUME PricingInv
  PROVE  Snapped = {s \in Savers : save[s].snap # NoSnapshot}
  BY DEF PricingInv, PricingTyped, SaveTyped, Snapped

\* ... when a step is consumed, at the price of the row and, for those who have taken a snapshot,
\* too late, ...
LEMMA ConsumeKeepsPricing ==
  ASSUME PricingInv, Consume
  PROVE  PricingInv'
  <1>1. /\ consumed \in Nat /\ consumed' = consumed + 1 /\ consumed' \in 0..MaxConsumed
        /\ agreed \in Seq(Prices) /\ Len(agreed) = consumed
        /\ agreed' = Append(agreed, pricing.gb) /\ pricing.gb \in Prices /\ late \in Nat /\ MaxConsumed \in Nat
        /\ UNCHANGED <<pricing, save, saves, spoilt>> /\ late <= MaxConsumed /\ InOrder(pricing.tiers)
    BY PricingAssumption DEF Consume, PricingInv, PricingTyped, PriceRows
  <1>2. /\ agreed' \in Seq(Prices) /\ Len(agreed') = consumed + 1 /\ agreed'[consumed + 1] = pricing.gb
        /\ \A i \in 1..consumed : agreed'[i] = agreed[i]
    BY <1>1
  <1>3. late' = IF Snapped = {} THEN late ELSE IF late + 1 <= MaxConsumed THEN late + 1 ELSE MaxConsumed
    <2>1. Min({late + 1, MaxConsumed}) = IF late + 1 <= MaxConsumed THEN late + 1 ELSE MaxConsumed
      <3> DEFINE x == late + 1
      <3>1. x \in Nat
        BY <1>1
      <3> HIDE DEF x
      <3>2. Min({x, MaxConsumed}) = IF x <= MaxConsumed THEN x ELSE MaxConsumed
        BY <1>1, <3>1 DEF Min
      <3>3. QED
        BY <3>2 DEF x
    <2>2. QED
      BY <2>1 DEF Consume
  <1>4. late' \in 0..MaxConsumed /\ late <= late'
    BY <1>1, <1>3
  <1>5. PricingTyped'
    BY <1>1, <1>2, <1>4 DEF PricingInv, PricingTyped
  <1>6. ASSUME ~spoilt' PROVE TiersSure' /\ \A x \in Savers : SnapshotSure(save[x])'
    <2>1. TiersSure /\ \A x \in Savers : SnapshotSure(save[x])
      BY <1>1, <1>6 DEF PricingInv
    <2>2. LastTier(pricing.tiers) \in Nat /\ LastTier(pricing.tiers) <= consumed
      BY <1>1, <2>1, TierFacts DEF TiersSure
    <2>3. \A m \in 0..consumed : Disputed(pricing, agreed', m) = Disputed(pricing, agreed, m)
      <3>1. ASSUME NEW m \in 0..consumed PROVE Disputed(pricing, agreed', m) = Disputed(pricing, agreed, m)
        <4>1. m \in Nat /\ \A i \in 1..m : agreed'[i] = agreed[i]
          BY <1>1, <1>2
        <4>2. QED
          BY <4>1, SameDisputed
      <3>2. QED
        BY <3>1
    <2>4. Disputed(pricing, agreed', consumed') = Disputed(pricing, agreed, consumed)
      <3>1. PriceOf(pricing.tiers, pricing.gb, consumed + 1, agreed'[consumed + 1])
        <4>1. ASSUME NEW k \in DOMAIN pricing.tiers PROVE ~(consumed + 1 <= pricing.tiers[k].upto)
          <5>1. pricing.tiers[k].upto \in Nat /\ pricing.tiers[k].upto <= LastTier(pricing.tiers)
            <6>1. k \in 1..Len(pricing.tiers)
              BY <1>1, TierFacts
            <6>2. QED
              BY <1>1, <6>1, TierFacts
          <5>2. QED
            BY <1>1, <2>2, <5>1
        <4>2. QED
          BY <1>2, <4>1 DEF PriceOf
      <3>2. \A i \in 1..(consumed + 1) : i \in 1..consumed \/ i = consumed + 1
        BY <1>1
      <3>3. \A i \in 1..consumed : i \in 1..(consumed + 1)
        BY <1>1
      <3>4. QED
        BY <1>1, <1>2, <3>1, <3>2, <3>3 DEF Disputed
    <2>5. TiersSure'
      <3>1. Cardinality(Disputed(pricing, agreed, consumed)) \in Nat
        <4>1. consumed \in 0..consumed
          BY <1>1
        <4>2. Cardinality(Disputed(pricing, agreed, consumed)) \in 0..consumed
          BY <1>1, <4>1, FewDisputed
        <4>3. QED
          BY <4>2
      <3> DEFINE d == Cardinality(Disputed(pricing, agreed, consumed))
                 l == LastTier(pricing.tiers)
      <3>2. d <= late /\ late' \in Nat
        BY <1>4, <2>1 DEF TiersSure
      <3> HIDE DEF d, l
      <3>3. d <= late' /\ l <= consumed'
        BY <1>1, <1>4, <2>2, <3>1, <3>2 DEF d, l
      <3>4. QED
        BY <1>1, <2>4, <3>3 DEF TiersSure, d, l
    <2>6. ASSUME NEW x \in Savers PROVE SnapshotSure(save[x])'
      <3> SUFFICES ASSUME save[x].snap # NoSnapshot
                   PROVE  SnapshotSure(save[x])'
        BY <1>1 DEF SnapshotSure
      <3> DEFINE snap == save[x].snap
                 d == Cardinality(Disputed(pricing, agreed, snap))
      <3>1. /\ LastTier(pricing.tiers) <= snap /\ snap <= consumed /\ d + (consumed - snap) <= late
            /\ snap \in 0..consumed
        <4>1. LastTier(pricing.tiers) <= snap /\ snap <= consumed /\ d + (consumed - snap) <= late
          BY <2>1 DEF SnapshotSure
        <4>2. snap \in Nat
          BY PricingAssumption DEF PricingInv, PricingTyped, SaveTyped, Snapshots
        <4>3. QED
          BY <1>1, <4>1, <4>2
      <3>2. d \in 0..snap
        BY <1>1, <3>1, FewDisputed
      <3>3. late' = IF late + 1 <= MaxConsumed THEN late + 1 ELSE MaxConsumed
        BY <1>3, SnappedAre
      <3>4. d + (consumed' - snap) <= late'
        <4> HIDE DEF d, snap
        <4>1. QED
          BY <1>1, <3>1, <3>2, <3>3
      <3>5. Cardinality(Disputed(pricing, agreed', snap)) = d
        BY <2>3, <3>1
      <3>6. snap <= consumed'
        BY <1>1, <3>1
      <3>7. QED
        BY <1>1, <3>1, <3>4, <3>5, <3>6 DEF SnapshotSure
    <2>7. QED
      BY <2>5, <2>6
  <1>7. QED
    BY <1>5, <1>6 DEF PricingInv

\* ... when usage is lost, ...
LEMMA LoseKeepsPricing ==
  ASSUME PricingInv, Lose
  PROVE  PricingInv'
  <1> DEFINE c == consumed - 1
  <1>1. /\ consumed \in Nat /\ consumed > 0 /\ consumed' = c /\ consumed \in 0..MaxConsumed /\ MaxConsumed \in Nat
        /\ agreed \in Seq(Prices) /\ Len(agreed) = consumed /\ agreed' = SubSeq(agreed, 1, c)
        /\ spoilt' = (spoilt \/ Snapped # {} \/ consumed <= LastTier(pricing.tiers))
        /\ UNCHANGED <<pricing, save, saves, late>> /\ late \in Nat /\ InOrder(pricing.tiers)
    BY PricingAssumption DEF Lose, PricingInv, PricingTyped
  <1>2. c \in Nat /\ c \in 0..MaxConsumed /\ c \in 0..consumed
        /\ agreed' \in Seq(Prices) /\ Len(agreed') = c /\ \A i \in 1..c : agreed'[i] = agreed[i]
    <2>1. c \in Nat /\ c \in 0..MaxConsumed /\ c \in 0..consumed /\ c <= Len(agreed)
      BY <1>1
    <2> HIDE DEF c
    <2>2. SubSeq(agreed, 1, c) \in Seq(Prices) /\ Len(SubSeq(agreed, 1, c)) = c
          /\ \A i \in 1..c : SubSeq(agreed, 1, c)[i] = agreed[i]
      BY <1>1, <2>1
    <2>3. QED
      BY <1>1, <2>1, <2>2
  <1>3. PricingTyped'
    BY <1>1, <1>2 DEF PricingInv, PricingTyped
  <1>4. ASSUME ~spoilt' PROVE TiersSure' /\ \A x \in Savers : SnapshotSure(save[x])'
    <2>1. TiersSure /\ Snapped = {} /\ ~(consumed <= LastTier(pricing.tiers))
      BY <1>1, <1>4 DEF PricingInv
    <2>2. LastTier(pricing.tiers) \in Nat
      BY <1>1, TierFacts
    <2>3. Disputed(pricing, agreed', c) = Disputed(pricing, agreed, c)
      BY <1>2, SameDisputed
    <2>4. /\ Cardinality(Disputed(pricing, agreed, c)) <= Cardinality(Disputed(pricing, agreed, consumed))
          /\ Cardinality(Disputed(pricing, agreed, c)) \in 0..c
      BY <1>1, <1>2, FewDisputed
    <2>5. Cardinality(Disputed(pricing, agreed, consumed)) \in Nat
      <3>1. consumed \in 0..consumed
        BY <1>1
      <3>2. Cardinality(Disputed(pricing, agreed, consumed)) \in 0..consumed
        BY <1>1, <3>1, FewDisputed
      <3>3. QED
        BY <3>2
    <2>6. Cardinality(Disputed(pricing, agreed, c)) <= late /\ LastTier(pricing.tiers) <= c
      <3> DEFINE d == Cardinality(Disputed(pricing, agreed, c))
                 e == Cardinality(Disputed(pricing, agreed, consumed))
                 l == LastTier(pricing.tiers)
      <3>1. e <= late
        BY <2>1 DEF TiersSure
      <3> HIDE DEF d, e, l
      <3>2. d <= e /\ d \in Int /\ e \in Int /\ l \in Nat /\ ~(consumed <= l)
        BY <2>1, <2>2, <2>4, <2>5 DEF d, e, l
      <3>3. d <= late /\ l <= c
        BY <1>1, <3>1, <3>2
      <3>4. QED
        BY <3>3 DEF d, l
    <2>7. TiersSure'
      BY <1>1, <2>3, <2>6 DEF TiersSure
    <2>8. \A x \in Savers : SnapshotSure(save[x])'
      BY <1>1, <2>1, SnappedAre DEF SnapshotSure
    <2>9. QED
      BY <2>7, <2>8
  <1>5. QED
    BY <1>3, <1>4 DEF PricingInv
-------------------------------------------------------------------------------
\* ... and when a price is saved: the row that is written is a row, ...
LEMMA RowWritten ==
  ASSUME PricingInv, NEW s \in Savers, SetPricing(s)
  PROVE  /\ pricing' \in PriceRows /\ InOrder(pricing'.tiers)
         /\ pricing'.basis = "allocated" => pricing'.tiers = <<>>
         /\ pricing'.past = 1 => pricing'.tiers = <<>>
         /\ pricing'.gb = save[s].gb
         /\ \/ /\ save[s].choice = "yes" \/ save[s].basis # "consumed" \/ pricing.basis # "consumed"
               /\ pricing'.tiers = <<>>
            \/ save[s].choice = "none" /\ pricing'.tiers = <<>>
            \/ /\ save[s].choice = "no" /\ save[s].snap # NoSnapshot
               /\ pricing'.tiers = IF save[s].gb = pricing.gb THEN pricing.tiers
                                   ELSE Insert(pricing.tiers, [upto |-> save[s].snap, price |-> pricing.gb])
  <1> DEFINE v == save[s]
             past == AppliesToPast(pricing, v.choice)
             tiers == NextTiers(pricing, v.gb, v.basis, past, v.snap)
  <1>1. /\ pricing.gb \in Prices /\ pricing.basis \in Bases /\ pricing.past \in {0, 1} /\ InOrder(pricing.tiers)
        /\ pricing.basis = "allocated" => pricing.tiers = <<>>
        /\ v.gb \in Prices /\ v.basis \in Bases /\ v.choice \in Answers /\ v.snap \in Snapshots
        /\ v.choice = "no" /\ v.basis = "consumed" => v.snap # NoSnapshot
    BY DEF PricingInv, PricingTyped, PriceRows, SaveTyped, SetPricing
  <1>2. pricing' = [gb |-> v.gb, basis |-> v.basis, past |-> past, tiers |-> tiers]
    BY DEF SetPricing, NewRow
  <1>3. past \in {0, 1} /\ (past = 0 <=> v.choice = "no")
    BY <1>1 DEF AppliesToPast, Answers
  <1>4. CASE v.basis # "consumed" \/ pricing.basis # "consumed" \/ past # 0
    <2>1. tiers = <<>>
      BY <1>4 DEF NextTiers
    <2>2. InOrder(<<>>)
      BY DEF InOrder
    <2> HIDE DEF tiers, past
    <2>3. pricing' \in PriceRows /\ InOrder(pricing'.tiers) /\ pricing'.tiers = <<>> /\ pricing'.gb = v.gb
      BY <1>1, <1>2, <1>3, <2>1, <2>2 DEF PriceRows, InOrder
    <2>4. v.choice = "yes" \/ v.choice = "none" \/ v.basis # "consumed" \/ pricing.basis # "consumed"
      BY <1>1, <1>3, <1>4 DEF Answers
    <2>5. QED
      BY <2>3, <2>4
  <1>5. CASE v.basis = "consumed" /\ pricing.basis = "consumed" /\ past = 0
    <2>1. v.choice = "no" /\ v.snap # NoSnapshot /\ v.snap \in 0..MaxConsumed
      BY <1>1, <1>3, <1>5 DEF Snapshots
    <2>2. tiers = IF v.gb = pricing.gb THEN pricing.tiers ELSE Insert(pricing.tiers, [upto |-> v.snap, price |-> pricing.gb])
      BY <1>5, <2>1 DEF NextTiers
    <2>3. InOrder(tiers)
      <3>1. [upto |-> v.snap, price |-> pricing.gb] \in PriceTiers
        BY <1>1, <2>1 DEF PriceTiers
      <3> DEFINE new == [upto |-> v.snap, price |-> pricing.gb]
      <3> HIDE DEF new
      <3>2. new \in PriceTiers
        BY <3>1 DEF new
      <3>3. InOrder(Insert(pricing.tiers, new))
        BY <1>1, <3>2, InsertInOrder
      <3>4. tiers = IF v.gb = pricing.gb THEN pricing.tiers ELSE Insert(pricing.tiers, new)
        BY <2>2 DEF new
      <3> HIDE DEF tiers
      <3>5. QED
        BY <1>1, <3>3, <3>4
    <2> HIDE DEF tiers, past
    <2>4. pricing' \in PriceRows /\ pricing'.tiers = tiers /\ pricing'.gb = v.gb /\ pricing'.past = 0 /\ pricing'.basis = "consumed"
      BY <1>1, <1>2, <1>3, <1>5, <2>3 DEF PriceRows, InOrder
    <2>5. QED
      BY <2>1, <2>2, <2>3, <2>4
  <1>6. QED
    BY <1>3, <1>4, <1>5

\* ... everything else stays of its kind, ...
LEMMA SetPricingTyped ==
  ASSUME PricingInv, NEW s \in Savers, SetPricing(s)
  PROVE  /\ PricingTyped'
         /\ \A x \in Savers : save'[x].snap = IF x = s THEN NoSnapshot ELSE save[x].snap
         /\ consumed \in Nat /\ late \in Nat /\ InOrder(pricing.tiers)
  <1> DEFINE v == save[s]
             anew == v.choice = "yes" \/ v.basis # "consumed" \/ pricing.basis # "consumed"
  <1>1. /\ consumed \in 0..MaxConsumed /\ consumed \in Nat /\ agreed \in Seq(Prices) /\ Len(agreed) = consumed
        /\ save \in [Savers -> Saves] /\ \A x \in Savers : SaveTyped(save[x])
        /\ late \in 0..MaxConsumed /\ late \in Nat /\ MaxConsumed \in Nat /\ v.gb \in Prices /\ InOrder(pricing.tiers)
    BY PricingAssumption DEF PricingInv, PricingTyped, SaveTyped, SetPricing
  <1>2. NoSave \in Saves /\ SaveTyped(NoSave) /\ NoSave.snap = NoSnapshot
    BY DEF NoSave, Saves, SaveTyped, Snapshots, Answers, Bases, NoSnapshot
  <1>3. save' \in [Savers -> Saves] /\ \A x \in Savers : save'[x] = IF x = s THEN NoSave ELSE save[x]
    BY <1>1, <1>2 DEF SetPricing, Moves
  <1>4. \A x \in Savers : SaveTyped(save'[x])
    BY <1>1, <1>2, <1>3
  <1>5. /\ agreed' = IF anew THEN [i \in 1..consumed |-> v.gb] ELSE agreed
        /\ late' = IF anew THEN 0 ELSE late
        /\ spoilt' \in BOOLEAN /\ consumed' = consumed
    BY DEF SetPricing
  <1>6. agreed' \in Seq(Prices) /\ Len(agreed') = consumed /\ late' \in 0..MaxConsumed
    <2>1. CASE anew
      <3> DEFINE b == [i \in 1..consumed |-> v.gb]
      <3>1. b \in Seq(Prices) /\ Len(b) = consumed
        BY <1>1
      <3>2. QED
        BY <1>1, <1>5, <2>1, <3>1
    <2>2. CASE ~anew
      BY <1>1, <1>5, <2>2
    <2>3. QED
      BY <2>1, <2>2
  <1>7. PricingTyped'
    BY <1>1, <1>3, <1>4, <1>5, <1>6, RowWritten DEF PricingTyped
  <1>8. \A x \in Savers : save'[x].snap = IF x = s THEN NoSnapshot ELSE save[x].snap
    BY <1>2, <1>3
  <1>9. QED
    BY <1>1, <1>7, <1>8

\* ... and no more is in dispute than was late.
LEMMA SetPricingSure ==
  ASSUME PricingInv, NEW s \in Savers, SetPricing(s), ~spoilt'
  PROVE  /\ LastTier(pricing'.tiers) <= consumed
         /\ Cardinality(Disputed(pricing', agreed', consumed)) <= late'
  <1> DEFINE v == save[s]
             anew == v.choice = "yes" \/ v.basis # "consumed" \/ pricing.basis # "consumed"
             row == pricing'
  <1>1. /\ consumed \in Nat /\ late \in Nat /\ InOrder(pricing.tiers) /\ pricing.gb \in Prices
        /\ v.snap \in Snapshots /\ v.at = "saving"
    BY SetPricingTyped DEF PricingInv, PricingTyped, PriceRows, SaveTyped, SetPricing
  <1>2. row.gb = v.gb
    BY RowWritten
  <1>3. /\ agreed' = IF anew THEN [i \in 1..consumed |-> v.gb] ELSE agreed
        /\ late' = IF anew THEN 0 ELSE late
    BY DEF SetPricing
  <1>4. CASE anew
    <2>1. row.tiers = <<>>
      <3>1. v.basis # "consumed" \/ pricing.basis # "consumed" => row.tiers = <<>>
        BY DEF SetPricing, NewRow, NextTiers
      <3>2. v.choice = "yes" => row.tiers = <<>>
        BY RowWritten
      <3>3. QED
        BY <1>4, <3>1, <3>2
    <2>2. \A i \in 1..consumed : agreed'[i] = row.gb
      BY <1>2, <1>3, <1>4
    <2> HIDE DEF row
    <2>3. LastTier(row.tiers) = 0 /\ Disputed(row, agreed', consumed) = {}
      BY <1>1, <2>1, <2>2, NothingDisputed
    <2>4. Cardinality(Disputed(row, agreed', consumed)) = 0
      BY <2>3, FS_EmptySet
    <2>5. QED
      BY <1>1, <1>3, <1>4, <2>3, <2>4 DEF row
  <1>5. CASE ~anew
    <2>1. ~spoilt /\ agreed' = agreed /\ late' = late
          /\ ~(v.choice = "none" /\ (pricing.tiers # <<>> \/ v.gb # pricing.gb))
      BY <1>3, <1>5 DEF SetPricing
    <2>2. TiersSure /\ SnapshotSure(v)
      BY <2>1 DEF PricingInv
    <2>3. CASE row.tiers = pricing.tiers /\ v.gb = pricing.gb
      <3>1. Disputed(row, agreed, consumed) = Disputed(pricing, agreed, consumed)
        BY <1>2, <2>3 DEF Disputed
      <3>2. QED
        BY <2>1, <2>2, <2>3, <3>1 DEF TiersSure
    <2>4. CASE ~(row.tiers = pricing.tiers /\ v.gb = pricing.gb)
      <3> DEFINE snap == v.snap
                 new == [upto |-> snap, price |-> pricing.gb]
      <3>1. v.choice = "no" /\ snap # NoSnapshot /\ v.gb # pricing.gb /\ row.tiers = Insert(pricing.tiers, new)
        BY <1>5, <2>1, <2>4, RowWritten
      <3>2. snap \in 0..MaxConsumed /\ snap \in Nat
        BY <1>1, <3>1, PricingAssumption DEF Snapshots
      <3>3. /\ LastTier(pricing.tiers) <= snap /\ snap <= consumed
            /\ Cardinality(Disputed(pricing, agreed, snap)) + (consumed - snap) <= late
        BY <2>2, <3>1 DEF SnapshotSure
      <3>4. new \in PriceTiers /\ new.upto = snap
        BY <1>1, <3>2 DEF PriceTiers
      <3>5. row.tiers = Append(pricing.tiers, new)
        <4> HIDE DEF new, snap
        <4>1. QED
          BY <1>1, <3>1, <3>3, <3>4, InsertBehind
      <3>6. LastTier(row.tiers) = snap
        <4>1. pricing.tiers \in Seq(PriceTiers) /\ Len(pricing.tiers) \in Nat
          BY <1>1 DEF InOrder
        <4> DEFINE n == Len(pricing.tiers)
        <4> HIDE DEF new, row
        <4>2. Len(row.tiers) = n + 1 /\ row.tiers[n + 1] = new
          BY <3>4, <3>5, <4>1
        <4>3. From(row.tiers, (n + 1) + 1) = new.upto
          BY <4>1, <4>2 DEF From
        <4>4. QED
          BY <3>4, <4>2, <4>3 DEF LastTier
      <3>7. Disputed(row, agreed, snap) = Disputed(pricing, agreed, snap)
        <4>1. ASSUME NEW i \in 1..snap
              PROVE  PriceOf(row.tiers, row.gb, i, agreed[i]) <=> PriceOf(pricing.tiers, pricing.gb, i, agreed[i])
          <5>1. i \in Nat \ {0} /\ i <= snap
            BY <3>2
          <5> DEFINE next == row.gb
                     p == agreed[i]
          <5> HIDE DEF next, p, snap, row
          <5>2. PriceOf(Append(pricing.tiers, [upto |-> snap, price |-> pricing.gb]), next, i, p)
                   <=> PriceOf(pricing.tiers, pricing.gb, i, p)
            BY <1>1, <3>2, <3>3, <5>1, StaysRight
          <5>3. QED
            BY <3>5, <5>2 DEF next, p
        <4>2. QED
          BY <4>1 DEF Disputed
      <3>8. Cardinality(Disputed(row, agreed, consumed)) <= Cardinality(Disputed(row, agreed, snap)) + (consumed - snap)
            /\ Cardinality(Disputed(row, agreed, snap)) \in 0..snap
        <4>1. snap \in 0..consumed
          BY <1>1, <3>2, <3>3
        <4> HIDE DEF snap, row
        <4>2. QED
          BY <1>1, <4>1, FewDisputed
      <3>9. Cardinality(Disputed(row, agreed, consumed)) \in Nat
        <4>1. consumed \in 0..consumed
          BY <1>1
        <4> HIDE DEF row
        <4>2. Cardinality(Disputed(row, agreed, consumed)) \in 0..consumed
          BY <1>1, <4>1, FewDisputed
        <4>3. QED
          BY <4>2
      <3>10. Cardinality(Disputed(row, agreed, consumed)) <= late
        <4> DEFINE d == Cardinality(Disputed(row, agreed, consumed))
                   e == Cardinality(Disputed(row, agreed, snap))
        <4>1. d <= e + (consumed - snap) /\ e + (consumed - snap) <= late /\ d \in Nat /\ e \in Int
          BY <3>3, <3>7, <3>8, <3>9
        <4> HIDE DEF d, e, snap
        <4>2. d <= late
          BY <1>1, <3>2, <4>1
        <4>3. QED
          BY <4>2 DEF d
      <3>11. QED
        BY <2>1, <3>3, <3>6, <3>10
    <2>5. QED
      BY <2>3, <2>4
  <1>6. QED
    BY <1>4, <1>5

\* A change of prices goes on from the tiers that are there.
LEMMA SetPricingKeeps ==
  ASSUME PricingInv, NEW s \in Savers, SetPricing(s)
  PROVE  PricingInv'
  <1>1. PricingTyped' /\ consumed' = consumed
    BY SetPricingTyped DEF SetPricing
  <1>2. ASSUME ~spoilt' PROVE TiersSure' /\ \A x \in Savers : SnapshotSure(save[x])'
    <2>1. TiersSure'
      BY <1>1, <1>2, SetPricingSure DEF TiersSure
    <2>2. ASSUME NEW x \in Savers PROVE save'[x].snap = NoSnapshot
      <3>1. Snapped \ {s} = {}
        BY <1>2 DEF SetPricing
      <3>2. QED
        BY <3>1, SnappedAre, SetPricingTyped
    <2>3. QED
      BY <2>1, <2>2 DEF SnapshotSure
  <1>3. QED
    BY <1>1, <1>2 DEF PricingInv

\* Rows and prices stay as described, and whatever is in dispute was late.
THEOREM PricingInvariant == PricingSpec => []PricingInv
  <1>1. PricingInv /\ [PricingNext]_pricingVars => PricingInv'
    <2> SUFFICES ASSUME PricingInv, [PricingNext]_pricingVars PROVE PricingInv'
      OBVIOUS
    <2>1. CASE Consume
      BY <2>1, ConsumeKeepsPricing
    <2>2. CASE Lose
      BY <2>2, LoseKeepsPricing
    <2>3. ASSUME NEW s \in Savers, TakeSnapshot(s) PROVE PricingInv'
      BY <2>3, SnapshotKeepsPricing
    <2>4. ASSUME NEW s \in Savers, SetPricing(s) PROVE PricingInv'
      BY <2>4, SetPricingKeeps
    <2>5. ASSUME NEW s \in Savers,
                 \/ \E gb \in Prices : PricingDay(s, gb)
                 \/ \E choice \in {"yes", "no"} : Answer(s, choice)
                 \/ ReadBasis(s) \/ SwitchBasis(s) \/ Abandon(s)
          PROVE  PricingInv'
      BY <2>5, DialogsKeepPricing
    <2>6. CASE UNCHANGED pricingVars
      <3>1. /\ pricing' = pricing /\ consumed' = consumed /\ agreed' = agreed /\ late' = late /\ spoilt' = spoilt
            /\ save' = save
        BY <2>6 DEF pricingVars
      <3>2. save \in [Savers -> Saves] /\ \A x \in Savers : SaveTyped(save[x])
        BY DEF PricingInv, PricingTyped
      <3>3. QED
        BY <3>1, <3>2, PricingRests
    <2>7. QED
      BY <2>1, <2>2, <2>3, <2>4, <2>5, <2>6 DEF PricingNext
  <1>2. QED
    BY <1>1, PricingBegins, PTL DEF PricingSpec

\* The row of prices and the changes under way stay of their kinds, and the tiers in order.
THEOREM PricingTypes == PricingSpec => []PricingTypeOK
  <1>1. PricingInv => PricingTypeOK
    <2> SUFFICES ASSUME PricingInv PROVE PricingTypeOK
      OBVIOUS
    <2>1. PricingTyped /\ InOrder(pricing.tiers) /\ pricing.gb \in Prices /\ pricing.past \in {0, 1}
      BY DEF PricingInv, PricingTyped, PriceRows
    <2>2. \A i \in DOMAIN pricing.tiers : pricing.tiers[i].upto \in 0..MaxConsumed /\ pricing.tiers[i].price \in Prices
      <3>1. \A t \in PriceTiers : t.upto \in 0..MaxConsumed /\ t.price \in Prices
        BY DEF PriceTiers
      <3>2. \A i \in DOMAIN pricing.tiers : pricing.tiers[i] \in PriceTiers
        BY <2>1 DEF InOrder
      <3>3. QED
        BY <3>1, <3>2
    <2>3. \A s \in Savers : save[s].choice \in Answers /\ save[s].snap \in {NoSnapshot} \cup 0..MaxConsumed
      BY <2>1 DEF PricingTyped, SaveTyped, Snapshots
    <2>4. QED
      BY <2>1, <2>2, <2>3 DEF PricingTypeOK, PricingTyped, InOrder
  <1>2. QED
    BY <1>1, PricingInvariant, PTL

\* Whatever changes of price and basis overlap, an admin who owes for what was consumed owes what
\* was agreed on, but for what is rounded and for what was consumed while a change was being saved.
THEOREM DebtStaysAsAgreed == PricingSpec => []DebtIsWhatWasAgreed
  <1>1. PricingInv => DebtIsWhatWasAgreed
    <2> SUFFICES ASSUME PricingInv, ~spoilt
                 PROVE  LET debt == GbUnit * Debt(pricing, consumed)
                            doubt == late * Max(Prices)
                        IN  /\ debt <= Owed + doubt
                            /\ Owed - doubt < debt + GbUnit * (Len(pricing.tiers) + 1)
      BY DEF DebtIsWhatWasAgreed
    <2>1. /\ InOrder(pricing.tiers) /\ pricing.gb \in Prices /\ consumed \in Nat /\ late \in Nat
          /\ agreed \in Seq(Prices) /\ Len(agreed) = consumed
      BY PricingAssumption DEF PricingInv, PricingTyped, PriceRows
    <2>2. agreed \in [1..consumed -> Prices] /\ DOMAIN agreed = 1..consumed
      BY <2>1
    <2>3. Cardinality(Disputed(pricing, agreed, consumed)) <= late
      BY DEF PricingInv, TiersSure
    <2>4. Owed = SumTo(agreed, consumed)
      BY <2>2 DEF Owed, SumFunction, SumTo
    <2>5. QED
      BY <2>1, <2>2, <2>3, <2>4, DebtAgrees
  <1>2. QED
    BY <1>1, PricingInvariant, PTL
-------------------------------------------------------------------------------
Owners == Resellers \cup {RootAdmin}
Segments == [owner : Owners, from : Nat, to : Nat, bill : BOOLEAN, detach : BOOLEAN]
Kept(segs) == segs \in Seq(Segments) /\ \A i \in DOMAIN segs : segs[i].from < segs[i].to
ClientRows == [total : 0..MaxTotal, used : Nat, comment : Owners \cup {Nobody}, tag : Tags]
Caps == [Resellers -> -1..MaxTotal]

\* The steps a segment stands for, and those of them that have been consumed.
Granted(segs, c) == [i \in DOMAIN segs |-> (segs[i].from + 1)..End(segs[i], c)]
Spent(segs, c) == [i \in DOMAIN segs |-> (segs[i].from + 1)..AtMost(c.used, End(segs[i], c))]

\* What each of some segments counts for.
Sizes(segs, c, S) == [i \in S |-> End(segs[i], c) - segs[i].from]
Uses(segs, c, S) == [i \in S |-> UsedOf(segs[i], c)]

\* Of segments that do not overlap, the steps are as many as the sums say, and they are steps of
\* the client.
LEMMA SegmentsCounted ==
  ASSUME NEW segs, Kept(segs), Disjoint(segs), NEW c \in ClientRows,
         NEW S \in SUBSET {i \in DOMAIN segs : segs[i].bill /\ End(segs[i], c) > segs[i].from}
  PROVE  /\ SumFunction(Sizes(segs, c, S)) = Cardinality(AllOf(Granted(segs, c), S))
         /\ SumFunction(Uses(segs, c, S)) = Cardinality(AllOf(Spent(segs, c), S))
         /\ AllOf(Granted(segs, c), S) \subseteq 1..c.total
         /\ AllOf(Spent(segs, c), S) = AllOf(Granted(segs, c), S) \cap (1..c.used)
  <1> DEFINE G == Granted(segs, c)
             P == Spent(segs, c)
             g == Sizes(segs, c, S)
             p == Uses(segs, c, S)
  <1>1. c.total \in Nat /\ c.used \in Nat
    BY SummariesAssumption DEF ClientRows
  <1>2. IsFiniteSet(S)
    <2>1. DOMAIN segs = 1..Len(segs) /\ Len(segs) \in Nat
      BY DEF Kept
    <2>2. IsFiniteSet(DOMAIN segs)
      BY <2>1, FS_Interval
    <2>3. QED
      BY <2>2, FS_Subset
  <1>3. ASSUME NEW i \in S
        PROVE  /\ segs[i].from \in Nat /\ segs[i].to \in Nat /\ End(segs[i], c) \in Nat
               /\ segs[i].from < End(segs[i], c) /\ End(segs[i], c) <= segs[i].to /\ End(segs[i], c) <= c.total
               /\ segs[i].bill
    <2>1. i \in DOMAIN segs /\ segs[i] \in Segments
      BY DEF Kept
    <2>2. QED
      BY <1>1, <2>1 DEF End, AtMost, Segments
  <1>4. ASSUME NEW i \in S
        PROVE  /\ G[i] = (segs[i].from + 1)..End(segs[i], c)
               /\ P[i] = (segs[i].from + 1)..AtMost(c.used, End(segs[i], c))
    BY DEF Granted, Spent
  <1>5. ASSUME NEW i \in S
        PROVE  /\ IsFiniteSet(G[i]) /\ g[i] = Cardinality(G[i])
               /\ IsFiniteSet(P[i]) /\ p[i] = Cardinality(P[i])
               /\ P[i] = G[i] \cap (1..c.used)
               /\ G[i] \subseteq 1..c.total
    <2>1. IsFiniteSet(G[i]) /\ g[i] = Cardinality(G[i])
      BY <1>3, <1>4, FS_Interval DEF Sizes
    <2>2. AtMost(c.used, End(segs[i], c)) \in Nat
      BY <1>1, <1>3 DEF AtMost
    <2>3. IsFiniteSet(P[i]) /\ p[i] = Cardinality(P[i])
      <3> DEFINE m == AtMost(c.used, End(segs[i], c))
                 f == segs[i].from
      <3>1. m \in Nat /\ f \in Nat
        BY <1>3, <2>2
      <3>2. P[i] = (f + 1)..m /\ p[i] = IF m - f < 0 THEN 0 ELSE m - f
        BY <1>4 DEF Uses, UsedOf, AtLeast0
      <3> HIDE DEF m, f, P, p
      <3>2a. f + 1 \in Int /\ m \in Int
        BY <3>1
      <3>3. IsFiniteSet((f + 1)..m) /\ Cardinality((f + 1)..m) = IF f + 1 > m THEN 0 ELSE m - (f + 1) + 1
        BY <3>2a, FS_Interval
      <3>4. QED
        BY <3>1, <3>2, <3>3
    <2>4. P[i] = G[i] \cap (1..c.used)
      BY <1>1, <1>3, <1>4 DEF AtMost
    <2>5. G[i] \subseteq 1..c.total
      BY <1>1, <1>3, <1>4
    <2>6. QED
      BY <2>1, <2>3, <2>4, <2>5
  <1>6. ASSUME NEW i \in S, NEW j \in S, i # j
        PROVE  G[i] \cap G[j] = {} /\ P[i] \cap P[j] = {}
    <2>1. segs[i].to <= segs[j].from \/ segs[j].to <= segs[i].from
      BY <1>3, <1>6 DEF Disjoint
    <2>2. G[i] \cap G[j] = {}
      BY <1>3, <1>4, <2>1, SMTT(40)
    <2>3. QED
      BY <2>2, <1>5
  <1>7. SumFunctionOnSet(g, S) = Cardinality(AllOf(G, S)) /\ SumFunctionOnSet(p, S) = Cardinality(AllOf(P, S))
    <2>1. /\ \A i \in S : IsFiniteSet(G[i]) /\ g[i] = Cardinality(G[i])
          /\ \A i, j \in S : i # j => G[i] \cap G[j] = {}
      BY <1>5, <1>6
    <2>2. /\ \A i \in S : IsFiniteSet(P[i]) /\ p[i] = Cardinality(P[i])
          /\ \A i, j \in S : i # j => P[i] \cap P[j] = {}
      BY <1>5, <1>6
    <2> HIDE DEF G, P, g, p
    <2>3. SumFunctionOnSet(g, S) = Cardinality(AllOf(G, S))
      BY <1>2, <2>1, SumOfSizes
    <2>4. SumFunctionOnSet(p, S) = Cardinality(AllOf(P, S))
      BY <1>2, <2>2, SumOfSizes
    <2>5. QED
      BY <2>3, <2>4
  <1>8. SumFunction(g) = SumFunctionOnSet(g, S) /\ SumFunction(p) = SumFunctionOnSet(p, S)
    BY DEF SumFunction, Sizes, Uses
  <1>9. AllOf(G, S) \subseteq 1..c.total /\ AllOf(P, S) = AllOf(G, S) \cap (1..c.used)
    <2> HIDE DEF G, P
    <2>1. QED
      BY <1>5 DEF AllOf
  <1>10. QED
    BY <1>7, <1>8, <1>9

\* Segments of two admins.
LEMMA SegmentsApart ==
  ASSUME NEW segs, Kept(segs), Disjoint(segs), NEW c \in ClientRows,
         NEW S \in SUBSET {i \in DOMAIN segs : segs[i].bill /\ End(segs[i], c) > segs[i].from},
         NEW T \in SUBSET {i \in DOMAIN segs : segs[i].bill /\ End(segs[i], c) > segs[i].from}, S \cap T = {}
  PROVE  AllOf(Granted(segs, c), S) \cap AllOf(Granted(segs, c), T) = {}
  <1> DEFINE G == Granted(segs, c)
  <1>1. ASSUME NEW i \in S, NEW j \in T
        PROVE  G[i] \cap G[j] = {}
    <2>1. /\ i \in DOMAIN segs /\ segs[i] \in Segments /\ segs[i].bill
          /\ j \in DOMAIN segs /\ segs[j] \in Segments /\ segs[j].bill
          /\ i # j
      BY DEF Kept
    <2>2. segs[i].to <= segs[j].from \/ segs[j].to <= segs[i].from
      BY <2>1 DEF Disjoint
    <2>3. /\ G[i] = (segs[i].from + 1)..End(segs[i], c)
          /\ G[j] = (segs[j].from + 1)..End(segs[j], c)
      BY <2>1 DEF Granted
    <2>4. c.total \in Nat
      BY SummariesAssumption DEF ClientRows
    <2>5. QED
      BY <2>1, <2>2, <2>3, <2>4 DEF End, AtMost, Segments
  <1> HIDE DEF G
  <1>2. QED
    BY <1>1 DEF AllOf, G

\* What is part of so many steps is no more than those.
LEMMA FewSteps ==
  ASSUME NEW m \in Nat, NEW n \in Nat, NEW A, A \subseteq (m + 1)..n
  PROVE  IsFiniteSet(A) /\ Cardinality(A) \in Nat /\ Cardinality(A) <= AtLeast0(n - m)
  <1>1. m + 1 \in Int /\ n \in Int
    OBVIOUS
  <1>2. IsFiniteSet((m + 1)..n) /\ Cardinality((m + 1)..n) = IF m + 1 > n THEN 0 ELSE n - (m + 1) + 1
    BY <1>1, FS_Interval
  <1>3. IsFiniteSet(A) /\ Cardinality(A) <= Cardinality((m + 1)..n)
    BY <1>2, FS_Subset
  <1>4. Cardinality(A) \in Nat
    BY <1>3, FS_CardinalityType
  <1>5. QED
    BY <1>2, <1>3, <1>4 DEF AtLeast0

\* A sum that is billed is a whole number, and no more than there is where segments do not
\* overlap.
LEMMA SegmentsAddUp ==
  ASSUME NEW segs, Kept(segs), NEW c \in ClientRows, NEW scope
  PROVE  LET l == OfSegments(segs, scope, c)
         IN  /\ l \in [count : {0, 1}, allocated : Int, consumed : Int, remaining : Int]
             /\ Disjoint(segs) => /\ l.allocated <= c.total /\ l.consumed <= c.used
                                 /\ l.remaining <= AtLeast0(c.total - c.used)
  <1> DEFINE counted == Billed(segs, scope, c)
             whole == {i \in counted : ~ConsumedOnly(segs[i], c)}
             given == SumFunction(Sizes(segs, c, whole))
             spent == SumFunction(Uses(segs, c, counted))
             spentOfWhole == SumFunction(Uses(segs, c, whole))
             l == OfSegments(segs, scope, c)
  <1>1. c.total \in Nat /\ c.used \in Nat
    BY SummariesAssumption DEF ClientRows
  <1>2. /\ l.count \in {0, 1}
        /\ l = [count |-> l.count, allocated |-> given, consumed |-> spent, remaining |-> AtLeast0(given - spentOfWhole)]
    BY DEF OfSegments, Sizes, Uses
  <1>3. counted \in SUBSET DOMAIN segs /\ whole \in SUBSET DOMAIN segs /\ IsFiniteSet(counted) /\ IsFiniteSet(whole)
    <2>1. DOMAIN segs = 1..Len(segs) /\ Len(segs) \in Nat
      BY DEF Kept
    <2>2. IsFiniteSet(DOMAIN segs)
      BY <2>1, FS_Interval
    <2>3. counted \in SUBSET DOMAIN segs /\ whole \in SUBSET DOMAIN segs
      BY DEF Billed
    <2>4. QED
      BY <2>2, <2>3, FS_Subset
  <1>4. given \in Int /\ spent \in Int /\ spentOfWhole \in Int
    <2> DEFINE g == [i \in whole |-> End(segs[i], c) - segs[i].from]
               p == [i \in counted |-> UsedOf(segs[i], c)]
               q == [i \in whole |-> UsedOf(segs[i], c)]
    <2>1. ASSUME NEW i \in DOMAIN segs
          PROVE  End(segs[i], c) - segs[i].from \in Int /\ UsedOf(segs[i], c) \in Int
      <3>1. segs[i] \in Segments
        BY DEF Kept
      <3>2. segs[i].from \in Int /\ segs[i].to \in Int
        BY <3>1 DEF Segments
      <3>3. QED
        BY <1>1, <3>2 DEF End, UsedOf, AtMost, AtLeast0
    <2>2. /\ \A i \in whole : g[i] \in Int /\ q[i] \in Int
          /\ \A i \in counted : p[i] \in Int
      BY <1>3, <2>1
    <2>3. given = SumFunctionOnSet(g, whole) /\ spent = SumFunctionOnSet(p, counted) /\ spentOfWhole = SumFunctionOnSet(q, whole)
      BY DEF SumFunction, Sizes, Uses
    <2> HIDE DEF g, p, q, whole, counted, given, spent, spentOfWhole
    <2>4. SumFunctionOnSet(g, whole) \in Int
      BY <1>3, <2>2, SumType
    <2>5. SumFunctionOnSet(p, counted) \in Int
      BY <1>3, <2>2, SumType
    <2>6. SumFunctionOnSet(q, whole) \in Int
      BY <1>3, <2>2, SumType
    <2>7. QED
      BY <2>3, <2>4, <2>5, <2>6
  <1>5. l \in [count : {0, 1}, allocated : Int, consumed : Int, remaining : Int]
    <2> HIDE DEF given, spent, spentOfWhole, l
    <2>1. AtLeast0(given - spentOfWhole) \in Int
      BY <1>4 DEF AtLeast0
    <2>2. QED
      BY <1>2, <1>4, <2>1
  <1>6. ASSUME Disjoint(segs)
        PROVE  l.allocated <= c.total /\ l.consumed <= c.used /\ l.remaining <= AtLeast0(c.total - c.used)
    <2> DEFINE bills == {i \in DOMAIN segs : segs[i].bill /\ End(segs[i], c) > segs[i].from}
               A == AllOf(Granted(segs, c), whole)
               P == AllOf(Spent(segs, c), whole)
               Q == AllOf(Spent(segs, c), counted)
    <2>1. counted \in SUBSET bills /\ whole \in SUBSET bills
      BY DEF Billed
    <2> HIDE DEF counted, whole
    <2>2. given = Cardinality(A) /\ spentOfWhole = Cardinality(P) /\ A \subseteq 1..c.total /\ P = A \cap (1..c.used)
      BY <1>6, <2>1, SegmentsCounted
    <2>3. spent = Cardinality(Q) /\ Q \subseteq 1..c.used
      BY <1>6, <2>1, SegmentsCounted
    <2> HIDE DEF A, P, Q, given, spent, spentOfWhole
    <2>4. IsFiniteSet(A) /\ Cardinality(A) <= c.total
      <3>1. A \subseteq (0 + 1)..c.total
        BY <2>2
      <3>2. IsFiniteSet(A) /\ Cardinality(A) <= AtLeast0(c.total - 0)
        BY <1>1, <3>1, FewSteps
      <3>3. QED
        BY <1>1, <3>2 DEF AtLeast0
    <2>5. Cardinality(Q) <= c.used
      <3>1. Q \subseteq (0 + 1)..c.used
        BY <2>3
      <3>2. IsFiniteSet(Q) /\ Cardinality(Q) <= AtLeast0(c.used - 0)
        BY <1>1, <3>1, FewSteps
      <3>3. QED
        BY <1>1, <3>2 DEF AtLeast0
    <2>6. Cardinality(A) - Cardinality(P) <= AtLeast0(c.total - c.used)
      <3>1. Cardinality(A \ (1..c.used)) = Cardinality(A) - Cardinality(P)
        BY <2>2, <2>4, FS_Difference
      <3>2. A \ (1..c.used) \subseteq (c.used + 1)..c.total
        <4>1. ASSUME NEW k \in A, k \notin 1..c.used
              PROVE  k \in (c.used + 1)..c.total
          <5>1. k \in 1..c.total
            BY <4>1, <2>2
          <5>2. QED
            BY <1>1, <4>1, <5>1
        <4>2. QED
          BY <4>1
      <3>3. Cardinality(A \ (1..c.used)) <= AtLeast0(c.total - c.used)
        BY <1>1, <3>2, FewSteps
      <3>4. QED
        BY <3>1, <3>3
    <2>7. AtLeast0(given - spentOfWhole) <= AtLeast0(c.total - c.used)
      BY <1>1, <1>4, <2>2, <2>6 DEF AtLeast0
    <2>8. QED
      BY <1>2, <2>2, <2>3, <2>4, <2>5, <2>7
  <1>7. QED
    BY <1>5, <1>6

-------------------------------------------------------------------------------
Loops(g, N, T, base, next) ==
    g \in [0..N -> T] /\ g = [n \in 0..N |-> IF n = 0 THEN base ELSE next[g[n - 1]]]

\* A loop that starts from base and goes on from what it has, in the words of a recursive function.
LEMMA LoopExists ==
  ASSUME NEW N \in Nat, NEW T, NEW base \in T, NEW next \in [T -> T]
  PROVE  \E g : Loops(g, N, T, base, next)
  <1> DEFINE step == [p \in (1..N) \X T |-> next[p[2]]]
  <1>1. step \in [(1..N) \X T -> T]
    OBVIOUS
  <1> HIDE DEF step
  <1>2. PICK g : Iterates(g, N, T, base, step)
    BY <1>1, IterationExists
  <1>3. ASSUME NEW n \in 0..N
        PROVE  g[n] = IF n = 0 THEN base ELSE next[g[n - 1]]
    <2>1. CASE n = 0
      BY <1>2, <2>1 DEF Iterates
    <2>2. CASE n # 0
      <3>1. n \in 1..N /\ n - 1 \in 0..N
        BY <2>2
      <3>2. g[n - 1] \in T /\ g[n] = step[<<n, g[n - 1]>>]
        BY <1>2, <3>1 DEF Iterates
      <3>3. QED
        BY <2>2, <3>1, <3>2 DEF step
    <2>3. QED
      BY <2>1, <2>2
  <1>4. g \in [0..N -> T]
    BY <1>2 DEF Iterates
  <1>5. g = [n \in 0..N |-> IF n = 0 THEN base ELSE next[g[n - 1]]]
    BY <1>3, <1>4
  <1>6. QED
    BY <1>4, <1>5 DEF Loops

\* The scope of an admin and those above it, of any parents.
ScopeUnder(h, a) ==
    LET scope[n \in 0..Cardinality(Resellers)] ==
            IF n = 0 THEN {a}
            ELSE LET S == scope[n - 1] IN {b \in Resellers : b \in S \/ h[b] \in S \/ Creator[b] \in S}
    IN  scope[Cardinality(Resellers)]
AboveUnder(h, a) ==
    LET above[n \in 0..Cardinality(Resellers)] ==
            IF n = 0 THEN {a} ELSE LET S == above[n - 1] IN S \cup (Resellers \cap {h[b] : b \in S})
    IN  above[Cardinality(Resellers)]

ScopeRun(s, h, a) ==
    \A n \in 0..Cardinality(Resellers) :
        s[n] = IF n = 0 THEN {a}
               ELSE {b \in Resellers : b \in s[n - 1] \/ h[b] \in s[n - 1] \/ Creator[b] \in s[n - 1]}
AboveRun(s, h, a) ==
    \A n \in 0..Cardinality(Resellers) :
        s[n] = IF n = 0 THEN {a} ELSE s[n - 1] \cup (Resellers \cap {h[b] : b \in s[n - 1]})

\* Each is the end of such a run.
LEMMA ScopeSteps ==
  ASSUME SummariesAssumption, NEW h, NEW a \in Resellers
  PROVE  \E s : ScopeRun(s, h, a) /\ ScopeUnder(h, a) = s[Cardinality(Resellers)]
  <1> DEFINE N == Cardinality(Resellers)
             Next(S) == {b \in Resellers : b \in S \/ h[b] \in S \/ Creator[b] \in S}
             Computes(g) == g = [n \in 0..N |-> IF n = 0 THEN {a} ELSE Next(g[n - 1])]
             scope == CHOOSE g : Computes(g)
             next == [S \in SUBSET Resellers |-> Next(S)]
  <1>1. N \in Nat
    BY FS_CardinalityType DEF SummariesAssumption
  <1>2. \E g : Computes(g)
    <2>1. {a} \in SUBSET Resellers /\ next \in [SUBSET Resellers -> SUBSET Resellers]
      OBVIOUS
    <2> HIDE DEF next, Next
    <2>2. PICK g : Loops(g, N, SUBSET Resellers, {a}, next)
      BY <1>1, <2>1, LoopExists
    <2>3. ASSUME NEW n \in 0..N, n # 0 PROVE next[g[n - 1]] = Next(g[n - 1])
      <3>1. n - 1 \in 0..N
        BY <1>1, <2>3
      <3>2. g[n - 1] \in SUBSET Resellers
        BY <2>2, <3>1 DEF Loops
      <3>3. QED
        BY <3>2 DEF next
    <2>4. g = [n \in 0..N |-> IF n = 0 THEN {a} ELSE Next(g[n - 1])]
      BY <2>2, <2>3 DEF Loops
    <2>5. QED
      BY <2>4
  <1>3. Computes(scope)
    <2> HIDE DEF Computes
    <2>1. QED
      BY <1>2
  <1>4. ScopeUnder(h, a) = scope[N]
    BY DEF ScopeUnder
  <1> HIDE DEF scope
  <1>5. ScopeRun(scope, h, a)
    BY <1>3 DEF ScopeRun
  <1>6. QED
    BY <1>4, <1>5

LEMMA AboveSteps ==
  ASSUME SummariesAssumption, NEW h, NEW a \in Resellers
  PROVE  \E s : AboveRun(s, h, a) /\ AboveUnder(h, a) = s[Cardinality(Resellers)]
  <1> DEFINE N == Cardinality(Resellers)
             Next(S) == S \cup (Resellers \cap {h[b] : b \in S})
             Computes(g) == g = [n \in 0..N |-> IF n = 0 THEN {a} ELSE Next(g[n - 1])]
             above == CHOOSE g : Computes(g)
             next == [S \in SUBSET Resellers |-> Next(S)]
  <1>1. N \in Nat
    BY FS_CardinalityType DEF SummariesAssumption
  <1>2. \E g : Computes(g)
    <2>1. {a} \in SUBSET Resellers /\ next \in [SUBSET Resellers -> SUBSET Resellers]
      OBVIOUS
    <2> HIDE DEF next, Next
    <2>2. PICK g : Loops(g, N, SUBSET Resellers, {a}, next)
      BY <1>1, <2>1, LoopExists
    <2>3. ASSUME NEW n \in 0..N, n # 0 PROVE next[g[n - 1]] = Next(g[n - 1])
      <3>1. n - 1 \in 0..N
        BY <1>1, <2>3
      <3>2. g[n - 1] \in SUBSET Resellers
        BY <2>2, <3>1 DEF Loops
      <3>3. QED
        BY <3>2 DEF next
    <2>4. g = [n \in 0..N |-> IF n = 0 THEN {a} ELSE Next(g[n - 1])]
      BY <2>2, <2>3 DEF Loops
    <2>5. QED
      BY <2>4
  <1>3. Computes(above)
    <2> HIDE DEF Computes
    <2>1. QED
      BY <1>2
  <1>4. AboveUnder(h, a) = above[N]
    BY DEF AboveUnder
  <1> HIDE DEF above
  <1>5. AboveRun(above, h, a)
    BY <1>3 DEF AboveRun
  <1>6. QED
    BY <1>4, <1>5

\* Every admin is in its own scope.
LEMMA ScopeIncludes ==
  ASSUME SummariesAssumption, NEW h, NEW a \in Resellers
  PROVE  ScopeUnder(h, a) \subseteq Resellers /\ a \in ScopeUnder(h, a)
  <1> DEFINE N == Cardinality(Resellers)
  <1>1. N \in Nat /\ N = Cardinality(Resellers)
    BY FS_CardinalityType DEF SummariesAssumption
  <1> HIDE DEF N
  <1>2. PICK s : ScopeRun(s, h, a) /\ ScopeUnder(h, a) = s[N]
    BY <1>1, ScopeSteps
  <1>2a. \A n \in 0..N : s[n] = IF n = 0 THEN {a}
             ELSE {x \in Resellers : x \in s[n - 1] \/ h[x] \in s[n - 1] \/ Creator[x] \in s[n - 1]}
    BY <1>1, <1>2 DEF ScopeRun
  <1> DEFINE B == {n \in 0..N : a \notin s[n]}
  <1>3. ASSUME B # {} PROVE FALSE
    <2>0. B \subseteq Nat
      BY <1>1
    <2>1. PICK n \in B : \A m \in B : n <= m
      <3> HIDE DEF B
      <3>1. QED
        BY <1>3, <2>0, LeastOf
    <2>2. n \in 0..N /\ a \notin s[n] /\ n # 0
      BY <1>2a, <2>1
    <2>3. n - 1 \in 0..N /\ a \in s[n - 1]
      BY <1>1, <2>1, <2>2
    <2>4. QED
      BY <1>2a, <2>2, <2>3
  <1>4. N \in 0..N /\ a \in s[N]
    BY <1>1, <1>3
  <1>5. s[N] \subseteq Resellers
    <2>1. s[N] = {a} \/ s[N] = {x \in Resellers : x \in s[N - 1] \/ h[x] \in s[N - 1] \/ Creator[x] \in s[N - 1]}
      BY <1>2a, <1>4
    <2>2. QED
      BY <2>1
  <1>6. QED
    BY <1>2, <1>4, <1>5

\* An admin that leaves its parent takes itself out of the scope of that parent, and nobody else,
\* when nobody is below it and it has created nobody.
LEMMA ScopeOfLeft ==
  ASSUME SummariesAssumption, NEW h, NEW k, NEW b \in Resellers, NEW a \in Resellers, h[a] = b,
         \A c \in Resellers : Creator[c] # a /\ h[c] # a /\ (c # a => h[c] = k[c])
  PROVE  ScopeUnder(k, b) \subseteq ScopeUnder(h, b) /\ ScopeUnder(h, b) \ {a} \subseteq ScopeUnder(k, b)
  <1> DEFINE N == Cardinality(Resellers)
  <1>1. N \in Nat /\ N = Cardinality(Resellers)
    BY FS_CardinalityType DEF SummariesAssumption
  <1> HIDE DEF N
  <1>2. PICK s : ScopeRun(s, h, b) /\ ScopeUnder(h, b) = s[N]
    BY <1>1, ScopeSteps
  <1>2a. \A n \in 0..N : s[n] = IF n = 0 THEN {b}
             ELSE {x \in Resellers : x \in s[n - 1] \/ h[x] \in s[n - 1] \/ Creator[x] \in s[n - 1]}
    BY <1>1, <1>2 DEF ScopeRun
  <1>3. PICK t : ScopeRun(t, k, b) /\ ScopeUnder(k, b) = t[N]
    BY <1>1, ScopeSteps
  <1>3a. \A n \in 0..N : t[n] = IF n = 0 THEN {b}
             ELSE {x \in Resellers : x \in t[n - 1] \/ k[x] \in t[n - 1] \/ Creator[x] \in t[n - 1]}
    BY <1>1, <1>3 DEF ScopeRun
  <1> DEFINE Fine(n) == b \in s[n] /\ t[n] \subseteq s[n] /\ s[n] \ {a} \subseteq t[n]
             B == {n \in 0..N : ~Fine(n)}
  <1>4. ASSUME B # {} PROVE FALSE
    <2>0. B \subseteq Nat
      BY <1>1
    <2>1. PICK n \in B : \A m \in B : n <= m
      <3> HIDE DEF B
      <3>1. QED
        BY <1>4, <2>0, LeastOf
    <2>2. n \in 0..N /\ ~Fine(n) /\ n # 0
      BY <1>2a, <1>3a, <2>1
    <2>3. n - 1 \in 0..N /\ Fine(n - 1)
      BY <1>1, <2>1, <2>2
    <2>4. /\ s[n] = {x \in Resellers : x \in s[n - 1] \/ h[x] \in s[n - 1] \/ Creator[x] \in s[n - 1]}
          /\ t[n] = {x \in Resellers : x \in t[n - 1] \/ k[x] \in t[n - 1] \/ Creator[x] \in t[n - 1]}
      BY <1>2a, <1>3a, <2>2
    <2>5. b \in s[n]
      BY <2>3, <2>4
    <2>6. ASSUME NEW c \in t[n] PROVE c \in s[n]
      BY <2>3, <2>4, <2>6
    <2>7. ASSUME NEW c \in s[n], c # a PROVE c \in t[n]
      BY <2>3, <2>4, <2>7
    <2>8. QED
      BY <2>2, <2>5, <2>6, <2>7
  <1>5. N \in 0..N /\ Fine(N)
    BY <1>1, <1>4
  <1>6. QED
    BY <1>2, <1>3, <1>5

\* Nobody is above an admin without a parent.
LEMMA NobodyAbove ==
  ASSUME SummariesAssumption, NEW h, NEW b \in Resellers, h[b] = Nobody
  PROVE  AboveUnder(h, b) = {b}
  <1> DEFINE N == Cardinality(Resellers)
  <1>1. N \in Nat /\ N = Cardinality(Resellers)
    BY FS_CardinalityType DEF SummariesAssumption
  <1> HIDE DEF N
  <1>2. PICK s : AboveRun(s, h, b) /\ AboveUnder(h, b) = s[N]
    BY <1>1, AboveSteps
  <1>2a. \A n \in 0..N : s[n] = IF n = 0 THEN {b} ELSE s[n - 1] \cup (Resellers \cap {h[x] : x \in s[n - 1]})
    BY <1>1, <1>2 DEF AboveRun
  <1> DEFINE B == {n \in 0..N : s[n] # {b}}
  <1>3. ASSUME B # {} PROVE FALSE
    <2>0. B \subseteq Nat
      BY <1>1
    <2>1. PICK n \in B : \A m \in B : n <= m
      <3> HIDE DEF B
      <3>1. QED
        BY <1>3, <2>0, LeastOf
    <2>2. n \in 0..N /\ s[n] # {b} /\ n # 0
      BY <1>2a, <2>1
    <2>3. n - 1 \in 0..N /\ s[n - 1] = {b}
      BY <1>1, <2>1, <2>2
    <2>4. Nobody \notin Resellers
      BY DEF SummariesAssumption
    <2>5. {h[c] : c \in s[n - 1]} = {Nobody}
      BY <2>3
    <2>6. s[n] = s[n - 1] \cup (Resellers \cap {h[c] : c \in s[n - 1]})
      BY <1>2a, <2>2
    <2>7. QED
      BY <2>2, <2>3, <2>4, <2>5, <2>6
  <1>4. N \in 0..N /\ N \notin B
    BY <1>1, <1>3
  <1>5. QED
    BY <1>2, <1>4

\* Down to whom it is the parent of or has created, as parents are now.
LEMMA ScopeOfAdmin ==
  ASSUME SummariesAssumption, NEW a \in Resellers
  PROVE  Scope(a) \subseteq Resellers /\ a \in Scope(a)
  <1>1. Scope(a) = ScopeUnder(head, a)
    BY DEF Scope, ScopeUnder
  <1>2. QED
    BY <1>1, ScopeIncludes

-------------------------------------------------------------------------------
Ledgers == [count : {0, 1}, allocated : Int, consumed : Int, remaining : Int]
Stages == {"idle", "exclusions", "exemptions", "segments", "caps", "panel", "insert", "again", "done"}
Reports == [at : Stages, actor : Resellers \cup {Nobody}, scope : SUBSET Resellers, climb : Resellers \cup {Nobody},
            shut : BOOLEAN, hidden : BOOLEAN, exempt : Owners \cup {Nobody}, entries : {s \in Seq(Segments) : Kept(s)},
            caps : Caps, client : ClientRows, ledger : Ledgers]

\* What is stored; a top-up that is under way knows whom its segments are for.
StoreTyped ==
    /\ scene \in SummaryLoads
    /\ client \in ClientRows
    /\ owner \in Resellers \cup {Nobody}
    /\ Kept(entries)
    /\ exempt \in Owners \cup {Nobody}
    /\ caps \in Caps
    /\ head \in [Resellers -> Resellers \cup {Nobody}]
    /\ \A a \in Resellers : head[a] \in MayBeUnder[a] \cup {Nobody}
    /\ topup # NoTopUp => topup.from \in Nat /\ topup.under \in Resellers \cup {Nobody}
                           /\ topup.owner \in Owners \cup {Nobody}

\* Who asks is in its own scope; a cap is looked for only for a client in that scope.
ReportTyped(j) ==
    /\ j \in Reports
    /\ j.at = "exclusions" => j.climb \in Resellers
    /\ j.at # "idle" => j.actor \in j.scope
    /\ j.at \in {"insert", "again"} => j.client.comment \in j.scope

\* A cap that a summary has read is stored for good, and what it shows is what it has read.
ReportKept(j) ==
    /\ \A a \in Resellers : j.caps[a] >= 0 => caps[a] = j.caps[a]
    /\ j.at = "again" => caps[j.client.comment] >= 0
    /\ j.at # "done" => j.ledger = Nothing
    /\ j.at = "done" => \/ j.ledger = Nothing
                        \/ j.ledger = Counted(j, j.caps, j.client) /\ ~NeedsCap(j, j.client)

ReportsKept ==
    /\ DOMAIN report = scene.reports
    /\ report = [r \in scene.reports |-> report[r]]
    /\ \A r \in scene.reports : ReportTyped(report[r]) /\ ReportKept(report[r])

SummariesInv == StoreTyped /\ ReportsKept

\* An empty ledger is one.
LEMMA NothingIsLedger == Nothing \in Ledgers
  BY DEF Nothing, Ledgers

\* A summary that rests.
LEMMA AtRest ==
  ASSUME SummariesAssumption
  PROVE  ReportTyped(NoReport) /\ ReportKept(NoReport)
  <1>1. Kept(<<>>) /\ <<>> \in Seq(Segments)
    BY DEF Kept
  <1>2. [a \in Resellers |-> -1] \in Caps
    BY DEF Caps, SummariesAssumption
  <1>3. [total |-> 0, used |-> 0, comment |-> Nobody, tag |-> "none"] \in ClientRows
    BY DEF ClientRows, SummariesAssumption, Owners, Tags
  <1>4. NoReport \in Reports
    BY <1>1, <1>2, <1>3, NothingIsLedger DEF NoReport, Reports, Stages
  <1>5. QED
    BY <1>4 DEF NoReport, ReportTyped, ReportKept

\* At the start the rows are those of one client, and no summary is under way.
LEMMA SummariesBegin == SummariesInit => SummariesInv
  <1> SUFFICES ASSUME SummariesInit PROVE SummariesInv
    OBVIOUS
  <1> USE SummariesAssumption
  <1>1. StoreTyped
    <2>1. scene \in SummaryLoads /\ scene.begins \subseteq Owners \cup {Nobody} /\ scene.tags \subseteq Tags
      BY DEF SummariesInit, SummariesAssumption, Owners
    <2>2. PICK a \in scene.begins, tag \in scene.tags :
            /\ client = [total |-> 1, used |-> 0, comment |-> a, tag |-> tag]
            /\ owner = IF a \in Resellers THEN a ELSE Nobody
      BY DEF SummariesInit
    <2>3. 1 \in 0..MaxTotal
      BY DEF SummariesAssumption
    <2>4. client \in ClientRows
      BY <2>1, <2>2, <2>3 DEF ClientRows
    <2>5. Kept(entries)
      BY DEF SummariesInit, Kept
    <2>6. caps \in Caps
      BY DEF SummariesInit, Caps, SummariesAssumption
    <2>7. QED
      BY <2>1, <2>2, <2>4, <2>5, <2>6 DEF SummariesInit, StoreTyped
  <1>2. ReportsKept
    BY AtRest DEF SummariesInit, ReportsKept
  <1>3. QED
    BY <1>1, <1>2 DEF SummariesInv

\* Segments stay in order when some are added.
LEMMA KeptTogether ==
  ASSUME NEW s, Kept(s), NEW t, Kept(t)
  PROVE  Kept(s \o t)
  <1>1. s \in Seq(Segments) /\ t \in Seq(Segments) /\ s \o t \in Seq(Segments)
    BY DEF Kept
  <1>2. ASSUME NEW i \in DOMAIN (s \o t)
        PROVE  (s \o t)[i].from < (s \o t)[i].to
    <2>1. i \in 1..(Len(s) + Len(t))
      BY <1>1
    <2>2. CASE i <= Len(s)
      <3>1. i \in DOMAIN s /\ (s \o t)[i] = s[i]
        BY <1>1, <2>1, <2>2
      <3>2. QED
        BY <3>1 DEF Kept
    <2>3. CASE i > Len(s)
      <3>1. i - Len(s) \in DOMAIN t /\ (s \o t)[i] = t[i - Len(s)]
        BY <1>1, <2>1, <2>3
      <3>2. QED
        BY <3>1 DEF Kept
    <2>4. QED
      BY <1>1, <2>1, <2>2, <2>3
  <1>3. QED
    BY <1>1, <1>2 DEF Kept

\* No segments, ...
LEMMA KeptNone == Kept(<<>>)
  BY DEF Kept

\* ... one that is not empty, ...
LEMMA KeptOne ==
  ASSUME NEW o \in Owners, NEW from \in Nat, NEW to \in Nat, from < to, NEW bill \in BOOLEAN, NEW detach \in BOOLEAN
  PROVE  Kept(<<[owner |-> o, from |-> from, to |-> to, bill |-> bill, detach |-> detach]>>)
  <1> DEFINE g == [owner |-> o, from |-> from, to |-> to, bill |-> bill, detach |-> detach]
  <1>1. g \in Segments /\ g.from < g.to
    BY DEF Segments
  <1> HIDE DEF g
  <1>2. <<g>> \in Seq(Segments) /\ DOMAIN <<g>> = {1} /\ <<g>>[1] = g
    BY <1>1
  <1>3. Kept(<<g>>)
    BY <1>1, <1>2 DEF Kept
  <1>4. QED
    BY <1>3 DEF g

\* ... and a row as a gift or a top-up enters it are all kept.
LEMMA KeptRow ==
  ASSUME NEW o \in Owners, NEW from \in Nat, NEW to \in Nat, NEW bill \in BOOLEAN
  PROVE  Kept(Row(o, from, to, bill))
  BY KeptOne, KeptNone DEF Row

\* What a top-up enters.
LEMMA TopUpEnters ==
  ASSUME StoreTyped, SummariesAssumption, topup # NoTopUp, topup.owner # Nobody
  PROVE  Kept(InitialRow(topup)) /\ Kept(AddedRow(topup))
  <1>1. /\ topup.owner \in Owners /\ topup.from \in Nat /\ client.total \in Nat
        /\ topup.under # Nobody => topup.under \in Owners
    BY DEF StoreTyped, ClientRows, Owners, SummariesAssumption
  <1>2. ASSUME NEW o \in Owners, NEW from \in Nat, NEW to \in Nat, NEW bill \in BOOLEAN
        PROVE  Kept(Row(o, from, to, bill))
    BY KeptRow
  <1>3. Kept(InitialRow(topup))
    <2> DEFINE o == IF topup.under # Nobody THEN topup.under ELSE topup.owner
               bill == ~(topup.under # Nobody /\ (topup.moaf \/ (topup.gift /\ topup.under = topup.owner)))
    <2>1. o \in Owners /\ bill \in BOOLEAN
      BY <1>1
    <2> HIDE DEF o, bill
    <2>2. Kept(Row(o, 0, topup.from, bill))
      BY <1>1, <1>2, <2>1
    <2>3. QED
      BY <2>2, KeptNone DEF InitialRow, o, bill
  <1>4. Kept(AddedRow(topup))
    <2>1. Kept(Row(topup.owner, topup.from, client.total, FALSE))
      BY <1>1, <1>2
    <2>2. topup.under # Nobody => Kept(Row(topup.under, topup.from, client.total, TRUE))
      BY <1>1, <1>2
    <2>3. QED
      BY <2>1, <2>2, KeptNone DEF AddedRow
  <1>5. QED
    BY <1>3, <1>4

\* Whatever is written, the rows keep their types.
LEMMA StoreStaysTyped ==
  ASSUME SummariesInv, SummariesAssumption, SummariesNext
  PROVE  StoreTyped'
  <1> USE DEF StoreTyped
  <1>0. StoreTyped /\ ReportsKept
    BY DEF SummariesInv
  <1>1. ASSUME UseTraffic PROVE StoreTyped'
    BY <1>0, <1>1 DEF UseTraffic, OnlyClient, lists, tree, ClientRows
  <1>2. ASSUME ClearUsage PROVE StoreTyped'
    BY <1>0, <1>2 DEF ClearUsage, Operates, OnlyClient, lists, tree, ClientRows
  <1>3. ASSUME EnterTopUp PROVE StoreTyped'
    <2>1. CASE topup.owner = Nobody
      BY <1>0, <1>3, <2>1 DEF EnterTopUp, tree
    <2>2. CASE topup.owner # Nobody
      <3>1. Kept(InitialRow(topup)) /\ Kept(AddedRow(topup))
        BY <1>0, <1>3, <2>2, TopUpEnters DEF EnterTopUp
      <3>2. Kept(entries \o InitialRow(topup))
        BY <1>0, <3>1, KeptTogether
      <3>3. Kept((entries \o InitialRow(topup)) \o AddedRow(topup))
        BY <3>1, <3>2, KeptTogether
      <3>4. Kept(entries')
        BY <1>3, <2>2, <3>3 DEF EnterTopUp
      <3>5. topup.owner \in Owners
        BY <1>0, <1>3, <2>2 DEF EnterTopUp
      <3>6. exempt' \in Owners \cup {Nobody}
        BY <1>0, <1>3, <2>2, <3>5 DEF EnterTopUp
      <3>7. QED
        BY <1>0, <1>3, <3>4, <3>6 DEF EnterTopUp, tree
    <2>3. QED
      BY <2>1, <2>2
  <1>4. ASSUME DropTopUp PROVE StoreTyped'
    BY <1>0, <1>4 DEF DropTopUp, lists, tree
  <1>5. ASSUME NEW n \in 1..MaxTotal, SetClientTotal(n) PROVE StoreTyped'
    BY <1>0, <1>5 DEF SetClientTotal, Operates, OnlyClient, lists, tree, ClientRows, SummariesAssumption
  <1>6. ASSUME NEW tag \in Tags, TagByHand(tag) PROVE StoreTyped'
    BY <1>0, <1>6 DEF TagByHand, Operates, OnlyClient, lists, tree, ClientRows
  <1>7. ASSUME NEW a \in Resellers, NEW gift \in BOOLEAN, TopUp(a, gift) PROVE StoreTyped'
    <2>1. client.total \in Nat /\ client.total + 1 \in 0..MaxTotal
      <3>1. client.total \in 0..MaxTotal
        BY <1>0 DEF ClientRows
      <3>2. client.total < MaxTotal /\ MaxTotal \in Nat
        BY <1>7 DEF TopUp, SummariesAssumption
      <3>3. QED
        BY <3>1, <3>2
    <2>2. client' \in ClientRows
      <3>1. client \in ClientRows /\ a \in Owners \cup {Nobody} /\ "moaf" \in Tags
        BY <1>0 DEF Owners, Tags
      <3>2. client' = [client EXCEPT !.total = @ + 1, !.comment = IF gift THEN a ELSE @,
                                     !.tag = IF gift THEN "moaf" ELSE @]
        BY <1>7 DEF TopUp
      <3>3. QED
        BY <2>1, <3>1, <3>2 DEF ClientRows
    <2> DEFINE known == entries # <<>>
               source == IF known THEN entries[1].owner ELSE IF owner # Nobody THEN owner ELSE client.comment
               named == CHOOSE x \in Resellers \cup {RootAdmin, Nobody} : x = source
    <2>3. source \in Owners \cup {Nobody}
      <3>1. known => entries[1] \in Segments
        BY <1>0 DEF Kept
      <3>2. QED
        BY <1>0, <3>1 DEF Segments, ClientRows, Owners
    <2> HIDE DEF source
    <2>4. named = source
      BY <2>3 DEF Owners
    <2> HIDE DEF named
    <2>5. topup'.from = client.total /\ topup'.under = head[a] /\ topup'.owner \in {named, Nobody}
      BY <1>7 DEF TopUp, named, source
    <2>6. /\ topup'.from \in Nat /\ topup'.under \in Resellers \cup {Nobody}
          /\ topup'.owner \in Owners \cup {Nobody}
      BY <1>0, <2>1, <2>3, <2>4, <2>5
    <2>7. QED
      BY <1>0, <1>7, <2>2, <2>6 DEF TopUp, Operates, lists, tree
  <1>8. ASSUME NEW a \in Resellers, NEW new \in MayBeUnder[a] \cup {Nobody}, MoveReseller(a, new)
        PROVE  StoreTyped'
    <2>1. Kept(Snapshot(a))
      <3>1. CASE Snapshot(a) = <<>>
        BY <3>1, KeptNone
      <3>2. CASE Snapshot(a) # <<>>
        <4>1. /\ head[a] # Nobody /\ client.total # 0
              /\ Snapshot(a) = <<[owner |-> head[a], from |-> 0, to |-> client.total, bill |-> TRUE, detach |-> TRUE]>>
          BY <3>2 DEF Snapshot
        <4>2. head[a] \in Owners
          BY <1>0, <4>1 DEF Owners
        <4>3. client.total \in 0..MaxTotal
          BY <1>0 DEF ClientRows
        <4>4. 0 \in Nat /\ client.total \in Nat /\ 0 < client.total /\ TRUE \in BOOLEAN
          BY <4>1, <4>3, SummariesAssumption DEF SummariesAssumption
        <4>5. Kept(<<[owner |-> head[a], from |-> 0, to |-> client.total, bill |-> TRUE, detach |-> TRUE]>>)
          BY <4>2, <4>4, KeptOne
        <4>6. QED
          BY <4>1, <4>5
      <3>3. QED
        BY <3>1, <3>2
    <2>2. Kept(entries')
      BY <1>0, <1>8, <2>1, KeptTogether DEF MoveReseller
    <2>3. new \in Resellers \cup {Nobody}
      BY DEF SummariesAssumption
    <2>4. QED
      BY <1>0, <1>8, <2>2, <2>3 DEF MoveReseller, Operates, lists
  <1>9. ASSUME NEW a \in Resellers, ToggleInbound(a) PROVE StoreTyped'
    BY <1>0, <1>9 DEF ToggleInbound, Operates, tree
  <1>10. ASSUME NEW a \in Resellers, HideClient(a) PROVE StoreTyped'
    BY <1>0, <1>10 DEF HideClient, Operates, tree
  <1>11. ASSUME NEW r, NEW got, Gathers(r, got) PROVE StoreTyped'
    BY <1>0, <1>11 DEF Gathers, lists, tree
  <1>12. ASSUME NEW r \in scene.reports, InsertCap(r) PROVE StoreTyped'
    <2>1. report[r].client \in ClientRows
      BY <1>0, <1>12 DEF ReportsKept, ReportTyped, Reports
    <2> DEFINE c == report[r].client.comment
               n == report[r].client.total
    <2>2. caps' \in Caps
      <3>1. n \in -1..MaxTotal
        BY <2>1, SummariesAssumption DEF ClientRows, SummariesAssumption
      <3>2. caps' = [caps EXCEPT ![c] = IF @ < 0 THEN n ELSE @]
        BY <1>12 DEF InsertCap
      <3> HIDE DEF c, n
      <3>3. QED
        BY <1>0, <3>1, <3>2 DEF Caps
    <2>3. QED
      BY <1>0, <1>12, <2>2 DEF InsertCap, lists, tree
  <1>13. ASSUME NEW r \in scene.reports, NEW a \in Resellers, Begin(r, a) PROVE StoreTyped'
    BY <1>11, <1>13 DEF Begin
  <1>14. ASSUME NEW r \in scene.reports,
                \/ Climb(r) \/ ReadExemptions(r) \/ ReadSegments(r) \/ ReadCaps(r) \/ ReadPanel(r)
                \/ ReadCap(r) \/ Shown(r)
         PROVE  StoreTyped'
    BY <1>11, <1>14 DEF Climb, ReadExemptions, ReadSegments, ReadCaps, ReadPanel, ReadCap, Shown
  <1>15. QED
    BY <1>1, <1>2, <1>3, <1>4, <1>5, <1>6, <1>7, <1>8, <1>9, <1>10, <1>12, <1>13, <1>14 DEF SummariesNext

\* A summary is in whole numbers, and counts no more than there is.
LEMMA LedgerAddsUp ==
  ASSUME SummariesAssumption, NEW segs, Kept(segs), NEW c \in ClientRows, NEW known \in Caps,
         NEW scope, scope \subseteq Resellers, NEW isShut, NEW isHidden, NEW exemption
  PROVE  LET l == Ledger(scope, isShut, isHidden, exemption, segs, known, c)
         IN  /\ l \in Ledgers
             /\ Disjoint(segs) => /\ l.allocated <= c.total /\ l.consumed <= c.used
                                  /\ l.remaining <= AtLeast0(c.total - c.used)
  <1> DEFINE l == Ledger(scope, isShut, isHidden, exemption, segs, known, c)
             Right(x) == /\ x \in Ledgers
                         /\ Disjoint(segs) => /\ x.allocated <= c.total /\ x.consumed <= c.used
                                              /\ x.remaining <= AtLeast0(c.total - c.used)
  <1>1. c.total \in Nat /\ c.used \in Nat
    BY DEF ClientRows, SummariesAssumption
  <1>2. Right(Nothing)
    BY <1>1 DEF Nothing, Ledgers, AtLeast0
  <1>3. Right(OfSegments(segs, scope, c))
    BY SegmentsAddUp DEF Ledgers
  <1>4. Right(OfComment(scope, known, c))
    <2>1. CASE c.comment \notin scope
      BY <1>2, <2>1 DEF OfComment
    <2>2. CASE c.comment \in scope
      <3> DEFINE cap == known[c.comment]
                 total == IF c.tag = "moafresume" /\ cap >= 0 THEN AtMost(cap, c.total) ELSE c.total
      <3>1. cap \in Int
        BY <2>2 DEF Caps
      <3>2. total \in Int /\ total <= c.total
        BY <1>1, <3>1 DEF AtMost
      <3>3. OfComment(scope, known, c)
              = [count |-> 1, allocated |-> total, consumed |-> c.used, remaining |-> AtLeast0(total - c.used)]
        BY <2>2 DEF OfComment
      <3> HIDE DEF total
      <3>4. AtLeast0(total - c.used) \in Int /\ AtLeast0(total - c.used) <= AtLeast0(c.total - c.used)
        BY <1>1, <3>2 DEF AtLeast0
      <3>5. QED
        BY <1>1, <3>2, <3>3, <3>4 DEF Ledgers
    <2>3. QED
      BY <2>1, <2>2
  <1>5. l \in {Nothing, OfSegments(segs, scope, c), OfComment(scope, known, c)}
    BY DEF Ledger
  <1> HIDE DEF Right, l
  <1>6. Right(l)
    BY <1>2, <1>3, <1>4, <1>5
  <1>7. QED
    BY <1>6 DEF Right, l

\* One summary goes on.
LEMMA OneReport ==
  ASSUME SummariesInv, NEW r \in scene.reports, NEW got, ReportTyped(got), ReportKept(got), Gathers(r, got)
  PROVE  ReportsKept'
  <1>1. /\ report = [q \in scene.reports |-> report[q]]
        /\ \A q \in scene.reports : ReportTyped(report[q]) /\ ReportKept(report[q])
    BY DEF SummariesInv, ReportsKept
  <1>2. report' = [report EXCEPT ![r] = got] /\ caps' = caps /\ scene' = scene
    BY DEF Gathers
  <1>3. report' = [q \in scene.reports |-> IF q = r THEN got ELSE report[q]]
    BY <1>1, <1>2
  <1>4. ASSUME NEW q \in scene.reports
        PROVE  ReportTyped(report'[q]) /\ ReportKept(report'[q])
    BY <1>1, <1>3
  <1>5. ASSUME NEW q \in scene'.reports
        PROVE  ReportTyped(report[q])' /\ ReportKept(report[q])'
    <2>1. ReportTyped(report'[q]) /\ ReportKept(report'[q])
      BY <1>2, <1>4, <1>5
    <2>2. ReportTyped(report[q])'
      BY <2>1 DEF ReportTyped
    <2>3. ReportKept(report[q])'
      BY <1>2, <2>1 DEF ReportKept
    <2>4. QED
      BY <2>2, <2>3
  <1>6. DOMAIN report' = scene'.reports /\ report' = [q \in scene'.reports |-> report'[q]]
    BY <1>2, <1>3
  <1>7. QED
    BY <1>5, <1>6 DEF ReportsKept

\* The others stay as they are.
LEMMA ReportsRest ==
  ASSUME SummariesInv, report' = report, caps' = caps, scene' = scene
  PROVE  ReportsKept'
  BY DEF SummariesInv, ReportsKept, ReportTyped, ReportKept

\* Whatever step is taken, a summary that is under way keeps what it has counted.
LEMMA ReportsStayKept ==
  ASSUME SummariesInv, SummariesAssumption, SummariesNext
  PROVE  ReportsKept'
  <1>0. StoreTyped /\ \A r \in scene.reports : ReportTyped(report[r]) /\ ReportKept(report[r])
    BY DEF SummariesInv, ReportsKept
  <1>1. ASSUME NEW r \in scene.reports, NEW a \in Resellers, Begin(r, a) PROVE ReportsKept'
    <2> DEFINE got == [NoReport EXCEPT !.at = "exclusions", !.actor = a, !.scope = Scope(a), !.climb = a]
    <2>1. Scope(a) \subseteq Resellers /\ a \in Scope(a)
      BY ScopeOfAdmin
    <2>2. ReportTyped(NoReport) /\ ReportKept(NoReport)
      BY AtRest
    <2>3. got \in Reports
      BY <2>1, <2>2 DEF ReportTyped, Reports, Stages
    <2>4. /\ got.at = "exclusions" /\ got.climb = a /\ got.actor = a /\ got.scope = Scope(a)
          /\ got.caps = NoReport.caps /\ got.ledger = NoReport.ledger /\ NoReport.at = "idle"
      BY DEF NoReport
    <2> HIDE DEF got
    <2>5. ReportTyped(got)
      BY <2>1, <2>3, <2>4 DEF ReportTyped
    <2>6. ReportKept(got)
      BY <2>2, <2>4 DEF ReportKept
    <2>7. Gathers(r, got)
      BY <1>1 DEF Begin, got
    <2>8. QED
      BY <2>5, <2>6, <2>7, OneReport
  <1>2. ASSUME NEW r \in scene.reports, Climb(r) PROVE ReportsKept'
    <2> DEFINE j == report[r]
               got == [j EXCEPT !.shut = @ \/ j.climb \in shut, !.hidden = @ \/ j.climb \in hidden,
                                !.climb = head[j.climb], !.at = IF head[j.climb] = Nobody THEN "exemptions" ELSE @]
    <2>1. j.at = "exclusions" /\ Gathers(r, got)
      BY <1>2 DEF Climb
    <2>2. j \in Reports /\ ReportTyped(j) /\ ReportKept(j) /\ j.climb \in Resellers
      BY <1>0, <2>1 DEF ReportTyped
    <2>3. head[j.climb] \in Resellers \cup {Nobody}
      BY <1>0, <2>2 DEF StoreTyped
    <2> HIDE DEF j
    <2>4. got \in Reports
      BY <2>2, <2>3, ZenonT(40) DEF Reports, Stages
    <2>5. /\ got.at = (IF head[j.climb] = Nobody THEN "exemptions" ELSE j.at) /\ got.climb = head[j.climb]
          /\ got.actor = j.actor /\ got.scope = j.scope /\ got.caps = j.caps /\ got.ledger = j.ledger
      BY <2>2 DEF Reports
    <2> HIDE DEF got
    <2>6. ReportTyped(got)
      BY <2>1, <2>2, <2>3, <2>4, <2>5 DEF ReportTyped
    <2>7. ReportKept(got)
      BY <2>1, <2>2, <2>5 DEF ReportKept
    <2>8. QED
      BY <2>1, <2>6, <2>7, OneReport
  <1>3. ASSUME NEW r \in scene.reports, ReadExemptions(r) PROVE ReportsKept'
    <2> DEFINE j == report[r]
               got == [j EXCEPT !.at = "segments", !.exempt = exempt]
    <2>1. j.at = "exemptions" /\ Gathers(r, got)
      BY <1>3 DEF ReadExemptions
    <2>2. j \in Reports /\ ReportTyped(j) /\ ReportKept(j) /\ exempt \in Owners \cup {Nobody}
      BY <1>0 DEF ReportTyped, StoreTyped
    <2> HIDE DEF j
    <2>3. got \in Reports
      BY <2>2 DEF Reports, Stages
    <2>4. /\ got.at = "segments" /\ got.actor = j.actor /\ got.scope = j.scope
          /\ got.caps = j.caps /\ got.ledger = j.ledger
      BY <2>2 DEF Reports
    <2> HIDE DEF got
    <2>5. ReportTyped(got) /\ ReportKept(got)
      BY <2>1, <2>2, <2>3, <2>4 DEF ReportTyped, ReportKept
    <2>6. QED
      BY <2>1, <2>5, OneReport
  <1>4. ASSUME NEW r \in scene.reports, ReadSegments(r) PROVE ReportsKept'
    <2> DEFINE j == report[r]
               got == [j EXCEPT !.at = "caps", !.entries = entries]
    <2>1. j.at = "segments" /\ Gathers(r, got)
      BY <1>4 DEF ReadSegments
    <2>2. j \in Reports /\ ReportTyped(j) /\ ReportKept(j) /\ entries \in {s \in Seq(Segments) : Kept(s)}
      BY <1>0 DEF ReportTyped, StoreTyped, Kept
    <2> HIDE DEF j
    <2>3. got \in Reports
      BY <2>2 DEF Reports, Stages
    <2>4. /\ got.at = "caps" /\ got.actor = j.actor /\ got.scope = j.scope
          /\ got.caps = j.caps /\ got.ledger = j.ledger
      BY <2>2 DEF Reports
    <2> HIDE DEF got
    <2>5. ReportTyped(got) /\ ReportKept(got)
      BY <2>1, <2>2, <2>3, <2>4 DEF ReportTyped, ReportKept
    <2>6. QED
      BY <2>1, <2>5, OneReport
  <1>5. ASSUME NEW r \in scene.reports, ReadCaps(r) PROVE ReportsKept'
    <2> DEFINE j == report[r]
               got == [j EXCEPT !.at = "panel", !.caps = caps]
    <2>1. j.at = "caps" /\ Gathers(r, got)
      BY <1>5 DEF ReadCaps
    <2>2. j \in Reports /\ ReportTyped(j) /\ ReportKept(j) /\ caps \in Caps
      BY <1>0 DEF ReportTyped, StoreTyped
    <2> HIDE DEF j
    <2>3. got \in Reports
      BY <2>2 DEF Reports, Stages
    <2>4. /\ got.at = "panel" /\ got.actor = j.actor /\ got.scope = j.scope
          /\ got.caps = caps /\ got.ledger = j.ledger
      BY <2>2 DEF Reports
    <2> HIDE DEF got
    <2>5. ReportTyped(got) /\ ReportKept(got)
      BY <2>1, <2>2, <2>3, <2>4 DEF ReportTyped, ReportKept
    <2>6. QED
      BY <2>1, <2>5, OneReport
  <1>6. ASSUME NEW r \in scene.reports, ReadPanel(r) PROVE ReportsKept'
    <2> DEFINE j == report[r]
    <2>1. j.at = "panel" /\ j \in Reports /\ ReportTyped(j) /\ ReportKept(j) /\ client \in ClientRows
      BY <1>0, <1>6 DEF ReportTyped, StoreTyped, ReadPanel
    <2>2. CASE NeedsCap(j, client) /\ Gathers(r, [j EXCEPT !.at = "insert", !.client = client])
      <3> DEFINE got == [j EXCEPT !.at = "insert", !.client = client]
      <3> HIDE DEF j
      <3>1. got \in Reports
        BY <2>1 DEF Reports, Stages
      <3>2. /\ got.at = "insert" /\ got.actor = j.actor /\ got.scope = j.scope /\ got.client = client
            /\ got.caps = j.caps /\ got.ledger = j.ledger
        BY <2>1 DEF Reports
      <3>3. client.comment \in j.scope
        BY <2>2 DEF NeedsCap
      <3>4. Gathers(r, got)
        BY <2>2
      <3> HIDE DEF got
      <3>5. ReportTyped(got) /\ ReportKept(got)
        BY <2>1, <3>1, <3>2, <3>3 DEF ReportTyped, ReportKept
      <3>6. QED
        BY <3>4, <3>5, OneReport
    <2>3. CASE /\ ~NeedsCap(j, client)
               /\ Gathers(r, [j EXCEPT !.at = "done", !.client = client, !.ledger = Counted(j, j.caps, client)])
      <3> DEFINE l == Counted(j, j.caps, client)
                 got == [j EXCEPT !.at = "done", !.client = client, !.ledger = l]
      <3>1. Gathers(r, got)
        BY <2>3
      <3>2. j.scope \subseteq Resellers /\ Kept(j.entries) /\ j.caps \in Caps
        BY <2>1 DEF Reports
      <3>3. l \in Ledgers
        BY <2>1, <3>2, LedgerAddsUp DEF Counted
      <3> HIDE DEF j, l
      <3>4. got \in Reports
        BY <2>1, <3>3 DEF Reports, Stages
      <3>5. /\ got.at = "done" /\ got.actor = j.actor /\ got.scope = j.scope /\ got.client = client
            /\ got.caps = j.caps /\ got.ledger = l /\ got.shut = j.shut /\ got.hidden = j.hidden
            /\ got.exempt = j.exempt /\ got.entries = j.entries
        BY <2>1 DEF Reports
      <3> HIDE DEF got
      <3>6. l = Counted(got, got.caps, got.client) /\ ~NeedsCap(got, got.client)
        BY <2>3, <3>5 DEF Counted, NeedsCap, l
      <3>7. ReportTyped(got) /\ ReportKept(got)
        BY <2>1, <3>4, <3>5, <3>6 DEF ReportTyped, ReportKept
      <3>8. QED
        BY <3>1, <3>7, OneReport
    <2>4. CASE Gathers(r, [j EXCEPT !.at = "done"])
      <3> DEFINE got == [j EXCEPT !.at = "done"]
      <3> HIDE DEF j
      <3>1. got \in Reports
        BY <2>1 DEF Reports, Stages
      <3>2. /\ got.at = "done" /\ got.actor = j.actor /\ got.scope = j.scope
            /\ got.caps = j.caps /\ got.ledger = j.ledger
        BY <2>1 DEF Reports
      <3>3. Gathers(r, got)
        BY <2>4
      <3> HIDE DEF got
      <3>4. ReportTyped(got) /\ ReportKept(got)
        BY <2>1, <3>1, <3>2 DEF ReportTyped, ReportKept
      <3>5. QED
        BY <3>3, <3>4, OneReport
    <2>5. QED
      BY <1>6, <2>2, <2>3, <2>4 DEF ReadPanel
  <1>7. ASSUME NEW r \in scene.reports, InsertCap(r) PROVE ReportsKept'
    <2> DEFINE j == report[r]
               c == j.client.comment
               n == j.client.total
    <2>1. /\ j.at = "insert" /\ scene' = scene
          /\ caps' = [caps EXCEPT ![c] = IF @ < 0 THEN n ELSE @]
          /\ report' = [report EXCEPT ![r].at = "again"]
      BY <1>7 DEF InsertCap
    <2>2. /\ j \in Reports /\ ReportTyped(j) /\ ReportKept(j) /\ caps \in Caps
          /\ j.client \in ClientRows /\ c \in j.scope /\ c \in Resellers
      BY <1>0, <2>1 DEF ReportTyped, StoreTyped, Reports
    <2>3. n \in Nat
      BY <2>2 DEF ClientRows, SummariesAssumption
    <2> HIDE DEF n
    <2>4. \A a \in Resellers : caps[a] >= 0 => caps'[a] = caps[a]
      BY <2>1, <2>2 DEF Caps
    <2>5. caps'[c] >= 0
      BY <2>1, <2>2, <2>3 DEF Caps
    <2>6. /\ DOMAIN report = scene.reports
          /\ report = [q \in scene.reports |-> report[q]]
          /\ report' = [q \in scene.reports |-> IF q = r THEN [j EXCEPT !.at = "again"] ELSE report[q]]
      BY <2>1 DEF SummariesInv, ReportsKept
    <2>7. ASSUME NEW q \in scene.reports
          PROVE  ReportTyped(report[q])' /\ ReportKept(report[q])'
      <3> DEFINE k == report[q]
                 k1 == report'[q]
      <3>1. ReportTyped(k) /\ ReportKept(k) /\ k \in Reports
        BY <1>0 DEF ReportTyped
      <3>2. \A a \in Resellers : k.caps[a] >= 0 => caps'[a] = k.caps[a]
        <4>1. \A a \in Resellers : k.caps[a] >= 0 => caps[a] = k.caps[a]
          BY <3>1 DEF ReportKept
        <4>2. QED
          BY <2>4, <4>1
      <3>3. CASE q # r
        <4>1. k1 = k
          BY <2>6, <3>3
        <4>2. k.at = "again" => k.client.comment \in Resellers /\ caps[k.client.comment] >= 0
          BY <3>1 DEF ReportTyped, ReportKept, Reports
        <4>3. k.at = "again" => caps'[k.client.comment] >= 0
          BY <2>4, <4>2
        <4> HIDE DEF k
        <4>4. ReportTyped(k)' /\ ReportKept(k)'
          <5>1. k' = k
            BY <4>1 DEF k
          <5>2. QED
            BY <5>1, <3>1, <3>2, <4>3 DEF ReportTyped, ReportKept
        <4>5. QED
          BY <4>4 DEF k
      <3>4. CASE q = r
        <4>1. k1 = [j EXCEPT !.at = "again"]
          BY <2>6, <3>4
        <4> HIDE DEF j
        <4>2. k1 \in Reports
          BY <2>2, <4>1 DEF Reports, Stages
        <4>3. /\ k1.at = "again" /\ k1.actor = j.actor /\ k1.scope = j.scope
              /\ k1.client = j.client /\ k1.caps = j.caps /\ k1.ledger = j.ledger
          BY <2>2, <4>1 DEF Reports
        <4>4. k = j
          BY <3>4 DEF j
        <4>5. /\ \A a \in Resellers : k1.caps[a] >= 0 => caps'[a] = k1.caps[a]
              /\ caps'[k1.client.comment] >= 0 /\ k1.ledger = Nothing
          BY <2>1, <2>2, <2>5, <3>2, <4>3, <4>4 DEF ReportKept
        <4>6. k1.actor \in k1.scope /\ k1.client.comment \in k1.scope
          BY <2>1, <2>2, <4>3 DEF ReportTyped
        <4> HIDE DEF k1
        <4>7. ReportTyped(k1)
          BY <4>2, <4>3, <4>6 DEF ReportTyped
        <4>8. /\ \A a \in Resellers : k1.caps[a] >= 0 => caps'[a] = k1.caps[a]
              /\ k1.at = "again" => caps'[k1.client.comment] >= 0
              /\ k1.at # "done" => k1.ledger = Nothing
              /\ k1.at # "done"
          BY <4>3, <4>5
        <4>9. QED
          BY <4>7, <4>8 DEF ReportTyped, ReportKept, k1
      <3>5. QED
        BY <3>3, <3>4
    <2>8. QED
      BY <2>1, <2>6, <2>7 DEF ReportsKept
  <1>8. ASSUME NEW r \in scene.reports, ReadCap(r) PROVE ReportsKept'
    <2> DEFINE j == report[r]
               l == Counted(j, caps, j.client)
               got == [j EXCEPT !.at = "done", !.caps = caps, !.ledger = l]
    <2>1. j.at = "again" /\ Gathers(r, got)
      BY <1>8 DEF ReadCap
    <2>2. /\ j \in Reports /\ ReportTyped(j) /\ ReportKept(j) /\ caps \in Caps
          /\ j.scope \subseteq Resellers /\ Kept(j.entries) /\ j.client \in ClientRows
          /\ caps[j.client.comment] >= 0
      BY <1>0, <2>1 DEF ReportTyped, ReportKept, StoreTyped, Reports
    <2>3. l \in Ledgers
      BY <2>2, LedgerAddsUp DEF Counted
    <2> HIDE DEF j, l
    <2>4. got \in Reports
      BY <2>2, <2>3 DEF Reports, Stages
    <2>5. /\ got.at = "done" /\ got.actor = j.actor /\ got.scope = j.scope /\ got.client = j.client
          /\ got.caps = caps /\ got.ledger = l /\ got.shut = j.shut /\ got.hidden = j.hidden
          /\ got.exempt = j.exempt /\ got.entries = j.entries
      BY <2>2 DEF Reports
    <2> HIDE DEF got
    <2>6. l = Counted(got, got.caps, got.client)
      BY <2>5 DEF Counted, l
    <2>6a. ~NeedsCap(got, got.client)
      <3>1. j.client.comment \in j.scope => caps[j.client.comment] \in Int
        BY <2>2 DEF Caps
      <3>2. QED
        BY <2>2, <2>5, <3>1 DEF NeedsCap
    <2>7. ReportTyped(got) /\ ReportKept(got)
      BY <2>1, <2>2, <2>4, <2>5, <2>6, <2>6a DEF ReportTyped, ReportKept
    <2>8. QED
      BY <2>1, <2>7, OneReport
  <1>9. ASSUME NEW r \in scene.reports, Shown(r) PROVE ReportsKept'
    BY <1>9, AtRest, OneReport DEF Shown
  <1>10. ASSUME \/ UseTraffic \/ ClearUsage \/ EnterTopUp \/ DropTopUp
                \/ \E n \in 1..MaxTotal : SetClientTotal(n)
                \/ \E tag \in Tags : TagByHand(tag)
                \/ \E a \in Resellers :
                      \/ \E gift \in BOOLEAN : TopUp(a, gift)
                      \/ \E new \in MayBeUnder[a] \cup {Nobody} : MoveReseller(a, new)
                      \/ ToggleInbound(a) \/ HideClient(a)
         PROVE  ReportsKept'
    <2>1. report' = report /\ caps' = caps /\ scene' = scene
      BY <1>10 DEF UseTraffic, ClearUsage, EnterTopUp, DropTopUp, SetClientTotal, TagByHand, TopUp, MoveReseller,
                   ToggleInbound, HideClient, Operates, OnlyClient, tree, lists
    <2>2. QED
      BY <2>1, ReportsRest
  <1>11. QED
    BY <1>1, <1>2, <1>3, <1>4, <1>5, <1>6, <1>7, <1>8, <1>9, <1>10 DEF SummariesNext

\* Everything that is stored and read is right in every state.
THEOREM SummariesInvariant == SummariesSpec => []SummariesInv
  <1>1. SummariesInit => SummariesInv
    BY SummariesBegin
  <1>2. SummariesInv /\ [SummariesNext]_summaryVars => SummariesInv'
    <2> SUFFICES ASSUME SummariesInv, [SummariesNext]_summaryVars PROVE SummariesInv'
      OBVIOUS
    <2>1. CASE SummariesNext
      BY <2>1, SummariesAssumption, StoreStaysTyped, ReportsStayKept DEF SummariesInv
    <2>2. CASE UNCHANGED summaryVars
      <3>1. StoreTyped'
        BY <2>2 DEF summaryVars, lists, tree, SummariesInv, StoreTyped
      <3>2. report' = report /\ caps' = caps /\ scene' = scene
        BY <2>2 DEF summaryVars
      <3>3. QED
        BY <3>1, <3>2, ReportsRest DEF SummariesInv
    <2>3. QED
      BY <2>1, <2>2
  <1>3. QED
    BY <1>1, <1>2, PTL DEF SummariesSpec

\* The rows that summaries go by, and what they have read of them, stay of their kinds.
THEOREM SummariesTyped == SummariesSpec => []SummariesTypeOK
  <1>1. SummariesInv => SummariesTypeOK
    <2> SUFFICES ASSUME SummariesInv PROVE SummariesTypeOK
      OBVIOUS
    <2>1. client.total \in 0..MaxTotal /\ client.used \in Nat
      BY DEF SummariesInv, StoreTyped, ClientRows
    <2>2. ASSUME NEW i \in DOMAIN entries
          PROVE  entries[i].from < entries[i].to /\ entries[i].owner \in Resellers \cup {RootAdmin}
      <3>1. entries[i] \in Segments /\ entries[i].from < entries[i].to
        BY DEF SummariesInv, StoreTyped, Kept
      <3>2. QED
        BY <3>1 DEF Segments, Owners
    <2>3. \A a \in Resellers : caps[a] \in -1..MaxTotal /\ head[a] \in MayBeUnder[a] \cup {Nobody}
      BY DEF SummariesInv, StoreTyped, Caps
    <2>4. exempt \in Resellers \cup {RootAdmin, Nobody}
      BY DEF SummariesInv, StoreTyped, Owners
    <2>5. ASSUME NEW r \in scene.reports, report[r].at # "idle"
          PROVE  report[r].scope \subseteq Resellers /\ report[r].actor \in report[r].scope
      BY <2>5 DEF SummariesInv, ReportsKept, ReportTyped, Reports
    <2>6. QED
      BY <2>1, <2>2, <2>3, <2>4, <2>5 DEF SummariesTypeOK
  <1>2. QED
    BY <1>1, SummariesInvariant, PTL

\* Two that have nobody in common are billed for different steps.
LEMMA TwoScopes ==
  ASSUME SummariesAssumption, NEW segs, Kept(segs), Disjoint(segs), NEW c \in ClientRows, NEW A, NEW B, A \cap B = {}
  PROVE  LET l == OfSegments(segs, A, c)
             m == OfSegments(segs, B, c)
         IN  l.allocated + m.allocated <= c.total /\ l.consumed + m.consumed <= c.used
  <1> DEFINE bills == {i \in DOMAIN segs : segs[i].bill /\ End(segs[i], c) > segs[i].from}
             Counts(scope) == Billed(segs, scope, c)
             Whole(scope) == {i \in Counts(scope) : ~ConsumedOnly(segs[i], c)}
             G(S) == AllOf(Granted(segs, c), S)
             P(S) == AllOf(Spent(segs, c), S)
  <1>1. c.total \in Nat /\ c.used \in Nat
    BY DEF ClientRows, SummariesAssumption
  <1>2. /\ Counts(A) \in SUBSET bills /\ Counts(B) \in SUBSET bills /\ Counts(A) \cap Counts(B) = {}
        /\ Whole(A) \in SUBSET bills /\ Whole(B) \in SUBSET bills /\ Whole(A) \cap Whole(B) = {}
    BY DEF Billed
  <1>3. ASSUME NEW scope, Counts(scope) \in SUBSET bills, Whole(scope) \in SUBSET bills
        PROVE  /\ OfSegments(segs, scope, c).allocated = Cardinality(G(Whole(scope)))
               /\ OfSegments(segs, scope, c).consumed = Cardinality(P(Counts(scope)))
               /\ G(Whole(scope)) \subseteq 1..c.total
               /\ P(Counts(scope)) = G(Counts(scope)) \cap (1..c.used)
    <2>1. /\ OfSegments(segs, scope, c).allocated
               = SumFunction(Sizes(segs, c, Whole(scope)))
          /\ OfSegments(segs, scope, c).consumed = SumFunction(Uses(segs, c, Counts(scope)))
      BY DEF OfSegments, Sizes, Uses
    <2>2. /\ SumFunction(Sizes(segs, c, Whole(scope))) = Cardinality(G(Whole(scope)))
          /\ G(Whole(scope)) \subseteq 1..c.total
      <3> DEFINE W == Whole(scope)
      <3>1. W \in SUBSET bills
        BY <1>3
      <3> HIDE DEF W
      <3>2. /\ SumFunction(Sizes(segs, c, W)) = Cardinality(G(W))
            /\ G(W) \subseteq 1..c.total
        BY <3>1, SegmentsCounted
      <3>3. QED
        BY <3>2 DEF W
    <2>3. /\ SumFunction(Uses(segs, c, Counts(scope))) = Cardinality(P(Counts(scope)))
          /\ P(Counts(scope)) = G(Counts(scope)) \cap (1..c.used)
      <3> DEFINE W == Counts(scope)
      <3>1. W \in SUBSET bills
        BY <1>3
      <3> HIDE DEF W
      <3>2. /\ SumFunction(Uses(segs, c, W)) = Cardinality(P(W))
            /\ P(W) = G(W) \cap (1..c.used)
        BY <3>1, SegmentsCounted
      <3>3. QED
        BY <3>2 DEF W
    <2> HIDE DEF Counts, Whole
    <2>4. QED
      BY <2>1, <2>2, <2>3
  <1> HIDE DEF Counts, Whole
  <1>4. G(Whole(A)) \cap G(Whole(B)) = {} /\ G(Counts(A)) \cap G(Counts(B)) = {}
    BY <1>2, SegmentsApart
  <1> HIDE DEF bills, G, P
  <1>5. ASSUME NEW n \in Nat, NEW S, NEW T, S \subseteq 1..n, T \subseteq 1..n, S \cap T = {}
        PROVE  Cardinality(S) + Cardinality(T) <= n
    <2>1. S \subseteq (0 + 1)..n /\ T \subseteq (0 + 1)..n /\ S \cup T \subseteq (0 + 1)..n
      BY <1>5
    <2>2. IsFiniteSet(S) /\ IsFiniteSet(T) /\ Cardinality(S) \in Nat /\ Cardinality(T) \in Nat
      BY <2>1, FewSteps
    <2>3. Cardinality(S \cup T) = Cardinality(S) + Cardinality(T) - Cardinality({})
      BY <1>5, <2>2, FS_Union
    <2>4. Cardinality(S \cup T) <= AtLeast0(n - 0)
      BY <2>1, FewSteps
    <2>5. Cardinality({}) = 0
      BY FS_EmptySet
    <2>6. QED
      BY <2>2, <2>3, <2>4, <2>5 DEF AtLeast0
  <1>6. Cardinality(G(Whole(A))) + Cardinality(G(Whole(B))) <= c.total
    BY <1>1, <1>2, <1>3, <1>4, <1>5
  <1>7. Cardinality(P(Counts(A))) + Cardinality(P(Counts(B))) <= c.used
    <2>1. P(Counts(A)) \subseteq 1..c.used /\ P(Counts(B)) \subseteq 1..c.used /\ P(Counts(A)) \cap P(Counts(B)) = {}
      BY <1>2, <1>3, <1>4
    <2>2. QED
      BY <1>1, <1>5, <2>1
  <1>8. QED
    BY <1>2, <1>3, <1>6, <1>7

\* Nobody is billed for what somebody else is billed for, unless one is above the other or both
\* are above a third: true of whatever the rows hold, wherever the segments do not overlap.
THEOREM BilledToOneOnly == SummariesSpec => []BilledToOne
  <1>1. SummariesInv => BilledToOne
    <2> SUFFICES ASSUME SummariesInv, Disjoint(entries),
                        NEW a \in Resellers, NEW b \in Resellers, LedgerOf(a) # Nothing, LedgerOf(b) # Nothing, Apart(a, b)
                 PROVE  /\ LedgerOf(a).allocated + LedgerOf(b).allocated <= client.total
                        /\ LedgerOf(a).consumed + LedgerOf(b).consumed <= client.used
      BY DEF BilledToOne
    <2>1. Kept(entries) /\ client \in ClientRows /\ Scope(a) \cap Scope(b) = {}
      BY DEF SummariesInv, StoreTyped, Apart
    <2>2. CASE entries # <<>>
      <3>1. LedgerOf(a) = OfSegments(entries, Scope(a), client) /\ LedgerOf(b) = OfSegments(entries, Scope(b), client)
        BY <2>2 DEF LedgerOf, Ledger
      <3>2. QED
        BY <2>1, <3>1, TwoScopes, SummariesAssumption
    <2>3. CASE entries = <<>>
      <3>1. client.comment \in Scope(a) /\ client.comment \in Scope(b)
        BY <2>3 DEF LedgerOf, Ledger, OfComment
      <3>2. QED
        BY <2>1, <3>1
    <2>4. QED
      BY <2>2, <2>3
  <1>2. QED
    BY <1>1, SummariesInvariant, PTL

\* A summary that was read piece by piece counts no more of a client than the client had when it
\* was read, and the cap it went by is the one that is stored.
THEOREM ReportsAlwaysAddUp == SummariesSpec => []ReportsAddUp
  <1>1. SummariesInv => ReportsAddUp
    <2> SUFFICES ASSUME SummariesInv, NEW r \in scene.reports, report[r].at = "done"
                 PROVE  LET j == report[r]
                            l == j.ledger
                        IN  /\ Disjoint(j.entries) =>
                                  /\ l.allocated <= j.client.total /\ l.consumed <= j.client.used
                                  /\ l.remaining <= AtLeast0(j.client.total - j.client.used)
                            /\ j.entries = <<>> /\ j.client.tag = "moafresume" /\ l.count = 1 =>
                                  l.allocated = AtMost(caps[j.client.comment], j.client.total)
      BY DEF ReportsAddUp
    <2> DEFINE j == report[r]
               l == j.ledger
    <2>1. /\ ReportTyped(j) /\ ReportKept(j) /\ Kept(j.entries) /\ j.client \in ClientRows
          /\ j.caps \in Caps /\ j.scope \subseteq Resellers
      BY DEF SummariesInv, ReportsKept, ReportTyped, Reports
    <2>2. j.client.total \in Nat /\ j.client.used \in Nat
      BY <2>1, SummariesAssumption DEF ClientRows, SummariesAssumption
    <2>3. CASE l = Nothing
      BY <2>2, <2>3 DEF Nothing, AtLeast0
    <2>4. CASE l # Nothing
      <3>1. l = Counted(j, j.caps, j.client) /\ ~NeedsCap(j, j.client)
        BY <2>1, <2>4 DEF ReportKept
      <3>2. l = Ledger(j.scope, j.shut, j.hidden, j.exempt, j.entries, j.caps, j.client)
        BY <3>1 DEF Counted
      <3>3. Disjoint(j.entries) => /\ l.allocated <= j.client.total /\ l.consumed <= j.client.used
                                   /\ l.remaining <= AtLeast0(j.client.total - j.client.used)
        BY <2>1, <3>2, LedgerAddsUp, SummariesAssumption
      <3>4. ASSUME j.entries = <<>>, j.client.tag = "moafresume"
            PROVE  l.allocated = AtMost(caps[j.client.comment], j.client.total)
        <4>1. ~j.shut /\ ~OutOfScope(j.scope, j.hidden, j.exempt, j.client) /\ l = OfComment(j.scope, j.caps, j.client)
          BY <2>4, <3>2, <3>4 DEF Ledger
        <4>2. j.client.comment \in j.scope
          BY <2>4, <4>1 DEF OfComment
        <4>3. j.caps[j.client.comment] \in Int /\ ~(j.caps[j.client.comment] < 0)
          BY <2>1, <3>1, <3>4, <4>1, <4>2 DEF NeedsCap, Caps
        <4>4. l.allocated = AtMost(j.caps[j.client.comment], j.client.total)
          BY <3>4, <4>1, <4>2, <4>3 DEF OfComment
        <4>5. caps[j.client.comment] = j.caps[j.client.comment]
          BY <2>1, <4>2, <4>3 DEF ReportKept
        <4>6. QED
          BY <4>4, <4>5
      <3>5. QED
        BY <3>3, <3>4
    <2>5. QED
      BY <2>3, <2>4
  <1>2. QED
    BY <1>1, SummariesInvariant, PTL

-------------------------------------------------------------------------------
\* Naturals add up to a natural.
LEMMA SumNat ==
  ASSUME NEW S, IsFiniteSet(S), NEW f, \A x \in S : f[x] \in Nat
  PROVE  SumFunctionOnSet(f, S) \in Nat
  <1> DEFINE Bad == {s \in SUBSET S : SumFunctionOnSet(f, s) \notin Nat}
  <1>1. ASSUME Bad # {} PROVE FALSE
    <2>1. Bad \in SUBSET SUBSET S
      OBVIOUS
    <2> HIDE DEF Bad
    <2>2. PICK s \in Bad : \A t \in Bad : t \subseteq s => t = s
      BY <1>1, <2>1, SmallestBad
    <2> USE DEF Bad
    <2>3. IsFiniteSet(s)
      BY <2>2, FS_Subset
    <2>4. SumFunctionOnSet(f, s) = IF s = {} THEN 0 ELSE f[Pick(s)] + SumFunctionOnSet(f, Left(s))
      BY <2>3, SumStep
    <2>5. s # {} => SumFunctionOnSet(f, Left(s)) \in Nat /\ f[Pick(s)] \in Nat
      BY <2>2, Leftover
    <2>6. QED
      BY <2>2, <2>4, <2>5
  <1>2. S \notin Bad
    BY <1>1
  <1>3. QED
    BY <1>2

\* What is consumed of segments is never below zero.
LEMMA SpentIsNat ==
  ASSUME NEW segs, Kept(segs), NEW c \in ClientRows, SummariesAssumption, NEW scope
  PROVE  OfSegments(segs, scope, c).consumed \in Nat
  <1> DEFINE counted == Billed(segs, scope, c)
             spent == [i \in counted |-> UsedOf(segs[i], c)]
  <1>1. IsFiniteSet(counted) /\ counted \subseteq DOMAIN segs
    <2>1. DOMAIN segs = 1..Len(segs) /\ Len(segs) \in Nat
      BY DEF Kept
    <2>2. IsFiniteSet(DOMAIN segs)
      <3>1. 1 \in Int /\ Len(segs) \in Int
        BY <2>1
      <3>2. IsFiniteSet(1..Len(segs))
        BY <3>1, FS_Interval
      <3>3. QED
        BY <2>1, <3>2
    <2>3. counted \subseteq DOMAIN segs
      BY DEF Billed
    <2>4. QED
      BY <2>2, <2>3, FS_Subset
  <1>2. ASSUME NEW i \in counted PROVE UsedOf(segs[i], c) \in Nat
    <2>1. segs[i] \in Segments /\ c.total \in Nat /\ c.used \in Nat
      BY <1>1 DEF Kept, ClientRows, SummariesAssumption
    <2>2. segs[i].from \in Nat /\ segs[i].to \in Nat
      BY <2>1 DEF Segments
    <2>3. QED
      BY <2>1, <2>2 DEF UsedOf, End, AtMost, AtLeast0
  <1>3. \A i \in counted : spent[i] \in Nat
    BY <1>2
  <1>4. OfSegments(segs, scope, c).consumed = SumFunctionOnSet(spent, counted)
    BY DEF OfSegments, SumFunction
  <1> HIDE DEF spent, counted
  <1>5. QED
    BY <1>1, <1>3, <1>4, SumNat

\* One segment of everything.
LEMMA SpentOfOne ==
  ASSUME NEW c \in ClientRows, SummariesAssumption, c.used <= c.total, c.total > 0, NEW b, NEW scope, b \in scope
  PROVE  OfSegments(<<[owner |-> b, from |-> 0, to |-> c.total, bill |-> TRUE, detach |-> TRUE]>>, scope, c).consumed = c.used
  <1> DEFINE g == [owner |-> b, from |-> 0, to |-> c.total, bill |-> TRUE, detach |-> TRUE]
             segs == <<g>>
  <1>1. c.total \in Nat /\ c.used \in Nat
    BY DEF ClientRows, SummariesAssumption
  <1>2. DOMAIN segs = {1} /\ segs[1] = g
    OBVIOUS
  <1>3. End(g, c) = c.total /\ UsedOf(g, c) = c.used
    BY <1>1 DEF End, UsedOf, AtMost, AtLeast0
  <1>4. g.bill /\ g.owner = b /\ g.from = 0
    OBVIOUS
  <1> HIDE DEF g, segs
  <1>5. Billed(segs, scope, c) = {1}
    BY <1>1, <1>2, <1>3, <1>4 DEF Billed
  <1> DEFINE spent == [i \in {1} |-> UsedOf(segs[i], c)]
  <1>6. OfSegments(segs, scope, c).consumed = SumFunctionOnSet(spent, {1})
    BY <1>5 DEF OfSegments, SumFunction
  <1>7. spent[1] = c.used
    BY <1>2, <1>3
  <1> HIDE DEF spent
  <1>8. SumFunctionOnSet(spent, {1}) = spent[1] + SumFunctionOnSet(spent, {})
    <2>1. IsFiniteSet({1}) /\ {1} \ {1} = {}
      BY FS_Singleton
    <2>2. \A x \in {1} : spent[x] \in Int
      BY <1>1, <1>7
    <2>3. QED
      BY <2>1, <2>2, SumSplit
  <1>9. SumFunctionOnSet(spent, {}) = 0
    BY SumStep, FS_EmptySet
  <1>10. OfSegments(segs, scope, c).consumed = c.used
    BY <1>1, <1>6, <1>7, <1>8, <1>9
  <1>11. QED
    BY <1>10 DEF segs, g

-------------------------------------------------------------------------------
(* A parent that is left. *)

Mover(a) == a \in Resellers /\ MayBeUnder[a] # {}

\* Whoever may be below somebody has nobody below it and has created nobody.
OnlyLeavesMove == \A a \in Resellers : Mover(a) => \A c \in Resellers : a \notin MayBeUnder[c] /\ Creator[c] # a

\* No gifts, and whoever may be below somebody tops up its own client.
OwnTopUps == \A a \in Resellers, gift \in BOOLEAN :
                TopUp(a, gift) => ~gift /\ (Mover(a) => client.comment = a)

\* Traffic is billed to those only who stay where they are.
Lasting(segs) == \A i \in DOMAIN segs : segs[i].bill => ~Mover(segs[i].owner)

DetachInv ==
    /\ client.total > 0 /\ exempt = Nobody
    /\ lastHead = [a \in Resellers |-> lastHead[a]]
    /\ \A a \in Resellers : ~Mover(a) => lastHead[a] = Nobody
    /\ \A a \in Resellers : client.comment = a /\ head[a] = Nobody /\ lastHead[a] # Nobody => entries # <<>>
    /\ Lasting(entries)
    /\ topup # NoTopUp => /\ ~topup.gift /\ ~Mover(topup.under)
                          /\ ~topup.known /\ topup.under = Nobody => topup.owner = Nobody

LEMMA LastingTogether ==
  ASSUME NEW s, Kept(s), Lasting(s), NEW t, Kept(t), Lasting(t)
  PROVE  Lasting(s \o t)
  <1>1. s \in Seq(Segments) /\ t \in Seq(Segments)
    BY DEF Kept
  <1>2. ASSUME NEW i \in DOMAIN (s \o t), (s \o t)[i].bill
        PROVE ~Mover((s \o t)[i].owner)
    <2>1. i \in 1..(Len(s) + Len(t))
      BY <1>1, <1>2
    <2>2. CASE i <= Len(s)
      <3>1. i \in DOMAIN s /\ (s \o t)[i] = s[i]
        BY <1>1, <2>1, <2>2
      <3>2. QED
        BY <1>2, <3>1 DEF Lasting
    <2>3. CASE i > Len(s)
      <3>1. i - Len(s) \in DOMAIN t /\ (s \o t)[i] = t[i - Len(s)]
        BY <1>1, <2>1, <2>3
      <3>2. QED
        BY <1>2, <3>1 DEF Lasting
    <2>4. QED
      BY <1>1, <2>1, <2>2, <2>3
  <1>3. QED
    BY <1>2 DEF Lasting

LEMMA LastingNone == Lasting(<<>>)
  BY DEF Lasting

LEMMA LastingRow ==
  ASSUME NEW o, NEW from, NEW to, NEW bill, bill => ~Mover(o)
  PROVE  Lasting(Row(o, from, to, bill))
  BY DEF Row, Lasting

\* Who is a parent stays where it is.
LEMMA ParentsStay ==
  ASSUME SummariesAssumption, StoreTyped, OnlyLeavesMove, NEW a \in Resellers
  PROVE  /\ ~Mover(head[a]) /\ (head[a] # Nobody => Mover(a) /\ head[a] \in Resellers)
         /\ \A b \in Resellers : ~Mover(b) => head[b] = Nobody
  <1>1. \A b \in Resellers : head[b] \in MayBeUnder[b] \cup {Nobody} /\ MayBeUnder[b] \subseteq Resellers
    BY DEF StoreTyped, SummariesAssumption
  <1>2. Nobody \notin Resellers
    BY DEF SummariesAssumption
  <1>3. QED
    BY <1>1, <1>2 DEF Mover, OnlyLeavesMove

LEMMA DetachBegins ==
  ASSUME SummariesAssumption, SummariesInit
  PROVE  DetachInv
  <1>1. /\ client.total = 1 /\ entries = <<>> /\ exempt = Nobody /\ topup = NoTopUp /\ lastHead = head
        /\ head \in [Resellers -> Resellers \cup {Nobody}]
        /\ \A a \in Resellers : head[a] \in MayBeUnder[a] \cup {Nobody}
    BY DEF SummariesInit
  <1>2. \A a \in Resellers : ~Mover(a) => lastHead[a] = Nobody
    BY <1>1 DEF Mover
  <1>3. QED
    BY <1>1, <1>2, LastingNone DEF DetachInv

\* Steps that leave the rows, the parents and the comment as they are.
LEMMA DetachRests ==
  ASSUME DetachInv, client'.comment = client.comment, client'.total > 0,
         UNCHANGED <<entries, exempt, tree>>, topup' = topup \/ topup' = NoTopUp
  PROVE  DetachInv'
  BY DEF DetachInv, Lasting, tree, NoTopUp

LEMMA TopUpDetaches ==
  ASSUME SummariesAssumption, SummariesInv, OnlyLeavesMove, DetachInv, OwnTopUps,
         NEW a \in Resellers, NEW gift \in BOOLEAN, TopUp(a, gift)
  PROVE  DetachInv'
  <1>1. ~gift /\ (Mover(a) => client.comment = a)
    BY DEF OwnTopUps
  <1>2. client'.comment = client.comment /\ client'.total > 0 /\ UNCHANGED <<entries, exempt, tree>>
    <2>1. client.total \in Nat /\ client \in ClientRows
      BY DEF SummariesInv, StoreTyped, ClientRows, SummariesAssumption
    <2>2. /\ client' = [client EXCEPT !.total = client.total + 1,
                                      !.comment = IF gift THEN a ELSE client.comment,
                                      !.tag = IF gift THEN "moaf" ELSE client.tag]
          /\ UNCHANGED <<entries, caps, lists, tree, report>>
      BY DEF TopUp
    <2>3. client'.comment = client.comment
      BY <1>1, <2>1, <2>2 DEF ClientRows
    <2>4. client'.total = client.total + 1
      BY <1>1, <2>1, <2>2 DEF ClientRows
    <2>5. client'.total > 0
      BY <2>1, <2>4
    <2>6. UNCHANGED <<entries, exempt, tree>>
      BY <2>2 DEF lists
    <2>7. QED
      BY <2>3, <2>5, <2>6
  <1> DEFINE named == CHOOSE x \in Resellers \cup {RootAdmin, Nobody} :
                         x = IF entries # <<>> THEN entries[1].owner ELSE IF owner # Nobody THEN owner ELSE client.comment
             owed == entries # <<>> \/ head[a] # Nobody \/ lastHead[a] # Nobody
  <1>3. topup' = [actor |-> a, gift |-> gift, from |-> client.total, known |-> entries # <<>>, under |-> head[a],
                  owner |-> IF owed THEN named ELSE Nobody, moaf |-> client.tag = "moaf"]
    BY DEF TopUp
  <1> HIDE DEF named
  <1>4. ~Mover(topup'.under)
    BY <1>3, ParentsStay DEF SummariesInv
  <1>5. ASSUME ~topup'.known, topup'.under = Nobody PROVE topup'.owner = Nobody
    <2>1. entries = <<>> /\ head[a] = Nobody
      BY <1>3, <1>5
    <2>2. lastHead[a] = Nobody
      BY <1>1, <2>1 DEF DetachInv
    <2>3. QED
      BY <1>3, <2>1, <2>2
  <1>6. topup'.gift = gift
    BY <1>3
  <1>7. QED
    BY <1>1, <1>2, <1>4, <1>5, <1>6 DEF DetachInv, Lasting, tree

LEMMA EnterTopUpDetaches ==
  ASSUME SummariesAssumption, SummariesInv, DetachInv, EnterTopUp
  PROVE  DetachInv'
  <1>1. CASE topup.owner = Nobody
    BY <1>1, DetachRests DEF EnterTopUp, DetachInv, tree
  <1>2. CASE topup.owner # Nobody
    <2>1. /\ entries' = entries \o InitialRow(topup) \o AddedRow(topup) /\ exempt' = exempt
          /\ topup' = NoTopUp /\ UNCHANGED <<client, tree>>
      BY <1>2 DEF EnterTopUp, DetachInv
    <2>2. ~topup.gift /\ ~Mover(topup.under) /\ (topup.known \/ topup.under # Nobody)
      BY <1>2 DEF EnterTopUp, DetachInv
    <2>3. Kept(entries) /\ Kept(InitialRow(topup)) /\ Kept(AddedRow(topup))
      BY <1>2, TopUpEnters DEF EnterTopUp, SummariesInv, StoreTyped
    <2>4. Lasting(InitialRow(topup)) /\ Lasting(AddedRow(topup))
      BY <2>2, LastingRow, LastingNone DEF InitialRow, AddedRow
    <2>5. Kept(entries \o InitialRow(topup)) /\ Lasting(entries \o InitialRow(topup))
      BY <2>3, <2>4, KeptTogether, LastingTogether DEF DetachInv
    <2>6. Lasting(entries')
      BY <2>1, <2>3, <2>4, <2>5, LastingTogether
    <2>7. entries # <<>> => entries' # <<>>
      <3>1. entries \in Seq(Segments) /\ InitialRow(topup) \in Seq(Segments) /\ AddedRow(topup) \in Seq(Segments)
        BY <2>3 DEF Kept
      <3>2. QED
        BY <2>1, <3>1
    <2>8. Lasting(entries)'
      BY <2>6 DEF Lasting
    <2>9. QED
      BY <2>1, <2>7, <2>8 DEF DetachInv, tree
  <1>3. QED
    BY <1>1, <1>2

LEMMA MoveDetaches ==
  ASSUME SummariesAssumption, SummariesInv, OnlyLeavesMove, DetachInv,
         NEW a \in Resellers, NEW new \in MayBeUnder[a] \cup {Nobody}, MoveReseller(a, new)
  PROVE  DetachInv'
  <1>1. /\ new # head[a] /\ entries' = entries \o Snapshot(a) /\ head' = [head EXCEPT ![a] = new]
        /\ lastHead' = [lastHead EXCEPT ![a] = IF head[a] # Nobody THEN head[a] ELSE new]
        /\ UNCHANGED <<client, exempt, topup>>
    BY DEF MoveReseller, lists
  <1>2. /\ head \in [Resellers -> Resellers \cup {Nobody}] /\ Kept(entries)
        /\ client \in ClientRows
    BY DEF SummariesInv, StoreTyped
  <1>3. Mover(a)
    <2>1. head[a] \in MayBeUnder[a] \cup {Nobody}
      BY DEF SummariesInv, StoreTyped
    <2>2. QED
      BY <1>1, <2>1 DEF Mover
  <1>4. \A c \in Resellers : c # a => head'[c] = head[c] /\ lastHead'[c] = lastHead[c]
    BY <1>1, <1>2 DEF DetachInv
  <1>5. lastHead' = [c \in Resellers |-> lastHead'[c]]
    BY <1>1 DEF DetachInv
  <1>6. head'[a] = new
    BY <1>1, <1>2
  <1>7. Kept(Snapshot(a)) /\ Lasting(Snapshot(a))
    <2>1. CASE Snapshot(a) = <<>>
      BY <2>1, KeptNone, LastingNone
    <2>2. CASE Snapshot(a) # <<>>
      <3>1. /\ head[a] # Nobody /\ client.total # 0
            /\ Snapshot(a) = <<[owner |-> head[a], from |-> 0, to |-> client.total, bill |-> TRUE, detach |-> TRUE]>>
        BY <2>2 DEF Snapshot
      <3>2. client.total \in Nat /\ head[a] \in Owners /\ ~Mover(head[a])
        BY <1>2, <3>1, ParentsStay DEF ClientRows, SummariesAssumption, Owners, SummariesInv
      <3>3. Kept(Snapshot(a))
        <4>1. 0 \in Nat /\ 0 < client.total /\ TRUE \in BOOLEAN
          BY <3>1, <3>2
        <4>2. Kept(<<[owner |-> head[a], from |-> 0, to |-> client.total, bill |-> TRUE, detach |-> TRUE]>>)
          BY <3>2, <4>1, KeptOne
        <4>3. QED
          BY <3>1, <4>2
      <3>4. Lasting(Snapshot(a))
        BY <3>1, <3>2 DEF Lasting
      <3>5. QED
        BY <3>3, <3>4
    <2>3. QED
      BY <2>1, <2>2
  <1>8. Lasting(entries')
    BY <1>1, <1>2, <1>7, LastingTogether DEF DetachInv
  <1>9. entries # <<>> => entries' # <<>>
    <2>1. entries \in Seq(Segments) /\ Snapshot(a) \in Seq(Segments)
      BY <1>2, <1>7 DEF Kept
    <2>2. QED
      BY <1>1, <2>1
  <1>10. ASSUME NEW c \in Resellers, client.comment = c, head'[c] = Nobody, lastHead'[c] # Nobody, entries = <<>>
         PROVE  entries' # <<>>
    <2>1. CASE c # a
      BY <1>4, <1>10, <2>1 DEF DetachInv
    <2>2. CASE c = a
      <3>1. head[a] # Nobody /\ client.comment = a /\ client.total # 0
        BY <1>1, <1>6, <1>10, <2>2 DEF DetachInv
      <3>2. Snapshot(a) # <<>>
        BY <1>10, <3>1 DEF Snapshot
      <3>3. Snapshot(a) \in Seq(Segments)
        BY <1>7 DEF Kept
      <3>4. QED
        BY <1>1, <1>10, <3>2, <3>3
    <2>3. QED
      BY <2>1, <2>2
  <1>11. \A c \in Resellers : ~Mover(c) => lastHead'[c] = Nobody
    BY <1>3, <1>4 DEF DetachInv
  <1>12. Lasting(entries)'
    BY <1>8 DEF Lasting
  <1>13. QED
    BY <1>1, <1>5, <1>9, <1>10, <1>11, <1>12 DEF DetachInv

\* Whatever happens, traffic stays billed to those who stay, and who has left leaves a segment.
LEMMA DetachStays ==
  ASSUME SummariesAssumption, SummariesInv, OnlyLeavesMove, DetachInv, OwnTopUps, SummariesNext
  PROVE  DetachInv'
  <1>0. client \in ClientRows /\ client.total > 0
    BY DEF SummariesInv, StoreTyped, DetachInv
  <1>1. ASSUME UseTraffic PROVE DetachInv'
    BY <1>0, <1>1, DetachRests DEF UseTraffic, OnlyClient, lists, ClientRows
  <1>2. ASSUME ClearUsage PROVE DetachInv'
    BY <1>0, <1>2, DetachRests DEF ClearUsage, OnlyClient, lists, ClientRows
  <1>3. ASSUME NEW n \in 1..MaxTotal, SetClientTotal(n) PROVE DetachInv'
    <2>1. client'.total = n /\ n > 0 /\ client'.comment = client.comment
      BY <1>0, <1>3 DEF SetClientTotal, ClientRows, SummariesAssumption
    <2>2. QED
      BY <1>3, <2>1, DetachRests DEF SetClientTotal, OnlyClient, lists
  <1>4. ASSUME NEW tag \in Tags, TagByHand(tag) PROVE DetachInv'
    BY <1>0, <1>4, DetachRests DEF TagByHand, OnlyClient, lists, ClientRows
  <1>5. ASSUME DropTopUp PROVE DetachInv'
    BY <1>0, <1>5, DetachRests DEF DropTopUp, lists
  <1>6. ASSUME NEW a \in Resellers, ToggleInbound(a) \/ HideClient(a) PROVE DetachInv'
    BY <1>0, <1>6, DetachRests DEF ToggleInbound, HideClient
  <1>7. ASSUME NEW r, NEW got, Gathers(r, got) PROVE DetachInv'
    BY <1>0, <1>7, DetachRests DEF Gathers, lists
  <1>8. ASSUME NEW r \in scene.reports, InsertCap(r) PROVE DetachInv'
    BY <1>0, <1>8, DetachRests DEF InsertCap, lists
  <1>9. ASSUME NEW r \in scene.reports, NEW a \in Resellers, Begin(r, a) PROVE DetachInv'
    BY <1>7, <1>9 DEF Begin
  <1>10. ASSUME NEW r \in scene.reports,
                \/ Climb(r) \/ ReadExemptions(r) \/ ReadSegments(r) \/ ReadCaps(r) \/ ReadPanel(r)
                \/ ReadCap(r) \/ Shown(r)
         PROVE  DetachInv'
    BY <1>7, <1>10 DEF Climb, ReadExemptions, ReadSegments, ReadCaps, ReadPanel, ReadCap, Shown
  <1>11. ASSUME NEW a \in Resellers, NEW gift \in BOOLEAN, TopUp(a, gift) PROVE DetachInv'
    BY <1>11, TopUpDetaches
  <1>12. ASSUME EnterTopUp PROVE DetachInv'
    BY <1>12, EnterTopUpDetaches
  <1>13. ASSUME NEW a \in Resellers, NEW new \in MayBeUnder[a] \cup {Nobody}, MoveReseller(a, new) PROVE DetachInv'
    BY <1>13, MoveDetaches
  <1>14. QED
    BY <1>1, <1>2, <1>3, <1>4, <1>5, <1>6, <1>8, <1>9, <1>10, <1>11, <1>12, <1>13 DEF SummariesNext

\* The summary of an admin over rows and parents of any time.
LedgerUnder(h, segs, a) ==
    Ledger(ScopeUnder(h, a), \E b \in shut : b \in AboveUnder(h, a), \E b \in hidden : b \in AboveUnder(h, a),
           exempt, segs, caps, client)

LEMMA LedgerIsNat ==
  ASSUME SummariesAssumption, SummariesInv, NEW h, NEW segs, Kept(segs), NEW a \in Resellers
  PROVE  LedgerUnder(h, segs, a).consumed \in Nat
  <1>1. ScopeUnder(h, a) \subseteq Resellers
    BY ScopeIncludes
  <1>2. client \in ClientRows /\ caps \in Caps
    BY DEF SummariesInv, StoreTyped
  <1> DEFINE barred == \E b \in shut : b \in AboveUnder(h, a)
             veiled == \E b \in hidden : b \in AboveUnder(h, a)
  <1>3. OfSegments(segs, ScopeUnder(h, a), client).consumed \in Nat
    BY <1>2, SpentIsNat
  <1>4. OfComment(ScopeUnder(h, a), caps, client).consumed \in Nat
    <2>1. client.used \in Nat
      BY <1>2 DEF ClientRows
    <2>2. QED
      BY <2>1 DEF OfComment, Nothing
  <1>5. Nothing.consumed \in Nat
    BY DEF Nothing
  <1> HIDE DEF barred, veiled
  <1>6. Ledger(ScopeUnder(h, a), barred, veiled, exempt, segs, caps, client).consumed \in Nat
    BY <1>3, <1>4, <1>5 DEF Ledger
  <1>7. QED
    BY <1>6 DEF LedgerUnder, barred, veiled

\* What the parent that is left is billed for does not shrink.
LEMMA LeavingKeepsUsage ==
  ASSUME SummariesAssumption, SummariesInv, OnlyLeavesMove, DetachInv, NEW a \in Resellers, NEW b \in Resellers,
         NEW new \in MayBeUnder[a] \cup {Nobody}, MoveReseller(a, new), head[a] = b, client.used <= client.total
  PROVE  LedgerOf(b)'.consumed >= LedgerOf(b).consumed
  <1> DEFINE S == ScopeUnder(head, b)
             T == ScopeUnder(head', b)
  <1>1. /\ entries' = entries \o Snapshot(a) /\ head' = [head EXCEPT ![a] = new]
        /\ UNCHANGED <<client, caps, exempt, shut, hidden>>
    BY DEF MoveReseller, lists
  <1>2. /\ head \in [Resellers -> Resellers \cup {Nobody}] /\ Kept(entries) /\ Kept(entries')
        /\ client \in ClientRows
    <2>1. StoreTyped'
      BY StoreStaysTyped DEF SummariesNext
    <2>2. QED
      BY <2>1 DEF SummariesInv, StoreTyped, Kept
  <1>3. Nobody \notin Resellers
    BY DEF SummariesAssumption
  <1>4. Mover(a) /\ ~Mover(b) /\ head[b] = Nobody /\ a # b
    BY <1>3, ParentsStay DEF SummariesInv
  <1>5. head'[b] = Nobody
    BY <1>1, <1>2, <1>4
  <1>6. AboveUnder(head, b) = {b} /\ AboveUnder(head', b) = {b}
    BY <1>4, <1>5, NobodyAbove
  <1>7. T \subseteq S /\ S \ {a} \subseteq T
    <2>1. ASSUME NEW c \in Resellers PROVE Creator[c] # a /\ head[c] # a /\ (c # a => head[c] = head'[c])
      <3>1. a \notin MayBeUnder[c] /\ Creator[c] # a
        BY <1>4 DEF OnlyLeavesMove
      <3>2. head[c] \in MayBeUnder[c] \cup {Nobody}
        BY DEF SummariesInv, StoreTyped
      <3>3. QED
        BY <1>1, <1>2, <1>3, <3>1, <3>2
    <2>2. QED
      BY <2>1, ScopeOfLeft
  <1>8. b \in T /\ S \subseteq Resellers
    BY ScopeIncludes
  <1>9. LedgerOf(b) = LedgerUnder(head, entries, b)
    BY DEF LedgerOf, LedgerUnder, Scope, Above, ScopeUnder, AboveUnder
  <1>10. LedgerOf(b)' = LedgerUnder(head', entries', b)
    BY <1>1 DEF LedgerOf, LedgerUnder, Scope, Above, ScopeUnder, AboveUnder
  <1> DEFINE old == LedgerUnder(head, entries, b)
             later == LedgerUnder(head', entries', b)
             barred == \E c \in shut : c \in {b}
             veiled == \E c \in hidden : c \in {b}
  <1>11. old.consumed \in Nat /\ later.consumed \in Nat
    BY <1>2, LedgerIsNat
  <1>12. /\ old = Ledger(S, barred, veiled, exempt, entries, caps, client)
         /\ later = Ledger(T, barred, veiled, exempt, entries', caps, client)
    BY <1>6 DEF LedgerUnder
  <1> HIDE DEF S, T, old, later, barred, veiled
  <1>13. CASE barred \/ OutOfScope(S, veiled, exempt, client)
    <2>1. old.consumed = 0
      BY <1>12, <1>13 DEF Ledger, Nothing
    <2>2. QED
      BY <1>9, <1>10, <1>11, <2>1 DEF old, later
  <1>14. CASE ~barred /\ ~OutOfScope(S, veiled, exempt, client)
    <2>1. ~OutOfScope(T, veiled, exempt, client)
      BY <1>7, <1>14 DEF OutOfScope
    <2>2. CASE entries # <<>>
      <3>1. entries' = entries
        <4>1. Snapshot(a) = <<>>
          BY <2>2 DEF Snapshot
        <4>2. QED
          BY <1>1, <1>2, <4>1 DEF Kept
      <3>2. Billed(entries, T, client) = Billed(entries, S, client)
        <4>1. \A i \in DOMAIN entries : entries[i].bill => entries[i].owner # a
          BY <1>4 DEF DetachInv, Lasting
        <4>2. QED
          BY <1>7, <4>1 DEF Billed
      <3>3. OfSegments(entries, T, client).consumed = OfSegments(entries, S, client).consumed
        BY <3>2 DEF OfSegments
      <3>4. old = OfSegments(entries, S, client) /\ later = OfSegments(entries, T, client)
        BY <1>12, <1>14, <2>1, <2>2, <3>1 DEF Ledger
      <3>5. QED
        BY <1>9, <1>10, <1>11, <3>3, <3>4 DEF old, later
    <2>3. CASE entries = <<>>
      <3>1. old = OfComment(S, caps, client)
        BY <1>12, <1>14, <2>3 DEF Ledger
      <3>2. CASE client.comment \notin S
        <4>1. old.consumed = 0
          BY <3>1, <3>2 DEF OfComment, Nothing
        <4>2. QED
          BY <1>9, <1>10, <1>11, <4>1 DEF old, later
      <3>3. CASE client.comment \in S /\ client.comment # a
        <4>1. entries' = <<>>
          BY <1>1, <2>3, <3>3 DEF Snapshot
        <4>2. client.comment \in T
          BY <1>7, <3>3
        <4>3. later = OfComment(T, caps, client)
          BY <1>12, <1>14, <2>1, <4>1 DEF Ledger
        <4>4. old.consumed = client.used /\ later.consumed = client.used
          BY <3>1, <3>3, <4>2, <4>3 DEF OfComment
        <4>5. QED
          BY <1>9, <1>10, <1>11, <4>4 DEF old, later
      <3>4. CASE client.comment \in S /\ client.comment = a
        <4> DEFINE snapshot == <<[owner |-> b, from |-> 0, to |-> client.total, bill |-> TRUE, detach |-> TRUE]>>
        <4>0. client.total \in Nat /\ client.total > 0
          BY <1>2 DEF ClientRows, SummariesAssumption, DetachInv
        <4>1. Snapshot(a) = snapshot
          <5>1. /\ head[a] = b /\ head[a] # Nobody /\ entries = <<>> /\ client.comment = a
                /\ client.total # 0
            BY <1>3, <2>3, <3>4, <4>0
          <5>2. Snapshot(a) = <<[owner |-> head[a], from |-> 0, to |-> client.total, bill |-> TRUE, detach |-> TRUE]>>
            BY <5>1 DEF Snapshot
          <5>3. QED
            BY <5>1, <5>2
        <4>2. entries' = snapshot
          BY <1>1, <2>3, <4>1
        <4>3. snapshot # <<>> /\ OfSegments(snapshot, T, client).consumed = client.used
          BY <1>2, <1>8, <4>0, SpentOfOne
        <4> HIDE DEF snapshot
        <4>4. later = OfSegments(snapshot, T, client)
          BY <1>12, <1>14, <2>1, <4>2, <4>3 DEF Ledger
        <4>5. old.consumed = client.used
          BY <3>1, <3>4 DEF OfComment
        <4>6. QED
          BY <1>9, <1>10, <1>11, <4>3, <4>4, <4>5 DEF old, later
      <3>5. QED
        BY <3>2, <3>3, <3>4
    <2>4. QED
      BY <2>2, <2>3
  <1>15. QED
    BY <1>13, <1>14

\* Only a move changes the parents.
LEMMA OnlyMovesMove ==
  ASSUME SummariesNext, head' # head
  PROVE  \E a \in Resellers : \E new \in MayBeUnder[a] \cup {Nobody} : MoveReseller(a, new)
  BY DEF SummariesNext, UseTraffic, ClearUsage, EnterTopUp, DropTopUp, SetClientTotal, TagByHand, TopUp,
         ToggleInbound, HideClient, Begin, Climb, ReadExemptions, ReadSegments, ReadCaps, ReadPanel, InsertCap,
         ReadCap, Shown, Gathers, OnlyClient, Operates, tree, lists

\* change_delegated_admin_parent keeps a segment of what the clients of the admin that leaves had
\* used.  Where nobody is below whoever may leave, nothing is given away, and whoever may leave
\* tops up its own clients only, the parent that is left is billed for no less than before,
\* however often an admin has changed its parent.
THEOREM DetachesKeepUsage ==
  OnlyLeavesMove => (SummariesSpec /\ [][OwnTopUps]_summaryVars => DetachKeepsUsage)
  <1> SUFFICES ASSUME OnlyLeavesMove
               PROVE  SummariesSpec /\ [][OwnTopUps]_summaryVars => DetachKeepsUsage
    OBVIOUS
  <1> DEFINE Kind == \A a, b \in Resellers : head[a] = b /\ head'[a] # b /\ client.used <= client.total
                       => LedgerOf(b)'.consumed >= LedgerOf(b).consumed
  <1>1. SummariesInit => DetachInv
    BY DetachBegins, SummariesAssumption
  <1>2. SummariesInv /\ DetachInv /\ [SummariesNext]_summaryVars /\ [OwnTopUps]_summaryVars => DetachInv'
    <2> SUFFICES ASSUME SummariesInv, DetachInv, [SummariesNext]_summaryVars, [OwnTopUps]_summaryVars PROVE DetachInv'
      OBVIOUS
    <2>1. CASE UNCHANGED summaryVars
      BY <2>1, DetachRests DEF summaryVars, lists, tree, DetachInv
    <2>2. CASE SummariesNext /\ OwnTopUps
      BY <2>2, DetachStays, SummariesAssumption
    <2>3. QED
      BY <2>1, <2>2
  <1>3. SummariesInv /\ DetachInv /\ [SummariesNext]_summaryVars => [Kind]_summaryVars
    <2> SUFFICES ASSUME SummariesInv, DetachInv, [SummariesNext]_summaryVars, ~UNCHANGED summaryVars,
                        NEW a \in Resellers, NEW b \in Resellers, head[a] = b, head'[a] # b, client.used <= client.total
                 PROVE  LedgerOf(b)'.consumed >= LedgerOf(b).consumed
      OBVIOUS
    <2>1. PICK x \in Resellers : \E new \in MayBeUnder[x] \cup {Nobody} : MoveReseller(x, new)
      BY OnlyMovesMove
    <2>2. PICK new \in MayBeUnder[x] \cup {Nobody} : MoveReseller(x, new)
      BY <2>1
    <2>3. x = a
      BY <2>2 DEF MoveReseller, SummariesInv, StoreTyped
    <2>4. QED
      BY <2>2, <2>3, LeavingKeepsUsage, SummariesAssumption
  <1>4. QED
    BY <1>1, <1>2, <1>3, SummariesInvariant, PTL DEF SummariesSpec, DetachKeepsUsage
===============================================================================
