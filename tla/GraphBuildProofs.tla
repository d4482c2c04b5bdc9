---------------------------- MODULE GraphBuildProofs ----------------------------
(***************************************************************************)
(* For any names, weights and bounds: whatever chain of tables, adopted    *)
(* arrays, prepared indexes and selections a graph came from, its rows are *)
(* sorted and inside the bounds, its incoming rows are the transpose of    *)
(* the outgoing ones, every slot keeps the table row of its edge, a        *)
(* selection materializes into the rows its view shows, and from_tables    *)
(* accepts exactly the simple tables.                                      *)
(***************************************************************************)
EXTENDS MCGraphBuild, FiniteSetTheorems, WellFoundedInduction, TLAPS

\* Numbers have a least one.
LEMMA LeastExists ==
  ASSUME NEW T, T \subseteq Nat, T # {}
  PROVE  \E m \in T : \A k \in T : m <= k
<1> DEFINE R == OpToRel(<, Nat)
<1>1. IsWellFoundedOn(R, Nat)
  BY NatLessThanWellFounded, Zenon
<1>2. PICK m \in T : \A k \in T : ~(<<k, m>> \in R)
  <2> HIDE DEF R
  <2> QED BY <1>1, WFMin
<1>3. \A k, j \in Nat : k < j => <<k, j>> \in R
  BY SMT DEF OpToRel
<1>4. \A k \in T : ~(k < m)
  <2> HIDE DEF R
  <2> QED BY <1>2, <1>3, Zenon
<1> HIDE DEF R
<1>5. ASSUME NEW k \in T PROVE m <= k
  <2>1. ~(k < m) /\ k \in Nat /\ m \in Nat
    BY <1>4
  <2> QED BY <2>1, SMT
<1> QED BY <1>5

\* Induction over the numbers, as a fact about sets.
LEMMA Induction ==
  ASSUME NEW T, 0 \in T, \A n \in Nat : n \in T => n + 1 \in T
  PROVE  Nat \subseteq T
<1> SUFFICES ASSUME Nat \ T # {} PROVE FALSE
  OBVIOUS
<1>1. PICK m \in Nat \ T : \A k \in Nat \ T : m <= k
  BY LeastExists
<1>2. m # 0 /\ m - 1 \in Nat
  OBVIOUS
<1>3. m - 1 \in T
  BY <1>1, <1>2
<1> QED BY <1>2, <1>3

\* Bounded sets of numbers have a greatest one.
LEMMA GreatestExists ==
  ASSUME NEW m \in Nat, NEW T, T \subseteq Nat, T # {}, \A k \in T : k <= m
  PROVE  \E a \in T : \A k \in T : k <= a
<1> DEFINE D == {m - k : k \in T}
<1>0. \A k \in T : k \in Nat /\ k <= m
  OBVIOUS
<1>1. D \subseteq Nat /\ D # {}
  <2>1. \A k \in T : m - k \in Nat
    BY <1>0
  <2> QED BY <2>1
<1>2. PICK d \in D : \A k \in D : d <= k
  <2> HIDE DEF D
  <2> QED BY <1>1, LeastExists
<1>3. PICK a \in T : d = m - a
  OBVIOUS
<1>4. ASSUME NEW k \in T PROVE k <= a
  <2>1. m - k \in D
    OBVIOUS
  <2>2. d <= m - k
    BY <1>2, <2>1
  <2> QED BY <1>3, <2>2
<1> QED BY <1>4

\* What is closed downwards is an interval.
LEMMA PrefixCount ==
  ASSUME NEW m \in Nat, NEW P \in SUBSET (1 .. m), \A i \in P : \A j \in 1 .. m : j < i => j \in P
  PROVE  Cardinality(P) \in 0 .. m /\ P = 1 .. Cardinality(P)
<1>1. CASE P = {}
  BY <1>1, FS_EmptySet
<1>2. CASE P # {}
  <2>1. PICK a \in P : \A k \in P : k <= a
    <3>1. P \subseteq Nat /\ \A k \in P : k <= m
      OBVIOUS
    <3> QED BY <1>2, <3>1, GreatestExists
  <2>2. P = 1 .. a /\ a \in 1 .. m
    <3>1. a \in 1 .. m
      BY <2>1
    <3>2. \A k \in 1 .. a : k \in P
      BY <2>1, <3>1
    <3>3. \A k \in P : k \in 1 .. a
      BY <2>1, <3>1
    <3> QED BY <3>1, <3>2, <3>3
  <2>3. Cardinality(1 .. a) = a
    BY <2>2, FS_Interval
  <2> QED BY <2>2, <2>3
<1> QED BY <1>1, <1>2

-----------------------------------------------------------------------------
(* Sorting *)

\* Different ranks below the number of elements.
Ranks(rank, S) ==
  /\ rank \in [S -> Nat]
  /\ \A x, y \in S : rank[x] = rank[y] => x = y
  /\ \A x \in S : rank[x] < Cardinality(S)

\* f lists the elements of S at their ranks.
ListsRanks(f, rank, S) ==
  /\ f \in [1 .. Cardinality(S) -> S]
  /\ \A k \in 1 .. Cardinality(S) : rank[f[k]] = k - 1
  /\ \A x \in S : rank[x] + 1 \in 1 .. Cardinality(S) /\ f[rank[x] + 1] = x

\* Sorting by different ranks lists every element once, at its rank.
LEMMA RankBijection ==
  ASSUME NEW S, IsFiniteSet(S), NEW rank, Ranks(rank, S)
  PROVE  Cardinality(S) \in Nat /\ ListsRanks(ByRank(rank), rank, S)
<1> USE DEF Ranks, ListsRanks
<1> DEFINE n == Cardinality(S)
<1>1. n \in Nat
  BY FS_CardinalityType
<1>2. IsFiniteSet(0 .. n - 1) /\ Cardinality(0 .. n - 1) = n
  BY <1>1, FS_Interval
<1>3. rank \in Injection(S, 0 .. n - 1)
  BY <1>1 DEF Injection, IsInjective
<1>4. rank \in Surjection(S, 0 .. n - 1)
  BY <1>1, <1>2, <1>3, FS_Injection
<1>5. \A k \in 1 .. n : \E x \in S : rank[x] = k - 1
  BY <1>1, <1>4 DEF Surjection
<1>6. DOMAIN rank = S
  OBVIOUS
<1>7. \A k \in 1 .. n : ByRank(rank)[k] \in S /\ rank[ByRank(rank)[k]] = k - 1
  BY <1>5, <1>6 DEF ByRank
<1>8. ByRank(rank) \in [1 .. n -> S]
  BY <1>6, <1>7 DEF ByRank
<1>9. \A x \in S : rank[x] + 1 \in 1 .. n /\ ByRank(rank)[rank[x] + 1] = x
  BY <1>1, <1>7
<1> QED BY <1>1, <1>7, <1>8, <1>9

\* R is a strict total order on S.
LEMMA OrderBijection ==
  ASSUME NEW S, IsFiniteSet(S), NEW R,
         \A x \in S : <<x, x>> \notin R,
         \A x, y, z \in S : <<x, y>> \in R /\ <<y, z>> \in R => <<x, z>> \in R,
         \A x, y \in S : x = y \/ <<x, y>> \in R \/ <<y, x>> \in R,
         NEW rank \in [S -> Nat], \A x \in S : rank[x] = Cardinality({y \in S : <<y, x>> \in R})
  PROVE  /\ Cardinality(S) \in Nat
         /\ ByRank(rank) \in [1 .. Cardinality(S) -> S]
         /\ \A x \in S : \E k \in 1 .. Cardinality(S) : ByRank(rank)[k] = x
         /\ \A i, j \in 1 .. Cardinality(S) : i < j => <<ByRank(rank)[i], ByRank(rank)[j]>> \in R
<1> DEFINE Below(x) == {y \in S : <<y, x>> \in R}
<1>1. \A x \in S : IsFiniteSet(Below(x)) /\ Cardinality(Below(x)) \in Nat
  BY FS_Subset, FS_CardinalityType
<1>2. ASSUME NEW x \in S, NEW y \in S, <<x, y>> \in R
      PROVE  Cardinality(Below(x)) < Cardinality(Below(y))
  <2>1. Below(x) \in SUBSET Below(y) /\ x \in Below(y) /\ x \notin Below(x)
    BY <1>2
  <2>2. Cardinality(Below(x)) <= Cardinality(Below(y)) /\ Cardinality(Below(x)) # Cardinality(Below(y))
    <3> HIDE DEF Below
    <3> QED BY <1>1, <2>1, FS_Subset
  <2>3. Cardinality(Below(x)) \in Nat /\ Cardinality(Below(y)) \in Nat
    BY <1>1
  <2> QED BY ONLY <2>2, <2>3
<1>3. \A x \in S : Cardinality(Below(x)) < Cardinality(S)
  <2> TAKE x \in S
  <2>1. Below(x) \in SUBSET S /\ x \notin Below(x)
    OBVIOUS
  <2>2. Cardinality(Below(x)) <= Cardinality(S) /\ Cardinality(Below(x)) # Cardinality(S)
    <3> HIDE DEF Below
    <3> QED BY <2>1, FS_Subset
  <2>3. Cardinality(S) \in Nat
    BY FS_CardinalityType
  <2>4. Cardinality(Below(x)) \in Nat
    BY <1>1
  <2> QED BY ONLY <2>2, <2>3, <2>4
<1>4. rank \in [S -> Nat] /\ \A x \in S : rank[x] = Cardinality(Below(x))
  OBVIOUS
<1> HIDE DEF Below
<1>5. \A x, y \in S : rank[x] = rank[y] => x = y
  <2> TAKE x, y \in S
  <2>1. CASE <<x, y>> \in R BY <1>1, <1>2, <1>4, <2>1
  <2>2. CASE <<y, x>> \in R BY <1>1, <1>2, <1>4, <2>2
  <2> QED BY <2>1, <2>2
<1> DEFINE f == ByRank(rank)
<1>6. /\ Cardinality(S) \in Nat /\ f \in [1 .. Cardinality(S) -> S]
      /\ \A k \in 1 .. Cardinality(S) : rank[f[k]] = k - 1
      /\ \A x \in S : rank[x] + 1 \in 1 .. Cardinality(S) /\ f[rank[x] + 1] = x
  <2>1. \A x \in S : rank[x] < Cardinality(S)
    BY <1>3, <1>4
  <2>2. rank \in [S -> Nat]
    BY <1>4
  <2>3. Ranks(rank, S)
    BY <1>5, <2>1, <2>2 DEF Ranks
  <2>4. Cardinality(S) \in Nat /\ ListsRanks(f, rank, S)
    BY ONLY IsFiniteSet(S), <2>3, RankBijection
  <2> HIDE DEF f
  <2> QED BY <2>4 DEF ListsRanks
<1> HIDE DEF f
<1>7. ASSUME NEW i \in 1 .. Cardinality(S), NEW j \in 1 .. Cardinality(S), i < j
      PROVE  <<f[i], f[j]>> \in R
  <2>1. f[i] \in S /\ f[j] \in S /\ rank[f[i]] = i - 1 /\ rank[f[j]] = j - 1
    BY <1>6
  <2>2. f[i] # f[j]
    <3>1. i - 1 # j - 1
      BY <1>6, <1>7
    <3> QED BY <2>1, <3>1
  <2>3. ~(<<f[j], f[i]>> \in R)
    <3> SUFFICES ASSUME <<f[j], f[i]>> \in R PROVE FALSE
      OBVIOUS
    <3>1. rank[f[j]] < rank[f[i]]
      BY <1>2, <1>4, <2>1
    <3> QED BY <1>6, <1>7, <2>1, <3>1
  <2> QED BY <2>1, <2>2, <2>3
<1>8. \A x \in S : \E k \in 1 .. Cardinality(S) : f[k] = x
  BY <1>6
<1> QED BY <1>6, <1>7, <1>8 DEF f

\* Ascending lists every element of a finite set, in increasing order.
LEMMA AscendingList ==
  ASSUME NEW S \in SUBSET Int, IsFiniteSet(S)
  PROVE  /\ Cardinality(S) \in Nat /\ Ascending(S) \in [1 .. Cardinality(S) -> S]
         /\ Ascending(S) \in Seq(S) /\ Len(Ascending(S)) = Cardinality(S)
         /\ \A x \in S : \E k \in 1 .. Cardinality(S) : Ascending(S)[k] = x
         /\ \A i, j \in 1 .. Cardinality(S) : i < j => Ascending(S)[i] < Ascending(S)[j]
<1> DEFINE R == {p \in S \X S : p[1] < p[2]}
           rank == [x \in S |-> Cardinality({y \in S : <<y, x>> \in R})]
<1>1. \A x, y \in S : <<x, y>> \in R <=> x < y
  OBVIOUS
<1>2. Ascending(S) = ByRank(rank)
  <2>1. \A x \in S : {y \in S : <<y, x>> \in R} = {y \in S : y < x}
    BY <1>1
  <2>2. rank = [x \in S |-> Cardinality({y \in S : y < x})]
    <3> HIDE DEF R
    <3> QED BY <2>1
  <2> HIDE DEF rank
  <2> QED BY <2>2 DEF Ascending
<1> HIDE DEF R
<1>9. rank \in [S -> Nat] /\ \A x \in S : rank[x] = Cardinality({y \in S : <<y, x>> \in R})
  <2>1. \A x \in S : Cardinality({y \in S : <<y, x>> \in R}) \in Nat
    BY FS_Subset, FS_CardinalityType
  <2> QED BY <2>1
<1> HIDE DEF rank
<1>3. /\ \A x \in S : <<x, x>> \notin R
      /\ \A x, y, z \in S : <<x, y>> \in R /\ <<y, z>> \in R => <<x, z>> \in R
      /\ \A x, y \in S : x = y \/ <<x, y>> \in R \/ <<y, x>> \in R
  BY <1>1
<1>4. /\ Cardinality(S) \in Nat
      /\ ByRank(rank) \in [1 .. Cardinality(S) -> S]
      /\ \A x \in S : \E k \in 1 .. Cardinality(S) : ByRank(rank)[k] = x
      /\ \A i, j \in 1 .. Cardinality(S) : i < j => <<ByRank(rank)[i], ByRank(rank)[j]>> \in R
  BY <1>3, <1>9, OrderBijection
<1>5. Ascending(S) \in [1 .. Cardinality(S) -> S]
  BY <1>2, <1>4
<1>6. Ascending(S) \in Seq(S) /\ Len(Ascending(S)) = Cardinality(S)
  BY <1>4, <1>5
<1>7. \A i, j \in 1 .. Cardinality(S) : i < j => Ascending(S)[i] < Ascending(S)[j]
  BY <1>1, <1>2, <1>4, <1>5
<1> QED BY <1>2, <1>4, <1>5, <1>6, <1>7

\* f increases over its m entries; g has every value of f.
Increasing(f, m) == f \in [1 .. m -> Nat] /\ \A i, j \in 1 .. m : i < j => f[i] < f[j]
Covers(g, n, f, m) == \A i \in 1 .. m : \E j \in 1 .. n : g[j] = f[i]

\* Lists in increasing order of the same numbers are the same.
LEMMA OneAscending ==
  ASSUME NEW m \in Nat, NEW n \in Nat, NEW f, NEW g,
         Increasing(f, m), Increasing(g, n), Covers(g, n, f, m), Covers(f, m, g, n)
  PROVE  m = n /\ f = g
<1> USE DEF Increasing, Covers
<1>1. ASSUME NEW k \in Nat, \A i \in 1 .. k - 1 : i \in 1 .. m /\ i \in 1 .. n /\ f[i] = g[i],
             k \in 1 .. m \/ k \in 1 .. n
      PROVE  k \in 1 .. m /\ k \in 1 .. n /\ f[k] = g[k]
  <2>1. CASE k \in 1 .. m
    <3>1. PICK j \in 1 .. n : g[j] = f[k]
      BY <2>1
    <3>2. ~(j < k)
      BY <1>1, <2>1, <3>1
    <3>3. k \in 1 .. n
      BY <2>1, <3>2
    <3>4. PICK i \in 1 .. m : f[i] = g[k]
      BY <3>3
    <3>5. ~(i < k)
      BY <1>1, <3>3, <3>4
    <3>6. f[k] <= f[i] /\ g[k] <= g[j]
      <4>1. k = i \/ k < i
        BY <3>4, <3>5
      <4>2. k = j \/ k < j
        BY <3>1, <3>2
      <4>3. f[k] \in Nat /\ g[k] \in Nat /\ f[i] \in Nat /\ g[j] \in Nat
        BY <2>1, <3>3
      <4>6. k < i => f[k] < f[i]
        BY <2>1, <3>4
      <4>7. k < j => g[k] < g[j]
        BY <3>1, <3>3
      <4>8. k = i => f[k] = f[i]
        OBVIOUS
      <4>9. k = j => g[k] = g[j]
        OBVIOUS
      <4>4. f[k] <= f[i]
        BY ONLY <4>1, <4>3, <4>6, <4>8
      <4>5. g[k] <= g[j]
        BY ONLY <4>2, <4>3, <4>7, <4>9
      <4> QED BY <4>4, <4>5
    <3>7. f[k] \in Nat /\ g[k] \in Nat
      BY <2>1, <3>3
    <3>8. f[k] = g[k]
      BY ONLY <3>1, <3>4, <3>6, <3>7
    <3> QED BY <2>1, <3>3, <3>8
  <2>2. CASE k \in 1 .. n
    <3>1. PICK j \in 1 .. m : f[j] = g[k]
      BY <2>2
    <3>2. ~(j < k)
      BY <1>1, <2>2, <3>1
    <3>3. k \in 1 .. m
      BY <2>2, <3>2
    <3> QED BY <2>1, <3>3
  <2> QED BY <1>1, <2>1, <2>2
<1>2. \A k \in Nat : k \in 1 .. m \/ k \in 1 .. n => k \in 1 .. m /\ k \in 1 .. n /\ f[k] = g[k]
  <2> DEFINE Bad == {k \in Nat : (k \in 1 .. m \/ k \in 1 .. n) /\ ~(k \in 1 .. m /\ k \in 1 .. n /\ f[k] = g[k])}
  <2>1. Bad = {}
    <3> SUFFICES ASSUME Bad # {} PROVE FALSE
      OBVIOUS
    <3>1. PICK k \in Bad : \A j \in Bad : k <= j
      <4>1. Bad \subseteq Nat OBVIOUS
      <4> HIDE DEF Bad
      <4> QED BY <4>1, LeastExists
    <3>4. k \in Nat /\ ~(k \in 1 .. m /\ k \in 1 .. n /\ f[k] = g[k]) /\ (k \in 1 .. m \/ k \in 1 .. n)
      BY <3>1
    <3>2. \A i \in 1 .. k - 1 : i \notin Bad /\ i \in Nat /\ (i \in 1 .. m \/ i \in 1 .. n)
      <4> TAKE i \in 1 .. k - 1
      <4>1. i \in Nat /\ ~(k <= i) /\ (i \in 1 .. m \/ i \in 1 .. n)
        BY <3>4
      <4> HIDE DEF Bad
      <4> QED BY <3>1, <4>1
    <3>3. \A i \in 1 .. k - 1 : i \in 1 .. m /\ i \in 1 .. n /\ f[i] = g[i]
      BY <3>2
    <3> HIDE DEF Bad
    <3> QED BY <1>1, <3>2, <3>3, <3>4
  <2> QED BY <2>1
<1>3. m = n
  BY <1>2
<1> QED BY <1>2, <1>3

\* A list that increases from each entry to the next increases throughout.
LEMMA IncreasingAll ==
  ASSUME NEW m \in Nat, NEW f \in [1 .. m -> Int], \A i \in 1 .. m - 1 : f[i] < f[i + 1]
  PROVE  \A i, j \in 1 .. m : i < j => f[i] < f[j]
<1> SUFFICES ASSUME NEW i \in 1 .. m, NEW j \in 1 .. m, i < j, ~(f[i] < f[j])
             PROVE  FALSE
  OBVIOUS
<1> DEFINE Bad == {k \in 1 .. m : i < k /\ ~(f[i] < f[k])}
<1>1. Bad \subseteq Nat /\ Bad # {}
  <2>1. j \in Bad /\ 1 .. m \subseteq Nat
    OBVIOUS
  <2> QED BY <2>1
<1>2. PICK k \in Bad : \A x \in Bad : k <= x
  <2> HIDE DEF Bad
  <2> QED BY <1>1, LeastExists
<1>3. k - 1 \in 1 .. m /\ k - 1 \notin Bad /\ f[k - 1] < f[k - 1 + 1]
  BY <1>2
<1>4. CASE k - 1 = i
  BY <1>2, <1>3, <1>4
<1>5. CASE k - 1 # i
  <2>1. f[i] < f[k - 1] /\ f[i] \in Int /\ f[k - 1] \in Int /\ f[k] \in Int
    BY <1>2, <1>3, <1>5
  <2> QED BY <1>2, <1>3, <2>1
<1> QED BY <1>4, <1>5

(* Adjacencies *)

Slots(csr) == 0 .. SlotCount(csr) - 1

\* What try_new checks, slot by slot.
CsrOK(csr, n) ==
  /\ csr \in Csrs /\ Len(csr.off) = n + 1
  /\ csr.off[1] = 0 /\ csr.off[n + 1] = Len(csr.to)
  /\ csr.wt # None => Len(csr.wt) = Len(csr.to)
  /\ \A u \in 0 .. n - 1 : csr.off[u + 1] <= csr.off[u + 2] /\ csr.off[u + 2] <= Len(csr.to)
  /\ \A u \in 0 .. n - 1 : \A s \in Row(csr, u) : Target(csr, s) < n
  /\ \A u \in 0 .. n - 1 : \A r, s \in Row(csr, u) : r < s => Target(csr, r) < Target(csr, s)

\* No absent or refused value is a number, a weight column or an adjacency.
LEMMA Sentinels ==
  /\ None \notin Nat /\ None \notin Seq(Weights) /\ None \notin Csrs /\ Invalid \notin Csrs
  /\ Infinite \notin Weights /\ Weights \subseteq Int /\ 1 \in Weights
<1>0. Weights \subseteq Int
  BY BuildAssumption
<1>1. \A s \in Seq(Weights) : s \in Seq(Int)
  <2> TAKE s \in Seq(Weights)
  <2>1. Len(s) \in Nat /\ s \in [1 .. Len(s) -> Weights]
    OBVIOUS
  <2>2. \A i \in 1 .. Len(s) : s[i] \in Int
    BY <1>0, <2>1
  <2> QED BY <2>1, <2>2
<1> QED BY <1>1, BuildAssumption

\* Neighbors lists the targets of the slots of a row, in their order.
LEMMA RowLists ==
  ASSUME NEW n \in Nat, NEW csr \in Csrs, Len(csr.off) = n + 1, NEW u \in 0 .. n - 1,
         csr.off[u + 1] <= csr.off[u + 2], csr.off[u + 2] <= Len(csr.to)
  PROVE  /\ csr.off[u + 1] \in Nat /\ csr.off[u + 2] \in Nat
         /\ Len(Neighbors(csr, u)) = csr.off[u + 2] - csr.off[u + 1]
         /\ Neighbors(csr, u) \in [1 .. csr.off[u + 2] - csr.off[u + 1] -> Nat]
         /\ Neighbors(csr, u) \in Seq(Nat)
         /\ \A i \in 1 .. csr.off[u + 2] - csr.off[u + 1] :
              /\ csr.off[u + 1] + i - 1 \in Row(csr, u)
              /\ Neighbors(csr, u)[i] = Target(csr, csr.off[u + 1] + i - 1)
         /\ \A s \in Row(csr, u) :
              /\ s \in Slots(csr) /\ s - csr.off[u + 1] + 1 \in 1 .. csr.off[u + 2] - csr.off[u + 1]
              /\ Target(csr, s) \in Nat
              /\ Neighbors(csr, u)[s - csr.off[u + 1] + 1] = Target(csr, s)
<1>1. csr.off \in Seq(Nat) /\ csr.to \in Seq(Nat)
  BY DEF Csrs
<1>2. csr.off[u + 1] \in Nat /\ csr.off[u + 2] \in Nat /\ Len(csr.to) \in Nat
  <2>1. u + 1 \in 1 .. n + 1 /\ u + 2 \in 1 .. n + 1
    OBVIOUS
  <2>2. u + 1 \in DOMAIN csr.off /\ u + 2 \in DOMAIN csr.off
    BY <1>1, <2>1
  <2>3. \A s \in Seq(Nat) : Len(s) \in Nat /\ \A i \in DOMAIN s : s[i] \in Nat
    OBVIOUS
  <2> QED BY ONLY <1>1, <2>2, <2>3
<1> DEFINE a == csr.off[u + 1]
           b == csr.off[u + 2]
           row == Neighbors(csr, u)
<1>3. row = SubSeq(csr.to, a + 1, b)
  BY DEF Neighbors
<1>0. a \in Nat /\ b \in Nat /\ a <= b /\ b <= Len(csr.to) /\ csr.to \in [1 .. Len(csr.to) -> Nat]
  <2>1. csr.to \in [1 .. Len(csr.to) -> Nat]
    BY ONLY <1>1
  <2> QED BY <1>2, <2>1
<1>8. Row(csr, u) = a .. b - 1
  BY DEF Row
<1> HIDE DEF a, b, row
<1>4. Len(row) = b - a /\ row \in Seq(Nat) /\ \A i \in 1 .. b - a : row[i] = csr.to[a + i]
  <2>1. row \in Seq(Nat)
    <3>1. \A i \in a + 1 .. b : csr.to[i] \in Nat
      <4>1. \A i \in a + 1 .. b : i \in 1 .. Len(csr.to)
        BY ONLY <1>0, <1>2
      <4> QED BY ONLY <1>0, <4>1
    <3> QED BY <1>0, <1>1, <1>3, <3>1
  <2>2. Len(row) = b - a
    <3>1. ASSUME NEW s \in Seq(Nat), NEW k \in Nat, NEW l \in Nat, k <= l
          PROVE  Len(SubSeq(s, k + 1, l)) = l - k
      BY ONLY <3>1
    <3> QED BY ONLY <1>0, <1>1, <1>3, <3>1
  <2>3. ASSUME NEW i \in 1 .. b - a PROVE row[i] = csr.to[a + i]
    <3>1. i \in 1 .. (b - (a + 1)) + 1 /\ (a + 1) + i - 1 = a + i
      BY <1>0
    <3> QED BY <1>0, <1>1, <1>3, <3>1
  <2> QED BY <2>1, <2>2, <2>3
<1>5. \A i \in 1 .. b - a : a + i - 1 \in Row(csr, u) /\ row[i] = Target(csr, a + i - 1)
  <2> TAKE i \in 1 .. b - a
  <2>1. a + i - 1 \in a .. b - 1 /\ (a + i - 1) + 1 = a + i
    BY <1>0
  <2> QED BY <1>4, <1>8, <2>1 DEF Target
<1>6. \A s \in Row(csr, u) : s \in Slots(csr) /\ s - a + 1 \in 1 .. b - a /\ row[s - a + 1] = Target(csr, s) /\ Target(csr, s) \in Nat
  <2> TAKE s \in Row(csr, u)
  <2>1. s \in a .. b - 1
    BY <1>8
  <2>5. Len(csr.to) \in Nat
    BY <1>2
  <2>2. s - a + 1 \in 1 .. b - a /\ a + (s - a + 1) = s + 1 /\ s \in Nat /\ s + 1 \in 1 .. Len(csr.to)
    BY <1>0, <2>1, <2>5
  <2>3. row[s - a + 1] = csr.to[s + 1]
    <3>1. row[s - a + 1] = csr.to[a + (s - a + 1)]
      BY ONLY <1>4, <2>2
    <3> QED BY ONLY <2>2, <3>1
  <2>4. csr.to[s + 1] \in Nat
    BY <1>0, <2>2
  <2>6. s \in 0 .. Len(csr.to) - 1
    BY <2>2, <2>5
  <2> QED BY <2>2, <2>3, <2>4, <2>6 DEF Target, Slots, SlotCount
<1>7. row \in [1 .. b - a -> Nat]
  BY <1>4
<1> QED BY <1>2, <1>4, <1>5, <1>6, <1>7 DEF a, b, row

\* try_new accepts the arrays that CsrOK describes, unchanged, and no others.
LEMMA CsrAccepted ==
  ASSUME NEW n \in Nat, NEW to \in Seq(Nat), NEW off \in Seq(Nat), NEW wt \in Seq(Weights) \cup {None}
  PROVE  LET csr == [off |-> off, to |-> to, wt |-> wt]
         IN /\ csr \in Csrs /\ csr # Invalid /\ csr # None
            /\ CsrTryNew(n, to, off, wt) # Invalid <=> CsrOK(csr, n)
            /\ CsrOK(csr, n) => CsrTryNew(n, to, off, wt) = csr
<1> DEFINE csr == [off |-> off, to |-> to, wt |-> wt]
           Bounds == \A u \in 0 .. n - 1 : off[u + 1] <= off[u + 2] /\ off[u + 2] <= Len(to)
           Targets == \A u \in 0 .. n - 1 : \A i \in DOMAIN Neighbors(csr, u) : Neighbors(csr, u)[i] < n
           Sorted == \A u \in 0 .. n - 1 : SortedUnique(Neighbors(csr, u))
           Frame == /\ Len(off) = n + 1 /\ off[1] = 0 /\ off[n + 1] = Len(to)
                    /\ wt # None => Len(wt) = Len(to)
<1>1. csr \in Csrs /\ csr.off = off /\ csr.to = to /\ csr.wt = wt
  BY DEF Csrs
<1>2. csr # Invalid /\ csr # None
  BY <1>1, Sentinels
<1>3. wt # None => \A i \in DOMAIN wt : wt[i] # Infinite
  BY Sentinels
<1>4. CsrTryNew(n, to, off, wt) = IF Frame /\ Bounds /\ Targets /\ Sorted THEN csr ELSE Invalid
  <2>1. (Frame /\ Bounds /\ Targets /\ Sorted) <=>
          /\ Len(off) = n + 1
          /\ off[1] = 0 /\ off[n + 1] = Len(to)
          /\ wt # None => Len(wt) = Len(to) /\ \A i \in DOMAIN wt : wt[i] # Infinite
          /\ \A u \in 0 .. n - 1 :
               /\ off[u + 1] <= off[u + 2] /\ off[u + 2] <= Len(to)
               /\ \A i \in DOMAIN Neighbors(csr, u) : Neighbors(csr, u)[i] < n
               /\ SortedUnique(Neighbors(csr, u))
    <3> HIDE DEF csr
    <3> QED BY <1>3, Zenon
  <2> HIDE DEF Frame, Bounds, Targets, Sorted
  <2> QED BY <2>1, Zenon DEF CsrTryNew
<1>5. ASSUME Frame, Bounds
      PROVE  Targets /\ Sorted <=>
               /\ \A u \in 0 .. n - 1 : \A s \in Row(csr, u) : Target(csr, s) < n
               /\ \A u \in 0 .. n - 1 : \A r, s \in Row(csr, u) : r < s => Target(csr, r) < Target(csr, s)
  <2> SUFFICES ASSUME NEW u \in 0 .. n - 1
               PROVE  /\ (\A i \in DOMAIN Neighbors(csr, u) : Neighbors(csr, u)[i] < n) <=>
                           \A s \in Row(csr, u) : Target(csr, s) < n
                      /\ SortedUnique(Neighbors(csr, u)) <=>
                           \A r, s \in Row(csr, u) : r < s => Target(csr, r) < Target(csr, s)
    <3> HIDE DEF csr
    <3> QED OBVIOUS
  <2> DEFINE a == off[u + 1]
             b == off[u + 2]
             row == Neighbors(csr, u)
  <2>1. /\ a \in Nat /\ b \in Nat /\ Len(row) = b - a /\ row \in [1 .. b - a -> Nat]
        /\ \A i \in 1 .. b - a : a + i - 1 \in Row(csr, u) /\ row[i] = Target(csr, a + i - 1)
        /\ \A s \in Row(csr, u) : s - a + 1 \in 1 .. b - a /\ row[s - a + 1] = Target(csr, s)
        /\ a <= b
    <3>1. csr.off[u + 1] <= csr.off[u + 2] /\ csr.off[u + 2] <= Len(csr.to) /\ Len(csr.off) = n + 1
      BY <1>1, <1>5
    <3> HIDE DEF csr
    <3> QED BY <1>1, <3>1, RowLists
  <2>2. Row(csr, u) = a .. b - 1
    BY <1>1 DEF Row
  <2> HIDE DEF a, b, row, csr
  <2>3. DOMAIN row = 1 .. b - a /\ b - a \in Nat
    BY <2>1
  <2>4. (\A i \in DOMAIN row : row[i] < n) <=> \A s \in Row(csr, u) : Target(csr, s) < n
    BY <2>1, <2>3
  <2>5. SortedUnique(row) => \A r, s \in Row(csr, u) : r < s => Target(csr, r) < Target(csr, s)
    <3> SUFFICES ASSUME SortedUnique(row), NEW r \in Row(csr, u), NEW s \in Row(csr, u), r < s
                 PROVE  Target(csr, r) < Target(csr, s)
      OBVIOUS
    <3>1. \A i \in 1 .. (b - a) - 1 : row[i] < row[i + 1]
      BY <2>1 DEF SortedUnique
    <3>2. row \in [1 .. b - a -> Int]
      BY <2>1
    <3>3. \A i, j \in 1 .. b - a : i < j => row[i] < row[j]
      BY <2>3, <3>1, <3>2, IncreasingAll
    <3>4. r - a + 1 < s - a + 1
      BY <2>1, <2>2
    <3> QED BY <2>1, <3>3, <3>4
  <2>6. (\A r, s \in Row(csr, u) : r < s => Target(csr, r) < Target(csr, s)) => SortedUnique(row)
    <3> SUFFICES ASSUME \A r, s \in Row(csr, u) : r < s => Target(csr, r) < Target(csr, s),
                        NEW i \in 1 .. Len(row) - 1
                 PROVE  row[i] < row[i + 1]
      BY DEF SortedUnique
    <3>1. i \in 1 .. b - a /\ i + 1 \in 1 .. b - a /\ a + i - 1 < a + (i + 1) - 1
      BY <2>1
    <3> QED BY <2>1, <3>1
  <2> QED BY <2>4, <2>5, <2>6 DEF row
<1>6. CsrOK(csr, n) <=> Frame /\ Bounds /\ Targets /\ Sorted
  <2>1. CsrOK(csr, n) <=> /\ Frame /\ Bounds
                          /\ \A u \in 0 .. n - 1 : \A s \in Row(csr, u) : Target(csr, s) < n
                          /\ \A u \in 0 .. n - 1 : \A r, s \in Row(csr, u) : r < s => Target(csr, r) < Target(csr, s)
    <3> HIDE DEF csr
    <3> QED BY <1>1, Zenon DEF CsrOK
  <2> HIDE DEF Frame, Bounds, Targets, Sorted, csr
  <2> QED BY <1>5, <2>1
<1> HIDE DEF Frame, Bounds, Targets, Sorted
<1> QED BY <1>1, <1>2, <1>4, <1>6

\* Offsets never fall, over any distance.
LEMMA OffsetsClimb ==
  ASSUME NEW n \in Nat, NEW csr, CsrOK(csr, n), NEW u \in 0 .. n, NEW v \in 0 .. n, u <= v
  PROVE  csr.off[u + 1] \in Nat /\ csr.off[v + 1] \in Nat /\ csr.off[u + 1] <= csr.off[v + 1]
<1>1. csr.off \in [1 .. n + 1 -> Nat] /\ n + 1 \in Nat
  BY DEF CsrOK, Csrs
<1> DEFINE T == {d \in Nat : u + d <= n => csr.off[u + 1] <= csr.off[u + d + 1]}
<1>2. 0 \in T
  BY <1>1
<1>3. ASSUME NEW d \in Nat, d \in T PROVE d + 1 \in T
  <2> SUFFICES ASSUME u + (d + 1) <= n PROVE csr.off[u + 1] <= csr.off[u + (d + 1) + 1]
    OBVIOUS
  <2>1. u + d \in 0 .. n - 1 /\ (u + d) + 2 = u + (d + 1) + 1 /\ u + d <= n
    OBVIOUS
  <2>2. csr.off[(u + d) + 1] <= csr.off[(u + d) + 2]
    BY <2>1 DEF CsrOK
  <2>3. csr.off[u + 1] <= csr.off[u + d + 1]
    BY <1>3, <2>1
  <2>4. u + 1 \in 1 .. n + 1 /\ (u + d) + 1 \in 1 .. n + 1 /\ (u + d) + 2 \in 1 .. n + 1 /\ u + d + 1 = (u + d) + 1
    BY <2>1
  <2>5. csr.off[u + 1] \in Nat /\ csr.off[(u + d) + 1] \in Nat /\ csr.off[(u + d) + 2] \in Nat
    BY <1>1, <2>4
  <2> QED BY <2>1, <2>2, <2>3, <2>4, <2>5
<1>4. Nat \subseteq T
  <2> HIDE DEF T
  <2> QED BY <1>2, <1>3, Induction
<1>5. v - u \in T /\ u + (v - u) = v
  BY <1>4
<1>6. csr.off[u + 1] <= csr.off[v + 1]
  BY <1>5
<1>7. u + 1 \in 1 .. n + 1 /\ v + 1 \in 1 .. n + 1
  OBVIOUS
<1> QED BY <1>1, <1>6, <1>7

\* Every slot is in a row.
LEMMA RowExists ==
  ASSUME NEW n \in Nat, NEW csr, CsrOK(csr, n), NEW s \in Slots(csr)
  PROVE  \E u \in 0 .. n - 1 : s \in Row(csr, u)
<1>1. csr.off \in [1 .. n + 1 -> Nat] /\ n + 1 \in Nat /\ csr.off[1] = 0 /\ csr.off[n + 1] = Len(csr.to) /\ Len(csr.to) \in Nat
  BY DEF CsrOK, Csrs
<1>2. s \in 0 .. Len(csr.to) - 1
  BY DEF Slots, SlotCount
<1> DEFINE T == {u \in 0 .. n : s < csr.off[u + 1]}
<1>3. T \subseteq Nat /\ n \in T
  BY <1>1, <1>2
<1>4. PICK u \in T : \A v \in T : u <= v
  <2> HIDE DEF T
  <2> QED BY <1>3, LeastExists
<1>5. u # 0 /\ u \in 0 .. n /\ s < csr.off[u + 1]
  BY <1>1, <1>2, <1>4
<1>6. u - 1 \in 0 .. n - 1 /\ u - 1 \in 0 .. n /\ ~(u <= u - 1)
  BY <1>5
<1>7. u - 1 \notin T
  <2> HIDE DEF T
  <2> QED BY <1>4, <1>6
<1>8. ~(s < csr.off[u - 1 + 1]) /\ csr.off[u - 1 + 1] \in Nat /\ csr.off[u - 1 + 2] \in Nat /\ u - 1 + 2 = u + 1
  BY <1>1, <1>6, <1>7
<1>9. s \in Row(csr, u - 1)
  BY <1>2, <1>5, <1>8 DEF Row
<1> QED BY <1>6, <1>9

\* The slots of a row come before those of a later row.
LEMMA RowsFollow ==
  ASSUME NEW n \in Nat, NEW csr, CsrOK(csr, n),
         NEW u \in 0 .. n - 1, NEW v \in 0 .. n - 1, u < v, NEW r \in Row(csr, u), NEW s \in Row(csr, v)
  PROVE  r < s
<1>1. u + 1 \in 0 .. n /\ v \in 0 .. n /\ u + 1 <= v /\ (u + 1) + 1 = u + 2
  OBVIOUS
<1>2. csr.off[(u + 1) + 1] \in Nat /\ csr.off[v + 1] \in Nat /\ csr.off[(u + 1) + 1] <= csr.off[v + 1]
  BY <1>1, OffsetsClimb
<1>3. r < csr.off[u + 2] /\ csr.off[v + 1] <= s /\ r \in Int /\ s \in Int
  <2>1. Row(csr, u) = csr.off[u + 1] .. csr.off[u + 2] - 1 /\ Row(csr, v) = csr.off[v + 1] .. csr.off[v + 2] - 1
    BY DEF Row
  <2>2. csr.off \in [1 .. n + 1 -> Nat] /\ n + 1 \in Nat
    <3>1. csr.off \in Seq(Nat) /\ Len(csr.off) = n + 1
      BY DEF CsrOK, Csrs
    <3> QED BY <3>1
  <2>4. u + 1 \in 1 .. n + 1 /\ u + 2 \in 1 .. n + 1 /\ v + 1 \in 1 .. n + 1 /\ v + 2 \in 1 .. n + 1
    OBVIOUS
  <2>3. csr.off[u + 1] \in Nat /\ csr.off[u + 2] \in Nat /\ csr.off[v + 1] \in Nat /\ csr.off[v + 2] \in Nat
    BY <2>2, <2>4
  <2>5. r \in csr.off[u + 1] .. csr.off[u + 2] - 1 /\ s \in csr.off[v + 1] .. csr.off[v + 2] - 1
    BY <2>1
  <2> QED BY ONLY <2>3, <2>5
<1> QED BY <1>1, <1>2, <1>3

\* A slot is the slot of one row, and of a row every target has one slot.
LEMMA SlotEnds ==
  ASSUME NEW n \in Nat, NEW csr, CsrOK(csr, n)
  PROVE  /\ NodeCount(csr) = n /\ SlotCount(csr) \in Nat /\ csr \in Csrs
         /\ \A u \in 0 .. n - 1 : Row(csr, u) \subseteq Slots(csr)
         /\ \A s \in Slots(csr) : /\ SourceOf(csr, s) \in 0 .. n - 1 /\ s \in Row(csr, SourceOf(csr, s))
                                  /\ Target(csr, s) \in 0 .. n - 1
         /\ \A u \in 0 .. n - 1 : \A s \in Row(csr, u) : SourceOf(csr, s) = u
         /\ \A r, s \in Slots(csr) :
              /\ SourceOf(csr, r) = SourceOf(csr, s) /\ Target(csr, r) = Target(csr, s) => r = s
              /\ r < s => \/ SourceOf(csr, r) < SourceOf(csr, s)
                          \/ SourceOf(csr, r) = SourceOf(csr, s) /\ Target(csr, r) < Target(csr, s)
<1>1. NodeCount(csr) = n /\ csr \in Csrs /\ SlotCount(csr) \in Nat
  BY DEF CsrOK, NodeCount, SlotCount, Csrs
<1>2. \A u \in 0 .. n - 1 : \A s \in Row(csr, u) : s \in Slots(csr) /\ Target(csr, s) \in Nat /\ Target(csr, s) < n
  <2> TAKE u \in 0 .. n - 1
  <2>1. Len(csr.off) = n + 1 /\ csr.off[u + 1] <= csr.off[u + 2] /\ csr.off[u + 2] <= Len(csr.to)
    BY DEF CsrOK
  <2>2. \A s \in Row(csr, u) : s \in Slots(csr) /\ Target(csr, s) \in Nat
    BY <1>1, <2>1, RowLists
  <2>3. \A s \in Row(csr, u) : Target(csr, s) < n
    BY DEF CsrOK
  <2> QED BY <2>2, <2>3
<1>3. ASSUME NEW s \in Slots(csr) PROVE SourceOf(csr, s) \in 0 .. n - 1 /\ s \in Row(csr, SourceOf(csr, s))
  <2>1. \E u \in 0 .. NodeCount(csr) - 1 : s \in Row(csr, u)
    BY <1>1, RowExists
  <2> QED BY <1>1, <2>1 DEF SourceOf
<1>4. ASSUME NEW u \in 0 .. n - 1, NEW s \in Row(csr, u) PROVE SourceOf(csr, s) = u
  <2>1. s \in Slots(csr)
    BY <1>2
  <2>2. SourceOf(csr, s) \in 0 .. n - 1 /\ s \in Row(csr, SourceOf(csr, s)) /\ s \in Int
    BY <1>3, <2>1 DEF Slots
  <2>3. ~(SourceOf(csr, s) < u)
    BY <2>2, RowsFollow
  <2>4. ~(u < SourceOf(csr, s))
    BY <2>2, RowsFollow
  <2> QED BY <2>2, <2>3, <2>4
<1>5. ASSUME NEW r \in Slots(csr), NEW s \in Slots(csr), r < s
      PROVE  \/ SourceOf(csr, r) < SourceOf(csr, s)
             \/ SourceOf(csr, r) = SourceOf(csr, s) /\ Target(csr, r) < Target(csr, s)
  <2> DEFINE u == SourceOf(csr, r)
             v == SourceOf(csr, s)
  <2>1. u \in 0 .. n - 1 /\ v \in 0 .. n - 1 /\ r \in Row(csr, u) /\ s \in Row(csr, v) /\ r \in Int /\ s \in Int
    BY <1>3 DEF Slots
  <2> HIDE DEF u, v
  <2>2. ~(v < u)
    BY <1>5, <2>1, RowsFollow
  <2>3. u = v => Target(csr, r) < Target(csr, s)
    BY <1>5, <2>1 DEF CsrOK
  <2>4. u < v \/ (u = v /\ Target(csr, r) < Target(csr, s))
    BY <2>1, <2>2, <2>3
  <2> QED BY <2>4 DEF u, v
<1>6. \A s \in Slots(csr) : s \in Int /\ SourceOf(csr, s) \in Int /\ Target(csr, s) \in 0 .. n - 1
  BY <1>2, <1>3 DEF Slots
<1>7. ASSUME NEW r \in Slots(csr), NEW s \in Slots(csr),
             SourceOf(csr, r) = SourceOf(csr, s), Target(csr, r) = Target(csr, s)
      PROVE  r = s
  <2>1. ~(r < s)
    BY <1>5, <1>6, <1>7
  <2>2. ~(s < r)
    BY <1>5, <1>6, <1>7
  <2> QED BY <1>6, <2>1, <2>2
<1> QED BY <1>1, <1>2, <1>3, <1>4, <1>5, <1>6, <1>7

\* The binary search finds the slot of a target, and nothing else.
LEMMA SlotFound ==
  ASSUME NEW n \in Nat, NEW csr, CsrOK(csr, n), NEW u \in 0 .. n - 1, NEW v
  PROVE  /\ \A s \in Slots(csr) : SourceOf(csr, s) = u /\ Target(csr, s) = v => SlotOf(csr, u, v) = s
         /\ SlotOf(csr, u, v) # None => /\ SlotOf(csr, u, v) \in Slots(csr)
                                        /\ SourceOf(csr, SlotOf(csr, u, v)) = u
                                        /\ Target(csr, SlotOf(csr, u, v)) = v
         /\ \A s \in Slots(csr) : s # None
<1>1. \A s \in Slots(csr) : s # None
  BY Sentinels DEF Slots
<1>2. \A s \in Row(csr, u) : s \in Slots(csr) /\ SourceOf(csr, s) = u
  BY SlotEnds
<1>3. \A s \in Slots(csr) : SourceOf(csr, s) = u => s \in Row(csr, u)
  BY SlotEnds
<1>4. \A r, s \in Slots(csr) : SourceOf(csr, r) = SourceOf(csr, s) /\ Target(csr, r) = Target(csr, s) => r = s
  BY SlotEnds
<1>5. ASSUME NEW s \in Slots(csr), SourceOf(csr, s) = u, Target(csr, s) = v PROVE SlotOf(csr, u, v) = s
  <2>1. s \in Row(csr, u)
    BY <1>3, <1>5
  <2>2. \A r \in Row(csr, u) : Target(csr, r) = v => r = s
    BY <1>2, <1>4, <1>5
  <2> QED BY <1>5, <2>1, <2>2 DEF SlotOf
<1>6. SlotOf(csr, u, v) # None => SlotOf(csr, u, v) \in Row(csr, u) /\ Target(csr, SlotOf(csr, u, v)) = v
  BY DEF SlotOf
<1> QED BY <1>1, <1>2, <1>5, <1>6

(* Both directions of an adjacency *)

Opposite(csr, s, other, r) ==
  /\ SourceOf(other, r) = Target(csr, s) /\ Target(other, r) = SourceOf(csr, s)
  /\ WeightAt(other, r) = WeightAt(csr, s)

\* is_reverse_of: every slot has its opposite, and the sizes agree.
LEMMA ReversesMeans ==
  ASSUME NEW n \in Nat, NEW csr, CsrOK(csr, n), NEW k \in Nat, NEW other, CsrOK(other, k)
  PROVE  Reverses(csr, other) <=>
           /\ k = n /\ SlotCount(other) = SlotCount(csr) /\ (other.wt = None) = (csr.wt = None)
           /\ \A s \in Slots(csr) : \E r \in Slots(other) : Opposite(csr, s, other, r)
<1>1. NodeCount(csr) = n /\ NodeCount(other) = k
  BY SlotEnds
<1>2. ASSUME k = n
      PROVE  (\A u \in 0 .. n - 1 : \A s \in Row(csr, u) :
                SlotOf(other, Target(csr, s), u) # None
                  /\ WeightAt(csr, s) = WeightAt(other, SlotOf(other, Target(csr, s), u)))
             <=> \A s \in Slots(csr) : \E r \in Slots(other) : Opposite(csr, s, other, r)
  <2>1. ASSUME NEW s \in Slots(csr)
        PROVE  (SlotOf(other, Target(csr, s), SourceOf(csr, s)) # None
                  /\ WeightAt(csr, s) = WeightAt(other, SlotOf(other, Target(csr, s), SourceOf(csr, s))))
               <=> \E r \in Slots(other) : Opposite(csr, s, other, r)
    <3>1. Target(csr, s) \in 0 .. k - 1
      BY <1>2, SlotEnds
    <3> DEFINE q == SlotOf(other, Target(csr, s), SourceOf(csr, s))
    <3>2. /\ \A r \in Slots(other) : SourceOf(other, r) = Target(csr, s) /\ Target(other, r) = SourceOf(csr, s) => q = r
          /\ q # None => q \in Slots(other) /\ SourceOf(other, q) = Target(csr, s) /\ Target(other, q) = SourceOf(csr, s)
          /\ \A r \in Slots(other) : r # None
      BY <3>1, SlotFound
    <3> HIDE DEF q
    <3>3. (q # None /\ WeightAt(csr, s) = WeightAt(other, q)) <=> \E r \in Slots(other) : Opposite(csr, s, other, r)
      BY <3>2 DEF Opposite
    <3> QED BY <3>3 DEF q
  <2>2. \A u \in 0 .. n - 1 : \A s \in Row(csr, u) : s \in Slots(csr) /\ SourceOf(csr, s) = u
    BY SlotEnds
  <2>3. \A s \in Slots(csr) : SourceOf(csr, s) \in 0 .. n - 1 /\ s \in Row(csr, SourceOf(csr, s))
    BY SlotEnds
  <2> QED BY <2>1, <2>2, <2>3
<1>3. Reverses(csr, other) <=>
        /\ k = n /\ SlotCount(other) = SlotCount(csr) /\ (other.wt = None) = (csr.wt = None)
        /\ \A u \in 0 .. n - 1 : \A s \in Row(csr, u) :
                SlotOf(other, Target(csr, s), u) # None
                  /\ WeightAt(csr, s) = WeightAt(other, SlotOf(other, Target(csr, s), u))
  BY <1>1 DEF Reverses
<1> QED BY <1>2, <1>3

\* As many slots, each with its opposite: the opposites are all there are.
LEMMA OppositesAll ==
  ASSUME NEW n \in Nat, NEW csr, CsrOK(csr, n), NEW other, CsrOK(other, n), Reverses(csr, other)
  PROVE  /\ \A s \in Slots(csr) : \E r \in Slots(other) : Opposite(csr, s, other, r)
         /\ \A r \in Slots(other) : \E s \in Slots(csr) : Opposite(csr, s, other, r)
<1>1. /\ SlotCount(other) = SlotCount(csr)
      /\ \A s \in Slots(csr) : \E r \in Slots(other) : Opposite(csr, s, other, r)
  BY ReversesMeans
<1>2. SlotCount(csr) \in Nat /\ Slots(other) = Slots(csr)
  BY <1>1, SlotEnds DEF Slots
<1> DEFINE f == [s \in Slots(csr) |-> CHOOSE r \in Slots(other) : Opposite(csr, s, other, r)]
<1>3. \A s \in Slots(csr) : f[s] \in Slots(other) /\ Opposite(csr, s, other, f[s])
  BY <1>1
<1>4. f \in [Slots(csr) -> Slots(other)] /\ DOMAIN f = Slots(csr)
  BY <1>3
<1> HIDE DEF f
<1>5. ASSUME NEW s \in Slots(csr), NEW t \in Slots(csr), f[s] = f[t] PROVE s = t
  <2>1. SourceOf(csr, s) = SourceOf(csr, t) /\ Target(csr, s) = Target(csr, t)
    BY <1>3, <1>5 DEF Opposite
  <2> QED BY <2>1, SlotEnds
<1>6. f \in Injection(Slots(csr), Slots(other))
  BY <1>4, <1>5 DEF Injection, IsInjective
<1>7. IsFiniteSet(Slots(other))
  BY <1>2, FS_Interval DEF Slots
<1>8. f \in Surjection(Slots(csr), Slots(other))
  BY <1>2, <1>6, <1>7, FS_Injection
<1>9. \A r \in Slots(other) : \E s \in Slots(csr) : f[s] = r
  BY <1>8 DEF Surjection
<1> QED BY <1>1, <1>3, <1>9

-----------------------------------------------------------------------------
(* Counting edges *)

\* A bijection keeps the size.
LEMMA SameSize ==
  ASSUME NEW S, NEW T, IsFiniteSet(T), NEW f \in [S -> T],
         \A x, y \in S : f[x] = f[y] => x = y,
         \A t \in T : \E x \in S : f[x] = t
  PROVE  IsFiniteSet(S) /\ Cardinality(S) = Cardinality(T) /\ Cardinality(T) \in Nat
<1>1. f \in Injection(S, T) /\ f \in Surjection(S, T)
  BY DEF Injection, IsInjective, Surjection
<1> QED BY <1>1, FS_Injection, FS_CardinalityType

\* The slots are finitely many, as many as the targets.
LEMMA SlotsFinite ==
  ASSUME NEW n \in Nat, NEW csr, CsrOK(csr, n)
  PROVE  /\ IsFiniteSet(Slots(csr)) /\ Cardinality(Slots(csr)) = SlotCount(csr)
         /\ \A S \in SUBSET Slots(csr) : IsFiniteSet(S) /\ Cardinality(S) \in Nat
<1>1. SlotCount(csr) \in Nat
  BY SlotEnds
<1>2. IsFiniteSet(Slots(csr)) /\ Cardinality(Slots(csr)) = SlotCount(csr)
  <2> DEFINE m == SlotCount(csr) - 1
  <2>1. 0 \in Int /\ m \in Int /\ (0 > m => SlotCount(csr) = 0) /\ m - 0 + 1 = SlotCount(csr)
    BY <1>1
  <2>2. Slots(csr) = 0 .. m
    BY DEF Slots
  <2> HIDE DEF m
  <2>3. IsFiniteSet(0 .. m) /\ Cardinality(0 .. m) = IF 0 > m THEN 0 ELSE m - 0 + 1
    BY <2>1, FS_Interval
  <2> QED BY <2>1, <2>2, <2>3
<1>3. ASSUME NEW S \in SUBSET Slots(csr) PROVE IsFiniteSet(S) /\ Cardinality(S) \in Nat
  BY <1>2, FS_Subset, FS_CardinalityType
<1> QED BY <1>2, <1>3

LoopSlots(csr) == {s \in Slots(csr) : Target(csr, s) = SourceOf(csr, s)}

\* count_loops counts the slots whose ends agree.
LEMMA LoopsCounted ==
  ASSUME NEW n \in Nat, NEW csr, CsrOK(csr, n)
  PROVE  Loops(csr) = Cardinality(LoopSlots(csr)) /\ Loops(csr) \in Nat
<1> DEFINE T == {u \in 0 .. n - 1 : SlotOf(csr, u, u) # None}
           f == [u \in T |-> SlotOf(csr, u, u)]
<1>1. Loops(csr) = Cardinality(T)
  BY SlotEnds DEF Loops
<1>2. \A u \in T : f[u] \in LoopSlots(csr) /\ SourceOf(csr, f[u]) = u
  <2> TAKE u \in T
  <2>1. u \in 0 .. n - 1 /\ SlotOf(csr, u, u) # None
    OBVIOUS
  <2> QED BY <2>1, SlotFound DEF LoopSlots
<1>3. f \in [T -> LoopSlots(csr)]
  BY <1>2
<1>4. \A u, v \in T : f[u] = f[v] => u = v
  BY <1>2
<1>5. \A s \in LoopSlots(csr) : \E u \in T : f[u] = s
  <2> TAKE s \in LoopSlots(csr)
  <2> DEFINE u == SourceOf(csr, s)
  <2>1. u \in 0 .. n - 1 /\ s \in Slots(csr) /\ Target(csr, s) = u
    BY SlotEnds DEF LoopSlots
  <2>2. SlotOf(csr, u, u) = s /\ s # None
    BY <2>1, SlotFound
  <2> QED BY <2>1, <2>2
<1>6. IsFiniteSet(LoopSlots(csr))
  BY SlotsFinite DEF LoopSlots
<1> HIDE DEF f, T
<1> QED BY <1>1, <1>3, <1>4, <1>5, <1>6, SameSize

\* Every edge once.
Canon(dir, csr) == {s \in Slots(csr) : dir \/ Target(csr, s) >= SourceOf(csr, s)}

\* logical_edge_count counts every edge once, though it is stored twice.
LEMMA EdgesCounted ==
  ASSUME NEW n \in Nat, NEW csr, CsrOK(csr, n), NEW dir \in BOOLEAN, ~dir => Reverses(csr, csr)
  PROVE  /\ LogicalEdges(dir, csr) = Cardinality(Canon(dir, csr)) /\ LogicalEdges(dir, csr) \in Nat
         /\ IsFiniteSet(Canon(dir, csr))
<1>0. IsFiniteSet(Canon(dir, csr)) /\ Cardinality(Canon(dir, csr)) \in Nat
  BY SlotsFinite DEF Canon
<1>1. CASE dir
  <2>1. Canon(dir, csr) = Slots(csr)
    BY <1>1 DEF Canon
  <2> QED BY <1>0, <1>1, <2>1, SlotsFinite DEF LogicalEdges
<1>2. CASE ~dir
  <2> DEFINE Up == {s \in Slots(csr) : Target(csr, s) > SourceOf(csr, s)}
             Down == {s \in Slots(csr) : Target(csr, s) < SourceOf(csr, s)}
             On == LoopSlots(csr)
             f == [s \in Up |-> CHOOSE r \in Slots(csr) : Opposite(csr, s, csr, r)]
  <2>0. \A s \in Slots(csr) : SourceOf(csr, s) \in Int /\ Target(csr, s) \in Int
    BY SlotEnds
  <2>1. \A s \in Slots(csr) : \E r \in Slots(csr) : Opposite(csr, s, csr, r)
    BY <1>2, OppositesAll
  <2>2. \A s \in Up : f[s] \in Slots(csr) /\ Opposite(csr, s, csr, f[s])
    BY <2>1
  <2>3. \A s \in Up : f[s] \in Down
    BY <2>0, <2>2 DEF Opposite
  <2>4. ASSUME NEW s \in Up, NEW t \in Up, f[s] = f[t] PROVE s = t
    <3>1. SourceOf(csr, s) = SourceOf(csr, t) /\ Target(csr, s) = Target(csr, t) /\ s \in Slots(csr) /\ t \in Slots(csr)
      BY <2>2, <2>4 DEF Opposite
    <3> QED BY <3>1, SlotEnds
  <2>5. ASSUME NEW r \in Down PROVE \E s \in Up : f[s] = r
    <3>1. PICK s \in Slots(csr) : Opposite(csr, r, csr, s)
      BY <2>1
    <3>2. s \in Up /\ Opposite(csr, s, csr, r)
      BY <2>0, <3>1 DEF Opposite
    <3>3. f[s] \in Slots(csr) /\ Opposite(csr, s, csr, f[s])
      BY <2>2, <3>2
    <3>4. SourceOf(csr, f[s]) = SourceOf(csr, r) /\ Target(csr, f[s]) = Target(csr, r) /\ r \in Slots(csr)
      BY <3>2, <3>3 DEF Opposite
    <3>5. f[s] = r
      <4> HIDE DEF f
      <4> QED BY <3>3, <3>4, SlotEnds
    <3> QED BY <3>2, <3>5
  <2>6. /\ IsFiniteSet(Up) /\ IsFiniteSet(Down) /\ IsFiniteSet(On)
        /\ Cardinality(Up) \in Nat /\ Cardinality(Down) \in Nat /\ Cardinality(On) \in Nat
    BY SlotsFinite DEF LoopSlots
  <2>7. Cardinality(Up) = Cardinality(Down)
    <3>1. f \in [Up -> Down]
      BY <2>3
    <3> HIDE DEF f, Up, Down
    <3> QED BY <2>4, <2>5, <2>6, <3>1, SameSize
  <2>8. /\ Slots(csr) = (Up \cup On) \cup Down /\ Canon(dir, csr) = Up \cup On
        /\ (Up \cup On) \cap Down = {} /\ Up \cap On = {}
    BY <1>2, <2>0 DEF Canon, LoopSlots
  <2>9. Cardinality(Up \cup On) = Cardinality(Up) + Cardinality(On) /\ IsFiniteSet(Up \cup On)
    <3> HIDE DEF Up, Down, On
    <3>1. Cardinality(Up \cap On) = 0
      BY <2>8, FS_EmptySet
    <3> QED BY <2>6, <3>1, FS_Union
  <2>10. Cardinality(Slots(csr)) = Cardinality(Up \cup On) + Cardinality(Down)
    <3> HIDE DEF Up, Down, On
    <3>1. Cardinality((Up \cup On) \cap Down) = 0
      BY <2>8, FS_EmptySet
    <3>2. Cardinality((Up \cup On) \cup Down) = Cardinality(Up \cup On) + Cardinality(Down) - 0
      BY <2>6, <2>9, <3>1, FS_Union
    <3> QED BY <2>6, <2>8, <2>9, <3>2
  <2>11. SlotCount(csr) + Loops(csr) = 2 * Cardinality(Canon(dir, csr))
    <3>1. Loops(csr) = Cardinality(On) /\ Cardinality(Slots(csr)) = SlotCount(csr)
      BY LoopsCounted, SlotsFinite
    <3> HIDE DEF Up, Down, On
    <3> QED BY <2>6, <2>7, <2>8, <2>9, <2>10, <3>1
  <2>12. LogicalEdges(dir, csr) = (SlotCount(csr) + Loops(csr)) \div 2
    BY <1>2 DEF LogicalEdges
  <2>13. ASSUME NEW c \in Nat PROVE (2 * c) \div 2 = c
    OBVIOUS
  <2>14. LogicalEdges(dir, csr) = Cardinality(Canon(dir, csr))
    BY ONLY <1>0, <2>11, <2>12, <2>13
  <2> QED BY <1>0, <2>14
<1> QED BY <1>1, <1>2

\* The arcs of the rows are those of the slots.
LEMMA ArcsOfSlots ==
  ASSUME NEW n \in Nat, NEW csr, CsrOK(csr, n)
  PROVE  Arcs(csr) = {<<SourceOf(csr, s), Target(csr, s), WeightAt(csr, s)>> : s \in Slots(csr)}
<1>1. NodeCount(csr) = n
  BY SlotEnds
<1>2. \A u \in 0 .. n - 1 : \A s \in Row(csr, u) : s \in Slots(csr) /\ SourceOf(csr, s) = u
  BY SlotEnds
<1>3. \A s \in Slots(csr) : SourceOf(csr, s) \in 0 .. n - 1 /\ s \in Row(csr, SourceOf(csr, s))
  BY SlotEnds
<1> DEFINE A == {<<SourceOf(csr, s), Target(csr, s), WeightAt(csr, s)>> : s \in Slots(csr)}
<1>4. Arcs(csr) = UNION {{<<u, Target(csr, s), WeightAt(csr, s)>> : s \in Row(csr, u)} : u \in 0 .. n - 1}
  BY <1>1 DEF Arcs
<1>5. \A a \in Arcs(csr) : a \in A
  BY <1>2, <1>4
<1>6. \A a \in A : a \in Arcs(csr)
  <2> SUFFICES ASSUME NEW s \in Slots(csr)
               PROVE  <<SourceOf(csr, s), Target(csr, s), WeightAt(csr, s)>> \in Arcs(csr)
    OBVIOUS
  <2>1. <<SourceOf(csr, s), Target(csr, s), WeightAt(csr, s)>>
          \in {<<SourceOf(csr, s), Target(csr, r), WeightAt(csr, r)>> : r \in Row(csr, SourceOf(csr, s))}
    BY <1>3
  <2> QED BY <1>3, <1>4, <2>1
<1> HIDE DEF A
<1>7. Arcs(csr) = A
  BY <1>5, <1>6
<1> QED BY <1>7 DEF A

\* The loops counted are the arcs whose ends agree.
LEMMA LoopArcs ==
  ASSUME NEW n \in Nat, NEW csr, CsrOK(csr, n)
  PROVE  Loops(csr) = Cardinality({a \in Arcs(csr) : a[1] = a[2]})
<1> DEFINE A == {a \in Arcs(csr) : a[1] = a[2]}
           f == [a \in A |-> SlotOf(csr, a[1], a[2])]
           Of(s) == <<SourceOf(csr, s), Target(csr, s), WeightAt(csr, s)>>
<1>1. \A s \in Slots(csr) : SourceOf(csr, s) \in 0 .. n - 1 /\ SlotOf(csr, SourceOf(csr, s), Target(csr, s)) = s
  <2> TAKE s \in Slots(csr)
  <2>1. SourceOf(csr, s) \in 0 .. n - 1
    BY SlotEnds
  <2> QED BY <2>1, SlotFound
<1>2. \A a \in A : \E s \in LoopSlots(csr) : a = Of(s) /\ f[a] = s
  <2> TAKE a \in A
  <2>1. PICK s \in Slots(csr) : a = Of(s)
    BY ArcsOfSlots
  <2>2. a[1] = SourceOf(csr, s) /\ a[2] = Target(csr, s) /\ a[1] = a[2]
    BY <2>1
  <2>3. f[a] = s /\ s \in LoopSlots(csr)
    BY <1>1, <2>2 DEF LoopSlots
  <2> QED BY <2>1, <2>3
<1>3. f \in [A -> LoopSlots(csr)]
  BY <1>2
<1>4. \A a, c \in A : f[a] = f[c] => a = c
  BY <1>2
<1>5. \A s \in LoopSlots(csr) : \E a \in A : f[a] = s
  <2> TAKE s \in LoopSlots(csr)
  <2>1. s \in Slots(csr) /\ Target(csr, s) = SourceOf(csr, s)
    BY DEF LoopSlots
  <2>2. Of(s) \in A
    BY <2>1, ArcsOfSlots
  <2>3. f[Of(s)] = s
    BY <1>1, <2>1, <2>2
  <2> QED BY <2>2, <2>3
<1>6. IsFiniteSet(LoopSlots(csr))
  BY SlotsFinite DEF LoopSlots
<1>7. Cardinality(A) = Cardinality(LoopSlots(csr))
  <2> HIDE DEF A, f
  <2> QED BY <1>3, <1>4, <1>5, <1>6, SameSize
<1> QED BY <1>7, LoopsCounted

\* The edges counted are the pairs of ends that the arcs join.
LEMMA EdgeArcs ==
  ASSUME NEW n \in Nat, NEW csr, CsrOK(csr, n), NEW dir \in BOOLEAN, ~dir => Reverses(csr, csr)
  PROVE  LogicalEdges(dir, csr) =
           Cardinality({IF dir THEN <<a[1], a[2]>> ELSE {a[1], a[2]} : a \in Arcs(csr)})
<1> DEFINE Ends(u, v) == IF dir THEN <<u, v>> ELSE {u, v}
           E == {Ends(a[1], a[2]) : a \in Arcs(csr)}
           f == [s \in Canon(dir, csr) |-> Ends(SourceOf(csr, s), Target(csr, s))]
<1>0. \A s \in Slots(csr) : SourceOf(csr, s) \in Int /\ Target(csr, s) \in Int
  BY SlotEnds
<1>1. E = {Ends(SourceOf(csr, s), Target(csr, s)) : s \in Slots(csr)}
  <2>1. \A a \in Arcs(csr) : \E s \in Slots(csr) : a[1] = SourceOf(csr, s) /\ a[2] = Target(csr, s)
    BY ArcsOfSlots
  <2>2. \A s \in Slots(csr) : \E a \in Arcs(csr) : a[1] = SourceOf(csr, s) /\ a[2] = Target(csr, s)
    <3> TAKE s \in Slots(csr)
    <3> DEFINE a == <<SourceOf(csr, s), Target(csr, s), WeightAt(csr, s)>>
    <3>1. a \in Arcs(csr)
      BY ArcsOfSlots
    <3> QED BY <3>1
  <2> HIDE DEF Ends
  <2> QED BY <2>1, <2>2
<1>2. Canon(dir, csr) \subseteq Slots(csr)
  BY DEF Canon
<1>3. f \in [Canon(dir, csr) -> E] /\ \A s \in Canon(dir, csr) : f[s] = Ends(SourceOf(csr, s), Target(csr, s))
  <2> HIDE DEF Ends, E
  <2> QED BY <1>1, <1>2
<1>4. ASSUME NEW s \in Canon(dir, csr), NEW t \in Canon(dir, csr), f[s] = f[t] PROVE s = t
  <2>1. Ends(SourceOf(csr, s), Target(csr, s)) = Ends(SourceOf(csr, t), Target(csr, t))
    BY <1>3, <1>4
  <2>2. s \in Slots(csr) /\ t \in Slots(csr)
    BY <1>2
  <2>3. ~dir => Target(csr, s) >= SourceOf(csr, s) /\ Target(csr, t) >= SourceOf(csr, t)
    BY DEF Canon
  <2>4. SourceOf(csr, s) = SourceOf(csr, t) /\ Target(csr, s) = Target(csr, t)
    <3>1. CASE dir
      BY <2>1, <3>1
    <3>2. CASE ~dir
      <4>1. {SourceOf(csr, s), Target(csr, s)} = {SourceOf(csr, t), Target(csr, t)}
        BY <2>1, <3>2
      <4> QED BY <1>0, <2>2, <2>3, <3>2, <4>1
    <3> QED BY <3>1, <3>2
  <2> QED BY <2>2, <2>4, SlotEnds
<1>5. ASSUME NEW e \in E PROVE \E s \in Canon(dir, csr) : f[s] = e
  <2>1. PICK s \in Slots(csr) : e = Ends(SourceOf(csr, s), Target(csr, s))
    BY <1>1
  <2>2. CASE s \in Canon(dir, csr)
    BY <1>3, <2>1, <2>2
  <2>3. CASE s \notin Canon(dir, csr)
    <3>1. ~dir /\ ~(Target(csr, s) >= SourceOf(csr, s))
      BY <2>3 DEF Canon
    <3>2. PICK r \in Slots(csr) : Opposite(csr, s, csr, r)
      BY <3>1, OppositesAll
    <3>3. r \in Canon(dir, csr) /\ Ends(SourceOf(csr, r), Target(csr, r)) = e
      BY <1>0, <2>1, <3>1, <3>2 DEF Opposite, Canon
    <3> QED BY <1>3, <3>3
  <2> QED BY <2>2, <2>3
<1>6. f \in Surjection(Canon(dir, csr), E) /\ f \in Injection(Canon(dir, csr), E)
  <2> HIDE DEF f, E
  <2> QED BY <1>3, <1>4, <1>5 DEF Surjection, Injection, IsInjective
<1>7. Cardinality(E) = Cardinality(Canon(dir, csr))
  <2> HIDE DEF f, E
  <2>1. IsFiniteSet(Canon(dir, csr))
    BY EdgesCounted
  <2> QED BY <1>6, <2>1, FS_Surjection
<1>8. E = {IF dir THEN <<a[1], a[2]>> ELSE {a[1], a[2]} : a \in Arcs(csr)}
  OBVIOUS
<1> HIDE DEF E
<1> QED BY <1>7, <1>8, EdgesCounted

\* An adjacency that reverses another has its arcs, turned around.
LEMMA FlippedArcs ==
  ASSUME NEW n \in Nat, NEW csr, CsrOK(csr, n), NEW other, CsrOK(other, n), Reverses(csr, other)
  PROVE  Arcs(other) = Flipped(Arcs(csr))
<1>1. /\ \A s \in Slots(csr) : \E r \in Slots(other) : Opposite(csr, s, other, r)
      /\ \A r \in Slots(other) : \E s \in Slots(csr) : Opposite(csr, s, other, r)
  BY OppositesAll
<1> DEFINE Of(s) == <<SourceOf(csr, s), Target(csr, s), WeightAt(csr, s)>>
           OfOther(r) == <<SourceOf(other, r), Target(other, r), WeightAt(other, r)>>
           Back(s) == <<Target(csr, s), SourceOf(csr, s), WeightAt(csr, s)>>
<1>2. Flipped(Arcs(csr)) = {Back(s) : s \in Slots(csr)}
  <2>1. \A a \in Arcs(csr) : \E s \in Slots(csr) : <<a[2], a[1], a[3]>> = Back(s)
    BY ArcsOfSlots
  <2>2. \A s \in Slots(csr) : \E a \in Arcs(csr) : <<a[2], a[1], a[3]>> = Back(s)
    <3> TAKE s \in Slots(csr)
    <3>1. Of(s) \in Arcs(csr)
      BY ArcsOfSlots
    <3>2. <<Of(s)[2], Of(s)[1], Of(s)[3]>> = Back(s)
      OBVIOUS
    <3> QED BY <3>1, <3>2
  <2> HIDE DEF Back
  <2> QED BY <2>1, <2>2 DEF Flipped
<1>3. Arcs(other) = {OfOther(r) : r \in Slots(other)}
  BY ArcsOfSlots
<1>4. \A s \in Slots(csr), r \in Slots(other) : Opposite(csr, s, other, r) => OfOther(r) = Back(s)
  BY DEF Opposite
<1> HIDE DEF OfOther, Back
<1> QED BY <1>1, <1>2, <1>3, <1>4

(* Sorting the slots of an edge list *)

\* Acceptable edges hold a weight of the caller; refused ones may not.
Edges == [source : Nat, target : Nat, weight : Weights \cup {Infinite}]
There(edges, i) == [from |-> edges[i].source, to |-> edges[i].target, wt |-> edges[i].weight, id |-> i - 1]
Back(edges, i) == [from |-> edges[i].target, to |-> edges[i].source, wt |-> edges[i].weight, id |-> i - 1]
Joined(dir, e, f) ==
  \/ e.source = f.source /\ e.target = f.target
  \/ ~dir /\ e.source = f.target /\ e.target = f.source
Simple(dir, edges) == \A i, j \in DOMAIN edges : i # j => ~Joined(dir, edges[i], edges[j])

\* What the slots of an edge list are.
LEMMA SlotsListed ==
  ASSUME NEW dir \in BOOLEAN, NEW edges \in Seq(Edges)
  PROVE  /\ \A i \in DOMAIN edges : There(edges, i) \in SlotsOf(dir, edges)
         /\ \A i \in DOMAIN edges : ~dir => Back(edges, i) \in SlotsOf(dir, edges)
         /\ \A s \in SlotsOf(dir, edges) : \E i \in DOMAIN edges : s = There(edges, i) \/ (~dir /\ s = Back(edges, i))
<1> DEFINE Of(i) == IF dir THEN {There(edges, i)} ELSE {There(edges, i), Back(edges, i)}
<1>3. SlotsOf(dir, edges) = UNION {Of(i) : i \in DOMAIN edges}
  BY DEF SlotsOf, There, Back
<1>4. \A i \in DOMAIN edges : There(edges, i) \in Of(i) /\ (~dir => Back(edges, i) \in Of(i))
  OBVIOUS
<1>5. \A i \in DOMAIN edges : \A s \in Of(i) : s = There(edges, i) \/ (~dir /\ s = Back(edges, i))
  OBVIOUS
<1> HIDE DEF Of
<1> QED BY <1>3, <1>4, <1>5

\* A slot holds the ends and the weight of the row it names.
LEMMA SlotTypes ==
  ASSUME NEW dir \in BOOLEAN, NEW edges \in Seq(Edges), NEW s \in SlotsOf(dir, edges)
  PROVE  /\ s.from \in Nat /\ s.to \in Nat /\ s.id \in Nat
         /\ s.id + 1 \in DOMAIN edges /\ s.wt = edges[s.id + 1].weight
         /\ \/ s.from = edges[s.id + 1].source /\ s.to = edges[s.id + 1].target
            \/ ~dir /\ s.from = edges[s.id + 1].target /\ s.to = edges[s.id + 1].source
         /\ s = [from |-> s.from, to |-> s.to, wt |-> s.wt, id |-> s.id]
<1>1. PICK i \in DOMAIN edges : s = There(edges, i) \/ (~dir /\ s = Back(edges, i))
  BY SlotsListed
<1>2. i \in Nat /\ i - 1 \in Nat /\ (i - 1) + 1 = i /\ edges[i] \in Edges
  <2>1. Len(edges) \in Nat /\ edges \in [1 .. Len(edges) -> Edges] /\ DOMAIN edges = 1 .. Len(edges)
    OBVIOUS
  <2> QED BY <2>1
<1>3. edges[i].source \in Nat /\ edges[i].target \in Nat
  BY <1>2 DEF Edges
<1>4. s.id = i - 1 /\ s.wt = edges[i].weight /\ s = [from |-> s.from, to |-> s.to, wt |-> s.wt, id |-> s.id]
  BY <1>1 DEF There, Back
<1>5. \/ s.from = edges[i].source /\ s.to = edges[i].target
      \/ ~dir /\ s.from = edges[i].target /\ s.to = edges[i].source
  BY <1>1 DEF There, Back
<1> QED BY <1>2, <1>3, <1>4, <1>5

\* Slots that agree in both ends and the row are one.
LEMMA SlotNumber ==
  ASSUME NEW dir \in BOOLEAN, NEW edges \in Seq(Edges),
         NEW r \in SlotsOf(dir, edges), NEW s \in SlotsOf(dir, edges),
         r.from = s.from, r.to = s.to, r.id = s.id
  PROVE  r = s
<1>1. r.wt = s.wt
  BY SlotTypes
<1>2. /\ r = [from |-> r.from, to |-> r.to, wt |-> r.wt, id |-> r.id]
      /\ s = [from |-> s.from, to |-> s.to, wt |-> s.wt, id |-> s.id]
  BY SlotTypes
<1> QED BY <1>1, <1>2

\* An edge list makes finitely many slots.
LEMMA SlotsFew ==
  ASSUME NEW dir \in BOOLEAN, NEW edges \in Seq(Edges)
  PROVE  IsFiniteSet(SlotsOf(dir, edges))
<1> DEFINE D == 1 .. Len(edges)
           A == {There(edges, i) : i \in D}
           B == {Back(edges, i) : i \in D}
<1>1. Len(edges) \in Nat /\ DOMAIN edges = D
  OBVIOUS
<1>2. IsFiniteSet(D)
  BY <1>1, FS_Interval
<1>3. IsFiniteSet(A) /\ IsFiniteSet(B)
  <2> HIDE DEF D
  <2>1. ASSUME NEW T, NEW f \in [D -> T] PROVE IsFiniteSet({f[i] : i \in D})
    <3> DEFINE I == {f[i] : i \in D}
    <3>1. f \in Surjection(D, I)
      BY DEF Surjection
    <3> HIDE DEF I
    <3>2. IsFiniteSet(I)
      BY <1>2, <3>1, FS_Surjection
    <3> QED BY <3>2 DEF I
  <2> DEFINE f == [i \in D |-> There(edges, i)]
             g == [i \in D |-> Back(edges, i)]
  <2>2. f \in [D -> A] /\ g \in [D -> B] /\ A = {f[i] : i \in D} /\ B = {g[i] : i \in D}
    OBVIOUS
  <2> HIDE DEF f, g, A, B
  <2>3. IsFiniteSet({f[i] : i \in D}) /\ IsFiniteSet({g[i] : i \in D})
    BY <2>1, <2>2
  <2> QED BY <2>2, <2>3
<1>4. SlotsOf(dir, edges) \subseteq A \cup B
  <2>1. \A i \in DOMAIN edges : There(edges, i) \in A /\ Back(edges, i) \in B
    BY <1>1
  <2> HIDE DEF A, B
  <2> QED BY <2>1, SlotsListed
<1>5. IsFiniteSet(A \cup B)
  <2> HIDE DEF A, B
  <2> QED BY <1>3, FS_Union
<1> HIDE DEF A, B
<1> QED BY <1>4, <1>5, FS_Subset

\* The sorted slots are all of them, in the order of their keys.
LEMMA SlotsSorted ==
  ASSUME NEW dir \in BOOLEAN, NEW edges \in Seq(Edges)
  PROVE  LET S == SlotsOf(dir, edges)
             N == Cardinality(S)
             L == SortSlots(S)
         IN /\ N \in Nat /\ L \in [1 .. N -> S]
            /\ \A x \in S : \E k \in 1 .. N : L[k] = x
            /\ \A i, j \in 1 .. N : i < j => Before(L[i], L[j])
<1> DEFINE S == SlotsOf(dir, edges)
           R == {p \in S \X S : Before(p[1], p[2])}
           rank == [s \in S |-> Cardinality({r \in S : <<r, s>> \in R})]
<1>0. \A s \in S : s.from \in Nat /\ s.to \in Nat /\ s.id \in Nat
  BY SlotTypes
<1>1. \A x, y \in S : <<x, y>> \in R <=> Before(x, y)
  OBVIOUS
<1>2. SortSlots(S) = ByRank(rank)
  <2>1. \A s \in S : {r \in S : <<r, s>> \in R} = {r \in S : Before(r, s)}
    BY <1>1
  <2> HIDE DEF R, S
  <2> QED BY <2>1 DEF SortSlots
<1>3. \A x \in S : <<x, x>> \notin R
  BY <1>0, <1>1 DEF Before
<1>4. \A x, y, z \in S : <<x, y>> \in R /\ <<y, z>> \in R => <<x, z>> \in R
  <2> SUFFICES ASSUME NEW x \in S, NEW y \in S, NEW z \in S, Before(x, y), Before(y, z) PROVE Before(x, z)
    BY <1>1
  <2> QED BY <1>0 DEF Before
<1>5. \A x, y \in S : x = y \/ <<x, y>> \in R \/ <<y, x>> \in R
  <2> SUFFICES ASSUME NEW x \in S, NEW y \in S PROVE x = y \/ Before(x, y) \/ Before(y, x)
    BY <1>1
  <2>1. x.from = y.from /\ x.to = y.to /\ x.id = y.id => x = y
    BY SlotNumber
  <2> QED BY <1>0, <2>1 DEF Before
<1>6. IsFiniteSet(S)
  BY SlotsFew
<1>7. rank \in [S -> Nat] /\ \A s \in S : rank[s] = Cardinality({r \in S : <<r, s>> \in R})
  <2> HIDE DEF R, S
  <2>1. \A s \in S : IsFiniteSet({r \in S : <<r, s>> \in R})
    BY <1>6, FS_Subset
  <2>2. \A s \in S : Cardinality({r \in S : <<r, s>> \in R}) \in Nat
    BY <2>1, FS_CardinalityType
  <2> QED BY <2>2
<1> HIDE DEF R, S, rank
<1>8. /\ Cardinality(S) \in Nat
      /\ ByRank(rank) \in [1 .. Cardinality(S) -> S]
      /\ \A x \in S : \E k \in 1 .. Cardinality(S) : ByRank(rank)[k] = x
      /\ \A i, j \in 1 .. Cardinality(S) : i < j => <<ByRank(rank)[i], ByRank(rank)[j]>> \in R
  BY <1>3, <1>4, <1>5, <1>6, <1>7, OrderBijection
<1>9. \A i, j \in 1 .. Cardinality(S) : i < j => Before(ByRank(rank)[i], ByRank(rank)[j])
  BY <1>1, <1>8
<1> QED BY <1>2, <1>8, <1>9 DEF S

\* Neighbours in the sorted list show every repetition.
LEMMA DuplicatesMean ==
  ASSUME NEW dir \in BOOLEAN, NEW edges \in Seq(Edges)
  PROVE  HasDuplicates(SortSlots(SlotsOf(dir, edges))) <=> ~Simple(dir, edges)
<1> DEFINE S == SlotsOf(dir, edges)
           N == Cardinality(S)
           L == SortSlots(S)
<1>0. /\ N \in Nat /\ L \in [1 .. N -> S]
      /\ \A x \in S : \E k \in 1 .. N : L[k] = x
      /\ \A i, j \in 1 .. N : i < j => Before(L[i], L[j])
  BY SlotsSorted
<1>1. \A s \in S : s.from \in Nat /\ s.to \in Nat /\ s.id \in Nat
  BY SlotTypes
<1> DEFINE Same(x, y) == x.from = y.from /\ x.to = y.to
<1>2. Len(L) = N
  BY <1>0
<1> HIDE DEF S, N, L
<1>3. (\E i \in 1 .. N - 1 : Same(L[i], L[i + 1])) <=> \E x, y \in S : x # y /\ Same(x, y)
  <2>1. ASSUME NEW i \in 1 .. N - 1, Same(L[i], L[i + 1])
        PROVE  \E x, y \in S : x # y /\ Same(x, y)
    <3>1. i \in 1 .. N /\ i + 1 \in 1 .. N /\ i < i + 1
      BY <1>0
    <3>2. L[i] \in S /\ L[i + 1] \in S /\ Before(L[i], L[i + 1])
      BY <1>0, <3>1
    <3>3. L[i] # L[i + 1]
      BY <1>1, <3>2 DEF Before
    <3> QED BY <2>1, <3>2, <3>3
  <2>2. ASSUME NEW x \in S, NEW y \in S, x # y, Same(x, y)
        PROVE  \E i \in 1 .. N - 1 : Same(L[i], L[i + 1])
    <3>1. PICK a \in 1 .. N : L[a] = x
      BY <1>0
    <3>2. PICK c \in 1 .. N : L[c] = y
      BY <1>0
    <3>3. ASSUME NEW i \in 1 .. N, NEW j \in 1 .. N, i < j, Same(L[i], L[j])
          PROVE  \E k \in 1 .. N - 1 : Same(L[k], L[k + 1])
      <4>1. i \in 1 .. N - 1 /\ i + 1 \in 1 .. N /\ (i + 1 = j \/ i + 1 < j) /\ i < i + 1
        BY <1>0, <3>3
      <4>2. L[i] \in S /\ L[j] \in S /\ L[i + 1] \in S
        BY <1>0, <4>1
      <4>3. Before(L[i], L[i + 1]) /\ (L[i + 1] = L[j] \/ Before(L[i + 1], L[j]))
        BY <1>0, <4>1
      <4>4. Same(L[i], L[i + 1])
        BY <1>1, <3>3, <4>2, <4>3 DEF Before
      <4> QED BY <4>1, <4>4
    <3>4. Same(L[a], L[c]) /\ Same(L[c], L[a]) /\ (a < c \/ c < a)
      BY <1>0, <2>2, <3>1, <3>2
    <3> QED BY <3>3, <3>4
  <2> QED BY <2>1, <2>2
<1>4. HasDuplicates(L) <=> \E x, y \in S : x # y /\ Same(x, y)
  BY <1>2, <1>3 DEF HasDuplicates
<1>5. ASSUME NEW x \in S, NEW y \in S, x # y, Same(x, y) PROVE ~Simple(dir, edges)
  <2>1. /\ x.id # y.id
        /\ x.id + 1 \in DOMAIN edges /\ y.id + 1 \in DOMAIN edges
    BY <1>5, SlotNumber, SlotTypes DEF S
  <2>2. Joined(dir, edges[x.id + 1], edges[y.id + 1])
    <3>1. \/ x.from = edges[x.id + 1].source /\ x.to = edges[x.id + 1].target
          \/ ~dir /\ x.from = edges[x.id + 1].target /\ x.to = edges[x.id + 1].source
      BY SlotTypes DEF S
    <3>2. \/ y.from = edges[y.id + 1].source /\ y.to = edges[y.id + 1].target
          \/ ~dir /\ y.from = edges[y.id + 1].target /\ y.to = edges[y.id + 1].source
      BY SlotTypes DEF S
    <3> QED BY <1>5, <3>1, <3>2 DEF Joined
  <2>3. x.id + 1 # y.id + 1
    BY <1>1, <2>1
  <2> QED BY <2>1, <2>2, <2>3 DEF Simple
<1>6. ASSUME ~Simple(dir, edges) PROVE \E x, y \in S : x # y /\ Same(x, y)
  <2>1. PICK i \in DOMAIN edges : \E j \in DOMAIN edges : i # j /\ Joined(dir, edges[i], edges[j])
    BY <1>6 DEF Simple
  <2>2. PICK j \in DOMAIN edges : i # j /\ Joined(dir, edges[i], edges[j])
    BY <2>1
  <2>3. There(edges, i) \in S /\ There(edges, j) \in S /\ (~dir => Back(edges, j) \in S)
    BY SlotsListed DEF S
  <2>4. i - 1 # j - 1
    <3>1. DOMAIN edges = 1 .. Len(edges)
      OBVIOUS
    <3> QED BY <2>2, <3>1
  <2>5. There(edges, i) # There(edges, j) /\ There(edges, i) # Back(edges, j)
    BY <2>4 DEF There, Back
  <2>6. \/ Same(There(edges, i), There(edges, j))
        \/ ~dir /\ Same(There(edges, i), Back(edges, j))
    BY <2>2 DEF Joined, There, Back
  <2> HIDE DEF Same
  <2> QED BY <2>3, <2>5, <2>6
<1> QED BY <1>4, <1>5, <1>6 DEF L, S

(* A list of slots sorted by row *)

CountBelow(key, N, u) == Cardinality({k \in 1 .. N : key[k] < u})

\* A list sorted by row, with offsets counted from it, is a sound adjacency.
LEMMA RowsByKey ==
  ASSUME NEW n \in Nat, NEW N \in Nat, NEW key \in [1 .. N -> Nat],
         \A k \in 1 .. N : key[k] < n,
         \A i, j \in 1 .. N : i < j => key[i] <= key[j],
         NEW csr \in Csrs, Len(csr.off) = n + 1, Len(csr.to) = N, csr.wt # None => Len(csr.wt) = N,
         \A u \in 1 .. n + 1 : csr.off[u] = CountBelow(key, N, u - 1),
         \A k \in 1 .. N : csr.to[k] < n,
         \A i, j \in 1 .. N : i < j /\ key[i] = key[j] => csr.to[i] < csr.to[j]
  PROVE  CsrOK(csr, n) /\ \A s \in Slots(csr) : SourceOf(csr, s) = key[s + 1]
<1>0. csr.to \in [1 .. N -> Nat] /\ SlotCount(csr) = N
  BY DEF Csrs, SlotCount
<1>1. ASSUME NEW u \in 0 .. n
      PROVE  /\ csr.off[u + 1] \in 0 .. N
             /\ \A k \in 1 .. N : k <= csr.off[u + 1] <=> key[k] < u
  <2> DEFINE P == {k \in 1 .. N : key[k] < u}
  <2>1. u + 1 \in 1 .. n + 1 /\ (u + 1) - 1 = u
    OBVIOUS
  <2>2. csr.off[u + 1] = Cardinality(P)
    BY <2>1 DEF CountBelow
  <2>3. P \in SUBSET (1 .. N)
    OBVIOUS
  <2>4. \A i \in P : \A j \in 1 .. N : j < i => j \in P
    <3> SUFFICES ASSUME NEW i \in 1 .. N, key[i] < u, NEW j \in 1 .. N, j < i PROVE key[j] < u
      OBVIOUS
    <3>1. key[j] <= key[i] /\ key[i] \in Nat /\ key[j] \in Nat
      OBVIOUS
    <3> QED BY <3>1
  <2> HIDE DEF P
  <2>5. Cardinality(P) \in 0 .. N /\ P = 1 .. Cardinality(P)
    BY <2>3, <2>4, PrefixCount
  <2>6. \A k \in 1 .. N : k \in P <=> k <= Cardinality(P)
    BY <2>5
  <2> QED BY <2>2, <2>5, <2>6 DEF P
<1>2. csr.off[1] = 0
  <2>1. 0 \in 0 .. n /\ 0 + 1 = 1
    OBVIOUS
  <2>2. csr.off[1] \in 0 .. N /\ \A k \in 1 .. N : k <= csr.off[1] <=> key[k] < 0
    BY <1>1, <2>1
  <2>3. csr.off[1] # 0 => csr.off[1] \in 1 .. N /\ csr.off[1] <= csr.off[1]
    BY <2>2
  <2>4. \A k \in 1 .. N : ~(key[k] < 0)
    OBVIOUS
  <2> QED BY <2>2, <2>3, <2>4
<1>3. csr.off[n + 1] = N
  <2>1. csr.off[n + 1] \in 0 .. N /\ \A k \in 1 .. N : k <= csr.off[n + 1] <=> key[k] < n
    BY <1>1
  <2>2. N # 0 => N \in 1 .. N
    OBVIOUS
  <2> QED BY <2>1, <2>2
<1>4. ASSUME NEW u \in 0 .. n - 1
      PROVE  /\ csr.off[u + 1] <= csr.off[u + 2] /\ csr.off[u + 2] <= N
             /\ \A s \in 0 .. N - 1 : s \in Row(csr, u) <=> key[s + 1] = u
             /\ Row(csr, u) \subseteq 0 .. N - 1
  <2>1. u \in 0 .. n /\ u + 1 \in 0 .. n /\ (u + 1) + 1 = u + 2
    OBVIOUS
  <2>2. csr.off[u + 1] \in 0 .. N /\ \A k \in 1 .. N : k <= csr.off[u + 1] <=> key[k] < u
    BY <1>1, <2>1
  <2>3. csr.off[u + 2] \in 0 .. N /\ \A k \in 1 .. N : k <= csr.off[u + 2] <=> key[k] < u + 1
    BY <1>1, <2>1
  <2> DEFINE a == csr.off[u + 1]
             c == csr.off[u + 2]
  <2>0. Row(csr, u) = a .. c - 1
    BY DEF Row
  <2>a. a \in 0 .. N /\ \A k \in 1 .. N : k <= a <=> key[k] < u
    BY <2>2
  <2>c. c \in 0 .. N /\ \A k \in 1 .. N : k <= c <=> key[k] < u + 1
    BY <2>3
  <2> HIDE DEF a, c
  <2>4. a <= c
    <3> SUFFICES ASSUME a > c PROVE FALSE
      BY <2>a, <2>c
    <3>1. a \in 1 .. N
      BY <2>a, <2>c
    <3>2. key[a] < u /\ ~(key[a] < u + 1) /\ key[a] \in Nat
      <4>1. a <= a /\ ~(a <= c)
        BY <2>a, <2>c
      <4>2. key[a] < u
        BY ONLY <2>a, <3>1, <4>1
      <4>3. ~(key[a] < u + 1)
        BY ONLY <2>c, <3>1, <4>1
      <4>4. key[a] \in Nat
        BY <3>1
      <4> QED BY <4>2, <4>3, <4>4
    <3> QED BY <3>2
  <2>5. ASSUME NEW s \in 0 .. N - 1 PROVE s \in Row(csr, u) <=> key[s + 1] = u
    <3>1. s + 1 \in 1 .. N /\ key[s + 1] \in Nat
      OBVIOUS
    <3>2. (s + 1 <= a <=> key[s + 1] < u) /\ (s + 1 <= c <=> key[s + 1] < u + 1)
      BY <2>a, <2>c, <3>1
    <3>3. s \in a .. c - 1 <=> ~(s + 1 <= a) /\ s + 1 <= c
      BY <2>a, <2>c
    <3> QED BY <2>0, <3>1, <3>2, <3>3
  <2>6. Row(csr, u) \subseteq 0 .. N - 1
    <3>1. a \in 0 .. N /\ c \in 0 .. N
      BY <2>a, <2>c
    <3>2. a .. c - 1 \subseteq 0 .. N - 1
      BY ONLY <3>1, N \in Nat
    <3> QED BY <2>0, <3>2
  <2> QED BY <2>c, <2>4, <2>5, <2>6 DEF a, c
<1>5. \A u \in 0 .. n - 1 : \A s \in Row(csr, u) : s \in 0 .. N - 1 /\ s + 1 \in 1 .. N /\ key[s + 1] = u
  <2> TAKE u \in 0 .. n - 1
  <2> TAKE s \in Row(csr, u)
  <2>1. s \in 0 .. N - 1
    BY <1>4
  <2>2. s + 1 \in 1 .. N
    BY <2>1
  <2>3. s \in Row(csr, u) <=> key[s + 1] = u
    BY <1>4, <2>1
  <2> QED BY <2>1, <2>2, <2>3
<1>6. \A u \in 0 .. n - 1 : \A s \in Row(csr, u) : Target(csr, s) < n
  BY <1>5 DEF Target
<1>7. \A u \in 0 .. n - 1 : \A r, s \in Row(csr, u) : r < s => Target(csr, r) < Target(csr, s)
  <2> SUFFICES ASSUME NEW u \in 0 .. n - 1, NEW r \in Row(csr, u), NEW s \in Row(csr, u), r < s
               PROVE  Target(csr, r) < Target(csr, s)
    OBVIOUS
  <2>1. /\ r \in 0 .. N - 1 /\ r + 1 \in 1 .. N /\ key[r + 1] = u
        /\ s \in 0 .. N - 1 /\ s + 1 \in 1 .. N /\ key[s + 1] = u
    BY <1>5
  <2>2. r + 1 < s + 1
    BY <2>1
  <2> QED BY <2>1, <2>2 DEF Target
<1>8. CsrOK(csr, n)
  BY <1>2, <1>3, <1>4, <1>6, <1>7 DEF CsrOK
<1>9. ASSUME NEW s \in Slots(csr) PROVE SourceOf(csr, s) = key[s + 1]
  <2>1. s \in 0 .. N - 1 /\ s + 1 \in 1 .. N
    BY <1>0 DEF Slots
  <2>2. key[s + 1] \in 0 .. n - 1
    BY <2>1
  <2>3. s \in Row(csr, key[s + 1])
    BY <1>4, <2>1, <2>2
  <2> QED BY <1>8, <2>2, <2>3, SlotEnds
<1> QED BY <1>8, <1>9

ArraysOf(n, wtd, slots) ==
  [off |-> OffsetsOf(n, slots), to |-> [i \in DOMAIN slots |-> slots[i].to],
   wt |-> IF wtd THEN [i \in DOMAIN slots |-> slots[i].wt] ELSE None]

\* The arrays made of a simple edge list are accepted, slot for slot.
LEMMA ArraysBuilt ==
  ASSUME NEW n \in Nat, NEW dir \in BOOLEAN, NEW wtd \in BOOLEAN, NEW edges \in Seq(Edges),
         \A i \in DOMAIN edges : Acceptable(n, wtd, edges[i]), Simple(dir, edges)
  PROVE  LET S == SlotsOf(dir, edges)
             L == SortSlots(S)
             csr == ArraysOf(n, wtd, L)
         IN /\ CsrTryNew(n, csr.to, csr.off, csr.wt) = csr /\ CsrOK(csr, n)
            /\ L \in [1 .. SlotCount(csr) -> S] /\ (csr.wt = None <=> ~wtd)
            /\ \A x \in S : \E s \in Slots(csr) : L[s + 1] = x
            /\ \A s \in Slots(csr) : /\ L[s + 1] \in S /\ SourceOf(csr, s) = L[s + 1].from
                                     /\ Target(csr, s) = L[s + 1].to /\ WeightAt(csr, s) = L[s + 1].wt
<1> DEFINE S == SlotsOf(dir, edges)
           N == Cardinality(S)
           L == SortSlots(S)
           csr == ArraysOf(n, wtd, L)
           key == [k \in 1 .. N |-> L[k].from]
<1>0. /\ N \in Nat /\ L \in [1 .. N -> S]
      /\ \A x \in S : \E k \in 1 .. N : L[k] = x
      /\ \A i, j \in 1 .. N : i < j => Before(L[i], L[j])
  BY SlotsSorted
<1>1. ASSUME NEW s \in S
      PROVE  /\ s.from \in Nat /\ s.to \in Nat /\ s.id \in Nat /\ s.from < n /\ s.to < n /\ s.wt \in Weights
             /\ ~wtd => s.wt = 1
  <2>1. /\ s.from \in Nat /\ s.to \in Nat /\ s.id \in Nat
        /\ s.id + 1 \in DOMAIN edges /\ s.wt = edges[s.id + 1].weight
        /\ \/ s.from = edges[s.id + 1].source /\ s.to = edges[s.id + 1].target
           \/ ~dir /\ s.from = edges[s.id + 1].target /\ s.to = edges[s.id + 1].source
    BY SlotTypes
  <2>2. Acceptable(n, wtd, edges[s.id + 1]) /\ edges[s.id + 1] \in Edges
    BY <2>1
  <2>3. edges[s.id + 1].weight \in Weights
    BY <2>2 DEF Acceptable, Edges
  <2> QED BY <2>1, <2>2, <2>3 DEF Acceptable
<1>2. DOMAIN L = 1 .. N /\ \A k \in 1 .. N : L[k] \in S
  BY <1>0
<1>2a. \A i, j \in 1 .. N : i < j => (L[i].from # L[j].from \/ L[i].to # L[j].to)
  <2>1. ~HasDuplicates(L)
    BY DuplicatesMean
  <2> SUFFICES ASSUME NEW i \in 1 .. N, NEW j \in 1 .. N, i < j, L[i].from = L[j].from, L[i].to = L[j].to
               PROVE  FALSE
    OBVIOUS
  <2>2. i \in 1 .. N - 1 /\ i + 1 \in 1 .. N /\ (i + 1 = j \/ i + 1 < j) /\ i < i + 1
    BY <1>0
  <2> HIDE DEF S, L, N
  <2>3. L[i] \in S /\ L[j] \in S /\ L[i + 1] \in S
    BY <1>0, <2>2
  <2>4. Before(L[i], L[i + 1]) /\ (L[i + 1] = L[j] \/ Before(L[i + 1], L[j]))
    BY <1>0, <2>2
  <2>5. L[i].from = L[i + 1].from /\ L[i].to = L[i + 1].to
    BY <1>1, <2>3, <2>4 DEF Before
  <2>6. Len(L) = N
    BY <1>0
  <2> QED BY <2>1, <2>2, <2>5, <2>6 DEF HasDuplicates
<1> HIDE DEF S, N, L
<1>2b. ASSUME NEW T, NEW m \in Nat, NEW f \in [1 .. m -> T] PROVE f \in Seq(T) /\ Len(f) = m
  OBVIOUS
<1>3. csr.off = OffsetsOf(n, L) /\ csr.to = [i \in 1 .. N |-> L[i].to]
      /\ csr.wt = IF wtd THEN [i \in 1 .. N |-> L[i].wt] ELSE None
  BY <1>2 DEF ArraysOf
<1>4. csr.to \in [1 .. N -> Nat] /\ csr.to \in Seq(Nat) /\ Len(csr.to) = N
  <2>1. [i \in 1 .. N |-> L[i].to] \in [1 .. N -> Nat]
    BY <1>1, <1>2
  <2> HIDE DEF csr
  <2>2. csr.to \in [1 .. N -> Nat]
    BY <1>3, <2>1
  <2> QED BY <1>0, <1>2b, <2>2
<1>5. wtd => csr.wt \in [1 .. N -> Weights] /\ csr.wt \in Seq(Weights) /\ Len(csr.wt) = N /\ csr.wt # None
  <2> SUFFICES ASSUME wtd PROVE csr.wt \in [1 .. N -> Weights] /\ csr.wt \in Seq(Weights) /\ Len(csr.wt) = N /\ csr.wt # None
    OBVIOUS
  <2>1. [i \in 1 .. N |-> L[i].wt] \in [1 .. N -> Weights]
    BY <1>1, <1>2
  <2> HIDE DEF csr
  <2>2. csr.wt \in [1 .. N -> Weights]
    BY <1>3, <2>1
  <2>3. csr.wt \in Seq(Weights) /\ Len(csr.wt) = N
    BY <1>0, <1>2b, <2>2
  <2> QED BY <2>2, <2>3, Sentinels
<1>6. csr.off \in Seq(Nat) /\ Len(csr.off) = n + 1
      /\ \A u \in 1 .. n + 1 : csr.off[u] = CountBelow(key, N, u - 1)
  <2>1. \A u \in 1 .. n + 1 : Cardinality({i \in DOMAIN L : L[i].from < u - 1}) = CountBelow(key, N, u - 1)
    <3> TAKE u \in 1 .. n + 1
    <3>1. {i \in DOMAIN L : L[i].from < u - 1} = {k \in 1 .. N : key[k] < u - 1}
      BY <1>2
    <3> QED BY <3>1 DEF CountBelow
  <2>2. csr.off = [u \in 1 .. n + 1 |-> CountBelow(key, N, u - 1)]
    BY <1>3, <2>1 DEF OffsetsOf
  <2>3. IsFiniteSet(1 .. N)
    BY <1>0, FS_Interval
  <2>4. \A u \in 1 .. n + 1 : CountBelow(key, N, u - 1) \in Nat
    <3> TAKE u \in 1 .. n + 1
    <3>1. IsFiniteSet({k \in 1 .. N : key[k] < u - 1})
      BY <2>3, FS_Subset
    <3> QED BY <3>1, FS_CardinalityType DEF CountBelow
  <2>5. [u \in 1 .. n + 1 |-> CountBelow(key, N, u - 1)] \in [1 .. n + 1 -> Nat] /\ n + 1 \in Nat
    <3> HIDE DEF key
    <3> QED BY <2>4
  <2> HIDE DEF csr, key
  <2>6. csr.off \in [1 .. n + 1 -> Nat]
    BY <2>2, <2>5
  <2>7. csr.off \in Seq(Nat) /\ Len(csr.off) = n + 1
    BY <1>2b, <2>5, <2>6
  <2> QED BY <2>2, <2>7
<1>7. csr.wt \in Seq(Weights) \cup {None} /\ (csr.wt = None <=> ~wtd)
  BY <1>3, <1>5
<1>8. csr = [off |-> csr.off, to |-> csr.to, wt |-> csr.wt] /\ csr \in Csrs
  BY <1>4, <1>6, <1>7 DEF Csrs, ArraysOf
<1>9. key \in [1 .. N -> Nat] /\ \A k \in 1 .. N : key[k] < n
  BY <1>1, <1>2
<1>10. \A i, j \in 1 .. N : i < j => key[i] <= key[j] /\ (key[i] = key[j] => csr.to[i] < csr.to[j])
  <2> SUFFICES ASSUME NEW i \in 1 .. N, NEW j \in 1 .. N, i < j
               PROVE  key[i] <= key[j] /\ (key[i] = key[j] => csr.to[i] < csr.to[j])
    OBVIOUS
  <2>1. L[i] \in S /\ L[j] \in S /\ Before(L[i], L[j]) /\ (L[i].from # L[j].from \/ L[i].to # L[j].to)
    BY <1>0, <1>2, <1>2a
  <2>2. L[i].from <= L[j].from /\ (L[i].from = L[j].from => L[i].to < L[j].to)
    BY <1>1, <2>1 DEF Before
  <2> QED BY <1>3, <2>2
<1>11. \A k \in 1 .. N : csr.to[k] < n
  BY <1>1, <1>2, <1>3
<1>12. csr.wt # None => Len(csr.wt) = N
  BY <1>5, <1>7
<1>13. CsrOK(csr, n) /\ \A s \in Slots(csr) : SourceOf(csr, s) = key[s + 1]
  <2> HIDE DEF csr, key
  <2>1. \A i, j \in 1 .. N : i < j => key[i] <= key[j]
    BY <1>10
  <2>2. \A i, j \in 1 .. N : i < j /\ key[i] = key[j] => csr.to[i] < csr.to[j]
    BY <1>10
  <2>3. N \in Nat /\ csr \in Csrs /\ Len(csr.off) = n + 1 /\ Len(csr.to) = N /\ (csr.wt # None => Len(csr.wt) = N)
    BY <1>0, <1>4, <1>6, <1>8, <1>12
  <2>4. /\ key \in [1 .. N -> Nat] /\ \A k \in 1 .. N : key[k] < n
        /\ \A u \in 1 .. n + 1 : csr.off[u] = CountBelow(key, N, u - 1)
        /\ \A k \in 1 .. N : csr.to[k] < n
    BY <1>6, <1>9, <1>11
  <2> QED BY ONLY n \in Nat, <2>1, <2>2, <2>3, <2>4, RowsByKey
<1>14. CsrTryNew(n, csr.to, csr.off, csr.wt) = csr
  <2>1. CsrOK([off |-> csr.off, to |-> csr.to, wt |-> csr.wt], n)
    BY <1>8, <1>13
  <2> HIDE DEF csr
  <2>2. CsrTryNew(n, csr.to, csr.off, csr.wt) = [off |-> csr.off, to |-> csr.to, wt |-> csr.wt]
    BY <1>4, <1>6, <1>7, <2>1, CsrAccepted
  <2> QED BY <1>8, <2>2
<1>15. SlotCount(csr) = N /\ Slots(csr) = 0 .. N - 1
  BY <1>4 DEF SlotCount, Slots
<1>16. ASSUME NEW s \in Slots(csr)
       PROVE  /\ L[s + 1] \in S /\ SourceOf(csr, s) = L[s + 1].from
              /\ Target(csr, s) = L[s + 1].to /\ WeightAt(csr, s) = L[s + 1].wt
  <2>1. s + 1 \in 1 .. N
    BY <1>0, <1>15
  <2>2. L[s + 1] \in S /\ SourceOf(csr, s) = L[s + 1].from
    BY <1>2, <1>13, <2>1
  <2>3. Target(csr, s) = L[s + 1].to
    BY <1>3, <2>1 DEF Target
  <2>4. WeightAt(csr, s) = L[s + 1].wt
    <3>1. CASE wtd
      BY <1>3, <1>7, <2>1, <3>1 DEF WeightAt
    <3>2. CASE ~wtd
      BY <1>1, <1>7, <2>2, <3>2 DEF WeightAt
    <3> QED BY <3>1, <3>2
  <2> QED BY <2>2, <2>3, <2>4
<1>17. \A x \in S : \E s \in Slots(csr) : L[s + 1] = x
  <2> TAKE x \in S
  <2>1. PICK k \in 1 .. N : L[k] = x
    BY <1>0
  <2>2. k - 1 \in 0 .. N - 1 /\ (k - 1) + 1 = k
    BY <1>0
  <2> QED BY <1>15, <2>1, <2>2
<1>18. L \in [1 .. SlotCount(csr) -> S]
  BY <1>0, <1>15
<1> HIDE DEF csr
<1> QED BY <1>7, <1>13, <1>14, <1>16, <1>17, <1>18 DEF csr, L, S

(* The slots of a graph and the edges they stand for *)

Joins(dir, csr, s, e) ==
  \/ e.source = SourceOf(csr, s) /\ e.target = Target(csr, s)
  \/ ~dir /\ e.source = Target(csr, s) /\ e.target = SourceOf(csr, s)
Follows(dir, csr, edges, ids) ==
  /\ ids \in [1 .. SlotCount(csr) -> Nat]
  /\ \A s \in Slots(csr) : /\ ids[s + 1] + 1 \in DOMAIN edges
                           /\ Joins(dir, csr, s, edges[ids[s + 1] + 1])
                           /\ WeightAt(csr, s) = edges[ids[s + 1] + 1].weight
  /\ \A i \in DOMAIN edges : \E s \in Slots(csr) :
        SourceOf(csr, s) = edges[i].source /\ Target(csr, s) = edges[i].target

\* Each slot follows one row; the canonical slots follow every row once.
LEMMA EdgeForSlot ==
  ASSUME NEW n \in Nat, NEW csr, CsrOK(csr, n), NEW dir \in BOOLEAN, ~dir => Reverses(csr, csr),
         NEW edges \in Seq(Edges), Simple(dir, edges), NEW ids, Follows(dir, csr, edges, ids)
  PROVE  /\ \A s \in Slots(csr), i \in DOMAIN edges : Joins(dir, csr, s, edges[i]) => ids[s + 1] = i - 1
         /\ \A s \in Slots(csr) : ids[s + 1] \in 0 .. Len(edges) - 1
         /\ \A r, s \in Canon(dir, csr) : ids[r + 1] = ids[s + 1] => r = s
         /\ \A i \in DOMAIN edges : \E s \in Canon(dir, csr) : ids[s + 1] = i - 1
         /\ LogicalEdges(dir, csr) = Len(edges)
<1>0. Len(edges) \in Nat /\ DOMAIN edges = 1 .. Len(edges)
  OBVIOUS
<1>1. \A s \in Slots(csr) : SourceOf(csr, s) \in Int /\ Target(csr, s) \in Int /\ s + 1 \in 1 .. SlotCount(csr)
  <2> TAKE s \in Slots(csr)
  <2>1. SourceOf(csr, s) \in 0 .. n - 1 /\ Target(csr, s) \in 0 .. n - 1 /\ SlotCount(csr) \in Nat
    BY SlotEnds
  <2>2. s \in 0 .. SlotCount(csr) - 1
    BY DEF Slots
  <2> QED BY <2>1, <2>2
<1>2. \A s \in Slots(csr) : /\ ids[s + 1] \in Nat /\ ids[s + 1] + 1 \in DOMAIN edges
                            /\ Joins(dir, csr, s, edges[ids[s + 1] + 1])
  BY <1>1 DEF Follows
<1>3. ASSUME NEW s \in Slots(csr), NEW i \in DOMAIN edges, Joins(dir, csr, s, edges[i])
      PROVE  ids[s + 1] = i - 1
  <2>1. ids[s + 1] \in Nat /\ ids[s + 1] + 1 \in DOMAIN edges /\ Joins(dir, csr, s, edges[ids[s + 1] + 1])
    BY <1>2
  <2>2. Joined(dir, edges[ids[s + 1] + 1], edges[i])
    BY <1>3, <2>1 DEF Joins, Joined
  <2>3. ids[s + 1] + 1 = i
    BY <2>1, <2>2 DEF Simple
  <2> QED BY <1>0, <2>1, <2>3
<1>4. ASSUME NEW r \in Canon(dir, csr), NEW s \in Canon(dir, csr), ids[r + 1] = ids[s + 1]
      PROVE  r = s
  <2>1. r \in Slots(csr) /\ s \in Slots(csr)
        /\ (~dir => Target(csr, r) >= SourceOf(csr, r) /\ Target(csr, s) >= SourceOf(csr, s))
    BY DEF Canon
  <2>2. Joins(dir, csr, r, edges[ids[r + 1] + 1]) /\ Joins(dir, csr, s, edges[ids[r + 1] + 1])
    BY <1>2, <1>4, <2>1
  <2>3. SourceOf(csr, r) = SourceOf(csr, s) /\ Target(csr, r) = Target(csr, s)
    BY <1>1, <2>1, <2>2 DEF Joins
  <2> QED BY <2>1, <2>3, SlotEnds
<1>5. ASSUME NEW i \in DOMAIN edges PROVE \E s \in Canon(dir, csr) : ids[s + 1] = i - 1
  <2>1. PICK s \in Slots(csr) : SourceOf(csr, s) = edges[i].source /\ Target(csr, s) = edges[i].target
    BY DEF Follows
  <2>2. Joins(dir, csr, s, edges[i])
    BY <2>1 DEF Joins
  <2>3. CASE s \in Canon(dir, csr)
    BY <1>3, <2>2, <2>3
  <2>4. CASE s \notin Canon(dir, csr)
    <3>1. ~dir /\ Target(csr, s) < SourceOf(csr, s)
      BY <1>1, <2>4 DEF Canon
    <3>2. PICK r \in Slots(csr) : Opposite(csr, s, csr, r)
      BY <3>1, OppositesAll
    <3>3. r \in Canon(dir, csr) /\ Joins(dir, csr, r, edges[i])
      BY <1>1, <2>1, <3>1, <3>2 DEF Canon, Opposite, Joins
    <3> QED BY <1>3, <3>2, <3>3
  <2> QED BY <2>3, <2>4
<1>6. \A s \in Slots(csr) : ids[s + 1] \in 0 .. Len(edges) - 1
  BY <1>0, <1>2
<1>7. LogicalEdges(dir, csr) = Len(edges)
  <2> DEFINE C == Canon(dir, csr)
             T == 1 .. Len(edges)
             f == [s \in C |-> ids[s + 1] + 1]
  <2>1. C \subseteq Slots(csr)
    BY DEF Canon
  <2>2. f \in [C -> T]
    BY <1>0, <1>2, <2>1
  <2>3. \A x, y \in C : f[x] = f[y] => x = y
    <3> SUFFICES ASSUME NEW x \in C, NEW y \in C, ids[x + 1] + 1 = ids[y + 1] + 1 PROVE x = y
      OBVIOUS
    <3>1. ids[x + 1] \in Nat /\ ids[y + 1] \in Nat
      BY <1>2, <2>1
    <3>2. ids[x + 1] = ids[y + 1]
      BY <3>1
    <3> QED BY <1>4, <3>2
  <2>4. \A t \in T : \E x \in C : f[x] = t
    <3> TAKE t \in T
    <3>1. PICK s \in C : ids[s + 1] = t - 1
      BY <1>0, <1>5
    <3>2. f[s] = t
      BY <3>1
    <3> QED BY <3>2
  <2>5. IsFiniteSet(T) /\ Cardinality(T) = Len(edges)
    <3> DEFINE m == Len(edges)
    <3>1. m \in Nat /\ 1 \in Int /\ m \in Int
      BY <1>0
    <3> HIDE DEF m
    <3>2. IsFiniteSet(1 .. m) /\ Cardinality(1 .. m) = IF 1 > m THEN 0 ELSE m - 1 + 1
      BY <3>1, FS_Interval
    <3>3. Cardinality(1 .. m) = m
      BY <3>1, <3>2
    <3> QED BY <3>2, <3>3 DEF m
  <2> HIDE DEF C, T, f
  <2>6. Cardinality(C) = Cardinality(T)
    BY <2>2, <2>3, <2>4, <2>5, SameSize
  <2> QED BY <2>5, <2>6, EdgesCounted DEF C
<1> QED BY <1>3, <1>4, <1>5, <1>6, <1>7

\* The row numbers that build hands on pass the check of with_properties.
LEMMA EdgeRowsValid ==
  ASSUME NEW n \in Nat, NEW csr, CsrOK(csr, n), NEW dir \in BOOLEAN, ~dir => Reverses(csr, csr),
         NEW edges \in Seq(Edges), Simple(dir, edges), NEW ids, Follows(dir, csr, edges, ids),
         NEW g, g.directed = dir, g.out = csr, g.edges = Len(edges)
  PROVE  IdsValid(g, ids)
<1> DEFINE P == {p \in (0 .. NodeCount(g.out) - 1) \X (0 .. SlotCount(g.out) - 1) : p[2] \in Row(g.out, p[1])}
           K == {p \in P : Canonical(g, p[1], p[2])}
<1>0. /\ \A s \in Slots(csr), i \in DOMAIN edges : Joins(dir, csr, s, edges[i]) => ids[s + 1] = i - 1
      /\ \A s \in Slots(csr) : ids[s + 1] \in 0 .. Len(edges) - 1
      /\ \A r, s \in Canon(dir, csr) : ids[r + 1] = ids[s + 1] => r = s
      /\ \A i \in DOMAIN edges : \E s \in Canon(dir, csr) : ids[s + 1] = i - 1
  BY EdgeForSlot
<1>1. NodeCount(csr) = n /\ SlotCount(csr) \in Nat
  BY SlotEnds
<1>2. \A p \in P : /\ p[1] \in 0 .. n - 1 /\ p[2] \in Slots(csr) /\ SourceOf(csr, p[2]) = p[1] /\ p = <<p[1], p[2]>>
  <2> TAKE p \in P
  <2>1. p[1] \in 0 .. n - 1 /\ p[2] \in Slots(csr) /\ p[2] \in Row(csr, p[1]) /\ p = <<p[1], p[2]>>
    BY <1>1 DEF Slots
  <2> QED BY <2>1, SlotEnds
<1>3. \A s \in Slots(csr) : <<SourceOf(csr, s), s>> \in P
  <2> TAKE s \in Slots(csr)
  <2>1. SourceOf(csr, s) \in 0 .. n - 1 /\ s \in Row(csr, SourceOf(csr, s)) /\ s \in 0 .. SlotCount(csr) - 1
    BY SlotEnds DEF Slots
  <2> QED BY <1>1, <2>1
<1>4. \A p \in P : p \in K <=> p[2] \in Canon(dir, csr)
  BY <1>2 DEF Canonical, Canon
<1>5. \A s \in Canon(dir, csr) : <<SourceOf(csr, s), s>> \in K
  <2> TAKE s \in Canon(dir, csr)
  <2>1. s \in Slots(csr) /\ <<SourceOf(csr, s), s>>[2] = s
    BY DEF Canon
  <2> QED BY <1>3, <1>4, <2>1
<1>6. \A p \in K : p \in P /\ p[2] \in Canon(dir, csr)
  BY <1>4
<1> HIDE DEF P, K
<1>7. Len(ids) = SlotCount(g.out)
  BY <1>1 DEF Follows
<1>8. Len(edges) \in Nat /\ DOMAIN edges = 1 .. Len(edges)
  OBVIOUS
<1>9. \A p \in P : ids[p[2] + 1] < g.edges
  BY <1>0, <1>2, <1>8
<1>10. ASSUME NEW p \in P \ K
       PROVE  /\ SlotOf(g.out, Target(g.out, p[2]), p[1]) # None
              /\ ids[SlotOf(g.out, Target(g.out, p[2]), p[1]) + 1] = ids[p[2] + 1]
  <2>1. p \in P /\ p[2] \in Slots(csr) /\ SourceOf(csr, p[2]) = p[1] /\ p[2] \notin Canon(dir, csr)
    BY <1>2, <1>4
  <2>2. ~dir
    BY <2>1 DEF Canon
  <2>3. PICK r \in Slots(csr) : Opposite(csr, p[2], csr, r)
    BY <2>1, <2>2, OppositesAll
  <2>4. SourceOf(csr, r) = Target(csr, p[2]) /\ Target(csr, r) = p[1]
    BY <2>1, <2>3 DEF Opposite
  <2>5. Target(csr, p[2]) \in 0 .. n - 1
    BY <2>1, SlotEnds
  <2>6. SlotOf(csr, Target(csr, p[2]), p[1]) = r /\ r # None
    BY <2>4, <2>5, SlotFound
  <2>7. /\ ids[p[2] + 1] + 1 \in DOMAIN edges /\ Joins(dir, csr, p[2], edges[ids[p[2] + 1] + 1])
        /\ ids[p[2] + 1] \in 0 .. Len(edges) - 1
    BY <1>0, <2>1 DEF Follows
  <2>8. Joins(dir, csr, r, edges[ids[p[2] + 1] + 1])
    BY <2>1, <2>2, <2>4, <2>7 DEF Joins
  <2>9. ids[r + 1] = (ids[p[2] + 1] + 1) - 1
    BY <1>0, <2>7, <2>8
  <2>10. ids[r + 1] = ids[p[2] + 1]
    BY <1>8, <2>7, <2>9
  <2> QED BY <2>6, <2>10
<1>11. ASSUME NEW p \in K, NEW q \in K, p # q PROVE ids[p[2] + 1] # ids[q[2] + 1]
  <2>1. p[2] \in Canon(dir, csr) /\ q[2] \in Canon(dir, csr)
    BY <1>6
  <2>2. p[2] # q[2]
    <3> SUFFICES ASSUME p[2] = q[2] PROVE FALSE
      OBVIOUS
    <3>1. p[1] = q[1] /\ p = <<p[1], p[2]>> /\ q = <<q[1], q[2]>>
      BY <1>2, <1>6
    <3> QED BY <1>11, <3>1
  <2> QED BY <1>0, <2>1, <2>2
<1>12. {ids[p[2] + 1] : p \in K} = 0 .. g.edges - 1
  <2>1. ASSUME NEW p \in K PROVE ids[p[2] + 1] \in 0 .. g.edges - 1
    BY <1>0, <1>2, <1>6
  <2>2. ASSUME NEW k \in 0 .. g.edges - 1 PROVE \E p \in K : ids[p[2] + 1] = k
    <3>1. k + 1 \in DOMAIN edges /\ (k + 1) - 1 = k
      BY <1>8
    <3>2. PICK s \in Canon(dir, csr) : ids[s + 1] = k
      BY <1>0, <3>1
    <3> DEFINE p == <<SourceOf(csr, s), s>>
    <3>3. p \in K /\ p[2] = s
      BY <1>5
    <3> QED BY <3>2, <3>3
  <2> QED BY <2>1, <2>2
<1>13. /\ Len(ids) = SlotCount(g.out)
       /\ \A p \in P : ids[p[2] + 1] < g.edges
       /\ \A p \in P \ K : /\ SlotOf(g.out, Target(g.out, p[2]), p[1]) # None
                           /\ ids[SlotOf(g.out, Target(g.out, p[2]), p[1]) + 1] = ids[p[2] + 1]
       /\ \A p, q \in K : p # q => ids[p[2] + 1] # ids[q[2] + 1]
       /\ {ids[p[2] + 1] : p \in K} = 0 .. g.edges - 1
  BY <1>7, <1>9, <1>10, <1>11, <1>12
<1> QED BY <1>13, Zenon DEF IdsValid, P, K

-----------------------------------------------------------------------------
(* build *)

Fresh(dir, out, incoming) ==
  [directed |-> dir, edges |-> LogicalEdges(dir, out), loops |-> Loops(out),
   out |-> out, in |-> incoming, names |-> None, rows |-> None, ids |-> None]

\* Graph::try_new accepts an adjacency and its reverse.
LEMMA FreshGraph ==
  ASSUME NEW n \in Nat, NEW csr, CsrOK(csr, n), NEW dir \in BOOLEAN, ~dir => Reverses(csr, csr),
         NEW incoming, incoming = None \/ (incoming \in Csrs /\ dir /\ Reverses(csr, incoming))
  PROVE  /\ Fresh(dir, csr, incoming) \in Graphs /\ Fresh(dir, csr, incoming) # None
         /\ Fresh(dir, csr, incoming) # Invalid
         /\ GraphTryNew(dir, csr, incoming) = Fresh(dir, csr, incoming)
<1>1. LogicalEdges(dir, csr) \in Nat /\ Loops(csr) \in Nat /\ csr \in Csrs
  BY EdgesCounted, LoopsCounted, SlotEnds
<1>2. Fresh(dir, csr, incoming) \in Graphs
  BY <1>1 DEF Fresh, Graphs
<1>3. GraphTryNew(dir, csr, incoming) = Fresh(dir, csr, incoming)
  BY DEF GraphTryNew, Fresh
<1> QED BY <1>2, <1>3, TablesAssumption

\* build refuses a row out of bounds, of a bad weight or listed twice.
LEMMA BuildRefused ==
  ASSUME NEW n, NEW dir \in BOOLEAN, NEW wtd, NEW edges \in Seq(Edges),
         (\E i \in DOMAIN edges : ~Acceptable(n, wtd, edges[i])) \/ ~Simple(dir, edges)
  PROVE  Build(n, dir, wtd, edges) = Invalid
BY DuplicatesMean DEF Build

\* build accepts every other edge list, and stores all its edges.
LEMMA BuildDone ==
  ASSUME NEW n \in Nat, NEW dir \in BOOLEAN, NEW wtd \in BOOLEAN, NEW edges \in Seq(Edges),
         \A i \in DOMAIN edges : Acceptable(n, wtd, edges[i]), Simple(dir, edges)
  PROVE  \E csr, ids :
           /\ Build(n, dir, wtd, edges) = [graph |-> Fresh(dir, csr, None), ids |-> ids]
           /\ Build(n, dir, wtd, edges) # Invalid
           /\ CsrOK(csr, n) /\ (csr.wt = None <=> ~wtd) /\ (~dir => Reverses(csr, csr))
           /\ Follows(dir, csr, edges, ids) /\ ids \in Seq(Nat)
           /\ LogicalEdges(dir, csr) = Len(edges)
<1> DEFINE S == SlotsOf(dir, edges)
           L == SortSlots(S)
           csr == ArraysOf(n, wtd, L)
           ids == [i \in DOMAIN L |-> L[i].id]
<1>1. /\ CsrTryNew(n, csr.to, csr.off, csr.wt) = csr /\ CsrOK(csr, n)
      /\ L \in [1 .. SlotCount(csr) -> S] /\ (csr.wt = None <=> ~wtd)
      /\ \A x \in S : \E s \in Slots(csr) : L[s + 1] = x
      /\ \A s \in Slots(csr) : /\ L[s + 1] \in S /\ SourceOf(csr, s) = L[s + 1].from
                               /\ Target(csr, s) = L[s + 1].to /\ WeightAt(csr, s) = L[s + 1].wt
  BY ArraysBuilt
<1>2. /\ csr.to = [i \in DOMAIN L |-> L[i].to] /\ csr.off = OffsetsOf(n, L)
      /\ csr.wt = IF wtd THEN [i \in DOMAIN L |-> L[i].wt] ELSE None
  BY DEF ArraysOf
<1>3. ~HasDuplicates(L)
  BY DuplicatesMean
<1>4. \A x \in S : /\ x.from \in Nat /\ x.to \in Nat /\ x.id \in Nat
                   /\ x.id + 1 \in DOMAIN edges /\ x.wt = edges[x.id + 1].weight
                   /\ \/ x.from = edges[x.id + 1].source /\ x.to = edges[x.id + 1].target
                      \/ ~dir /\ x.from = edges[x.id + 1].target /\ x.to = edges[x.id + 1].source
  BY SlotTypes
<1>5. \A i \in DOMAIN edges : There(edges, i) \in S /\ (~dir => Back(edges, i) \in S)
  BY SlotsListed
<1>6. SlotCount(csr) \in Nat /\ DOMAIN L = 1 .. SlotCount(csr)
  BY <1>1, SlotEnds
<1> HIDE DEF S, L, csr
<1>7. \A s \in Slots(csr) : s + 1 \in 1 .. SlotCount(csr) /\ ids[s + 1] = L[s + 1].id
  BY <1>6 DEF Slots
<1>8. ids \in [1 .. SlotCount(csr) -> Nat]
  BY <1>1, <1>4, <1>6
<1>9. ~dir => Reverses(csr, csr)
  <2> SUFFICES ASSUME ~dir PROVE Reverses(csr, csr)
    OBVIOUS
  <2>1. ASSUME NEW s \in Slots(csr) PROVE \E r \in Slots(csr) : Opposite(csr, s, csr, r)
    <3> DEFINE x == L[s + 1]
               i == x.id + 1
    <3>1. /\ x \in S /\ SourceOf(csr, s) = x.from /\ Target(csr, s) = x.to /\ WeightAt(csr, s) = x.wt
      BY <1>1
    <3>2. /\ i \in DOMAIN edges /\ x.wt = edges[i].weight
          /\ \/ x.from = edges[i].source /\ x.to = edges[i].target
             \/ x.from = edges[i].target /\ x.to = edges[i].source
      BY <1>4, <3>1
    <3> HIDE DEF x, i
    <3>3. \E y \in S : y.from = x.to /\ y.to = x.from /\ y.wt = x.wt
      <4>1. CASE x.from = edges[i].source /\ x.to = edges[i].target
        BY <1>5, <3>2, <4>1 DEF Back
      <4>2. CASE x.from = edges[i].target /\ x.to = edges[i].source
        BY <1>5, <3>2, <4>2 DEF There
      <4> QED BY <3>2, <4>1, <4>2
    <3>4. PICK y \in S : y.from = x.to /\ y.to = x.from /\ y.wt = x.wt
      BY <3>3
    <3>5. PICK r \in Slots(csr) : L[r + 1] = y
      BY <1>1
    <3> QED BY <1>1, <3>1, <3>4, <3>5 DEF Opposite
  <2> QED BY <1>1, <2>1, ReversesMeans
<1>10. Follows(dir, csr, edges, ids)
  <2>1. ASSUME NEW s \in Slots(csr)
        PROVE  /\ ids[s + 1] + 1 \in DOMAIN edges /\ Joins(dir, csr, s, edges[ids[s + 1] + 1])
               /\ WeightAt(csr, s) = edges[ids[s + 1] + 1].weight
    <3>1. /\ L[s + 1] \in S /\ SourceOf(csr, s) = L[s + 1].from /\ ids[s + 1] = L[s + 1].id
          /\ Target(csr, s) = L[s + 1].to /\ WeightAt(csr, s) = L[s + 1].wt
      BY <1>1, <1>7
    <3> HIDE DEF ids
    <3> QED BY <1>4, <3>1 DEF Joins
  <2>2. ASSUME NEW i \in DOMAIN edges
        PROVE  \E s \in Slots(csr) : SourceOf(csr, s) = edges[i].source /\ Target(csr, s) = edges[i].target
    <3>1. PICK s \in Slots(csr) : L[s + 1] = There(edges, i)
      BY <1>1, <1>5
    <3> QED BY <1>1, <3>1 DEF There
  <2> HIDE DEF ids
  <2> QED BY <1>8, <2>1, <2>2 DEF Follows
<1>11. GraphTryNew(dir, csr, None) = Fresh(dir, csr, None) /\ Fresh(dir, csr, None) \in Graphs
       /\ Fresh(dir, csr, None) # Invalid
  BY <1>1, <1>9, FreshGraph
<1>12. csr # Invalid
  BY <1>1, SlotEnds, Sentinels
<1>13. ids \in Seq(Nat)
  <2> HIDE DEF ids
  <2> QED BY <1>6, <1>8
<1>14. Build(n, dir, wtd, edges) = [graph |-> Fresh(dir, csr, None), ids |-> ids]
  <2> DEFINE c == CsrTryNew(n, [i \in DOMAIN L |-> L[i].to], OffsetsOf(n, L),
                            IF wtd THEN [i \in DOMAIN L |-> L[i].wt] ELSE None)
  <2>1. c = csr
    BY <1>1, <1>2
  <2> HIDE DEF c
  <2>2. Build(n, dir, wtd, edges) =
          IF \/ \E i \in DOMAIN edges : ~Acceptable(n, wtd, edges[i])
             \/ HasDuplicates(L)
          THEN Invalid
          ELSE IF c = Invalid THEN Invalid
          ELSE IF GraphTryNew(dir, c, None) = Invalid THEN Invalid
          ELSE [graph |-> GraphTryNew(dir, c, None), ids |-> ids]
    BY DEF Build, S, L, c
  <2> QED BY <1>3, <1>11, <1>12, <2>1, <2>2
<1>15. Build(n, dir, wtd, edges) # Invalid
  <2>1. [graph |-> Fresh(dir, csr, None), ids |-> ids] \in [graph : Graphs, ids : Seq(Nat)]
    BY <1>11, <1>13
  <2> QED BY <1>14, <2>1, TablesAssumption
<1>16. LogicalEdges(dir, csr) = Len(edges)
  BY <1>1, <1>9, <1>10, EdgeForSlot
<1> HIDE DEF ids
<1> QED BY <1>1, <1>9, <1>10, <1>13, <1>14, <1>15, <1>16

(* What every graph at hand satisfies *)

RowTells(g, s) ==
  LET row == g.rows[g.ids[s + 1] + 1]
      here == g.names[SourceOf(g.out, s) + 1]
      there == g.names[Target(g.out, s) + 1]
  IN /\ \/ row.source = here /\ row.target = there
        \/ ~g.directed /\ row.source = there /\ row.target = here
     /\ g.out.wt # None => row.weight = WeightAt(g.out, s)
GraphOK(g) ==
  /\ g \in Graphs
  /\ NodeCount(g.out) \in Nat /\ CsrOK(g.out, NodeCount(g.out))
  /\ ~g.directed => Reverses(g.out, g.out)
  /\ g.in # None => g.directed /\ CsrOK(g.in, NodeCount(g.out)) /\ Reverses(g.out, g.in)
  /\ g.edges = LogicalEdges(g.directed, g.out) /\ g.loops = Loops(g.out)
  /\ g.names # None => Len(g.names) = NodeCount(g.out)
  /\ g.rows # None =>
       /\ g.names # None /\ g.ids \in [1 .. SlotCount(g.out) -> Nat] /\ Len(g.rows) = g.edges
       /\ \A s \in Slots(g.out) : g.ids[s + 1] + 1 \in DOMAIN g.rows /\ RowTells(g, s)

\* A sound graph is a graph, with a number of nodes.
LEMMA NodesCounted ==
  ASSUME NEW g, GraphOK(g)
  PROVE  NodeCount(g.out) \in Nat /\ g.out \in Csrs /\ g # None /\ g # Invalid
<1>1. g \in Graphs /\ g.out \in Csrs /\ NodeCount(g.out) \in Nat
  BY DEF GraphOK, Graphs
<1> QED BY <1>1, TablesAssumption

\* with_properties replaces the columns and nothing else.
WithColumns(g, names, rows, ids) == [g EXCEPT !.names = names, !.rows = rows, !.ids = ids]

\* with_properties replaces the columns it is given and nothing else.
LEMMA Attached ==
  ASSUME NEW g \in Graphs, NEW names \in Seq(Names) \cup {None}, NEW rows \in Seq(TableRows) \cup {None},
         NEW ids \in Seq(Nat) \cup {None}
  PROVE  LET h == WithColumns(g, names, rows, ids)
         IN /\ h \in Graphs /\ h.names = names /\ h.rows = rows /\ h.ids = ids
            /\ h.out = g.out /\ h.edges = g.edges /\ h.loops = g.loops /\ h.in = g.in /\ h.directed = g.directed
BY DEF Graphs, WithColumns

\* A graph without columns is sound when its adjacencies are.
LEMMA FreshOK ==
  ASSUME NEW n \in Nat, NEW csr, CsrOK(csr, n), NEW dir \in BOOLEAN, ~dir => Reverses(csr, csr),
         NEW incoming, incoming = None \/ (dir /\ CsrOK(incoming, n) /\ Reverses(csr, incoming))
  PROVE  GraphOK(Fresh(dir, csr, incoming)) /\ GraphTryNew(dir, csr, incoming) = Fresh(dir, csr, incoming)
<1>1. incoming = None \/ (incoming \in Csrs /\ dir /\ Reverses(csr, incoming))
  BY SlotEnds
<1>2. Fresh(dir, csr, incoming) \in Graphs /\ GraphTryNew(dir, csr, incoming) = Fresh(dir, csr, incoming)
  BY <1>1, FreshGraph
<1>3. NodeCount(csr) = n
  BY SlotEnds
<1> QED BY <1>2, <1>3 DEF GraphOK, Fresh

\* Sound adjacencies have the rows that GraphValid asks for.
LEMMA RowsWellFormed ==
  ASSUME NEW n \in Nat, NEW csr, CsrOK(csr, n)
  PROVE  WellFormed(csr)
<1>1. NodeCount(csr) = n /\ csr \in Csrs
  BY SlotEnds
<1>2. csr.off[1] = 0 /\ csr.off[n + 1] = SlotCount(csr)
  BY DEF CsrOK, SlotCount
<1>3. csr.wt # None => DOMAIN csr.wt = DOMAIN csr.to
  <2> SUFFICES ASSUME csr.wt # None PROVE DOMAIN csr.wt = DOMAIN csr.to
    OBVIOUS
  <2>1. csr.to \in Seq(Nat) /\ csr.wt \in Seq(Weights) /\ Len(csr.wt) = Len(csr.to)
    BY <1>1 DEF CsrOK, Csrs
  <2> QED BY <2>1
<1>4. ASSUME NEW u \in 0 .. n - 1
      PROVE  LET row == Neighbors(csr, u)
             IN \A i, j \in DOMAIN row : row[i] < n /\ (i < j => row[i] < row[j])
  <2> DEFINE m == csr.off[u + 2] - csr.off[u + 1]
             a == csr.off[u + 1]
  <2>1. Len(csr.off) = n + 1 /\ csr.off[u + 1] <= csr.off[u + 2] /\ csr.off[u + 2] <= Len(csr.to)
    BY DEF CsrOK
  <2>2. /\ a \in Nat /\ csr.off[u + 2] \in Nat /\ Neighbors(csr, u) \in [1 .. m -> Nat]
        /\ \A i \in 1 .. m : a + i - 1 \in Row(csr, u) /\ Neighbors(csr, u)[i] = Target(csr, a + i - 1)
    BY <1>1, <2>1, RowLists
  <2>3. m \in Int
    BY <2>2
  <2> HIDE DEF m, a
  <2>4. ASSUME NEW i \in 1 .. m, NEW j \in 1 .. m
        PROVE  Neighbors(csr, u)[i] < n /\ (i < j => Neighbors(csr, u)[i] < Neighbors(csr, u)[j])
    <3>1. a + i - 1 \in Row(csr, u) /\ a + j - 1 \in Row(csr, u)
      BY <2>2
    <3>2. Target(csr, a + i - 1) < n
      BY <3>1 DEF CsrOK
    <3>3. ASSUME i < j PROVE Target(csr, a + i - 1) < Target(csr, a + j - 1)
      <4>1. a + i - 1 < a + j - 1
        BY <2>2, <2>3, <3>3
      <4> QED BY <3>1, <4>1 DEF CsrOK
    <3> QED BY <2>2, <3>2, <3>3
  <2>5. DOMAIN Neighbors(csr, u) = 1 .. m
    BY <2>2
  <2> QED BY <2>4, <2>5
<1> QED BY <1>1, <1>2, <1>3, <1>4 DEF WellFormed

\* What GraphOK says of the graph at hand is enough for both invariants.
LEMMA ValidOfOK ==
  ASSUME Usable => GraphOK(graph)
  PROVE  GraphValid /\ PropertiesFollow
<1> SUFFICES ASSUME Usable PROVE GraphValid /\ PropertiesFollow
  BY DEF GraphValid, PropertiesFollow
<1> DEFINE g == graph
           n == NodeCount(g.out)
<1>1. GraphOK(g) /\ n \in Nat /\ g.directed \in BOOLEAN
  BY NodesCounted DEF GraphOK, Graphs
<1>2. CsrOK(g.out, n) /\ (~g.directed => Reverses(g.out, g.out))
      /\ g.edges = LogicalEdges(g.directed, g.out) /\ g.loops = Loops(g.out)
  BY <1>1 DEF GraphOK
<1>3. g.in # None => g.in # Invalid /\ g.directed /\ CsrOK(g.in, n) /\ Reverses(g.out, g.in)
  <2>1. g.in # None => g.directed /\ CsrOK(g.in, n) /\ Reverses(g.out, g.in)
    BY <1>1 DEF GraphOK
  <2>2. g.in # None => g.in \in Csrs
    BY <1>1, <2>1, SlotEnds
  <2> QED BY <2>1, <2>2, Sentinels
<1> HIDE DEF g, n
<1>4. WellFormed(g.out) /\ (g.in # None => g.in # Invalid /\ WellFormed(g.in))
  BY <1>1, <1>2, <1>3, RowsWellFormed
<1>5. g.edges = Cardinality({IF g.directed THEN <<a[1], a[2]>> ELSE {a[1], a[2]} : a \in Arcs(g.out)})
  BY <1>1, <1>2, EdgeArcs
<1>6. g.loops = Cardinality({a \in Arcs(g.out) : a[1] = a[2]})
  BY <1>1, <1>2, LoopArcs
<1>7. Incoming(g) # None => Arcs(Incoming(g)) = Flipped(Arcs(g.out))
  <2>1. CASE g.directed
    BY <1>1, <1>2, <1>3, <2>1, FlippedArcs DEF Incoming
  <2>2. CASE ~g.directed
    BY <1>1, <1>2, <2>2, FlippedArcs DEF Incoming
  <2> QED BY <2>1, <2>2
<1>8. (g.names # None => Len(g.names) = NodeCount(g.out)) /\ (g.rows # None => Len(g.rows) = g.edges)
  BY <1>1 DEF GraphOK
<1>9. GraphValid
  BY <1>4, <1>5, <1>6, <1>7, <1>8 DEF GraphValid, g
<1>10. ASSUME g.rows # None, NEW u \in 0 .. n - 1, NEW s \in Row(g.out, u)
       PROVE  RowTells(g, s) /\ SourceOf(g.out, s) = u
  <2>1. s \in Slots(g.out) /\ SourceOf(g.out, s) = u
    BY <1>1, <1>2, SlotEnds
  <2> QED BY <1>1, <1>10, <2>1 DEF GraphOK
<1>11. Stored = 0 .. n - 1
  BY DEF Stored, n, g
<1>12. PropertiesFollow
  <2> SUFFICES ASSUME graph.rows # None, NEW u \in Stored, NEW s \in Row(graph.out, u)
               PROVE  LET row == graph.rows[graph.ids[s + 1] + 1]
                          here == graph.names[u + 1]
                          there == graph.names[Target(graph.out, s) + 1]
                      IN /\ \/ row.source = here /\ row.target = there
                            \/ ~graph.directed /\ row.source = there /\ row.target = here
                         /\ graph.out.wt # None => row.weight = WeightAt(graph.out, s)
    BY DEF PropertiesFollow
  <2>1. RowTells(graph, s) /\ SourceOf(graph.out, s) = u
    BY <1>10, <1>11 DEF g
  <2> QED BY <2>1 DEF RowTells
<1> QED BY <1>9, <1>12

-----------------------------------------------------------------------------
(* from_tables *)

Listed == [source : Names \cup {Stranger}, target : Names, weight : Weights \cup {Infinite}]

\* The node table lists every name once.
LEMMA NodeTableLists ==
  /\ NodeTable \in [1 .. Cardinality(Names) -> Names] /\ Cardinality(Names) \in Nat
  /\ Len(NodeTable) = Cardinality(Names) /\ NodeTable \in Seq(Names)
  /\ IsInjective(NodeTable) /\ Range(NodeTable) = Names
<1> DEFINE N == Cardinality(Names)
<1>1. IsFiniteSet(Names)
  BY TablesAssumption
<1>2. N \in Nat /\ ExistsBijection(1 .. N, Names)
  <2>1. PICK m \in Nat : ExistsBijection(1 .. m, Names)
    BY <1>1, FS_NatBijection
  <2>2. N = m
    BY <2>1, FS_CountingElements
  <2> QED BY <2>1, <2>2
<1>3. PICK f \in Bijection(1 .. N, Names) : TRUE
  BY <1>2 DEF ExistsBijection
<1>4. f \in [1 .. N -> Names] /\ IsInjective(f)
  BY <1>3 DEF Bijection, Injection
<1>5. NodeTable \in [1 .. N -> Names] /\ IsInjective(NodeTable)
  BY <1>4 DEF NodeTable, SetToSeq
<1>6. NodeTable \in Injection(1 .. N, Names)
  BY <1>5 DEF Injection
<1>7. IsFiniteSet(1 .. N) /\ Cardinality(1 .. N) = N
  <2>1. N \in Int /\ 1 \in Int
    BY <1>2
  <2> HIDE DEF N
  <2>2. IsFiniteSet(1 .. N) /\ Cardinality(1 .. N) = IF 1 > N THEN 0 ELSE N - 1 + 1
    BY <2>1, FS_Interval
  <2> QED BY <1>2, <2>2
<1>8. NodeTable \in Surjection(1 .. N, Names)
  BY <1>1, <1>6, <1>7, FS_Injection
<1>9. Range(NodeTable) = Names
  BY <1>5, <1>8 DEF Surjection, Range
<1> HIDE DEF N
<1>10. Len(NodeTable) = N /\ NodeTable \in Seq(Names)
  BY <1>2, <1>5
<1> QED BY <1>2, <1>5, <1>9, <1>10 DEF N

\* The row of a name is found in the node table.
LEMMA RowOfName ==
  ASSUME NEW x \in Names
  PROVE  RowOf(NodeTable, x) \in 1 .. Len(NodeTable) /\ NodeTable[RowOf(NodeTable, x)] = x
<1>1. DOMAIN NodeTable = 1 .. Len(NodeTable) /\ x \in Range(NodeTable)
  BY NodeTableLists
<1>2. \E i \in DOMAIN NodeTable : NodeTable[i] = x
  BY <1>1 DEF Range
<1> QED BY <1>1, <1>2 DEF RowOf

\* The edges a table of known names stands for.
EdgesOf(tab, wtd) ==
  [i \in DOMAIN tab |-> [source |-> RowOf(NodeTable, tab[i].source) - 1,
                         target |-> RowOf(NodeTable, tab[i].target) - 1,
                         weight |-> IF wtd THEN tab[i].weight ELSE 1]]
EndsOf(dir, e) == IF dir THEN <<e.source, e.target>> ELSE {e.source, e.target}

\* A table with an end that the node table does not list is refused.
LEMMA TableRefused ==
  ASSUME NEW dir, NEW wtd, NEW tab, NEW i \in DOMAIN tab, tab[i].source = Stranger
  PROVE  FromTables(NodeTable, tab, dir, wtd) = Invalid
<1>1. Stranger \notin Range(NodeTable)
  BY NodeTableLists, TablesAssumption
<1>2. ~\A j \in DOMAIN tab : {tab[j].source, tab[j].target} \subseteq Range(NodeTable)
  BY <1>1
<1> QED BY <1>2 DEF FromTables

\* The edges of a table are acceptable and simple as the table is.
LEMMA TableEdges ==
  ASSUME NEW dir \in BOOLEAN, NEW wtd \in BOOLEAN, NEW tab \in Seq(Listed),
         \A i \in DOMAIN tab : tab[i].source # Stranger
  PROVE  LET edges == EdgesOf(tab, wtd) n == Len(NodeTable)
         IN /\ edges \in Seq(Edges) /\ Len(edges) = Len(tab) /\ DOMAIN edges = DOMAIN tab
            /\ \A i \in DOMAIN tab : /\ edges[i].source \in 0 .. n - 1 /\ edges[i].target \in 0 .. n - 1
                                     /\ NodeTable[edges[i].source + 1] = tab[i].source
                                     /\ NodeTable[edges[i].target + 1] = tab[i].target
                                     /\ edges[i].weight = IF wtd THEN tab[i].weight ELSE 1
            /\ \A i \in DOMAIN tab : Acceptable(n, wtd, edges[i]) <=> (wtd => tab[i].weight # Infinite)
            /\ Simple(dir, edges) <=> \A i, j \in DOMAIN tab : i # j => EndsOf(dir, tab[i]) # EndsOf(dir, tab[j])
            /\ \A i \in DOMAIN tab : {tab[i].source, tab[i].target} \subseteq Range(NodeTable)
<1> DEFINE edges == EdgesOf(tab, wtd)
           n == Len(NodeTable)
<1>0. n \in Nat /\ DOMAIN tab = 1 .. Len(tab) /\ Len(tab) \in Nat
  BY NodeTableLists
<1>1. \A i \in DOMAIN tab : /\ tab[i].source \in Names /\ tab[i].target \in Names
                            /\ tab[i].weight \in Weights \cup {Infinite}
  <2> TAKE i \in DOMAIN tab
  <2>1. tab[i] \in Listed /\ tab[i].source # Stranger
    OBVIOUS
  <2> QED BY <2>1 DEF Listed
<1>2. \A x \in Names : /\ RowOf(NodeTable, x) \in 1 .. n /\ RowOf(NodeTable, x) - 1 \in 0 .. n - 1
                       /\ NodeTable[(RowOf(NodeTable, x) - 1) + 1] = x
  <2> TAKE x \in Names
  <2>1. RowOf(NodeTable, x) \in 1 .. n /\ NodeTable[RowOf(NodeTable, x)] = x
    BY RowOfName
  <2>2. \A k \in 1 .. n : k - 1 \in 0 .. n - 1 /\ (k - 1) + 1 = k
    BY <1>0
  <2> HIDE DEF n
  <2> QED BY <2>1, <2>2
<1>3. edges = [i \in DOMAIN tab |-> edges[i]] /\ DOMAIN edges = DOMAIN tab
      /\ \A i \in DOMAIN tab : edges[i] = [source |-> RowOf(NodeTable, tab[i].source) - 1,
                                           target |-> RowOf(NodeTable, tab[i].target) - 1,
                                           weight |-> IF wtd THEN tab[i].weight ELSE 1]
  BY DEF EdgesOf
<1> HIDE DEF edges, n
<1>4. \A i \in DOMAIN tab : /\ edges[i].source \in 0 .. n - 1 /\ edges[i].target \in 0 .. n - 1
                            /\ NodeTable[edges[i].source + 1] = tab[i].source
                            /\ NodeTable[edges[i].target + 1] = tab[i].target
                            /\ edges[i].weight = IF wtd THEN tab[i].weight ELSE 1
  <2> TAKE i \in DOMAIN tab
  <2>1. edges[i].source = RowOf(NodeTable, tab[i].source) - 1 /\ edges[i].target = RowOf(NodeTable, tab[i].target) - 1
        /\ edges[i].weight = IF wtd THEN tab[i].weight ELSE 1
    BY <1>3
  <2> QED BY <1>1, <1>2, <2>1
<1>5. \A i \in DOMAIN tab : edges[i] \in Edges
  <2> TAKE i \in DOMAIN tab
  <2>1. edges[i].source \in Nat /\ edges[i].target \in Nat /\ edges[i].weight \in Weights \cup {Infinite}
    BY <1>1, <1>4, Sentinels
  <2>2. edges[i] = [source |-> edges[i].source, target |-> edges[i].target, weight |-> edges[i].weight]
    BY <1>3
  <2> QED BY <2>1, <2>2 DEF Edges
<1>6. edges \in Seq(Edges) /\ Len(edges) = Len(tab)
  BY <1>0, <1>3, <1>5
<1>7. \A i \in DOMAIN tab : Acceptable(n, wtd, edges[i]) <=> (wtd => tab[i].weight # Infinite)
  <2> TAKE i \in DOMAIN tab
  <2>1. edges[i].source < n /\ edges[i].target < n
    BY <1>0, <1>4
  <2>2. (edges[i].weight # Infinite /\ (~wtd => edges[i].weight = 1)) <=> (wtd => tab[i].weight # Infinite)
    BY <1>4, Sentinels
  <2> QED BY <2>1, <2>2 DEF Acceptable
<1>8. \A i, j \in DOMAIN tab :
        /\ edges[i].source = edges[j].source <=> tab[i].source = tab[j].source
        /\ edges[i].source = edges[j].target <=> tab[i].source = tab[j].target
        /\ edges[i].target = edges[j].target <=> tab[i].target = tab[j].target
        /\ edges[i].target = edges[j].source <=> tab[i].target = tab[j].source
  <2>1. \A x, y \in Names : RowOf(NodeTable, x) - 1 = RowOf(NodeTable, y) - 1 <=> x = y
    BY <1>2
  <2>2. \A i \in DOMAIN tab : /\ tab[i].source \in Names /\ tab[i].target \in Names
                              /\ edges[i].source = RowOf(NodeTable, tab[i].source) - 1
                              /\ edges[i].target = RowOf(NodeTable, tab[i].target) - 1
    BY <1>1, <1>3
  <2> QED BY <2>1, <2>2
<1>9. \A i, j \in DOMAIN tab : Joined(dir, edges[i], edges[j]) <=> EndsOf(dir, tab[i]) = EndsOf(dir, tab[j])
  <2> SUFFICES ASSUME NEW i \in DOMAIN tab, NEW j \in DOMAIN tab
               PROVE  Joined(dir, edges[i], edges[j]) <=> EndsOf(dir, tab[i]) = EndsOf(dir, tab[j])
    OBVIOUS
  <2>1. CASE dir
    BY <1>8, <2>1 DEF Joined, EndsOf
  <2>2. CASE ~dir
    <3>2. EndsOf(dir, tab[i]) = EndsOf(dir, tab[j]) <=>
            \/ tab[i].source = tab[j].source /\ tab[i].target = tab[j].target
            \/ tab[i].source = tab[j].target /\ tab[i].target = tab[j].source
      <4>1. EndsOf(dir, tab[i]) = {tab[i].source, tab[i].target} /\ EndsOf(dir, tab[j]) = {tab[j].source, tab[j].target}
        BY <2>2 DEF EndsOf
      <4> DEFINE a == tab[i].source
                 c == tab[i].target
                 d == tab[j].source
                 e == tab[j].target
      <4>2. {a, c} = {d, e} <=> (a = d /\ c = e) \/ (a = e /\ c = d)
        <5> HIDE DEF a, c, d, e
        <5>1. ASSUME {a, c} = {d, e} PROVE (a = d /\ c = e) \/ (a = e /\ c = d)
          <6>1. a \in {d, e} /\ c \in {d, e} /\ d \in {a, c} /\ e \in {a, c}
            BY <5>1
          <6> QED BY <6>1
        <5>2. ASSUME (a = d /\ c = e) \/ (a = e /\ c = d) PROVE {a, c} = {d, e}
          BY <5>2
        <5> QED BY <5>1, <5>2
      <4> QED BY <4>1, <4>2
    <3>3. Joined(dir, edges[i], edges[j]) <=>
            \/ edges[i].source = edges[j].source /\ edges[i].target = edges[j].target
            \/ edges[i].source = edges[j].target /\ edges[i].target = edges[j].source
      BY <2>2 DEF Joined
    <3> QED BY <1>8, <3>2, <3>3
  <2> QED BY <2>1, <2>2
<1>10. Simple(dir, edges) <=> \A i, j \in DOMAIN tab : i # j => EndsOf(dir, tab[i]) # EndsOf(dir, tab[j])
  BY <1>3, <1>9 DEF Simple
<1>11. \A i \in DOMAIN tab : {tab[i].source, tab[i].target} \subseteq Range(NodeTable)
  BY <1>1, NodeTableLists
<1> QED BY <1>3, <1>4, <1>6, <1>7, <1>10, <1>11 DEF edges, n

\* from_tables builds a sound graph of every simple, sound table, and of no other.
LEMMA TablesLoaded ==
  ASSUME NEW dir \in BOOLEAN, NEW wtd \in BOOLEAN, NEW tab \in Seq(Listed)
  PROVE  LET g == FromTables(NodeTable, tab, dir, wtd)
             simple == \A i, j \in DOMAIN tab : i # j => EndsOf(dir, tab[i]) # EndsOf(dir, tab[j])
             sound == \A i \in DOMAIN tab : tab[i].source # Stranger /\ (wtd => tab[i].weight # Infinite)
         IN IF simple /\ sound THEN GraphOK(g) /\ g.edges = Len(tab) ELSE g = Invalid
<1> DEFINE g == FromTables(NodeTable, tab, dir, wtd)
           simple == \A i, j \in DOMAIN tab : i # j => EndsOf(dir, tab[i]) # EndsOf(dir, tab[j])
           sound == \A i \in DOMAIN tab : tab[i].source # Stranger /\ (wtd => tab[i].weight # Infinite)
           edges == EdgesOf(tab, wtd)
           n == Len(NodeTable)
           built == Build(n, dir, wtd, edges)
<1>1. CASE \E i \in DOMAIN tab : tab[i].source = Stranger
  BY <1>1, TableRefused
<1>2. CASE \A i \in DOMAIN tab : tab[i].source # Stranger
  <2>1. /\ edges \in Seq(Edges) /\ Len(edges) = Len(tab) /\ DOMAIN edges = DOMAIN tab
        /\ \A i \in DOMAIN tab : /\ edges[i].source \in 0 .. n - 1 /\ edges[i].target \in 0 .. n - 1
                                 /\ NodeTable[edges[i].source + 1] = tab[i].source
                                 /\ NodeTable[edges[i].target + 1] = tab[i].target
                                 /\ edges[i].weight = IF wtd THEN tab[i].weight ELSE 1
        /\ \A i \in DOMAIN tab : Acceptable(n, wtd, edges[i]) <=> (wtd => tab[i].weight # Infinite)
        /\ Simple(dir, edges) <=> simple
        /\ \A i \in DOMAIN tab : {tab[i].source, tab[i].target} \subseteq Range(NodeTable)
    BY <1>2, TableEdges
  <2>2. g = IF built = Invalid THEN Invalid ELSE WithProperties(built.graph, NodeTable, tab, built.ids)
    BY <2>1, NodeTableLists DEF FromTables, EdgesOf
  <2>3. n \in Nat
    BY NodeTableLists
  <2> HIDE DEF edges, g, simple, sound, n
  <2>4. CASE ~(simple /\ sound)
    <3>1. (\E i \in DOMAIN edges : ~Acceptable(n, wtd, edges[i])) \/ ~Simple(dir, edges)
      BY <1>2, <2>1, <2>4 DEF sound
    <3>2. built = Invalid
      BY <2>1, <3>1, BuildRefused
    <3> QED BY <2>2, <2>4, <3>2 DEF g, simple, sound
  <2>5. CASE simple /\ sound
    <3>1. (\A i \in DOMAIN edges : Acceptable(n, wtd, edges[i])) /\ Simple(dir, edges)
      BY <2>1, <2>5 DEF sound
    <3>2. PICK csr, ids :
           /\ built = [graph |-> Fresh(dir, csr, None), ids |-> ids] /\ built # Invalid
           /\ CsrOK(csr, n) /\ (csr.wt = None <=> ~wtd) /\ (~dir => Reverses(csr, csr))
           /\ Follows(dir, csr, edges, ids) /\ ids \in Seq(Nat)
           /\ LogicalEdges(dir, csr) = Len(edges)
      <4>1. edges \in Seq(Edges)
        BY <2>1
      <4> QED BY ONLY dir \in BOOLEAN, wtd \in BOOLEAN, <2>3, <3>1, <4>1, BuildDone
    <3> DEFINE f == Fresh(dir, csr, None)
    <3> HIDE DEF built
    <3>3. built.graph = f /\ built.ids = ids
      BY <3>2
    <3>4. GraphOK(f) /\ f.directed = dir /\ f.out = csr /\ f.edges = Len(edges) /\ f.in = None /\ NodeCount(csr) = n
          /\ f.loops = Loops(csr)
      BY <2>3, <3>2, FreshOK, SlotEnds DEF Fresh
    <3>5. IdsValid(f, ids)
      <4> HIDE DEF f
      <4> QED BY <2>1, <2>3, <3>1, <3>2, <3>4, EdgeRowsValid
    <3>6. Len(NodeTable) = NodeCount(f.out) /\ Len(tab) = f.edges /\ ids # None
      <4>1. None \notin Seq(Nat)
        <5>1. \A s \in Seq(Nat) : s \in Seq(Int)
          OBVIOUS
        <5> QED BY <5>1, BuildAssumption
      <4> QED BY <2>1, <3>2, <3>4, <4>1 DEF n
    <3> DEFINE h == WithColumns(f, NodeTable, tab, ids)
    <3>7. g = h
      BY <2>2, <3>2, <3>3, <3>5, <3>6 DEF WithProperties, WithColumns
    <3>8. f \in Graphs /\ tab \in Seq(TableRows)
      <4>1. Listed \subseteq TableRows
        BY DEF Listed, TableRows
      <4>2. f \in Graphs
        BY <3>4 DEF GraphOK
      <4> QED BY <4>1, <4>2
    <3>9. /\ h \in Graphs /\ h.names = NodeTable /\ h.rows = tab /\ h.ids = ids
          /\ h.out = f.out /\ h.edges = f.edges /\ h.loops = f.loops /\ h.in = f.in /\ h.directed = f.directed
      <4> HIDE DEF f
      <4>1. ids \in Seq(Nat) /\ NodeTable \in Seq(Names)
        BY <3>2, NodeTableLists
      <4> QED BY ONLY <3>8, <4>1, Attached
    <3>10. ASSUME NEW s \in Slots(csr)
           PROVE  h.ids[s + 1] + 1 \in DOMAIN h.rows /\ RowTells(h, s)
      <4> DEFINE i == ids[s + 1] + 1
      <4>0. h.ids = ids /\ h.rows = tab /\ h.names = NodeTable /\ h.out = csr /\ h.directed = dir
        BY <3>4, <3>9
      <4>1. i \in DOMAIN tab /\ Joins(dir, csr, s, edges[i]) /\ WeightAt(csr, s) = edges[i].weight
        BY <2>1, <3>2 DEF Follows
      <4> HIDE DEF i, h
      <4>2. /\ NodeTable[edges[i].source + 1] = tab[i].source
            /\ NodeTable[edges[i].target + 1] = tab[i].target
            /\ edges[i].weight = IF wtd THEN tab[i].weight ELSE 1
        BY <2>1, <4>1
      <4>3. \/ tab[i].source = NodeTable[SourceOf(csr, s) + 1] /\ tab[i].target = NodeTable[Target(csr, s) + 1]
            \/ ~dir /\ tab[i].source = NodeTable[Target(csr, s) + 1] /\ tab[i].target = NodeTable[SourceOf(csr, s) + 1]
        BY <4>1, <4>2 DEF Joins
      <4>4. csr.wt # None => tab[i].weight = WeightAt(csr, s)
        BY <3>2, <4>1, <4>2
      <4>5. h.ids[s + 1] + 1 = i
        BY <4>0 DEF i
      <4> QED BY <4>0, <4>1, <4>3, <4>4, <4>5 DEF RowTells
    <3>11. GraphOK(h)
      <4>1. /\ h.out = csr /\ h.directed = dir /\ h.in = None /\ h.edges = f.edges /\ h.loops = f.loops
            /\ h.names = NodeTable /\ h.rows = tab /\ h.ids = ids
        BY <3>4, <3>9
      <4>2. ids \in [1 .. SlotCount(csr) -> Nat]
        BY <3>2 DEF Follows
      <4>3. NodeTable # None
        BY NodeTableLists, TablesAssumption
      <4> HIDE DEF h, f
      <4> QED BY <3>2, <3>4, <3>6, <3>9, <3>10, <4>1, <4>2, <4>3, <2>1 DEF GraphOK
    <3>12. h.edges = Len(tab)
      BY <2>1, <3>4, <3>9
    <3> HIDE DEF h
    <3> QED BY <2>5, <3>7, <3>11, <3>12 DEF g, simple, sound
  <2> QED BY <2>4, <2>5
<1> QED BY <1>1, <1>2

(* Adopted arrays *)

\* Functions on an interval are sequences over any larger set.
LEMMA ListIn ==
  ASSUME NEW T, NEW U, T \subseteq U, NEW m \in Nat, NEW f \in [1 .. m -> T]
  PROVE  f \in Seq(U) /\ Len(f) = m
<1>1. f \in [1 .. m -> U]
  OBVIOUS
<1> QED BY <1>1

\* The arrays that try_new lets through are sound.
LEMMA AdoptedOK ==
  ASSUME NEW csr \in AdoptedCsrs
  PROVE  CsrOK(csr, AdoptSize) /\ AdoptSize \in Nat
<1>1. PICK to \in Arrays(0 .. AdoptSize, MaxSlots) : \E off \in [1 .. AdoptSize + 1 -> 0 .. MaxSlots + 1],
         wt \in {None} \cup Arrays(Weights, MaxSlots) : csr = CsrTryNew(AdoptSize, to, off, wt) /\ csr # Invalid
  BY DEF AdoptedCsrs
<1>2. PICK off \in [1 .. AdoptSize + 1 -> 0 .. MaxSlots + 1], wt \in {None} \cup Arrays(Weights, MaxSlots) :
        csr = CsrTryNew(AdoptSize, to, off, wt) /\ csr # Invalid
  BY <1>1
<1>3. AdoptSize \in Nat /\ MaxSlots \in Nat /\ AdoptSize + 1 \in Nat
  BY TablesAssumption
<1>4. ASSUME NEW F, NEW f \in Arrays(F, MaxSlots) PROVE \E k \in Nat : f \in [1 .. k -> F]
  <2>1. PICK k \in 0 .. MaxSlots : f \in [1 .. k -> F]
    BY DEF Arrays
  <2> QED BY <1>3, <2>1
<1>5. to \in Seq(Nat)
  <2>1. PICK k \in Nat : to \in [1 .. k -> 0 .. AdoptSize]
    BY <1>4
  <2>2. 0 .. AdoptSize \subseteq Nat
    BY <1>3
  <2> QED BY <2>1, <2>2, ListIn
<1>6. off \in Seq(Nat)
  <2>1. 0 .. MaxSlots + 1 \subseteq Nat
    BY <1>3
  <2> QED BY <1>2, <1>3, <2>1, ListIn
<1>7. wt \in Seq(Weights) \cup {None}
  <2> SUFFICES ASSUME wt \in Arrays(Weights, MaxSlots) PROVE wt \in Seq(Weights)
    BY <1>2
  <2>1. PICK k \in Nat : wt \in [1 .. k -> Weights]
    BY <1>4
  <2> QED BY <2>1, ListIn
<1> DEFINE c == [off |-> off, to |-> to, wt |-> wt]
<1>8. CsrTryNew(AdoptSize, to, off, wt) # Invalid <=> CsrOK(c, AdoptSize)
  BY <1>3, <1>5, <1>6, <1>7, CsrAccepted
<1>9. CsrOK(c, AdoptSize) => CsrTryNew(AdoptSize, to, off, wt) = c
  BY <1>3, <1>5, <1>6, <1>7, CsrAccepted
<1> HIDE DEF c
<1> QED BY <1>2, <1>3, <1>8, <1>9

\* A graph made of adopted arrays is sound, or refused.
LEMMA GraphAdopted ==
  ASSUME NEW dir \in BOOLEAN, NEW out \in AdoptedCsrs, NEW incoming \in AdoptedCsrs \cup {None}
  PROVE  LET g == GraphTryNew(dir, out, incoming) IN g = Invalid \/ GraphOK(g)
<1>1. CsrOK(out, AdoptSize) /\ AdoptSize \in Nat /\ (incoming # None => CsrOK(incoming, AdoptSize))
  BY AdoptedOK
<1>2. CASE \/ ~dir /\ incoming # None
           \/ dir /\ incoming # None /\ ~Reverses(out, incoming)
           \/ ~dir /\ ~Reverses(out, out)
  <2>1. GraphTryNew(dir, out, incoming) = Invalid
    BY <1>2 DEF GraphTryNew
  <2> QED BY <2>1
<1>3. CASE ~(\/ ~dir /\ incoming # None
             \/ dir /\ incoming # None /\ ~Reverses(out, incoming)
             \/ ~dir /\ ~Reverses(out, out))
  <2>1. (~dir => Reverses(out, out)) /\ (incoming = None \/ (dir /\ CsrOK(incoming, AdoptSize) /\ Reverses(out, incoming)))
    BY <1>1, <1>3
  <2> QED BY <1>1, <2>1, FreshOK
<1> QED BY <1>2, <1>3

-----------------------------------------------------------------------------
(* prepare_incoming *)

ByTarget(csr, r, s) == Target(csr, r) < Target(csr, s) \/ (Target(csr, r) = Target(csr, s) /\ r < s)

\* The cursors place every arc, by target and then in the order of the rows.
LEMMA CursorOrder ==
  ASSUME NEW n \in Nat, NEW csr, CsrOK(csr, n)
  PROVE  LET N == SlotCount(csr)
             A == ArcsByTarget(csr)
         IN /\ N \in Nat /\ A \in [1 .. N -> Slots(csr)]
            /\ \A s \in Slots(csr) : \E k \in 1 .. N : A[k] = s
            /\ \A i, j \in 1 .. N : i < j => ByTarget(csr, A[i], A[j])
<1> DEFINE S == Slots(csr)
           R == {p \in S \X S : ByTarget(csr, p[1], p[2])}
           rank == [s \in S |-> CursorSlot(csr, s)]
<1>0. /\ SlotCount(csr) \in Nat /\ csr \in Csrs /\ NodeCount(csr) = n
      /\ \A s \in S : Target(csr, s) \in 0 .. n - 1 /\ s \in Int
  BY SlotEnds DEF Slots
<1>1. IsFiniteSet(S) /\ Cardinality(S) = SlotCount(csr) /\ \A T \in SUBSET S : IsFiniteSet(T) /\ Cardinality(T) \in Nat
  BY SlotsFinite
<1>2. \A r, s \in S : <<r, s>> \in R <=> ByTarget(csr, r, s)
  OBVIOUS
<1>3. ASSUME NEW s \in S PROVE CursorSlot(csr, s) = Cardinality({r \in S : <<r, s>> \in R})
  <2> DEFINE t == Target(csr, s)
             B == {r \in S : Target(csr, r) < t}
             E == {r \in S : Target(csr, r) = t /\ r < s}
  <2>1. t + 1 \in DOMAIN csr.off /\ (t + 1) - 1 = t /\ t \in Int
    <3>1. csr.off \in Seq(Nat) /\ Len(csr.off) = n + 1
      BY <1>0 DEF CsrOK, Csrs
    <3>2. t \in 0 .. n - 1
      BY <1>0
    <3> HIDE DEF t
    <3> QED BY <3>1, <3>2
  <2>2. CountsOf(csr)[t + 1] = Cardinality(B)
    <3> HIDE DEF t
    <3>1. CountsOf(csr)[t + 1] = Cardinality({r \in 0 .. SlotCount(csr) - 1 : Target(csr, r) < (t + 1) - 1})
      BY <2>1 DEF CountsOf
    <3> QED BY <2>1, <3>1 DEF Slots
  <2>3. {r \in ArcsInto(csr, t) : r < s} = E
    BY DEF ArcsInto, Slots
  <2>4. CursorSlot(csr, s) = Cardinality(B) + Cardinality(E)
    BY <2>2, <2>3 DEF CursorSlot
  <2>5. {r \in S : <<r, s>> \in R} = B \cup E /\ B \cap E = {}
    <3> HIDE DEF R, S
    <3>1. \A r \in S : Target(csr, r) \in Int
      BY <1>0
    <3> QED BY <1>2, <2>1, <3>1 DEF ByTarget
  <2>6. IsFiniteSet(B) /\ IsFiniteSet(E) /\ Cardinality(B) \in Nat /\ Cardinality(E) \in Nat
    BY <1>1
  <2>7. Cardinality(B \cup E) = Cardinality(B) + Cardinality(E)
    <3> HIDE DEF B, E
    <3>1. Cardinality(B \cap E) = 0
      BY <2>5, FS_EmptySet
    <3>2. Cardinality(B \cup E) = Cardinality(B) + Cardinality(E) - Cardinality(B \cap E)
      BY <2>6, FS_Union
    <3> QED BY <2>6, <3>1, <3>2
  <2> HIDE DEF B, E, R, S
  <2> QED BY <2>4, <2>5, <2>7
<1>4. rank \in [S -> Nat] /\ \A s \in S : rank[s] = Cardinality({r \in S : <<r, s>> \in R})
  <2> HIDE DEF R, S
  <2>1. \A s \in S : Cardinality({r \in S : <<r, s>> \in R}) \in Nat
    BY <1>1
  <2> QED BY <1>3, <2>1
<1>5. ArcsByTarget(csr) = ByRank(rank)
  BY DEF ArcsByTarget, Slots
<1>6. /\ \A x \in S : <<x, x>> \notin R
      /\ \A x, y \in S : x = y \/ <<x, y>> \in R \/ <<y, x>> \in R
  <2> HIDE DEF R, S
  <2>1. \A x \in S : Target(csr, x) \in Int /\ x \in Int
    BY <1>0
  <2> QED BY <1>2, <2>1 DEF ByTarget
<1>7. \A x, y, z \in S : <<x, y>> \in R /\ <<y, z>> \in R => <<x, z>> \in R
  <2> HIDE DEF R, S
  <2>1. \A x \in S : Target(csr, x) \in Int /\ x \in Int
    BY <1>0
  <2> SUFFICES ASSUME NEW x \in S, NEW y \in S, NEW z \in S, <<x, y>> \in R, <<y, z>> \in R PROVE <<x, z>> \in R
    OBVIOUS
  <2> QED BY <1>2, <2>1 DEF ByTarget
<1> HIDE DEF R, S, rank
<1>8. /\ Cardinality(S) \in Nat
      /\ ByRank(rank) \in [1 .. Cardinality(S) -> S]
      /\ \A x \in S : \E k \in 1 .. Cardinality(S) : ByRank(rank)[k] = x
      /\ \A i, j \in 1 .. Cardinality(S) : i < j => <<ByRank(rank)[i], ByRank(rank)[j]>> \in R
  BY <1>1, <1>4, <1>6, <1>7, OrderBijection
<1> QED BY <1>0, <1>1, <1>2, <1>5, <1>8 DEF S

Transposed(csr) ==
  [off |-> CountsOf(csr), to |-> [k \in DOMAIN csr.to |-> SourceOf(csr, ArcsByTarget(csr)[k])],
   wt |-> WeightsByTarget(csr)]

\* The index that prepare_incoming fills is accepted, and reverses the graph.
LEMMA TransposedOK ==
  ASSUME NEW n \in Nat, NEW csr, CsrOK(csr, n)
  PROVE  LET t == Transposed(csr)
         IN CsrTryNew(n, t.to, t.off, t.wt) = t /\ CsrOK(t, n) /\ Reverses(csr, t)
<1> DEFINE t == Transposed(csr)
           N == SlotCount(csr)
           A == ArcsByTarget(csr)
           key == [k \in 1 .. N |-> Target(csr, A[k])]
<1>0. /\ N \in Nat /\ A \in [1 .. N -> Slots(csr)]
      /\ \A s \in Slots(csr) : \E k \in 1 .. N : A[k] = s
      /\ \A i, j \in 1 .. N : i < j => ByTarget(csr, A[i], A[j])
  BY CursorOrder
<1>1. csr \in Csrs /\ csr.off \in Seq(Nat) /\ csr.to \in Seq(Nat) /\ DOMAIN csr.to = 1 .. N
      /\ Len(csr.off) = n + 1 /\ DOMAIN csr.off = 1 .. n + 1
  <2>1. csr \in Csrs /\ Len(csr.off) = n + 1 /\ csr.off \in Seq(Nat) /\ csr.to \in Seq(Nat) /\ Len(csr.to) = N
    BY DEF CsrOK, Csrs, SlotCount
  <2> QED BY <2>1
<1>2. /\ \A s \in Slots(csr) : SourceOf(csr, s) \in 0 .. n - 1 /\ Target(csr, s) \in 0 .. n - 1 /\ s \in Int
      /\ \A r, s \in Slots(csr) : r < s => \/ SourceOf(csr, r) < SourceOf(csr, s)
                                           \/ SourceOf(csr, r) = SourceOf(csr, s) /\ Target(csr, r) < Target(csr, s)
  BY SlotEnds DEF Slots
<1>3. /\ t.off = CountsOf(csr) /\ t.to = [k \in 1 .. N |-> SourceOf(csr, A[k])]
      /\ t.wt = IF csr.wt = None THEN None ELSE [k \in 1 .. N |-> WeightAt(csr, A[k])]
      /\ t = [off |-> t.off, to |-> t.to, wt |-> t.wt]
  BY <1>1 DEF Transposed, WeightsByTarget
<1> HIDE DEF t, N, A
<1>4. \A k \in 1 .. N : A[k] \in Slots(csr)
  BY <1>0
<1>5. t.to \in [1 .. N -> Nat] /\ t.to \in Seq(Nat) /\ Len(t.to) = N /\ \A k \in 1 .. N : t.to[k] < n
  <2>1. \A k \in 1 .. N : SourceOf(csr, A[k]) \in 0 .. n - 1
    BY <1>2, <1>4
  <2>2. 0 .. n - 1 \subseteq Nat
    OBVIOUS
  <2>3. t.to \in [1 .. N -> 0 .. n - 1]
    BY <1>3, <2>1
  <2>4. t.to \in Seq(Nat) /\ Len(t.to) = N
    BY <1>0, <2>2, <2>3, ListIn
  <2> QED BY <2>3, <2>4
<1>6. csr.wt # None => \A s \in Slots(csr) : WeightAt(csr, s) \in Weights
  <2> SUFFICES ASSUME csr.wt # None, NEW s \in Slots(csr) PROVE WeightAt(csr, s) \in Weights
    OBVIOUS
  <2>1. csr.wt \in Seq(Weights) /\ Len(csr.wt) = N
    BY <1>1 DEF CsrOK, Csrs, SlotCount, N
  <2>2. s + 1 \in 1 .. N
    BY <1>0 DEF Slots, N
  <2> QED BY <2>1, <2>2 DEF WeightAt
<1>7. (t.wt = None <=> csr.wt = None) /\ t.wt \in Seq(Weights) \cup {None} /\ (t.wt # None => Len(t.wt) = N)
  <2>1. CASE csr.wt = None
    BY <1>3, <2>1
  <2>2. CASE csr.wt # None
    <3>1. t.wt \in [1 .. N -> Weights]
      BY <1>3, <1>4, <1>6, <2>2
    <3>2. t.wt \in Seq(Weights) /\ Len(t.wt) = N
      BY <1>0, <3>1, ListIn
    <3> QED BY <2>2, <3>2, Sentinels
  <2> QED BY <2>1, <2>2
<1>8. ASSUME NEW u \in 1 .. n + 1
      PROVE  CountsOf(csr)[u] = CountBelow(key, N, u - 1) /\ CountsOf(csr)[u] \in Nat
  <2> DEFINE S == {s \in Slots(csr) : Target(csr, s) < u - 1}
             K == {k \in 1 .. N : key[k] < u - 1}
             f == [k \in K |-> A[k]]
  <2>1. CountsOf(csr)[u] = Cardinality(S)
    BY <1>1 DEF CountsOf, Slots
  <2>2. f \in [K -> S]
    BY <1>4
  <2>3. \A i, j \in K : f[i] = f[j] => i = j
    <3> SUFFICES ASSUME NEW i \in 1 .. N, NEW j \in 1 .. N, A[i] = A[j] PROVE i = j
      OBVIOUS
    <3>1. A[i] \in Int /\ Target(csr, A[i]) \in Int
      BY <1>2, <1>4
    <3>2. i < j \/ j < i \/ i = j
      BY <1>0
    <3> QED BY <1>0, <3>1, <3>2 DEF ByTarget
  <2>4. \A s \in S : \E k \in K : f[k] = s
    <3> TAKE s \in S
    <3>1. PICK k \in 1 .. N : A[k] = s
      BY <1>0
    <3>2. k \in K
      BY <3>1
    <3> QED BY <3>1, <3>2
  <2>5. IsFiniteSet(S) /\ Cardinality(S) \in Nat
    BY SlotsFinite
  <2> HIDE DEF S, K, f
  <2>6. Cardinality(K) = Cardinality(S)
    BY <2>2, <2>3, <2>4, <2>5, SameSize
  <2> QED BY <2>1, <2>5, <2>6 DEF CountBelow, K
<1>9. t.off \in [1 .. n + 1 -> Nat] /\ t.off \in Seq(Nat) /\ Len(t.off) = n + 1
      /\ \A u \in 1 .. n + 1 : t.off[u] = CountBelow(key, N, u - 1)
  <2>1. DOMAIN CountsOf(csr) = 1 .. n + 1 /\ CountsOf(csr) = [u \in 1 .. n + 1 |-> CountsOf(csr)[u]]
    BY <1>1 DEF CountsOf
  <2>2. t.off \in [1 .. n + 1 -> Nat]
    BY <1>3, <1>8, <2>1
  <2>3. n + 1 \in Nat /\ Nat \subseteq Nat
    OBVIOUS
  <2>4. t.off \in Seq(Nat) /\ Len(t.off) = n + 1
    BY <2>2, <2>3, ListIn
  <2> QED BY <1>3, <1>8, <2>2, <2>4
<1>10. t \in Csrs
  BY <1>3, <1>5, <1>7, <1>9 DEF Csrs
<1>11. key \in [1 .. N -> Nat] /\ \A k \in 1 .. N : key[k] < n
  BY <1>2, <1>4
<1>12. \A i, j \in 1 .. N : i < j => key[i] <= key[j]
  <2> SUFFICES ASSUME NEW i \in 1 .. N, NEW j \in 1 .. N, i < j PROVE Target(csr, A[i]) <= Target(csr, A[j])
    OBVIOUS
  <2>1. Target(csr, A[i]) \in Int /\ Target(csr, A[j]) \in Int
    BY <1>2, <1>4
  <2> QED BY <1>0, <2>1 DEF ByTarget
<1>13. \A i, j \in 1 .. N : i < j /\ key[i] = key[j] => t.to[i] < t.to[j]
  <2> SUFFICES ASSUME NEW i \in 1 .. N, NEW j \in 1 .. N, i < j, Target(csr, A[i]) = Target(csr, A[j])
               PROVE  SourceOf(csr, A[i]) < SourceOf(csr, A[j])
    BY <1>3
  <2>1. /\ A[i] \in Slots(csr) /\ A[j] \in Slots(csr)
        /\ Target(csr, A[i]) \in Int
    BY <1>2, <1>4
  <2>2. A[i] < A[j]
    BY <1>0, <2>1 DEF ByTarget
  <2> QED BY <1>2, <2>1, <2>2
<1> HIDE DEF key
<1>14. CsrOK(t, n) /\ \A s \in Slots(t) : SourceOf(t, s) = key[s + 1]
  <2>1. t.wt # None => Len(t.wt) = N
    BY <1>7
  <2>2. \A k \in 1 .. N : t.to[k] < n
    BY <1>5
  <2>3. N \in Nat /\ Len(t.to) = N /\ Len(t.off) = n + 1 /\ \A u \in 1 .. n + 1 : t.off[u] = CountBelow(key, N, u - 1)
    BY <1>0, <1>5, <1>9
  <2> QED BY ONLY n \in Nat, <1>10, <1>11, <1>12, <1>13, <2>1, <2>2, <2>3, RowsByKey
<1>15. CsrTryNew(n, t.to, t.off, t.wt) = t
  <2>1. CsrOK([off |-> t.off, to |-> t.to, wt |-> t.wt], n)
    BY <1>3, <1>14
  <2>2. CsrTryNew(n, t.to, t.off, t.wt) = [off |-> t.off, to |-> t.to, wt |-> t.wt]
    BY <1>5, <1>7, <1>9, <2>1, CsrAccepted
  <2> QED BY <1>3, <2>2
<1>16. SlotCount(t) = N /\ Slots(t) = Slots(csr)
  BY <1>5 DEF SlotCount, Slots, N
<1>17. ASSUME NEW s \in Slots(csr) PROVE \E r \in Slots(t) : Opposite(csr, s, t, r)
  <2>1. PICK k \in 1 .. N : A[k] = s
    BY <1>0
  <2> DEFINE r == k - 1
  <2>2. r \in Slots(t) /\ r + 1 = k
    BY <1>0, <1>16 DEF Slots, N
  <2>3. SourceOf(t, r) = Target(csr, s)
    BY <1>14, <2>1, <2>2 DEF key
  <2>4. Target(t, r) = SourceOf(csr, s)
    BY <1>3, <2>1, <2>2 DEF Target
  <2>5. WeightAt(t, r) = WeightAt(csr, s)
    <3>1. CASE csr.wt = None
      BY <1>7, <3>1 DEF WeightAt
    <3>2. CASE csr.wt # None
      <4>1. WeightAt(t, r) = t.wt[k]
        BY <1>7, <2>2, <3>2 DEF WeightAt
      <4>2. t.wt[k] = WeightAt(csr, A[k])
        BY <1>3, <3>2
      <4> QED BY <2>1, <4>1, <4>2
    <3> QED BY <3>1, <3>2
  <2> QED BY <2>2, <2>3, <2>4, <2>5 DEF Opposite
<1>18. Reverses(csr, t)
  <2>1. (t.wt = None) = (csr.wt = None)
    BY <1>7
  <2>2. SlotCount(t) = SlotCount(csr)
    BY <1>16 DEF N
  <2> QED BY <1>14, <1>17, <2>1, <2>2, ReversesMeans
<1> QED BY <1>14, <1>15, <1>18 DEF t

\* Setting the incoming index leaves the rest of the graph alone.
LEMMA IncomingSet ==
  ASSUME NEW g \in Graphs, NEW c \in Csrs \cup {None}
  PROVE  LET h == [g EXCEPT !.in = c]
         IN /\ h \in Graphs /\ h.in = c /\ h.names = g.names /\ h.rows = g.rows /\ h.ids = g.ids
            /\ h.out = g.out /\ h.edges = g.edges /\ h.loops = g.loops /\ h.directed = g.directed
BY DEF Graphs

\* Preparing a sound graph leaves it sound.
LEMMA IncomingPrepared ==
  ASSUME NEW g, GraphOK(g)
  PROVE  GraphOK(PrepareIncoming(g))
<1>1. CASE Incoming(g) # None
  BY <1>1 DEF PrepareIncoming
<1>2. CASE Incoming(g) = None
  <2> DEFINE csr == g.out
             n == NodeCount(csr)
             t == Transposed(csr)
  <2>1. n \in Nat /\ CsrOK(csr, n) /\ csr # None /\ g \in Graphs
    BY NodesCounted, Sentinels DEF GraphOK
  <2>2. g.directed
    BY <1>2, <2>1 DEF Incoming
  <2>3. CsrTryNew(n, t.to, t.off, t.wt) = t /\ CsrOK(t, n) /\ Reverses(csr, t)
    <3> HIDE DEF csr, n
    <3> QED BY <2>1, TransposedOK
  <2>4. t \in Csrs
    <3> HIDE DEF csr, n, t
    <3> QED BY <2>1, <2>3, SlotEnds
  <2> DEFINE h == [g EXCEPT !.in = t]
  <2>5. PrepareIncoming(g) = h
    <3>1. /\ t.to = [k \in DOMAIN g.out.to |-> SourceOf(g.out, ArcsByTarget(g.out)[k])]
          /\ t.off = CountsOf(g.out) /\ t.wt = WeightsByTarget(g.out)
      BY DEF Transposed
    <3> HIDE DEF t
    <3> QED BY <1>2, <2>3, <3>1 DEF PrepareIncoming
  <2>6. /\ h \in Graphs /\ h.in = t /\ h.names = g.names /\ h.rows = g.rows /\ h.ids = g.ids
        /\ h.out = g.out /\ h.edges = g.edges /\ h.loops = g.loops /\ h.directed = g.directed
    <3> HIDE DEF t
    <3> QED BY <2>1, <2>4, IncomingSet
  <2> HIDE DEF t, h
  <2>7. \A s \in Slots(g.out) : RowTells(h, s) <=> RowTells(g, s)
    BY <2>6 DEF RowTells
  <2>8. GraphOK(h)
    BY <2>1, <2>2, <2>3, <2>6, <2>7 DEF GraphOK
  <2> QED BY <2>5, <2>8
<1> QED BY <1>1, <1>2

(* Members and their ranks *)

\* Selections are finite sets of numbers.
LEMMA Interval ==
  ASSUME NEW n \in Nat, NEW S \in SUBSET (0 .. n - 1)
  PROVE  IsFiniteSet(S) /\ S \subseteq Int
<1>1. IsFiniteSet(0 .. n - 1)
  BY FS_Interval
<1>2. IsFiniteSet(S)
  BY <1>1, FS_Subset
<1>3. S \subseteq Int
  OBVIOUS
<1> QED BY <1>2, <1>3

\* Members lists a selection in order, and Rank is the place in that list.
LEMMA MembersRanked ==
  ASSUME NEW n \in Nat, NEW S \in SUBSET (0 .. n - 1)
  PROVE  LET members == Members(S)
             m == Cardinality(S)
         IN /\ m \in Nat /\ members \in [1 .. m -> S] /\ Len(members) = m /\ DOMAIN members = 1 .. m
            /\ Range(members) = S
            /\ \A i, j \in 1 .. m : i < j => members[i] < members[j]
            /\ \A k \in 1 .. m : Rank(members, members[k]) = k - 1
            /\ \A v \in S : Rank(members, v) \in 0 .. m - 1 /\ members[Rank(members, v) + 1] = v
            /\ \A v, w \in S : Rank(members, v) < Rank(members, w) <=> v < w
            /\ \A v, w \in S : Rank(members, v) = Rank(members, w) => v = w
<1> DEFINE members == Members(S)
           m == Cardinality(S)
<1>0. S \in SUBSET Int /\ IsFiniteSet(S)
  BY Interval
<1>1. /\ m \in Nat /\ members \in [1 .. m -> S] /\ Len(members) = m
      /\ \A x \in S : \E k \in 1 .. m : members[k] = x
      /\ \A i, j \in 1 .. m : i < j => members[i] < members[j]
  BY <1>0, AscendingList DEF Members
<1> HIDE DEF members, m
<1>2. DOMAIN members = 1 .. m /\ Range(members) = S
  BY <1>1 DEF Range
<1>3. \A i, j \in 1 .. m : members[i] = members[j] => i = j
  <2> SUFFICES ASSUME NEW i \in 1 .. m, NEW j \in 1 .. m, members[i] = members[j], i # j PROVE FALSE
    OBVIOUS
  <2>0. members[i] \in Int
    BY <1>0, <1>1
  <2>1. members[i] \in Int /\ (i < j \/ j < i)
    BY <1>1, <2>0
  <2> QED BY <1>1, <2>1
<1>4. ASSUME NEW k \in 1 .. m PROVE Rank(members, members[k]) = k - 1
  <2> DEFINE I == {i \in 1 .. Len(members) : members[i] = members[k]}
  <2>1. I = {k}
    BY <1>1, <1>3
  <2>2. Rank(members, members[k]) = (IF I # {} THEN Min(I) ELSE 0) - 1
    BY DEF Rank, SelectInSeq
  <2>3. Min({k}) = k
    BY DEF Min
  <2> HIDE DEF I
  <2> QED BY <2>1, <2>2, <2>3
<1>5. ASSUME NEW v \in S PROVE Rank(members, v) \in 0 .. m - 1 /\ members[Rank(members, v) + 1] = v
  <2>1. PICK k \in 1 .. m : members[k] = v
    BY <1>1
  <2>2. Rank(members, v) = k - 1
    BY <1>4, <2>1
  <2> QED BY <1>1, <2>1, <2>2
<1>6. ASSUME NEW v \in S, NEW w \in S
      PROVE  /\ Rank(members, v) < Rank(members, w) <=> v < w
             /\ Rank(members, v) = Rank(members, w) => v = w
  <2> DEFINE i == Rank(members, v)
             j == Rank(members, w)
  <2>1. i \in 0 .. m - 1 /\ members[i + 1] = v /\ j \in 0 .. m - 1 /\ members[j + 1] = w
    BY <1>5
  <2>2. v \in Int /\ w \in Int
    BY <1>0
  <2> HIDE DEF i, j
  <2>3. i + 1 \in 1 .. m /\ j + 1 \in 1 .. m /\ (i < j => i + 1 < j + 1) /\ (j < i => j + 1 < i + 1) /\ (i < j \/ i = j \/ j < i)
    BY <1>1, <2>1
  <2>4. (i < j => v < w) /\ (j < i => w < v) /\ (i = j => v = w)
    BY <1>1, <2>1, <2>3
  <2>5. (i < j <=> v < w) /\ (i = j => v = w)
    <3>1. i \in Int /\ j \in Int
      BY <1>1, <2>1
    <3> QED BY <2>2, <2>3, <2>4, <3>1
  <2> QED BY <2>5 DEF i, j
<1> QED BY <1>1, <1>2, <1>4, <1>5, <1>6 DEF members, m

-----------------------------------------------------------------------------
(* The edges that stay *)

Kept(g, S) == {s \in Canon(g.directed, g.out) : SourceOf(g.out, s) \in S /\ Target(g.out, s) \in S}
KeptEdges(g, members) ==
  LET taken == TakenSlots(g, members)
  IN [i \in DOMAIN taken |-> [source |-> Rank(members, SourceOf(g.out, taken[i])),
                              target |-> Rank(members, Target(g.out, taken[i])),
                              weight |-> WeightAt(g.out, taken[i])]]

\* The slots taken are those of the edges that stay, each once.
LEMMA KeptTaken ==
  ASSUME NEW g, GraphOK(g), NEW S \in SUBSET (0 .. NodeCount(g.out) - 1)
  PROVE  LET taken == TakenSlots(g, Members(S))
             k == Cardinality(Kept(g, S))
         IN /\ k \in Nat /\ taken \in [1 .. k -> Kept(g, S)] /\ Len(taken) = k
            /\ \A s \in Kept(g, S) : \E i \in 1 .. k : taken[i] = s
            /\ \A i, j \in 1 .. k : taken[i] = taken[j] => i = j
<1> DEFINE n == NodeCount(g.out)
           members == Members(S)
           K == Kept(g, S)
           U == UNION {{s \in Row(g.out, m) : Taken(g, members, Rank(members, m), s)} : m \in Range(members)}
<1>0. n \in Nat /\ CsrOK(g.out, n) /\ g.directed \in BOOLEAN
  BY NodesCounted DEF GraphOK, Graphs
<1>1. /\ Range(members) = S
      /\ \A v \in S : Rank(members, v) \in 0 .. Cardinality(S) - 1
      /\ \A v, w \in S : Rank(members, v) < Rank(members, w) <=> v < w
      /\ Cardinality(S) \in Nat
  BY <1>0, MembersRanked
<1>2. /\ \A u \in 0 .. n - 1 : Row(g.out, u) \subseteq Slots(g.out)
      /\ \A s \in Slots(g.out) : SourceOf(g.out, s) \in 0 .. n - 1 /\ s \in Row(g.out, SourceOf(g.out, s))
      /\ \A u \in 0 .. n - 1 : \A s \in Row(g.out, u) : SourceOf(g.out, s) = u
  BY <1>0, SlotEnds
<1>3. ASSUME NEW u \in S, NEW v \in S PROVE Rank(members, v) >= Rank(members, u) <=> v >= u
  <2>1. Rank(members, v) \in Int /\ Rank(members, u) \in Int /\ u \in Int /\ v \in Int
    BY <1>0, <1>1
  <2> HIDE DEF members
  <2> QED BY <1>1, <2>1
<1>4. ASSUME NEW u \in S, NEW s \in Row(g.out, u)
      PROVE  Taken(g, members, Rank(members, u), s) <=> s \in K
  <2>1. u \in 0 .. n - 1 /\ s \in Slots(g.out) /\ SourceOf(g.out, s) = u
    BY <1>2
  <2> HIDE DEF members, n
  <2> QED BY <1>1, <1>3, <2>1 DEF Taken, Kept, Canon
<1>5. U = K
  <2>1. \A s \in U : \E u \in S : s \in Row(g.out, u) /\ Taken(g, members, Rank(members, u), s)
    <3> HIDE DEF members
    <3> QED BY <1>1
  <2>2. \A s \in K : SourceOf(g.out, s) \in S /\ s \in Row(g.out, SourceOf(g.out, s))
    BY <1>2 DEF Kept, Canon
  <2>3. \A u \in S : \A s \in Row(g.out, u) : Taken(g, members, Rank(members, u), s) => s \in U
    <3> HIDE DEF members
    <3> QED BY <1>1
  <2> HIDE DEF U, K, members
  <2> QED BY <1>4, <2>1, <2>2, <2>3
<1>6. K \in SUBSET Int /\ IsFiniteSet(K)
  <2>1. K \subseteq Slots(g.out)
    BY DEF Kept, Canon
  <2>2. Slots(g.out) \subseteq Int
    BY <1>0, SlotEnds DEF Slots
  <2> HIDE DEF K, n
  <2> QED BY <1>0, <2>1, <2>2, SlotsFinite
<1> DEFINE taken == TakenSlots(g, members)
<1>7. taken = Ascending(K)
  BY <1>5 DEF TakenSlots
<1> HIDE DEF K, U
<1>8. /\ Cardinality(K) \in Nat /\ Ascending(K) \in [1 .. Cardinality(K) -> K] /\ Len(Ascending(K)) = Cardinality(K)
      /\ \A x \in K : \E k \in 1 .. Cardinality(K) : Ascending(K)[k] = x
      /\ \A i, j \in 1 .. Cardinality(K) : i < j => Ascending(K)[i] < Ascending(K)[j]
  BY <1>6, AscendingList
<1>9. \A i, j \in 1 .. Cardinality(K) : Ascending(K)[i] = Ascending(K)[j] => i = j
  <2> SUFFICES ASSUME NEW i \in 1 .. Cardinality(K), NEW j \in 1 .. Cardinality(K), Ascending(K)[i] = Ascending(K)[j], i # j
               PROVE  FALSE
    OBVIOUS
  <2>0. Ascending(K)[i] \in Int
    BY <1>6, <1>8
  <2>1. Ascending(K)[i] \in Int /\ (i < j \/ j < i)
    BY <1>8, <2>0
  <2> QED BY <1>8, <2>1
<1> HIDE DEF taken
<1> QED BY <1>7, <1>8, <1>9 DEF K, taken

\* The edges taken are acceptable, simple, and weighted as in the base.
LEMMA EdgesKept ==
  ASSUME NEW g, GraphOK(g), NEW S \in SUBSET (0 .. NodeCount(g.out) - 1)
  PROVE  LET members == Members(S)
             taken == TakenSlots(g, members)
             edges == KeptEdges(g, members)
         IN /\ edges \in Seq(Edges) /\ DOMAIN edges = DOMAIN taken /\ Len(edges) = Len(taken)
            /\ \A i \in DOMAIN edges :
                 /\ taken[i] \in Kept(g, S)
                 /\ edges[i].source = Rank(members, SourceOf(g.out, taken[i]))
                 /\ edges[i].target = Rank(members, Target(g.out, taken[i]))
                 /\ edges[i].weight = WeightAt(g.out, taken[i])
                 /\ Acceptable(Len(members), g.out.wt # None, edges[i])
            /\ \A s \in Kept(g, S) : \E i \in DOMAIN edges : taken[i] = s
            /\ Simple(g.directed, edges)
<1> DEFINE n == NodeCount(g.out)
           members == Members(S)
           m == Cardinality(S)
           K == Kept(g, S)
           taken == TakenSlots(g, members)
           k == Cardinality(K)
           edges == KeptEdges(g, members)
<1>0. n \in Nat /\ CsrOK(g.out, n) /\ g.directed \in BOOLEAN
  BY NodesCounted DEF GraphOK, Graphs
<1>1. /\ m \in Nat /\ Len(members) = m
      /\ \A v \in S : Rank(members, v) \in 0 .. m - 1
      /\ \A v, w \in S : Rank(members, v) = Rank(members, w) => v = w
  BY <1>0, MembersRanked
<1>2. /\ k \in Nat /\ taken \in [1 .. k -> K] /\ Len(taken) = k
      /\ \A s \in K : \E i \in 1 .. k : taken[i] = s
      /\ \A i, j \in 1 .. k : taken[i] = taken[j] => i = j
  BY KeptTaken
<1>3. \A s \in K : /\ s \in Slots(g.out) /\ SourceOf(g.out, s) \in S /\ Target(g.out, s) \in S
                   /\ ~g.directed => Target(g.out, s) >= SourceOf(g.out, s)
  BY DEF Kept, Canon
<1>4. \A s \in Slots(g.out) : WeightAt(g.out, s) \in Weights /\ (g.out.wt = None => WeightAt(g.out, s) = 1)
  <2> TAKE s \in Slots(g.out)
  <2>1. CASE g.out.wt = None
    BY <2>1, Sentinels DEF WeightAt
  <2>2. CASE g.out.wt # None
    <3>1. g.out.wt \in Seq(Weights) /\ Len(g.out.wt) = SlotCount(g.out) /\ SlotCount(g.out) \in Nat
      BY <1>0, <2>2 DEF CsrOK, Csrs, SlotCount
    <3>2. s + 1 \in 1 .. SlotCount(g.out)
      BY <3>1 DEF Slots
    <3> QED BY <2>2, <3>1, <3>2 DEF WeightAt
  <2> QED BY <2>1, <2>2
<1> HIDE DEF K, k, taken, m
<1>5. DOMAIN edges = 1 .. k /\ DOMAIN taken = 1 .. k
      /\ \A i \in 1 .. k : edges[i] = [source |-> Rank(members, SourceOf(g.out, taken[i])),
                                       target |-> Rank(members, Target(g.out, taken[i])),
                                       weight |-> WeightAt(g.out, taken[i])]
  BY <1>2 DEF KeptEdges, taken
<1>5a. edges = [i \in 1 .. k |-> edges[i]]
  BY <1>2 DEF KeptEdges, taken
<1> HIDE DEF edges, members, n
<1>6. ASSUME NEW i \in 1 .. k
      PROVE  /\ taken[i] \in K /\ edges[i].source = Rank(members, SourceOf(g.out, taken[i]))
             /\ edges[i].target = Rank(members, Target(g.out, taken[i]))
             /\ edges[i].weight = WeightAt(g.out, taken[i])
             /\ edges[i].source \in 0 .. m - 1 /\ edges[i].target \in 0 .. m - 1
             /\ edges[i] \in Edges /\ Acceptable(Len(members), g.out.wt # None, edges[i])
  <2>1. /\ taken[i] \in K /\ edges[i].source = Rank(members, SourceOf(g.out, taken[i]))
        /\ edges[i].target = Rank(members, Target(g.out, taken[i]))
        /\ edges[i].weight = WeightAt(g.out, taken[i])
        /\ edges[i] = [source |-> edges[i].source, target |-> edges[i].target, weight |-> edges[i].weight]
    BY <1>2, <1>5
  <2>2. edges[i].source \in 0 .. m - 1 /\ edges[i].target \in 0 .. m - 1
    BY <1>1, <1>3, <2>1
  <2>3. edges[i].weight \in Weights /\ (g.out.wt = None => edges[i].weight = 1)
    BY <1>3, <1>4, <2>1
  <2>4. edges[i].source \in Nat /\ edges[i].target \in Nat /\ edges[i].source < m /\ edges[i].target < m
    BY <1>1, <2>2
  <2>5. edges[i] \in Edges
    BY <2>1, <2>3, <2>4 DEF Edges
  <2>6. Acceptable(Len(members), g.out.wt # None, edges[i])
    BY <1>1, <2>3, <2>4, Sentinels DEF Acceptable
  <2> QED BY <2>1, <2>2, <2>5, <2>6
<1>7. edges \in Seq(Edges) /\ Len(edges) = k
  <2>0. [i \in 1 .. k |-> edges[i]] \in [1 .. k -> Edges]
    BY <1>6
  <2>1. edges \in [1 .. k -> Edges]
    BY ONLY <1>5a, <2>0
  <2> QED BY <1>2, <2>1, ListIn
<1>8. Simple(g.directed, edges)
  <2> SUFFICES ASSUME NEW i \in 1 .. k, NEW j \in 1 .. k, i # j, Joined(g.directed, edges[i], edges[j])
               PROVE  FALSE
    BY <1>5 DEF Simple
  <2> DEFINE r == taken[i]
             s == taken[j]
  <2>1. /\ r \in Slots(g.out) /\ SourceOf(g.out, r) \in S /\ Target(g.out, r) \in S
        /\ ~g.directed => Target(g.out, r) >= SourceOf(g.out, r)
        /\ s \in Slots(g.out) /\ SourceOf(g.out, s) \in S /\ Target(g.out, s) \in S
        /\ ~g.directed => Target(g.out, s) >= SourceOf(g.out, s)
    BY <1>3, <1>6
  <2>2. /\ edges[i].source = Rank(members, SourceOf(g.out, r)) /\ edges[i].target = Rank(members, Target(g.out, r))
        /\ edges[j].source = Rank(members, SourceOf(g.out, s)) /\ edges[j].target = Rank(members, Target(g.out, s))
    BY <1>6
  <2>3. r # s
    BY <1>2
  <2> HIDE DEF r, s
  <2>4. \/ SourceOf(g.out, r) = SourceOf(g.out, s) /\ Target(g.out, r) = Target(g.out, s)
        \/ ~g.directed /\ SourceOf(g.out, r) = Target(g.out, s) /\ Target(g.out, r) = SourceOf(g.out, s)
    BY <1>1, <2>1, <2>2 DEF Joined
  <2>5. SourceOf(g.out, r) \in Int /\ SourceOf(g.out, s) \in Int /\ Target(g.out, r) \in Int /\ Target(g.out, s) \in Int
    BY <1>0, <2>1, SlotEnds
  <2>6. SourceOf(g.out, r) = SourceOf(g.out, s) /\ Target(g.out, r) = Target(g.out, s)
    BY <2>1, <2>4, <2>5
  <2> QED BY <1>0, <2>1, <2>3, <2>6, SlotEnds
<1>9. \A s \in K : \E i \in DOMAIN edges : taken[i] = s
  BY <1>2, <1>5
<1>10. DOMAIN edges = DOMAIN taken /\ Len(edges) = Len(taken)
  BY <1>2, <1>5, <1>7
<1> QED BY <1>5, <1>6, <1>7, <1>8, <1>9, <1>10 DEF K, edges, members, taken

\* Searching the edge list again finds the row build used.
LEMMA IdsFound ==
  ASSUME NEW n \in Nat, NEW csr, CsrOK(csr, n), NEW dir \in BOOLEAN, ~dir => Reverses(csr, csr),
         NEW edges \in Seq(Edges), Simple(dir, edges), NEW ids, Follows(dir, csr, edges, ids),
         NEW compact, compact.out = csr, compact.directed = dir
  PROVE  SlotIds(compact, edges) = ids
<1> DEFINE N == SlotCount(csr)
           found == SlotIds(compact, edges)
<1>0. /\ \A s \in Slots(csr), i \in DOMAIN edges : Joins(dir, csr, s, edges[i]) => ids[s + 1] = i - 1
      /\ ids \in [1 .. N -> Nat]
      /\ \A s \in Slots(csr) : ids[s + 1] + 1 \in DOMAIN edges /\ Joins(dir, csr, s, edges[ids[s + 1] + 1])
  <2>1. \A s \in Slots(csr), i \in DOMAIN edges : Joins(dir, csr, s, edges[i]) => ids[s + 1] = i - 1
    BY EdgeForSlot
  <2>2. ids \in [1 .. N -> Nat]
    BY DEF Follows
  <2>3. \A s \in Slots(csr) : ids[s + 1] + 1 \in DOMAIN edges /\ Joins(dir, csr, s, edges[ids[s + 1] + 1])
    BY DEF Follows
  <2> QED BY <2>1, <2>2, <2>3
<1>1. N \in Nat
  BY SlotEnds
<1>2. DOMAIN edges = 1 .. Len(edges) /\ Len(edges) \in Nat
  OBVIOUS
<1>3. ASSUME NEW k \in 1 .. N PROVE found[k] = ids[k]
  <2> DEFINE s == k - 1
             IsEdge(e) == \/ e.source = SourceOf(csr, s) /\ e.target = Target(csr, s)
                          \/ ~dir /\ e.source = Target(csr, s) /\ e.target = SourceOf(csr, s)
             I == {i \in 1 .. Len(edges) : IsEdge(edges[i])}
             x == ids[k] + 1
  <2>1. found[k] = SelectLastInSeq(edges, IsEdge) - 1
    BY DEF SlotIds
  <2>2. SelectLastInSeq(edges, IsEdge) = IF I # {} THEN Max(I) ELSE 0
    BY DEF SelectLastInSeq
  <2>3. s \in Slots(csr) /\ s + 1 = k
    BY <1>1 DEF Slots
  <2>4. \A e : IsEdge(e) <=> Joins(dir, csr, s, e)
    BY DEF Joins
  <2> HIDE DEF s, IsEdge, N
  <2>5. x \in 1 .. Len(edges) /\ x \in Int /\ IsEdge(edges[x]) /\ x - 1 = ids[k]
    BY <1>0, <1>2, <2>3, <2>4
  <2>6. \A i \in 1 .. Len(edges) : IsEdge(edges[i]) => i = x
    <3> TAKE i \in 1 .. Len(edges)
    <3> HAVE IsEdge(edges[i])
    <3>1. ids[k] = i - 1
      BY <1>0, <1>2, <2>3, <2>4
    <3> QED BY <1>2, <3>1
  <2> HIDE DEF x
  <2>7. I = {x}
    BY <2>5, <2>6
  <2>8. Max({x}) = x
    BY <2>5 DEF Max
  <2> HIDE DEF I, found
  <2> QED BY <2>1, <2>2, <2>5, <2>7, <2>8
<1>4. DOMAIN found = 1 .. N /\ found = [k \in 1 .. N |-> found[k]]
  BY DEF SlotIds
<1>5. DOMAIN ids = 1 .. N /\ ids = [k \in 1 .. N |-> ids[k]]
  BY <1>0
<1> HIDE DEF found, N
<1>6. [k \in 1 .. N |-> found[k]] = [k \in 1 .. N |-> ids[k]]
  BY <1>3
<1>7. found = ids
  BY ONLY <1>4, <1>5, <1>6
<1> QED BY <1>7 DEF found

\* The compact graph before its columns are attached.
LEMMA CompactBuilt ==
  ASSUME NEW g, GraphOK(g), NEW S \in SUBSET (0 .. NodeCount(g.out) - 1)
  PROVE  LET members == Members(S)
             edges == KeptEdges(g, members)
             m == Cardinality(S)
         IN \E csr, ids :
              /\ FromEdges(Len(members), g.directed, g.out.wt # None, edges) = Fresh(g.directed, csr, None)
              /\ FromEdges(Len(members), g.directed, g.out.wt # None, edges) # Invalid
              /\ m \in Nat /\ CsrOK(csr, m) /\ (csr.wt = None <=> g.out.wt = None)
              /\ ~g.directed => Reverses(csr, csr)
              /\ Follows(g.directed, csr, edges, ids) /\ ids \in Seq(Nat)
              /\ LogicalEdges(g.directed, csr) = Len(edges)
<1> DEFINE members == Members(S)
           edges == KeptEdges(g, members)
           m == Cardinality(S)
           wtd == g.out.wt # None
           built == Build(m, g.directed, wtd, edges)
<1>0. NodeCount(g.out) \in Nat /\ g.directed \in BOOLEAN /\ wtd \in BOOLEAN
  BY NodesCounted DEF GraphOK, Graphs
<1>1. m \in Nat /\ Len(members) = m
  BY <1>0, MembersRanked
<1>2. edges \in Seq(Edges) /\ (\A i \in DOMAIN edges : Acceptable(m, wtd, edges[i])) /\ Simple(g.directed, edges)
  BY <1>1, EdgesKept
<1> HIDE DEF edges, members, m, wtd
<1>3. PICK csr, ids :
        /\ built = [graph |-> Fresh(g.directed, csr, None), ids |-> ids] /\ built # Invalid
        /\ CsrOK(csr, m) /\ (csr.wt = None <=> ~wtd) /\ (~g.directed => Reverses(csr, csr))
        /\ Follows(g.directed, csr, edges, ids) /\ ids \in Seq(Nat)
        /\ LogicalEdges(g.directed, csr) = Len(edges)
  BY ONLY <1>0, <1>1, <1>2, BuildDone
<1>4. FromEdges(Len(members), g.directed, wtd, edges) = Fresh(g.directed, csr, None)
  BY <1>1, <1>3 DEF FromEdges
<1>5. Fresh(g.directed, csr, None) # Invalid
  <2>1. Fresh(g.directed, csr, None) \in Graphs
    BY <1>0, <1>1, <1>3, FreshGraph
  <2> QED BY <2>1, TablesAssumption
<1>6. (csr.wt = None) <=> (g.out.wt = None)
  BY <1>3 DEF wtd
<1> QED BY <1>1, <1>3, <1>4, <1>5, <1>6 DEF edges, members, m, wtd

\* An arc between members is an arc between their ranks.
LEMMA ArcsKept ==
  ASSUME NEW g, GraphOK(g), NEW S \in SUBSET (0 .. NodeCount(g.out) - 1),
         NEW csr, CsrOK(csr, Cardinality(S)), ~g.directed => Reverses(csr, csr),
         NEW ids, Follows(g.directed, csr, KeptEdges(g, Members(S)), ids)
  PROVE  \A v, w \in S :
           (\E s \in Slots(csr) : SourceOf(csr, s) = Rank(Members(S), v) /\ Target(csr, s) = Rank(Members(S), w))
           <=> \E t \in Slots(g.out) : SourceOf(g.out, t) = v /\ Target(g.out, t) = w
<1> DEFINE members == Members(S)
           m == Cardinality(S)
           taken == TakenSlots(g, members)
           edges == KeptEdges(g, members)
           n == NodeCount(g.out)
<1>0. n \in Nat /\ CsrOK(g.out, n) /\ g.directed \in BOOLEAN /\ (~g.directed => Reverses(g.out, g.out))
  BY NodesCounted DEF GraphOK, Graphs
<1>1. m \in Nat /\ \A v, w \in S : Rank(members, v) = Rank(members, w) => v = w
  BY <1>0, MembersRanked
<1>2. /\ \A i \in DOMAIN edges : /\ taken[i] \in Kept(g, S)
                                 /\ edges[i].source = Rank(members, SourceOf(g.out, taken[i]))
                                 /\ edges[i].target = Rank(members, Target(g.out, taken[i]))
      /\ \A s \in Kept(g, S) : \E i \in DOMAIN edges : taken[i] = s
  <2>1. \A i \in DOMAIN edges : /\ taken[i] \in Kept(g, S)
                                /\ edges[i].source = Rank(members, SourceOf(g.out, taken[i]))
                                /\ edges[i].target = Rank(members, Target(g.out, taken[i]))
    BY EdgesKept
  <2>2. \A s \in Kept(g, S) : \E i \in DOMAIN edges : taken[i] = s
    BY EdgesKept
  <2> QED BY <2>1, <2>2
<1>3. /\ \A s \in Slots(csr) : ids[s + 1] + 1 \in DOMAIN edges /\ Joins(g.directed, csr, s, edges[ids[s + 1] + 1])
      /\ \A i \in DOMAIN edges : \E s \in Slots(csr) :
           SourceOf(csr, s) = edges[i].source /\ Target(csr, s) = edges[i].target
  BY DEF Follows
<1>4. \A s \in Kept(g, S) : s \in Slots(g.out) /\ SourceOf(g.out, s) \in S /\ Target(g.out, s) \in S
  BY DEF Kept, Canon
<1> HIDE DEF members, taken, edges, m, n
<1>5. ASSUME NEW v \in S, NEW w \in S, NEW s \in Slots(csr),
             SourceOf(csr, s) = Rank(members, v), Target(csr, s) = Rank(members, w)
      PROVE  \E t \in Slots(g.out) : SourceOf(g.out, t) = v /\ Target(g.out, t) = w
  <2> DEFINE i == ids[s + 1] + 1
             t == taken[i]
  <2>1. i \in DOMAIN edges /\ Joins(g.directed, csr, s, edges[i])
    BY <1>3
  <2>2. /\ t \in Slots(g.out) /\ SourceOf(g.out, t) \in S /\ Target(g.out, t) \in S
        /\ edges[i].source = Rank(members, SourceOf(g.out, t)) /\ edges[i].target = Rank(members, Target(g.out, t))
    BY <1>2, <1>4, <2>1
  <2> HIDE DEF i, t
  <2>3. \/ SourceOf(g.out, t) = v /\ Target(g.out, t) = w
        \/ ~g.directed /\ SourceOf(g.out, t) = w /\ Target(g.out, t) = v
    BY <1>1, <1>5, <2>1, <2>2 DEF Joins
  <2>4. CASE SourceOf(g.out, t) = v /\ Target(g.out, t) = w
    BY <2>2, <2>4
  <2>5. CASE ~g.directed /\ SourceOf(g.out, t) = w /\ Target(g.out, t) = v
    <3>1. PICK r \in Slots(g.out) : Opposite(g.out, t, g.out, r)
      BY <1>0, <2>2, <2>5, OppositesAll
    <3> QED BY <2>5, <3>1 DEF Opposite
  <2> QED BY <2>3, <2>4, <2>5
<1>6. ASSUME NEW t \in Kept(g, S)
      PROVE  \E s \in Slots(csr) : /\ SourceOf(csr, s) = Rank(members, SourceOf(g.out, t))
                                   /\ Target(csr, s) = Rank(members, Target(g.out, t))
  <2>1. PICK i \in DOMAIN edges : taken[i] = t
    BY <1>2
  <2> QED BY <1>2, <1>3, <2>1
<1>7. ASSUME NEW v \in S, NEW w \in S, NEW t \in Slots(g.out), SourceOf(g.out, t) = v, Target(g.out, t) = w
      PROVE  \E s \in Slots(csr) : SourceOf(csr, s) = Rank(members, v) /\ Target(csr, s) = Rank(members, w)
  <2>1. CASE t \in Kept(g, S)
    BY <1>6, <1>7, <2>1
  <2>2. CASE t \notin Kept(g, S)
    <3>1. ~g.directed /\ ~(w >= v)
      BY <1>7, <2>2 DEF Kept, Canon
    <3>2. PICK r \in Slots(g.out) : Opposite(g.out, t, g.out, r)
      BY <1>0, <1>7, <3>1, OppositesAll
    <3>3. SourceOf(g.out, r) = w /\ Target(g.out, r) = v
      BY <1>7, <3>2 DEF Opposite
    <3>4. v \in Int /\ w \in Int
      BY <1>0 DEF n
    <3>5. r \in Kept(g, S)
      BY <3>1, <3>2, <3>3, <3>4 DEF Kept, Canon
    <3>6. PICK s \in Slots(csr) : SourceOf(csr, s) = Rank(members, w) /\ Target(csr, s) = Rank(members, v)
      BY <1>6, <3>3, <3>5
    <3>7. PICK q \in Slots(csr) : Opposite(csr, s, csr, q)
      <4>1. Reverses(csr, csr) /\ CsrOK(csr, m)
        BY <3>1 DEF m
      <4> QED BY <1>1, <3>6, <4>1, OppositesAll
    <3> QED BY <3>6, <3>7 DEF Opposite
  <2> QED BY <2>1, <2>2
<1> QED BY <1>5, <1>7 DEF members

\* The rows of an adjacency as increasing lists.
RowTold(csr, n, u, k) ==
  /\ Neighbors(csr, u) \in [1 .. k -> 0 .. n - 1] /\ Len(Neighbors(csr, u)) = k
  /\ \A i, j \in 1 .. k : i < j => Neighbors(csr, u)[i] < Neighbors(csr, u)[j]
  /\ \A v : (\E i \in 1 .. k : Neighbors(csr, u)[i] = v)
            <=> \E s \in Slots(csr) : SourceOf(csr, s) = u /\ Target(csr, s) = v

\* Every row of a sound adjacency is such a list.
LEMMA RowListed ==
  ASSUME NEW n \in Nat, NEW csr, CsrOK(csr, n), NEW u \in 0 .. n - 1
  PROVE  \E k \in Nat : RowTold(csr, n, u, k)
<1> DEFINE a == csr.off[u + 1]
           k == csr.off[u + 2] - csr.off[u + 1]
           row == Neighbors(csr, u)
<1>0. /\ NodeCount(csr) = n /\ csr \in Csrs /\ Row(csr, u) \subseteq Slots(csr)
      /\ \A s \in Slots(csr) : s \in Row(csr, SourceOf(csr, s)) /\ Target(csr, s) \in 0 .. n - 1
      /\ \A s \in Row(csr, u) : SourceOf(csr, s) = u
  BY SlotEnds
<1>1. Len(csr.off) = n + 1 /\ csr.off[u + 1] <= csr.off[u + 2] /\ csr.off[u + 2] <= Len(csr.to)
  BY DEF CsrOK
<1>2. /\ a \in Nat /\ csr.off[u + 2] \in Nat /\ row \in [1 .. k -> Nat] /\ Len(row) = k
      /\ \A i \in 1 .. k : a + i - 1 \in Row(csr, u) /\ row[i] = Target(csr, a + i - 1)
      /\ \A s \in Row(csr, u) : s - a + 1 \in 1 .. k /\ row[s - a + 1] = Target(csr, s)
  BY <1>0, <1>1, RowLists
<1>3. k \in Nat
  BY <1>1, <1>2
<1>4. \A i, j \in DOMAIN row : i < j => row[i] < row[j]
  BY <1>0, RowsWellFormed DEF WellFormed
<1> HIDE DEF a, k, row
<1>5. DOMAIN row = 1 .. k
  BY <1>2
<1>6. row \in [1 .. k -> 0 .. n - 1]
  <2>1. \A i \in 1 .. k : row[i] \in 0 .. n - 1
    BY <1>0, <1>2
  <2>2. row = [i \in 1 .. k |-> row[i]]
    BY <1>2
  <2>3. [i \in 1 .. k |-> row[i]] \in [1 .. k -> 0 .. n - 1]
    BY <2>1
  <2> QED BY ONLY <2>2, <2>3
<1>7. ASSUME NEW v
      PROVE  (\E i \in 1 .. k : row[i] = v) <=> \E s \in Slots(csr) : SourceOf(csr, s) = u /\ Target(csr, s) = v
  <2>1. ASSUME NEW i \in 1 .. k, row[i] = v
        PROVE  \E s \in Slots(csr) : SourceOf(csr, s) = u /\ Target(csr, s) = v
    <3>1. a + i - 1 \in Row(csr, u) /\ Target(csr, a + i - 1) = v
      BY <1>2, <2>1
    <3> QED BY <1>0, <3>1
  <2>2. ASSUME NEW s \in Slots(csr), SourceOf(csr, s) = u, Target(csr, s) = v
        PROVE  \E i \in 1 .. k : row[i] = v
    <3>1. s \in Row(csr, u)
      BY <1>0, <2>2
    <3> QED BY <1>2, <2>2, <3>1
  <2> QED BY <2>1, <2>2
<1>8. Len(row) = k
  BY <1>2
<1>9. RowTold(csr, n, u, k)
  BY <1>4, <1>5, <1>6, <1>7, <1>8 DEF row, RowTold
<1> QED BY <1>3, <1>9

\* What MembersRanked says, for the members of a selection of a graph.
LEMMA Selected ==
  ASSUME NEW g, GraphOK(g), NEW S \in SUBSET (0 .. NodeCount(g.out) - 1)
  PROVE  /\ Cardinality(S) \in Nat /\ Len(Members(S)) = Cardinality(S)
         /\ DOMAIN Members(S) = 1 .. Cardinality(S) /\ Range(Members(S)) = S
         /\ \A k \in 1 .. Cardinality(S) : Members(S)[k] \in S /\ Rank(Members(S), Members(S)[k]) = k - 1
         /\ \A v \in S : /\ Rank(Members(S), v) \in 0 .. Cardinality(S) - 1
                         /\ Members(S)[Rank(Members(S), v) + 1] = v
         /\ \A v, w \in S : Rank(Members(S), v) < Rank(Members(S), w) <=> v < w
<1> DEFINE n == NodeCount(g.out)
           members == Members(S)
           m == Cardinality(S)
<1>1. n \in Nat
  BY NodesCounted
<1>2. S \in SUBSET (0 .. n - 1)
  OBVIOUS
<1> HIDE DEF n
<1>3. /\ m \in Nat /\ members \in [1 .. m -> S] /\ Len(members) = m /\ DOMAIN members = 1 .. m
      /\ Range(members) = S
      /\ \A k \in 1 .. m : Rank(members, members[k]) = k - 1
      /\ \A v \in S : Rank(members, v) \in 0 .. m - 1 /\ members[Rank(members, v) + 1] = v
      /\ \A v, w \in S : Rank(members, v) < Rank(members, w) <=> v < w
  BY ONLY <1>1, <1>2, MembersRanked
<1> HIDE DEF members, m
<1>4. \A k \in 1 .. m : members[k] \in S
  BY <1>3
<1>5. /\ m \in Nat /\ Len(members) = m /\ DOMAIN members = 1 .. m /\ Range(members) = S
      /\ \A k \in 1 .. m : members[k] \in S /\ Rank(members, members[k]) = k - 1
      /\ \A v \in S : Rank(members, v) \in 0 .. m - 1 /\ members[Rank(members, v) + 1] = v
      /\ \A v, w \in S : Rank(members, v) < Rank(members, w) <=> v < w
  BY <1>3, <1>4
<1> QED BY <1>5 DEF members, m

\* A selection of a sound graph materializes into a sound graph.
LEMMA Materialized ==
  ASSUME NEW g, GraphOK(g), NEW S \in SUBSET (0 .. NodeCount(g.out) - 1)
  PROVE  \E csr, ids :
           /\ GraphOK(Materialize(g, Members(S))) /\ Materialize(g, Members(S)).out = csr
           /\ Cardinality(S) \in Nat /\ CsrOK(csr, Cardinality(S)) /\ (~g.directed => Reverses(csr, csr))
           /\ Follows(g.directed, csr, KeptEdges(g, Members(S)), ids)
<1> DEFINE members == Members(S)
           m == Cardinality(S)
           taken == TakenSlots(g, members)
           edges == KeptEdges(g, members)
           n == NodeCount(g.out)
           dir == g.directed
           compact == FromEdges(Len(members), dir, g.out.wt # None, edges)
           names == IF g.names = None THEN None ELSE [i \in DOMAIN members |-> g.names[members[i] + 1]]
           rows == IF g.rows = None THEN None ELSE RowsTaken(g, taken)
           found == IF rows = None THEN None ELSE SlotIds(compact, edges)
<1>0. n \in Nat /\ CsrOK(g.out, n) /\ dir \in BOOLEAN /\ g \in Graphs
  BY NodesCounted DEF GraphOK, Graphs
<1>1. Materialize(g, members) = IF compact = Invalid THEN Invalid ELSE WithProperties(compact, names, rows, found)
  BY DEF Materialize, KeptEdges
<1>2. /\ m \in Nat /\ Len(members) = m /\ DOMAIN members = 1 .. m
      /\ \A k \in 1 .. m : members[k] \in S
      /\ \A v \in S : Rank(members, v) \in 0 .. m - 1 /\ members[Rank(members, v) + 1] = v
  BY Selected
<1>3. edges \in Seq(Edges) /\ DOMAIN edges = DOMAIN taken /\ Len(edges) = Len(taken) /\ Simple(dir, edges)
  BY EdgesKept
<1>4. \A i \in DOMAIN edges :
        /\ taken[i] \in Kept(g, S)
        /\ edges[i].source = Rank(members, SourceOf(g.out, taken[i]))
        /\ edges[i].target = Rank(members, Target(g.out, taken[i]))
        /\ edges[i].weight = WeightAt(g.out, taken[i])
  BY EdgesKept
<1>5. PICK csr, ids :
        /\ compact = Fresh(dir, csr, None) /\ compact # Invalid
        /\ m \in Nat /\ CsrOK(csr, m) /\ (csr.wt = None <=> g.out.wt = None)
        /\ ~dir => Reverses(csr, csr)
        /\ Follows(dir, csr, edges, ids) /\ ids \in Seq(Nat)
        /\ LogicalEdges(dir, csr) = Len(edges)
  BY CompactBuilt
<1> HIDE DEF members, m, taken, edges, n, dir, compact, names, rows, found
<1>6. Materialize(g, members) = WithProperties(compact, names, rows, found)
  BY <1>1, <1>5
<1>7. GraphOK(compact) /\ compact.out = csr /\ compact.directed = dir /\ compact.edges = Len(edges)
      /\ compact.in = None /\ compact.loops = Loops(csr) /\ NodeCount(csr) = m /\ compact \in Graphs
  <2>1. GraphOK(Fresh(dir, csr, None))
    BY <1>0, <1>5, FreshOK
  <2>2. compact = Fresh(dir, csr, None)
    BY <1>5
  <2>3. /\ compact.out = csr /\ compact.directed = dir /\ compact.edges = LogicalEdges(dir, csr)
        /\ compact.in = None /\ compact.loops = Loops(csr)
    BY <2>2 DEF Fresh
  <2>4. NodeCount(csr) = m
    BY <1>5, SlotEnds
  <2>5. LogicalEdges(dir, csr) = Len(edges)
    BY <1>5
  <2>6. GraphOK(compact)
    BY <2>1, <2>2
  <2> QED BY <2>3, <2>4, <2>5, <2>6 DEF GraphOK
<1>8. names \in Seq(Names) \cup {None} /\ (names # None => Len(names) = m) /\ (g.names # None => names # None)
      /\ (names # None => g.names # None /\ names = [i \in 1 .. m |-> g.names[members[i] + 1]])
  <2>1. CASE g.names = None
    BY <2>1 DEF names
  <2>2. CASE g.names # None
    <3>1. names = [i \in 1 .. m |-> g.names[members[i] + 1]]
      BY <1>2, <2>2 DEF names
    <3>2. g.names \in Seq(Names) /\ Len(g.names) = n
      BY <1>0, <2>2 DEF GraphOK, Graphs, n
    <3>3. \A i \in 1 .. m : g.names[members[i] + 1] \in Names
      <4> TAKE i \in 1 .. m
      <4>1. members[i] \in 0 .. n - 1
        BY <1>2 DEF n
      <4>2. members[i] + 1 \in 1 .. n
        BY <1>0, <4>1
      <4> QED BY <3>2, <4>2
    <3>4. names \in [1 .. m -> Names]
      BY <3>1, <3>3
    <3>5. names \in Seq(Names) /\ Len(names) = m
      BY <1>2, <3>4, ListIn
    <3>6. names # None
      BY <3>5, TablesAssumption
    <3> QED BY <2>2, <3>1, <3>5, <3>6
  <2> QED BY <2>1, <2>2
<1>9. \A s \in Slots(g.out) : g.rows # None => /\ g.ids[s + 1] + 1 \in DOMAIN g.rows /\ RowTells(g, s)
                                               /\ g.rows[g.ids[s + 1] + 1] \in TableRows
  <2> SUFFICES ASSUME NEW s \in Slots(g.out), g.rows # None
               PROVE  /\ g.ids[s + 1] + 1 \in DOMAIN g.rows /\ RowTells(g, s)
                      /\ g.rows[g.ids[s + 1] + 1] \in TableRows
    OBVIOUS
  <2>1. g.ids[s + 1] + 1 \in DOMAIN g.rows /\ RowTells(g, s) /\ g.rows \in Seq(TableRows)
    BY <1>0 DEF GraphOK, Graphs
  <2> QED BY <2>1
<1>10. \A s \in Kept(g, S) : s \in Slots(g.out) /\ SourceOf(g.out, s) \in S /\ Target(g.out, s) \in S
  BY DEF Kept, Canon
<1>11. Len(edges) \in Nat /\ DOMAIN edges = 1 .. Len(edges)
  BY <1>3
<1>12. /\ rows \in Seq(TableRows) \cup {None} /\ (rows # None => Len(rows) = Len(edges) /\ g.rows # None)
       /\ rows # None => /\ DOMAIN rows = 1 .. Len(edges)
                         /\ \A i \in 1 .. Len(edges) : rows[i] = g.rows[g.ids[taken[i] + 1] + 1]
  <2>1. CASE g.rows = None
    BY <2>1 DEF rows
  <2>2. CASE g.rows # None
    <3>1. rows = [i \in 1 .. Len(edges) |-> g.rows[g.ids[taken[i] + 1] + 1]]
      BY <1>3, <1>11, <2>2 DEF rows, RowsTaken
    <3>2. \A i \in 1 .. Len(edges) : g.rows[g.ids[taken[i] + 1] + 1] \in TableRows
      BY <1>4, <1>9, <1>10, <1>11, <2>2
    <3>3. rows \in [1 .. Len(edges) -> TableRows]
      BY <3>1, <3>2
    <3>4. rows \in Seq(TableRows) /\ Len(rows) = Len(edges)
      BY <1>11, <3>3, ListIn
    <3> QED BY <2>2, <3>1, <3>4
  <2> QED BY <2>1, <2>2
<1>13. found = IF rows = None THEN None ELSE ids
  <2>1. SlotIds(compact, edges) = ids
    BY <1>0, <1>3, <1>5, <1>7, IdsFound
  <2> QED BY <2>1 DEF found
<1>14. IdsValid(compact, ids)
  <2>1. /\ CsrOK(csr, m) /\ m \in Nat /\ dir \in BOOLEAN /\ (~dir => Reverses(csr, csr)) /\ edges \in Seq(Edges)
        /\ Simple(dir, edges) /\ Follows(dir, csr, edges, ids)
        /\ compact.directed = dir /\ compact.out = csr /\ compact.edges = Len(edges)
    BY <1>0, <1>3, <1>5, <1>7
  <2> QED BY ONLY <2>1, EdgeRowsValid
<1>15. ids # None
  <2>1. \A s \in Seq(Nat) : s \in Seq(Int)
    OBVIOUS
  <2> QED BY <1>5, <2>1, BuildAssumption
<1> DEFINE h == WithColumns(compact, names, rows, found)
<1>16. Materialize(g, members) = h
  <2>1. ~(\/ names # None /\ Len(names) # NodeCount(compact.out)
          \/ rows # None /\ (Len(rows) # compact.edges \/ found = None)
          \/ found # None /\ ~IdsValid(compact, found))
    BY <1>7, <1>8, <1>12, <1>13, <1>14, <1>15
  <2> QED BY <1>6, <2>1 DEF WithProperties, WithColumns
<1>17. /\ h \in Graphs /\ h.names = names /\ h.rows = rows /\ h.ids = found
       /\ h.out = csr /\ h.edges = Len(edges) /\ h.loops = Loops(csr) /\ h.in = None /\ h.directed = dir
  <2>1. found \in Seq(Nat) \cup {None}
    BY <1>5, <1>13
  <2>2. compact \in Graphs /\ names \in Seq(Names) \cup {None} /\ rows \in Seq(TableRows) \cup {None}
    BY <1>7, <1>8, <1>12
  <2>3. /\ h \in Graphs /\ h.names = names /\ h.rows = rows /\ h.ids = found
        /\ h.out = compact.out /\ h.edges = compact.edges /\ h.loops = compact.loops
        /\ h.in = compact.in /\ h.directed = compact.directed
    BY ONLY <2>1, <2>2, Attached
  <2> HIDE DEF h
  <2> QED BY <1>7, <2>3
<1> HIDE DEF h
<1>18. ASSUME rows # None, NEW s \in Slots(csr)
       PROVE  h.ids[s + 1] + 1 \in DOMAIN h.rows /\ RowTells(h, s)
  <2> DEFINE i == ids[s + 1] + 1
             t == taken[i]
             row == g.rows[g.ids[t + 1] + 1]
  <2>0. found = ids
    BY <1>13, <1>18
  <2>1. i \in DOMAIN edges /\ Joins(dir, csr, s, edges[i]) /\ WeightAt(csr, s) = edges[i].weight
    BY <1>5 DEF Follows
  <2>2. /\ t \in Slots(g.out) /\ SourceOf(g.out, t) \in S /\ Target(g.out, t) \in S
        /\ edges[i].source = Rank(members, SourceOf(g.out, t))
        /\ edges[i].target = Rank(members, Target(g.out, t))
        /\ edges[i].weight = WeightAt(g.out, t)
    BY <1>4, <1>10, <2>1
  <2>3. rows[i] = row
    BY <1>11, <1>12, <1>18, <2>1
  <2>4. RowTells(g, t)
    BY <1>9, <1>12, <1>18, <2>2
  <2>5. g.names # None
    BY <1>12, <1>18 DEF GraphOK
  <2> DEFINE N(v) == names[v + 1]
             O(v) == g.names[v + 1]
  <2>6. \A v \in S : N(Rank(members, v)) = O(v)
    <3> TAKE v \in S
    <3>1. names = [k \in 1 .. m |-> g.names[members[k] + 1]]
      BY <1>8, <2>5
    <3>2. Rank(members, v) + 1 \in 1 .. m /\ members[Rank(members, v) + 1] = v
      BY <1>2
    <3> QED BY <3>1, <3>2
  <2>7. /\ \/ row.source = O(SourceOf(g.out, t)) /\ row.target = O(Target(g.out, t))
           \/ ~dir /\ row.source = O(Target(g.out, t)) /\ row.target = O(SourceOf(g.out, t))
        /\ g.out.wt # None => row.weight = WeightAt(g.out, t)
    BY <2>4 DEF RowTells, dir
  <2> HIDE DEF i, t, row, N, O
  <2>8. \/ row.source = N(SourceOf(csr, s)) /\ row.target = N(Target(csr, s))
        \/ ~dir /\ row.source = N(Target(csr, s)) /\ row.target = N(SourceOf(csr, s))
    <3>1. N(edges[i].source) = O(SourceOf(g.out, t)) /\ N(edges[i].target) = O(Target(g.out, t))
      BY <2>2, <2>6
    <3>2. \/ row.source = N(edges[i].source) /\ row.target = N(edges[i].target)
          \/ ~dir /\ row.source = N(edges[i].target) /\ row.target = N(edges[i].source)
      BY <2>7, <3>1
    <3>3. CASE edges[i].source = SourceOf(csr, s) /\ edges[i].target = Target(csr, s)
      BY <3>2, <3>3
    <3>4. CASE ~dir /\ edges[i].source = Target(csr, s) /\ edges[i].target = SourceOf(csr, s)
      BY <3>2, <3>4
    <3> QED BY <2>1, <3>3, <3>4 DEF Joins
  <2>9. csr.wt # None => row.weight = WeightAt(csr, s)
    BY <1>5, <2>1, <2>2, <2>7
  <2>10. h.ids[s + 1] + 1 = i
    BY <1>17, <2>0 DEF i
  <2>11. h.ids[s + 1] + 1 \in DOMAIN h.rows /\ h.rows[h.ids[s + 1] + 1] = row
    BY <1>11, <1>12, <1>17, <1>18, <2>1, <2>3, <2>10
  <2>12. h.out = csr /\ h.directed = dir /\ h.names = names
    BY <1>17
  <2>13. RowTells(h, s)
    BY <2>8, <2>9, <2>11, <2>12 DEF RowTells, N
  <2> QED BY <2>11, <2>13
<1>19. GraphOK(h)
  <2>1. h.rows # None =>
          /\ h.names # None /\ h.ids \in [1 .. SlotCount(h.out) -> Nat] /\ Len(h.rows) = h.edges
          /\ \A s \in Slots(h.out) : h.ids[s + 1] + 1 \in DOMAIN h.rows /\ RowTells(h, s)
    <3> SUFFICES ASSUME rows # None
                 PROVE  /\ h.names # None /\ h.ids \in [1 .. SlotCount(h.out) -> Nat] /\ Len(h.rows) = h.edges
                        /\ \A s \in Slots(h.out) : h.ids[s + 1] + 1 \in DOMAIN h.rows /\ RowTells(h, s)
      BY <1>17
    <3>1. ids \in [1 .. SlotCount(csr) -> Nat] /\ found = ids
      BY <1>5, <1>13 DEF Follows
    <3>2. names # None
      BY <1>8, <1>12 DEF GraphOK
    <3> QED BY <1>12, <1>17, <1>18, <3>1, <3>2
  <2>2. h.names # None => Len(h.names) = NodeCount(h.out)
    BY <1>7, <1>8, <1>17
  <2>3. NodeCount(h.out) \in Nat /\ CsrOK(h.out, NodeCount(h.out)) /\ (~h.directed => Reverses(h.out, h.out))
    BY <1>5, <1>7, <1>17
  <2>4. h.edges = LogicalEdges(h.directed, h.out) /\ h.loops = Loops(h.out) /\ h.in = None /\ h \in Graphs
    BY <1>5, <1>17
  <2> QED BY <2>1, <2>2, <2>3, <2>4 DEF GraphOK
<1>20. GraphOK(Materialize(g, members)) /\ Materialize(g, members).out = csr
  BY <1>16, <1>17, <1>19
<1> QED BY <1>5, <1>20 DEF members, edges, m, dir

\* The rows of that graph are the rows the view shows.
LEMMA ViewShown ==
  ASSUME NEW g, GraphOK(g), NEW S \in SUBSET (0 .. NodeCount(g.out) - 1)
  PROVE  LET compact == Materialize(g, Members(S))
         IN /\ GraphOK(compact)
            /\ \A u \in 0 .. Cardinality(S) - 1 : Neighbors(compact.out, u) = ViewNeighbors(g, Members(S), u)
<1> DEFINE members == Members(S)
           m == Cardinality(S)
           n == NodeCount(g.out)
           compact == Materialize(g, members)
<1>0. n \in Nat /\ CsrOK(g.out, n) /\ g.directed \in BOOLEAN
  BY NodesCounted DEF GraphOK, Graphs
<1>1. /\ m \in Nat /\ Range(members) = S
      /\ \A k \in 1 .. m : members[k] \in S /\ Rank(members, members[k]) = k - 1
      /\ \A v \in S : Rank(members, v) \in 0 .. m - 1 /\ members[Rank(members, v) + 1] = v
      /\ \A v, w \in S : Rank(members, v) < Rank(members, w) <=> v < w
  BY Selected
<1>2. PICK csr, ids :
           /\ GraphOK(compact) /\ compact.out = csr
           /\ CsrOK(csr, m) /\ (~g.directed => Reverses(csr, csr))
           /\ Follows(g.directed, csr, KeptEdges(g, members), ids)
  BY Materialized
<1>3. \A v, w \in S :
        (\E s \in Slots(csr) : SourceOf(csr, s) = Rank(members, v) /\ Target(csr, s) = Rank(members, w))
        <=> \E t \in Slots(g.out) : SourceOf(g.out, t) = v /\ Target(g.out, t) = w
  <2>1. /\ GraphOK(g) /\ S \in SUBSET (0 .. NodeCount(g.out) - 1)
        /\ CsrOK(csr, Cardinality(S)) /\ (~g.directed => Reverses(csr, csr))
        /\ Follows(g.directed, csr, KeptEdges(g, Members(S)), ids)
    BY <1>2
  <2> QED BY ONLY <2>1, ArcsKept
<1> HIDE DEF members, m, n, compact
<1>4. ASSUME NEW u \in 0 .. m - 1 PROVE Neighbors(csr, u) = ViewNeighbors(g, members, u)
  <2> DEFINE b == members[u + 1]
             row == Neighbors(g.out, b)
             new == Neighbors(csr, u)
             P == {i \in DOMAIN row : row[i] \in Range(members)}
             inside == Ascending(P)
             p == Cardinality(P)
             view == ViewNeighbors(g, members, u)
  <2>1. b \in S /\ b \in 0 .. n - 1 /\ Rank(members, b) = u
    <3>1. u + 1 \in 1 .. m /\ (u + 1) - 1 = u
      BY <1>1
    <3> QED BY <1>1, <3>1 DEF n
  <2>2. PICK k \in Nat :
          /\ row \in [1 .. k -> 0 .. n - 1] /\ Len(row) = k
          /\ \A i, j \in 1 .. k : i < j => row[i] < row[j]
          /\ \A v : (\E i \in 1 .. k : row[i] = v)
                    <=> \E s \in Slots(g.out) : SourceOf(g.out, s) = b /\ Target(g.out, s) = v
    <3> HIDE DEF b
    <3>1. PICK k \in Nat : RowTold(g.out, n, b, k)
      BY ONLY <1>0, <2>1, RowListed
    <3> QED BY <3>1 DEF RowTold
  <2>3. PICK q \in Nat :
          /\ new \in [1 .. q -> 0 .. m - 1] /\ Len(new) = q
          /\ \A i, j \in 1 .. q : i < j => new[i] < new[j]
          /\ \A v : (\E i \in 1 .. q : new[i] = v)
                    <=> \E s \in Slots(csr) : SourceOf(csr, s) = u /\ Target(csr, s) = v
    <3>1. m \in Nat /\ CsrOK(csr, m) /\ u \in 0 .. m - 1
      BY <1>1, <1>2
    <3>2. PICK q \in Nat : RowTold(csr, m, u, q)
      BY ONLY <3>1, RowListed
    <3> QED BY <3>2 DEF RowTold
  <2>4. view = [i \in DOMAIN inside |-> Rank(members, row[inside[i]])]
    BY DEF ViewNeighbors
  <2> HIDE DEF b, row, new, view
  <2>5. P \in SUBSET Int /\ IsFiniteSet(P) /\ P \subseteq 1 .. k
    <3>1. P \subseteq 1 .. k
      BY <2>2
    <3>2. IsFiniteSet(1 .. k)
      BY FS_Interval
    <3>3. 1 .. k \subseteq Int
      OBVIOUS
    <3> HIDE DEF P
    <3> QED BY <3>1, <3>2, <3>3, FS_Subset
  <2>6. \A i \in P : i \in 1 .. k /\ row[i] \in S
    BY <1>1, <2>5
  <2>6a. \A i \in 1 .. k : row[i] \in S => i \in P
    BY <1>1, <2>2
  <2> HIDE DEF P
  <2>7. /\ p \in Nat /\ inside \in [1 .. p -> P] /\ DOMAIN inside = 1 .. p
        /\ \A x \in P : \E i \in 1 .. p : inside[i] = x
        /\ \A i, j \in 1 .. p : i < j => inside[i] < inside[j]
    <3>1. /\ p \in Nat /\ inside \in [1 .. p -> P]
          /\ \A x \in P : \E i \in 1 .. p : inside[i] = x
          /\ \A i, j \in 1 .. p : i < j => inside[i] < inside[j]
      BY <2>5, AscendingList
    <3> QED BY <3>1
  <2> HIDE DEF inside, p
  <2>8. \A i \in 1 .. p : /\ view[i] = Rank(members, row[inside[i]]) /\ row[inside[i]] \in S
                          /\ inside[i] \in 1 .. k /\ view[i] \in 0 .. m - 1
    <3> TAKE i \in 1 .. p
    <3>1. inside[i] \in P
      BY <2>7
    <3> QED BY <1>1, <2>4, <2>6, <2>7, <3>1
  <2>9. view \in [1 .. p -> Nat]
    <3>1. \A i \in 1 .. p : Rank(members, row[inside[i]]) \in Nat
      BY <1>1, <2>8
    <3> QED BY <2>4, <2>7, <3>1
  <2>10. new \in [1 .. q -> Nat]
    BY <1>1, <2>3
  <2>11. \A i, j \in 1 .. p : i < j => view[i] < view[j]
    <3> SUFFICES ASSUME NEW i \in 1 .. p, NEW j \in 1 .. p, i < j PROVE view[i] < view[j]
      OBVIOUS
    <3>1. inside[i] < inside[j] /\ inside[i] \in 1 .. k /\ inside[j] \in 1 .. k
      BY <2>7, <2>8
    <3>2. row[inside[i]] < row[inside[j]]
      BY <2>2, <3>1
    <3>3. /\ row[inside[i]] \in S /\ row[inside[j]] \in S
          /\ view[i] = Rank(members, row[inside[i]]) /\ view[j] = Rank(members, row[inside[j]])
      BY <2>8
    <3>4. Rank(members, row[inside[i]]) < Rank(members, row[inside[j]])
      BY ONLY <1>1, <3>2, <3>3
    <3> QED BY <3>3, <3>4
  <2>12. \A i, j \in 1 .. q : i < j => new[i] < new[j]
    BY <2>3
  <2>13. ASSUME NEW i \in 1 .. q PROVE \E j \in 1 .. p : view[j] = new[i]
    <3> DEFINE v == new[i]
               w == members[v + 1]
    <3>1. v \in 0 .. m - 1
      BY <2>3
    <3>2. w \in S /\ Rank(members, w) = v
      <4>1. v + 1 \in 1 .. m /\ (v + 1) - 1 = v
        BY <1>1, <3>1
      <4> QED BY <1>1, <4>1
    <3>3. \E s \in Slots(csr) : SourceOf(csr, s) = u /\ Target(csr, s) = v
      BY <2>3
    <3> HIDE DEF v, w
    <3>4. \E t \in Slots(g.out) : SourceOf(g.out, t) = b /\ Target(g.out, t) = w
      BY <1>3, <2>1, <3>2, <3>3
    <3>5. PICK x \in 1 .. k : row[x] = w
      BY <2>2, <3>4
    <3>6. x \in P
      BY <2>6a, <3>2, <3>5
    <3>7. PICK j \in 1 .. p : inside[j] = x
      BY <2>7, <3>6
    <3> QED BY <2>8, <3>2, <3>5, <3>7 DEF v
  <2>14. ASSUME NEW j \in 1 .. p PROVE \E i \in 1 .. q : new[i] = view[j]
    <3> DEFINE w == row[inside[j]]
    <3>1. w \in S /\ view[j] = Rank(members, w) /\ inside[j] \in 1 .. k
      BY <2>8
    <3>2. \E t \in Slots(g.out) : SourceOf(g.out, t) = b /\ Target(g.out, t) = w
      BY <2>2, <3>1
    <3> HIDE DEF w
    <3>3. \E s \in Slots(csr) : SourceOf(csr, s) = u /\ Target(csr, s) = Rank(members, w)
      BY <1>3, <2>1, <3>1, <3>2
    <3> QED BY <2>3, <3>1, <3>3
  <2>15. new = view
    <3>1. p \in Nat /\ q \in Nat
      BY <2>3, <2>7
    <3>2. Increasing(new, q) /\ Increasing(view, p) /\ Covers(view, p, new, q) /\ Covers(new, q, view, p)
      BY <2>9, <2>10, <2>11, <2>12, <2>13, <2>14 DEF Increasing, Covers
    <3>3. q = p /\ new = view
      BY ONLY <3>1, <3>2, OneAscending
    <3> QED BY <3>3
  <2> QED BY <2>15 DEF new, view
<1>5. GraphOK(compact) /\ \A u \in 0 .. m - 1 : Neighbors(compact.out, u) = ViewNeighbors(g, members, u)
  BY <1>2, <1>4
<1> QED BY <1>5 DEF compact, members, m

-----------------------------------------------------------------------------
(* The invariant: the table names listed targets, and a graph at hand is   *)
(* one that GraphOK accepts.                                               *)

IInv ==
  /\ directed \in BOOLEAN /\ weighted \in BOOLEAN
  /\ table \in Seq(Listed)
  /\ Usable => GraphOK(graph)

\* What LoadTables is told by AcceptsSimple.
SimpleLoaded ==
  LoadTables =>
    LET Ends(e) == IF directed THEN <<e.source, e.target>> ELSE {e.source, e.target}
        simple == \A i, j \in DOMAIN table : i # j => Ends(table[i]) # Ends(table[j])
        sound == \A i \in DOMAIN table : table[i].source # Stranger /\ (weighted => table[i].weight # Infinite)
    IN IF simple /\ sound THEN Usable' /\ graph'.edges = Len(table) ELSE graph' = Invalid

\* Every edge row that callers append has a listed target.
LEMMA RowsListed == ASSUME weighted \in BOOLEAN PROVE EdgeRows \subseteq Listed
<1>1. Someone \in Names /\ Stranger \in Names \cup {Stranger}
  BY TablesAssumption DEF Someone
<1>2. 1 \in Weights
  BY BuildAssumption
<1>3. [source : Names, target : Names, weight : IF weighted THEN Weights ELSE {1}] \subseteq Listed
  BY <1>2 DEF Listed
<1>4. /\ [source |-> Stranger, target |-> Someone, weight |-> 1] \in Listed
      /\ [source |-> Someone, target |-> Someone, weight |-> Infinite] \in Listed
  BY <1>1, <1>2 DEF Listed
<1> QED BY <1>3, <1>4 DEF EdgeRows

\* The first state has no graph.
LEMMA IInvInit == Init => IInv
<1> SUFFICES ASSUME Init PROVE IInv
  OBVIOUS
<1>1. <<>> \in Seq(Listed)
  OBVIOUS
<1> QED BY <1>1 DEF Init, IInv, Usable

\* Loading makes a graph that is sound, or none.
LEMMA LoadOK ==
  ASSUME IInv, LoadTables
  PROVE  GraphOK(graph') \/ graph' = Invalid
<1> DEFINE g == FromTables(NodeTable, table, directed, weighted)
           simple == \A i, j \in DOMAIN table : i # j => EndsOf(directed, table[i]) # EndsOf(directed, table[j])
           sound == \A i \in DOMAIN table : table[i].source # Stranger /\ (weighted => table[i].weight # Infinite)
<1>1. directed \in BOOLEAN /\ weighted \in BOOLEAN /\ table \in Seq(Listed)
  BY DEF IInv
<1>2. IF simple /\ sound THEN GraphOK(g) /\ g.edges = Len(table) ELSE g = Invalid
  BY ONLY <1>1, TablesLoaded
<1>3. graph' = g
  BY DEF LoadTables
<1> HIDE DEF g, simple, sound
<1> QED BY <1>2, <1>3

\* A graph that is sound is one that can be used.
LEMMA OKUsable == ASSUME NEW g, GraphOK(g) PROVE g \notin {None, Invalid}
  BY NodesCounted

\* No step leaves a graph that is not sound.
LEMMA IInvNext == IInv /\ [Next]_vars => IInv'
<1> SUFFICES ASSUME IInv, [Next]_vars PROVE IInv'
  OBVIOUS
<1>0. directed \in BOOLEAN /\ weighted \in BOOLEAN /\ table \in Seq(Listed) /\ (Usable => GraphOK(graph))
  BY DEF IInv
<1>1. ASSUME NEW e \in EdgeRows, AddRow(e) PROVE IInv'
  <2>1. e \in Listed
    BY <1>0, RowsListed
  <2>2. /\ directed' = directed /\ weighted' = weighted /\ graph' = graph
        /\ table' = Append(table, e)
    BY <1>1 DEF AddRow
  <2>3. table' \in Seq(Listed)
    BY <1>0, <2>1, <2>2
  <2> QED BY <1>0, <2>2, <2>3 DEF IInv, Usable
<1>2. CASE LoadTables
  <2>1. directed' = directed /\ weighted' = weighted /\ table' = table
    BY <1>2 DEF LoadTables
  <2>2. GraphOK(graph') \/ graph' = Invalid
    BY <1>2, LoadOK
  <2> QED BY <1>0, <2>1, <2>2 DEF IInv, Usable
<1>3. ASSUME NEW out \in AdoptedCsrs, NEW incoming \in AdoptedCsrs \cup {None}, Adopt(out, incoming) PROVE IInv'
  <2>1. directed' = directed /\ weighted' = weighted /\ table' = table /\ graph' = GraphTryNew(directed, out, incoming)
    BY <1>3 DEF Adopt
  <2>2. GraphTryNew(directed, out, incoming) = Invalid \/ GraphOK(GraphTryNew(directed, out, incoming))
    BY ONLY <1>0, out \in AdoptedCsrs, incoming \in AdoptedCsrs \cup {None}, GraphAdopted
  <2> QED BY <1>0, <2>1, <2>2 DEF IInv, Usable
<1>4. CASE Prepare
  <2>1. /\ directed' = directed /\ weighted' = weighted /\ table' = table
        /\ Usable /\ graph' = PrepareIncoming(graph)
    BY <1>4 DEF Prepare
  <2>2. GraphOK(PrepareIncoming(graph))
    BY <1>0, <2>1, IncomingPrepared
  <2> QED BY <1>0, <2>1, <2>2 DEF IInv, Usable
<1>5. ASSUME NEW S \in SUBSET Stored, Induce(S) PROVE IInv'
  <2>1. /\ directed' = directed /\ weighted' = weighted /\ table' = table
        /\ Usable /\ graph' = Materialize(graph, Members(S))
    BY <1>5 DEF Induce
  <2>2. GraphOK(graph) /\ S \in SUBSET (0 .. NodeCount(graph.out) - 1)
    BY <1>0, <2>1 DEF Stored
  <2>3. GraphOK(Materialize(graph, Members(S)))
    BY ONLY <2>2, ViewShown
  <2> QED BY <1>0, <2>1, <2>3 DEF IInv, Usable
<1>6. CASE UNCHANGED vars
  BY <1>0, <1>6 DEF vars, IInv, Usable
<1> QED BY <1>1, <1>2, <1>3, <1>4, <1>5, <1>6 DEF Next

\* However a graph came to be, from a table, from arrays, prepared or
\* materialized, it meets what GraphOK asks.
THEOREM GraphsSound == Spec => []IInv
  BY IInvInit, IInvNext, PTL DEF Spec

\* Every snapshot that is accepted has sorted rows inside its bounds, counts
\* its edges and loops, and its incoming rows are the transpose of the
\* outgoing ones.
THEOREM GraphsValid == Spec => []GraphValid
<1>1. IInv => GraphValid
  BY ValidOfOK DEF IInv
<1> QED BY <1>1, GraphsSound, PTL

\* The row of a slot is the row of its edge, through any chain of selections.
THEOREM RowsOfEdges == Spec => []PropertiesFollow
<1>1. IInv => PropertiesFollow
  BY ValidOfOK DEF IInv
<1> QED BY <1>1, GraphsSound, PTL

\* A selection always materializes, into the rows that its view shows.
THEOREM ViewsAgree == Spec => []ViewAgrees
<1>1. IInv => ViewAgrees
  <2> SUFFICES ASSUME IInv, Usable, NEW S \in SUBSET Stored
               PROVE  /\ Materialize(graph, Members(S)) # Invalid
                      /\ \A u \in 0 .. Cardinality(S) - 1 :
                           Neighbors(Materialize(graph, Members(S)).out, u) = ViewNeighbors(graph, Members(S), u)
    BY DEF ViewAgrees
  <2>1. GraphOK(graph) /\ S \in SUBSET (0 .. NodeCount(graph.out) - 1)
    BY DEF IInv, Stored
  <2>2. /\ GraphOK(Materialize(graph, Members(S)))
        /\ \A u \in 0 .. Cardinality(S) - 1 :
             Neighbors(Materialize(graph, Members(S)).out, u) = ViewNeighbors(graph, Members(S), u)
    BY ONLY <2>1, ViewShown
  <2> QED BY <2>2, OKUsable
<1> QED BY <1>1, GraphsSound, PTL

\* from_tables accepts the simple tables with known ends and finite weights,
\* every edge of them, and no other.
THEOREM SimpleAccepted == Spec => AcceptsSimple
<1>1. IInv /\ [Next]_vars => [SimpleLoaded]_vars
  <2> SUFFICES ASSUME IInv, LoadTables PROVE SimpleLoaded
    BY DEF SimpleLoaded
  <2> DEFINE g == FromTables(NodeTable, table, directed, weighted)
             Ends(e) == IF directed THEN <<e.source, e.target>> ELSE {e.source, e.target}
             simple == \A i, j \in DOMAIN table : i # j => Ends(table[i]) # Ends(table[j])
             sound == \A i \in DOMAIN table : table[i].source # Stranger /\ (weighted => table[i].weight # Infinite)
  <2>1. directed \in BOOLEAN /\ weighted \in BOOLEAN /\ table \in Seq(Listed)
    BY DEF IInv
  <2>2. LET accepted == \A i, j \in DOMAIN table : i # j => EndsOf(directed, table[i]) # EndsOf(directed, table[j])
        IN IF accepted /\ sound THEN GraphOK(g) /\ g.edges = Len(table) ELSE g = Invalid
    BY ONLY <2>1, TablesLoaded
  <2>3. IF simple /\ sound THEN GraphOK(g) /\ g.edges = Len(table) ELSE g = Invalid
    BY <2>2 DEF EndsOf
  <2>4. graph' = g
    BY DEF LoadTables
  <2> HIDE DEF g, simple, sound
  <2>5. IF simple /\ sound THEN Usable' /\ graph'.edges = Len(table) ELSE graph' = Invalid
    <3>1. GraphOK(g) => Usable'
      BY <2>4, OKUsable DEF Usable
    <3> QED BY <2>3, <2>4, <3>1
  <2> QED BY <2>5 DEF SimpleLoaded, simple, sound
<1> QED BY <1>1, GraphsSound, PTL DEF Spec, AcceptsSimple, SimpleLoaded
================================================================================
