----------------------------- MODULE DynamicProofs -----------------------------
(***************************************************************************)
(* For any number of nodes, any initial graphs and any number of updates:  *)
(* as long as no batch of more than one event was handled, the numbers of  *)
(* DynConnectedComponents are those of the components of the graph, and    *)
(* its tree edges span them. While an update is under way they are exact   *)
(* for the graph as it was before the event.                               *)
(***************************************************************************)
EXTENDS DynamicAlgorithms, FiniteSetTheorems, WellFoundedInduction, TLAPS

\* The numbers and the tree are those of the graph with the edges es.
Numbers(es) ==
  /\ \A u, v \in Nodes : component[u] = component[v] <=> Connected(u, v, es)
  /\ Range(component) = 0 .. upperBound - 1

Spans(es) == \A u, v \in Nodes : Connected(u, v, es) => Connected(u, v, tree)

Exact(es) ==
  /\ component \in [Nodes -> Int] /\ upperBound \in Nat
  /\ Numbers(es)
  /\ tree \subseteq es /\ es \subseteq known /\ Spans(es)
  /\ ~failed

\* The graph before the event.
PairOf(e) == {e.u, e.v}
EdgesBefore(e) == IF e.added THEN edges \ {PairOf(e)} ELSE edges \cup {PairOf(e)}

\* An update is under way, and its event is the only one of its batch.
Single ==
  \E e \in [added : BOOLEAN, u : Nodes, v : Nodes] :
    /\ events = <<e>> /\ e.u # e.v /\ e.added = (PairOf(e) \in edges)
    /\ next = 1 => Exact(EdgesBefore(e))
    /\ next = 2 => Exact(edges)

IInv ==
  /\ edges \subseteq Pairs
  /\ turn = "components" /\ ~batched => next \in 1 .. 2 /\ Single
  /\ turn # "components" /\ ~batched => Exact(edges)

-----------------------------------------------------------------------------
(* Connection *)

\* The ends of a pair are two nodes.
LEMMA PairEnds == \A p \in Pairs : p \subseteq Nodes
  BY DEF Pairs

\* A node is connected with itself.
LEMMA Reflexive == \A u, es : Connected(u, u, es)
  BY DEF Connected

\* What is connected with a connected node is connected.
LEMMA Transitive ==
  ASSUME NEW es, NEW u, NEW v, NEW w, Connected(u, v, es), Connected(v, w, es)
  PROVE  Connected(u, w, es)
  BY DEF Connected

\* In an undirected graph connection is mutual: what is outside a closed set
\* is closed as well.
LEMMA Symmetric ==
  ASSUME NEW es \in SUBSET SUBSET Nodes, NEW u \in Nodes, NEW v \in Nodes, Connected(u, v, es)
  PROVE  Connected(v, u, es)
<1> SUFFICES ASSUME NEW S \in SUBSET Nodes, v \in S, Closed(S, es), u \notin S PROVE FALSE
  BY DEF Connected
<1>1. Closed(Nodes \ S, es)
  BY DEF Closed
<1>2. u \in Nodes \ S /\ Nodes \ S \in SUBSET Nodes
  OBVIOUS
<1>3. v \in Nodes \ S
  BY <1>1, <1>2 DEF Connected
<1> QED BY <1>3

\* The ends of an edge are connected.
LEMMA EdgeConnects ==
  ASSUME NEW es, NEW u, NEW v, {u, v} \in es
  PROVE  Connected(u, v, es)
<1> SUFFICES ASSUME NEW S \in SUBSET Nodes, u \in S, Closed(S, es) PROVE v \in S
  BY DEF Connected
<1>1. {u, v} \cap S # {}
  OBVIOUS
<1>2. {u, v} \subseteq S
  BY <1>1 DEF Closed
<1> QED BY <1>2

\* If other edges connect the ends of every edge, they connect as much.
LEMMA Carries ==
  ASSUME NEW es, NEW fs,
         \A p \in es : \A x, y \in p : Connected(x, y, fs),
         NEW u, NEW v, Connected(u, v, es)
  PROVE  Connected(u, v, fs)
<1> SUFFICES ASSUME NEW S \in SUBSET Nodes, u \in S, Closed(S, fs) PROVE v \in S
  BY DEF Connected
<1>1. Closed(S, es)
  BY DEF Connected, Closed
<1> QED BY <1>1 DEF Connected

\* More edges connect at least as much.
LEMMA Monotone ==
  ASSUME NEW es, NEW fs, es \subseteq fs, NEW u, NEW v, Connected(u, v, es)
  PROVE  Connected(u, v, fs)
  BY DEF Connected, Closed

\* A new edge connects only what one of its ends was connected with.
LEMMA WithEdge ==
  ASSUME NEW es \in SUBSET SUBSET Nodes, NEW a \in Nodes, NEW z \in Nodes,
         NEW u \in Nodes, NEW v \in Nodes, Connected(u, v, es \cup {{a, z}})
  PROVE  \/ Connected(u, v, es)
         \/ Connected(u, a, es) /\ Connected(z, v, es)
         \/ Connected(u, z, es) /\ Connected(a, v, es)
<1> DEFINE From(x) == {y \in Nodes : Connected(x, y, es)}
           S == From(u) \cup (IF Connected(u, a, es) THEN From(z) ELSE {})
                        \cup (IF Connected(u, z, es) THEN From(a) ELSE {})
<1>1. \A x : Closed(From(x), es)
  <2> SUFFICES ASSUME NEW x, NEW p \in es, NEW y \in p \cap From(x), NEW w \in p
               PROVE  w \in From(x)
    BY DEF Closed
  <2>1. Connected(y, w, es)
    BY DEF Connected, Closed
  <2> QED BY <2>1, Transitive
<1>2. Closed(S, es)
  BY <1>1 DEF Closed
<1>3. Connected(u, a, es) => a \in S /\ z \in S
  BY Reflexive
<1>4. Connected(u, z, es) => a \in S /\ z \in S
  BY Reflexive
<1>5. a \in S \/ z \in S => a \in S /\ z \in S
  <2>1. CASE a \in From(u) \/ z \in From(u)
    BY <2>1, <1>3, <1>4
  <2>2. CASE Connected(u, a, es) \/ Connected(u, z, es)
    BY <2>2, <1>3, <1>4
  <2> QED BY <2>1, <2>2
<1>6. Closed(S, es \cup {{a, z}})
  BY <1>2, <1>5 DEF Closed
<1>7. u \in S /\ S \in SUBSET Nodes
  BY Reflexive
<1>8. v \in S
  <2> HIDE DEF S
  <2> QED BY <1>6, <1>7 DEF Connected
<1> QED BY <1>8

-----------------------------------------------------------------------------
(* An event on a pair u, v: the graph that Exact speaks of changes from the *)
(* one before the event to the one after it.                                *)

\* Equal connections have equal numbers and are spanned by the same tree.
LEMMA SameConnections ==
  ASSUME NEW es, NEW fs, Numbers(es), Spans(es),
         \A x, y \in Nodes : Connected(x, y, es) <=> Connected(x, y, fs)
  PROVE  Numbers(fs) /\ Spans(fs)
  BY DEF Numbers, Spans

\* Numbers are below the bound, and each of them has a node.
LEMMA NumbersUsed ==
  ASSUME NEW es, Exact(es)
  PROVE  /\ \A w \in Nodes : component[w] \in 0 .. upperBound - 1
         /\ \A k \in 0 .. upperBound - 1 : \E w \in Nodes : component[w] = k
<1>1. Range(component) = {component[w] : w \in Nodes}
  BY DEF Range, Exact
<1> QED BY <1>1 DEF Exact, Numbers

\* The smaller and the larger of two numbers.
LEMMA MinMax ==
  ASSUME NEW i \in Int, NEW j \in Int
  PROVE  /\ Min({i, j}) = IF i <= j THEN i ELSE j
         /\ Max({i, j}) = IF i <= j THEN j ELSE i
<1>1. \A x \in {i, j} : (\A y \in {i, j} : x =< y) <=> x = IF i <= j THEN i ELSE j
  OBVIOUS
<1>2. \A x \in {i, j} : (\A y \in {i, j} : x >= y) <=> x = IF i <= j THEN j ELSE i
  OBVIOUS
<1> QED BY <1>1, <1>2 DEF Min, Max

\* An inserted edge within a component changes no connection.
LEMMA AddedInside ==
  ASSUME NEW u \in Nodes, NEW v \in Nodes, edges \subseteq Pairs, {u, v} \in edges,
         Exact(edges \ {{u, v}}), component[u] = component[v],
         UNCHANGED <<edges, component, upperBound, tree, failed>>,
         known' = known \cup {{u, v}}
  PROVE  Exact(edges)'
<1> DEFINE old == edges \ {{u, v}}
<1>1. old \in SUBSET SUBSET Nodes
  BY PairEnds
<1>2. Connected(u, v, old)
  BY DEF Exact, Numbers
<1>3. Connected(v, u, old)
  BY <1>1, <1>2, Symmetric
<1>4. \A p \in edges : \A x, y \in p : Connected(x, y, old)
  <2> SUFFICES ASSUME NEW p \in edges, NEW x \in p, NEW y \in p PROVE Connected(x, y, old)
    OBVIOUS
  <2>1. CASE p = {u, v}
    BY <2>1, <1>2, <1>3, Reflexive
  <2>2. CASE p # {u, v}
    BY <2>2 DEF Connected, Closed
  <2> QED BY <2>1, <2>2
<1>5. \A x, y \in Nodes : Connected(x, y, old) <=> Connected(x, y, edges)
  BY <1>4, Carries, Monotone
<1>6. Numbers(edges) /\ Spans(edges)
  <2> HIDE DEF old
  <2>1. Numbers(old) /\ Spans(old)
    BY DEF old, Exact
  <2> QED BY <2>1, <1>5, SameConnections
<1>7. tree \subseteq edges /\ edges \subseteq known'
  BY DEF Exact
<1>8. component \in [Nodes -> Int] /\ upperBound \in Nat /\ ~failed
  BY DEF Exact
<1> QED BY <1>6, <1>7, <1>8 DEF Exact, Numbers, Spans

\* The numbers after two components are one: only those two are joined, and
\* the numbers are without a gap again.
LEMMA MergedNumbers ==
  ASSUME NEW c \in [Nodes -> Int], NEW last \in Int, NEW lo \in Int, NEW hi \in Int,
         0 <= lo, lo < hi, hi <= last,
         \A w \in Nodes : c[w] \in 0 .. last,
         \A k \in 0 .. last : \E w \in Nodes : c[w] = k,
         NEW d, d = Merged(c, last, lo, hi)
  PROVE  /\ d \in [Nodes -> Int]
         /\ \A x, y \in Nodes :
              d[x] = d[y] <=> \/ c[x] = c[y]
                              \/ c[x] = lo /\ c[y] = hi
                              \/ c[x] = hi /\ c[y] = lo
         /\ Range(d) = 0 .. last - 1
<1>1. d = [w \in Nodes |-> IF c[w] = hi THEN lo ELSE IF c[w] = last THEN hi ELSE c[w]]
  BY DEF Merged
<1>2. d \in [Nodes -> Int]
  BY <1>1
<1>3. \A x, y \in Nodes :
        d[x] = d[y] <=> \/ c[x] = c[y]
                        \/ c[x] = lo /\ c[y] = hi
                        \/ c[x] = hi /\ c[y] = lo
  <2> SUFFICES ASSUME NEW x \in Nodes, NEW y \in Nodes
               PROVE  d[x] = d[y] <=> \/ c[x] = c[y]
                                      \/ c[x] = lo /\ c[y] = hi
                                      \/ c[x] = hi /\ c[y] = lo
    OBVIOUS
  <2>1. c[x] \in 0 .. last /\ c[y] \in 0 .. last
    OBVIOUS
  <2>2. /\ d[x] = IF c[x] = hi THEN lo ELSE IF c[x] = last THEN hi ELSE c[x]
        /\ d[y] = IF c[y] = hi THEN lo ELSE IF c[y] = last THEN hi ELSE c[y]
    BY <1>1
  <2> QED BY <2>1, <2>2
<1>4. \A w \in Nodes : d[w] \in 0 .. last - 1
  <2> SUFFICES ASSUME NEW w \in Nodes PROVE d[w] \in 0 .. last - 1
    OBVIOUS
  <2>1. c[w] \in 0 .. last
    OBVIOUS
  <2> QED BY <2>1, <1>1
<1>5. ASSUME NEW k \in 0 .. last - 1 PROVE \E w \in Nodes : d[w] = k
  <2>1. CASE k = hi
    <3>1. PICK w \in Nodes : c[w] = last
      OBVIOUS
    <3>2. d[w] = k
      BY <3>1, <2>1, <1>1
    <3> QED BY <3>2
  <2>2. CASE k # hi
    <3>1. PICK w \in Nodes : c[w] = k
      OBVIOUS
    <3>2. d[w] = k
      BY <3>1, <2>2, <1>1
    <3> QED BY <3>2
  <2> QED BY <2>1, <2>2
<1>6. Range(d) = {d[w] : w \in Nodes}
  BY <1>2 DEF Range
<1>7. Range(d) = 0 .. last - 1
  BY <1>4, <1>5, <1>6
<1> QED BY <1>2, <1>3, <1>7

\* An inserted edge between two components joins them.
LEMMA AddedBetween ==
  ASSUME NEW u \in Nodes, NEW v \in Nodes, edges \subseteq Pairs, {u, v} \in edges,
         Exact(edges \ {{u, v}}), component[u] # component[v],
         AddEdge(u, v), UNCHANGED edges
  PROVE  Exact(edges)'
<1> DEFINE old == edges \ {{u, v}}
           lo == Min({component[u], component[v]})
           hi == Max({component[u], component[v]})
<1>1. /\ component \in [Nodes -> Int] /\ upperBound \in Nat
      /\ \A x, y \in Nodes : component[x] = component[y] <=> Connected(x, y, old)
      /\ tree \subseteq old /\ old \subseteq known /\ ~failed
      /\ \A x, y \in Nodes : Connected(x, y, old) => Connected(x, y, tree)
  BY DEF Exact, Numbers, Spans
<1>2. /\ \A w \in Nodes : component[w] \in 0 .. upperBound - 1
      /\ \A k \in 0 .. upperBound - 1 : \E w \in Nodes : component[w] = k
  BY NumbersUsed
<1>3. /\ component[u] \in Int /\ component[v] \in Int
      /\ lo = IF component[u] <= component[v] THEN component[u] ELSE component[v]
      /\ hi = IF component[u] <= component[v] THEN component[v] ELSE component[u]
  BY <1>1, MinMax
<1>4. /\ known' = known \cup {{u, v}}
      /\ component' = Merged(component, upperBound - 1, lo, hi)
      /\ upperBound' = upperBound - 1
      /\ tree' = tree \cup {{u, v}}
      /\ failed' = failed
  <2>1. lo # hi
    BY <1>3
  <2> QED BY <2>1 DEF AddEdge
<1> HIDE DEF lo, hi
<1>5. /\ lo \in Int /\ hi \in Int /\ 0 <= lo /\ lo < hi /\ hi <= upperBound - 1
      /\ upperBound - 1 \in Nat
  BY <1>1, <1>2, <1>3
<1>6. /\ component' \in [Nodes -> Int]
      /\ \A x, y \in Nodes :
           component'[x] = component'[y] <=>
             \/ component[x] = component[y]
             \/ component[x] = lo /\ component[y] = hi
             \/ component[x] = hi /\ component[y] = lo
      /\ Range(component') = 0 .. (upperBound - 1) - 1
  <2> DEFINE last == upperBound - 1
  <2>1. last \in Int /\ lo \in Int /\ hi \in Int /\ component \in [Nodes -> Int]
    BY <1>1, <1>5
  <2>2. 0 <= lo /\ lo < hi /\ hi <= last
    BY <1>5
  <2>3. /\ \A w \in Nodes : component[w] \in 0 .. last
        /\ \A k \in 0 .. last : \E w \in Nodes : component[w] = k
    BY <1>2
  <2>4. component' = Merged(component, last, lo, hi)
    BY <1>4
  <2> HIDE DEF last
  <2>5. /\ component' \in [Nodes -> Int]
        /\ \A x, y \in Nodes :
             component'[x] = component'[y] <=>
               \/ component[x] = component[y]
               \/ component[x] = lo /\ component[y] = hi
               \/ component[x] = hi /\ component[y] = lo
        /\ Range(component') = 0 .. last - 1
    BY <2>1, <2>2, <2>3, <2>4, MergedNumbers, SMTT(30)
  <2> QED BY <2>5 DEF last
<1>7. edges = old \cup {{u, v}} /\ old \in SUBSET SUBSET Nodes /\ tree \in SUBSET SUBSET Nodes
  BY <1>1, PairEnds
<1> HIDE DEF old
<1>8. ASSUME NEW x \in Nodes, NEW y \in Nodes
      PROVE  Connected(x, y, edges) <=>
               \/ Connected(x, y, old)
               \/ Connected(x, u, old) /\ Connected(v, y, old)
               \/ Connected(x, v, old) /\ Connected(u, y, old)
  <2>1. Connected(u, v, edges) /\ Connected(v, u, edges)
    <3>1. {u, v} \in edges /\ {v, u} \in edges
      BY <1>7
    <3> QED BY <3>1, EdgeConnects
  <2>2. \A s, t : Connected(s, t, old) => Connected(s, t, edges)
    BY <1>7, Monotone
  <2>3. Connected(x, u, old) /\ Connected(v, y, old) => Connected(x, y, edges)
    BY <2>1, <2>2, Transitive
  <2>4. Connected(x, v, old) /\ Connected(u, y, old) => Connected(x, y, edges)
    BY <2>1, <2>2, Transitive
  <2> QED BY <1>7, <2>2, <2>3, <2>4, WithEdge
<1>9. Numbers(edges)'
  <2>1. ASSUME NEW x \in Nodes, NEW y \in Nodes
        PROVE  component'[x] = component'[y] <=> Connected(x, y, edges)
    <3>1. /\ Connected(x, u, old) <=> component[x] = component[u]
          /\ Connected(x, v, old) <=> component[x] = component[v]
          /\ Connected(u, y, old) <=> component[y] = component[u]
          /\ Connected(v, y, old) <=> component[y] = component[v]
          /\ Connected(x, y, old) <=> component[x] = component[y]
      BY <1>1
    <3>2. (lo = component[u] /\ hi = component[v]) \/ (lo = component[v] /\ hi = component[u])
      BY <1>3
    <3> QED BY <3>1, <3>2, <1>6, <1>8
  <2> QED BY <2>1, <1>4, <1>6 DEF Numbers
<1>10. ASSUME NEW x \in Nodes, NEW y \in Nodes, Connected(x, y, edges)
       PROVE  Connected(x, y, tree')
  <2>1. Connected(u, v, tree') /\ Connected(v, u, tree')
    <3>1. {u, v} \in tree' /\ {v, u} \in tree'
      BY <1>4
    <3> QED BY <3>1, EdgeConnects
  <2>2. \A s, t \in Nodes : Connected(s, t, old) => Connected(s, t, tree')
    <3>1. tree \subseteq tree'
      BY <1>4
    <3> QED BY <3>1, <1>1, Monotone
  <2>3. Connected(x, u, old) /\ Connected(v, y, old) => Connected(x, y, tree')
    BY <2>1, <2>2, Transitive
  <2>4. Connected(x, v, old) /\ Connected(u, y, old) => Connected(x, y, tree')
    BY <2>1, <2>2, Transitive
  <2> QED BY <2>2, <2>3, <2>4, <1>8, <1>10
<1>11. tree' \subseteq edges /\ edges \subseteq known'
  BY <1>1, <1>4, <1>7
<1> QED BY <1>1, <1>4, <1>5, <1>6, <1>9, <1>10, <1>11 DEF Exact, Spans

\* A removed edge that is in no tree, or in whose place the tree has others,
\* disconnects nothing: Before and after, the tree connects the same nodes.
LEMMA RemovedInside ==
  ASSUME NEW u \in Nodes, NEW v \in Nodes, edges \subseteq Pairs, {u, v} \notin edges,
         Exact(edges \cup {{u, v}}),
         UNCHANGED <<edges, component, upperBound, known, failed>>,
         tree' \subseteq edges, \A x, y \in Nodes : Connected(x, y, tree) => Connected(x, y, tree')
  PROVE  Exact(edges)'
<1> DEFINE old == edges \cup {{u, v}}
<1>1. /\ component \in [Nodes -> Int] /\ upperBound \in Nat /\ ~failed
      /\ \A x, y \in Nodes : component[x] = component[y] <=> Connected(x, y, old)
      /\ Range(component) = 0 .. upperBound - 1
      /\ old \subseteq known
      /\ \A x, y \in Nodes : Connected(x, y, old) => Connected(x, y, tree)
  BY DEF Exact, Numbers, Spans
<1>2. \A x, y \in Nodes : Connected(x, y, edges) => Connected(x, y, old)
  BY Monotone
<1>3. \A x, y \in Nodes : Connected(x, y, tree') => Connected(x, y, edges)
  BY Monotone
<1>4. \A x, y \in Nodes : Connected(x, y, edges) <=> Connected(x, y, old)
  BY <1>1, <1>2, <1>3
<1>5. \A x, y \in Nodes : Connected(x, y, edges) => Connected(x, y, tree')
  BY <1>1, <1>2
<1>6. edges \subseteq known
  BY <1>1
<1> HIDE DEF old
<1>7. Numbers(edges)'
  BY <1>1, <1>4 DEF Numbers
<1>8. Spans(edges)'
  BY <1>5 DEF Spans
<1> QED BY <1>1, <1>6, <1>7, <1>8 DEF Exact

\* The least number of a set, and induction from it.
LEMMA LeastExists ==
  ASSUME NEW T, T \subseteq Nat, T # {}
  PROVE  \E k \in T : \A j \in T : k <= j
<1> DEFINE R == OpToRel(<, Nat)
<1>1. IsWellFoundedOn(R, Nat)
  BY NatLessThanWellFounded, Zenon
<1>2. PICK k \in T : \A j \in T : ~(<<j, k>> \in R)
  <2> HIDE DEF R
  <2> QED BY <1>1, WFMin
<1>3. \A i, j \in Nat : i < j => <<i, j>> \in R
  BY SMT DEF OpToRel
<1>4. \A j \in T : ~(j < k)
  <2> HIDE DEF R
  <2> QED BY <1>2, <1>3, Zenon
<1> HIDE DEF R
<1>5. ASSUME NEW j \in T PROVE k <= j
  <2>1. ~(j < k) /\ j \in Nat /\ k \in Nat
    BY <1>4
  <2> QED BY <2>1, SMT
<1> QED BY <1>5

\* The edges of a path are edges of the graph and connect its ends.
LEMMA PathConnects ==
  ASSUME NEW u \in Nodes, NEW v \in Nodes, NEW p \in ShortestPaths(u, v)
  PROVE  EdgesOf(p) \subseteq edges /\ Connected(u, v, EdgesOf(p))
<1>1. PICK k \in 2 .. N : p \in Paths(u, v, k)
  BY DEF ShortestPaths
<1>2. /\ k \in Nat /\ k >= 2 /\ p \in [1 .. k -> Nodes] /\ p[1] = u /\ p[k] = v
      /\ \A i \in 1 .. k - 1 : {p[i], p[i + 1]} \in edges
  BY <1>1, NAssumption DEF Paths
<1>3. Len(p) = k
  <2>1. p \in Seq(Nodes)
    BY <1>2
  <2> QED BY <1>2, <2>1
<1>4. EdgesOf(p) = {{p[i], p[i + 1]} : i \in 1 .. k - 1}
  BY <1>3 DEF EdgesOf
<1>5. \A i \in 1 .. k : Connected(p[1], p[i], EdgesOf(p))
  <2> DEFINE Far == {i \in 1 .. k : ~Connected(p[1], p[i], EdgesOf(p))}
  <2> SUFFICES ASSUME Far # {} PROVE FALSE
    OBVIOUS
  <2>1. PICK i \in Far : \A j \in Far : i <= j
    <3>1. Far \subseteq Nat
      BY <1>2
    <3> QED BY <3>1, LeastExists
  <2>2. i # 1
    BY Reflexive
  <2>3. i - 1 \in 1 .. k - 1 /\ i - 1 \in 1 .. k /\ (i - 1) + 1 = i
    BY <1>2, <2>2
  <2>4. i - 1 \notin Far
    BY <2>1, <2>3
  <2>5. Connected(p[1], p[i - 1], EdgesOf(p))
    BY <2>3, <2>4
  <2>6. {p[i - 1], p[i]} \in EdgesOf(p)
    BY <1>4, <2>3
  <2>7. Connected(p[1], p[i], EdgesOf(p))
    BY <2>5, <2>6, EdgeConnects, Transitive
  <2> QED BY <2>7
<1>6. EdgesOf(p) \subseteq edges
  BY <1>2, <1>4
<1>7. k \in 1 .. k
  BY <1>2
<1>8. Connected(p[1], p[k], EdgesOf(p))
  BY <1>5, <1>7
<1> QED BY <1>2, <1>6, <1>8

\* The edges of a path take the place of the removed tree edge.
LEMMA RemovedBridged ==
  ASSUME NEW u \in Nodes, NEW v \in Nodes, edges \subseteq Pairs, {u, v} \notin edges,
         Exact(edges \cup {{u, v}}), Bridged(u, v), UNCHANGED edges
  PROVE  Exact(edges)'
<1>1. PICK p \in ShortestPaths(u, v) :
        IF EdgesOf(p) \subseteq known
        THEN tree' = (tree \ {{u, v}}) \cup EdgesOf(p) /\ UNCHANGED failed
        ELSE tree' = tree \ {{u, v}} /\ failed' = TRUE
  BY DEF Bridged
<1>2. EdgesOf(p) \subseteq edges /\ Connected(u, v, EdgesOf(p))
  BY PathConnects
<1>3. edges \subseteq known /\ tree \subseteq edges \cup {{u, v}}
  BY DEF Exact
<1>4. tree' = (tree \ {{u, v}}) \cup EdgesOf(p) /\ UNCHANGED failed
  BY <1>1, <1>2, <1>3
<1>5. tree' \subseteq edges /\ tree' \in SUBSET SUBSET Nodes
  BY <1>2, <1>3, <1>4, PairEnds
<1>6. Connected(u, v, tree') /\ Connected(v, u, tree')
  <2>1. Connected(u, v, tree')
    BY <1>2, <1>4, Monotone
  <2> QED BY <2>1, <1>5, Symmetric
<1>7. \A q \in tree : \A x, y \in q : Connected(x, y, tree')
  <2> SUFFICES ASSUME NEW q \in tree, NEW x \in q, NEW y \in q PROVE Connected(x, y, tree')
    OBVIOUS
  <2>1. CASE q = {u, v}
    BY <2>1, <1>6, Reflexive
  <2>2. CASE q # {u, v}
    <3>1. q \in tree'
      BY <2>2, <1>4
    <3> QED BY <3>1 DEF Connected, Closed
  <2> QED BY <2>1, <2>2
<1>8. \A x, y \in Nodes : Connected(x, y, tree) => Connected(x, y, tree')
  BY <1>7, Carries
<1>9. UNCHANGED <<edges, component, upperBound, known, failed>>
  BY <1>4 DEF Bridged
<1> QED BY <1>5, <1>8, <1>9, RemovedInside

\* Without another path the component falls apart: what u still reaches has
\* a new number, and the tree without the edge spans both parts.
LEMMA RemovedParted ==
  ASSUME NEW u \in Nodes, NEW v \in Nodes, edges \subseteq Pairs, {u, v} \notin edges,
         Exact(edges \cup {{u, v}}), Parted(u, v), UNCHANGED edges
  PROVE  Exact(edges)'
<1> DEFINE old == edges \cup {{u, v}}
<1>1. /\ component \in [Nodes -> Int] /\ upperBound \in Nat /\ ~failed
      /\ \A x, y \in Nodes : component[x] = component[y] <=> Connected(x, y, old)
      /\ tree \subseteq old /\ old \subseteq known
      /\ \A x, y \in Nodes : Connected(x, y, old) => Connected(x, y, tree)
  BY DEF Exact, Numbers, Spans
<1>2. /\ \A w \in Nodes : component[w] \in 0 .. upperBound - 1
      /\ \A k \in 0 .. upperBound - 1 : \E w \in Nodes : component[w] = k
  BY NumbersUsed
<1>3. /\ ~Connected(u, v, edges)
      /\ component' = [w \in Nodes |-> IF Connected(u, w, edges) THEN upperBound ELSE component[w]]
      /\ upperBound' = upperBound + 1
      /\ tree' = tree \ {{u, v}}
      /\ known' = known /\ failed' = failed
  BY DEF Parted, Reach
<1>4. old = edges \cup {{u, v}} /\ edges \in SUBSET SUBSET Nodes /\ tree' \subseteq edges
      /\ tree' \in SUBSET SUBSET Nodes /\ tree \subseteq tree' \cup {{u, v}}
      /\ edges \subseteq old
  BY <1>1, <1>3, PairEnds
<1> HIDE DEF old
<1>5. \A x, y \in Nodes : Connected(x, y, edges) => Connected(y, x, edges)
  BY <1>4, Symmetric
<1>6. ASSUME NEW x \in Nodes, NEW y \in Nodes
      PROVE  /\ Connected(x, y, edges) => Connected(x, y, old)
             /\ Connected(x, y, old) =>
                  \/ Connected(x, y, edges)
                  \/ Connected(x, u, edges) /\ Connected(v, y, edges)
                  \/ Connected(x, v, edges) /\ Connected(u, y, edges)
  BY <1>4, Monotone, WithEdge
<1>7. component' \in [Nodes -> Int] /\ upperBound' \in Nat
  BY <1>1, <1>3
<1>8. ASSUME NEW x \in Nodes, NEW y \in Nodes
      PROVE  component'[x] = component'[y] <=> Connected(x, y, edges)
  <2>1. CASE Connected(u, x, edges) /\ Connected(u, y, edges)
    BY <2>1, <1>3, <1>5, Transitive
  <2>2. CASE Connected(u, x, edges) /\ ~Connected(u, y, edges)
    <3>1. component'[x] = upperBound /\ component'[y] \in 0 .. upperBound - 1
      BY <2>2, <1>2, <1>3
    <3>2. ~Connected(x, y, edges)
      BY <2>2, Transitive
    <3> QED BY <3>1, <3>2, <1>1
  <2>3. CASE ~Connected(u, x, edges) /\ Connected(u, y, edges)
    <3>1. component'[y] = upperBound /\ component'[x] \in 0 .. upperBound - 1
      BY <2>3, <1>2, <1>3
    <3>2. ~Connected(x, y, edges)
      BY <2>3, <1>5, Transitive
    <3> QED BY <3>1, <3>2, <1>1
  <2>4. CASE ~Connected(u, x, edges) /\ ~Connected(u, y, edges)
    <3>1. component'[x] = component[x] /\ component'[y] = component[y]
      BY <2>4, <1>3
    <3>2. ~Connected(x, u, edges)
      BY <2>4, <1>5
    <3> QED BY <2>4, <3>1, <3>2, <1>1, <1>6
  <2> QED BY <2>1, <2>2, <2>3, <2>4
<1>9. Range(component') = 0 .. (upperBound + 1) - 1
  <2>1. \A w \in Nodes : component'[w] \in 0 .. (upperBound + 1) - 1
    BY <1>1, <1>2, <1>3
  <2>2. ASSUME NEW k \in 0 .. (upperBound + 1) - 1 PROVE \E w \in Nodes : component'[w] = k
    <3>1. CASE k = upperBound
      <4>1. component'[u] = k
        BY <3>1, <1>3, Reflexive
      <4> QED BY <4>1
    <3>2. CASE k # upperBound
      <4>1. k \in 0 .. upperBound - 1
        BY <3>2, <1>1
      <4>2. PICK w \in Nodes : component[w] = k
        BY <4>1, <1>2
      <4>3. CASE Connected(u, w, edges)
        <5>1. component[w] = component[u]
          BY <4>3, <1>1, <1>6
        <5>2. Connected(u, v, old)
          <6>1. {u, v} \in old
            BY <1>4
          <6> QED BY <6>1, EdgeConnects
        <5>3. component[v] = k
          BY <5>1, <5>2, <4>2, <1>1
        <5>4. component'[v] = k
          BY <5>3, <1>3
        <5> QED BY <5>4
      <4>4. CASE ~Connected(u, w, edges)
        <5>1. component'[w] = k
          BY <4>2, <4>4, <1>3
        <5> QED BY <5>1
      <4> QED BY <4>3, <4>4
    <3> QED BY <3>1, <3>2
  <2>3. Range(component') = {component'[w] : w \in Nodes}
    BY <1>7 DEF Range
  <2> QED BY <2>1, <2>2, <2>3
<1>10. Numbers(edges)'
  BY <1>3, <1>8, <1>9 DEF Numbers
<1>11. ASSUME NEW x \in Nodes, NEW y \in Nodes, Connected(x, y, edges)
       PROVE  Connected(x, y, tree')
  <2>1. Connected(x, y, tree' \cup {{u, v}})
    BY <1>11, <1>6, <1>1, <1>4, Monotone
  <2>2. \A s, t \in Nodes : Connected(s, t, tree') => Connected(s, t, edges)
    BY <1>4, Monotone
  <2>3. ~(Connected(x, u, edges) /\ Connected(v, y, edges))
    <3> SUFFICES ASSUME Connected(x, u, edges), Connected(v, y, edges) PROVE FALSE
      OBVIOUS
    <3>1. Connected(u, x, edges) /\ Connected(y, v, edges)
      BY <1>5
    <3>2. Connected(u, y, edges)
      BY <3>1, <1>11, Transitive
    <3>3. Connected(u, v, edges)
      BY <3>1, <3>2, Transitive
    <3> QED BY <3>3, <1>3
  <2>4. ~(Connected(x, v, edges) /\ Connected(u, y, edges))
    <3> SUFFICES ASSUME Connected(x, v, edges), Connected(u, y, edges) PROVE FALSE
      OBVIOUS
    <3>1. Connected(y, x, edges)
      BY <1>5, <1>11
    <3>2. Connected(u, x, edges)
      BY <3>1, Transitive
    <3>3. Connected(u, v, edges)
      BY <3>2, Transitive
    <3> QED BY <3>3, <1>3
  <2> QED BY <2>1, <2>2, <2>3, <2>4, <1>4, WithEdge
<1>12. tree' \subseteq edges /\ edges \subseteq known'
  BY <1>1, <1>3, <1>4
<1> QED BY <1>1, <1>3, <1>7, <1>10, <1>11, <1>12 DEF Exact, Spans

-----------------------------------------------------------------------------
(* The first run *)

\* Ranks in a finite set of numbers are the numbers below its size.
LEMMA RanksFill ==
  ASSUME NEW F, F \subseteq Nat, IsFiniteSet(F)
  PROVE  LET rank == [f \in F |-> Cardinality({g \in F : g < f})]
         IN  /\ rank \in [F -> 0 .. Cardinality(F) - 1]
             /\ \A f, g \in F : rank[f] = rank[g] => f = g
             /\ \A k \in 0 .. Cardinality(F) - 1 : \E f \in F : rank[f] = k
<1> DEFINE Lower(f) == {g \in F : g < f}
           rank == [f \in F |-> Cardinality(Lower(f))]
           n == Cardinality(F)
<1>1. n \in Nat
  BY FS_CardinalityType
<1>2. \A f : IsFiniteSet(Lower(f)) /\ Cardinality(Lower(f)) \in Nat
  BY FS_Subset, FS_CardinalityType
<1>3. \A f \in F : Cardinality(Lower(f)) \in 0 .. n - 1
  <2> SUFFICES ASSUME NEW f \in F PROVE Cardinality(Lower(f)) \in 0 .. n - 1
    OBVIOUS
  <2>1. f \notin Lower(f) /\ Lower(f) \in SUBSET F
    OBVIOUS
  <2>2. Cardinality(Lower(f)) <= n /\ Cardinality(Lower(f)) # n
    <3> HIDE DEF Lower
    <3> QED BY <2>1, FS_Subset
  <2> QED BY <2>2, <1>1, <1>2
<1>4. \A f, g \in F : f < g => Cardinality(Lower(f)) < Cardinality(Lower(g))
  <2> SUFFICES ASSUME NEW f \in F, NEW g \in F, f < g
               PROVE  Cardinality(Lower(f)) < Cardinality(Lower(g))
    OBVIOUS
  <2>1. Lower(f) \in SUBSET Lower(g) /\ f \in Lower(g) /\ f \notin Lower(f)
    <3>1. f \in Nat /\ g \in Nat
      OBVIOUS
    <3>2. (\A h \in F : h < f => h < g) /\ ~(f < f)
      BY <3>1
    <3>3. \A x, h : h \in Lower(x) <=> h \in F /\ h < x
      OBVIOUS
    <3> HIDE DEF Lower
    <3> QED BY <3>2, <3>3, Zenon
  <2>2. IsFiniteSet(Lower(g))
    BY <1>2
  <2>3. Cardinality(Lower(f)) <= Cardinality(Lower(g)) /\ Cardinality(Lower(f)) # Cardinality(Lower(g))
    <3> HIDE DEF Lower
    <3> QED BY <2>1, <2>2, FS_Subset
  <2> QED BY <2>3, <1>2
<1>5. \A f \in F : rank[f] = Cardinality(Lower(f))
  OBVIOUS
<1>6. rank \in [F -> 0 .. n - 1]
  BY <1>3
<1> HIDE DEF Lower, rank, n
<1>7. \A f, g \in F : rank[f] = rank[g] => f = g
  <2> SUFFICES ASSUME NEW f \in F, NEW g \in F, rank[f] = rank[g], f # g PROVE FALSE
    OBVIOUS
  <2>1. f < g \/ g < f
    OBVIOUS
  <2> QED BY <2>1, <1>2, <1>4, <1>5
<1>8. \A k \in 0 .. n - 1 : \E f \in F : rank[f] = k
  <2>1. rank \in Injection(F, 0 .. n - 1)
    BY <1>6, <1>7 DEF Injection, IsInjective
  <2>2. IsFiniteSet(0 .. n - 1) /\ Cardinality(0 .. n - 1) = n
    <3>1. 0 \in Int /\ n - 1 \in Int
      BY <1>1
    <3>2. Cardinality(0 .. n - 1) = IF 0 > n - 1 THEN 0 ELSE (n - 1) - 0 + 1
      BY <3>1, FS_Interval
    <3> QED BY <3>1, <3>2, <1>1, FS_Interval
  <2>3. rank \in Surjection(F, 0 .. n - 1)
    BY <2>1, <2>2, FS_Injection DEF n
  <2> QED BY <2>3 DEF Surjection
<1> QED BY <1>6, <1>7, <1>8 DEF rank, n, Lower

\* The first node of a component is one of its nodes, and connected nodes
\* have the same.
LEMMA FirstNode ==
  ASSUME edges \subseteq Pairs
  PROVE  /\ \A u \in Nodes : FirstOf(u) \in Nodes /\ Connected(u, FirstOf(u), edges)
         /\ \A u, v \in Nodes : Connected(u, v, edges) <=> FirstOf(u) = FirstOf(v)
         /\ \A f \in Firsts : FirstOf(f) = f
<1>1. edges \in SUBSET SUBSET Nodes
  BY PairEnds
<1>2. ASSUME NEW u \in Nodes
      PROVE  FirstOf(u) \in Nodes /\ Connected(u, FirstOf(u), edges)
  <2>1. u \in Reach(u) /\ Reach(u) \subseteq Nat
    BY Reflexive DEF Reach, Nodes
  <2>2. \E x \in Reach(u) : \A y \in Reach(u) : x <= y
    BY <2>1, LeastExists
  <2>3. FirstOf(u) \in Reach(u)
    BY <2>2 DEF FirstOf, Min
  <2> QED BY <2>3 DEF Reach
<1>3. ASSUME NEW u \in Nodes, NEW v \in Nodes, Connected(u, v, edges)
      PROVE  FirstOf(u) = FirstOf(v)
  <2>1. Connected(v, u, edges)
    BY <1>1, <1>3, Symmetric
  <2>2. \A w : Connected(u, w, edges) <=> Connected(v, w, edges)
    BY <2>1, <1>3, Transitive
  <2>3. Reach(u) = Reach(v)
    BY <2>2 DEF Reach
  <2> QED BY <2>3 DEF FirstOf
<1>4. ASSUME NEW u \in Nodes, NEW v \in Nodes, FirstOf(u) = FirstOf(v)
      PROVE  Connected(u, v, edges)
  <2>1. Connected(FirstOf(v), v, edges)
    BY <1>1, <1>2, Symmetric
  <2> QED BY <2>1, <1>2, <1>4, Transitive
<1>5. ASSUME NEW f \in Firsts PROVE FirstOf(f) = f
  <2>1. PICK u \in Nodes : f = FirstOf(u)
    BY DEF Firsts
  <2>2. f \in Nodes /\ Connected(u, f, edges)
    BY <2>1, <1>2
  <2> QED BY <2>1, <2>2, <1>3
<1> QED BY <1>2, <1>3, <1>4, <1>5

\* The tree of the first run leads from every node to the first of its
\* component: the edge that discovered a node comes from a lower level.
LEMMA SearchSpans ==
  ASSUME edges \subseteq Pairs, NEW t \in SearchTrees
  PROVE  /\ t \subseteq edges
         /\ \A u, v \in Nodes : Connected(u, v, edges) => Connected(u, v, t)
<1>1. PICK p \in [Nodes \ Firsts -> Nodes] :
        /\ \A v \in Nodes \ Firsts : p[v] \in Neighbors(v) /\ Depth(p[v]) < Depth(v)
        /\ t = {{v, p[v]} : v \in Nodes \ Firsts}
  BY DEF SearchTrees
<1>2. t \subseteq edges
  BY <1>1 DEF Neighbors
<1>3. t \in SUBSET SUBSET Nodes
  BY <1>2, PairEnds
<1>4. \A v : Depth(v) \in Nat
  <2> SUFFICES ASSUME NEW v PROVE Depth(v) \in Nat
    OBVIOUS
  <2> DEFINE S == {k \in 0 .. N : v \notin Ball(FirstOf(v), k)}
  <2>1. 0 \in Int /\ N \in Int
    BY NAssumption
  <2>2. IsFiniteSet(0 .. N)
    BY <2>1, FS_Interval
  <2>3. S \in SUBSET (0 .. N)
    OBVIOUS
  <2>4. Depth(v) = Cardinality(S)
    BY DEF Depth
  <2> HIDE DEF S
  <2>5. IsFiniteSet(S)
    BY <2>2, <2>3, FS_Subset
  <2> QED BY <2>4, <2>5, FS_CardinalityType
<1>5. \A v \in Nodes : Connected(v, FirstOf(v), t)
  <2> DEFINE Lost == {v \in Nodes : ~Connected(v, FirstOf(v), t)}
             Depths == {Depth(v) : v \in Lost}
  <2> SUFFICES ASSUME Lost # {} PROVE FALSE
    OBVIOUS
  <2>1. PICK v \in Lost : \A w \in Lost : Depth(v) <= Depth(w)
    <3>1. Depths \subseteq Nat /\ Depths # {}
      BY <1>4
    <3>2. PICK d \in Depths : \A e \in Depths : d <= e
      <4> HIDE DEF Depths
      <4> QED BY <3>1, LeastExists
    <3> QED BY <3>2
  <2>2. v \notin Firsts
    BY FirstNode, Reflexive
  <2>3. p[v] \in Nodes /\ {v, p[v]} \in edges /\ {v, p[v]} \in t /\ Depth(p[v]) < Depth(v)
    BY <1>1, <2>2 DEF Neighbors
  <2>4. p[v] \notin Lost
    <3>1. Depth(p[v]) \in Nat /\ Depth(v) \in Nat
      BY <1>4
    <3> QED BY <3>1, <2>1, <2>3
  <2>5. Connected(p[v], FirstOf(p[v]), t)
    BY <2>3, <2>4
  <2>6. FirstOf(p[v]) = FirstOf(v)
    <3>1. Connected(v, p[v], edges)
      BY <2>3, EdgeConnects
    <3> QED BY <3>1, <2>3, FirstNode
  <2>7. Connected(v, p[v], t)
    BY <2>3, EdgeConnects
  <2>8. Connected(v, FirstOf(v), t)
    BY <2>5, <2>6, <2>7, Transitive
  <2> QED BY <2>8
<1>6. ASSUME NEW u \in Nodes, NEW v \in Nodes, Connected(u, v, edges)
      PROVE  Connected(u, v, t)
  <2>1. FirstOf(u) = FirstOf(v) /\ FirstOf(v) \in Nodes
    BY <1>6, FirstNode
  <2>2. Connected(FirstOf(v), v, t)
    BY <2>1, <1>3, <1>5, Symmetric
  <2> QED BY <2>1, <2>2, <1>5, Transitive
<1> QED BY <1>2, <1>6

\* run leaves exact numbers and a spanning tree.
LEMMA RunExact ==
  ASSUME edges \subseteq Pairs, ComponentsRun
  PROVE  Exact(edges)
<1> DEFINE rank == [f \in Firsts |-> Cardinality({g \in Firsts : g < f})]
<1>1. Firsts \subseteq Nat /\ IsFiniteSet(Firsts)
  <2>1. Firsts \in SUBSET Nodes
    BY FirstNode DEF Firsts
  <2>2. 0 \in Int /\ N - 1 \in Int
    BY NAssumption
  <2>3. IsFiniteSet(Nodes)
    BY <2>2, FS_Interval DEF Nodes
  <2>4. Nodes \subseteq Nat
    BY DEF Nodes
  <2> QED BY <2>1, <2>3, <2>4, FS_Subset
<1>2. /\ rank \in [Firsts -> 0 .. Cardinality(Firsts) - 1]
      /\ \A f, g \in Firsts : rank[f] = rank[g] => f = g
      /\ \A k \in 0 .. Cardinality(Firsts) - 1 : \E f \in Firsts : rank[f] = k
  BY <1>1, RanksFill
<1>3. component = [u \in Nodes |-> rank[FirstOf(u)]]
  BY DEF ComponentsRun, Firsts
<1> HIDE DEF rank
<1>4. upperBound = Cardinality(Firsts) /\ upperBound \in Nat
  BY <1>1, FS_CardinalityType DEF ComponentsRun
<1>5. \A u \in Nodes : FirstOf(u) \in Firsts
  BY DEF Firsts
<1>6. component \in [Nodes -> Int]
  BY <1>2, <1>3, <1>5
<1>7. \A u, v \in Nodes : component[u] = component[v] <=> Connected(u, v, edges)
  BY <1>2, <1>3, <1>5, FirstNode
<1>8. Range(component) = 0 .. upperBound - 1
  <2>1. Range(component) = {rank[FirstOf(u)] : u \in Nodes}
    BY <1>3 DEF Range
  <2>2. Firsts = {FirstOf(u) : u \in Nodes}
    BY DEF Firsts
  <2>3. Range(component) = {rank[f] : f \in Firsts}
    BY <2>1, <2>2
  <2> QED BY <2>3, <1>2, <1>4
<1>9. tree \subseteq edges /\ Spans(edges)
  BY SearchSpans DEF ComponentsRun, Spans
<1> QED BY <1>4, <1>6, <1>7, <1>8, <1>9 DEF Exact, Numbers, ComponentsRun

\* The first run is over when the user starts.
LEMMA InitExact == Init => IInv
<1> SUFFICES ASSUME Init PROVE IInv
  OBVIOUS
<1>1. edges \subseteq Pairs
  BY StartsAssumption DEF Init
<1>2. Exact(edges)
  BY <1>1, RunExact DEF Init
<1> QED BY <1>1, <1>2 DEF IInv, Init

-----------------------------------------------------------------------------
(* The steps *)

\* updateBatch handles its only event: exact before, exact after.
LEMMA EventExact ==
  ASSUME NEW e \in [added : BOOLEAN, u : Nodes, v : Nodes],
         edges \subseteq Pairs, e.u # e.v, e.added = (PairOf(e) \in edges),
         Exact(EdgesBefore(e)), UpdateComponents(e), UNCHANGED edges
  PROVE  Exact(edges)'
<1>1. e.u \in Nodes /\ e.v \in Nodes /\ e.added \in BOOLEAN
  OBVIOUS
<1>2. CASE e.added
  <2>1. {e.u, e.v} \in edges /\ Exact(edges \ {{e.u, e.v}}) /\ AddEdge(e.u, e.v)
    BY <1>2 DEF PairOf, EdgesBefore, UpdateComponents
  <2>2. CASE component[e.u] = component[e.v]
    <3>1. component[e.u] \in Int /\ component[e.v] \in Int
      BY <1>1, <2>1 DEF Exact
    <3>2. Min({component[e.u], component[e.v]}) = Max({component[e.u], component[e.v]})
      BY <2>2, <3>1, MinMax
    <3>3. UNCHANGED <<edges, component, upperBound, tree, failed>> /\ known' = known \cup {{e.u, e.v}}
      BY <2>1, <3>2 DEF AddEdge
    <3> QED BY <1>1, <2>1, <2>2, <3>3, AddedInside
  <2>3. CASE component[e.u] # component[e.v]
    BY <1>1, <2>1, <2>3, AddedBetween
  <2> QED BY <2>2, <2>3
<1>3. CASE ~e.added
  <2>1. {e.u, e.v} \notin edges /\ Exact(edges \cup {{e.u, e.v}}) /\ RemoveEdge(e.u, e.v)
    BY <1>3 DEF PairOf, EdgesBefore, UpdateComponents
  <2>2. CASE Kept(e.u, e.v) /\ UNCHANGED componentVars
    <3>1. UNCHANGED <<edges, component, upperBound, known, failed>> /\ tree' = tree
      BY <2>2 DEF componentVars
    <3>2. tree' \subseteq edges
      BY <2>1, <2>2, <3>1 DEF Kept, Exact
    <3> QED BY <1>1, <2>1, <3>1, <3>2, RemovedInside
  <2>3. CASE Bridged(e.u, e.v)
    BY <1>1, <2>1, <2>3, RemovedBridged
  <2>4. CASE Parted(e.u, e.v)
    BY <1>1, <2>1, <2>4, RemovedParted
  <2> QED BY <2>1, <2>2, <2>3, <2>4 DEF RemoveEdge
<1> QED BY <1>1, <1>2, <1>3

\* Steps that leave the graph and the components alone.
LEMMA Elsewhere ==
  ASSUME NEW es, Exact(es), UNCHANGED componentVars
  PROVE  Exact(es)'
  BY DEF Exact, Numbers, Spans, componentVars

\* An event tells of a pair whether it was in the graph before the batch.
LEMMA EventOfPair ==
  ASSUME NEW p \in Pairs, NEW e \in {EventOn(p), Swapped(EventOn(p))}
  PROVE  /\ e \in [added : BOOLEAN, u : Nodes, v : Nodes]
         /\ e.u # e.v /\ PairOf(e) = p /\ e.added = (p \notin edges)
<1>1. PICK i \in Nodes, j \in Nodes : p = {i, j} /\ i # j
  BY DEF Pairs
<1>2. i \in Int /\ j \in Int
  BY DEF Nodes
<1>3. /\ Min(p) = IF i <= j THEN i ELSE j
      /\ Max(p) = IF i <= j THEN j ELSE i
  BY <1>1, <1>2, MinMax
<1>4. Min(p) \in Nodes /\ Max(p) \in Nodes /\ Min(p) # Max(p) /\ {Min(p), Max(p)} = p
  BY <1>1, <1>2, <1>3
<1>5. \/ e = [added |-> p \notin edges, u |-> Min(p), v |-> Max(p)]
      \/ e = [added |-> p \notin edges, u |-> Max(p), v |-> Min(p)]
  BY DEF EventOn, Swapped
<1>6. e.added = (p \notin edges)
  <2> DEFINE told == p \notin edges
  <2>1. \/ e = [added |-> told, u |-> Min(p), v |-> Max(p)]
        \/ e = [added |-> told, u |-> Max(p), v |-> Min(p)]
    BY <1>5
  <2>2. e.added = told
    <3> HIDE DEF told
    <3> QED BY <2>1
  <2> QED BY <2>2, Zenon
<1>7. (p \notin edges) \in BOOLEAN
  OBVIOUS
<1>8. e \in [added : BOOLEAN, u : Nodes, v : Nodes]
  <2> DEFINE told == p \notin edges
  <2>1. told \in BOOLEAN
    BY <1>7
  <2>2. \/ e = [added |-> told, u |-> Min(p), v |-> Max(p)]
        \/ e = [added |-> told, u |-> Max(p), v |-> Min(p)]
    BY <1>5
  <2> HIDE DEF told
  <2> QED BY <2>1, <2>2, <1>4
<1>9. {e.u, e.v} = p /\ e.u # e.v
  <2>1. (e.u = Min(p) /\ e.v = Max(p)) \/ (e.u = Max(p) /\ e.v = Min(p))
    BY <1>5
  <2> QED BY <2>1, <1>4
<1> QED BY <1>6, <1>8, <1>9 DEF PairOf

\* A batch of one event changes the graph by its pair.
LEMMA UserStep ==
  ASSUME IInv, UserChanges
  PROVE  IInv'
<1>1. PICK es \in Batches :
        /\ events' = es
        /\ batched' = (batched \/ Len(es) > 1)
        /\ edges' = (edges \ {{e.u, e.v} : e \in {x \in Range(es) : ~x.added}})
                      \cup {{e.u, e.v} : e \in {x \in Range(es) : x.added}}
  BY DEF UserChanges
<1>2. turn = "user" /\ turn' = "components" /\ next' = 1 /\ UNCHANGED componentVars
  BY DEF UserChanges
<1> DEFINE Told == UNION {{EventOn(p), Swapped(EventOn(p))} : p \in Pairs}
<1>3. PICK k \in Int : k >= 1 /\ es \in [1 .. k -> Told]
  BY DEF Batches
<1>4. Len(es) = k
  <2>1. es \in Seq(Told)
    BY <1>3
  <2> QED BY <1>3, <2>1
<1>5. \A e \in Range(es) : e \in Told
  BY <1>3 DEF Range
<1>6. \A e \in Told : \E p \in Pairs : PairOf(e) = p
  BY EventOfPair
<1> HIDE DEF Told
<1>7. edges' \subseteq Pairs
  <2>1. \A e \in Range(es) : {e.u, e.v} \in Pairs
    BY <1>5, <1>6 DEF PairOf
  <2>2. edges \subseteq Pairs
    BY DEF IInv
  <2> QED BY <1>1, <2>1, <2>2
<1>8. ASSUME ~batched' PROVE Single'
  <2>1. k = 1 /\ ~batched
    <3>1. ~batched /\ ~(Len(es) > 1)
      BY <1>1, <1>8, Zenon
    <3> QED BY <3>1, <1>3, <1>4
  <2>2. PICK e \in Told : es = <<e>>
    <3>1. es[1] \in Told /\ es = <<es[1]>>
      BY <2>1, <1>3
    <3> QED BY <3>1
  <2>3. PICK p \in Pairs : e \in {EventOn(p), Swapped(EventOn(p))}
    BY <2>2 DEF Told
  <2>4. /\ e \in [added : BOOLEAN, u : Nodes, v : Nodes]
        /\ e.u # e.v /\ PairOf(e) = p /\ e.added = (p \notin edges)
    BY <2>3, EventOfPair
  <2>5. Range(es) = {e}
    <3>1. Range(es) = {es[i] : i \in DOMAIN es}
      BY DEF Range
    <3>2. DOMAIN es = {1} /\ es[1] = e
      BY <2>2
    <3> QED BY <3>1, <3>2
  <2>6. edges' = IF e.added THEN edges \cup {p} ELSE edges \ {p}
    BY <1>1, <2>4, <2>5 DEF PairOf
  <2>7. e.added = (p \in edges')
    BY <2>4, <2>6
  <2>8. EdgesBefore(e)' = edges
    BY <2>4, <2>6 DEF EdgesBefore
  <2>9. Exact(edges)
    BY <1>2, <2>1 DEF IInv
  <2>10. Exact(EdgesBefore(e))'
    BY <2>8, <2>9, <1>2 DEF Exact, Numbers, Spans, componentVars
  <2> QED BY <1>1, <1>2, <2>2, <2>4, <2>7, <2>10 DEF Single
<1> QED BY <1>2, <1>7, <1>8 DEF IInv

\* DynConnectedComponents handles the next event.
LEMMA ComponentsStep ==
  ASSUME IInv, ComponentsEvent
  PROVE  IInv'
<1>1. /\ turn = "components" /\ turn' = "components" /\ next <= Len(events)
      /\ UpdateComponents(events[next]) /\ next' = next + 1
      /\ UNCHANGED <<edges, events, batched>>
  BY DEF ComponentsEvent, graphVars
<1>2. ASSUME ~batched PROVE next' \in 1 .. 2 /\ Single'
  <2>1. PICK e \in [added : BOOLEAN, u : Nodes, v : Nodes] :
          /\ events = <<e>> /\ e.u # e.v /\ e.added = (PairOf(e) \in edges)
          /\ next = 1 => Exact(EdgesBefore(e))
    BY <1>1, <1>2 DEF IInv, Single
  <2>2. next = 1 /\ events[next] = e
    BY <1>1, <1>2, <2>1 DEF IInv
  <2>3. Exact(edges)'
    BY <1>1, <2>1, <2>2, EventExact DEF IInv
  <2>4. next' = 2 /\ events' = <<e>> /\ e.added = (PairOf(e) \in edges')
    BY <1>1, <2>1, <2>2
  <2> QED BY <2>1, <2>3, <2>4 DEF Single
<1> QED BY <1>1, <1>2 DEF IInv

\* When the components are up to date the next algorithm is called.
LEMMA BfsCalledStep ==
  ASSUME IInv, BfsCalled
  PROVE  IInv'
<1>1. /\ turn = "components" /\ turn' = "bfs" /\ next > Len(events)
      /\ UNCHANGED <<edges, batched>> /\ UNCHANGED componentVars
  BY DEF BfsCalled, graphVars
<1>2. ASSUME ~batched PROVE Exact(edges)
  <2>1. Len(events) = 1
    BY <1>1, <1>2 DEF IInv, Single
  <2>2. next = 2
    BY <1>1, <1>2, <2>1 DEF IInv
  <2> QED BY <1>1, <1>2, <2>2 DEF IInv, Single
<1>3. ASSUME ~batched PROVE Exact(edges)'
  BY <1>1, <1>2, <1>3 DEF Exact, Numbers, Spans, componentVars
<1> QED BY <1>1, <1>3 DEF IInv

\* The other steps change neither the graph nor the components.
LEMMA QuietStep ==
  ASSUME IInv, turn # "components", turn' # "components",
         UNCHANGED <<edges, batched>>, UNCHANGED componentVars
  PROVE  IInv'
  BY DEF IInv, Exact, Numbers, Spans, componentVars

\* Every step keeps the invariant.
LEMMA StepKeeps == IInv /\ [Next]_vars => IInv'
<1> SUFFICES ASSUME IInv, [Next]_vars PROVE IInv'
  OBVIOUS
<1>1. CASE UserChanges
  BY <1>1, UserStep
<1>2. CASE MatchingRuns \/ RunReturns
  <2>1. /\ turn # "components" /\ turn' # "components"
        /\ UNCHANGED <<edges, batched>> /\ UNCHANGED componentVars
    BY <1>2 DEF MatchingRuns, RunReturns, graphVars
  <2> QED BY <2>1, QuietStep
<1>3. CASE ComponentsEvent
  BY <1>3, ComponentsStep
<1>4. CASE BfsCalled
  BY <1>4, BfsCalledStep
<1>5. CASE BfsMoves \/ MatchingCalled
  <2>1. /\ turn # "components" /\ turn' # "components"
        /\ UNCHANGED <<edges, batched>> /\ UNCHANGED componentVars
    BY <1>5 DEF BfsMoves, MatchingCalled, graphVars
  <2> QED BY <2>1, QuietStep
<1>6. CASE MatchingEvent \/ MatchingMoves \/ BackToUser
  <2>1. /\ turn # "components" /\ turn' # "components"
        /\ UNCHANGED <<edges, batched>> /\ UNCHANGED componentVars
    BY <1>6 DEF MatchingEvent, MatchingMoves, BackToUser, graphVars
  <2> QED BY <2>1, QuietStep
<1>7. CASE UNCHANGED vars
  <2>1. UNCHANGED <<edges, events, turn, next, batched>> /\ UNCHANGED componentVars
    BY <1>7 DEF vars, graphVars
  <2>2. Exact(edges) => Exact(edges)'
    BY <2>1 DEF Exact, Numbers, Spans, componentVars
  <2>3. ASSUME NEW e PROVE Exact(EdgesBefore(e)) => Exact(EdgesBefore(e))'
    BY <2>1 DEF Exact, Numbers, Spans, EdgesBefore, componentVars
  <2>4. Single => Single'
    BY <2>1, <2>2, <2>3 DEF Single
  <2> QED BY <2>1, <2>2, <2>4 DEF IInv
<1> QED BY <1>1, <1>2, <1>3, <1>4, <1>5, <1>6, <1>7 DEF Next, Update

-----------------------------------------------------------------------------
\* Between updates the numbers are those of the components of the graph and
\* the tree spans them; while a single event is handled they are exact for the
\* graph before it, or after it.
THEOREM ComponentsFollow == Spec => []IInv
  BY InitExact, StepKeeps, PTL DEF Spec

\* Whenever the user has the turn, and no batch of several events was handled,
\* two nodes have the same number exactly when a path connects them, numbers
\* have no gaps, and the tree edges span every component, for any graphs.
THEOREM ComponentsAlwaysExact == Spec => []ComponentsExact
<1>1. IInv => ComponentsExact
  BY DEF IInv, ComponentsExact, Exact, Numbers, Spans
<1> QED BY <1>1, ComponentsFollow, PTL
=============================================================================
