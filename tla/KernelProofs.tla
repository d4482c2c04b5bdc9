------------------------------ MODULE KernelProofs ------------------------------
(***************************************************************************)
(* For any number of nodes, weights, bound on arcs, Top and CheckEvery: a  *)
(* traversal returns shortest distances and traced paths, its heap stays   *)
(* within what was charged for it, it soon hears a cancellation, and the   *)
(* component kernels find the components.                                  *)
(*                                                                         *)
(* The search is followed by two bounds that meet at its end. From below,  *)
(* no estimate that no arc can improve is anywhere greater than dist       *)
(* (NoneGreater). From above, no arc tried with the present distance of    *)
(* its start can improve any longer (Searching), and when nothing waits    *)
(* every arc of a reached node has been tried. That a tried arc stays      *)
(* tried is what the order of the queue and of the heap is for             *)
(* (QueueOrder, HeapOrder): a node taken out never falls again. Were some  *)
(* distances not accounted for by an arc, one more than they are would be  *)
(* an estimate too, against NoneGreater (Enters).                          *)
(*                                                                         *)
(* The component kernels label every node by the least of its component.   *)
(* Halving leaves every root and linking joins two (HalvedKeeps,           *)
(* LinkJoins), so the roots tell what the scanned arcs connect (Connects). *)
(* In Kosaraju's first pass a node that finishes is reached from every     *)
(* unfinished node to which an arc leads from a finished one (NestedIn),   *)
(* so the last node of a component finishes after all that it leads to;    *)
(* in the second, what leads to a node that is the last to finish of those *)
(* not done is of its component or done (LeadsIn, Collected).              *)
(***************************************************************************)
EXTENDS MCKernels, FiniteSetTheorems, SequenceTheorems, WellFoundedInduction, TLAPS

\* What is assumed of the constants, in the form the proofs cite.
LEMMA Constant ==
  /\ NodeCount \in Nat /\ NodeCount > 0 /\ Top \in Nat /\ NodeCount - 1 <= Top
  /\ CheckEvery \in Nat /\ CheckEvery > 0 /\ Infinity \in Nat /\ Infinity = Top + 1
  /\ None \notin Int /\ Weights \subseteq Int
  /\ \A v \in Nodes : v \in Nat /\ v < NodeCount
  /\ 0 \in Nodes
  BY TraversalAssumption DEF Nodes, Infinity

\* A set of naturals has a least element.
LEMMA LeastExists ==
  ASSUME NEW T, T \subseteq Nat, T # {}
  PROVE  \E m \in T : \A k \in T : m <= k
<1> DEFINE R == OpToRel(<, Nat)
<1>1. IsWellFoundedOn(R, Nat)
  BY NatLessThanWellFounded, Zenon
<1>2. PICK m \in T : \A k \in T : ~(<<k, m>> \in R)
  <2> HIDE DEF R
  <2> QED BY <1>1, WFMin
<1>3. \A k, j \in Nat : k < j => <<k, j>> \in R
  BY SMT DEF OpToRel
<1>4. \A k \in T : ~(k < m)
  <2> HIDE DEF R
  <2> QED BY <1>2, <1>3, Zenon
<1> HIDE DEF R
<1>5. ASSUME NEW k \in T PROVE m <= k
  <2>1. ~(k < m) /\ k \in Nat /\ m \in Nat
    BY <1>4
  <2> QED BY <2>1, SMT
<1> QED BY <1>5

\* Induction over the numbers, as a fact about sets.
LEMMA Induction ==
  ASSUME NEW T, 0 \in T, \A n \in Nat : n \in T => n + 1 \in T
  PROVE  Nat \subseteq T
<1> SUFFICES ASSUME Nat \ T # {} PROVE FALSE
  OBVIOUS
<1>1. PICK m \in Nat \ T : \A k \in Nat \ T : m <= k
  BY LeastExists
<1>2. m # 0 /\ m - 1 \in Nat
  OBVIOUS
<1>3. m - 1 \in T
  BY <1>1, <1>2
<1> QED BY <1>2, <1>3

-----------------------------------------------------------------------------
(* Rows of the graph: every set of nodes can be listed in order.           *)

Ordered(s) == \A i, j \in DOMAIN s : i < j => s[i] < s[j]

\* The nodes are finitely many.
LEMMA NodesFinite == IsFiniteSet(Nodes) /\ Cardinality(Nodes) = NodeCount
<1>1. 0 \in Int /\ NodeCount - 1 \in Int /\ ~(0 > NodeCount - 1)
  BY Constant
<1> QED BY <1>1, FS_Interval, Constant DEF Nodes

\* A nonempty set of nodes has a greatest one.
LEMMA GreatestExists ==
  ASSUME NEW S \in SUBSET Nodes, S # {}
  PROVE  \E m \in S : \A k \in S : k <= m
<1> DEFINE T == {NodeCount - k : k \in S}
<1>1. T \subseteq Nat /\ T # {}
  BY Constant
<1>2. PICK t \in T : \A k \in T : t <= k
  <2> HIDE DEF T
  <2> QED BY <1>1, LeastExists
<1>3. PICK m \in S : t = NodeCount - m
  OBVIOUS
<1>4. ASSUME NEW k \in S PROVE k <= m
  <2>1. t <= NodeCount - k
    BY <1>2
  <2> QED BY <1>3, <2>1, Constant
<1> QED BY <1>4

\* Every set of nodes can be listed in increasing order.
LEMMA OrderExists ==
  ASSUME NEW S \in SUBSET Nodes
  PROVE  \E s \in [1 .. Cardinality(S) -> S] : Ordered(s)
<1> DEFINE T == {n \in Nat : \A A \in SUBSET Nodes :
                    Cardinality(A) = n => \E s \in [1 .. n -> A] : Ordered(s)}
<1>1. \A A \in SUBSET Nodes : IsFiniteSet(A) /\ Cardinality(A) \in Nat
  BY NodesFinite, FS_Subset, FS_CardinalityType
<1>2. 0 \in T
  <2> SUFFICES ASSUME NEW A \in SUBSET Nodes PROVE \E s \in [1 .. 0 -> A] : Ordered(s)
    OBVIOUS
  <2> DEFINE none == [i \in 1 .. 0 |-> i]
  <2>1. none \in [1 .. 0 -> A] /\ Ordered(none)
    BY DEF Ordered
  <2> QED BY <2>1
<1>3. ASSUME NEW n \in Nat, n \in T PROVE n + 1 \in T
  <2> SUFFICES ASSUME NEW A \in SUBSET Nodes, Cardinality(A) = n + 1
               PROVE  \E s \in [1 .. n + 1 -> A] : Ordered(s)
    OBVIOUS
  <2>1. A # {}
    BY FS_EmptySet
  <2>2. PICK m \in A : \A k \in A : k <= m
    BY <2>1, GreatestExists
  <2>3. Cardinality(A \ {m}) = n
    BY <1>1, FS_RemoveElement
  <2>4. PICK s \in [1 .. n -> A \ {m}] : Ordered(s)
    BY <1>3, <2>3
  <2> DEFINE z == [i \in 1 .. n + 1 |-> IF i = n + 1 THEN m ELSE s[i]]
  <2>5. z \in [1 .. n + 1 -> A]
    OBVIOUS
  <2>6. ASSUME NEW i \in 1 .. n + 1, NEW j \in 1 .. n + 1, i < j PROVE z[i] < z[j]
    <3>1. i \in 1 .. n /\ z[i] = s[i] /\ s[i] \in A \ {m}
      BY <2>6
    <3>2. CASE j = n + 1
      <4>1. s[i] \in Nat /\ m \in Nat /\ s[i] <= m /\ s[i] # m
        BY <2>2, <3>1, Constant
      <4> QED BY <3>1, <3>2, <4>1
    <3>3. CASE j # n + 1
      <4>1. j \in 1 .. n /\ z[j] = s[j]
        BY <3>3
      <4> QED BY <2>4, <2>6, <3>1, <4>1 DEF Ordered
    <3> QED BY <3>2, <3>3
  <2>7. DOMAIN z = 1 .. n + 1
    OBVIOUS
  <2>8. Ordered(z)
    <3> HIDE DEF z
    <3> QED BY <2>6, <2>7 DEF Ordered
  <2> HIDE DEF z
  <2> QED BY <2>5, <2>8
<1>4. Nat \subseteq T
  <2> HIDE DEF T
  <2> QED BY <1>2, <1>3, Induction
<1> QED BY <1>1, <1>4

\* InOrder lists every node of a set, once.
LEMMA InOrderLists ==
  ASSUME NEW S \in SUBSET Nodes
  PROVE  /\ InOrder(S) \in Seq(S) /\ Len(InOrder(S)) = Cardinality(S) /\ Cardinality(S) \in Nat
         /\ \A i, j \in 1 .. Cardinality(S) : i # j => InOrder(S)[i] # InOrder(S)[j]
         /\ \A v \in S : \E i \in 1 .. Cardinality(S) : InOrder(S)[i] = v
<1> DEFINE s == InOrder(S)
           n == Cardinality(S)
<1>1. IsFiniteSet(S) /\ n \in Nat
  BY NodesFinite, FS_Subset, FS_CardinalityType
<1>2. s \in [1 .. n -> S] /\ Ordered(s)
  BY OrderExists DEF InOrder, Ordered
<1> HIDE DEF s, n
<1>3. \A i, j \in 1 .. n : i # j => s[i] # s[j]
  <2> SUFFICES ASSUME NEW i \in 1 .. n, NEW j \in 1 .. n, i # j, s[i] = s[j] PROVE FALSE
    OBVIOUS
  <2>1. i \in DOMAIN s /\ j \in DOMAIN s /\ s[i] \in Nat /\ s[j] \in Nat
    BY <1>2, Constant
  <2>2. i < j \/ j < i
    BY <1>1
  <2> QED BY <1>2, <2>1, <2>2 DEF Ordered
<1>4. s \in Injection(1 .. n, S)
  BY <1>2, <1>3 DEF Injection, IsInjective
<1>5. IsFiniteSet(1 .. n) /\ Cardinality(1 .. n) = n
  BY <1>1, FS_Interval
<1>6. s \in Surjection(1 .. n, S)
  BY <1>1, <1>4, <1>5, FS_Injection DEF n
<1>7. \A v \in S : \E i \in 1 .. n : s[i] = v
  BY <1>6 DEF Surjection
<1>8. s \in Seq(S) /\ Len(s) = n
  BY <1>1, <1>2
<1> QED BY <1>1, <1>3, <1>7, <1>8 DEF s, n

\* A row lists the targets of a node's arcs, once each.
LEMMA RowLists ==
  ASSUME NEW x \in Nodes
  PROVE  /\ Len(Neighbors(x)) \in Nat
         /\ \A i \in 1 .. Len(Neighbors(x)) :
              Neighbors(x)[i] \in Nodes /\ <<x, Neighbors(x)[i]>> \in Arcs
         /\ \A i, j \in 1 .. Len(Neighbors(x)) : i # j => Neighbors(x)[i] # Neighbors(x)[j]
         /\ \A v : <<x, v>> \in Arcs => \E i \in 1 .. Len(Neighbors(x)) : Neighbors(x)[i] = v
<1> DEFINE S == {v \in Nodes : <<x, v>> \in Arcs}
<1>1. S \in SUBSET Nodes /\ \A v : <<x, v>> \in Arcs => v \in S
  BY DEF Arcs
<1>2. Neighbors(x) = InOrder(S)
  BY DEF Neighbors
<1>3. \A v \in S : v \in Nodes /\ <<x, v>> \in Arcs
  OBVIOUS
<1> HIDE DEF S
<1>4. /\ InOrder(S) \in Seq(S) /\ Len(InOrder(S)) = Cardinality(S) /\ Cardinality(S) \in Nat
      /\ \A i, j \in 1 .. Cardinality(S) : i # j => InOrder(S)[i] # InOrder(S)[j]
      /\ \A v \in S : \E i \in 1 .. Cardinality(S) : InOrder(S)[i] = v
  BY <1>1, InOrderLists
<1>5. \A i \in 1 .. Len(InOrder(S)) : InOrder(S)[i] \in S
  BY <1>4
<1> QED BY <1>1, <1>2, <1>3, <1>4, <1>5

-----------------------------------------------------------------------------
(* What every state looks like.                                            *)

Kernels == {"bfs", "dijkstra", "weak", "strong"}
Spot == [node : Nodes, distance : 0 .. Infinity, arc : Nat]
Entries == (0 .. Top) \X Nodes

GraphOK ==
  /\ kernel \in Kernels /\ source = 0
  /\ \A a \in Arcs : weight[a] \in Int
  /\ kernel = "dijkstra" /\ pc \notin {"start", "invalid"} => \A a \in Arcs : weight[a] >= 0

\* The node being expanded is reached, and its distance is the one it was
\* taken with.
Expanding ==
  Traverses /\ pc = "row" => at.distance = dist[at.node] /\ at.distance \in 0 .. Top

\* bfs: there is a reached node at every distance up to the largest, so that a
\* distance is less than the number of reached nodes.
Depth ==
  /\ kernel = "bfs" => \A x \in Reached : dist[x] < Cardinality(Reached)
  /\ \A i \in 1 .. Len(queue) : queue[i] \in Reached

Tracing ==
  Traverses /\ pc = "trace" => nodes # <<>> /\ target < NodeCount

Fresh == dist = [v \in Nodes |-> Infinity] /\ queue = <<>> /\ heap = EmptyBag /\ target = 0 /\ visited = <<>>

TypeOK ==
  /\ GraphOK
  /\ dist \in [Nodes -> 0 .. Infinity] /\ parents \in [Nodes -> Nodes]
  /\ queue \in Seq(Nodes) /\ nodes \in Seq(Nodes)
  /\ IsABag(heap) /\ DOMAIN heap \subseteq Entries
  /\ at \in Spot /\ Expanding /\ Depth /\ Tracing
  /\ target \in 0 .. NodeCount /\ cancelled \in BOOLEAN /\ late \in Nat
  /\ pc = "start" \/ ~Traverses => Fresh
  /\ ~Traverses => ~cancelled /\ late = 0

\* A step is one of the traversal, a cancellation, or one of another kernel.
LEMMA StepKinds ==
  ASSUME MCNext
  PROVE  /\ weight' = weight /\ source' = source /\ kernel' = kernel
         /\ Arcs' = Arcs /\ \A x \in Nodes : Neighbors(x)' = Neighbors(x)
         /\ \/ Traverses /\ Step /\ late' = (IF cancelled THEN late + 1 ELSE 0)
            \/ Traverses /\ Cancel /\ late' = 0
            \/ ~Traverses /\ UNCHANGED traversalVars /\ late' = (IF cancelled THEN late + 1 ELSE 0)
<1>1. weight' = weight /\ source' = source /\ kernel' = kernel
  <2>1. CASE Step \/ Cancel
    BY <2>1 DEF Step, Start, PopFront, Pop, RelaxArc, EndRow, NextTarget, Trace, Cancel, graph
  <2>2. CASE UNCHANGED traversalVars /\ C!Next
    BY <2>2 DEF traversalVars, C!Next, C!Union, C!NextRow, C!Flatten, C!FlattenNode, C!StartSearch,
                C!Search, C!Searched, C!StartComponent, C!Collect, C!EndComponent, C!graph
  <2> QED BY <2>1, <2>2 DEF MCNext, KernelStep
<1>2. Arcs' = Arcs /\ \A x \in Nodes : Neighbors(x)' = Neighbors(x)
  BY <1>1 DEF Arcs, Neighbors
<1> QED BY <1>1, <1>2 DEF MCNext, KernelStep

\* The top of the heap is an entry of least distance.
LEMMA HeapLeast ==
  ASSUME TypeOK, heap # EmptyBag
  PROVE  /\ HeapTop \in DOMAIN heap
         /\ \A f \in DOMAIN heap : HeapTop[1] <= f[1]
<1>1. DOMAIN heap # {} /\ DOMAIN heap \subseteq Entries
  BY DEF TypeOK, IsABag, EmptyBag, SetToBag
<1>2. \A e \in DOMAIN heap : e[1] \in Nat /\ e[2] \in Nat /\ e = <<e[1], e[2]>>
  BY <1>1, Constant DEF Entries
<1> DEFINE D == {e[1] : e \in DOMAIN heap}
<1>3. PICK d \in D : \A k \in D : d <= k
  <2>1. D \subseteq Nat /\ D # {}
    BY <1>1, <1>2
  <2> HIDE DEF D
  <2> QED BY <2>1, LeastExists
<1> DEFINE N == {e[2] : e \in {f \in DOMAIN heap : f[1] = d}}
<1>4. PICK n \in N : \A k \in N : n <= k
  <2>1. N \subseteq Nat /\ N # {}
    BY <1>2, <1>3
  <2> HIDE DEF N
  <2> QED BY <2>1, LeastExists
<1>5. PICK e \in DOMAIN heap : e[1] = d /\ e[2] = n
  BY <1>4
<1>6. ASSUME NEW f \in DOMAIN heap PROVE e[1] < f[1] \/ (e[1] = f[1] /\ e[2] <= f[2])
  <2>1. d <= f[1]
    BY <1>3
  <2>2. CASE f[1] = d
    BY <1>4, <1>5, <2>2
  <2>3. CASE f[1] # d
    BY <1>2, <1>5, <2>1, <2>3
  <2> QED BY <2>2, <2>3
<1>7. /\ HeapTop \in DOMAIN heap
      /\ \A f \in DOMAIN heap : HeapTop[1] < f[1] \/ (HeapTop[1] = f[1] /\ HeapTop[2] <= f[2])
  BY <1>5, <1>6 DEF HeapTop, BagToSet
<1> QED BY <1>2, <1>7

\* What one more entry does to a heap.
LEMMA BagAdd ==
  ASSUME NEW B, IsABag(B), NEW e
  PROVE  /\ IsABag(B (+) SetToBag({e})) /\ DOMAIN (B (+) SetToBag({e})) = DOMAIN B \cup {e}
         /\ \A f \in DOMAIN B : f # e => (B (+) SetToBag({e}))[f] = B[f]
         /\ e \notin DOMAIN B => (B (+) SetToBag({e}))[e] = 1
<1> DEFINE A == B (+) SetToBag({e})
<1>1. DOMAIN A = DOMAIN B \cup {e} /\ A = [k \in DOMAIN A |-> A[k]]
  BY DEF (+), SetToBag
<1>2. \A k \in DOMAIN A : A[k] = (IF k \in DOMAIN B THEN B[k] ELSE 0) + (IF k = e THEN 1 ELSE 0)
  BY DEF (+), SetToBag
<1>3. \A k \in DOMAIN B : B[k] \in Nat /\ B[k] > 0
  BY DEF IsABag
<1> HIDE DEF A
<1>4. \A k \in DOMAIN A : A[k] \in Nat /\ A[k] > 0
  BY <1>1, <1>2, <1>3
<1>5. IsABag(A)
  BY <1>1, <1>4 DEF IsABag
<1>6. \A k \in DOMAIN B : k # e => A[k] = B[k]
  BY <1>1, <1>2, <1>3
<1>7. e \notin DOMAIN B => A[e] = 1
  BY <1>1, <1>2
<1> QED BY <1>1, <1>5, <1>6, <1>7 DEF A

\* What one entry less does to a heap.
LEMMA BagRemove ==
  ASSUME NEW B, IsABag(B), NEW e \in DOMAIN B
  PROVE  /\ IsABag(B (-) SetToBag({e}))
         /\ DOMAIN (B (-) SetToBag({e})) = IF B[e] = 1 THEN DOMAIN B \ {e} ELSE DOMAIN B
         /\ \A f \in DOMAIN B : f # e => (B (-) SetToBag({e}))[f] = B[f]
<1> DEFINE A == B (-) SetToBag({e})
           Left(k) == IF k = e THEN B[k] - 1 ELSE B[k]
<1>1. DOMAIN A = {k \in DOMAIN B : Left(k) > 0} /\ A = [k \in DOMAIN A |-> A[k]]
  BY DEF (-), SetToBag
<1>2. \A k \in DOMAIN A : A[k] = Left(k)
  BY DEF (-), SetToBag
<1>3. \A k \in DOMAIN B : B[k] \in Nat /\ B[k] > 0
  BY DEF IsABag
<1> HIDE DEF A
<1>4. \A k \in DOMAIN A : A[k] \in Nat /\ A[k] > 0
  BY <1>1, <1>2, <1>3
<1>5. IsABag(A)
  BY <1>1, <1>4 DEF IsABag
<1>6. DOMAIN A = IF B[e] = 1 THEN DOMAIN B \ {e} ELSE DOMAIN B
  BY <1>1, <1>3
<1>7. \A f \in DOMAIN B : f # e => A[f] = B[f]
  BY <1>1, <1>2, <1>3
<1> QED BY <1>5, <1>6, <1>7 DEF A

\* The reached nodes are finitely many, with distances in range.
LEMMA ReachedFinite ==
  ASSUME TypeOK
  PROVE  /\ Reached \subseteq Nodes /\ IsFiniteSet(Reached) /\ Cardinality(Reached) \in Nat
         /\ \A x \in Reached : dist[x] \in 0 .. Top
<1>1. \A x \in Nodes : dist[x] \in 0 .. Infinity
  BY DEF TypeOK
<1>2. Reached \subseteq Nodes /\ \A x \in Reached : dist[x] \in 0 .. Top
  BY <1>1, Constant DEF Reached
<1> QED BY <1>2, NodesFinite, FS_Subset, FS_CardinalityType

\* bfs gives a node a distance that is not infinity.
LEMMA DiscoverFinite ==
  ASSUME TypeOK, kernel = "bfs", pc = "row", NEW v \in Nodes, v \notin Reached
  PROVE  /\ dist[at.node] + 1 \in 0 .. Top
         /\ IsFiniteSet(Reached \cup {v}) /\ Cardinality(Reached \cup {v}) = Cardinality(Reached) + 1
         /\ dist[at.node] + 1 < Cardinality(Reached) + 1
<1>1. Reached \subseteq Nodes /\ IsFiniteSet(Reached) /\ Cardinality(Reached) \in Nat
  BY ReachedFinite
<1>2. IsFiniteSet(Reached \cup {v}) /\ Cardinality(Reached \cup {v}) = Cardinality(Reached) + 1
  BY <1>1, FS_AddElement
<1>3. Cardinality(Reached \cup {v}) <= NodeCount
  BY <1>1, NodesFinite, FS_Subset
<1>4. at.node \in Reached /\ dist[at.node] \in Nat
  BY Constant DEF TypeOK, Expanding, Spot, Reached, Traverses
<1>5. dist[at.node] < Cardinality(Reached)
  BY <1>4 DEF TypeOK, Depth
<1> QED BY <1>1, <1>2, <1>3, <1>4, <1>5, Constant

\* A call begins well formed.
LEMMA TypeInit == MCInit => TypeOK
<1> SUFFICES ASSUME MCInit PROVE TypeOK
  OBVIOUS
<1>1. NoCall /\ late = 0 /\ kernel \in Kernels /\ ~(kernel = "dijkstra" /\ pc # "start")
  BY DEF MCInit, Init, C!Init, Kernels
<1>2. \A a \in Arcs : weight[a] \in Int
  <2>1. CASE Init
    <3>1. PICK g \in Graphs : weight = [a \in Nodes \X Nodes |-> IF a \in DOMAIN g THEN g[a] ELSE None]
      BY <2>1 DEF Init
    <3>2. \A a \in DOMAIN g : g[a] \in Weights
      BY <3>1 DEF Graphs
    <3> QED BY <3>1, <3>2, Constant DEF Arcs
  <2>2. ASSUME NEW g, weight = [a \in Nodes \X Nodes |-> IF a \in g THEN 0 ELSE None]
        PROVE  \A a \in Arcs : weight[a] \in Int
    BY <2>2 DEF Arcs
  <2> QED BY <2>1, <2>2 DEF MCInit
<1>3. GraphOK
  BY <1>1, <1>2 DEF GraphOK, NoCall
<1>4. Fresh /\ dist \in [Nodes -> 0 .. Infinity] /\ parents \in [Nodes -> Nodes]
  BY <1>1, Constant DEF NoCall, Fresh
<1>5. at \in Spot /\ target \in 0 .. NodeCount /\ cancelled \in BOOLEAN /\ ~cancelled /\ late \in Nat
  <2>1. /\ at = [node |-> 0, distance |-> 0, arc |-> 0] /\ target = 0 /\ cancelled = FALSE /\ late = 0
    BY <1>1 DEF NoCall
  <2>2. at \in Spot
    BY <2>1, Constant DEF Spot
  <2>3. target \in 0 .. NodeCount
    BY <2>1, Constant
  <2> QED BY <2>1, <2>2, <2>3
<1>6. IsABag(heap) /\ DOMAIN heap \subseteq Entries
  BY <1>4 DEF Fresh, IsABag, EmptyBag, SetToBag
<1>7. queue \in Seq(Nodes) /\ nodes \in Seq(Nodes) /\ Len(queue) = 0
  BY <1>1 DEF NoCall
<1>8. Reached = {}
  BY <1>4 DEF Fresh, Reached
<1>9. pc # "row"
  BY DEF MCInit, Init, C!Init
<1>10. Depth /\ Expanding
  BY <1>7, <1>8, <1>9 DEF Depth, Expanding
<1>11. Tracing
  BY DEF Tracing, MCInit, Init, C!Init
<1> QED BY <1>1, <1>3, <1>4, <1>5, <1>6, <1>7, <1>10, <1>11 DEF TypeOK

\* Steps that leave the estimate and its structures alone.
Still == dist' = dist /\ parents' = parents /\ queue' = queue /\ heap' = heap

\* Steps that leave the estimate alone keep it well formed.
LEMMA StillTyped ==
  ASSUME TypeOK, MCNext, Still, Traverses, pc # "start", pc # "invalid",
         pc' # "start", nodes' \in Seq(Nodes), at' \in Spot, 
         pc' = "row" => pc = "row" /\ at'.node = at.node /\ at'.distance = at.distance,
         target' \in 0 .. NodeCount, cancelled' \in BOOLEAN,
         pc' = "trace" => nodes' # <<>> /\ target' < NodeCount
  PROVE  TypeOK'
<1>1. /\ weight' = weight /\ source' = source /\ kernel' = kernel /\ Arcs' = Arcs /\ late' \in Nat
  BY StepKinds DEF TypeOK
<1>2. GraphOK'
  BY <1>1 DEF TypeOK, GraphOK
<1>3. Reached' = Reached /\ Expanding' /\ Depth'
  BY <1>1 DEF TypeOK, Still, Reached, Expanding, Depth
<1>4. Traverses'
  BY <1>1 DEF Traverses
<1> QED BY <1>1, <1>2, <1>3, <1>4 DEF TypeOK, Still, Tracing

\* Every step keeps the state well formed.
LEMMA TypeStep ==
  ASSUME TypeOK, MCNext
  PROVE  TypeOK'
<1>1. /\ weight' = weight /\ source' = source /\ kernel' = kernel /\ Arcs' = Arcs /\ late' \in Nat
      /\ Traverses' = Traverses /\ kernel \in Kernels /\ source = 0
  BY StepKinds DEF TypeOK, GraphOK, Traverses
<1>2. CASE ~Traverses /\ UNCHANGED traversalVars /\ late' = (IF cancelled THEN late + 1 ELSE 0)
  <2>1. kernel # "bfs" /\ kernel # "dijkstra" /\ ~cancelled /\ late' = 0
    BY <1>2 DEF Traverses, TypeOK
  <2>2. /\ dist' = dist /\ parents' = parents /\ queue' = queue /\ heap' = heap /\ nodes' = nodes
        /\ at' = at /\ target' = target /\ cancelled' = cancelled /\ visited' = visited
    BY <1>2 DEF traversalVars
  <2>4. GraphOK' /\ Reached' = Reached
    BY <1>1, <2>1, <2>2 DEF TypeOK, GraphOK, Reached
  <2>5. Expanding' /\ Depth' /\ Fresh'
    BY <1>1, <1>2, <2>1, <2>2, <2>4 DEF TypeOK, Expanding, Depth, Fresh
  <2> QED BY <1>1, <1>2, <2>1, <2>2, <2>4, <2>5 DEF TypeOK, Tracing
<1>3. CASE Cancel
  <2>1. pc' = pc /\ nodes' = nodes /\ at' = at /\ target' = target /\ visited' = visited
        /\ cancelled' = TRUE /\ Still
    BY <1>3 DEF Cancel, Still, graph
  <2>2. GraphOK' /\ Reached' = Reached
    BY <1>1, <2>1 DEF TypeOK, GraphOK, Reached, Still
  <2>3. Expanding' /\ Depth' /\ (pc = "start" \/ ~Traverses => Fresh')
    BY <1>1, <2>1, <2>2 DEF TypeOK, Expanding, Depth, Fresh, Still
  <2>4. Traverses
    BY <1>2, <1>3, StepKinds DEF Cancel, traversalVars, TypeOK
  <2> QED BY <1>1, <2>1, <2>2, <2>3, <2>4 DEF TypeOK, Tracing, Still
<1>4. ASSUME Start, Traverses PROVE TypeOK'
  <2>1. /\ parents' = parents /\ nodes' = nodes /\ at' = at /\ target' = target /\ visited' = visited
        /\ cancelled' = cancelled /\ Fresh /\ pc' \in {"invalid", "take"}
    BY <1>4 DEF Start, TypeOK
  <2>2. CASE pc' = "invalid"
    <3>1. dist' = dist /\ queue' = queue /\ heap' = heap
      BY <1>4, <2>2 DEF Start
    <3>2. GraphOK' /\ Reached' = Reached
      BY <1>1, <2>1, <2>2, <3>1 DEF TypeOK, GraphOK, Reached
    <3>3. Expanding' /\ Depth'
      BY <1>1, <2>2, <3>1, <3>2 DEF TypeOK, Expanding, Depth
    <3> QED BY <1>1, <1>4, <2>1, <2>2, <3>1, <3>2, <3>3 DEF TypeOK, Tracing
  <2>3. CASE pc' = "take"
    <3>1. /\ dist' = [dist EXCEPT ![source] = 0]
          /\ (kernel = "dijkstra" => ~HasNegativeWeights)
          /\ (kernel = "bfs" => queue' = <<source>> /\ heap' = heap)
          /\ (kernel # "bfs" => heap' = SetToBag({<<0, source>>}) /\ queue' = queue)
      BY <1>4, <2>3 DEF Start
    <3>2. GraphOK'
      <4>1. kernel = "dijkstra" => \A a \in Arcs : weight[a] >= 0
        BY <3>1 DEF HasNegativeWeights, TypeOK, GraphOK
      <4> QED BY <1>1, <4>1 DEF TypeOK, GraphOK
    <3>3. dist' \in [Nodes -> 0 .. Infinity] /\ Reached' = {source}
      BY <1>1, <2>1, <3>1, Constant DEF Fresh, TypeOK, Reached
    <3>4. Cardinality(Reached') = 1 /\ dist'[source] = 0 /\ source \in Nodes
      BY <1>1, <3>1, <3>3, FS_Singleton, Constant DEF TypeOK
    <3>5. queue' \in Seq(Nodes) /\ \A i \in 1 .. Len(queue') : queue'[i] = source
      <4>1. queue' = <<source>> \/ queue' = <<>>
        BY <2>1, <3>1 DEF Fresh
      <4>2. source \in Nodes /\ <<source>> \in Seq(Nodes) /\ Len(<<source>>) = 1 /\ <<source>>[1] = source
        BY <3>4
      <4>3. <<>> \in Seq(Nodes) /\ Len(<<>>) = 0
        OBVIOUS
      <4>4. CASE queue' = <<source>>
        BY <4>2, <4>4
      <4>5. CASE queue' = <<>>
        BY <4>3, <4>5
      <4> QED BY <4>1, <4>4, <4>5
    <3>6. Depth' /\ Expanding'
      BY <2>3, <3>3, <3>4, <3>5 DEF Depth, Expanding
    <3>7. IsABag(heap') /\ DOMAIN heap' \subseteq Entries
      <4>1. <<0, source>> \in Entries
        BY <3>4, Constant DEF Entries
      <4>2. CASE kernel = "bfs"
        BY <3>1, <4>2 DEF TypeOK
      <4>3. CASE kernel # "bfs"
        BY <3>1, <4>1, <4>3 DEF IsABag, SetToBag
      <4> QED BY <4>2, <4>3
    <3> QED BY <1>1, <1>4, <2>1, <2>3, <3>2, <3>3, <3>5, <3>6, <3>7 DEF TypeOK, Tracing
  <2> QED BY <2>1, <2>2, <2>3
<1>5. ASSUME PopFront, Traverses PROVE TypeOK'
  <2>1. /\ dist' = dist /\ parents' = parents /\ nodes' = nodes /\ target' = target /\ visited' = visited
        /\ cancelled' = cancelled /\ heap' = heap /\ pc = "take" /\ pc' \in {"ok", "cancelled", "row"}
    BY <1>5 DEF PopFront, Expand
  <2>2. GraphOK' /\ Reached' = Reached
    BY <1>1, <2>1 DEF TypeOK, GraphOK, Reached
  <2>3. CASE queue = <<>>
    <3>1. queue' = queue /\ at' = at /\ pc' = "ok"
      BY <1>5, <2>3 DEF PopFront
    <3>2. Depth' /\ Expanding'
      BY <1>1, <2>1, <2>2, <3>1 DEF TypeOK, Depth, Expanding
    <3> QED BY <1>1, <1>4, <1>5, <2>1, <2>2, <3>1, <3>2 DEF TypeOK, Tracing
  <2>4. CASE queue # <<>>
    <3> DEFINE h == Head(queue)
    <3>1. /\ queue' = Tail(queue)
          /\ \/ at' = at /\ pc' = "cancelled"
             \/ at' = [node |-> h, distance |-> dist[h], arc |-> 0] /\ pc' = "row"
      BY <1>5, <2>4 DEF PopFront, Expand
    <3>2. /\ queue' \in Seq(Nodes) /\ Len(queue') = Len(queue) - 1 /\ Len(queue) \in Nat
          /\ h = queue[1] /\ 1 \in 1 .. Len(queue)
          /\ \A i \in 1 .. Len(queue') : queue'[i] = queue[i + 1]
      BY <2>4, <3>1, HeadTailProperties DEF TypeOK
    <3>3. h \in Reached /\ \A i \in 1 .. Len(queue') : queue'[i] \in Reached
      <4>1. \A i \in 1 .. Len(queue) : queue[i] \in Reached
        BY DEF TypeOK, Depth
      <4>2. \A i \in 1 .. Len(queue') : i + 1 \in 1 .. Len(queue)
        BY <3>2
      <4> QED BY <3>2, <4>1, <4>2
    <3>4. h \in Nodes /\ dist[h] \in 0 .. Top
      BY <3>3, ReachedFinite
    <3> HIDE DEF h
    <3>5. Depth'
      BY <1>1, <2>1, <2>2, <3>3 DEF TypeOK, Depth
    <3>6. at' \in Spot /\ Expanding'
      BY <2>1, <3>1, <3>4, Constant DEF TypeOK, Spot, Expanding
    <3> QED BY <1>1, <1>5, <2>1, <2>2, <3>2, <3>5, <3>6 DEF TypeOK, Tracing
  <2> QED BY <2>3, <2>4
<1>6. ASSUME Pop, Traverses PROVE TypeOK'
  <2>1. /\ dist' = dist /\ parents' = parents /\ nodes' = nodes /\ target' = target /\ visited' = visited
        /\ cancelled' = cancelled /\ queue' = queue /\ pc = "take" /\ pc' \in {"paths", "cancelled", "row", "take"}
    BY <1>6 DEF Pop, Expand
  <2>2. GraphOK' /\ Reached' = Reached /\ Depth'
    BY <1>1, <2>1 DEF TypeOK, GraphOK, Reached, Depth
  <2>3. CASE heap = EmptyBag
    <3>1. heap' = heap /\ at' = at /\ pc' = "paths"
      BY <1>6, <2>3 DEF Pop
    <3>2. Expanding'
      BY <3>1 DEF Expanding
    <3> QED BY <1>1, <1>6, <2>1, <2>2, <3>1, <3>2 DEF TypeOK, Tracing
  <2>4. CASE heap # EmptyBag
    <3>1. /\ heap' = heap (-) SetToBag({HeapTop})
          /\ \/ at' = at /\ pc' \in {"cancelled", "take"}
             \/ /\ HeapTop[1] = dist[HeapTop[2]] /\ pc' = "row"
                /\ at' = [node |-> HeapTop[2], distance |-> HeapTop[1], arc |-> 0]
      BY <1>6, <2>1, <2>4 DEF Pop, Expand
    <3>2. HeapTop \in DOMAIN heap /\ HeapTop \in Entries
      BY <2>4, HeapLeast DEF TypeOK
    <3>3. HeapTop[1] \in 0 .. Top /\ HeapTop[2] \in Nodes
      BY <3>2 DEF Entries
    <3>4. IsABag(heap') /\ DOMAIN heap' \subseteq Entries
      BY ZenonT(40), <3>1, <3>2, BagRemove DEF TypeOK
    <3>5. at' \in Spot /\ Expanding'
      <4>1. CASE at' = at /\ pc' \in {"cancelled", "take"}
        BY <4>1 DEF TypeOK, Expanding
      <4>2. CASE /\ HeapTop[1] = dist[HeapTop[2]] /\ pc' = "row"
                 /\ at' = [node |-> HeapTop[2], distance |-> HeapTop[1], arc |-> 0]
        <5>1. at'.node = HeapTop[2] /\ at'.distance = HeapTop[1] /\ at'.arc = 0
          BY <4>2
        <5>2. at' \in Spot
          BY <3>3, <4>2, Constant DEF Spot
        <5>3. Expanding'
          BY <2>1, <3>3, <4>2, <5>1, Constant DEF TypeOK, Expanding
        <5> QED BY <5>2, <5>3
      <4> QED BY <3>1, <4>1, <4>2
    <3> QED BY <1>1, <1>6, <2>1, <2>2, <3>4, <3>5 DEF TypeOK, Tracing
  <2> QED BY <2>3, <2>4
<1>7. ASSUME RelaxArc, Traverses PROVE TypeOK'
  <2> DEFINE v == Neighbors(at.node)[at.arc + 1]
  <2>1. /\ at.node \in Nodes /\ at.arc \in Nat /\ at.arc < Len(Neighbors(at.node)) /\ at.distance \in 0 .. Top
        /\ at.distance = dist[at.node] /\ pc = "row"
    BY <1>7 DEF RelaxArc, TypeOK, Spot, Expanding
  <2>2. v \in Nodes /\ <<at.node, v>> \in Arcs
    BY <2>1, RowLists
  <2>3. /\ nodes' = nodes /\ target' = target /\ visited' = visited /\ cancelled' = cancelled
        /\ at' \in Spot /\ at'.node = at.node /\ at'.distance = at.distance
    <3>1. at' = [at EXCEPT !.arc = @ + 1] /\ at \in Spot
      BY <1>7 DEF RelaxArc, TypeOK
    <3>2. at' \in Spot /\ at'.node = at.node /\ at'.distance = at.distance
      BY <3>1 DEF Spot
    <3> QED BY <1>7, <3>2 DEF RelaxArc
  <2>4. GraphOK' \/ pc' \in {"start", "invalid"}
    BY <1>1, <2>1 DEF TypeOK, GraphOK
  <2> HIDE DEF v
  <2>5. CASE Still /\ pc' \in {"row", "cancelled", "overflow"}
    <3>1. GraphOK' /\ Reached' = Reached
      BY <1>1, <2>1, <2>5 DEF TypeOK, GraphOK, Reached, Still
    <3>2. Depth' /\ Expanding'
      BY <1>1, <2>1, <2>3, <2>5, <3>1 DEF TypeOK, Depth, Expanding, Still
    <3> QED BY <1>1, <1>7, <2>3, <2>5, <3>1, <3>2 DEF TypeOK, Tracing, Still
  <2>6. CASE kernel = "bfs" /\ BfsArc(v) /\ ~Still
    <3>1. /\ dist[v] = Infinity /\ dist' = [dist EXCEPT ![v] = dist[at.node] + 1] /\ queue' = Append(queue, v)
          /\ heap' = heap /\ parents' = parents /\ pc' = pc
      BY <2>6 DEF BfsArc, Still, Undiscovered
    <3>2. v \notin Reached /\ at.node \in Reached /\ at.node # v
      BY <2>1, <2>2, <3>1, Constant DEF Reached
    <3>3. /\ dist[at.node] + 1 \in 0 .. Top
          /\ Cardinality(Reached \cup {v}) = Cardinality(Reached) + 1
          /\ dist[at.node] + 1 < Cardinality(Reached) + 1
      BY <2>1, <2>2, <2>6, <3>2, DiscoverFinite
    <3>4. dist' \in [Nodes -> 0 .. Infinity] /\ Reached' = Reached \cup {v}
          /\ \A x \in Nodes : dist'[x] = (IF x = v THEN dist[at.node] + 1 ELSE dist[x])
      BY SMTT(20), <2>2, <3>1, <3>3, Constant DEF TypeOK, Reached
    <3>5. \A x \in Reached' : dist'[x] < Cardinality(Reached')
      <4>1. \A x \in Reached : dist[x] < Cardinality(Reached) /\ dist[x] \in Nat /\ x \in Nodes
        BY <2>6, ReachedFinite DEF TypeOK, Depth
      <4>2. Cardinality(Reached) \in Nat
        BY ReachedFinite
      <4>3. \A x \in Reached' : x = v \/ x \in Reached
        BY <3>4
      <4> QED BY <2>2, <3>2, <3>3, <3>4, <4>1, <4>2, <4>3
    <3>6. queue' \in Seq(Nodes) /\ \A i \in 1 .. Len(queue') : queue'[i] \in Reached'
      <4>1. queue \in Seq(Nodes) /\ \A i \in 1 .. Len(queue) : queue[i] \in Reached
        BY DEF TypeOK, Depth
      <4>2. Len(queue) \in Nat /\ Len(queue') = Len(queue) + 1 /\ queue' \in Seq(Nodes)
            /\ \A i \in 1 .. Len(queue) + 1 : queue'[i] = IF i = Len(queue) + 1 THEN v ELSE queue[i]
        BY <2>2, <3>1, <4>1, AppendProperties
      <4>3. ASSUME NEW i \in 1 .. Len(queue') PROVE queue'[i] \in Reached'
        <5>1. i = Len(queue) + 1 \/ i \in 1 .. Len(queue)
          BY <4>2
        <5>2. CASE i = Len(queue) + 1
          BY <3>4, <4>2, <5>2
        <5>3. CASE i \in 1 .. Len(queue)
          <6>1. queue'[i] = queue[i]
            BY <4>2, <5>3
          <6> QED BY <3>4, <4>1, <5>3, <6>1
        <5> QED BY <5>1, <5>2, <5>3
      <4> QED BY <4>2, <4>3
    <3>7. Depth'
      BY <1>1, <3>5, <3>6 DEF Depth
    <3>8. Expanding' /\ GraphOK'
      BY <1>1, <2>1, <2>3, <2>6, <3>1, <3>2, <3>4 DEF Expanding, TypeOK, GraphOK
    <3>9. heap' = heap /\ parents' = parents /\ pc' = "row" /\ queue' \in Seq(Nodes)
      BY <2>1, <3>1, <3>6
    <3>10. dist' \in [Nodes -> 0 .. Infinity] /\ Tracing'
      BY <3>4, <3>9 DEF Tracing
    <3> QED BY <1>1, <1>7, <2>3, <3>7, <3>8, <3>9, <3>10 DEF TypeOK
  <2>7. CASE kernel = "dijkstra" /\ DijkstraArc(v) /\ ~Still
    <3> DEFINE next == at.distance + weight[<<at.node, v>>]
    <3>1. /\ ~(next > Top) /\ next < dist[v] /\ dist' = [dist EXCEPT ![v] = next]
          /\ parents' = [parents EXCEPT ![v] = at.node] /\ heap' = heap (+) SetToBag({<<next, v>>})
          /\ pc' = pc /\ queue' = queue
      BY <2>7 DEF DijkstraArc, Still, Improves
    <3>2. weight[<<at.node, v>>] \in Int /\ weight[<<at.node, v>>] >= 0
      BY <2>1, <2>2, <2>7 DEF TypeOK, GraphOK
    <3>3. next \in 0 .. Top /\ next >= at.distance
      BY <2>1, <3>1, <3>2, Constant
    <3> HIDE DEF next
    <3>4. v # at.node
      BY <2>1, <3>1, <3>3
    <3>5. dist' \in [Nodes -> 0 .. Infinity] /\ dist'[at.node] = dist[at.node]
      BY SMTT(20), <2>1, <2>2, <3>1, <3>3, <3>4, Constant DEF TypeOK
    <3>6. IsABag(heap') /\ DOMAIN heap' \subseteq Entries
      <4>1. <<next, v>> \in Entries
        BY <2>2, <3>3 DEF Entries
      <4>2. IsABag(heap) /\ DOMAIN heap \subseteq Entries
        BY DEF TypeOK
      <4>3. IsABag(heap') /\ DOMAIN heap' = DOMAIN heap \cup {<<next, v>>}
        BY <3>1, <4>2, BagAdd
      <4> QED BY <4>1, <4>2, <4>3
    <3>7. Expanding' /\ GraphOK'
      BY <1>1, <2>1, <2>3, <2>7, <3>1, <3>5 DEF Expanding, TypeOK, GraphOK
    <3>8. Depth'
      <4>1. \A x \in Reached : x \in Reached'
        BY <2>2, <3>1, <3>3, Constant DEF TypeOK, Reached
      <4> QED BY <1>1, <2>7, <3>1, <4>1 DEF TypeOK, Depth
    <3>9. parents' \in [Nodes -> Nodes]
      BY <2>1, <3>1 DEF TypeOK
    <3> QED BY <1>1, <1>7, <2>1, <2>3, <3>1, <3>5, <3>6, <3>7, <3>8, <3>9 DEF TypeOK, Tracing
  <2>8. \/ Still /\ pc' = "cancelled"
        \/ kernel = "bfs" /\ BfsArc(v)
        \/ kernel = "dijkstra" /\ DijkstraArc(v)
    BY <1>7 DEF RelaxArc, Traverses, Still, v
  <2>9. Still => pc' \in {"row", "cancelled", "overflow"}
    BY <2>1, <2>8 DEF BfsArc, DijkstraArc
  <2> QED BY <2>5, <2>6, <2>7, <2>8, <2>9
<1>8. ASSUME EndRow, Traverses PROVE TypeOK'
  BY <1>1, <1>8, StillTyped DEF EndRow, TypeOK, Still
<1>9. ASSUME NextTarget, Traverses PROVE TypeOK'
  <2>1. nodes' \in Seq(Nodes) /\ target' \in 0 .. NodeCount /\ Still /\ at' = at /\ cancelled' = cancelled
        /\ (pc' = "trace" => nodes' # <<>> /\ target' < NodeCount)
        /\ pc = "paths" /\ pc' \in {"ok", "cancelled", "paths", "trace"}
    <3>1. target \in 0 .. NodeCount /\ nodes \in Seq(Nodes)
      BY DEF TypeOK
    <3>2. target # NodeCount => target \in Nodes /\ target + 1 \in 0 .. NodeCount /\ <<target>> \in Seq(Nodes)
                            /\ target < NodeCount /\ <<target>> # <<>>
      BY <3>1, Constant DEF Nodes
    <3>3. Still /\ at' = at /\ cancelled' = cancelled /\ pc = "paths"
      BY <1>9 DEF NextTarget, Still
    <3>4. CASE target = NodeCount
      BY <1>9, <3>1, <3>3, <3>4 DEF NextTarget
    <3>5. CASE target # NodeCount
      <4>1. target' = target \/ target' = target + 1
        BY <1>9 DEF NextTarget
      <4>2. nodes' = nodes \/ nodes' = <<target>>
        BY <1>9 DEF NextTarget
      <4>3. pc' \in {"cancelled", "paths"} \/ (pc' = "trace" /\ nodes' = <<target>> /\ target' = target)
        BY <1>9, <3>3, <3>5 DEF NextTarget
      <4>4. nodes' \in Seq(Nodes) /\ target' \in 0 .. NodeCount
        BY <3>1, <3>2, <3>5, <4>1, <4>2
      <4> QED BY <3>2, <3>3, <3>5, <4>3, <4>4
    <3> QED BY <3>4, <3>5
  <2> QED BY <1>9, <2>1, StillTyped DEF TypeOK, Tracing
<1>10. ASSUME Trace, Traverses PROVE TypeOK'
  <2>0. pc = "trace" /\ nodes # <<>> /\ target < NodeCount
    BY <1>10 DEF Trace, TypeOK, Tracing
  <2>1. nodes' \in Seq(Nodes) /\ target' \in 0 .. NodeCount /\ Still /\ at' = at /\ cancelled' = cancelled
        /\ (pc' = "trace" => nodes' # <<>> /\ target' < NodeCount)
        /\ pc = "trace" /\ pc' \in {"cancelled", "paths", "trace"}
    <3>1. target \in 0 .. NodeCount /\ nodes \in Seq(Nodes) /\ Last(nodes) \in Nodes /\ <<>> \in Seq(Nodes)
      BY <2>0, LenProperties, EmptySeq DEF TypeOK, Last
    <3>2. Append(nodes, parents[Last(nodes)]) \in Seq(Nodes) /\ target + 1 \in 0 .. NodeCount
           /\ Append(nodes, parents[Last(nodes)]) # <<>>
      <4>1. parents[Last(nodes)] \in Nodes /\ target + 1 \in 0 .. NodeCount
        BY <2>0, <3>1, Constant DEF TypeOK
      <4> QED BY <3>1, <4>1, AppendProperties
    <3> QED BY <1>10, <2>0, <3>1, <3>2 DEF Trace, Visit, Still
  <2> QED BY <1>10, <2>1, StillTyped DEF TypeOK, Tracing
<1> QED BY <1>2, <1>3, <1>4, <1>5, <1>6, <1>7, <1>8, <1>9, <1>10, StepKinds DEF Step

-----------------------------------------------------------------------------
(* The search: what is known of the distances while they still fall.       *)

Relaxed(a) == dist[a[2]] <= dist[a[1]] + Cost(a)

Estimates ==
  {d \in [Nodes -> 0 .. Infinity] :
     d[source] = 0 /\ \A a \in Arcs : d[a[2]] <= d[a[1]] + Cost(a)}

\* No estimate that no arc can improve is anywhere greater than dist.
NoneGreater == \A d \in Estimates : \A v \in Nodes : d[v] <= dist[v]

Waiting(x) ==
  \/ kernel = "bfs" /\ \E i \in 1 .. Len(queue) : queue[i] = x
  \/ kernel = "dijkstra" /\ <<dist[x], x>> \in DOMAIN heap
Closed(x) == x \in Reached /\ ~Waiting(x)

\* The arcs that have been tried with the present distance of their start.
Tried ==
  {a \in Arcs : /\ Closed(a[1])
                /\ pc = "row" /\ a[1] = at.node =>
                     \E i \in 1 .. at.arc : Neighbors(at.node)[i] = a[2]}

\* The queue is in the order of the distances, which differ by at most one
\* from the first on, and holds no node twice.
QueueOrder ==
  /\ \A i, j \in 1 .. Len(queue) : i < j => queue[i] # queue[j] /\ dist[queue[i]] <= dist[queue[j]]
  /\ pc = "take" /\ queue # <<>> => \A x \in Reached : dist[x] <= dist[queue[1]] + 1
  /\ pc = "row" => /\ \A i \in 1 .. Len(queue) : at.distance <= dist[queue[i]]
                   /\ \A x \in Reached : dist[x] <= at.distance + 1

\* Entries are never below a closed distance, so that a closed distance does
\* not fall, and the parent of a reached node is closed.
HeapOrder ==
  /\ \A e \in DOMAIN heap : dist[e[2]] <= e[1]
  /\ pc = "row" => \A e \in DOMAIN heap : at.distance <= e[1]
  /\ \A x \in Nodes : Closed(x) =>
       /\ pc = "row" => dist[x] <= at.distance
       /\ pc = "take" => \A e \in DOMAIN heap : dist[x] <= e[1]
  /\ \A v \in Reached \ {source} : Closed(parents[v])
  /\ Cardinality(DOMAIN heap) <= Cardinality(Tried) + 1

Searching ==
  /\ pc = "row" => Closed(at.node)
  /\ \A a \in Tried : Relaxed(a)
  /\ kernel = "bfs" => QueueOrder
  /\ kernel = "dijkstra" => HeapOrder

HeapSmall ==
  /\ \A e \in DOMAIN heap : heap[e] = 1
  /\ IsFiniteSet(DOMAIN heap) /\ Cardinality(DOMAIN heap) <= Cardinality(Arcs) + 1

SearchInv ==
  /\ NoneGreater /\ HeapSmall
  /\ pc \notin {"start", "invalid"} => dist[source] = 0
  /\ pc \in {"take", "row"} => Searching
  /\ pc \in {"paths", "trace", "ok"} => \A a \in Arcs : a[1] \in Reached => Relaxed(a)
  /\ kernel = "dijkstra" => TreeConsistent

-----------------------------------------------------------------------------
(* The steps of the search.                                                *)

\* No step changes the graph, the source or the kernel.
LEMMA Frame ==
  ASSUME MCNext
  PROVE  /\ Estimates' = Estimates /\ Arcs' = Arcs /\ source' = source /\ kernel' = kernel
         /\ \A a : Cost(a)' = Cost(a) /\ weight'[a] = weight[a]
         /\ \A x \in Nodes : Neighbors(x)' = Neighbors(x)
         /\ Traverses' = Traverses
<1>1. /\ weight' = weight /\ source' = source /\ kernel' = kernel /\ Arcs' = Arcs
      /\ \A x \in Nodes : Neighbors(x)' = Neighbors(x)
  BY StepKinds
<1>2. \A a : Cost(a)' = Cost(a)
  BY <1>1 DEF Cost
<1> QED BY <1>1, <1>2 DEF Estimates, Traverses, Cost

\* The arcs are finitely many.
LEMMA ArcsFinite ==
  /\ IsFiniteSet(Arcs) /\ Cardinality(Arcs) \in Nat
  /\ \A S \in SUBSET Arcs : IsFiniteSet(S) /\ Cardinality(S) \in Nat /\ Cardinality(S) <= Cardinality(Arcs)
<1>1. IsFiniteSet(Nodes \X Nodes)
  BY NodesFinite, FS_Product
<1>2. Arcs \subseteq Nodes \X Nodes
  BY DEF Arcs
<1> QED BY <1>1, <1>2, FS_Subset, FS_CardinalityType

\* Arcs lead from node to node.
LEMMA ArcEnds == \A a \in Arcs : a[1] \in Nodes /\ a[2] \in Nodes /\ a = <<a[1], a[2]>>
  BY DEF Arcs

\* A step after which the search is over.
LEMMA LeaveSearch ==
  ASSUME TypeOK, SearchInv, MCNext, Traverses, dist' = dist, parents' = parents, HeapSmall',
         pc \notin {"start", "invalid"}, pc' \notin {"take", "row"},
         pc' \in {"paths", "trace", "ok"} => \A a \in Arcs : a[1] \in Reached => Relaxed(a)
  PROVE  SearchInv'
<1>1. Reached' = Reached /\ (\A a \in Arcs : Relaxed(a)' <=> Relaxed(a))
  BY Frame DEF Reached, Relaxed
<1>2. NoneGreater' /\ TreeConsistent' = TreeConsistent
  BY <1>1, Frame DEF SearchInv, NoneGreater, TreeConsistent
<1> QED BY <1>1, <1>2, Frame DEF SearchInv

\* A cancellation disturbs no estimate.
LEMMA CancelSearch ==
  ASSUME TypeOK, SearchInv, MCNext, Traverses, Cancel
  PROVE  SearchInv'
<1>1. dist' = dist /\ parents' = parents /\ heap' = heap /\ queue' = queue /\ pc' = pc /\ at' = at
  BY DEF Cancel
<1>2. Reached' = Reached /\ (\A a \in Arcs : Relaxed(a)' <=> Relaxed(a))
  BY <1>1, Frame DEF Reached, Relaxed
<1>3. NoneGreater' /\ TreeConsistent' = TreeConsistent
  BY <1>1, <1>2, Frame DEF SearchInv, NoneGreater, TreeConsistent
<1>4. \A x : Closed(x)' <=> Closed(x)
  BY <1>1, <1>2, Frame DEF Closed, Waiting
<1>5. Tried' = Tried
  <2>1. Neighbors(at.node)' = Neighbors(at.node)
    BY <1>1, Frame DEF TypeOK, Spot
  <2> QED BY <1>1, <1>4, <2>1, Frame DEF Tried
<1>6. Searching' = Searching
  <2>1. QueueOrder' = QueueOrder
    BY <1>1, <1>2 DEF QueueOrder
  <2>2. HeapOrder' = HeapOrder
    BY <1>1, <1>2, <1>4, <1>5, Frame DEF HeapOrder
  <2>3. \A a \in Tried : Relaxed(a)' <=> Relaxed(a)
    BY <1>2 DEF Tried
  <2> QED BY <1>1, <1>4, <1>5, <2>1, <2>2, <2>3, Frame DEF Searching
<1>7. HeapSmall'
  BY <1>1, Frame DEF SearchInv, HeapSmall
<1>8. pc' \notin {"start", "invalid"} => dist'[source'] = 0
  BY <1>1, Frame DEF SearchInv
<1> QED BY <1>1, <1>2, <1>3, <1>6, <1>7, <1>8, Frame DEF SearchInv

\* A search begins at the source, with distance 0 and nothing else reached.
LEMMA StartSearch ==
  ASSUME TypeOK, SearchInv, MCNext, Traverses, Start
  PROVE  SearchInv'
<1>1. Fresh /\ source = 0 /\ source \in Nodes /\ parents' = parents
  BY Constant DEF TypeOK, GraphOK, Start
<1>2. CASE pc' = "invalid"
  <2>1. dist' = dist /\ heap' = heap
    BY <1>2 DEF Start
  <2>2. Reached' = Reached /\ Reached = {}
    BY <1>1, <2>1 DEF Reached, Fresh
  <2>3. NoneGreater' /\ TreeConsistent' /\ HeapSmall'
    BY <2>1, <2>2, Frame DEF SearchInv, NoneGreater, TreeConsistent, HeapSmall
  <2> QED BY <1>2, <2>3 DEF SearchInv
<1>3. CASE pc' = "take"
  <2>1. /\ dist' = [dist EXCEPT ![source] = 0]
        /\ (kernel = "bfs" => queue' = <<source>> /\ heap' = EmptyBag)
        /\ (kernel # "bfs" => heap' = SetToBag({<<0, source>>}))
    BY <1>1, <1>3 DEF Start, Fresh
  <2>2. \A x \in Nodes : dist'[x] = IF x = source THEN 0 ELSE Infinity
    BY <1>1, <2>1, Constant DEF Fresh
  <2>3. Reached' = {source} /\ dist'[source'] = 0
    <3>1. 0 # Infinity /\ source' = source
      BY Frame, Constant
    <3>2. \A x \in Nodes : dist'[x] # Infinity <=> x = source
      BY <2>2, <3>1
    <3> QED BY <1>1, <2>2, <3>1, <3>2 DEF Reached
  <2>4. NoneGreater'
    <3>1. ASSUME NEW d \in Estimates, NEW x \in Nodes PROVE d[x] <= dist'[x]
      <4>1. d[source] = 0 /\ d[x] \in 0 .. Infinity
        BY DEF Estimates
      <4> QED BY <2>2, <4>1, Constant
    <3> QED BY <3>1, Frame DEF NoneGreater
  <2>5. TreeConsistent'
    BY <2>3, Frame DEF TreeConsistent
  <2>6. HeapSmall' /\ Cardinality(DOMAIN heap') <= 1
    <3>1. CASE kernel = "bfs"
      <4>1. DOMAIN heap' = {}
        BY <2>1, <3>1 DEF EmptyBag, SetToBag
      <4> QED BY <4>1, FS_EmptySet, ArcsFinite, Frame DEF HeapSmall
    <3>2. CASE kernel # "bfs"
      <4>1. DOMAIN heap' = {<<0, source>>} /\ heap'[<<0, source>>] = 1
        BY <2>1, <3>2 DEF SetToBag
      <4>2. IsFiniteSet(DOMAIN heap') /\ Cardinality(DOMAIN heap') = 1
        BY <4>1, FS_Singleton
      <4> QED BY <4>1, <4>2, ArcsFinite, Frame DEF HeapSmall
    <3> QED BY <3>1, <3>2
  <2>7. \A x : ~Closed(x)'
    <3>1. kernel = "bfs" => 1 \in 1 .. Len(queue') /\ queue'[1] = source
      BY <2>1
    <3>2. kernel = "dijkstra" => <<dist'[source], source>> \in DOMAIN heap'
      BY <1>1, <2>1, <2>2 DEF SetToBag
    <3>3. kernel' = kernel /\ source = 0
      BY <1>1, Frame
    <3>4. Waiting(0)'
      BY <3>1, <3>2, <3>3 DEF Waiting, Traverses
    <3>5. ASSUME NEW x PROVE ~Closed(x)'
      <4>1. x \in Reached' => x = 0
        BY <2>3, <3>3
      <4> QED BY <3>4, <4>1 DEF Closed
    <3> QED BY <3>5
  <2>8. Tried' = {}
    BY <2>7 DEF Tried
  <2>9. kernel = "bfs" => QueueOrder'
    <3> SUFFICES ASSUME kernel = "bfs" PROVE QueueOrder'
      OBVIOUS
    <3>1. Len(queue') = 1 /\ queue'[1] = source
      BY <2>1
    <3>2. \A i, j \in 1 .. Len(queue') : ~(i < j)
      BY <3>1
    <3>3. \A x \in Reached' : dist'[x] <= dist'[queue'[1]] + 1
      BY <1>1, <2>2, <2>3, <3>1
    <3> QED BY <1>3, <3>2, <3>3 DEF QueueOrder
  <2>10. kernel = "dijkstra" => HeapOrder'
    <3> SUFFICES ASSUME kernel = "dijkstra" PROVE HeapOrder'
      OBVIOUS
    <3>1. DOMAIN heap' = {<<0, source>>}
      BY <2>1 DEF SetToBag
    <3>2. \A e \in DOMAIN heap' : dist'[e[2]] <= e[1]
      BY <1>1, <2>2, <3>1
    <3>3. Cardinality(DOMAIN heap') <= Cardinality(Tried') + 1
      BY <2>6, <2>8, FS_EmptySet
    <3> QED BY <1>3, <2>3, <2>7, <3>2, <3>3, Frame DEF HeapOrder
  <2>11. Searching'
    BY <1>3, <2>8, <2>9, <2>10, Frame DEF Searching
  <2> QED BY <1>3, <2>3, <2>4, <2>5, <2>6, <2>11 DEF SearchInv
<1> QED BY <1>2, <1>3 DEF Start

\* When nothing waits, every arc has been tried.
LEMMA NothingWaits ==
  ASSUME TypeOK, SearchInv, pc = "take", \A x \in Nodes : ~Waiting(x)
  PROVE  \A a \in Arcs : a[1] \in Reached => Relaxed(a)
<1>1. ASSUME NEW a \in Arcs, a[1] \in Reached PROVE a \in Tried
  BY <1>1, ArcEnds DEF Tried, Closed
<1>2. \A a \in Tried : Relaxed(a)
  BY DEF SearchInv, Searching
<1> QED BY <1>1, <1>2

\* A heap left alone holds no more entries than before.
LEMMA HeapStays ==
  ASSUME SearchInv, MCNext, heap' = heap
  PROVE  HeapSmall'
BY Frame DEF SearchInv, HeapSmall

\* A step that leaves the distances alone and begins a row, or ends one.
LEMMA TurnSearch ==
  ASSUME TypeOK, SearchInv, MCNext, Traverses, dist' = dist, parents' = parents, HeapSmall',
         pc \in {"take", "row"}, pc' \in {"take", "row"},
         \A x \in Nodes : Closed(x) => Closed(x)',
         pc' = "row" => Closed(at.node)',
         Tried' = Tried, kernel = "bfs" => QueueOrder', kernel = "dijkstra" => HeapOrder'
  PROVE  SearchInv'
<1>1. Reached' = Reached /\ (\A a \in Arcs : Relaxed(a)' <=> Relaxed(a))
  BY Frame DEF Reached, Relaxed
<1>2. NoneGreater' /\ TreeConsistent' = TreeConsistent
  BY <1>1, Frame DEF SearchInv, NoneGreater, TreeConsistent
<1>3. \A a \in Tried' : Relaxed(a)'
  BY <1>1 DEF SearchInv, Searching, Tried
<1>4. Searching'
  BY <1>3, Frame DEF Searching
<1> QED BY <1>1, <1>2, <1>4, Frame DEF SearchInv

\* The first of the queue is the nearest that waits; no estimate changes.
LEMMA PopFrontSearch ==
  ASSUME TypeOK, SearchInv, MCNext, Traverses, PopFront
  PROVE  SearchInv'
<1>1. /\ dist' = dist /\ parents' = parents /\ heap' = heap /\ pc = "take" /\ kernel = "bfs"
      /\ HeapSmall' /\ kernel' = kernel
  BY HeapStays, Frame DEF PopFront
<1>2. CASE queue = <<>>
  <2>1. pc' = "ok" /\ Len(queue) = 0
    BY <1>2 DEF PopFront
  <2>2. \A x \in Nodes : ~Waiting(x)
    BY <1>1, <2>1 DEF Waiting
  <2> QED BY <1>1, <2>1, <2>2, NothingWaits, LeaveSearch
<1>3. CASE queue # <<>> /\ cancelled
  BY <1>1, <1>3, LeaveSearch DEF PopFront
<1>4. CASE queue # <<>> /\ ~cancelled
  <2> DEFINE h == Head(queue)
  <2>1. /\ queue' = Tail(queue) /\ pc' = "row"
        /\ at' = [node |-> h, distance |-> dist[h], arc |-> 0]
    BY <1>4 DEF PopFront, Expand
  <2>2. /\ Len(queue') = Len(queue) - 1 /\ Len(queue) \in Nat /\ h = queue[1] /\ 1 \in 1 .. Len(queue)
        /\ \A i \in 1 .. Len(queue') : queue'[i] = queue[i + 1] /\ i + 1 \in 1 .. Len(queue)
        /\ h \in Nodes
    BY <1>4, <2>1, HeadTailProperties DEF TypeOK
  <2>3. h \in Reached /\ Reached' = Reached
    BY <1>1, <2>2 DEF TypeOK, Depth, Reached
  <2> HIDE DEF h
  <2>4. QueueOrder
    BY <1>1 DEF SearchInv, Searching
  <2>5. \A x \in Nodes : Waiting(x)' <=> Waiting(x) /\ x # h
    <3> SUFFICES ASSUME NEW x \in Nodes PROVE Waiting(x)' <=> Waiting(x) /\ x # h
      OBVIOUS
    <3>1. ASSUME NEW i \in 1 .. Len(queue'), queue'[i] = x PROVE Waiting(x) /\ x # h
      <4>1. queue[i + 1] = x /\ i + 1 \in 1 .. Len(queue) /\ 1 < i + 1
        BY <2>2, <3>1
      <4>2. queue[1] # queue[i + 1]
        BY <2>2, <2>4, <4>1 DEF QueueOrder
      <4> QED BY <1>1, <2>2, <4>1, <4>2 DEF Waiting
    <3>2. ASSUME NEW i \in 1 .. Len(queue), queue[i] = x, x # h PROVE \E j \in 1 .. Len(queue') : queue'[j] = x
      <4>1. i - 1 \in 1 .. Len(queue') /\ (i - 1) + 1 = i
        BY <2>2, <3>2
      <4> QED BY <2>2, <3>2, <4>1
    <3> QED BY <1>1, <3>1, <3>2 DEF Waiting
  <2>6. \A x : Closed(x)' <=> Closed(x) \/ x = h
    BY <2>3, <2>5 DEF Closed, Reached
  <2>7. ~Closed(h)
    BY <1>1, <2>2 DEF Closed, Waiting
  <2>8. Tried' = Tried
    <3>1. \A a \in Arcs : a \in Tried <=> Closed(a[1])
      BY <1>1 DEF Tried
    <3>2. \A a \in Arcs : a \in Tried' <=> Closed(a[1])' /\ a[1] # h
      <4>1. ~\E i \in 1 .. at'.arc : TRUE
        BY <2>1
      <4> QED BY <2>1, <4>1, Frame DEF Tried
    <3> QED BY <2>6, <2>7, <3>1, <3>2, Frame DEF Tried
  <2>9. QueueOrder'
    <3>1. \A i \in 1 .. Len(queue) : dist[h] <= dist[queue[i]]
      <4> SUFFICES ASSUME NEW i \in 1 .. Len(queue) PROVE dist[h] <= dist[queue[i]]
        OBVIOUS
      <4>1. CASE i = 1
        <5>1. dist[h] \in 0 .. Infinity
          BY <2>2 DEF TypeOK
        <5> QED BY <2>2, <4>1, <5>1, Constant
      <4>2. CASE i # 1
        <5>1. 1 < i
          BY <2>2, <4>2
        <5> QED BY <2>2, <2>4, <5>1 DEF QueueOrder
      <4> QED BY <4>1, <4>2
    <3>2. \A x \in Reached : dist[x] <= dist[h] + 1
      BY <1>1, <1>4, <2>2, <2>4 DEF QueueOrder
    <3>3. \A i, j \in 1 .. Len(queue') : i < j => queue'[i] # queue'[j] /\ dist[queue'[i]] <= dist[queue'[j]]
      <4> SUFFICES ASSUME NEW i \in 1 .. Len(queue'), NEW j \in 1 .. Len(queue'), i < j
                   PROVE  queue'[i] # queue'[j] /\ dist[queue'[i]] <= dist[queue'[j]]
        OBVIOUS
      <4>1. i + 1 \in 1 .. Len(queue) /\ j + 1 \in 1 .. Len(queue) /\ i + 1 < j + 1
            /\ queue'[i] = queue[i + 1] /\ queue'[j] = queue[j + 1]
        BY <2>2
      <4> QED BY <2>4, <4>1 DEF QueueOrder
    <3>4. at'.distance = dist[h] /\ \A i \in 1 .. Len(queue') : at'.distance <= dist[queue'[i]]
      BY <2>1, <2>2, <3>1
    <3> QED BY <1>1, <2>1, <2>3, <3>2, <3>3, <3>4 DEF QueueOrder
  <2>10. Closed(at.node)'
    BY <2>1, <2>6
  <2> QED BY <1>1, <2>1, <2>6, <2>8, <2>9, <2>10, TurnSearch
<1> QED BY <1>2, <1>3, <1>4

\* At the end of a row every arc of the node is relaxed.
LEMMA EndRowSearch ==
  ASSUME TypeOK, SearchInv, MCNext, Traverses, EndRow
  PROVE  SearchInv'
<1>1. /\ dist' = dist /\ parents' = parents /\ heap' = heap /\ queue' = queue /\ at' = at
      /\ pc = "row" /\ pc' = "take" /\ at.arc = Len(Neighbors(at.node))
      /\ HeapSmall' /\ kernel' = kernel /\ Reached' = Reached /\ at.node \in Nodes
  BY HeapStays, Frame DEF EndRow, Reached, TypeOK, Spot
<1>2. \A x : Closed(x)' <=> Closed(x)
  BY <1>1 DEF Closed, Waiting
<1>3. Tried' = Tried
  <2>1. \A a \in Arcs : a[1] = at.node => \E i \in 1 .. at.arc : Neighbors(at.node)[i] = a[2]
    <3> SUFFICES ASSUME NEW a \in Arcs, a[1] = at.node PROVE \E i \in 1 .. at.arc : Neighbors(at.node)[i] = a[2]
      OBVIOUS
    <3>1. <<at.node, a[2]>> \in Arcs
      BY ArcEnds
    <3>2. \E i \in 1 .. Len(Neighbors(at.node)) : Neighbors(at.node)[i] = a[2]
      BY <1>1, <3>1, RowLists
    <3> QED BY <1>1, <3>2
  <2>2. \A a \in Arcs : a \in Tried <=> Closed(a[1])
    BY <2>1 DEF Tried
  <2>3. \A a \in Arcs : a \in Tried' <=> Closed(a[1])'
    BY <1>1, Frame DEF Tried
  <2> QED BY <1>2, <2>2, <2>3, Frame DEF Tried
<1>4. Searching
  BY <1>1 DEF SearchInv
<1>5. kernel = "bfs" => QueueOrder'
  <2> SUFFICES ASSUME kernel = "bfs" PROVE QueueOrder'
    OBVIOUS
  <2>1. QueueOrder
    BY <1>4 DEF Searching
  <2>2. ASSUME queue # <<>>, NEW x \in Reached PROVE dist[x] <= dist[queue[1]] + 1
    <3>1. 1 \in 1 .. Len(queue) /\ queue[1] \in Nodes
      BY <2>2, LenProperties, ElementOfSeq DEF TypeOK
    <3>2. at.distance <= dist[queue[1]] /\ dist[x] <= at.distance + 1
      BY <1>1, <2>1, <3>1 DEF QueueOrder
    <3>3. at.distance \in Nat /\ dist[queue[1]] \in Nat /\ dist[x] \in Nat
      BY SMTT(20), <3>1, ReachedFinite, Constant DEF TypeOK, Spot
    <3> QED BY <3>2, <3>3
  <2> QED BY <1>1, <2>1, <2>2 DEF QueueOrder
<1>6. kernel = "dijkstra" => HeapOrder'
  <2> SUFFICES ASSUME kernel = "dijkstra" PROVE HeapOrder'
    OBVIOUS
  <2>1. HeapOrder
    BY <1>4 DEF Searching
  <2>2. ASSUME NEW x \in Nodes, Closed(x), NEW e \in DOMAIN heap PROVE dist[x] <= e[1]
    <3>1. dist[x] <= at.distance /\ at.distance <= e[1]
      BY <1>1, <2>1, <2>2 DEF HeapOrder
    <3>2. dist[x] \in Nat /\ at.distance \in Nat /\ e[1] \in Nat
      BY Constant DEF TypeOK, Spot, Entries
    <3> QED BY <3>1, <3>2
  <2>3. \A e \in DOMAIN heap' : dist'[e[2]] <= e[1]
    BY <1>1, <2>1 DEF HeapOrder
  <2>4. (\A v \in Reached \ {source} : Closed(parents[v]))'
    BY <1>1, <1>2, <2>1, Frame DEF HeapOrder
  <2> QED BY <1>1, <1>2, <1>3, <2>1, <2>2, <2>3, <2>4, Frame DEF HeapOrder
<1> QED BY <1>1, <1>2, <1>3, <1>5, <1>6, TurnSearch

\* An entry popped is current, or stale and skipped; either way nothing
\* nearer waits.
LEMMA PopSearch ==
  ASSUME TypeOK, SearchInv, MCNext, Traverses, Pop
  PROVE  SearchInv'
<1>1. /\ dist' = dist /\ parents' = parents /\ queue' = queue /\ pc = "take" /\ kernel = "dijkstra"
      /\ kernel' = kernel /\ Reached' = Reached /\ HeapSmall
  BY Frame DEF Pop, SearchInv, Reached
<1>2. HeapOrder
  BY <1>1 DEF SearchInv, Searching
<1>3. CASE heap = EmptyBag
  <2>1. pc' = "paths" /\ heap' = heap
    BY <1>3 DEF Pop
  <2>2. \A x \in Nodes : ~Waiting(x)
    BY <1>1, <1>3 DEF Waiting, EmptyBag, SetToBag
  <2>3. HeapSmall'
    BY <2>1, HeapStays
  <2> QED BY <1>1, <2>1, <2>2, <2>3, NothingWaits, LeaveSearch
<1>4. CASE heap # EmptyBag
  <2> DEFINE t == HeapTop
  <2>1. t \in DOMAIN heap /\ t \in Entries /\ \A f \in DOMAIN heap : t[1] <= f[1]
    BY <1>4, HeapLeast DEF TypeOK
  <2>2. /\ t[1] \in Nat /\ t[2] \in Nodes /\ t = <<t[1], t[2]>>
        /\ \A e \in DOMAIN heap : e[1] \in Nat /\ e[2] \in Nodes /\ e = <<e[1], e[2]>>
        /\ \A x \in Nodes : dist[x] \in Nat
    BY <2>1, Constant DEF TypeOK, Entries
  <2>3. heap' = heap (-) SetToBag({t})
    BY <1>4 DEF Pop
  <2> HIDE DEF t
  <2>4. heap[t] = 1 /\ IsABag(heap)
    BY <1>1, <2>1 DEF HeapSmall, TypeOK
  <2>5. DOMAIN heap' = DOMAIN heap \ {t} /\ \A e \in DOMAIN heap' : heap'[e] = heap[e]
    <3>1. /\ DOMAIN heap' = IF heap[t] = 1 THEN DOMAIN heap \ {t} ELSE DOMAIN heap
          /\ \A f \in DOMAIN heap : f # t => heap'[f] = heap[f]
      <4> DEFINE B == heap (-) SetToBag({t})
      <4>1. /\ DOMAIN B = IF heap[t] = 1 THEN DOMAIN heap \ {t} ELSE DOMAIN heap
            /\ \A f \in DOMAIN heap : f # t => B[f] = heap[f]
        BY ZenonT(60), <2>1, <2>4, BagRemove
      <4>2. heap' = B
        BY <2>3
      <4> HIDE DEF B
      <4> QED BY <4>1, <4>2
    <3> QED BY <2>4, <3>1
  <2>6. /\ IsFiniteSet(DOMAIN heap') /\ Cardinality(DOMAIN heap') = Cardinality(DOMAIN heap) - 1
        /\ Cardinality(DOMAIN heap) \in Nat
    BY <1>1, <2>1, <2>5, FS_RemoveElement, FS_CardinalityType DEF HeapSmall
  <2>7. HeapSmall'
    BY <1>1, <2>5, <2>6, ArcsFinite, Frame DEF HeapSmall
  <2>8. CASE cancelled
    <3>1. pc' = "cancelled"
      BY <1>4, <2>8 DEF Pop
    <3> QED BY <1>1, <2>7, <3>1, LeaveSearch
  <2>9. CASE ~cancelled /\ t[1] # dist[t[2]]
    <3>1. pc' = "take" /\ at' = at
      BY <1>1, <1>4, <2>9 DEF Pop, t
    <3>2. \A x : Waiting(x)' <=> Waiting(x)
      <4>1. \A x : <<dist[x], x>> # t
        BY <2>2, <2>9
      <4> QED BY <1>1, <2>5, <4>1 DEF Waiting
    <3>3. \A x : Closed(x)' <=> Closed(x)
      BY <1>1, <3>2 DEF Closed
    <3>4. Tried' = Tried
      <4>1. \A a \in Arcs : a \in Tried <=> Closed(a[1])
        BY <1>1 DEF Tried
      <4>2. \A a \in Arcs : a \in Tried' <=> Closed(a[1])'
        BY <3>1, Frame DEF Tried
      <4> QED BY <3>3, <4>1, <4>2, Frame DEF Tried
    <3>5. HeapOrder'
      <4>1. \A e \in DOMAIN heap' : dist'[e[2]] <= e[1]
        BY <1>1, <1>2, <2>5 DEF HeapOrder
      <4>2. \A x \in Nodes : Closed(x)' => \A e \in DOMAIN heap' : dist'[x] <= e[1]
        BY <1>1, <1>2, <2>5, <3>3 DEF HeapOrder
      <4>3. (\A v \in Reached \ {source} : Closed(parents[v]))'
        BY <1>1, <1>2, <3>3, Frame DEF HeapOrder
      <4>4. Cardinality(DOMAIN heap') <= Cardinality(Tried') + 1
        <5>1. Cardinality(Tried) \in Nat /\ Cardinality(DOMAIN heap) <= Cardinality(Tried) + 1
          BY <1>2, ArcsFinite DEF HeapOrder, Tried
        <5> QED BY <2>6, <3>4, <5>1
      <4> QED BY <3>1, <4>1, <4>2, <4>3, <4>4 DEF HeapOrder
    <3> QED BY <1>1, <2>7, <3>1, <3>3, <3>4, <3>5, TurnSearch
  <2>10. CASE ~cancelled /\ t[1] = dist[t[2]]
    <3> DEFINE h == t[2]
    <3>1. pc' = "row" /\ at' = [node |-> h, distance |-> t[1], arc |-> 0]
      BY <1>4, <2>10 DEF Pop, Expand, t
    <3>2. h \in Nodes /\ t = <<dist[h], h>> /\ h \in Reached
      <4>1. h \in Nodes /\ t = <<dist[h], h>>
        BY <2>2, <2>10
      <4>2. dist[h] \in 0 .. Top
        BY <2>1, <2>10 DEF Entries
      <4> QED BY <4>1, <4>2, Constant DEF Reached
    <3> HIDE DEF h
    <3>3. \A x : Waiting(x)' <=> Waiting(x) /\ x # h
      <4>1. \A x : <<dist[x], x>> = t <=> x = h
        BY <3>2
      <4> QED BY <1>1, <2>5, <4>1 DEF Waiting
    <3>4. \A x : Closed(x)' <=> Closed(x) \/ x = h
      BY <1>1, <3>2, <3>3 DEF Closed
    <3>5. ~Closed(h)
      BY <1>1, <2>1, <3>2 DEF Closed, Waiting
    <3>6. Tried' = Tried
      <4>1. \A a \in Arcs : a \in Tried <=> Closed(a[1])
        BY <1>1 DEF Tried
      <4>2. \A a \in Arcs : a \in Tried' <=> Closed(a[1])' /\ a[1] # h
        <5>1. ~\E i \in 1 .. at'.arc : TRUE
          BY <3>1
        <5> QED BY <3>1, <5>1, Frame DEF Tried
      <4> QED BY <3>4, <3>5, <4>1, <4>2, Frame DEF Tried
    <3>7. HeapOrder'
      <4>1. \A e \in DOMAIN heap' : dist'[e[2]] <= e[1]
        BY <1>1, <1>2, <2>5 DEF HeapOrder
      <4>2. \A e \in DOMAIN heap' : at'.distance <= e[1]
        BY <2>1, <2>5, <3>1
      <4>3. \A x \in Nodes : Closed(x)' => dist'[x] <= at'.distance
        <5> SUFFICES ASSUME NEW x \in Nodes, Closed(x) \/ x = h PROVE dist'[x] <= at'.distance
          BY <3>4
        <5>1. CASE x = h
          BY <1>1, <2>2, <2>10, <3>1, <5>1 DEF h
        <5>2. CASE Closed(x)
          BY <1>1, <1>2, <2>1, <3>1, <5>2 DEF HeapOrder
        <5> QED BY <5>1, <5>2
      <4>4. (\A v \in Reached \ {source} : Closed(parents[v]))'
        BY <1>1, <1>2, <3>4, Frame DEF HeapOrder
      <4>5. Cardinality(DOMAIN heap') <= Cardinality(Tried') + 1
        <5>1. Cardinality(Tried) \in Nat /\ Cardinality(DOMAIN heap) <= Cardinality(Tried) + 1
          BY <1>2, ArcsFinite DEF HeapOrder, Tried
        <5> QED BY <2>6, <3>6, <5>1
      <4> QED BY <3>1, <4>1, <4>2, <4>3, <4>4, <4>5 DEF HeapOrder
    <3>8. Closed(at.node)'
      BY <3>1, <3>4
    <3> QED BY <1>1, <2>7, <3>1, <3>4, <3>6, <3>7, <3>8, TurnSearch
  <2> QED BY <2>8, <2>9, <2>10
<1> QED BY <1>3, <1>4

\* The cost of an arc is a number.
LEMMA CostInteger == ASSUME TypeOK, NEW a \in Arcs PROVE Cost(a) \in Int
  BY DEF TypeOK, GraphOK, Cost

\* The arc tried last joins the arcs tried.
LEMMA TriedGrows ==
  ASSUME TypeOK, MCNext, RelaxArc, pc' = "row", Closed(at.node),
         \A x : Closed(x)' <=> Closed(x),
         NEW v, v = Neighbors(at.node)[at.arc + 1]
  PROVE  /\ Tried' = Tried \cup {<<at.node, v>>} /\ <<at.node, v>> \notin Tried
         /\ Cardinality(Tried') = Cardinality(Tried) + 1 /\ Cardinality(Tried) \in Nat
<1> DEFINE n == at.node
           k == at.arc
           row == Neighbors(n)
<1>1. n \in Nodes /\ k \in Nat /\ k + 1 \in 1 .. Len(row) /\ pc = "row" /\ Len(row) \in Nat
  <2>1. n \in Nodes /\ k \in Nat /\ pc = "row" /\ k < Len(row)
    BY DEF RelaxArc, TypeOK, Spot
  <2> QED BY <2>1, RowLists
<1>2. at'.node = n /\ at'.arc = k + 1
  <2>1. at' = [at EXCEPT !.arc = @ + 1] /\ at \in Spot
    BY DEF RelaxArc, TypeOK
  <2> QED BY <2>1 DEF Spot
<1>3. row[k + 1] = v /\ v \in Nodes /\ <<n, v>> \in Arcs
  BY <1>1, RowLists
<1>4. \A i \in 1 .. k : i \in 1 .. Len(row) /\ row[i] # v
  BY <1>1, <1>3, RowLists
<1>5. Neighbors(n)' = row
  BY <1>1, <1>2, Frame DEF Neighbors
<1>6. \A a \in Arcs : a \in Tried <=>
        Closed(a[1]) /\ (a[1] = n => \E i \in 1 .. k : row[i] = a[2])
  BY <1>1 DEF Tried
<1>7. \A a \in Arcs : a \in Tried' <=>
        Closed(a[1]) /\ (a[1] = n => \E i \in 1 .. k + 1 : row[i] = a[2])
  BY <1>2, <1>5, Frame DEF Tried
<1> HIDE DEF row, k, n
<1>8. \A a \in Arcs : (\E i \in 1 .. k + 1 : row[i] = a[2]) <=> (\E i \in 1 .. k : row[i] = a[2]) \/ a[2] = v
  BY <1>1, <1>3
<1>9. \A a \in Arcs : a \in Tried' <=> a \in Tried \/ a = <<n, v>>
  <2>1. \A a \in Arcs : a = <<n, v>> <=> a[1] = n /\ a[2] = v
    BY ArcEnds
  <2>2. Closed(n)
    BY DEF n
  <2> QED BY <1>6, <1>7, <1>8, <2>1, <2>2
<1>10. Tried \subseteq Arcs /\ Tried' \subseteq Arcs
  BY Frame DEF Tried
<1>11. Tried' = Tried \cup {<<n, v>>}
  BY <1>3, <1>9, <1>10
<1>12. <<n, v>> \notin Tried
  BY <1>3, <1>4, <1>6
<1>13. IsFiniteSet(Tried) /\ Cardinality(Tried) \in Nat
  BY <1>10, ArcsFinite
<1>14. Cardinality(Tried \cup {<<n, v>>}) = Cardinality(Tried) + 1
  BY <1>12, <1>13, FS_AddElement
<1> QED BY <1>11, <1>12, <1>13, <1>14 DEF n

\* What a step along an arc must keep, whatever the kernel.
LEMMA RelaxKeeps ==
  ASSUME TypeOK, SearchInv, MCNext, Traverses, RelaxArc, pc' = "row",
         NEW v, v = Neighbors(at.node)[at.arc + 1],
         dist' \in [Nodes -> 0 .. Infinity],
         \A x \in Nodes : dist'[x] <= dist[x],
         \A x \in Nodes : Closed(x) => dist'[x] = dist[x],
         dist'[source] = 0,
         \A x : Closed(x)' <=> Closed(x),
         dist'[v] <= dist[at.node] + Cost(<<at.node, v>>),
         \A x \in Nodes : dist'[x] = dist[x] \/ (x = v /\ dist'[v] = dist[at.node] + Cost(<<at.node, v>>)),
         HeapSmall', kernel = "bfs" => QueueOrder', kernel = "dijkstra" => HeapOrder' /\ TreeConsistent'
  PROVE  SearchInv'
<1>1. pc = "row" /\ Searching /\ Closed(at.node) /\ at.node \in Nodes
  BY DEF RelaxArc, SearchInv, Searching, TypeOK, Spot
<1>2. v \in Nodes /\ <<at.node, v>> \in Arcs
  <2>1. at.arc + 1 \in 1 .. Len(Neighbors(at.node))
    <3>1. at.arc \in Nat /\ at.arc < Len(Neighbors(at.node))
      BY DEF RelaxArc, TypeOK, Spot
    <3> QED BY <1>1, <3>1, RowLists
  <2> QED BY <1>1, <2>1, RowLists
<1>3. Tried' = Tried \cup {<<at.node, v>>}
  BY <1>1, TriedGrows
<1>4. \A a \in Arcs : Relaxed(a)' <=> dist'[a[2]] <= dist'[a[1]] + Cost(a)
  BY Frame DEF Relaxed
<1>5. ASSUME NEW a \in Tried' PROVE Relaxed(a)'
  <2>1. CASE a \in Tried
    <3>1. a \in Arcs /\ Closed(a[1]) /\ a[1] \in Nodes /\ a[2] \in Nodes /\ Relaxed(a)
      BY <1>1, <2>1, ArcEnds DEF Tried, Searching
    <3>2. dist[a[2]] \in Int /\ dist'[a[2]] \in Int /\ dist[a[1]] \in Int /\ Cost(a) \in Int
      <4>1. Cost(a) \in Int
        BY <3>1, CostInteger
      <4>2. dist \in [Nodes -> 0 .. Infinity] /\ 0 .. Infinity \subseteq Int
        BY Constant DEF TypeOK
      <4> QED BY <3>1, <4>1, <4>2
    <3>3. dist'[a[2]] <= dist[a[2]] /\ dist'[a[1]] = dist[a[1]] /\ dist[a[2]] <= dist[a[1]] + Cost(a)
      BY <3>1 DEF Relaxed
    <3> QED BY <1>4, <3>1, <3>2, <3>3
  <2>2. CASE a = <<at.node, v>>
    BY <1>1, <1>2, <1>4, <2>2
  <2> QED BY <1>3, <2>1, <2>2
<1>6. NoneGreater'
  <2>1. ASSUME NEW d \in Estimates, NEW x \in Nodes PROVE d[x] <= dist'[x]
    <3>1. d[x] <= dist[x] /\ d[at.node] <= dist[at.node]
      BY <1>1 DEF SearchInv, NoneGreater
    <3>2. CASE dist'[x] = dist[x]
      BY <3>1, <3>2
    <3>3. CASE x = v /\ dist'[v] = dist[at.node] + Cost(<<at.node, v>>)
      <4>1. d[v] <= d[at.node] + Cost(<<at.node, v>>)
        BY <1>2 DEF Estimates
      <4>2. Cost(<<at.node, v>>) \in Int /\ d[v] \in Int /\ d[at.node] \in Int /\ dist[at.node] \in Int
        <5>1. Cost(<<at.node, v>>) \in Int
          BY <1>2, CostInteger
        <5>2. dist \in [Nodes -> 0 .. Infinity] /\ 0 .. Infinity \subseteq Int
          BY Constant DEF TypeOK
        <5>3. d \in [Nodes -> 0 .. Infinity]
          BY DEF Estimates
        <5> QED BY <1>1, <1>2, <5>1, <5>2, <5>3
      <4> QED BY <3>1, <3>3, <4>1, <4>2
    <3> QED BY <3>2, <3>3
  <2> QED BY <2>1, Frame DEF NoneGreater
<1>7. at'.node = at.node
  <2>1. at' = [at EXCEPT !.arc = @ + 1] /\ at \in Spot
    BY DEF RelaxArc, TypeOK
  <2> QED BY <2>1 DEF Spot
<1>8. Closed(at.node)'
  BY <1>1, <1>7
<1>9. Searching'
  BY <1>5, <1>8, Frame DEF Searching
<1>10. dist'[source'] = 0
  BY Frame
<1> QED BY <1>6, <1>9, <1>10, Frame DEF SearchInv

\* An arc to a new node puts it one level farther, at the end of the queue.
LEMMA BfsSearch ==
  ASSUME TypeOK, SearchInv, MCNext, Traverses, RelaxArc, kernel = "bfs", pc' # "cancelled"
  PROVE  SearchInv'
<1> DEFINE n == at.node
           v == Neighbors(n)[at.arc + 1]
<1>1. /\ pc = "row" /\ n \in Nodes /\ at.distance = dist[n] /\ dist[n] \in 0 .. Top
      /\ at.arc \in Nat /\ at.arc < Len(Neighbors(n)) /\ n \in Reached
      /\ Searching /\ QueueOrder /\ Closed(n) /\ dist[source] = 0 /\ HeapSmall
  <2>1. pc = "row" /\ n \in Nodes /\ at.distance = dist[n] /\ dist[n] \in 0 .. Top /\ at.arc \in Nat
    BY DEF RelaxArc, TypeOK, Spot, Expanding
  <2>2. Searching /\ QueueOrder /\ Closed(n) /\ dist[source] = 0 /\ HeapSmall
    BY <2>1 DEF SearchInv, Searching
  <2> QED BY <2>1, <2>2 DEF RelaxArc, Closed
<1>2. v \in Nodes /\ <<n, v>> \in Arcs
  BY <1>1, RowLists
<1>3. BfsArc(v) /\ pc' = "row" /\ heap' = heap /\ kernel' = kernel /\ source \in Nodes /\ source' = source
  BY <1>1, Frame, Constant DEF RelaxArc, BfsArc, TypeOK, GraphOK
<1>4. HeapSmall' /\ Cost(<<n, v>>) = 1
  BY <1>3, HeapStays DEF Cost
<1>5. at'.distance = at.distance
  <2>1. at' = [at EXCEPT !.arc = @ + 1] /\ at \in Spot
    BY DEF RelaxArc, TypeOK
  <2> QED BY <2>1 DEF Spot
<1>6. \A x \in Reached : dist[x] <= dist[n] + 1
  BY <1>1 DEF QueueOrder
<1>7. dist \in [Nodes -> 0 .. Infinity]
  BY DEF TypeOK
<1>8. CASE ~Undiscovered(v)
  <2>1. dist' = dist /\ queue' = queue
    BY <1>3, <1>8 DEF BfsArc
  <2>2. Reached' = Reached /\ v \in Reached
    BY <1>2, <1>8, <2>1 DEF Reached, Undiscovered
  <2>3. \A x : Closed(x)' <=> Closed(x)
    BY <1>3, <2>1, <2>2 DEF Closed, Waiting
  <2>4. QueueOrder'
    BY <1>1, <1>3, <1>5, <2>1, <2>2 DEF QueueOrder
  <2>5. \A x \in Nodes : dist'[x] <= dist[x]
    BY <1>7, <2>1, Constant
  <2>6. dist'[v] <= dist[n] + 1
    BY <1>6, <2>1, <2>2
  <2> HIDE DEF v
  <2> QED BY <1>1, <1>3, <1>4, <1>7, <2>1, <2>3, <2>4, <2>5, <2>6, RelaxKeeps DEF v
<1>9. CASE Undiscovered(v)
  <2>1. dist' = [dist EXCEPT ![v] = dist[n] + 1] /\ queue' = Append(queue, v) /\ dist[v] = Infinity
    BY <1>3, <1>9 DEF BfsArc, Undiscovered
  <2> HIDE DEF v
  <2>2. v \notin Reached /\ v # source /\ v # n /\ dist[n] + 1 \in 0 .. Infinity
    BY <1>1, <2>1, Constant DEF Reached
  <2>3. \A x \in Nodes : dist'[x] = IF x = v THEN dist[n] + 1 ELSE dist[x]
    BY <1>2, <1>7, <2>1
  <2>4. dist' \in [Nodes -> 0 .. Infinity]
    BY <1>7, <2>1, <2>2
  <2>5. Reached' = Reached \cup {v}
    <3>1. dist[n] + 1 # Infinity
      <4>1. dist[at.node] + 1 \in 0 .. Top
        BY <1>1, <1>2, <2>2, DiscoverFinite
      <4> QED BY <4>1, Constant
    <3> QED BY <1>2, <2>3, <3>1 DEF Reached
  <2>6. /\ Len(queue) \in Nat /\ Len(queue') = Len(queue) + 1
        /\ \A i \in 1 .. Len(queue) + 1 : queue'[i] = IF i = Len(queue) + 1 THEN v ELSE queue[i]
    BY <1>2, <2>1, AppendProperties DEF TypeOK
  <2>7. \A i \in 1 .. Len(queue) : queue[i] \in Reached /\ queue[i] # v /\ queue[i] \in Nodes
    BY <2>2 DEF TypeOK, Depth, Reached
  <2>8. \A x : Waiting(x)' <=> Waiting(x) \/ x = v
    <3>1. \A x : (\E i \in 1 .. Len(queue') : queue'[i] = x) <=> (\E i \in 1 .. Len(queue) : queue[i] = x) \/ x = v
      <4> SUFFICES ASSUME NEW x
                   PROVE  (\E i \in 1 .. Len(queue') : queue'[i] = x) <=> (\E i \in 1 .. Len(queue) : queue[i] = x) \/ x = v
        OBVIOUS
      <4>1. ASSUME NEW i \in 1 .. Len(queue'), queue'[i] = x PROVE (\E j \in 1 .. Len(queue) : queue[j] = x) \/ x = v
        <5>1. i = Len(queue) + 1 \/ i \in 1 .. Len(queue)
          BY <2>6
        <5> QED BY <2>6, <4>1, <5>1
      <4>2. ASSUME NEW i \in 1 .. Len(queue), queue[i] = x PROVE i \in 1 .. Len(queue') /\ queue'[i] = x
        BY <2>6, <4>2
      <4>3. Len(queue') \in 1 .. Len(queue') /\ queue'[Len(queue')] = v
        BY <2>6
      <4> QED BY <4>1, <4>2, <4>3
    <3> QED BY <1>3, <3>1 DEF Waiting
  <2>9. \A x : Closed(x)' <=> Closed(x)
    BY <2>2, <2>5, <2>8 DEF Closed
  <2>10. \A x \in Nodes : Closed(x) => dist'[x] = dist[x]
    BY <2>2, <2>3 DEF Closed
  <2>11. \A x \in Nodes : dist'[x] <= dist[x]
    BY <1>7, <2>1, <2>2, <2>3, Constant
  <2>12. QueueOrder'
    <3>1. ASSUME NEW i \in 1 .. Len(queue'), NEW j \in 1 .. Len(queue'), i < j
          PROVE  queue'[i] # queue'[j] /\ dist'[queue'[i]] <= dist'[queue'[j]]
      <4>1. i \in 1 .. Len(queue) /\ queue'[i] = queue[i] /\ dist'[queue'[i]] = dist[queue[i]]
        BY <2>3, <2>6, <2>7, <3>1
      <4>2. CASE j = Len(queue) + 1
        <5>1. queue'[j] = v /\ dist'[v] = dist[n] + 1
          BY <1>2, <2>3, <2>6, <4>2
        <5> QED BY <1>6, <2>7, <4>1, <5>1
      <4>3. CASE j # Len(queue) + 1
        <5>1. j \in 1 .. Len(queue)
          BY <2>6, <4>3
        <5>2. queue'[j] = queue[j] /\ dist'[queue'[j]] = dist[queue[j]]
          BY <2>3, <2>6, <2>7, <5>1
        <5>3. queue[i] # queue[j] /\ dist[queue[i]] <= dist[queue[j]]
          BY <1>1, <3>1, <4>1, <5>1 DEF QueueOrder
        <5> QED BY <4>1, <5>2, <5>3
      <4> QED BY <4>2, <4>3
    <3>2. ASSUME NEW i \in 1 .. Len(queue') PROVE at'.distance <= dist'[queue'[i]]
      <4>1. CASE i = Len(queue) + 1
        BY <1>1, <1>2, <1>5, <2>3, <2>6, <4>1
      <4>2. CASE i # Len(queue) + 1
        <5>1. i \in 1 .. Len(queue)
          BY <2>6, <4>2
        <5>2. dist'[queue'[i]] = dist[queue[i]] /\ at.distance <= dist[queue[i]]
          BY <1>1, <2>3, <2>6, <2>7, <5>1 DEF QueueOrder
        <5> QED BY <1>5, <5>2
      <4> QED BY <4>1, <4>2
    <3>3. \A x \in Reached' : dist'[x] <= at'.distance + 1
      <4>1. \A x \in Reached : x \in Nodes
        BY DEF Reached
      <4> QED BY <1>1, <1>2, <1>5, <1>6, <2>3, <2>5, <4>1
    <3> QED BY <1>3, <3>1, <3>2, <3>3 DEF QueueOrder
  <2>13. dist'[source] = 0 /\ dist'[v] <= dist[n] + 1 /\ dist'[v] = dist[n] + 1
    BY <1>1, <1>2, <1>3, <2>2, <2>3
  <2>14. \A x \in Nodes : dist'[x] = dist[x] \/ (x = v /\ dist'[v] = dist[n] + 1)
    BY <2>3
  <2> QED BY <1>3, <1>4, <2>4, <2>9, <2>10, <2>11, <2>12, <2>13, <2>14, RelaxKeeps DEF v
<1> QED BY <1>8, <1>9

\* An arc that improves a distance makes a current entry, its parent and its
\* cost agree.
LEMMA DijkstraSearch ==
  ASSUME TypeOK, SearchInv, MCNext, Traverses, RelaxArc, kernel = "dijkstra", pc' = "row"
  PROVE  SearchInv'
<1> DEFINE n == at.node
           v == Neighbors(n)[at.arc + 1]
           next == at.distance + weight[<<n, v>>]
<1>1. /\ pc = "row" /\ n \in Nodes /\ at.distance = dist[n] /\ dist[n] \in 0 .. Top
      /\ at.arc \in Nat /\ at.arc < Len(Neighbors(n)) /\ n \in Reached
      /\ Searching /\ HeapOrder /\ Closed(n) /\ dist[source] = 0 /\ HeapSmall /\ TreeConsistent
  <2>1. pc = "row" /\ n \in Nodes /\ at.distance = dist[n] /\ dist[n] \in 0 .. Top /\ at.arc \in Nat
    BY DEF RelaxArc, TypeOK, Spot, Expanding
  <2>2. Searching /\ HeapOrder /\ Closed(n) /\ dist[source] = 0 /\ HeapSmall /\ TreeConsistent
    BY <2>1 DEF SearchInv, Searching
  <2> QED BY <2>1, <2>2 DEF RelaxArc, Closed
<1>2. v \in Nodes /\ <<n, v>> \in Arcs
  BY <1>1, RowLists
<1>3. DijkstraArc(v) /\ kernel' = kernel /\ source \in Nodes /\ source' = source
  BY <1>1, Frame, Constant DEF RelaxArc, TypeOK, GraphOK
<1>4. Cost(<<n, v>>) = weight[<<n, v>>] /\ weight[<<n, v>>] \in Int /\ weight[<<n, v>>] >= 0
  BY <1>1, <1>2 DEF Cost, TypeOK, GraphOK
<1>5. at'.distance = at.distance
  <2>1. at' = [at EXCEPT !.arc = @ + 1] /\ at \in Spot
    BY DEF RelaxArc, TypeOK
  <2> QED BY <2>1 DEF Spot
<1>6. dist \in [Nodes -> 0 .. Infinity] /\ IsABag(heap) /\ DOMAIN heap \subseteq Entries
  BY DEF TypeOK
<1>7. \A x \in Nodes : dist[x] \in Nat
  BY <1>6, Constant
<1>8. next \in 0 .. Top /\ next >= at.distance /\ next = dist[n] + Cost(<<n, v>>)
  <2>1. ~(next > Top)
    BY <1>1, <1>3 DEF DijkstraArc
  <2> QED BY <1>1, <1>4, <2>1, Constant
<1>9. Cardinality(DOMAIN heap) <= Cardinality(Tried) + 1 /\ Cardinality(DOMAIN heap) \in Nat
      /\ IsFiniteSet(DOMAIN heap)
  BY <1>1, FS_CardinalityType DEF HeapOrder, HeapSmall
<1>10. CASE ~(next < dist[v])
  <2>1. dist' = dist /\ heap' = heap /\ parents' = parents
    BY <1>3, <1>10 DEF DijkstraArc, Improves
  <2>2. Reached' = Reached
    BY <2>1 DEF Reached
  <2>3. \A x : Closed(x)' <=> Closed(x)
    BY <1>3, <2>1, <2>2 DEF Closed, Waiting
  <2>4. HeapSmall' /\ TreeConsistent'
    BY <1>1, <2>1, <2>2, HeapStays, Frame DEF TreeConsistent
  <2>5. Cardinality(Tried') = Cardinality(Tried) + 1 /\ Cardinality(Tried) \in Nat
    BY <1>1, <2>3, TriedGrows
  <2>6. HeapOrder'
    <3>1. \A e \in DOMAIN heap' : dist'[e[2]] <= e[1] /\ at'.distance <= e[1]
      BY <1>1, <1>5, <2>1 DEF HeapOrder
    <3>2. \A x \in Nodes : Closed(x)' => dist'[x] <= at'.distance
      BY <1>1, <1>5, <2>1, <2>3 DEF HeapOrder
    <3>3. (\A x \in Reached \ {source} : Closed(parents[x]))'
      BY <1>1, <2>1, <2>2, <2>3, Frame DEF HeapOrder
    <3>4. Cardinality(DOMAIN heap') <= Cardinality(Tried') + 1
      BY <1>9, <2>1, <2>5
    <3> QED BY <3>1, <3>2, <3>3, <3>4 DEF HeapOrder
  <2>7. \A x \in Nodes : dist'[x] <= dist[x]
    BY <1>7, <2>1
  <2>8. dist'[v] <= dist[n] + Cost(<<n, v>>)
    BY <1>2, <1>7, <1>8, <1>10, <2>1
  <2>9. dist' \in [Nodes -> 0 .. Infinity] /\ \A x \in Nodes : dist'[x] = dist[x]
    BY <1>6, <2>1
  <2>10. dist'[source] = 0
    BY <1>1, <2>1
  <2> HIDE DEF v, next
  <2> QED BY <1>3, <2>3, <2>4, <2>6, <2>7, <2>8, <2>9, <2>10, RelaxKeeps DEF v
<1>11. CASE next < dist[v]
  <2>1. dist' = [dist EXCEPT ![v] = next] /\ heap' = heap (+) SetToBag({<<next, v>>})
        /\ parents' = [parents EXCEPT ![v] = n]
    BY <1>3, <1>8, <1>11 DEF DijkstraArc, Improves
  <2> HIDE DEF v, next
  <2>2. \A x \in Nodes : dist'[x] = IF x = v THEN next ELSE dist[x]
    BY <1>2, <1>6, <2>1
  <2>3. \A x \in Nodes : parents'[x] = IF x = v THEN n ELSE parents[x]
    BY <1>2, <2>1 DEF TypeOK
  <2>4. dist' \in [Nodes -> 0 .. Infinity]
    <3>1. next \in 0 .. Infinity
      BY <1>8, Constant
    <3> QED BY <1>6, <2>1, <3>1
  <2>5. Reached' = Reached \cup {v}
    BY <1>2, <1>8, <2>2, Constant DEF Reached
  <2>6. v # source /\ v # n /\ ~Closed(v)
    <3>1. v # source /\ v # n
      BY <1>1, <1>2, <1>7, <1>8, <1>11, Constant
    <3>2. Closed(v) => dist[v] <= at.distance
      BY <1>1, <1>2 DEF HeapOrder
    <3> QED BY <1>1, <1>2, <1>7, <1>8, <1>11, <3>1, <3>2
  <2>7. <<next, v>> \notin DOMAIN heap
    <3>1. <<next, v>> \in DOMAIN heap => dist[v] <= next
      BY <1>1 DEF HeapOrder
    <3> QED BY <1>2, <1>7, <1>8, <1>11, <3>1
  <2>8. /\ DOMAIN heap' = DOMAIN heap \cup {<<next, v>>} /\ heap'[<<next, v>>] = 1
        /\ \A e \in DOMAIN heap : heap'[e] = 1
    <3>1. /\ DOMAIN heap' = DOMAIN heap \cup {<<next, v>>}
          /\ \A f \in DOMAIN heap : f # <<next, v>> => heap'[f] = heap[f]
          /\ <<next, v>> \notin DOMAIN heap => heap'[<<next, v>>] = 1
      <4> DEFINE B == heap (+) SetToBag({<<next, v>>})
      <4>1. /\ DOMAIN B = DOMAIN heap \cup {<<next, v>>}
            /\ \A f \in DOMAIN heap : f # <<next, v>> => B[f] = heap[f]
            /\ <<next, v>> \notin DOMAIN heap => B[<<next, v>>] = 1
        BY <1>6, BagAdd
      <4>2. heap' = B
        BY <2>1
      <4> HIDE DEF B
      <4> QED BY <4>1, <4>2
    <3> QED BY <1>1, <2>7, <3>1 DEF HeapSmall
  <2>9. \A x \in Nodes : Waiting(x)' <=> Waiting(x) \/ x = v
    <3>1. ASSUME NEW x \in Nodes, x # v PROVE <<dist'[x], x>> \in DOMAIN heap' <=> <<dist[x], x>> \in DOMAIN heap
      BY <2>2, <2>8, <3>1
    <3>2. <<dist'[v], v>> \in DOMAIN heap'
      BY <1>2, <2>2, <2>8
    <3>3. \A x \in Nodes : Waiting(x)' <=> <<dist'[x], x>> \in DOMAIN heap'
      BY <1>3 DEF Waiting
    <3>4. \A x \in Nodes : Waiting(x) <=> <<dist[x], x>> \in DOMAIN heap
      BY <1>3 DEF Waiting
    <3> QED BY <3>1, <3>2, <3>3, <3>4
  <2>10. \A x : Closed(x)' <=> Closed(x)
    <3>1. \A x : x \in Reached' => x \in Nodes
      BY DEF Reached
    <3>2. \A x : x \in Reached => x \in Nodes
      BY DEF Reached
    <3> QED BY <2>5, <2>6, <2>9, <3>1, <3>2 DEF Closed
  <2>11. \A x \in Nodes : Closed(x) => dist'[x] = dist[x]
    BY <2>2, <2>6
  <2>12. \A x \in Nodes : dist'[x] <= dist[x]
    BY <1>2, <1>7, <1>8, <1>11, <2>2
  <2>13. Cardinality(Tried') = Cardinality(Tried) + 1 /\ Cardinality(Tried) \in Nat
    BY <1>1, <2>10, TriedGrows DEF v
  <2>14. IsFiniteSet(DOMAIN heap') /\ Cardinality(DOMAIN heap') = Cardinality(DOMAIN heap) + 1
    BY <1>9, <2>7, <2>8, FS_AddElement
  <2>15. HeapSmall'
    <3>1. Cardinality(Tried') <= Cardinality(Arcs) /\ Cardinality(Arcs) \in Nat
      <4>1. Tried' \subseteq Arcs
        BY Frame DEF Tried
      <4> QED BY <4>1, ArcsFinite
    <3>2. Cardinality(DOMAIN heap') <= Cardinality(Arcs) + 1
      BY <1>9, <2>13, <2>14, <3>1
    <3> QED BY <2>8, <2>14, <3>2, Frame DEF HeapSmall
  <2>16. TreeConsistent'
    <3>1. ASSUME NEW x \in Reached', x # source
          PROVE  /\ parents'[x] \in Reached' /\ <<parents'[x], x>> \in Arcs
                 /\ dist'[x] = dist'[parents'[x]] + weight[<<parents'[x], x>>]
      <4>1. CASE x = v
        <5>1. parents'[x] = n /\ dist'[n] = dist[n] /\ dist'[x] = next
          BY <1>1, <1>2, <2>2, <2>3, <2>6, <4>1
        <5> QED BY <1>1, <1>2, <1>4, <1>8, <2>5, <4>1, <5>1
      <4>2. CASE x # v
        <5>1. x \in Reached /\ x \in Nodes
          BY <2>5, <4>2 DEF Reached
        <5>2. parents'[x] = parents[x] /\ dist'[x] = dist[x]
          BY <2>2, <2>3, <4>2, <5>1
        <5>3. parents[x] \in Reached /\ <<parents[x], x>> \in Arcs
              /\ dist[x] = dist[parents[x]] + weight[<<parents[x], x>>]
          BY <1>1, <3>1, <5>1 DEF TreeConsistent
        <5>4. Closed(parents[x]) /\ parents[x] \in Nodes
          BY <1>1, <3>1, <5>1, <5>3 DEF HeapOrder, Reached
        <5>5. dist'[parents[x]] = dist[parents[x]]
          BY <2>11, <5>4
        <5> QED BY <2>5, <5>2, <5>3, <5>5
      <4> QED BY <4>1, <4>2
    <3> QED BY <3>1, Frame DEF TreeConsistent
  <2>17. HeapOrder'
    <3>1. \A e \in DOMAIN heap' : dist'[e[2]] <= e[1] /\ at'.distance <= e[1]
      <4> SUFFICES ASSUME NEW e \in DOMAIN heap' PROVE dist'[e[2]] <= e[1] /\ at'.distance <= e[1]
        OBVIOUS
      <4>1. CASE e = <<next, v>>
        BY <1>2, <1>5, <1>8, <2>2, <4>1
      <4>2. CASE e # <<next, v>>
        <5>1. e \in DOMAIN heap /\ e[2] \in Nodes /\ e[1] \in Nat
          BY <1>6, <2>8, <4>2, Constant DEF Entries
        <5>2. dist[e[2]] <= e[1] /\ at.distance <= e[1] /\ dist'[e[2]] <= dist[e[2]]
          BY <1>1, <2>12, <5>1 DEF HeapOrder
        <5>3. dist[e[2]] \in Nat /\ dist'[e[2]] \in Nat
          BY <2>4, <1>7, <5>1, Constant
        <5> QED BY <1>5, <5>1, <5>2, <5>3
      <4> QED BY <4>1, <4>2
    <3>2. \A x \in Nodes : Closed(x)' => dist'[x] <= at'.distance
      BY <1>1, <1>5, <2>10, <2>11 DEF HeapOrder
    <3>3. \A x \in Reached' \ {source} : Closed(parents'[x])
      <4> SUFFICES ASSUME NEW x \in Reached' \ {source} PROVE Closed(parents'[x])
        OBVIOUS
      <4>1. CASE x = v
        BY <1>1, <1>2, <2>3, <4>1
      <4>2. CASE x # v
        <5>1. x \in Reached \ {source} /\ x \in Nodes
          BY <2>5, <4>2 DEF Reached
        <5> QED BY <1>1, <2>3, <4>2, <5>1 DEF HeapOrder
      <4> QED BY <4>1, <4>2
    <3>4. (\A x \in Reached \ {source} : Closed(parents[x]))'
      BY <2>10, <3>3, Frame
    <3>5. Cardinality(DOMAIN heap') <= Cardinality(Tried') + 1
      BY <1>9, <2>13, <2>14
    <3>6. pc' = "row"
      OBVIOUS
    <3> QED BY <3>1, <3>2, <3>4, <3>5, <3>6 DEF HeapOrder
  <2>18. dist'[source] = 0 /\ dist'[v] <= dist[n] + Cost(<<n, v>>)
         /\ \A x \in Nodes : dist'[x] = dist[x] \/ (x = v /\ dist'[v] = dist[n] + Cost(<<n, v>>))
    BY <1>1, <1>2, <1>3, <1>8, <2>2, <2>6, Constant
  <2> QED BY <1>3, <2>4, <2>10, <2>11, <2>12, <2>15, <2>16, <2>17, <2>18, RelaxKeeps DEF v
<1> QED BY <1>10, <1>11

\* SearchInv holds before the search.
LEMMA SearchInit == MCInit /\ Traverses => SearchInv
<1> SUFFICES ASSUME MCInit, Traverses PROVE SearchInv
  OBVIOUS
<1>1. NoCall /\ pc = "start"
  BY DEF MCInit, Init, C!Init, Traverses
<1>2. dist = [x \in Nodes |-> Infinity] /\ heap = EmptyBag
  BY <1>1 DEF NoCall
<1>3. Reached = {}
  BY <1>2 DEF Reached
<1>4. NoneGreater
  <2>1. ASSUME NEW d \in Estimates, NEW x \in Nodes PROVE d[x] <= dist[x]
    <3>1. d[x] \in 0 .. Infinity
      BY DEF Estimates
    <3> QED BY <1>2, <3>1, Constant
  <2> QED BY <2>1 DEF NoneGreater
<1>5. HeapSmall
  <2>1. DOMAIN heap = {}
    BY <1>2 DEF EmptyBag, SetToBag
  <2> QED BY <2>1, FS_EmptySet, ArcsFinite DEF HeapSmall
<1>6. TreeConsistent
  BY <1>3 DEF TreeConsistent
<1> QED BY <1>1, <1>4, <1>5, <1>6 DEF SearchInv

\* SearchInv is inductive.
LEMMA SearchStep ==
  ASSUME TypeOK, MCNext, Traverses, SearchInv
  PROVE  SearchInv'
<1>1. CASE Start
  BY <1>1, StartSearch
<1>2. CASE PopFront
  BY <1>2, PopFrontSearch
<1>3. CASE Pop
  BY <1>3, PopSearch
<1>4. CASE RelaxArc
  <2>1. pc = "row" /\ pc' \in {"row", "cancelled", "overflow"}
    BY <1>4 DEF RelaxArc, BfsArc, DijkstraArc
  <2>2. CASE pc' = "row" /\ kernel = "bfs"
    BY <1>4, <2>2, BfsSearch
  <2>3. CASE pc' = "row" /\ kernel = "dijkstra"
    BY <1>4, <2>3, DijkstraSearch
  <2>4. CASE pc' # "row"
    <3>1. dist' = dist /\ parents' = parents /\ heap' = heap
      BY <1>4, <2>1, <2>4 DEF RelaxArc, BfsArc, DijkstraArc
    <3> QED BY <2>1, <2>4, <3>1, HeapStays, LeaveSearch
  <2> QED BY <2>1, <2>2, <2>3, <2>4 DEF Traverses
<1>5. CASE EndRow
  BY <1>5, EndRowSearch
<1>6. CASE NextTarget \/ Trace
  <2>1. /\ dist' = dist /\ parents' = parents /\ heap' = heap
        /\ pc \in {"paths", "trace"} /\ pc' \in {"paths", "trace", "ok", "cancelled"}
    BY <1>6 DEF NextTarget, Trace
  <2>2. \A a \in Arcs : a[1] \in Reached => Relaxed(a)
    BY <2>1 DEF SearchInv
  <2> QED BY <2>1, <2>2, HeapStays, LeaveSearch
<1>7. CASE Cancel
  BY <1>7, CancelSearch
<1> QED BY <1>1, <1>2, <1>3, <1>4, <1>5, <1>6, <1>7, StepKinds DEF Step

-----------------------------------------------------------------------------
(* At the end every estimate is a shortest distance.                       *)

\* Were there a set of reached nodes without an arc that accounts for one of
\* its distances, they could all be greater.
LEMMA Enters ==
  ASSUME TypeOK, Traverses, SearchInv, pc = "ok",
         NEW X \in SUBSET (Reached \ {source}), X # {}
  PROVE  \E a \in Arcs : a[1] \in Reached \ X /\ a[2] \in X /\ dist[a[2]] = dist[a[1]] + Cost(a)
<1> SUFFICES ASSUME \A a \in Arcs : a[1] \in Reached \ X /\ a[2] \in X => dist[a[2]] # dist[a[1]] + Cost(a)
             PROVE  FALSE
  OBVIOUS
<1>1. /\ dist \in [Nodes -> 0 .. Infinity] /\ source \in Nodes /\ dist[source] = 0 /\ X \subseteq Nodes
      /\ \A a \in Arcs : a[1] \in Reached => dist[a[2]] <= dist[a[1]] + Cost(a)
      /\ \A a \in Arcs : Cost(a) \in Nat
  <2>1. \A a \in Arcs : Cost(a) \in Nat
    BY DEF TypeOK, GraphOK, Cost, Traverses
  <2> QED BY <2>1, Constant DEF TypeOK, GraphOK, SearchInv, Relaxed, Reached
<1> DEFINE d == [x \in Nodes |-> IF x \in X THEN dist[x] + 1 ELSE dist[x]]
<1>2. \A x \in X : dist[x] \in 0 .. Top
  BY ReachedFinite
<1>3. \A x \in Nodes : d[x] \in 0 .. Infinity
  BY <1>1, <1>2, Constant
<1>4. d \in [Nodes -> 0 .. Infinity] /\ d[source] = 0
  BY <1>1, <1>3
<1>5. ASSUME NEW a \in Arcs PROVE d[a[2]] <= d[a[1]] + Cost(a)
  <2>1. a[1] \in Nodes /\ a[2] \in Nodes
    BY ArcEnds
  <2>2. dist[a[1]] \in 0 .. Infinity /\ dist[a[2]] \in 0 .. Infinity /\ Cost(a) \in Nat
    BY <1>1, <2>1
  <2>3. CASE a[1] \notin Reached
    <3>1. a[1] \notin X /\ d[a[1]] = Infinity
      BY <2>1, <2>3 DEF Reached
    <3>2. d[a[2]] \in 0 .. Infinity
      BY <1>3, <2>1
    <3> HIDE DEF d
    <3> QED BY <2>2, <3>1, <3>2, Constant
  <2>4. CASE a[1] \in Reached
    <3>1. dist[a[2]] <= dist[a[1]] + Cost(a)
      BY <1>1, <2>4
    <3>2. CASE a[1] \in X
      <4>1. d[a[1]] = dist[a[1]] + 1 /\ d[a[2]] <= dist[a[2]] + 1
        BY <2>1, <2>2, <3>2, Constant
      <4>2. d[a[2]] \in 0 .. Infinity
        BY <1>3, <2>1
      <4> HIDE DEF d
      <4> QED BY <2>2, <3>1, <4>1, <4>2, Constant
    <3>3. CASE a[1] \notin X /\ a[2] \in X
      <4>1. dist[a[2]] # dist[a[1]] + Cost(a)
        BY <2>4, <3>3
      <4>2. d[a[1]] = dist[a[1]] /\ d[a[2]] = dist[a[2]] + 1
        BY <2>1, <3>3
      <4> HIDE DEF d
      <4> QED BY <2>2, <3>1, <4>1, <4>2, Constant
    <3>4. CASE a[1] \notin X /\ a[2] \notin X
      BY <2>1, <3>1, <3>4
    <3> QED BY <3>2, <3>3, <3>4
  <2> QED BY <2>3, <2>4
<1>6. d \in Estimates
  <2> HIDE DEF d
  <2> QED BY <1>4, <1>5 DEF Estimates
<1>7. PICK x \in X : TRUE
  OBVIOUS
<1>8. d[x] <= dist[x]
  <2> HIDE DEF d
  <2> QED BY <1>1, <1>6, <1>7 DEF SearchInv, NoneGreater
<1>9. d[x] = dist[x] + 1 /\ dist[x] \in Nat
  BY <1>1, <1>2, <1>7, Constant
<1> HIDE DEF d
<1> QED BY <1>8, <1>9

\* A search that ends has found the shortest distances.
LEMMA ShortestAtEnd ==
  ASSUME TypeOK, Traverses, SearchInv, pc = "ok"
  PROVE  Shortest
<1>1. dist[source] = 0 /\ \A a \in Arcs : a[1] \in Reached => dist[a[2]] <= dist[a[1]] + Cost(a)
  BY DEF SearchInv, Relaxed
<1>2. \A X \in (SUBSET (Reached \ {source})) \ {{}} :
        \E a \in Arcs : a[1] \in Reached \ X /\ a[2] \in X /\ dist[a[2]] = dist[a[1]] + Cost(a)
  <2> SUFFICES ASSUME NEW X \in (SUBSET (Reached \ {source})) \ {{}}
               PROVE  \E a \in Arcs : a[1] \in Reached \ X /\ a[2] \in X /\ dist[a[2]] = dist[a[1]] + Cost(a)
    OBVIOUS
  <2>1. X \in SUBSET (Reached \ {source}) /\ X # {}
    OBVIOUS
  <2> QED BY <2>1, Enters
<1> QED BY <1>1, <1>2 DEF Shortest

-----------------------------------------------------------------------------
(* The visitor: the path being traced, and those handed over.              *)

PathIn(w, arcs, s, p) ==
  /\ Head(p.nodes) = s /\ Head(p.costs) = 0 /\ Len(p.costs) = Len(p.nodes)
  /\ \A j \in 1 .. Len(p.nodes) - 1 :
       /\ <<p.nodes[j], p.nodes[j + 1]>> \in arcs
       /\ p.costs[j + 1] = p.costs[j] + w[<<p.nodes[j], p.nodes[j + 1]>>]
PathFound(p) == PathIn(weight, Arcs, source, p)

End(i) == Last(visited[i].nodes)

\* The path being traced leads from the target over parents and has not yet
\* come to the source.
TraceGoesUp ==
  /\ target \in Reached /\ nodes # <<>> /\ nodes[1] = target
  /\ \A i \in 1 .. Len(nodes) : nodes[i] \in Reached
  /\ \A i \in 1 .. Len(nodes) - 1 : nodes[i] # source /\ nodes[i + 1] = parents[nodes[i]]

\* The paths handed over end in the reached nodes below the target, in order.
VisitInv ==
  /\ visited \in Seq([nodes : Seq(Nodes), costs : Seq(Nat)])
  /\ kernel = "bfs" => pc \notin {"paths", "trace"} /\ target = 0
  /\ pc \notin {"paths", "trace", "ok", "cancelled"} => target = 0
  /\ pc = "trace" => TraceGoesUp
  /\ \A i \in 1 .. Len(visited) : PathFound(visited[i]) /\ End(i) \in Reached /\ End(i) < target
  /\ \A i, j \in 1 .. Len(visited) : i < j => End(i) < End(j)
  /\ \A v \in Reached : v < target => \E i \in 1 .. Len(visited) : End(i) = v

\* At first no path is handed over.
LEMMA VisitInit == MCInit /\ Traverses => VisitInv
<1> SUFFICES ASSUME MCInit, Traverses PROVE VisitInv
  OBVIOUS
<1>1. pc = "start" /\ visited = <<>> /\ target = 0 /\ Len(visited) = 0
  BY DEF MCInit, Init, C!Init, Traverses, NoCall
<1>2. visited \in Seq([nodes : Seq(Nodes), costs : Seq(Nat)])
  BY <1>1, EmptySeq
<1>3. \A v \in Reached : ~(v < target)
  BY <1>1, Constant DEF Reached
<1> QED BY <1>1, <1>2, <1>3 DEF VisitInv

\* What no step touches: the graph of the paths handed over.
LEMMA PathsStand ==
  ASSUME MCNext
  PROVE  weight' = weight /\ Arcs' = Arcs /\ source' = source
BY StepKinds

\* A path handed over stays one of the graph.
LEMMA PathsStay ==
  ASSUME MCNext, NEW p
  PROVE  PathFound(p)' <=> PathFound(p)
BY PathsStand DEF PathFound

\* Until the visitor is called no path has been handed over.
LEMMA VisitLater ==
  ASSUME TypeOK, VisitInv, MCNext, visited' = visited, target' = target,
         pc \notin {"paths", "trace", "ok", "cancelled"},
         pc' # "trace", pc' = "paths" => kernel # "bfs"
  PROVE  VisitInv'
<1>1. target = 0
  BY DEF VisitInv
<1>2. Len(visited) = 0
  <2>1. \A i \in 1 .. Len(visited) : End(i) \in Nat /\ End(i) < 0
    BY <1>1, Constant DEF VisitInv, Reached
  <2>2. ~(1 \in 1 .. Len(visited))
    BY <2>1
  <2>3. Len(visited) \in Nat
    BY LenProperties DEF VisitInv
  <2> QED BY <2>2, <2>3
<1>3. \A x \in Reached' : ~(x < 0)
  BY Constant DEF Reached
<1> QED BY <1>1, <1>2, <1>3, Frame DEF VisitInv

\* Steps that hand no path over keep those that were.
LEMMA VisitStays ==
  ASSUME TypeOK, VisitInv, MCNext, visited' = visited, dist' = dist, target' \in Nat, target <= target',
         pc \in {"paths", "trace"}, pc' \in {"paths", "trace", "ok", "cancelled"},
         pc' = "trace" => TraceGoesUp',
         \A v \in Reached : v < target' => v < target
  PROVE  VisitInv'
<1>1. Reached' = Reached /\ kernel' = kernel /\ kernel # "bfs" /\ target \in Nat
  BY Frame, Constant DEF Reached, VisitInv, TypeOK
<1>2. (\A i \in 1 .. Len(visited) : PathFound(visited[i]))'
  <2>1. \A i \in 1 .. Len(visited) : PathFound(visited[i])
    BY DEF VisitInv
  <2> QED BY <2>1, PathsStand DEF PathFound
<1>3. (\A i \in 1 .. Len(visited) : End(i) \in Reached /\ End(i) < target)'
  <2>1. \A i \in 1 .. Len(visited) : End(i) \in Reached /\ End(i) < target /\ End(i) \in Nat
    BY Constant DEF VisitInv, Reached
  <2>2. \A i \in 1 .. Len(visited) : End(i) < target'
    BY <1>1, <2>1
  <2> QED BY <1>1, <2>1, <2>2 DEF End
<1>4. (\A i, j \in 1 .. Len(visited) : i < j => End(i) < End(j))'
  BY DEF VisitInv, End
<1>5. (\A v \in Reached : v < target => \E i \in 1 .. Len(visited) : End(i) = v)'
  <2>1. \A v \in Reached : v < target' => \E i \in 1 .. Len(visited) : End(i) = v
    BY DEF VisitInv
  <2> QED BY <1>1, <2>1 DEF End
<1>6. visited' \in Seq([nodes : Seq(Nodes), costs : Seq(Nat)])
  BY DEF VisitInv
<1> QED BY <1>1, <1>2, <1>3, <1>4, <1>5, <1>6 DEF VisitInv

\* The path handed over, the source first.
LEMMA VisitPath ==
  ASSUME TypeOK, SearchInv, VisitInv, pc = "trace", kernel = "dijkstra", Last(nodes) = source,
         NEW p, p = [nodes |-> Reverse(nodes), costs |-> Reverse(Costs(nodes))]
  PROVE  /\ p \in [nodes : Seq(Nodes), costs : Seq(Nat)] /\ PathFound(p) /\ Last(p.nodes) = target
<1> DEFINE n == Len(nodes)
           c == Costs(nodes)
<1>1. /\ TraceGoesUp /\ TreeConsistent /\ dist[source] = 0
      /\ \A x \in Nodes : dist[x] \in Nat
      /\ \A i \in 1 .. n : nodes[i] \in Reached /\ nodes[i] \in Nodes
  <2>1. TraceGoesUp /\ TreeConsistent /\ dist[source] = 0
    BY DEF VisitInv, SearchInv
  <2>2. \A x \in Nodes : dist[x] \in Nat
    BY Constant DEF TypeOK
  <2> QED BY <2>1, <2>2 DEF TraceGoesUp, Reached
<1>2. n \in Nat /\ n >= 1 /\ nodes \in Seq(Nodes) /\ DOMAIN nodes = 1 .. n /\ nodes[n] = source /\ nodes[1] = target
  BY <1>1, LenProperties DEF TypeOK, TraceGoesUp, Last
<1>3. c \in [1 .. n -> Nat] /\ \A i \in 1 .. n : c[i] = dist[nodes[i]]
  BY <1>1, <1>2 DEF Costs
<1>4. c \in Seq(Nat) /\ Len(c) = n
  BY <1>2, <1>3
<1> HIDE DEF n, c
<1>5. /\ Reverse(nodes) = [i \in 1 .. n |-> nodes[(n - i) + 1]]
      /\ Reverse(c) = [i \in 1 .. n |-> c[(n - i) + 1]]
  BY <1>4 DEF Reverse, n
<1>6. \A i \in 1 .. n : (n - i) + 1 \in 1 .. n
  BY <1>2
<1>7. p.nodes \in [1 .. n -> Nodes] /\ p.costs \in [1 .. n -> Nat]
  BY <1>1, <1>3, <1>5, <1>6 DEF c
<1>8. p.nodes \in Seq(Nodes) /\ p.costs \in Seq(Nat) /\ Len(p.nodes) = n /\ Len(p.costs) = n
  BY <1>2, <1>7
<1>9. \A i \in 1 .. n : p.nodes[i] = nodes[(n - i) + 1] /\ p.costs[i] = dist[nodes[(n - i) + 1]]
  <2>1. \A i \in 1 .. n : p.nodes[i] = nodes[(n - i) + 1] /\ p.costs[i] = c[(n - i) + 1]
    BY <1>5 DEF c
  <2> QED BY <1>3, <1>6, <2>1
<1>10. Head(p.nodes) = source /\ Head(p.costs) = 0 /\ Last(p.nodes) = target
  <2>1. Head(p.nodes) = p.nodes[1] /\ Head(p.costs) = p.costs[1] /\ Last(p.nodes) = p.nodes[n]
    BY <1>2, <1>8 DEF Last
  <2>2. 1 \in 1 .. n /\ n \in 1 .. n /\ (n - 1) + 1 = n /\ (n - n) + 1 = 1
    BY <1>2
  <2>3. p.nodes[1] = nodes[n] /\ p.costs[1] = dist[nodes[n]] /\ p.nodes[n] = nodes[1]
    BY <1>9, <2>2
  <2> QED BY <1>1, <1>2, <2>1, <2>3
<1>11. ASSUME NEW j \in 1 .. n - 1
       PROVE  /\ <<p.nodes[j], p.nodes[j + 1]>> \in Arcs
              /\ p.costs[j + 1] = p.costs[j] + weight[<<p.nodes[j], p.nodes[j + 1]>>]
  <2> DEFINE i == n - j
  <2>1. i \in 1 .. n - 1 /\ i \in 1 .. n /\ (n - j) + 1 = i + 1 /\ (n - (j + 1)) + 1 = i
        /\ j \in 1 .. n /\ j + 1 \in 1 .. n
    BY <1>2
  <2>2. /\ p.nodes[j] = nodes[i + 1] /\ p.costs[j] = dist[nodes[i + 1]]
        /\ p.nodes[j + 1] = nodes[i] /\ p.costs[j + 1] = dist[nodes[i]]
    BY <1>9, <2>1
  <2> HIDE DEF i
  <2>3. nodes[i] # source /\ nodes[i + 1] = parents[nodes[i]] /\ nodes[i] \in Reached
    BY <1>1, <2>1 DEF TraceGoesUp, n
  <2>4. /\ <<parents[nodes[i]], nodes[i]>> \in Arcs
        /\ dist[nodes[i]] = dist[parents[nodes[i]]] + weight[<<parents[nodes[i]], nodes[i]>>]
    BY <1>1, <2>3 DEF TreeConsistent
  <2> QED BY <2>2, <2>3, <2>4
<1>12. PathFound(p)
  BY <1>8, <1>10, <1>11 DEF PathFound, PathIn
<1>13. p \in [nodes : Seq(Nodes), costs : Seq(Nat)]
  BY <1>8
<1> QED BY <1>10, <1>12, <1>13

\* A trace follows parents up to the source, and the path handed over costs
\* its distance.
LEMMA TraceVisit ==
  ASSUME TypeOK, SearchInv, VisitInv, MCNext, Traverses, Trace
  PROVE  VisitInv'
<1>1. /\ pc = "trace" /\ kernel = "dijkstra" /\ dist' = dist /\ parents' = parents /\ target \in Nat
      /\ TraceGoesUp /\ TreeConsistent /\ kernel' = kernel /\ Reached' = Reached /\ source' = source
      /\ target < NodeCount
  BY Frame, Constant DEF Trace, VisitInv, SearchInv, Traverses, TypeOK, Tracing, Reached
<1>2. /\ nodes \in Seq(Nodes) /\ Len(nodes) \in Nat /\ Len(nodes) >= 1 /\ Last(nodes) = nodes[Len(nodes)]
      /\ nodes[Len(nodes)] \in Reached /\ nodes[Len(nodes)] \in Nodes
  <2>1. nodes \in Seq(Nodes) /\ nodes # <<>>
    BY <1>1 DEF TypeOK, TraceGoesUp
  <2>2. Len(nodes) \in Nat /\ Len(nodes) >= 1
    BY <2>1, LenProperties
  <2>3. nodes[Len(nodes)] \in Reached
    BY <1>1, <2>2 DEF TraceGoesUp
  <2> QED BY <2>1, <2>2, <2>3 DEF Last, Reached
<1>3. CASE Last(nodes) = source
  <2> DEFINE p == [nodes |-> Reverse(nodes), costs |-> Reverse(Costs(nodes))]
             T == [nodes : Seq(Nodes), costs : Seq(Nat)]
  <2>1. visited' = Append(visited, p) /\ target' = target + 1 /\ pc' = "paths"
    BY <1>3 DEF Trace, Visit
  <2>2. p \in T /\ PathFound(p) /\ Last(p.nodes) = target
    BY <1>1, <1>3, VisitPath
  <2> HIDE DEF p, T
  <2>3. visited \in Seq(T)
    BY DEF VisitInv, T
  <2>4. /\ visited' \in Seq(T) /\ Len(visited) \in Nat /\ Len(visited') = Len(visited) + 1
        /\ \A i \in 1 .. Len(visited) + 1 : visited'[i] = IF i = Len(visited) + 1 THEN p ELSE visited[i]
    BY <2>1, <2>2, <2>3, AppendProperties
  <2>5. \A i \in 1 .. Len(visited') : i \in 1 .. Len(visited) \/ i = Len(visited) + 1
    BY <2>4
  <2>6. \A i \in 1 .. Len(visited) : i \in 1 .. Len(visited') /\ End(i)' = End(i) /\ visited'[i] = visited[i]
    BY <2>4 DEF End
  <2>7. Len(visited) + 1 \in 1 .. Len(visited') /\ visited'[Len(visited) + 1] = p
    BY <2>4
  <2>8. target \in Reached /\ \A x \in Reached : x \in Nat
    BY <1>1, Constant DEF TraceGoesUp, Reached
  <2>9. \A i \in 1 .. Len(visited') : Last(visited'[i].nodes) = IF i = Len(visited) + 1 THEN target ELSE End(i)
    BY <2>2, <2>4, <2>5 DEF End
  <2>10. (\A i \in 1 .. Len(visited) : PathFound(visited[i]))'
    <3>1. \A i \in 1 .. Len(visited') : PathFound(visited'[i])
      BY <2>2, <2>5, <2>6, <2>7 DEF VisitInv
    <3> QED BY <3>1, PathsStand DEF PathFound
  <2>11. (\A i \in 1 .. Len(visited) : End(i) \in Reached /\ End(i) < target)'
    <3>1. \A i \in 1 .. Len(visited) : End(i) \in Reached /\ End(i) < target
      BY DEF VisitInv
    <3>2. \A i \in 1 .. Len(visited') : Last(visited'[i].nodes) \in Reached /\ Last(visited'[i].nodes) < target + 1
      <4> SUFFICES ASSUME NEW i \in 1 .. Len(visited')
                   PROVE  Last(visited'[i].nodes) \in Reached /\ Last(visited'[i].nodes) < target + 1
        OBVIOUS
      <4>1. CASE i = Len(visited) + 1
        BY <1>1, <2>8, <2>9, <4>1
      <4>2. CASE i \in 1 .. Len(visited)
        <5>1. i # Len(visited) + 1
          BY <2>4, <4>2
        <5>2. Last(visited'[i].nodes) = End(i)
          BY <2>9, <5>1
        <5>3. End(i) \in Reached /\ End(i) < target /\ End(i) \in Nat
          BY <2>8, <3>1, <4>2
        <5> QED BY <1>1, <5>2, <5>3
      <4> QED BY <2>5, <4>1, <4>2
    <3> QED BY <1>1, <2>1, <3>2 DEF End
  <2>12. (\A i, j \in 1 .. Len(visited) : i < j => End(i) < End(j))'
    <3>1. \A i, j \in 1 .. Len(visited) : i < j => End(i) < End(j)
      BY DEF VisitInv
    <3>2. \A i \in 1 .. Len(visited) : End(i) < target
      BY DEF VisitInv
    <3>3. ASSUME NEW i \in 1 .. Len(visited'), NEW j \in 1 .. Len(visited'), i < j
          PROVE  Last(visited'[i].nodes) < Last(visited'[j].nodes)
      <4>1. i \in 1 .. Len(visited) /\ i # Len(visited) + 1
        BY <2>4, <3>3
      <4> QED BY <2>5, <2>9, <3>1, <3>2, <3>3, <4>1
    <3> QED BY <3>3 DEF End
  <2>13. (\A v \in Reached : v < target => \E i \in 1 .. Len(visited) : End(i) = v)'
    <3>1. ASSUME NEW v \in Reached, v < target + 1 PROVE \E i \in 1 .. Len(visited') : Last(visited'[i].nodes) = v
      <4>1. CASE v = target
        BY <2>7, <2>9, <4>1
      <4>2. CASE v # target
        <5>1. v < target
          BY <1>1, <2>8, <3>1, <4>2
        <5>2. PICK i \in 1 .. Len(visited) : End(i) = v
          BY <5>1 DEF VisitInv
        <5> QED BY <2>4, <2>6, <2>9, <5>2
      <4> QED BY <4>1, <4>2
    <3> QED BY <1>1, <2>1, <3>1 DEF End
  <2> QED BY <1>1, <2>1, <2>4, <2>10, <2>11, <2>12, <2>13 DEF VisitInv, T
<1>4. CASE Last(nodes) # source
  <2>1. visited' = visited /\ target' = target /\ pc' \in {"trace", "cancelled"}
    BY <1>1, <1>4 DEF Trace
  <2>2. ASSUME pc' = "trace" PROVE TraceGoesUp'
    <3> DEFINE x == Last(nodes)
    <3>1. nodes' = Append(nodes, parents[x])
      BY <1>4, <2>2 DEF Trace
    <3>2. parents[x] \in Reached /\ parents[x] \in Nodes
      BY <1>1, <1>2, <1>4 DEF TreeConsistent, Reached
    <3>3. /\ Len(nodes') = Len(nodes) + 1
          /\ \A i \in 1 .. Len(nodes) + 1 : nodes'[i] = IF i = Len(nodes) + 1 THEN parents[x] ELSE nodes[i]
          /\ nodes' # <<>>
      <4>1. parents[x] \in Nodes /\ nodes \in Seq(Nodes)
        BY <1>2, <3>2
      <4> HIDE DEF x
      <4> QED BY <3>1, <4>1, AppendProperties
    <3>4. nodes'[1] = target /\ target \in Reached
      BY <1>1, <1>2, <3>3 DEF TraceGoesUp
    <3>5. \A i \in 1 .. Len(nodes') : nodes'[i] \in Reached
      BY <1>1, <1>2, <3>2, <3>3 DEF TraceGoesUp
    <3>6. ASSUME NEW i \in 1 .. Len(nodes') - 1 PROVE nodes'[i] # source /\ nodes'[i + 1] = parents[nodes'[i]]
      <4>1. i \in 1 .. Len(nodes) /\ nodes'[i] = nodes[i]
        BY <1>2, <3>3
      <4>2. CASE i = Len(nodes)
        BY <1>2, <1>4, <3>3, <4>1, <4>2
      <4>3. CASE i # Len(nodes)
        <5>1. i \in 1 .. Len(nodes) - 1 /\ i + 1 \in 1 .. Len(nodes) + 1 /\ i + 1 # Len(nodes) + 1
          BY <1>2, <4>1, <4>3
        <5> QED BY <1>1, <3>3, <4>1, <5>1 DEF TraceGoesUp
      <4> QED BY <4>2, <4>3
    <3> QED BY <1>1, <2>1, <3>3, <3>4, <3>5, <3>6 DEF TraceGoesUp
  <2> QED BY <1>1, <2>1, <2>2, VisitStays
<1> QED BY <1>3, <1>4

\* VisitInv is inductive.
LEMMA VisitStep ==
  ASSUME TypeOK, SearchInv, VisitInv, MCNext, Traverses
  PROVE  VisitInv'
<1>1. CASE Start \/ PopFront \/ Pop \/ RelaxArc \/ EndRow
  <2>1. /\ visited' = visited /\ target' = target /\ pc \in {"start", "take", "row"}
        /\ pc' # "trace" /\ (pc' = "paths" => kernel # "bfs")
    BY <1>1 DEF Start, PopFront, Pop, RelaxArc, BfsArc, DijkstraArc, EndRow, Expand
  <2> QED BY <2>1, VisitLater
<1>2. CASE Cancel
  <2>1. /\ dist' = dist /\ parents' = parents /\ nodes' = nodes /\ target' = target /\ visited' = visited
        /\ pc' = pc /\ source' = source /\ kernel' = kernel /\ Reached' = Reached
    BY <1>2, Frame DEF Cancel, Reached
  <2>2. (\A i \in 1 .. Len(visited) : PathFound(visited[i]))'
    <3>1. \A i \in 1 .. Len(visited) : PathFound(visited[i])
      BY DEF VisitInv
    <3> QED BY <2>1, <3>1, PathsStand DEF PathFound
  <2>3. TraceGoesUp' = TraceGoesUp
    BY <2>1 DEF TraceGoesUp
  <2> QED BY <2>1, <2>2, <2>3 DEF VisitInv, End
<1>3. CASE NextTarget
  <2>1. /\ pc = "paths" /\ dist' = dist /\ visited' = visited /\ target \in Nat /\ Reached' = Reached
        /\ pc' \in {"paths", "trace", "ok", "cancelled"} /\ target \in 0 .. NodeCount
    BY <1>3, Frame, Constant DEF NextTarget, TypeOK, Reached
  <2>2. target' = target \/ (target' = target + 1 /\ target \notin Reached)
    BY <1>3 DEF NextTarget, Reached
  <2>3. target' \in Nat /\ target <= target'
    BY <2>1, <2>2
  <2>4. \A v \in Reached : v < target' => v < target
    <3>1. \A v \in Reached : v \in Nat
      BY Constant DEF Reached
    <3> QED BY <2>1, <2>2, <3>1
  <2>5. ASSUME pc' = "trace" PROVE TraceGoesUp'
    <3>1. nodes' = <<target>> /\ target' = target /\ dist[target] # Infinity /\ target # NodeCount
      BY <1>3, <2>1, <2>5 DEF NextTarget
    <3>2. target \in Nodes
      BY <2>1, <3>1, Constant DEF Nodes
    <3>3. target \in Reached
      BY <3>1, <3>2 DEF Reached
    <3>4. Len(nodes') = 1 /\ nodes'[1] = target /\ nodes' # <<>>
      BY <3>1
    <3> QED BY <2>1, <3>1, <3>3, <3>4 DEF TraceGoesUp
  <2> QED BY <2>1, <2>3, <2>4, <2>5, VisitStays
<1>4. CASE Trace
  BY <1>4, TraceVisit
<1> QED BY <1>1, <1>2, <1>3, <1>4, StepKinds DEF Step

\* The two invariants say what ShortestFound says.
LEMMA ShortestFromInv ==
  ASSUME TypeOK, Traverses => SearchInv /\ VisitInv
  PROVE  ShortestFound
<1> SUFFICES ASSUME Traverses PROVE ShortestFound
  BY DEF ShortestFound
<1>1. SearchInv /\ VisitInv
  OBVIOUS
<1>2. (kernel = "dijkstra" => TreeConsistent) /\ (pc = "ok" => Shortest)
  BY <1>1, ShortestAtEnd DEF SearchInv
<1>3. DOMAIN visited = 1 .. Len(visited)
  <2>1. visited \in Seq([nodes : Seq(Nodes), costs : Seq(Nat)])
    BY <1>1 DEF VisitInv
  <2> QED BY <2>1, LenProperties
<1>4. \A i \in DOMAIN visited : PathFound(visited[i])
  BY <1>1, <1>3 DEF VisitInv
<1> DEFINE ends == [i \in DOMAIN visited |-> Last(visited[i].nodes)]
<1>5. \A i, j \in DOMAIN ends : i < j => ends[i] < ends[j]
  BY <1>1, <1>3 DEF VisitInv, End
<1>6. Range(ends) = {End(i) : i \in 1 .. Len(visited)}
  BY <1>3 DEF Range, End
<1>7. Range(ends) = {v \in Reached : v < target}
  <2>1. \A i \in 1 .. Len(visited) : End(i) \in Reached /\ End(i) < target
    BY <1>1 DEF VisitInv
  <2>2. \A v \in Reached : v < target => \E i \in 1 .. Len(visited) : End(i) = v
    BY <1>1 DEF VisitInv
  <2> HIDE DEF ends
  <2> QED BY <1>6, <2>1, <2>2
<1>8. ASSUME pc # "cancelled"
      PROVE  Range(ends) = {v \in Reached : v < target /\ pc \in {"paths", "trace", "ok"}}
  <2>1. CASE pc \in {"paths", "trace", "ok"}
    BY <1>7, <2>1
  <2>2. CASE pc \notin {"paths", "trace", "ok"}
    <3>1. target = 0
      BY <1>1, <1>8, <2>2 DEF VisitInv
    <3>2. \A v \in Reached : ~(v < target)
      BY <3>1, Constant DEF Reached
    <3> HIDE DEF ends
    <3> QED BY <1>7, <2>2, <3>2
  <2> QED BY <2>1, <2>2
<1> QED BY <1>2, <1>4, <1>5, <1>8 DEF ShortestFound, PathFound, PathIn

-----------------------------------------------------------------------------
(* How soon a cancellation is heard.                                       *)

\* A remainder that is not 0 is one more than that of the number before.
LEMMA ModStep ==
  ASSUME NEW n \in Nat, n > 0, NEW k \in Int
  PROVE  /\ k % n \in 0 .. n - 1
         /\ k % n # 0 => k % n = ((k - 1) % n) + 1
<1>1. k % n \in 0 .. n - 1
  BY SMT
<1>2. k % n # 0 => k % n = ((k - 1) % n) + 1
  BY SMT
<1> QED BY <1>1, <1>2

\* In a row or a path that was not left at an index where the context is
\* looked at, no more steps follow a cancellation than lead back to the last
\* such index.
LateInv ==
  /\ ~cancelled => late = 0
  /\ pc = "start" => late = 0
  /\ pc = "take" => late <= CheckEvery
  /\ pc = "row" /\ cancelled => late <= (at.arc - 1) % CheckEvery
  /\ pc = "paths" => late <= CheckEvery + 1
  /\ pc = "trace" /\ cancelled => late <= (Len(nodes) - 1) % CheckEvery

\* At first nothing is cancelled.
LEMMA LateInit == MCInit => LateInv
<1> SUFFICES ASSUME MCInit PROVE LateInv
  OBVIOUS
<1>1. late = 0 /\ cancelled = FALSE
  BY DEF MCInit, NoCall, Init
<1>2. pc # "row" /\ pc # "trace"
  BY DEF MCInit, Init, C!Init
<1> QED BY <1>1, <1>2, Constant DEF LateInv

\* LateInv is inductive: the flag is looked at again before the steps run out.
LEMMA LateStep ==
  ASSUME TypeOK, Traverses => VisitInv, LateInv, MCNext, Traverses
  PROVE  LateInv'
<1>1. late \in Nat /\ cancelled \in BOOLEAN /\ at \in Spot /\ at.arc \in Nat /\ CheckEvery \in Nat /\ CheckEvery > 0
  BY Constant DEF TypeOK, Spot
<1>2. CASE Cancel
  <2>1. late' = 0 /\ cancelled' = TRUE /\ at' = at /\ nodes' = nodes
    BY <1>2, StepKinds DEF Cancel, traversalVars, Step, Start, PopFront, Pop, RelaxArc, EndRow, NextTarget, Trace
  <2>2. (at.arc - 1) % CheckEvery >= 0
    BY <1>1, ModStep
  <2>3. pc' = "trace" => (Len(nodes') - 1) % CheckEvery >= 0
    <3>1. Len(nodes) \in Nat
      BY LenProperties DEF TypeOK
    <3> QED BY <1>1, <2>1, <3>1, ModStep
  <2> QED BY <1>1, <2>1, <2>2, <2>3 DEF LateInv
<1>3. CASE Step /\ late' = (IF cancelled THEN late + 1 ELSE 0)
  <2>1. cancelled' = cancelled
    BY <1>3 DEF Step, Start, PopFront, Pop, RelaxArc, EndRow, NextTarget, Trace
  <2>2. CASE ~cancelled
    <3>1. late' = 0 /\ ~cancelled'
      BY <1>3, <2>1, <2>2
    <3> QED BY <1>1, <3>1 DEF LateInv
  <2>3. CASE cancelled
    <3>1. late' = late + 1 /\ cancelled'
      BY <1>3, <2>1, <2>3
    <3>2. CASE Start
      <4>1. pc = "start" /\ pc' \in {"invalid", "take"}
        BY <3>2 DEF Start
      <4> QED BY <1>1, <3>1, <4>1 DEF LateInv
    <3>3. CASE PopFront
      <4>1. pc' \in {"ok", "cancelled"}
        BY <2>3, <3>3 DEF PopFront
      <4> QED BY <3>1, <4>1 DEF LateInv
    <3>4. CASE Pop
      <4>1. pc = "take" /\ pc' \in {"paths", "cancelled"}
        BY <2>3, <3>4 DEF Pop
      <4> QED BY <1>1, <3>1, <4>1 DEF LateInv
    <3>5. CASE RelaxArc
      <4>1. at'.arc = at.arc + 1 /\ pc = "row"
        BY <1>1, <3>5 DEF RelaxArc, Spot
      <4>2. CASE at.arc % CheckEvery = 0
        <5>1. pc' = "cancelled"
          BY <2>3, <3>5, <4>2 DEF RelaxArc, Checks
        <5> QED BY <3>1, <5>1 DEF LateInv
      <4>3. CASE at.arc % CheckEvery # 0
        <5>1. at.arc % CheckEvery = ((at.arc - 1) % CheckEvery) + 1 /\ (at'.arc - 1) = at.arc
              /\ (at.arc - 1) % CheckEvery \in Int
          <6>1. at.arc \in Int /\ at.arc - 1 \in Int /\ (at'.arc - 1) = at.arc
            BY <1>1, <4>1
          <6>2. at.arc % CheckEvery = ((at.arc - 1) % CheckEvery) + 1
            BY <1>1, <4>3, <6>1, ModStep
          <6>3. (at.arc - 1) % CheckEvery \in 0 .. CheckEvery - 1
            BY <1>1, <6>1, ModStep
          <6> QED BY <1>1, <6>1, <6>2, <6>3
        <5>2. late <= (at.arc - 1) % CheckEvery
          BY <2>3, <4>1 DEF LateInv
        <5>3. late' <= (at'.arc - 1) % CheckEvery
          BY <1>1, <3>1, <5>1, <5>2
        <5>4. pc' \in {"row", "cancelled", "overflow"}
          BY <3>5, <4>1 DEF RelaxArc, BfsArc, DijkstraArc
        <5> QED BY <3>1, <5>3, <5>4 DEF LateInv
      <4> QED BY <4>2, <4>3
    <3>6. CASE EndRow
      <4>1. pc = "row" /\ pc' = "take" /\ (at.arc - 1) % CheckEvery \in 0 .. CheckEvery - 1
        BY <1>1, <3>6, ModStep DEF EndRow
      <4>2. late <= (at.arc - 1) % CheckEvery
        BY <2>3, <4>1 DEF LateInv
      <4>3. late' <= CheckEvery
        BY <1>1, <3>1, <4>1, <4>2
      <4> QED BY <3>1, <4>1, <4>3 DEF LateInv
    <3>7. CASE NextTarget
      <4>1. pc' \in {"ok", "cancelled"}
        BY <2>3, <3>7 DEF NextTarget
      <4> QED BY <3>1, <4>1 DEF LateInv
    <3>8. CASE Trace
      <4>1. pc = "trace" /\ nodes \in Seq(Nodes) /\ Len(nodes) \in Nat /\ late <= (Len(nodes) - 1) % CheckEvery
        BY <2>3, <3>8, LenProperties DEF Trace, TypeOK, LateInv
      <4>2. (Len(nodes) - 1) % CheckEvery \in 0 .. CheckEvery - 1
        BY <1>1, <4>1, ModStep
      <4>3. CASE Last(nodes) = source
        <5>1. pc' = "paths"
          BY <3>8, <4>3 DEF Trace
        <5>2. late' <= CheckEvery + 1
          BY <1>1, <3>1, <4>1, <4>2
        <5> QED BY <3>1, <5>1, <5>2 DEF LateInv
      <4>4. CASE Last(nodes) # source /\ Len(nodes) % CheckEvery = 0
        <5>1. pc' = "cancelled"
          BY <2>3, <3>8, <4>4 DEF Trace, Checks
        <5> QED BY <3>1, <5>1 DEF LateInv
      <4>5. CASE Last(nodes) # source /\ Len(nodes) % CheckEvery # 0
        <5>1. pc' = "trace" /\ nodes' = Append(nodes, parents[Last(nodes)])
          BY <2>3, <3>8, <4>1, <4>5 DEF Trace, Checks
        <5>2. Len(nodes') - 1 = Len(nodes)
          <6>1. TraceGoesUp
            BY <4>1 DEF VisitInv
          <6>2. Last(nodes) \in Nodes
            BY <4>1, <6>1 DEF TraceGoesUp, Reached, Last
          <6>3. parents[Last(nodes)] \in Nodes
            BY <6>2 DEF TypeOK
          <6> QED BY <4>1, <5>1, <6>3, AppendProperties
        <5>3. Len(nodes) % CheckEvery = ((Len(nodes) - 1) % CheckEvery) + 1
          <6> DEFINE k == Len(nodes)
          <6>1. k \in Int /\ k % CheckEvery # 0
            BY <4>1, <4>5
          <6> HIDE DEF k
          <6>2. k % CheckEvery = ((k - 1) % CheckEvery) + 1
            BY <1>1, <6>1, ModStep
          <6> QED BY <6>2 DEF k
        <5>4. late' <= (Len(nodes') - 1) % CheckEvery
          BY <1>1, <3>1, <4>1, <4>2, <5>2, <5>3
        <5> QED BY <3>1, <5>1, <5>4 DEF LateInv
      <4> QED BY <4>3, <4>4, <4>5
    <3> QED BY <1>3, <3>2, <3>3, <3>4, <3>5, <3>6, <3>7, <3>8 DEF Step
  <2> QED BY <1>1, <2>2, <2>3
<1> QED BY <1>2, <1>3, StepKinds

-----------------------------------------------------------------------------
(* The theorems.                                                           *)

Inv == TypeOK /\ (Traverses => SearchInv /\ VisitInv /\ LateInv)

\* Inv holds at first.
LEMMA InvInit == MCInit => Inv
  BY TypeInit, SearchInit, VisitInit, LateInit DEF Inv

\* Inv is inductive.
LEMMA InvStep == Inv /\ [MCNext]_allVars => Inv'
<1> SUFFICES ASSUME Inv, [MCNext]_allVars PROVE Inv'
  OBVIOUS
<1>1. CASE MCNext
  <2>1. TypeOK' /\ (Traverses' <=> Traverses)
    BY <1>1, TypeStep, Frame DEF Inv
  <2>2. Traverses => SearchInv' /\ VisitInv' /\ LateInv'
    BY <1>1, SearchStep, VisitStep, LateStep DEF Inv
  <2> QED BY <2>1, <2>2 DEF Inv
<1>2. CASE UNCHANGED allVars
  <2>1. /\ weight' = weight /\ source' = source /\ kernel' = kernel /\ pc' = pc /\ dist' = dist
        /\ queue' = queue /\ heap' = heap /\ parents' = parents /\ at' = at /\ nodes' = nodes
        /\ target' = target /\ visited' = visited /\ cancelled' = cancelled /\ late' = late
    BY <1>2 DEF allVars, vars, graph
  <2>2. TypeOK' = TypeOK /\ Traverses' = Traverses
    BY <2>1 DEF TypeOK, GraphOK, Expanding, Depth, Tracing, Fresh, Reached, Traverses, Arcs
  <2>3. SearchInv' = SearchInv
    BY <2>1 DEF SearchInv, NoneGreater, Estimates, HeapSmall, Searching, QueueOrder, HeapOrder, Closed, Waiting,
                Tried, Relaxed, Cost, TreeConsistent, Reached, Arcs, Neighbors
  <2>4. VisitInv' = VisitInv /\ LateInv' = LateInv
    BY <2>1 DEF VisitInv, PathFound, End, TraceGoesUp, Reached, Arcs, LateInv
  <2> QED BY <2>2, <2>3, <2>4 DEF Inv
<1> QED BY <1>1, <1>2

\* Inv holds in every state.
LEMMA InvAlways == MCSpec => []Inv
  BY InvInit, InvStep, PTL DEF MCSpec

\* A traversal of any graph that returns returns the shortest distances, and
\* the visitor is given a path from the source with its costs for every
\* reached node, once, in order (bfs, dijkstra_paths).
THEOREM ShortestPaths == MCSpec => []ShortestFound
<1>1. Inv => ShortestFound
  BY ShortestFromInv DEF Inv
<1> QED BY InvAlways, <1>1, PTL

\* The heap holds no entry twice and no more than one per arc and one, which
\* is what the call charges for it before it starts.
THEOREM HeapCharged == MCSpec => []HeapWithinCharge
<1>1. Inv => HeapWithinCharge
  <2> SUFFICES ASSUME Inv PROVE HeapWithinCharge
    OBVIOUS
  <2>1. CASE Traverses
    BY <2>1 DEF Inv, SearchInv, HeapSmall, HeapWithinCharge, BagToSet
  <2>2. CASE ~Traverses
    <3>1. heap = EmptyBag
      BY <2>2 DEF Inv, TypeOK, Fresh
    <3>2. BagToSet(heap) = {}
      BY <3>1 DEF BagToSet, EmptyBag, SetToBag
    <3> QED BY <3>2, FS_EmptySet, ArcsFinite DEF HeapWithinCharge
  <2> QED BY <2>1, <2>2
<1> QED BY InvAlways, <1>1, PTL

\* No more than CheckEvery steps and one follow a cancellation before the
\* kernel has left its loops, however long the rows and the paths are.
THEOREM CancellationHeard == MCSpec => []CancelIsHeard
<1>1. Inv => CancelIsHeard
  <2> SUFFICES ASSUME Inv, Running PROVE late <= CheckEvery + 1
    BY DEF CancelIsHeard
  <2>1. late \in Nat /\ CheckEvery \in Nat /\ CheckEvery > 0 /\ at.arc \in Nat /\ cancelled \in BOOLEAN /\ Len(nodes) \in Nat
    BY Constant, LenProperties DEF Inv, TypeOK, Spot
  <2>2. CASE Traverses
    <3>1. LateInv
      BY <2>2 DEF Inv
    <3>2. (at.arc - 1) % CheckEvery <= CheckEvery - 1 /\ (at.arc - 1) % CheckEvery \in Int
      BY <2>1, ModStep
    <3>3. (Len(nodes) - 1) % CheckEvery <= CheckEvery - 1 /\ (Len(nodes) - 1) % CheckEvery \in Int
      BY <2>1, ModStep
    <3>4. CASE ~cancelled
      BY <2>1, <3>1, <3>4 DEF LateInv
    <3>5. CASE cancelled /\ pc = "row"
      BY <2>1, <3>1, <3>2, <3>5 DEF LateInv
    <3>6. CASE cancelled /\ pc = "trace"
      BY <2>1, <3>1, <3>3, <3>6 DEF LateInv
    <3>7. CASE pc \in {"take", "paths"}
      BY <2>1, <3>1, <3>7 DEF LateInv
    <3> QED BY <2>1, <3>4, <3>5, <3>6, <3>7 DEF Running
  <2>3. CASE ~Traverses
    <3>1. late = 0
      BY <2>3 DEF Inv, TypeOK
    <3> QED BY <2>1, <3>1
  <2> QED BY <2>2, <2>3
<1> QED BY InvAlways, <1>1, PTL

-----------------------------------------------------------------------------
(* Functions on the naturals: what a recursive definition means.           *)

\* A function on the naturals may be defined by what follows each value.
Chain(D, G, x, n, s) ==
  /\ s \in [0 .. n -> D] /\ s[0] = x
  /\ \A k \in 0 .. n - 1 : s[k + 1] = G[s[k]]

\* A function can be applied any number of times.
LEMMA ChainExists ==
  ASSUME NEW D, NEW G \in [D -> D], NEW x \in D, NEW n \in Nat
  PROVE  \E s : Chain(D, G, x, n, s)
<1> DEFINE Some == {k \in Nat : \E s : Chain(D, G, x, k, s)}
<1>1. 0 \in Some
  <2> DEFINE s == [k \in 0 .. 0 |-> x]
  <2>1. Chain(D, G, x, 0, s)
    BY DEF Chain
  <2> QED BY <2>1
<1>2. ASSUME NEW k \in Nat, k \in Some PROVE k + 1 \in Some
  <2>1. PICK s : Chain(D, G, x, k, s)
    BY <1>2
  <2> DEFINE longer == [i \in 0 .. k + 1 |-> IF i = k + 1 THEN G[s[k]] ELSE s[i]]
  <2>2. s[k] \in D /\ G[s[k]] \in D
    BY <2>1 DEF Chain
  <2>3. longer \in [0 .. k + 1 -> D] /\ longer[0] = x
    BY <2>1, <2>2 DEF Chain
  <2>4. ASSUME NEW i \in 0 .. (k + 1) - 1 PROVE longer[i + 1] = G[longer[i]]
    <3>1. CASE i = k
      BY <3>1
    <3>2. CASE i # k
      <4>1. i \in 0 .. k - 1 /\ i + 1 # k + 1 /\ i + 1 \in 0 .. k + 1 /\ i \in 0 .. k + 1
        BY <3>2
      <4>2. longer[i + 1] = s[i + 1] /\ longer[i] = s[i]
        BY <4>1
      <4> QED BY <2>1, <4>1, <4>2 DEF Chain
    <3> QED BY <3>1, <3>2
  <2>5. Chain(D, G, x, k + 1, longer)
    <3> HIDE DEF longer
    <3> QED BY <2>3, <2>4 DEF Chain
  <2> QED BY <2>5
<1>3. Nat \subseteq Some
  <2> HIDE DEF Some
  <2> QED BY <1>1, <1>2, Induction
<1> QED BY <1>3

\* Applying it more often changes nothing of what came before.
LEMMA ChainsAgree ==
  ASSUME NEW D, NEW G, NEW x, NEW n \in Nat, NEW m \in Nat, m <= n,
         NEW s, Chain(D, G, x, n, s), NEW s2, Chain(D, G, x, m, s2)
  PROVE  s[m] = s2[m]
<1> DEFINE Some == {k \in Nat : k <= m => s[k] = s2[k]}
<1>1. 0 \in Some
  BY DEF Chain
<1>2. ASSUME NEW k \in Nat, k \in Some PROVE k + 1 \in Some
  <2> SUFFICES ASSUME k + 1 <= m PROVE s[k + 1] = s2[k + 1]
    OBVIOUS
  <2>1. k \in 0 .. m - 1 /\ k \in 0 .. n - 1 /\ k <= m
    OBVIOUS
  <2>2. s[k] = s2[k]
    BY <1>2, <2>1
  <2> QED BY <2>1, <2>2 DEF Chain
<1>3. m \in Some
  <2> HIDE DEF Some
  <2> QED BY <1>1, <1>2, Induction
<1> QED BY <1>3

Iterates(D, G, x, s) == s \in [Nat -> D] /\ s[0] = x /\ \A k \in Nat : s[k + 1] = G[s[k]]

\* All the iterates of a function, as one sequence.
LEMMA IterationExists ==
  ASSUME NEW D, NEW G, G \in [D -> D], NEW x, x \in D
  PROVE  \E s : Iterates(D, G, x, s)
<1> DEFINE Of(n) == CHOOSE s : Chain(D, G, x, n, s)
           t == [n \in Nat |-> Of(n)[n]]
<1>1. \A n \in Nat : Chain(D, G, x, n, Of(n))
  BY ChainExists
<1> HIDE DEF Of
<1>2. \A n \in Nat : Of(n)[n] \in D
  BY <1>1 DEF Chain
<1>3. t \in [Nat -> D] /\ t[0] = x
  BY <1>1, <1>2 DEF Chain
<1>4. ASSUME NEW k \in Nat PROVE t[k + 1] = G[t[k]]
  <2>1. k + 1 \in Nat /\ k <= k + 1 /\ k \in 0 .. (k + 1) - 1
    OBVIOUS
  <2>2. t[k + 1] = Of(k + 1)[k + 1] /\ t[k] = Of(k)[k]
    BY <2>1
  <2>3. Of(k + 1)[k + 1] = G[Of(k + 1)[k]]
    BY <1>1, <2>1 DEF Chain
  <2>4. Of(k + 1)[k] = Of(k)[k]
    BY <1>1, <2>1, ChainsAgree
  <2> QED BY <2>2, <2>3, <2>4
<1> HIDE DEF t
<1> QED BY <1>3, <1>4 DEF Iterates

-----------------------------------------------------------------------------
(* Forests whose parents are not above their children.                     *)

Descends(F) == F \in [Nodes -> Nodes] /\ \A v \in Nodes : F[v] <= v

\* Ancestor of k steps: what its recursive function computes.
LEMMA AncestorStep ==
  ASSUME NEW F \in [Nodes -> Nodes], NEW x \in Nodes
  PROVE  /\ C!Ancestor(F, x)[0] = x
         /\ \A k \in Nat : C!Ancestor(F, x)[k] \in Nodes /\ C!Ancestor(F, x)[k + 1] = F[C!Ancestor(F, x)[k]]
<1> DEFINE Unfolded(up) == [k \in Nat |-> IF k = 0 THEN x ELSE F[up[k - 1]]]
           up == CHOOSE up : up = Unfolded(up)
<1>1. PICK s : Iterates(Nodes, F, x, s)
  BY IterationExists
<1>2. s = Unfolded(s)
  <2>1. ASSUME NEW k \in Nat PROVE s[k] = Unfolded(s)[k]
    <3>1. CASE k = 0
      BY <1>1, <3>1 DEF Iterates
    <3>2. CASE k # 0
      <4>1. k - 1 \in Nat /\ (k - 1) + 1 = k
        BY <3>2
      <4> QED BY <1>1, <3>2, <4>1 DEF Iterates
    <3> QED BY <3>1, <3>2
  <2>2. DOMAIN Unfolded(s) = Nat /\ Unfolded(s) = [k \in Nat |-> Unfolded(s)[k]]
    OBVIOUS
  <2> HIDE DEF Unfolded
  <2> QED BY <1>1, <2>1, <2>2 DEF Iterates
<1>3. up = Unfolded(up)
  <2> HIDE DEF Unfolded
  <2> QED BY <1>2
<1>4. C!Ancestor(F, x) = up
  BY DEF C!Ancestor
<1> HIDE DEF up
<1>5. up[0] = x /\ \A k \in Nat : up[k + 1] = F[up[k]]
  <2>1. up[0] = Unfolded(up)[0] /\ Unfolded(up)[0] = x
    BY <1>3
  <2>2. ASSUME NEW k \in Nat PROVE up[k + 1] = F[up[k]]
    <3>1. k + 1 \in Nat /\ k + 1 # 0 /\ (k + 1) - 1 = k
      OBVIOUS
    <3>2. up[k + 1] = Unfolded(up)[k + 1]
      BY <1>3
    <3> QED BY <3>1, <3>2
  <2> QED BY <2>1, <2>2
<1> DEFINE Some == {k \in Nat : up[k] \in Nodes}
<1>6. 0 \in Some /\ \A k \in Nat : k \in Some => k + 1 \in Some
  BY <1>5
<1>7. \A k \in Nat : up[k] \in Nodes
  <2>1. Nat \subseteq Some
    <3> HIDE DEF Some
    <3> QED BY <1>6, Induction
  <2> QED BY <2>1
<1> QED BY <1>4, <1>5, <1>7

\* Ancestors fall until a root is met, so after as many steps as nodes there
\* is one.
LEMMA AncestorFalls ==
  ASSUME NEW F, Descends(F), NEW x \in Nodes, NEW k \in Nat
  PROVE  /\ C!Ancestor(F, x)[k] <= x
         /\ C!Ancestor(F, x)[k] <= x - k \/ F[C!Ancestor(F, x)[k]] = C!Ancestor(F, x)[k]
<1> DEFINE up == C!Ancestor(F, x)
           Some == {n \in Nat : up[n] <= x /\ (up[n] <= x - n \/ F[up[n]] = up[n])}
<1>1. F \in [Nodes -> Nodes] /\ \A y \in Nodes : F[y] <= y /\ F[y] \in Nat /\ y \in Nat
  BY Constant DEF Descends
<1>2. up[0] = x /\ \A n \in Nat : up[n] \in Nodes /\ up[n + 1] = F[up[n]]
  BY <1>1, AncestorStep
<1> HIDE DEF up
<1>3. 0 \in Some
  <2>1. x \in Nat
    BY <1>1
  <2> QED BY <1>2, <2>1
<1>4. ASSUME NEW n \in Nat, n \in Some PROVE n + 1 \in Some
  <2>1. up[n] \in Nodes /\ up[n + 1] = F[up[n]] /\ up[n] <= x /\ (up[n] <= x - n \/ F[up[n]] = up[n])
    BY <1>2, <1>4
  <2>2. up[n] \in Nat /\ F[up[n]] \in Nat /\ F[up[n]] <= up[n] /\ x \in Nat
    BY <1>1, <2>1
  <2>3. CASE F[up[n]] = up[n]
    BY <2>1, <2>3
  <2>4. CASE F[up[n]] # up[n]
    BY <2>1, <2>2, <2>4
  <2> QED BY <2>3, <2>4
<1>5. Nat \subseteq Some
  <2> HIDE DEF Some
  <2> QED BY <1>3, <1>4, Induction
<1> QED BY <1>5 DEF up

\* Root finds the end of the chain of parents, whoever it starts from.
LEMMA RootFound ==
  ASSUME NEW F, Descends(F), NEW x \in Nodes
  PROVE  /\ C!Root(F, x) \in Nodes /\ C!Root(F, x) <= x /\ F[C!Root(F, x)] = C!Root(F, x)
         /\ F[x] = x => C!Root(F, x) = x
         /\ F[x] \in Nodes /\ C!Root(F, F[x]) = C!Root(F, x)
<1> DEFINE up == C!Ancestor(F, x)
           upper == C!Ancestor(F, F[x])
<1>1. F \in [Nodes -> Nodes] /\ F[x] \in Nodes /\ x \in Nat /\ x < NodeCount /\ NodeCount \in Nat
  BY Constant DEF Descends
<1>2. up[0] = x /\ \A n \in Nat : up[n] \in Nodes /\ up[n + 1] = F[up[n]]
  BY <1>1, AncestorStep
<1>3. upper[0] = F[x] /\ \A n \in Nat : upper[n] \in Nodes /\ upper[n + 1] = F[upper[n]]
  BY <1>1, AncestorStep
<1>4. up[NodeCount] <= x /\ (up[NodeCount] <= x - NodeCount \/ F[up[NodeCount]] = up[NodeCount])
  BY <1>1, AncestorFalls
<1>5. C!Root(F, x) = up[NodeCount] /\ C!Root(F, F[x]) = upper[NodeCount]
  BY DEF C!Root
<1> HIDE DEF up, upper
<1>6. up[NodeCount] \in Nat /\ up[NodeCount] \in Nodes
  BY <1>1, <1>2, Constant
<1>7. F[up[NodeCount]] = up[NodeCount]
  BY <1>1, <1>4, <1>6
<1>8. F[x] = x => up[NodeCount] = x
  <2> SUFFICES ASSUME F[x] = x PROVE up[NodeCount] = x
    OBVIOUS
  <2> DEFINE Some == {n \in Nat : up[n] = x}
  <2>1. 0 \in Some /\ \A n \in Nat : n \in Some => n + 1 \in Some
    BY <1>2
  <2>2. Nat \subseteq Some
    <3> HIDE DEF Some
    <3> QED BY <2>1, Induction
  <2> QED BY <1>1, <2>2
<1>9. upper[NodeCount] = up[NodeCount]
  <2> DEFINE Some == {n \in Nat : upper[n] = up[n + 1]}
  <2>1. 0 \in Some
    BY <1>2, <1>3
  <2>2. ASSUME NEW n \in Nat, n \in Some PROVE n + 1 \in Some
    <3>1. n + 1 \in Nat /\ upper[n + 1] = F[upper[n]] /\ up[(n + 1) + 1] = F[up[n + 1]]
      BY <1>2, <1>3
    <3> QED BY <2>2, <3>1
  <2>3. Nat \subseteq Some
    <3> HIDE DEF Some
    <3> QED BY <2>1, <2>2, Induction
  <2>4. upper[NodeCount] = up[NodeCount + 1]
    BY <1>1, <2>3
  <2> QED BY <1>1, <1>2, <1>7, <2>4
<1> QED BY <1>1, <1>4, <1>5, <1>6, <1>7, <1>8, <1>9

\* What is the root of every node's parent as well is its root.
LEMMA RootUnique ==
  ASSUME NEW F, Descends(F), NEW R,
         \A y \in Nodes : (F[y] = y => R[y] = y) /\ R[F[y]] = R[y], NEW x \in Nodes
  PROVE  C!Root(F, x) = R[x]
<1> DEFINE up == C!Ancestor(F, x)
           Some == {n \in Nat : R[up[n]] = R[x]}
<1>1. F \in [Nodes -> Nodes] /\ NodeCount \in Nat
  BY Constant DEF Descends
<1>2. up[0] = x /\ \A n \in Nat : up[n] \in Nodes /\ up[n + 1] = F[up[n]]
  BY <1>1, AncestorStep
<1>3. C!Root(F, x) = up[NodeCount]
  BY DEF C!Root
<1> HIDE DEF up
<1>4. 0 \in Some /\ \A n \in Nat : n \in Some => n + 1 \in Some
  BY <1>2
<1>5. Nat \subseteq Some
  <2> HIDE DEF Some
  <2> QED BY <1>4, Induction
<1>6. R[up[NodeCount]] = R[x]
  BY <1>1, <1>5
<1> QED BY <1>3, <1>6, RootFound

\* Halving moves nodes below their grandparents and leaves every root.
LEMMA HalvedKeeps ==
  ASSUME NEW F, Descends(F), NEW x \in Nodes
  PROVE  /\ Descends(C!Halved(F, x))
         /\ \A y \in Nodes : C!Root(C!Halved(F, x), y) = C!Root(F, y)
         /\ \A y \in Nodes : F[y] = C!Root(F, y) => C!Halved(F, x)[y] = F[y]
<1> DEFINE H == C!Halved(F, x)
           R == [y \in Nodes |-> C!Root(F, y)]
<1>1. F \in [Nodes -> Nodes] /\ \A y \in Nodes : F[y] <= y /\ F[y] \in Nodes
  BY DEF Descends
<1>2. H \in [Nodes -> Nodes] /\ \A y \in Nodes : H[y] = F[y] \/ H[y] = F[F[y]]
  BY <1>1 DEF C!Halved, C!Nodes, Nodes
<1> HIDE DEF H
<1>3. ASSUME NEW y \in Nodes PROVE H[y] <= y /\ (H[y] = y => F[y] = y)
  <2>1. y \in Nat /\ F[y] \in Nat /\ F[F[y]] \in Nat /\ F[y] <= y /\ F[F[y]] <= F[y]
    BY <1>1, Constant
  <2> QED BY <1>2, <2>1
<1>4. Descends(H)
  BY <1>2, <1>3 DEF Descends
<1>5. ASSUME NEW y \in Nodes PROVE (H[y] = y => R[y] = y) /\ R[H[y]] = R[y]
  <2>1. H[y] \in Nodes /\ F[y] \in Nodes /\ F[F[y]] \in Nodes
    BY <1>1, <1>2
  <2>2. C!Root(F, F[y]) = C!Root(F, y) /\ C!Root(F, F[F[y]]) = C!Root(F, F[y])
    BY <2>1, RootFound
  <2>3. C!Root(F, H[y]) = C!Root(F, y)
    BY <1>2, <2>2
  <2>4. H[y] = y => C!Root(F, y) = y
    BY <1>3, RootFound
  <2> QED BY <2>1, <2>3, <2>4
<1>6. \A y \in Nodes : C!Root(H, y) = R[y]
  <2> HIDE DEF R
  <2> QED BY <1>4, <1>5, RootUnique
<1>7. ASSUME NEW y \in Nodes, F[y] = C!Root(F, y) PROVE H[y] = F[y]
  BY <1>2, <1>7, RootFound
<1> QED BY <1>4, <1>6, <1>7 DEF H

\* Linking two roots gives both trees the smaller.
LEMMA LinkJoins ==
  ASSUME NEW F, Descends(F), NEW a \in Nodes, NEW b \in Nodes, F[a] = a, F[b] = b
  PROVE  /\ Descends(C!Link(F, a, b))
         /\ \A y \in Nodes : C!Root(C!Link(F, a, b), y) =
              IF C!Root(F, y) \in {a, b} THEN IF a < b THEN a ELSE b ELSE C!Root(F, y)
<1> DEFINE lo == IF a < b THEN a ELSE b
           hi == IF a < b THEN b ELSE a
           L == C!Link(F, a, b)
           R == [y \in Nodes |-> IF C!Root(F, y) \in {a, b} THEN lo ELSE C!Root(F, y)]
<1>1. F \in [Nodes -> Nodes] /\ \A y \in Nodes : F[y] <= y /\ F[y] \in Nodes
  BY DEF Descends
<1>2. lo \in Nodes /\ hi \in Nodes /\ lo <= hi /\ {a, b} = {lo, hi} /\ F[lo] = lo /\ F[hi] = hi
  BY Constant
<1>3. L = [F EXCEPT ![hi] = lo]
  BY DEF C!Link
<1> HIDE DEF L, lo, hi
<1>4. L \in [Nodes -> Nodes] /\ L[hi] = lo /\ \A y \in Nodes : y # hi => L[y] = F[y]
  BY <1>1, <1>2, <1>3
<1>5. Descends(L)
  BY <1>1, <1>2, <1>4 DEF Descends
<1>6. C!Root(F, lo) = lo /\ C!Root(F, hi) = hi
  BY <1>2, RootFound
<1>7. ASSUME NEW y \in Nodes PROVE (L[y] = y => R[y] = y) /\ R[L[y]] = R[y]
  <2>1. CASE y = hi
    <3>1. R[y] = lo /\ L[y] = lo /\ R[lo] = lo
      BY <1>2, <1>4, <1>6, <2>1
    <3> QED BY <3>1
  <2>2. CASE y # hi
    <3>1. L[y] = F[y] /\ F[y] \in Nodes
      BY <1>1, <1>4, <2>2
    <3>2. C!Root(F, F[y]) = C!Root(F, y)
      BY RootFound
    <3>3. R[F[y]] = R[y]
      BY <3>1, <3>2
    <3>4. F[y] = y => C!Root(F, y) = y
      BY RootFound
    <3>5. F[y] = y => R[y] = y
      BY <1>2, <2>2, <3>4
    <3> QED BY <3>1, <3>3, <3>5
  <2> QED BY <2>1, <2>2
<1>8. \A y \in Nodes : C!Root(L, y) = R[y]
  <2> HIDE DEF R
  <2> QED BY <1>5, <1>7, RootUnique
<1> QED BY <1>5, <1>8 DEF L, lo

Stable(X, A) == \A a \in A : a[1] \in X => a[2] \in X

\* One round adds the targets of arcs, and nothing once the set is stable.
LEMMA SpreadGrows ==
  ASSUME NEW A, A \subseteq Nodes \X Nodes, NEW S, S \subseteq Nodes
  PROVE  /\ S \subseteq Spread(S, A) /\ Spread(S, A) \subseteq Nodes
         /\ Stable(S, A) => Spread(S, A) = S
         /\ ~Stable(S, A) => Spread(S, A) # S
         /\ \A X : S \subseteq X /\ Stable(X, A) => Spread(S, A) \subseteq X
  BY DEF Spread, Stable

\* Reach is the last of as many rounds as there are nodes.
LEMMA ReachIterates ==
  ASSUME NEW A, A \subseteq Nodes \X Nodes, NEW x \in Nodes
  PROVE  \E s : /\ s \in [Nat -> SUBSET Nodes] /\ s[0] = {x}
                /\ \A k \in Nat : s[k + 1] = Spread(s[k], A)
                /\ Reach(x, A) = s[NodeCount]
<1> DEFINE G == [S \in SUBSET Nodes |-> Spread(S, A)]
           Unfolded(near) == [k \in Nat |-> IF k = 0 THEN {x} ELSE Spread(near[k - 1], A)]
           near == CHOOSE near : near = Unfolded(near)
<1>1. G \in [SUBSET Nodes -> SUBSET Nodes] /\ {x} \in SUBSET Nodes
  BY SpreadGrows
<1>2. PICK s : Iterates(SUBSET Nodes, G, {x}, s)
  <2> HIDE DEF G
  <2> QED BY <1>1, IterationExists
<1>3. s \in [Nat -> SUBSET Nodes] /\ s[0] = {x} /\ \A k \in Nat : s[k + 1] = Spread(s[k], A)
  BY <1>2 DEF Iterates
<1>4. s = Unfolded(s)
  <2>1. ASSUME NEW k \in Nat PROVE s[k] = Unfolded(s)[k]
    <3>1. CASE k = 0
      BY <1>3, <3>1
    <3>2. CASE k # 0
      <4>1. k - 1 \in Nat /\ (k - 1) + 1 = k
        BY <3>2
      <4> QED BY <1>3, <3>2, <4>1
    <3> QED BY <3>1, <3>2
  <2>2. DOMAIN Unfolded(s) = Nat /\ Unfolded(s) = [k \in Nat |-> Unfolded(s)[k]]
    OBVIOUS
  <2> HIDE DEF Unfolded
  <2> QED BY <1>3, <2>1, <2>2
<1>5. near = Unfolded(near)
  <2> HIDE DEF Unfolded
  <2> QED BY <1>4
<1>6. Reach(x, A) = near[NodeCount]
  BY DEF Reach
<1> HIDE DEF near
<1>7. near[0] = {x} /\ \A k \in Nat : near[k + 1] = Spread(near[k], A)
  <2>1. near[0] = Unfolded(near)[0] /\ Unfolded(near)[0] = {x}
    BY <1>5
  <2>2. ASSUME NEW k \in Nat PROVE near[k + 1] = Spread(near[k], A)
    <3>1. k + 1 \in Nat /\ k + 1 # 0 /\ (k + 1) - 1 = k
      OBVIOUS
    <3>2. near[k + 1] = Unfolded(near)[k + 1]
      BY <1>5
    <3> QED BY <3>1, <3>2
  <2> QED BY <2>1, <2>2
<1> DEFINE Some == {k \in Nat : near[k] = s[k]}
<1>8. 0 \in Some /\ \A k \in Nat : k \in Some => k + 1 \in Some
  <2>1. 0 \in Some
    BY <1>3, <1>7
  <2>2. ASSUME NEW k \in Nat, k \in Some PROVE k + 1 \in Some
    <3>1. near[k] = s[k] /\ near[k + 1] = Spread(near[k], A) /\ s[k + 1] = Spread(s[k], A)
      BY <1>3, <1>7, <2>2
    <3>2. near[k + 1] = s[k + 1]
      BY <3>1
    <3> QED BY <3>2
  <2> HIDE DEF Some
  <2> QED BY <2>1, <2>2
<1>9. Nat \subseteq Some
  <2> HIDE DEF Some
  <2> QED BY <1>8, Induction
<1>10. near[NodeCount] = s[NodeCount]
  BY <1>9, Constant
<1> QED BY <1>3, <1>6, <1>10

\* What a node reaches is the least set with it that no arc leaves.
LEMMA ReachLeast ==
  ASSUME NEW A, A \subseteq Nodes \X Nodes, NEW x \in Nodes
  PROVE  /\ Reach(x, A) \subseteq Nodes /\ x \in Reach(x, A) /\ Stable(Reach(x, A), A)
         /\ \A X : x \in X /\ Stable(X, A) => Reach(x, A) \subseteq X
<1>1. PICK s : /\ s \in [Nat -> SUBSET Nodes] /\ s[0] = {x}
               /\ \A k \in Nat : s[k + 1] = Spread(s[k], A)
               /\ Reach(x, A) = s[NodeCount]
  BY ReachIterates
<1>2. \A k \in Nat : s[k] \subseteq Nodes /\ s[k] \subseteq s[k + 1]
  BY <1>1, SpreadGrows
<1>3. \A k \in Nat : x \in s[k]
  <2> DEFINE Some == {k \in Nat : x \in s[k]}
  <2>1. 0 \in Some /\ \A k \in Nat : k \in Some => k + 1 \in Some
    BY <1>1, <1>2
  <2>2. Nat \subseteq Some
    <3> HIDE DEF Some
    <3> QED BY <2>1, Induction
  <2> QED BY <2>2
<1>4. ASSUME NEW X, x \in X, Stable(X, A) PROVE \A k \in Nat : s[k] \subseteq X
  <2> DEFINE Some == {k \in Nat : s[k] \subseteq X}
  <2>1. 0 \in Some
    BY <1>1, <1>4
  <2>2. ASSUME NEW k \in Nat, k \in Some PROVE k + 1 \in Some
    <3>1. s[k] \subseteq X /\ s[k] \subseteq Nodes /\ s[k + 1] = Spread(s[k], A)
      BY <1>1, <1>2, <2>2
    <3> QED BY <1>4, <3>1, SpreadGrows
  <2>3. Nat \subseteq Some
    <3> HIDE DEF Some
    <3> QED BY <2>1, <2>2, Induction
  <2> QED BY <2>3
<1> DEFINE Grown == {k \in Nat : Stable(s[k], A) \/ Cardinality(s[k]) >= k + 1}
<1>5. \A k \in Nat : IsFiniteSet(s[k]) /\ Cardinality(s[k]) \in Nat
  BY <1>2, NodesFinite, FS_Subset, FS_CardinalityType
<1>6. 0 \in Grown
  <2>1. Cardinality(s[0]) = 1
    BY <1>1, FS_Singleton
  <2> QED BY <2>1
<1>7. ASSUME NEW k \in Nat, k \in Grown PROVE k + 1 \in Grown
  <2>1. s[k + 1] = Spread(s[k], A) /\ s[k] \subseteq Nodes /\ s[k] \subseteq s[k + 1]
    BY <1>1, <1>2
  <2>2. CASE Stable(s[k], A)
    <3>1. s[k + 1] = s[k]
      BY <2>1, <2>2, SpreadGrows
    <3> QED BY <2>2, <3>1
  <2>3. CASE ~Stable(s[k], A)
    <3>1. s[k + 1] # s[k]
      BY <2>1, <2>3, SpreadGrows
    <3>2. k + 1 \in Nat
      OBVIOUS
    <3>3. IsFiniteSet(s[k + 1]) /\ s[k] \in SUBSET s[k + 1]
      BY <1>5, <2>1, <3>2
    <3>4. Cardinality(s[k]) < Cardinality(s[k + 1])
      <4>1. Cardinality(s[k]) <= Cardinality(s[k + 1]) /\ (Cardinality(s[k]) = Cardinality(s[k + 1]) => s[k] = s[k + 1])
        BY <3>3, FS_Subset
      <4> QED BY <1>5, <3>1, <3>2, <4>1
    <3>5. Cardinality(s[k]) >= k + 1
      BY <1>7, <2>3
    <3>6. Cardinality(s[k + 1]) >= (k + 1) + 1
      BY <1>5, <3>2, <3>4, <3>5
    <3> QED BY <3>2, <3>6
  <2> QED BY <2>2, <2>3
<1>8. NodeCount \in Grown
  <2> HIDE DEF Grown
  <2> QED BY <1>6, <1>7, Induction, Constant
<1>9. Stable(s[NodeCount], A)
  <2>1. s[NodeCount] \in SUBSET Nodes /\ NodeCount \in Nat
    BY <1>2, Constant
  <2>2. Cardinality(s[NodeCount]) <= NodeCount /\ Cardinality(s[NodeCount]) \in Nat
    BY <1>5, <2>1, NodesFinite, FS_Subset
  <2> QED BY <1>8, <2>1, <2>2
<1> QED BY <1>1, <1>2, <1>3, <1>4, <1>9, Constant

\* Who is reached from a reached node is reached.
LEMMA ReachJoins ==
  ASSUME NEW A, A \subseteq Nodes \X Nodes, NEW x \in Nodes, NEW y \in Reach(x, A)
  PROVE  y \in Nodes /\ Reach(y, A) \subseteq Reach(x, A)
<1>1. y \in Nodes /\ Stable(Reach(x, A), A)
  BY ReachLeast
<1> QED BY <1>1, ReachLeast

\* More arcs reach at least as much.
LEMMA ReachWidens ==
  ASSUME NEW A, NEW B, A \subseteq B, B \subseteq Nodes \X Nodes, NEW x \in Nodes
  PROVE  Reach(x, A) \subseteq Reach(x, B)
<1>1. Stable(Reach(x, B), A) /\ x \in Reach(x, B)
  BY ReachLeast DEF Stable
<1> QED BY <1>1, ReachLeast

\* Arcs taken both ways: a set is stable when no arc leaves or enters it.
LEMMA BothEnds ==
  ASSUME NEW A, A \subseteq Nodes \X Nodes
  PROVE  /\ Both(A) \subseteq Nodes \X Nodes
         /\ \A a \in A : <<a[1], a[2]>> \in Both(A) /\ <<a[2], a[1]>> \in Both(A)
         /\ \A a \in Both(A) : <<a[2], a[1]>> \in Both(A)
         /\ \A X : Stable(X, Both(A)) <=> \A a \in A : a[1] \in X <=> a[2] \in X
<1>1. \A a \in A : a[1] \in Nodes /\ a[2] \in Nodes /\ a = <<a[1], a[2]>>
  OBVIOUS
<1>2. Both(A) \subseteq Nodes \X Nodes
  BY DEF Both
<1>3. \A a \in A : <<a[1], a[2]>> \in Both(A) /\ <<a[2], a[1]>> \in Both(A)
  BY <1>1 DEF Both
<1>4. ASSUME NEW a \in Both(A) PROVE <<a[2], a[1]>> \in Both(A)
  <2>1. CASE a \in A
    BY <1>3, <2>1
  <2>2. CASE a \notin A
    <3>1. PICK b \in A : a = <<b[2], b[1]>>
      BY <2>2 DEF Both
    <3> QED BY <1>3, <3>1
  <2> QED BY <2>1, <2>2
<1>5. ASSUME NEW X PROVE Stable(X, Both(A)) <=> \A a \in A : a[1] \in X <=> a[2] \in X
  <2>1. ASSUME Stable(X, Both(A)), NEW a \in A PROVE a[1] \in X <=> a[2] \in X
    <3>1. <<a[1], a[2]>> \in Both(A) /\ <<a[2], a[1]>> \in Both(A)
      BY <1>3
    <3> QED BY <2>1, <3>1 DEF Stable
  <2>2. ASSUME \A a \in A : a[1] \in X <=> a[2] \in X, NEW a \in Both(A), a[1] \in X PROVE a[2] \in X
    <3>1. CASE a \in A
      BY <2>2, <3>1
    <3>2. CASE a \notin A
      <4>1. PICK b \in A : a = <<b[2], b[1]>>
        BY <3>2 DEF Both
      <4> QED BY <2>2, <4>1
    <3> QED BY <3>1, <3>2
  <2> QED BY <2>1, <2>2 DEF Stable
<1> QED BY <1>2, <1>3, <1>4, <1>5

\* An undirected path can be walked back.
LEMMA ReachBack ==
  ASSUME NEW A, A \subseteq Nodes \X Nodes, NEW x \in Nodes, NEW y \in Reach(x, Both(A))
  PROVE  x \in Reach(y, Both(A))
<1>1. y \in Nodes /\ Both(A) \subseteq Nodes \X Nodes
  BY BothEnds, ReachLeast
<1>2. \A z \in Nodes : \A a \in A : a[1] \in Reach(z, Both(A)) <=> a[2] \in Reach(z, Both(A))
  BY <1>1, BothEnds, ReachLeast
<1> DEFINE X == {z \in Nodes : x \in Reach(z, Both(A))}
<1>3. x \in X
  BY <1>1, ReachLeast
<1>4. ASSUME NEW z1 \in Nodes, NEW z2 \in Nodes, <<z1, z2>> \in Both(A), z1 \in X PROVE z2 \in X
  <2>1. <<z2, z1>> \in Both(A)
    BY <1>4, BothEnds
  <2>2. z1 \in Reach(z2, Both(A))
    <3>1. z2 \in Reach(z2, Both(A)) /\ Stable(Reach(z2, Both(A)), Both(A))
      BY <1>1, ReachLeast
    <3> QED BY <2>1, <3>1 DEF Stable
  <2>3. Reach(z1, Both(A)) \subseteq Reach(z2, Both(A))
    BY <1>1, <2>2, ReachJoins
  <2> QED BY <1>4, <2>3
<1>5. Stable(X, Both(A))
  <2> SUFFICES ASSUME NEW a \in Both(A), a[1] \in X PROVE a[2] \in X
    BY DEF Stable
  <2>1. a = <<a[1], a[2]>> /\ a[1] \in Nodes /\ a[2] \in Nodes
    BY <1>1
  <2> HIDE DEF X
  <2> QED BY <1>4, <2>1
<1>6. y \in X
  <2> HIDE DEF X
  <2> QED BY <1>1, <1>3, <1>5, ReachLeast
<1> QED BY <1>6

\* The roots of a forest tell what a set of arcs connects.
Connects(F, A) ==
  /\ \A a \in A : C!Root(F, a[1]) = C!Root(F, a[2])
  /\ \A y \in Nodes : C!Root(F, y) \in Reach(y, Both(A))

\* Least is the least node of a set.
LEMMA LeastIs ==
  ASSUME NEW S, S \subseteq Nodes, NEW m \in S, \A y \in S : m <= y
  PROVE  C!Least(S) = m
<1>1. \A y \in S : y \in Nat
  BY Constant
<1>2. C!Least(S) \in S /\ \A y \in S : C!Least(S) <= y
  BY DEF C!Least
<1> HIDE DEF C!Least
<1>3. C!Least(S) <= m /\ m <= C!Least(S) /\ C!Least(S) \in Nat /\ m \in Nat
  BY <1>1, <1>2
<1> QED BY <1>3

\* In a forest that connects, the root of a node is the least of its
\* component.
LEMMA ConnectsLeast ==
  ASSUME NEW F, Descends(F), NEW A, A \subseteq Nodes \X Nodes, Connects(F, A), NEW x \in Nodes
  PROVE  C!Root(F, x) = C!Least(WeakComponent(x, A))
<1> DEFINE X == {y \in Nodes : C!Root(F, y) = C!Root(F, x)}
<1>1. Both(A) \subseteq Nodes \X Nodes
  BY BothEnds
<1>2. \A a \in A : a[1] \in Nodes /\ a[2] \in Nodes
  OBVIOUS
<1>3. Stable(X, Both(A))
  <2>1. \A a \in A : a[1] \in X <=> a[2] \in X
    BY <1>2 DEF Connects
  <2> HIDE DEF X
  <2> QED BY <2>1, BothEnds
<1>4. Reach(x, Both(A)) \subseteq X
  <2>1. x \in X
    OBVIOUS
  <2> HIDE DEF X
  <2> QED BY <1>1, <1>3, <2>1, ReachLeast
<1>5. \A y \in Reach(x, Both(A)) : C!Root(F, x) <= y
  <2> SUFFICES ASSUME NEW y \in Reach(x, Both(A)) PROVE C!Root(F, x) <= y
    OBVIOUS
  <2>1. y \in Nodes /\ C!Root(F, y) = C!Root(F, x)
    BY <1>4
  <2> QED BY <2>1, RootFound
<1>6. Reach(x, Both(A)) \subseteq Nodes /\ C!Root(F, x) \in Reach(x, Both(A))
  BY <1>1, ReachLeast DEF Connects
<1> QED BY <1>5, <1>6, LeastIs DEF WeakComponent

\* Halving a path changes no root.
LEMMA ConnectsHalved ==
  ASSUME NEW F, Descends(F), NEW A, A \subseteq Nodes \X Nodes, Connects(F, A), NEW x \in Nodes
  PROVE  Connects(C!Halved(F, x), A)
<1>1. \A a \in A : a[1] \in Nodes /\ a[2] \in Nodes
  OBVIOUS
<1>2. \A y \in Nodes : C!Root(C!Halved(F, x), y) = C!Root(F, y)
  BY HalvedKeeps
<1> QED BY <1>1, <1>2 DEF Connects

\* Linking two roots adds the arc between their trees, and no other
\* connection.
LEMMA ConnectsMore ==
  ASSUME NEW F, Descends(F), NEW A, A \subseteq Nodes \X Nodes, Connects(F, A),
         NEW x \in Nodes, NEW y \in Nodes
  PROVE  LET L == C!Link(F, C!Root(F, x), C!Root(F, y))
         IN Descends(L) /\ Connects(L, A \cup {<<x, y>>})
<1> DEFINE a == C!Root(F, x)
           b == C!Root(F, y)
           lo == IF a < b THEN a ELSE b
           L == C!Link(F, a, b)
           B == A \cup {<<x, y>>}
<1>1. a \in Nodes /\ b \in Nodes /\ F[a] = a /\ F[b] = b
  BY RootFound
<1>2. lo \in {a, b}
  OBVIOUS
<1>3. /\ Descends(L)
      /\ \A z \in Nodes : C!Root(L, z) = IF C!Root(F, z) \in {a, b} THEN lo ELSE C!Root(F, z)
  <2> HIDE DEF a, b
  <2> QED BY <1>1, LinkJoins
<1>4. B \subseteq Nodes \X Nodes /\ Both(B) \subseteq Nodes \X Nodes /\ Both(A) \subseteq Both(B)
  <2>1. B \subseteq Nodes \X Nodes /\ A \subseteq B
    OBVIOUS
  <2> HIDE DEF B
  <2> QED BY <2>1, BothEnds DEF Both
<1>5. \A z \in Nodes : Reach(z, Both(A)) \subseteq Reach(z, Both(B))
  BY <1>4, ReachWidens
<1>6. y \in Reach(x, Both(B)) /\ x \in Reach(y, Both(B))
  <2>1. <<x, y>> \in Both(B)
    <3>1. <<x, y>> \in B
      OBVIOUS
    <3> HIDE DEF B
    <3> QED BY <3>1 DEF Both
  <2>2. x \in Reach(x, Both(B)) /\ Stable(Reach(x, Both(B)), Both(B))
    BY <1>4, ReachLeast
  <2>3. y \in Reach(x, Both(B))
    BY <2>1, <2>2 DEF Stable
  <2> HIDE DEF B
  <2> QED BY <1>4, <2>3, ReachBack
<1>7. ASSUME NEW z \in Nodes, C!Root(F, z) \in {a, b} PROVE a \in Reach(z, Both(B)) /\ b \in Reach(z, Both(B))
  <2> HIDE DEF B
  <2>1. \A w \in Nodes : C!Root(F, w) \in Reach(w, Both(B)) /\ C!Root(F, w) \in Nodes /\ w \in Reach(C!Root(F, w), Both(B))
    <3>1. ASSUME NEW w \in Nodes PROVE C!Root(F, w) \in Reach(w, Both(B)) /\ C!Root(F, w) \in Nodes
      BY <1>5, RootFound DEF Connects
    <3> QED BY <1>4, <3>1, ReachBack
  <2>2. \A v \in Nodes : \A w \in Reach(v, Both(B)) : w \in Nodes /\ Reach(w, Both(B)) \subseteq Reach(v, Both(B))
    BY <1>4, ReachJoins
  <2>3. a \in Reach(x, Both(B)) /\ b \in Reach(x, Both(B)) /\ a \in Reach(y, Both(B)) /\ b \in Reach(y, Both(B))
    BY <1>6, <2>1, <2>2
  <2>4. CASE C!Root(F, z) = a
    <3>1. a \in Reach(z, Both(B)) /\ x \in Reach(a, Both(B))
      BY <2>1, <2>4
    <3>2. x \in Reach(z, Both(B))
      BY <2>2, <3>1
    <3> QED BY <2>2, <2>3, <3>2
  <2>5. CASE C!Root(F, z) = b
    <3>1. b \in Reach(z, Both(B)) /\ y \in Reach(b, Both(B))
      BY <2>1, <2>5
    <3>2. y \in Reach(z, Both(B))
      BY <2>2, <3>1
    <3> QED BY <2>2, <2>3, <3>2
  <2> QED BY <1>7, <2>4, <2>5
<1>8. ASSUME NEW z \in Nodes PROVE C!Root(L, z) \in Reach(z, Both(B))
  <2>1. CASE C!Root(F, z) \in {a, b}
    <3>1. C!Root(L, z) = lo
      BY <1>3, <2>1
    <3> HIDE DEF lo, L, B
    <3> QED BY <1>2, <1>7, <2>1, <3>1
  <2>2. CASE C!Root(F, z) \notin {a, b}
    <3>1. C!Root(L, z) = C!Root(F, z)
      BY <1>3, <2>2
    <3> HIDE DEF L, B
    <3> QED BY <1>5, <3>1 DEF Connects
  <2> QED BY <2>1, <2>2
<1>9. ASSUME NEW e \in B PROVE C!Root(L, e[1]) = C!Root(L, e[2])
  <2>1. CASE e \in A
    <3>1. C!Root(F, e[1]) = C!Root(F, e[2]) /\ e[1] \in Nodes /\ e[2] \in Nodes
      BY <2>1 DEF Connects
    <3> HIDE DEF L, lo, a, b
    <3> QED BY <1>3, <3>1
  <2>2. CASE e = <<x, y>>
    <3>1. C!Root(L, x) = lo /\ C!Root(L, y) = lo /\ e[1] = x /\ e[2] = y
      BY <1>3, <2>2
    <3> HIDE DEF L, lo, a, b
    <3> QED BY <3>1
  <2> QED BY <2>1, <2>2
<1> HIDE DEF a, b, lo, L, B
<1>10. Connects(L, B)
  BY <1>8, <1>9 DEF Connects
<1> QED BY <1>3, <1>10 DEF a, b, L, B

-----------------------------------------------------------------------------
(* The weak kernel.                                                        *)

WeakInv ==
  /\ pc \in {"union", "flatten", "ok"}
  /\ Descends(parent) /\ u \in 0 .. NodeCount /\ arc \in Nat
  /\ Connects(parent, Scanned)
  /\ pc # "union" => \A y \in Nodes : y < u => parent[y] = C!Root(parent, y)
  /\ pc = "ok" => u = NodeCount

\* Both modules list a set in the same order.
LEMMA OrdersSame ==
  ASSUME NEW S
  PROVE  C!InOrder(S) = InOrder(S)
<1>1. C!Cardinality(S) = Cardinality(S)
  BY DEF C!Cardinality, Cardinality, C!IsFiniteSet, IsFiniteSet
<1> QED BY <1>1 DEF C!InOrder, InOrder

\* Outgoing lists the targets of a node's arcs.
LEMMA OutgoingLists ==
  ASSUME NEW x \in Nodes
  PROVE  /\ Len(C!Outgoing(x)) \in Nat
         /\ \A i \in 1 .. Len(C!Outgoing(x)) : C!Outgoing(x)[i] \in Nodes /\ <<x, C!Outgoing(x)[i]>> \in Arcs
         /\ \A y : <<x, y>> \in Arcs => \E i \in 1 .. Len(C!Outgoing(x)) : C!Outgoing(x)[i] = y
<1>1. C!Outgoing(x) = Neighbors(x)
  BY OrdersSame DEF C!Outgoing, Neighbors, C!Nodes, Nodes
<1> QED BY <1>1, RowLists

\* What was scanned are arcs.
LEMMA ScannedArcs == Scanned \subseteq Arcs /\ Arcs \subseteq Nodes \X Nodes
  BY DEF Scanned, Arcs

\* At first every node is its own root and nothing is scanned.
LEMMA WeakInit ==
  ASSUME MCInit, kernel = "weak"
  PROVE  WeakInv
<1>1. pc = "union" /\ parent = [v \in Nodes |-> v] /\ u = 0 /\ arc = 0
  BY DEF MCInit, Init, C!Init, C!NoCall, C!Nodes, Nodes
<1>2. Descends(parent) /\ \A y \in Nodes : parent[y] = y
  BY <1>1, Constant DEF Descends
<1>3. \A y \in Nodes : C!Root(parent, y) = y
  BY <1>2, RootFound
<1>4. Scanned = {}
  <2> SUFFICES ASSUME NEW a \in Arcs, a[1] < u \/ (a[1] = u /\ \E i \in 1 .. arc : C!Outgoing(u)[i] = a[2]) PROVE FALSE
    BY <1>1 DEF Scanned
  <2>1. a[1] \in Nat
    BY Constant DEF Arcs
  <2> QED BY <1>1, <2>1
<1>5. ASSUME NEW y \in Nodes PROVE y \in Reach(y, Both(Scanned))
  <2>1. Both(Scanned) \subseteq Nodes \X Nodes
    BY ScannedArcs, BothEnds
  <2> QED BY <2>1, ReachLeast
<1>6. Connects(parent, Scanned)
  BY <1>3, <1>4, <1>5 DEF Connects
<1> QED BY <1>1, <1>2, <1>6, Constant DEF WeakInv

\* The component kernels look at the arcs of the graph and change none.
LEMMA ComponentStep ==
  ASSUME MCNext, ~Traverses
  PROVE  C!Next /\ kernel' = kernel /\ Arcs' = Arcs
<1>1. kernel' = kernel /\ Arcs' = Arcs
  BY StepKinds
<1>2. C!Next
  <2>1. CASE KernelStep
    BY <2>1 DEF KernelStep
  <2>2. CASE ~KernelStep
    BY <2>2 DEF MCNext
  <2> QED BY <2>1, <2>2
<1> QED BY <1>1, <1>2

\* WeakInv is inductive.
LEMMA WeakStep ==
  ASSUME WeakInv, MCNext, kernel = "weak"
  PROVE  WeakInv'
<1>1. C!Next /\ kernel' = "weak" /\ Arcs' = Arcs /\ ~Traverses
  BY ComponentStep DEF Traverses
<1>2. /\ pc \in {"union", "flatten", "ok"} /\ Descends(parent) /\ Connects(parent, Scanned)
      /\ parent \in [Nodes -> Nodes]
      /\ u \in 0 .. NodeCount /\ u \in Nat /\ arc \in Nat /\ Scanned \subseteq Nodes \X Nodes
  BY ScannedArcs, Constant DEF WeakInv, Descends
<1>3. CASE C!Union
  <2> DEFINE x == C!Outgoing(u)[arc + 1]
             H == C!Halved(parent, u)
             HH == C!Halved(H, x)
  <2>1. /\ pc = "union" /\ pc' = "union" /\ u < NodeCount /\ arc < Len(C!Outgoing(u)) /\ u' = u /\ arc' = arc + 1
        /\ parent' = C!Link(HH, C!Root(parent, u), C!Root(H, x))
    BY <1>3 DEF C!Union, C!first, C!second, C!graph
  <2>2. u \in Nodes /\ arc + 1 \in 1 .. Len(C!Outgoing(u)) /\ x \in Nodes /\ <<u, x>> \in Arcs
    <3>1. u \in Nodes
      BY <1>2, <2>1, Constant DEF Nodes
    <3>2. Len(C!Outgoing(u)) \in Nat
      BY <3>1, OutgoingLists
    <3>3. arc + 1 \in 1 .. Len(C!Outgoing(u))
      BY <1>2, <2>1, <3>2
    <3> QED BY <3>1, <3>3, OutgoingLists
  <2>3. Scanned' = Scanned \cup {<<u, x>>}
    <3>1. ASSUME NEW a \in Arcs
          PROVE  (\E i \in 1 .. arc + 1 : C!Outgoing(u)[i] = a[2]) <=> (\E i \in 1 .. arc : C!Outgoing(u)[i] = a[2]) \/ a[2] = x
      <4>1. \A i : i \in 1 .. arc + 1 <=> i \in 1 .. arc \/ i = arc + 1
        BY <1>2
      <4> QED BY <4>1
    <3>2. \A a \in Arcs : a = <<a[1], a[2]>>
      BY ArcEnds
    <3>3. Scanned' = {a \in Arcs : a[1] < u \/ (a[1] = u /\ \E i \in 1 .. arc + 1 : C!Outgoing(u)[i] = a[2])}
      <4>1. C!Outgoing(u)' = C!Outgoing(u)
        BY <1>1, <2>1 DEF C!Outgoing
      <4> QED BY <1>1, <2>1, <4>1 DEF Scanned
    <3>4. Scanned = {a \in Arcs : a[1] < u \/ (a[1] = u /\ \E i \in 1 .. arc : C!Outgoing(u)[i] = a[2])}
      BY <2>1 DEF Scanned
    <3> HIDE DEF x
    <3> QED BY <2>2, <3>1, <3>2, <3>3, <3>4
  <2> HIDE DEF x
  <2>4. Descends(H) /\ Connects(H, Scanned) /\ \A y \in Nodes : C!Root(H, y) = C!Root(parent, y)
    BY <1>2, <2>2, HalvedKeeps, ConnectsHalved
  <2> HIDE DEF H
  <2>5. Descends(HH) /\ Connects(HH, Scanned) /\ \A y \in Nodes : C!Root(HH, y) = C!Root(H, y)
    BY <1>2, <2>2, <2>4, HalvedKeeps, ConnectsHalved
  <2> HIDE DEF HH
  <2>6. parent' = C!Link(HH, C!Root(HH, u), C!Root(HH, x))
    BY <2>1, <2>2, <2>4, <2>5
  <2>7. Descends(parent') /\ Connects(parent', Scanned')
    BY <1>2, <2>2, <2>3, <2>5, <2>6, ConnectsMore
  <2> QED BY <1>2, <2>1, <2>7 DEF WeakInv
<1>4. CASE C!NextRow
  <2>1. /\ pc = "union" /\ pc' = "union" /\ u < NodeCount /\ arc = Len(C!Outgoing(u)) /\ u' = u + 1 /\ arc' = 0
        /\ parent' = parent
    BY <1>4 DEF C!NextRow, C!first, C!second, C!graph
  <2>2. u \in Nodes
    BY <1>2, <2>1, Constant DEF Nodes
  <2>3. Scanned' = Scanned
    <3>1. ASSUME NEW a \in Arcs
          PROVE  (a[1] < u + 1 \/ (a[1] = u + 1 /\ \E i \in 1 .. 0 : C!Outgoing(u + 1)[i] = a[2]))
                  <=> (a[1] < u \/ (a[1] = u /\ \E i \in 1 .. arc : C!Outgoing(u)[i] = a[2]))
      <4>1. a[1] \in Nat /\ a = <<a[1], a[2]>>
        BY ArcEnds, Constant
      <4>2. a[1] = u => \E i \in 1 .. arc : C!Outgoing(u)[i] = a[2]
        BY <2>1, <2>2, <4>1, OutgoingLists
      <4>3. a[1] < u + 1 <=> a[1] < u \/ a[1] = u
        BY <1>2, <4>1
      <4>4. ~\E i \in 1 .. 0 : C!Outgoing(u + 1)[i] = a[2]
        OBVIOUS
      <4> QED BY <4>2, <4>3, <4>4
    <3>2. C!Outgoing(u)' = C!Outgoing(u + 1)
      BY <1>1, <2>1 DEF C!Outgoing
    <3>3. Scanned' = {a \in Arcs : a[1] < u + 1 \/ (a[1] = u + 1 /\ \E i \in 1 .. 0 : C!Outgoing(u + 1)[i] = a[2])}
      BY <1>1, <2>1, <3>2 DEF Scanned
    <3>4. Scanned = {a \in Arcs : a[1] < u \/ (a[1] = u /\ \E i \in 1 .. arc : C!Outgoing(u)[i] = a[2])}
      BY <2>1 DEF Scanned
    <3> QED BY <3>1, <3>3, <3>4
  <2>4. u + 1 \in 0 .. NodeCount /\ 0 \in Nat
    BY <1>2, <2>1, Constant
  <2> QED BY <1>2, <2>1, <2>3, <2>4 DEF WeakInv
<1>5. CASE C!Flatten
  <2>1. pc = "union" /\ u = NodeCount /\ pc' = "flatten" /\ u' = 0 /\ arc' = arc /\ parent' = parent
    BY <1>5 DEF C!Flatten, C!first, C!second, C!graph
  <2>2. Scanned' = Scanned
    <3>1. \A a \in Arcs : a[1] < NodeCount
      BY ArcEnds, Constant
    <3>2. Scanned = Arcs
      BY <2>1, <3>1 DEF Scanned
    <3> QED BY <1>1, <2>1, <3>2 DEF Scanned
  <2>3. \A y \in Nodes : ~(y < 0)
    BY Constant
  <2>4. 0 \in 0 .. NodeCount
    BY Constant
  <2> QED BY <1>2, <2>1, <2>2, <2>3, <2>4 DEF WeakInv
<1>6. CASE C!FlattenNode /\ u = NodeCount
  <2>1. pc = "flatten" /\ pc' = "ok" /\ u' = u /\ arc' = arc /\ parent' = parent
    BY <1>6 DEF C!FlattenNode, C!first, C!second, C!graph
  <2>2. Scanned' = Scanned
    BY <1>1, <2>1 DEF Scanned
  <2> QED BY <1>2, <1>6, <2>1, <2>2 DEF WeakInv
<1>7. CASE C!FlattenNode /\ u # NodeCount
  <2> DEFINE H == C!Halved(parent, u)
             r == C!Root(parent, u)
  <2>1. /\ pc = "flatten" /\ pc' = pc /\ u' = u + 1 /\ arc' = arc
        /\ parent' = [H EXCEPT ![u] = r]
    BY <1>7 DEF C!FlattenNode, C!first, C!second, C!graph
  <2>2. u \in Nodes /\ u + 1 \in 0 .. NodeCount
    BY <1>2, <1>7, Constant DEF Nodes
  <2>3. Scanned' = Scanned
    BY <1>1, <2>1 DEF Scanned
  <2>4. /\ Descends(H) /\ \A y \in Nodes : C!Root(H, y) = C!Root(parent, y)
        /\ \A y \in Nodes : parent[y] = C!Root(parent, y) => H[y] = parent[y]
    BY <1>2, <2>2, HalvedKeeps
  <2>5. r \in Nodes /\ r <= u /\ C!Root(parent, r) = r
    BY <1>2, <2>2, RootFound
  <2> HIDE DEF H, r
  <2> DEFINE F == [H EXCEPT ![u] = r]
             R == [y \in Nodes |-> C!Root(parent, y)]
  <2>6. H \in [Nodes -> Nodes] /\ F \in [Nodes -> Nodes] /\ F[u] = r /\ \A y \in Nodes : y # u => F[y] = H[y]
    BY <2>2, <2>4, <2>5 DEF Descends
  <2> HIDE DEF F
  <2>7. Descends(F)
    BY <2>4, <2>5, <2>6 DEF Descends
  <2>8. ASSUME NEW y \in Nodes PROVE (F[y] = y => R[y] = y) /\ R[F[y]] = R[y]
    <3>1. CASE y = u
      BY <2>2, <2>5, <2>6, <3>1 DEF r
    <3>2. CASE y # u
      <4>1. F[y] = H[y] /\ H[y] \in Nodes
        BY <2>6, <3>2
      <4>2. C!Root(H, H[y]) = C!Root(H, y) /\ (H[y] = y => C!Root(H, y) = y)
        BY <2>4, RootFound
      <4> QED BY <2>4, <4>1, <4>2
    <3> QED BY <3>1, <3>2
  <2>9. \A y \in Nodes : C!Root(F, y) = C!Root(parent, y)
    <3>1. \A y \in Nodes : C!Root(F, y) = R[y]
      <4> HIDE DEF R
      <4> QED BY <2>7, <2>8, RootUnique
    <3> QED BY <3>1
  <2>10. Connects(F, Scanned)
    <3>1. \A a \in Scanned : a[1] \in Nodes /\ a[2] \in Nodes
      BY <1>2
    <3> QED BY <1>2, <2>9, <3>1 DEF Connects
  <2>11. ASSUME NEW y \in Nodes, y < u + 1 PROVE F[y] = C!Root(F, y)
    <3>1. CASE y = u
      BY <2>2, <2>6, <2>9, <3>1 DEF r
    <3>2. CASE y # u
      <4>1. y < u
        BY <1>2, <2>11, <3>2, Constant
      <4>2. parent[y] = C!Root(parent, y)
        BY <2>1, <4>1 DEF WeakInv
      <4> QED BY <2>4, <2>6, <2>9, <3>2, <4>2
    <3> QED BY <3>1, <3>2
  <2>12. parent' = F
    BY <2>1 DEF F
  <2> QED BY <1>2, <2>1, <2>2, <2>3, <2>7, <2>10, <2>11, <2>12 DEF WeakInv
<1>8. pc \notin {"search", "collect"}
  BY <1>2
<1> QED BY <1>1, <1>3, <1>4, <1>5, <1>6, <1>7, <1>8 DEF C!Next, C!StartSearch, C!Search, C!Searched, C!StartComponent,
                                                        C!Collect, C!EndComponent

\* At every step the roots are the least nodes the scanned arcs connect.
LEMMA WeakFound ==
  ASSUME WeakInv
  PROVE  /\ ForestConnects
         /\ pc = "ok" => \A y \in Nodes : parent[y] = C!Least(WeakComponent(y, Arcs))
<1>1. Descends(parent) /\ Connects(parent, Scanned) /\ Scanned \subseteq Nodes \X Nodes
  BY ScannedArcs DEF WeakInv
<1>2. \A y \in Nodes : C!Root(parent, y) = C!Least(WeakComponent(y, Scanned))
  BY <1>1, ConnectsLeast
<1>3. ForestConnects
  BY <1>1, <1>2 DEF ForestConnects, ForestDescends, RootOf, Descends
<1>4. ASSUME pc = "ok", NEW y \in Nodes PROVE parent[y] = C!Least(WeakComponent(y, Arcs))
  <2>1. Scanned = Arcs /\ y < u
    BY <1>4, Constant DEF Scanned, WeakInv
  <2> QED BY <1>2, <1>4, <2>1 DEF WeakInv
<1> QED BY <1>3, <1>4

-----------------------------------------------------------------------------
(* The first pass of the strong kernel.                                    *)

Frames == [node : Nodes, next : Nat]
OnStack == {stack[i].node : i \in 1 .. Len(stack)}

FirstTyped ==
  /\ seen \subseteq Nodes /\ order \in Seq(Nodes) /\ stack \in Seq(Frames)
  /\ labels \in [Nodes -> Nodes \cup {None}] /\ work \in Seq(Nodes) /\ members \subseteq Nodes

\* The stack is a path; its nodes and the finished ones are those seen; the
\* arcs tried, and all arcs of finished nodes, lead to nodes seen.
FirstPass ==
  /\ \A i \in 1 .. Len(stack) - 1 : <<stack[i].node, stack[i + 1].node>> \in Arcs
  /\ seen = Range(order) \cup OnStack
  /\ \A i \in 1 .. Len(stack) :
       /\ stack[i].next <= Len(C!Outgoing(stack[i].node))
       /\ \A k \in 1 .. stack[i].next : C!Outgoing(stack[i].node)[k] \in seen
  /\ \A i \in 1 .. Len(order) : \A y \in Nodes : <<order[i], y>> \in Arcs => y \in seen

\* When a node finishes, it is reached from every unfinished node to which an
\* arc leads from a finished one: such nodes are still on the stack, below it.
NestedIn(s, A) ==
  \A k \in 1 .. Len(s) : \A i \in 1 .. k : \A y \in Nodes :
     <<s[i], y>> \in A /\ (\A m \in 1 .. k : s[m] # y) => s[k] \in Reach(y, A)

\* The elements of a sequence.
LEMMA RangeIs ==
  ASSUME NEW S, NEW s \in Seq(S)
  PROVE  Range(s) = {s[i] : i \in 1 .. Len(s)} /\ Range(s) \subseteq S /\ Len(s) \in Nat
         /\ \A i \in 1 .. Len(s) : s[i] \in Range(s) /\ s[i] \in S
<1>1. DOMAIN s = 1 .. Len(s) /\ Len(s) \in Nat /\ \A i \in 1 .. Len(s) : s[i] \in S
  BY LenProperties, ElementOfSeq
<1>2. Range(s) = {s[i] : i \in 1 .. Len(s)}
  BY <1>1 DEF Range
<1> QED BY <1>1, <1>2

\* What an element more at the end does to a sequence.
LEMMA Appended ==
  ASSUME NEW S, NEW s \in Seq(S), NEW e \in S
  PROVE  /\ Append(s, e) \in Seq(S) /\ Len(Append(s, e)) = Len(s) + 1 /\ Len(s) \in Nat
         /\ Append(s, e)[Len(s) + 1] = e
         /\ \A i \in 1 .. Len(s) : Append(s, e)[i] = s[i] /\ i \in 1 .. Len(s) + 1
         /\ Range(Append(s, e)) = Range(s) \cup {e}
<1>1. /\ Append(s, e) \in Seq(S) /\ Len(Append(s, e)) = Len(s) + 1 /\ Len(s) \in Nat
      /\ Append(s, e)[Len(s) + 1] = e /\ \A i \in 1 .. Len(s) : Append(s, e)[i] = s[i]
  BY AppendProperties, LenProperties
<1>2. \A i : i \in 1 .. Len(s) + 1 <=> i \in 1 .. Len(s) \/ i = Len(s) + 1
  BY <1>1
<1>3. Range(Append(s, e)) = {Append(s, e)[i] : i \in 1 .. Len(s) + 1} /\ Range(s) = {s[i] : i \in 1 .. Len(s)}
  BY <1>1, RangeIs
<1>4. Range(Append(s, e)) = Range(s) \cup {e}
  BY <1>1, <1>2, <1>3
<1> QED BY <1>1, <1>2, <1>4

\* What is left of a sequence without its last element.
LEMMA FrontOf ==
  ASSUME NEW S, NEW s \in Seq(S), s # <<>>
  PROVE  /\ C!Front(s) \in Seq(S) /\ Len(C!Front(s)) = Len(s) - 1 /\ Len(s) \in Nat /\ Len(s) >= 1
         /\ \A i \in 1 .. Len(s) - 1 : C!Front(s)[i] = s[i] /\ i \in 1 .. Len(s)
         /\ C!Last(s) = s[Len(s)] /\ C!Last(s) \in S /\ Range(s) = Range(C!Front(s)) \cup {C!Last(s)}
<1>1. Len(s) \in Nat /\ Len(s) >= 1 /\ Len(s) \in 1 .. Len(s)
  BY LenProperties, EmptySeq
<1>2. C!Front(s) = SubSeq(s, 1, Len(s) - 1) /\ C!Last(s) = s[Len(s)] /\ C!Last(s) \in S
  BY <1>1, ElementOfSeq DEF C!Front, C!Last
<1>3. /\ C!Front(s) \in Seq(S) /\ Len(C!Front(s)) = Len(s) - 1
      /\ \A i \in 1 .. Len(s) - 1 : C!Front(s)[i] = s[i]
  <2> HIDE DEF C!Front
  <2>1. C!Front(s) = [i \in 1 .. Len(s) - 1 |-> s[i]]
    BY <1>1, <1>2, SMT
  <2>2. \A i \in 1 .. Len(s) - 1 : s[i] \in S
    BY <1>1, ElementOfSeq
  <2>3. Len(s) - 1 \in Nat
    BY <1>1
  <2> QED BY <2>1, <2>2, <2>3
<1>4. \A i : i \in 1 .. Len(s) <=> i \in 1 .. Len(s) - 1 \/ i = Len(s)
  BY <1>1
<1>5. Range(C!Front(s)) = {C!Front(s)[i] : i \in 1 .. Len(s) - 1} /\ Range(s) = {s[i] : i \in 1 .. Len(s)}
  BY <1>3, RangeIs
<1>6. Range(s) = Range(C!Front(s)) \cup {C!Last(s)}
  BY <1>2, <1>3, <1>4, <1>5
<1> QED BY <1>1, <1>2, <1>3, <1>4, <1>6

\* The end of a path is reached from all its nodes.
LEMMA PathReaches ==
  ASSUME NEW A, A \subseteq Nodes \X Nodes, NEW n \in Nat, NEW p,
         \A i \in 1 .. n : p[i] \in Nodes, \A i \in 1 .. n - 1 : <<p[i], p[i + 1]>> \in A,
         NEW j \in 1 .. n
  PROVE  p[n] \in Reach(p[j], A)
<1> DEFINE Some == {d \in Nat : j + d <= n => p[j + d] \in Reach(p[j], A)}
<1>1. 0 \in Some
  <2>1. j + 0 = j
    OBVIOUS
  <2> QED BY <2>1, ReachLeast
<1>2. ASSUME NEW d \in Nat, d \in Some PROVE d + 1 \in Some
  <2> SUFFICES ASSUME j + (d + 1) <= n PROVE p[j + (d + 1)] \in Reach(p[j], A)
    OBVIOUS
  <2>1. j + d <= n /\ j + d \in 1 .. n - 1 /\ (j + d) + 1 = j + (d + 1)
    OBVIOUS
  <2>2. p[j + d] \in Reach(p[j], A) /\ <<p[j + d], p[j + (d + 1)]>> \in A
    BY <1>2, <2>1
  <2>3. Stable(Reach(p[j], A), A)
    BY ReachLeast
  <2> QED BY <2>2, <2>3 DEF Stable
<1>3. n - j \in Nat /\ j + (n - j) = n
  OBVIOUS
<1>4. n - j \in Some
  <2> HIDE DEF Some
  <2> QED BY <1>1, <1>2, <1>3, Induction
<1> QED BY <1>3, <1>4

\* A node that finishes keeps the order of finishing nested.
LEMMA NestedMore ==
  ASSUME NEW s \in Seq(Nodes), NEW A, NestedIn(s, A), NEW v \in Nodes,
         \A x \in Range(s) \cup {v}, y \in Nodes :
           <<x, y>> \in A /\ y \notin Range(s) /\ y # v => v \in Reach(y, A)
  PROVE  NestedIn(Append(s, v), A)
<1> DEFINE t == Append(s, v)
           n == Len(s)
<1>1. /\ n \in Nat /\ Len(t) = n + 1 /\ t[n + 1] = v /\ \A i \in 1 .. n : t[i] = s[i] /\ s[i] \in Range(s)
      /\ Range(s) = {s[i] : i \in 1 .. n}
  BY Appended, RangeIs
<1> HIDE DEF t, n
<1>2. ASSUME NEW k \in 1 .. n + 1, NEW i \in 1 .. k, NEW y \in Nodes, <<t[i], y>> \in A,
             \A m \in 1 .. k : t[m] # y
      PROVE  t[k] \in Reach(y, A)
  <2>1. CASE k = n + 1
    <3>1. y # v
      <4>1. k \in 1 .. k
        BY <1>1
      <4> QED BY <1>1, <1>2, <2>1, <4>1
    <3>2. y \notin Range(s)
      <4>1. \A m \in 1 .. n : m \in 1 .. k
        BY <1>1, <2>1
      <4>2. \A m \in 1 .. n : s[m] # y
        BY <1>1, <1>2, <4>1
      <4> QED BY <1>1, <4>2
    <3>3. t[i] \in Range(s) \cup {v}
      <4>1. i \in 1 .. n \/ i = n + 1
        BY <1>1, <2>1
      <4> QED BY <1>1, <4>1
    <3> QED BY <1>1, <1>2, <2>1, <3>1, <3>2, <3>3
  <2>2. CASE k # n + 1
    <3>1. k \in 1 .. n /\ \A m \in 1 .. k : m \in 1 .. n
      BY <1>1, <2>2
    <3>2. t[k] = s[k] /\ \A m \in 1 .. k : t[m] = s[m]
      BY <1>1, <3>1
    <3>3. <<s[i], y>> \in A /\ \A m \in 1 .. k : s[m] # y
      BY <1>2, <3>2
    <3> QED BY <3>1, <3>2, <3>3 DEF NestedIn, n
  <2> QED BY <2>1, <2>2
<1>3. NestedIn(t, A)
  BY <1>1, <1>2 DEF NestedIn
<1> QED BY <1>3 DEF t

FirstInv == FirstTyped /\ FirstPass /\ NestedIn(order, Arcs)

\* A nonempty set of nodes has a least one, which Least is.
LEMMA LeastOf ==
  ASSUME NEW S, S \subseteq Nodes, S # {}
  PROVE  C!Least(S) \in S /\ \A y \in S : C!Least(S) <= y
<1>1. S \subseteq Nat
  BY Constant
<1>2. \E m \in S : \A y \in S : m <= y
  BY <1>1, LeastExists
<1> QED BY <1>2 DEF C!Least

\* A search begun at the least node not seen keeps the first pass.
LEMMA StartFirst ==
  ASSUME FirstInv, Arcs' = Arcs, C!StartSearch
  PROVE  FirstInv'
<1> DEFINE x == C!Least(C!Nodes \ seen)
           f == [node |-> x, next |-> 0]
<1>1. /\ stack = <<>> /\ seen # Nodes /\ seen' = seen \cup {x} /\ stack' = <<f>>
      /\ order' = order /\ labels' = labels /\ work' = work /\ members' = members
  BY DEF C!StartSearch, C!weak, C!second, C!Nodes, Nodes
<1>2. seen \subseteq Nodes /\ order \in Seq(Nodes) /\ C!Nodes = Nodes /\ seen = Range(order) \cup OnStack
  BY DEF FirstInv, FirstTyped, FirstPass, C!Nodes, Nodes
<1>3. x \in Nodes
  <2>1. Nodes \ seen \subseteq Nodes /\ Nodes \ seen # {}
    BY <1>1, <1>2
  <2>2. C!Least(Nodes \ seen) \in Nodes \ seen
    BY <2>1, LeastOf
  <2> QED BY <1>2, <2>2
<1> HIDE DEF x
<1>4. f \in Frames /\ f.node = x /\ f.next = 0
  BY <1>3 DEF Frames
<1> HIDE DEF f
<1>5. stack' \in Seq(Frames) /\ Len(stack') = 1 /\ stack'[1] = f
  BY <1>1, <1>4
<1>6. FirstTyped'
  BY <1>1, <1>2, <1>3, <1>5 DEF FirstInv, FirstTyped
<1>7. OnStack = {} /\ OnStack' = {x}
  <2>1. OnStack = {}
    BY <1>1 DEF OnStack
  <2>2. OnStack' = {stack'[i].node : i \in 1 .. 1}
    BY <1>5 DEF OnStack
  <2> QED BY <1>4, <1>5, <2>1, <2>2
<1>8. \A y : C!Outgoing(y)' = C!Outgoing(y)
  BY DEF C!Outgoing
<1>9. FirstPass'
  <2>1. seen' = Range(order)' \cup OnStack'
    BY <1>1, <1>2, <1>7
  <2>2. \A i \in 1 .. Len(stack') - 1 : <<stack'[i].node, stack'[i + 1].node>> \in Arcs'
    BY <1>5
  <2>3. ASSUME NEW i \in 1 .. Len(stack')
        PROVE  /\ stack'[i].next <= Len(C!Outgoing(stack[i].node)')
               /\ \A k \in 1 .. stack'[i].next : (C!Outgoing(stack[i].node)[k])' \in seen'
    <3>1. stack'[i].next = 0 /\ stack'[i].node = x
      BY <1>4, <1>5
    <3>2. C!Outgoing(stack[i].node)' = C!Outgoing(x)
      BY <3>1 DEF C!Outgoing
    <3>3. Len(C!Outgoing(x)) \in Nat
      BY <1>3, OutgoingLists
    <3> QED BY <3>1, <3>2, <3>3
  <2>4. \A i \in 1 .. Len(order') : \A y \in Nodes : <<order'[i], y>> \in Arcs' => y \in seen'
    BY <1>1 DEF FirstInv, FirstPass
  <2> QED BY <2>1, <2>2, <2>3, <2>4 DEF FirstPass
<1>10. NestedIn(order, Arcs)'
  BY <1>1 DEF FirstInv
<1> QED BY <1>6, <1>9, <1>10 DEF FirstInv

\* Descending into a node or finishing one keeps the first pass.
LEMMA SearchFirst ==
  ASSUME FirstInv, Arcs' = Arcs, C!Search
  PROVE  FirstInv'
<1> DEFINE n == Len(stack)
           v == stack[n].node
           next == stack[n].next
           row == C!Outgoing(v)
<1>1. /\ seen \subseteq Nodes /\ order \in Seq(Nodes) /\ stack \in Seq(Frames) /\ stack # <<>>
      /\ labels' = labels /\ work' = work /\ members' = members
  BY DEF C!Search, FirstInv, FirstTyped, C!second
<1>2. /\ n \in Nat /\ n >= 1 /\ n \in 1 .. n /\ C!Last(stack) = stack[n]
      /\ \A i \in 1 .. n : stack[i] \in Frames /\ stack[i].node \in Nodes /\ stack[i].next \in Nat
  <2>1. n \in Nat /\ n >= 1 /\ C!Last(stack) = stack[n] /\ \A i \in 1 .. n : stack[i] \in Frames
    BY <1>1, FrontOf, RangeIs
  <2> HIDE DEF n
  <2> QED BY <2>1 DEF Frames
<1>3. /\ \A i \in 1 .. n - 1 : <<stack[i].node, stack[i + 1].node>> \in Arcs
      /\ seen = Range(order) \cup OnStack
      /\ \A i \in 1 .. n :
           /\ stack[i].next <= Len(C!Outgoing(stack[i].node))
           /\ \A k \in 1 .. stack[i].next : C!Outgoing(stack[i].node)[k] \in seen
      /\ \A i \in 1 .. Len(order) : \A y \in Nodes : <<order[i], y>> \in Arcs => y \in seen
  BY DEF FirstInv, FirstPass
<1>4. v \in Nodes /\ next \in Nat /\ Len(row) \in Nat /\ next <= Len(row)
  BY <1>2, <1>3, OutgoingLists
<1>5. /\ next = Len(row) => order' = Append(order, v) /\ stack' = C!Front(stack) /\ seen' = seen
      /\ next # Len(row) =>
           /\ order' = order
           /\ LET x == row[next + 1]
                  tried == [stack EXCEPT ![n].next = next + 1]
              IN \/ seen' = seen \cup {x} /\ stack' = Append(tried, [node |-> x, next |-> 0])
                 \/ x \in seen /\ stack' = tried /\ seen' = seen
  BY <1>2 DEF C!Search, C!Finished, C!Fresh
<1>6. OnStack = {stack[i].node : i \in 1 .. n}
  BY DEF OnStack
<1>7. \A y : C!Outgoing(y)' = C!Outgoing(y)
  BY DEF C!Outgoing
<1> HIDE DEF n, v, next, row
<1>8. CASE next = Len(row)
  <2> DEFINE front == C!Front(stack)
  <2>1. order' = Append(order, v) /\ stack' = front /\ seen' = seen
    BY <1>5, <1>8
  <2>2. front \in Seq(Frames) /\ Len(front) = n - 1 /\ \A i \in 1 .. n - 1 : front[i] = stack[i] /\ i \in 1 .. n
    BY <1>1, FrontOf DEF n
  <2> HIDE DEF front
  <2>3. /\ order' \in Seq(Nodes) /\ Len(order') = Len(order) + 1 /\ Len(order) \in Nat /\ order'[Len(order) + 1] = v
        /\ \A i \in 1 .. Len(order) : order'[i] = order[i]
        /\ Range(order') = Range(order) \cup {v}
    BY <1>1, <1>4, <2>1, Appended
  <2>4. FirstTyped'
    BY <1>1, <2>1, <2>2, <2>3 DEF FirstInv, FirstTyped
  <2>5. OnStack' = {stack[i].node : i \in 1 .. n - 1}
    BY <2>1, <2>2 DEF OnStack
  <2>6. OnStack = OnStack' \cup {v}
    <3>1. \A i : i \in 1 .. n <=> i \in 1 .. n - 1 \/ i = n
      BY <1>2
    <3> QED BY <1>6, <2>5, <3>1 DEF v
  <2>7. seen' = Range(order') \cup OnStack'
    BY <1>3, <2>1, <2>3, <2>6
  <2>8. ASSUME NEW y \in Nodes, <<v, y>> \in Arcs PROVE y \in seen
    <3>1. PICK k \in 1 .. Len(row) : row[k] = y
      BY <1>4, <2>8, OutgoingLists DEF row
    <3>2. \A j \in 1 .. next : row[j] \in seen
      BY <1>2, <1>3 DEF row, next, v
    <3> QED BY <1>8, <3>1, <3>2
  <2>9. ASSUME NEW i \in 1 .. Len(order'), NEW y \in Nodes, <<order'[i], y>> \in Arcs' PROVE y \in seen'
    <3>1. i \in 1 .. Len(order) \/ i = Len(order) + 1
      BY <2>3
    <3>2. CASE i \in 1 .. Len(order)
      BY <1>3, <2>1, <2>3, <2>9, <3>2
    <3>3. CASE i = Len(order) + 1
      BY <2>1, <2>3, <2>8, <2>9, <3>3
    <3> QED BY <3>1, <3>2, <3>3
  <2>10. \A i \in 1 .. Len(stack') - 1 : <<stack'[i].node, stack'[i + 1].node>> \in Arcs'
    <3>1. ASSUME NEW i \in 1 .. Len(stack') - 1 PROVE <<stack'[i].node, stack'[i + 1].node>> \in Arcs
      <4>1. i \in 1 .. n - 1 /\ i + 1 \in 1 .. n - 1
        BY <1>2, <2>1, <2>2
      <4>2. stack'[i] = stack[i] /\ stack'[i + 1] = stack[i + 1]
        BY <2>1, <2>2, <4>1
      <4> QED BY <1>3, <4>1, <4>2
    <3> QED BY <3>1
  <2>11. ASSUME NEW i \in 1 .. Len(stack')
         PROVE  /\ stack'[i].next <= Len(C!Outgoing(stack[i].node)')
                /\ \A k \in 1 .. stack'[i].next : (C!Outgoing(stack[i].node)[k])' \in seen'
    <3>1. i \in 1 .. n - 1 /\ i \in 1 .. n /\ stack'[i] = stack[i]
      BY <2>1, <2>2
    <3>2. C!Outgoing(stack[i].node)' = C!Outgoing(stack[i].node)
      BY <3>1 DEF C!Outgoing
    <3> QED BY <1>3, <2>1, <3>1, <3>2
  <2>12. FirstPass'
    BY <2>7, <2>9, <2>10, <2>11 DEF FirstPass
  <2>13. NestedIn(order', Arcs)
    <3>1. ASSUME NEW x \in Range(order) \cup {v}, NEW y \in Nodes, <<x, y>> \in Arcs, y \notin Range(order), y # v
          PROVE  v \in Reach(y, Arcs)
      <4>1. y \in seen
        <5>1. CASE x = v
          BY <2>8, <3>1, <5>1
        <5>2. CASE x # v
          <6>1. PICK i \in 1 .. Len(order) : x = order[i]
            BY <1>1, <3>1, <5>2, RangeIs
          <6> QED BY <1>3, <3>1, <6>1
        <5> QED BY <5>1, <5>2
      <4>2. PICK i \in 1 .. n : y = stack[i].node
        BY <1>3, <1>6, <3>1, <4>1
      <4> DEFINE p == [j \in 1 .. n |-> stack[j].node]
      <4>3. \A j \in 1 .. n : p[j] \in Nodes
        BY <1>2
      <4>4. ASSUME NEW j \in 1 .. n - 1 PROVE <<p[j], p[j + 1]>> \in Arcs
        <5>1. j \in 1 .. n /\ j + 1 \in 1 .. n
          BY <1>2
        <5> QED BY <1>3, <5>1
      <4>5. p[i] = y /\ p[n] = v
        BY <1>2, <4>2 DEF v
      <4> HIDE DEF p
      <4>6. p[n] \in Reach(p[i], Arcs)
        BY <1>2, <4>3, <4>4, PathReaches, ScannedArcs
      <4> QED BY <4>5, <4>6
    <3>2. NestedIn(order, Arcs)
      BY DEF FirstInv
    <3> QED BY <1>1, <1>4, <2>1, <3>1, <3>2, NestedMore
  <2>14. NestedIn(order, Arcs)'
    BY <2>13
  <2> QED BY <2>4, <2>12, <2>14 DEF FirstInv
<1>9. CASE next # Len(row)
  <2> DEFINE x == row[next + 1]
             tried == [stack EXCEPT ![n].next = next + 1]
             f == [node |-> x, next |-> 0]
  <2>1. /\ order' = order
        /\ \/ seen' = seen \cup {x} /\ stack' = Append(tried, f)
           \/ x \in seen /\ stack' = tried /\ seen' = seen
    BY <1>5, <1>9
  <2>2. next + 1 \in 1 .. Len(row) /\ x \in Nodes /\ <<v, x>> \in Arcs
    <3>1. next + 1 \in 1 .. Len(row)
      BY <1>4, <1>9
    <3> QED BY <1>4, <3>1, OutgoingLists DEF row
  <2>3. /\ tried \in Seq(Frames) /\ Len(tried) = n
        /\ \A i \in 1 .. n : tried[i].node = stack[i].node
        /\ \A i \in 1 .. n : tried[i].next = IF i = n THEN next + 1 ELSE stack[i].next
    <3>1. tried = [i \in 1 .. n |-> IF i = n THEN [stack[n] EXCEPT !.next = next + 1] ELSE stack[i]]
      <4>1. DOMAIN stack = 1 .. n /\ stack = [i \in 1 .. n |-> stack[i]]
        BY <1>1, LenProperties DEF n
      <4>2. tried = [i \in DOMAIN stack |-> IF i = n THEN [stack[n] EXCEPT !.next = next + 1] ELSE stack[i]]
        BY <1>2, <4>1
      <4> QED BY <4>1, <4>2
    <3>2. [stack[n] EXCEPT !.next = next + 1] = [node |-> v, next |-> next + 1]
      BY <1>2 DEF v, Frames
    <3>3. [node |-> v, next |-> next + 1] \in Frames
      BY <1>4 DEF Frames
    <3> HIDE DEF tried
    <3>4. \A i \in 1 .. n : tried[i] \in Frames
      BY <1>2, <3>1, <3>2, <3>3
    <3>5. tried \in Seq(Frames) /\ Len(tried) = n
      <4>1. n \in Nat /\ DOMAIN tried = 1 .. n /\ tried \in [1 .. n -> Frames]
        BY <1>2, <3>1, <3>4
      <4> HIDE DEF n
      <4> QED BY <4>1
    <3>6. tried[n] = [node |-> v, next |-> next + 1] /\ \A i \in 1 .. n : i # n => tried[i] = stack[i]
      BY <1>2, <3>1, <3>2
    <3> QED BY <1>2, <3>5, <3>6 DEF v
  <2>4. f \in Frames /\ f.node = x /\ f.next = 0
    BY <2>2 DEF Frames
  <2>5. \A k \in 1 .. next + 1 : k \in 1 .. next \/ k = next + 1
    BY <1>4
  <2>6. \A k \in 1 .. next : row[k] \in seen
    BY <1>2, <1>3 DEF row, next, v
  <2> HIDE DEF x, tried, f
  \* What holds of the arcs tried below the top holds in both cases.
  <2>7. seen \subseteq seen' /\ x \in seen' /\ seen' \subseteq Nodes
    BY <1>1, <2>1, <2>2
  <2>8. ASSUME NEW i \in 1 .. n
        PROVE  /\ tried[i].next <= Len(C!Outgoing(tried[i].node))
               /\ \A k \in 1 .. tried[i].next : C!Outgoing(tried[i].node)[k] \in seen'
    <3>1. CASE i = n
      <4>1. tried[i].next = next + 1 /\ C!Outgoing(tried[i].node) = row
        BY <1>2, <2>3, <3>1 DEF v, row
      <4>2. row[next + 1] = x
        BY DEF x
      <4> QED BY <1>4, <2>2, <2>5, <2>6, <2>7, <4>1, <4>2
    <3>2. CASE i # n
      <4>1. tried[i].next = stack[i].next /\ tried[i].node = stack[i].node
        BY <2>3, <3>2
      <4> QED BY <1>3, <2>7, <4>1
    <3> QED BY <3>1, <3>2
  <2>9. \A i \in 1 .. n - 1 : <<tried[i].node, tried[i + 1].node>> \in Arcs
    <3>1. \A i \in 1 .. n - 1 : i \in 1 .. n /\ i + 1 \in 1 .. n
      BY <1>2
    <3> QED BY <1>3, <2>3, <3>1
  <2>10. \A i \in 1 .. Len(order') : \A y \in Nodes : <<order'[i], y>> \in Arcs' => y \in seen'
    BY <1>3, <2>1, <2>7
  <2>11. NestedIn(order, Arcs)'
    BY <2>1 DEF FirstInv
  <2>12. CASE seen' = seen \cup {x} /\ stack' = Append(tried, f)
    <3>1. /\ stack' \in Seq(Frames) /\ Len(stack') = n + 1 /\ stack'[n + 1] = f
          /\ \A i \in 1 .. n : stack'[i] = tried[i]
      BY <2>3, <2>4, <2>12, Appended
    <3>2. FirstTyped'
      BY <1>1, <2>1, <2>7, <3>1 DEF FirstInv, FirstTyped
    <3>3. \A i : i \in 1 .. n + 1 <=> i \in 1 .. n \/ i = n + 1
      BY <1>2
    <3>4. OnStack' = OnStack \cup {x}
      <4>1. OnStack' = {stack'[i].node : i \in 1 .. n + 1}
        BY <3>1 DEF OnStack
      <4>2. stack'[n + 1].node = x /\ \A i \in 1 .. n : stack'[i].node = stack[i].node
        BY <2>3, <2>4, <3>1
      <4> QED BY <1>6, <3>3, <4>1, <4>2
    <3>5. seen' = Range(order') \cup OnStack'
      BY <1>3, <2>1, <2>12, <3>4
    <3>6. ASSUME NEW i \in 1 .. Len(stack') - 1 PROVE <<stack'[i].node, stack'[i + 1].node>> \in Arcs'
      <4>1. i \in 1 .. n
        BY <1>2, <3>1
      <4>2. CASE i = n
        <5>1. stack'[i].node = v /\ stack'[i + 1].node = x
          BY <1>2, <2>3, <2>4, <3>1, <4>2 DEF v
        <5> QED BY <2>2, <5>1
      <4>3. CASE i # n
        <5>1. i \in 1 .. n - 1 /\ i + 1 \in 1 .. n
          BY <1>2, <4>1, <4>3
        <5>2. stack'[i] = tried[i] /\ stack'[i + 1] = tried[i + 1]
          BY <3>1, <4>1, <5>1
        <5>3. <<tried[i].node, tried[i + 1].node>> \in Arcs
          BY <2>9, <5>1
        <5> QED BY <5>2, <5>3
      <4> QED BY <4>2, <4>3
    <3>7. ASSUME NEW i \in 1 .. Len(stack')
          PROVE  /\ stack'[i].next <= Len(C!Outgoing(stack[i].node)')
                 /\ \A k \in 1 .. stack'[i].next : (C!Outgoing(stack[i].node)[k])' \in seen'
      <4>1. C!Outgoing(stack[i].node)' = C!Outgoing(stack'[i].node)
        BY DEF C!Outgoing
      <4>2. CASE i \in 1 .. n
        BY <2>8, <3>1, <4>1, <4>2
      <4>3. CASE i = n + 1
        <5>1. stack'[i].next = 0 /\ stack'[i].node = x
          BY <2>4, <3>1, <4>3
        <5>2. Len(C!Outgoing(x)) \in Nat
          BY <2>2, OutgoingLists
        <5> QED BY <4>1, <5>1, <5>2
      <4> QED BY <3>1, <3>3, <4>2, <4>3
    <3>8. FirstPass'
      BY <2>10, <3>5, <3>6, <3>7 DEF FirstPass
    <3> QED BY <2>11, <3>2, <3>8 DEF FirstInv
  <2>13. CASE x \in seen /\ stack' = tried /\ seen' = seen
    <3>1. FirstTyped'
      BY <1>1, <2>1, <2>3, <2>13 DEF FirstInv, FirstTyped
    <3>2. OnStack' = OnStack
      <4>1. OnStack' = {tried[i].node : i \in 1 .. n}
        BY <2>3, <2>13 DEF OnStack
      <4> QED BY <1>6, <2>3, <4>1
    <3>3. seen' = Range(order') \cup OnStack'
      BY <1>3, <2>1, <2>13, <3>2
    <3>4. \A i \in 1 .. Len(stack') - 1 : <<stack'[i].node, stack'[i + 1].node>> \in Arcs'
      BY <2>3, <2>9, <2>13
    <3>5. ASSUME NEW i \in 1 .. Len(stack')
          PROVE  /\ stack'[i].next <= Len(C!Outgoing(stack[i].node)')
                 /\ \A k \in 1 .. stack'[i].next : (C!Outgoing(stack[i].node)[k])' \in seen'
      <4>1. C!Outgoing(stack[i].node)' = C!Outgoing(tried[i].node)
        BY <2>13 DEF C!Outgoing
      <4> QED BY <2>3, <2>8, <2>13, <4>1
    <3>6. FirstPass'
      BY <2>10, <3>3, <3>4, <3>5 DEF FirstPass
    <3> QED BY <2>11, <3>1, <3>6 DEF FirstInv
  <2> QED BY <2>1, <2>12, <2>13
<1> QED BY <1>8, <1>9

\* No node is on the stack or in the list of finished nodes twice, or in both.
Once ==
  /\ \A i, j \in 1 .. Len(order) : i # j => order[i] # order[j]
  /\ \A i, j \in 1 .. Len(stack) : i # j => stack[i].node # stack[j].node
  /\ \A i \in 1 .. Len(order), j \in 1 .. Len(stack) : order[i] # stack[j].node

\* The node a search begins with was on no list.
LEMMA StartOnce ==
  ASSUME FirstInv, Once, C!StartSearch
  PROVE  Once'
<1> DEFINE x == C!Least(C!Nodes \ seen)
           f == [node |-> x, next |-> 0]
<1>1. stack' = <<f>> /\ order' = order /\ seen # Nodes
  BY DEF C!StartSearch, C!weak, C!second, C!Nodes, Nodes
<1>2. C!Nodes = Nodes /\ Range(order) \subseteq seen /\ order \in Seq(Nodes) /\ seen \subseteq Nodes
  BY DEF FirstInv, FirstTyped, FirstPass, C!Nodes, Nodes
<1>3. x \notin seen
  <2>1. Nodes \ seen \subseteq Nodes /\ Nodes \ seen # {}
    BY <1>1, <1>2
  <2>2. C!Least(Nodes \ seen) \in Nodes \ seen
    BY <2>1, LeastOf
  <2> QED BY <1>2, <2>2
<1> HIDE DEF x
<1>4. f.node = x
  OBVIOUS
<1> HIDE DEF f
<1>5. Len(stack') = 1 /\ stack'[1] = f
  BY <1>1
<1>6. \A i \in 1 .. Len(order) : order[i] # x
  BY <1>2, <1>3, RangeIs
<1> QED BY <1>1, <1>4, <1>5, <1>6 DEF Once

\* A node goes on the stack when first seen, and from there to the finished
\* ones.
LEMMA SearchOnce ==
  ASSUME FirstInv, Once, C!Search
  PROVE  Once'
<1> DEFINE n == Len(stack)
           v == stack[n].node
           next == stack[n].next
           row == C!Outgoing(v)
           x == row[next + 1]
           tried == [stack EXCEPT ![n].next = next + 1]
           f == [node |-> x, next |-> 0]
<1>1. /\ order \in Seq(Nodes) /\ stack \in Seq(Frames) /\ stack # <<>> /\ seen = Range(order) \cup OnStack
      /\ Len(order) \in Nat
  BY RangeIs DEF C!Search, FirstInv, FirstTyped, FirstPass
<1>2. /\ n \in Nat /\ n >= 1 /\ n \in 1 .. n /\ C!Last(stack) = stack[n]
      /\ \A i \in 1 .. n : stack[i] \in Frames /\ stack[i].node \in Nodes
      /\ stack = [i \in 1 .. n |-> stack[i]]
  <2>1. n \in Nat /\ n >= 1 /\ C!Last(stack) = stack[n] /\ \A i \in 1 .. n : stack[i] \in Frames
    BY <1>1, FrontOf, RangeIs
  <2>2. stack = [i \in 1 .. n |-> stack[i]]
    BY <1>1, LenProperties
  <2> HIDE DEF n
  <2> QED BY <2>1, <2>2 DEF Frames
<1>3. \/ order' = Append(order, v) /\ stack' = C!Front(stack)
      \/ order' = order /\ x \notin seen /\ stack' = Append(tried, f)
      \/ order' = order /\ stack' = tried
  BY <1>2 DEF C!Search, C!Finished, C!Fresh
<1>4. /\ Len(tried) = n /\ \A i \in 1 .. n : tried[i].node = stack[i].node
      /\ tried = [i \in 1 .. n |-> IF i = n THEN [stack[n] EXCEPT !.next = next + 1] ELSE stack[i]]
  <2>1. tried = [i \in 1 .. n |-> IF i = n THEN [stack[n] EXCEPT !.next = next + 1] ELSE stack[i]]
    <3>1. tried = [i \in DOMAIN stack |-> IF i = n THEN [stack[n] EXCEPT !.next = next + 1] ELSE stack[i]]
      BY <1>2
    <3> QED BY <1>2, <3>1
  <2>2. [stack[n] EXCEPT !.next = next + 1].node = stack[n].node
    BY <1>2 DEF Frames
  <2> HIDE DEF tried
  <2>3. Len(tried) = n
    BY <1>2, <2>1
  <2> QED BY <1>2, <2>1, <2>2, <2>3
<1>5. f.node = x
  OBVIOUS
<1>6. OnStack = {stack[i].node : i \in 1 .. n}
  BY DEF OnStack
<1> HIDE DEF n, v, next, row, x, tried, f
<1>7. CASE order' = Append(order, v) /\ stack' = C!Front(stack)
  <2>1. Len(stack') = n - 1 /\ \A i \in 1 .. n - 1 : stack'[i] = stack[i] /\ i \in 1 .. n /\ i # n
    <3> DEFINE front == C!Front(stack)
    <3>1. Len(front) = n - 1 /\ \A i \in 1 .. n - 1 : front[i] = stack[i] /\ i \in 1 .. n
      BY <1>1, FrontOf DEF n
    <3>2. stack' = front
      BY <1>7
    <3> HIDE DEF front
    <3>3. n \in Nat
      BY <1>2
    <3>4. \A i \in 1 .. n - 1 : i # n
      BY <3>3
    <3> QED BY <3>1, <3>2, <3>4
  <2>2. v \in Nodes /\ v = stack[n].node
    BY <1>2 DEF v
  <2>3. /\ Len(order') = Len(order) + 1 /\ order'[Len(order) + 1] = v
        /\ \A i \in 1 .. Len(order) : order'[i] = order[i]
    BY <1>1, <1>7, <2>2, Appended
  <2>4. \A i \in 1 .. Len(order') : i \in 1 .. Len(order) \/ i = Len(order) + 1
    BY <1>1, <2>3
  <2>5. \A i \in 1 .. Len(order) : order[i] # v
    BY <1>2, <2>2 DEF Once, n
  <2>6. \A i, j \in 1 .. Len(order') : i # j => order'[i] # order'[j]
    BY <2>3, <2>4, <2>5 DEF Once
  <2>7. \A i, j \in 1 .. Len(stack') : i # j => stack'[i].node # stack'[j].node
    BY <2>1 DEF Once, n
  <2>8. \A j \in 1 .. Len(stack') : stack'[j].node # v
    BY <1>2, <2>1, <2>2 DEF Once, n
  <2>9. \A i \in 1 .. Len(order'), j \in 1 .. Len(stack') : order'[i] # stack'[j].node
    <3> SUFFICES ASSUME NEW i \in 1 .. Len(order'), NEW j \in 1 .. Len(stack') PROVE order'[i] # stack'[j].node
      OBVIOUS
    <3>1. CASE i \in 1 .. Len(order)
      <4>1. order'[i] = order[i] /\ stack'[j] = stack[j] /\ j \in 1 .. n
        BY <2>1, <2>3, <3>1
      <4> QED BY <3>1, <4>1 DEF Once, n
    <3>2. CASE i = Len(order) + 1
      BY <2>3, <2>8, <3>2
    <3> QED BY <2>4, <3>1, <3>2
  <2> QED BY <2>6, <2>7, <2>9 DEF Once
<1>8. CASE order' = order /\ x \notin seen /\ stack' = Append(tried, f)
  <2>1. Len(stack') = n + 1 /\ stack'[n + 1].node = x /\ \A i \in 1 .. n : stack'[i].node = stack[i].node
    <3>1. Len(stack') = n + 1 /\ stack'[n + 1] = f /\ \A i \in 1 .. n : stack'[i] = tried[i]
      BY <1>2, <1>4, <1>8
    <3> QED BY <1>4, <1>5, <3>1
  <2>2. \A i \in 1 .. n + 1 : i \in 1 .. n \/ i = n + 1
    BY <1>2
  <2>3. \A i \in 1 .. n : stack[i].node # x
    BY <1>1, <1>6, <1>8
  <2>4. \A i \in 1 .. Len(order) : order[i] # x
    BY <1>1, <1>8, RangeIs
  <2>5. \A i, j \in 1 .. Len(stack') : i # j => stack'[i].node # stack'[j].node
    BY <2>1, <2>2, <2>3 DEF Once, n
  <2>6. \A i \in 1 .. Len(order'), j \in 1 .. Len(stack') : order'[i] # stack'[j].node
    BY <1>8, <2>1, <2>2, <2>4 DEF Once, n
  <2> QED BY <1>8, <2>5, <2>6 DEF Once
<1>9. CASE order' = order /\ stack' = tried
  BY <1>4, <1>9 DEF Once, n
<1> QED BY <1>3, <1>7, <1>8, <1>9

-----------------------------------------------------------------------------
(* Strong components.                                                      *)

\* Strong components are classes, and a node's own is among them.
LEMMA StrongClass ==
  ASSUME NEW x \in Nodes
  PROVE  /\ x \in StrongComponent(x) /\ StrongComponent(x) \subseteq Nodes
         /\ \A y \in StrongComponent(x) : x \in StrongComponent(y) /\ StrongComponent(y) = StrongComponent(x)
         /\ \A y \in Reach(x, Arcs) : x \in Reach(y, Arcs) => y \in StrongComponent(x)
<1>1. \A z \in Nodes : z \in Reach(z, Arcs) /\ Reach(z, Arcs) \subseteq Nodes
  BY ScannedArcs, ReachLeast
<1>2. \A z \in Nodes : \A y \in Reach(z, Arcs) : y \in Nodes /\ Reach(y, Arcs) \subseteq Reach(z, Arcs)
  BY ScannedArcs, ReachJoins
<1>3. ASSUME NEW y \in StrongComponent(x)
      PROVE  x \in StrongComponent(y) /\ StrongComponent(y) = StrongComponent(x)
  <2>1. y \in Nodes /\ y \in Reach(x, Arcs) /\ x \in Reach(y, Arcs)
    BY <1>1, <1>3 DEF StrongComponent
  <2>2. Reach(y, Arcs) = Reach(x, Arcs)
    BY <1>2, <2>1
  <2>3. ASSUME NEW z \in Reach(x, Arcs) PROVE y \in Reach(z, Arcs) <=> x \in Reach(z, Arcs)
    BY <1>2, <2>1, <2>3
  <2> QED BY <2>1, <2>2, <2>3 DEF StrongComponent
<1> QED BY <1>1, <1>3 DEF StrongComponent

\* A nonempty set of indices has a greatest one.
LEMMA GreatestOf ==
  ASSUME NEW n \in Nat, NEW S, S \subseteq 1 .. n, S # {}
  PROVE  \E m \in S : \A k \in S : k <= m
<1> DEFINE T == {n - k : k \in S}
<1>1. T \subseteq Nat /\ T # {}
  OBVIOUS
<1>2. PICK t \in T : \A k \in T : t <= k
  <2> HIDE DEF T
  <2> QED BY <1>1, LeastExists
<1>3. PICK m \in S : t = n - m
  OBVIOUS
<1>4. ASSUME NEW k \in S PROVE k <= m
  <2>1. t <= n - k /\ k \in 1 .. n /\ m \in 1 .. n
    BY <1>2
  <2> QED BY <1>3, <2>1
<1> QED BY <1>4

\* The last node of a component finishes after what the component leads to.
LEMMA FinishLast ==
  ASSUME order \in Seq(Nodes), Once, NestedIn(order, Arcs),
         NEW i \in 1 .. Len(order), NEW j \in 1 .. Len(order), i < j,
         order[j] \in Reach(order[i], Arcs), order[j] \notin StrongComponent(order[i])
  PROVE  \E x \in StrongComponent(order[i]) : \A k \in 1 .. j : order[k] # x
<1> SUFFICES ASSUME \A x \in StrongComponent(order[i]) : \E k \in 1 .. j : order[k] = x PROVE FALSE
  OBVIOUS
<1>1. Len(order) \in Nat /\ \A k \in 1 .. Len(order) : order[k] \in Nodes
  BY RangeIs
<1> DEFINE K == {k \in 1 .. j : order[k] \in StrongComponent(order[i])}
<1>2. i \in K
  <2>1. order[i] \in StrongComponent(order[i])
    BY <1>1, StrongClass
  <2> QED BY <1>1, <2>1
<1>3. PICK l \in K : \A k \in K : k <= l
  <2>1. K \subseteq 1 .. j /\ j \in Nat
    BY <1>1
  <2> HIDE DEF K
  <2> QED BY <1>2, <2>1, GreatestOf
<1>4. /\ l \in 1 .. j /\ l # j /\ l < j /\ l \in 1 .. Len(order) /\ i \in 1 .. l
      /\ order[l] \in StrongComponent(order[i])
  <2>1. l \in 1 .. j /\ order[l] \in StrongComponent(order[i]) /\ l # j /\ i <= l
    BY <1>2, <1>3
  <2> QED BY <1>1, <2>1
<1>5. ASSUME NEW x \in StrongComponent(order[i]) PROVE \E k \in 1 .. l : order[k] = x
  <2>1. PICK k \in 1 .. j : order[k] = x
    OBVIOUS
  <2>2. k <= l
    BY <1>3, <1>5, <2>1
  <2> QED BY <1>4, <2>1, <2>2
<1> HIDE DEF K
<1> DEFINE P == {order[k] : k \in 1 .. l}
           Z == Reach(order[i], Arcs) \cap P
<1>6. order[i] \in Z
  BY <1>1, <1>4, ReachLeast, ScannedArcs
<1>7. order[j] \notin P
  <2>1. \A k \in 1 .. l : k \in 1 .. Len(order) /\ k # j
    BY <1>1, <1>4
  <2> QED BY <2>1 DEF Once
<1>8. ~Stable(Z, Arcs)
  <2> SUFFICES ASSUME Stable(Z, Arcs) PROVE FALSE
    OBVIOUS
  <2>1. Reach(order[i], Arcs) \subseteq Z
    <3> HIDE DEF Z
    <3> QED BY <1>1, <1>6, ReachLeast, ScannedArcs
  <2> QED BY <1>7, <2>1
<1>9. PICK a \in Arcs : a[1] \in Z /\ a[2] \notin Z
  BY <1>8 DEF Stable
<1>10. a[1] \in Nodes /\ a[2] \in Nodes /\ a = <<a[1], a[2]>>
  BY ArcEnds
<1>11. a[2] \in Reach(order[i], Arcs) /\ a[2] \notin P
  <2>1. Stable(Reach(order[i], Arcs), Arcs)
    BY <1>1, ReachLeast, ScannedArcs
  <2> QED BY <1>9, <2>1 DEF Stable
<1>12. PICK m \in 1 .. l : a[1] = order[m]
  BY <1>9
<1>13. order[l] \in Reach(a[2], Arcs)
  BY <1>4, <1>10, <1>11, <1>12 DEF NestedIn
<1>14. order[i] \in Reach(a[2], Arcs)
  <2>1. order[i] \in Reach(order[l], Arcs)
    BY <1>4 DEF StrongComponent
  <2> QED BY <1>10, <1>13, <2>1, ReachJoins, ScannedArcs
<1>15. a[2] \in StrongComponent(order[i])
  BY <1>1, <1>11, <1>14, StrongClass
<1> QED BY <1>5, <1>11, <1>15

-----------------------------------------------------------------------------
(* The second pass of the strong kernel.                                   *)

Current == members \cup Range(work)
Done == {y \in Nodes : labels[y] # None} \ Current

\* The component being collected is one of the last node to finish of those
\* not done, and what leads to its members has a label.
Collecting(j) ==
  /\ order[j] \in Current
  /\ \A y \in Current : labels[y] = order[j] /\ y \in StrongComponent(order[j])
  /\ \A m \in 1 .. Len(order) : j < m => order[m] \in Done

SecondPass ==
  /\ Range(order) = Nodes
  /\ \A y \in Current : labels[y] # None
  /\ \A y \in Done : StrongComponent(y) \subseteq Done /\ labels[y] = C!Least(StrongComponent(y))
  /\ \A y \in members, x \in Nodes : <<x, y>> \in Arcs => labels[x] # None
  /\ Current # {} => \E j \in 1 .. Len(order) : Collecting(j)
  /\ pc = "ok" => Done = Nodes

StrongInv ==
  /\ pc \in {"search", "collect", "ok"} /\ FirstTyped /\ NestedIn(order, Arcs) /\ Once
  /\ pc = "search" => FirstPass /\ work = <<>> /\ members = {} /\ \A y \in Nodes : labels[y] = None
  /\ pc # "search" => SecondPass

\* A node that is not done and leads to the component is of the component.
LEMMA LeadsIn ==
  ASSUME FirstTyped, NestedIn(order, Arcs), Once, SecondPass, NEW j \in 1 .. Len(order), Collecting(j),
         NEW x \in Nodes, x \notin Done, order[j] \in Reach(x, Arcs)
  PROVE  x \in StrongComponent(order[j])
<1>1. order \in Seq(Nodes) /\ Range(order) = {order[i] : i \in 1 .. Len(order)} /\ Len(order) \in Nat /\ order[j] \in Nodes
  BY RangeIs DEF FirstTyped
<1>2. PICK i \in 1 .. Len(order) : x = order[i]
  BY <1>1 DEF SecondPass
<1>3. ~(j < i)
  BY <1>2 DEF Collecting
<1>4. CASE i = j
  BY <1>1, <1>2, <1>4, StrongClass
<1>5. CASE i < j
  <2>1. CASE order[j] \in StrongComponent(x)
    BY <2>1, StrongClass
  <2>2. CASE order[j] \notin StrongComponent(x)
    <3>1. PICK z \in StrongComponent(x) : \A k \in 1 .. j : order[k] # z
      BY <1>1, <1>2, <1>5, <2>2, FinishLast
    <3>2. z \in Nodes /\ x \in StrongComponent(z)
      BY <3>1, StrongClass
    <3>3. PICK m \in 1 .. Len(order) : z = order[m]
      BY <1>1, <3>2 DEF SecondPass
    <3>4. j < m
      BY <1>1, <3>1, <3>3
    <3>5. z \in Done
      BY <3>3, <3>4 DEF Collecting
    <3>6. x \in Done
      BY <3>2, <3>5 DEF SecondPass
    <3> QED BY <3>6
  <2> QED BY <2>1, <2>2
<1> QED BY <1>1, <1>3, <1>4, <1>5

\* When no node waits, the component is complete.
LEMMA Collected ==
  ASSUME FirstTyped, SecondPass, work = <<>>, NEW j \in 1 .. Len(order), Collecting(j)
  PROVE  members = StrongComponent(order[j])
<1>1. Current = members /\ members \subseteq Nodes /\ order[j] \in Nodes
  <2>1. Range(work) = {}
    BY DEF Range
  <2> QED BY <2>1, RangeIs DEF Current, FirstTyped
<1>2. members \subseteq StrongComponent(order[j]) /\ order[j] \in members
  BY <1>1 DEF Collecting
<1>3. StrongComponent(order[j]) \cap Done = {}
  <2> SUFFICES ASSUME NEW y \in StrongComponent(order[j]), y \in Done PROVE FALSE
    OBVIOUS
  <2>1. order[j] \in StrongComponent(y)
    BY <1>1, StrongClass
  <2>2. order[j] \in Done
    BY <2>1 DEF SecondPass
  <2> QED BY <1>1, <1>2, <2>2 DEF Done
<1>4. ASSUME NEW x \in StrongComponent(order[j]), x \notin members PROVE FALSE
  <2>1. x \in Nodes /\ order[j] \in Reach(x, Arcs) /\ x \in Reach(order[j], Arcs)
    BY <1>1, <1>4, StrongClass DEF StrongComponent
  <2> DEFINE Z == Reach(x, Arcs) \ members
  <2>2. x \in Z
    BY <1>4, <2>1, ReachLeast, ScannedArcs
  <2>3. ASSUME NEW a \in Arcs, a[1] \in Z, a[2] \notin Z PROVE FALSE
    <3>1. a[1] \in Nodes /\ a[2] \in Nodes /\ a = <<a[1], a[2]>>
      BY ArcEnds
    <3>2. Stable(Reach(x, Arcs), Arcs)
      BY <2>1, ReachLeast, ScannedArcs
    <3>3. a[2] \in members
      BY <2>3, <3>2 DEF Stable
    <3>4. labels[a[1]] # None
      BY <3>1, <3>3 DEF SecondPass
    <3>5. a[1] \in Done
      BY <1>1, <2>3, <3>1, <3>4 DEF Done
    <3>6. a[1] \in StrongComponent(order[j])
      <4>1. a[2] \in Reach(a[1], Arcs)
        <5>1. a[1] \in Reach(a[1], Arcs) /\ Stable(Reach(a[1], Arcs), Arcs)
          BY <3>1, ReachLeast, ScannedArcs
        <5> QED BY <5>1 DEF Stable
      <4>2. order[j] \in Reach(a[2], Arcs)
        BY <1>2, <3>3 DEF StrongComponent
      <4>3. order[j] \in Reach(a[1], Arcs)
        BY <3>1, <4>1, <4>2, ReachJoins, ScannedArcs
      <4>4. a[1] \in Reach(order[j], Arcs)
        <5>1. a[1] \in Reach(x, Arcs)
          BY <2>3
        <5> QED BY <1>1, <2>1, <5>1, ReachJoins, ScannedArcs
      <4> QED BY <1>1, <4>3, <4>4, StrongClass
    <3> QED BY <1>3, <3>5, <3>6
  <2>4. Stable(Z, Arcs)
    <3> HIDE DEF Z
    <3> QED BY <2>3 DEF Stable
  <2>5. Reach(x, Arcs) \subseteq Z
    <3> HIDE DEF Z
    <3> QED BY <2>1, <2>2, <2>4, ReachLeast, ScannedArcs
  <2> QED BY <1>2, <2>1, <2>5
<1> QED BY <1>2, <1>4

\* When all nodes are finished the second pass begins with nothing done.
LEMMA SearchedSecond ==
  ASSUME StrongInv, C!Searched, kernel' = kernel, Arcs' = Arcs
  PROVE  StrongInv'
<1>1. /\ pc = "search" /\ stack = <<>> /\ seen = Nodes /\ pc' = "collect" /\ seen' = seen /\ order' = order
      /\ stack' = stack /\ labels' = labels /\ work' = work /\ members' = members
  BY DEF C!Searched, C!weak, C!first, C!second, C!Nodes, Nodes
<1>2. FirstPass /\ work = <<>> /\ members = {} /\ \A y \in Nodes : labels[y] = None
  BY <1>1 DEF StrongInv
<1>3. FirstTyped' /\ NestedIn(order, Arcs)' /\ Once'
  BY <1>1 DEF StrongInv, FirstTyped, Once
<1>4. Range(order') = Nodes
  <2>1. OnStack = {}
    BY <1>1 DEF OnStack
  <2> QED BY <1>1, <1>2, <2>1 DEF FirstPass
<1>5. Current' = {} /\ Done' = {}
  <2>1. Range(work') = {}
    BY <1>1, <1>2 DEF Range
  <2> QED BY <1>1, <1>2, <2>1 DEF Current, Done
<1>6. SecondPass'
  BY <1>1, <1>2, <1>4, <1>5 DEF SecondPass
<1> QED BY <1>1, <1>3, <1>6 DEF StrongInv

\* The last finished node that is not labelled begins a component.
LEMMA StartSecond ==
  ASSUME StrongInv, C!StartComponent, Arcs' = Arcs
  PROVE  StrongInv'
<1>1. /\ pc = "collect" /\ work = <<>> /\ members = {} /\ seen' = seen /\ order' = order
      /\ stack' = stack /\ members' = members
  BY DEF C!StartComponent, C!weak, C!first
<1>2. SecondPass /\ FirstTyped
  BY <1>1 DEF StrongInv
<1>3. Current = {} /\ Done = {y \in Nodes : labels[y] # None}
  <2>1. Range(work) = {}
    BY <1>1 DEF Range
  <2> QED BY <1>1, <2>1 DEF Current, Done
<1>4. order \in Seq(Nodes) /\ DOMAIN order = 1 .. Len(order) /\ Len(order) \in Nat
      /\ Range(order) = {order[i] : i \in 1 .. Len(order)} /\ \A i \in 1 .. Len(order) : order[i] \in Nodes
  BY <1>2, RangeIs, LenProperties DEF FirstTyped
<1>5. NestedIn(order, Arcs)' /\ Once'
  BY <1>1 DEF StrongInv, Once
<1>6. CASE C!Unlabelled = {}
  <2>1. pc' = "ok" /\ work' = work /\ labels' = labels
    BY <1>6 DEF C!StartComponent
  <2>2. \A i \in 1 .. Len(order) : labels[order[i]] # None
    BY <1>4, <1>6 DEF C!Unlabelled
  <2>3. Done = Nodes
    <3>1. \A y \in Nodes : labels[y] # None
      BY <1>2, <1>4, <2>2 DEF SecondPass
    <3> QED BY <1>3, <3>1
  <2>4. Current' = Current /\ Done' = Done /\ \A y \in Nodes : StrongComponent(y)' = StrongComponent(y)
    BY <1>1, <2>1 DEF Current, Done, StrongComponent
  <2>5. SecondPass'
    BY <1>1, <1>2, <1>3, <2>1, <2>3, <2>4 DEF SecondPass
  <2>6. FirstTyped'
    BY <1>1, <1>2, <2>1 DEF FirstTyped
  <2> QED BY <1>5, <2>1, <2>5, <2>6 DEF StrongInv
<1>7. CASE C!Unlabelled # {}
  <2>1. PICK j \in C!Unlabelled : j = C!NextInReverse(C!Unlabelled) /\ \A k \in C!Unlabelled : k <= j
    <3>1. C!Unlabelled \subseteq 1 .. Len(order)
      BY <1>4 DEF C!Unlabelled
    <3>2. \E m \in C!Unlabelled : \A k \in C!Unlabelled : k <= m
      BY <1>4, <1>7, <3>1, GreatestOf
    <3>3. C!NextInReverse(C!Unlabelled) \in C!Unlabelled /\ \A k \in C!Unlabelled : k <= C!NextInReverse(C!Unlabelled)
      BY <3>2 DEF C!NextInReverse
    <3> QED BY <3>3
  <2>2. PICK start \in Nodes : start = order[j]
    BY <1>4, <2>1 DEF C!Unlabelled
  <2>3. work' = <<start>> /\ labels' = [labels EXCEPT ![start] = start] /\ pc' = "collect"
    BY <1>1, <1>7, <2>1, <2>2 DEF C!StartComponent
  <2>4. j \in 1 .. Len(order) /\ start \in Nodes /\ labels[start] = None
    BY <1>4, <2>1, <2>2 DEF C!Unlabelled
  <2>5. /\ labels' \in [Nodes -> Nodes \cup {None}] /\ labels'[start] = start
        /\ \A y \in Nodes : y # start => labels'[y] = labels[y]
    BY <1>2, <2>3, <2>4 DEF FirstTyped
  <2>6. start # None
    BY <2>4, Constant
  <2>7. work' \in Seq(Nodes) /\ Range(work') = {start}
    BY <2>3, <2>4 DEF Range
  <2>8. Current' = {start}
    BY <1>1, <2>7 DEF Current
  <2>9. Done' = Done
    BY <1>3, <2>4, <2>5, <2>8 DEF Done
  <2>10. \A y \in Nodes : StrongComponent(y)' = StrongComponent(y)
    BY DEF StrongComponent
  <2>11. \A m \in 1 .. Len(order) : j < m => order[m] \in Done
    <3> SUFFICES ASSUME NEW m \in 1 .. Len(order), j < m PROVE order[m] \in Done
      OBVIOUS
    <3>1. m \notin C!Unlabelled
      BY <1>4, <2>1, <2>4
    <3>2. labels[order[m]] # None /\ order[m] \in Nodes
      BY <1>4, <3>1 DEF C!Unlabelled
    <3> QED BY <1>3, <3>2
  <2>12. Collecting(j)'
    <3>1. start \in StrongComponent(start)
      BY <2>4, StrongClass
    <3>2. StrongComponent(start)' = StrongComponent(start)
      BY <2>4, <2>10
    <3>3. order'[j] = start
      BY <1>1, <2>2
    <3>4. StrongComponent(order[j])' = StrongComponent(start)
      BY <3>3 DEF StrongComponent
    <3> QED BY <1>1, <2>5, <2>8, <2>9, <2>11, <3>1, <3>3, <3>4 DEF Collecting
  <2>13. \A y \in Done : labels'[y] = labels[y]
    BY <1>3, <2>4, <2>5
  <2>14. SecondPass'
    <3>1. \A y \in Done' : StrongComponent(y)' \subseteq Done' /\ labels'[y] = C!Least(StrongComponent(y)')
      <4>1. Done \subseteq Nodes
        BY DEF Done
      <4> QED BY <1>2, <2>9, <2>10, <2>13, <4>1 DEF SecondPass
    <3>2. \E k \in 1 .. Len(order') : Collecting(k)'
      BY <1>1, <2>4, <2>12
    <3> QED BY <1>1, <1>2, <2>3, <2>5, <2>6, <2>8, <3>1, <3>2 DEF SecondPass
  <2>15. FirstTyped'
    BY <1>1, <1>2, <2>5, <2>7 DEF FirstTyped
  <2> QED BY <1>5, <2>3, <2>14, <2>15 DEF StrongInv
<1> QED BY <1>6, <1>7

\* What is collected leads to the first of the component, and is reached from
\* it.
LEMMA CollectSecond ==
  ASSUME StrongInv, C!Collect, Arcs' = Arcs
  PROVE  StrongInv'
<1>1. /\ pc = "collect" /\ pc' = "collect" /\ work # <<>> /\ seen' = seen /\ order' = order /\ stack' = stack
  BY DEF C!Collect, C!weak, C!first
<1>2. SecondPass /\ FirstTyped /\ NestedIn(order, Arcs) /\ Once
  BY <1>1 DEF StrongInv
<1>3. order \in Seq(Nodes) /\ work \in Seq(Nodes) /\ members \subseteq Nodes /\ labels \in [Nodes -> Nodes \cup {None}]
      /\ \A i \in 1 .. Len(order) : order[i] \in Nodes
  BY <1>2, RangeIs DEF FirstTyped
<1>4. PICK v \in Nodes : v = C!Last(work)
  BY <1>1, <1>3, FrontOf
<1>5. PICK S \in SUBSET Nodes : S = {x \in C!Incoming(v) : labels[x] = None}
  BY DEF C!Incoming, C!Nodes, Nodes
<1> DEFINE fresh == C!InOrder(S)
           front == C!Front(work)
<1>6. /\ members' = members \cup {v} /\ work' = front \o fresh
      /\ labels' = [x \in Nodes |-> IF x \in Range(fresh) THEN labels[v] ELSE labels[x]]
  BY <1>4, <1>5 DEF C!Collect, C!Range, Range, C!Nodes, Nodes
<1>7. front \in Seq(Nodes) /\ Range(work) = Range(front) \cup {v}
  BY <1>1, <1>3, <1>4, FrontOf
<1>8. fresh \in Seq(Nodes) /\ Range(fresh) = S
  <2> DEFINE s == InOrder(S)
             n == Cardinality(S)
  <2>1. /\ s \in Seq(S) /\ Len(s) = n /\ n \in Nat /\ \A y \in S : \E i \in 1 .. n : s[i] = y
    BY InOrderLists
  <2>2. fresh = s
    BY OrdersSame
  <2> HIDE DEF s, n, fresh
  <2>3. Range(s) = {s[i] : i \in 1 .. n} /\ \A i \in 1 .. n : s[i] \in S
    BY <2>1, RangeIs
  <2>4. \A i \in 1 .. n : s[i] \in Nodes
    BY <2>3
  <2>5. s \in Seq(Nodes)
    BY <2>1, <2>4, SeqMonotonic
  <2> QED BY <2>1, <2>2, <2>3, <2>5
<1> HIDE DEF fresh, front
<1>9. work' \in Seq(Nodes) /\ Range(work') = Range(front) \cup S
  <2>1. Range(front \o fresh) = Range(front) \cup Range(fresh)
    BY <1>7, <1>8, RangeConcatenation
  <2>2. front \o fresh \in Seq(Nodes)
    BY <1>7, <1>8, ConcatProperties
  <2> QED BY <1>6, <1>8, <2>1, <2>2
<1>10. Current' = Current \cup S /\ v \in Current
  BY <1>6, <1>7, <1>9 DEF Current
<1>11. \A x \in S : labels[x] = None /\ <<x, v>> \in Arcs /\ x \notin Done /\ x \notin Current
  <2>1. \A x \in S : labels[x] = None /\ <<x, v>> \in Arcs
    BY <1>5 DEF C!Incoming
  <2> QED BY <1>2, <2>1 DEF SecondPass, Done
<1>12. PICK j \in 1 .. Len(order) : Collecting(j)
  BY <1>2, <1>10 DEF SecondPass
<1>13. PICK r \in Nodes : r = order[j]
  BY <1>3
<1>14. /\ r \in Current /\ \A y \in Current : labels[y] = r /\ y \in StrongComponent(r)
       /\ \A m \in 1 .. Len(order) : j < m => order[m] \in Done
  BY <1>12, <1>13 DEF Collecting
<1>15. r # None /\ labels[v] = r
  BY <1>10, <1>14, Constant
<1>16. labels' = [x \in Nodes |-> IF x \in S THEN r ELSE labels[x]]
  BY <1>6, <1>8, <1>15
<1>17. labels' \in [Nodes -> Nodes \cup {None}]
  BY <1>3, <1>16
<1>18. Done' = Done
  <2>1. \A y \in Nodes : labels'[y] # None <=> labels[y] # None \/ y \in S
    BY <1>15, <1>16
  <2>2. ASSUME NEW y \in Nodes PROVE y \in Done' <=> y \in Done
    BY <1>10, <1>11, <2>1 DEF Done
  <2>3. Done \subseteq Nodes /\ Done' \subseteq Nodes
    BY DEF Done
  <2> QED BY <2>2, <2>3
<1>19. ASSUME NEW x \in S PROVE x \in StrongComponent(r)
  <2>1. r \in Reach(v, Arcs)
    <3>1. v \in StrongComponent(r)
      BY <1>10, <1>14
    <3> QED BY <3>1 DEF StrongComponent
  <2>2. v \in Reach(x, Arcs)
    <3>1. x \in Reach(x, Arcs) /\ Stable(Reach(x, Arcs), Arcs) /\ <<x, v>> \in Arcs
      BY <1>11, ReachLeast, ScannedArcs
    <3> QED BY <3>1 DEF Stable
  <2>3. r \in Reach(x, Arcs)
    BY <2>1, <2>2, ReachJoins, ScannedArcs
  <2> QED BY <1>2, <1>11, <1>12, <1>13, <2>3, LeadsIn
<1>20. \A y \in Nodes : StrongComponent(y)' = StrongComponent(y)
  BY DEF StrongComponent
<1>21. Collecting(j)'
  <2>1. order'[j] = r /\ StrongComponent(order[j])' = StrongComponent(r)
    BY <1>1, <1>13 DEF StrongComponent
  <2>2. ASSUME NEW y \in Current' PROVE labels'[y] = r /\ y \in StrongComponent(r)
    <3>1. CASE y \in S
      BY <1>16, <1>19, <3>1
    <3>2. CASE y \in Current /\ y \notin S
      <4>1. y \in Nodes
        BY <1>14, <3>2, StrongClass
      <4> QED BY <1>14, <1>16, <3>2, <4>1
    <3> QED BY <1>10, <2>2, <3>1, <3>2
  <2>3. r \in Current'
    BY <1>10, <1>14
  <2> QED BY <1>1, <1>14, <1>18, <2>1, <2>2, <2>3 DEF Collecting
<1>22. \A y \in members', x \in Nodes : <<x, y>> \in Arcs => labels'[x] # None
  <2> SUFFICES ASSUME NEW y \in members', NEW x \in Nodes, <<x, y>> \in Arcs PROVE labels'[x] # None
    OBVIOUS
  <2>1. CASE y = v
    <3>1. labels[x] = None => x \in S
      <4>1. x \in C!Incoming(v)
        BY <2>1 DEF C!Incoming, C!Nodes, Nodes
      <4> QED BY <1>5, <4>1
    <3> QED BY <1>15, <1>16, <3>1
  <2>2. CASE y \in members
    <3>1. labels[x] # None
      BY <1>2, <2>2 DEF SecondPass
    <3> QED BY <1>15, <1>16, <3>1
  <2> QED BY <1>6, <2>1, <2>2
<1>23. SecondPass'
  <2>1. \A y \in Done' : StrongComponent(y)' \subseteq Done' /\ labels'[y] = C!Least(StrongComponent(y)')
    <3>1. \A y \in Done : y \in Nodes /\ labels'[y] = labels[y]
      BY <1>11, <1>16 DEF Done
    <3> QED BY <1>2, <1>18, <1>20, <3>1 DEF SecondPass
  <2>2. \E k \in 1 .. Len(order') : Collecting(k)'
    BY <1>1, <1>21
  <2>3. \A y \in Current' : labels'[y] # None
    <3>1. \A y \in Current' : labels'[y] = r
      BY <1>1, <1>13, <1>21 DEF Collecting
    <3> QED BY <1>15, <3>1
  <2> QED BY <1>1, <1>2, <1>22, <2>1, <2>2, <2>3 DEF SecondPass
<1>24. FirstTyped'
  BY <1>1, <1>2, <1>4, <1>6, <1>9, <1>17 DEF FirstTyped
<1>25. NestedIn(order, Arcs)' /\ Once'
  BY <1>1, <1>2 DEF Once
<1> QED BY <1>1, <1>23, <1>24, <1>25 DEF StrongInv

\* A component that is complete gets its least node as label.
LEMMA EndSecond ==
  ASSUME StrongInv, C!EndComponent, Arcs' = Arcs
  PROVE  StrongInv'
<1>1. /\ pc = "collect" /\ pc' = "collect" /\ work = <<>> /\ work' = <<>> /\ seen' = seen /\ order' = order
      /\ stack' = stack /\ members # {} /\ members' = {}
      /\ labels' = [v \in Nodes |-> IF v \in members THEN C!Least(members) ELSE labels[v]]
  BY DEF C!EndComponent, C!weak, C!first, C!Nodes, Nodes
<1>2. SecondPass /\ FirstTyped /\ NestedIn(order, Arcs) /\ Once
  BY <1>1 DEF StrongInv
<1>3. Range(work) = {} /\ Current = members /\ Current' = {} /\ members \subseteq Nodes
      /\ \A i \in 1 .. Len(order) : order[i] \in Nodes
  <2>1. Range(work) = {} /\ Range(work') = {}
    BY <1>1 DEF Range
  <2> QED BY <1>1, <1>2, <2>1, RangeIs DEF Current, FirstTyped
<1>4. PICK j \in 1 .. Len(order) : Collecting(j)
  BY <1>1, <1>2, <1>3 DEF SecondPass
<1>5. members = StrongComponent(order[j]) /\ order[j] \in Nodes
  BY <1>1, <1>2, <1>3, <1>4, Collected
<1>6. \A y \in members : StrongComponent(y) = members
  BY <1>5, StrongClass
<1>7. C!Least(members) \in Nodes /\ C!Least(members) # None
  BY <1>1, <1>3, LeastOf, Constant
<1>8. Done' = Done \cup members
  <2>1. \A y \in Nodes : labels'[y] # None <=> labels[y] # None \/ y \in members
    BY <1>1, <1>7
  <2>2. Done = {y \in Nodes : labels[y] # None} \ members /\ Done' = {y \in Nodes : labels'[y] # None}
    BY <1>3 DEF Done
  <2> QED BY <1>3, <2>1, <2>2
<1>9. \A y \in Nodes : StrongComponent(y)' = StrongComponent(y)
  BY DEF StrongComponent
<1>10. ASSUME NEW y \in Done' PROVE StrongComponent(y)' \subseteq Done' /\ labels'[y] = C!Least(StrongComponent(y)')
  <2>1. CASE y \in members
    <3>1. StrongComponent(y)' = members /\ labels'[y] = C!Least(members)
      BY <1>1, <1>3, <1>6, <1>9, <2>1
    <3> QED BY <1>8, <3>1
  <2>2. CASE y \in Done
    <3>1. y \in Nodes /\ y \notin members
      BY <1>3, <2>2 DEF Done
    <3>2. labels'[y] = labels[y] /\ StrongComponent(y)' = StrongComponent(y)
      BY <1>1, <1>9, <3>1
    <3> QED BY <1>2, <1>8, <2>2, <3>2 DEF SecondPass
  <2> QED BY <1>8, <1>10, <2>1, <2>2
<1>11. SecondPass'
  BY <1>1, <1>2, <1>3, <1>10 DEF SecondPass
<1>12. FirstTyped'
  BY <1>1, <1>2, <1>7 DEF FirstTyped
<1>13. NestedIn(order, Arcs)' /\ Once'
  BY <1>1, <1>2 DEF Once
<1> QED BY <1>1, <1>11, <1>12, <1>13 DEF StrongInv

\* At first nothing is seen.
LEMMA StrongInit ==
  ASSUME MCInit, kernel = "strong"
  PROVE  StrongInv
<1>1. /\ pc = "search" /\ seen = {} /\ order = <<>> /\ stack = <<>>
      /\ labels = [v \in Nodes |-> None] /\ work = <<>> /\ members = {}
  BY DEF MCInit, Init, C!Init, C!NoCall, C!Nodes, Nodes
<1>2. FirstTyped
  BY <1>1 DEF FirstTyped
<1>3. NestedIn(order, Arcs) /\ Once
  BY <1>1 DEF NestedIn, Once
<1>4. Range(order) = {} /\ OnStack = {}
  BY <1>1 DEF Range, OnStack
<1>5. FirstPass
  BY <1>1, <1>4 DEF FirstPass
<1> QED BY <1>1, <1>2, <1>3, <1>5 DEF StrongInv

\* StrongInv is inductive.
LEMMA StrongStep ==
  ASSUME StrongInv, MCNext, kernel = "strong"
  PROVE  StrongInv'
<1>1. C!Next /\ kernel' = kernel /\ Arcs' = Arcs
  BY ComponentStep DEF Traverses
<1>2. pc \in {"search", "collect", "ok"}
  BY DEF StrongInv
<1>3. CASE C!StartSearch \/ C!Search
  <2>1. pc = "search" /\ pc' = "search" /\ work' = work /\ members' = members /\ labels' = labels
    BY <1>3 DEF C!StartSearch, C!Search, C!second
  <2>2. FirstInv /\ Once
    BY <2>1 DEF StrongInv, FirstInv
  <2>3. FirstInv' /\ Once'
    BY <1>1, <1>3, <2>2, StartFirst, SearchFirst, StartOnce, SearchOnce
  <2> QED BY <2>1, <2>3 DEF StrongInv, FirstInv
<1>4. CASE C!Searched
  BY <1>1, <1>4, SearchedSecond
<1>5. CASE C!StartComponent \/ C!Collect \/ C!EndComponent
  BY <1>1, <1>5, StartSecond, CollectSecond, EndSecond
<1>6. CASE C!Union \/ C!NextRow \/ C!Flatten \/ C!FlattenNode
  BY <1>2, <1>6 DEF C!Union, C!NextRow, C!Flatten, C!FlattenNode
<1> QED BY <1>1, <1>3, <1>4, <1>5, <1>6 DEF C!Next

\* When the second pass ends every label is the least node of the strong
\* component.
LEMMA StrongFound ==
  ASSUME StrongInv
  PROVE  /\ FinishOrder
         /\ pc = "ok" => \A y \in Nodes : labels[y] = C!Least(StrongComponent(y))
<1>1. order \in Seq(Nodes) /\ DOMAIN order = 1 .. Len(order) /\ Once /\ NestedIn(order, Arcs)
  BY LenProperties DEF StrongInv, FirstTyped
<1>2. FinishOrder
  BY <1>1, FinishLast DEF FinishOrder
<1>3. pc = "ok" => SecondPass /\ Done = Nodes
  BY DEF StrongInv, SecondPass
<1> QED BY <1>2, <1>3 DEF SecondPass

ComponentInv ==
  /\ kernel = "weak" => WeakInv
  /\ kernel = "strong" => StrongInv

\* ComponentInv holds at first.
LEMMA ComponentInit == MCInit => ComponentInv
  BY WeakInit, StrongInit DEF ComponentInv

\* ComponentInv is inductive.
LEMMA ComponentNext == ComponentInv /\ [MCNext]_allVars => ComponentInv'
<1> SUFFICES ASSUME ComponentInv, [MCNext]_allVars PROVE ComponentInv'
  OBVIOUS
<1>1. CASE MCNext
  <2>1. kernel' = kernel
    BY <1>1, StepKinds
  <2> QED BY <1>1, <2>1, WeakStep, StrongStep DEF ComponentInv
<1>2. CASE UNCHANGED allVars
  <2>1. /\ weight' = weight /\ kernel' = kernel /\ pc' = pc /\ parent' = parent /\ u' = u /\ arc' = arc
        /\ seen' = seen /\ order' = order /\ stack' = stack /\ labels' = labels /\ work' = work /\ members' = members
    BY <1>2 DEF allVars, vars, graph, componentVars
  <2>2. Arcs' = Arcs
    BY <2>1 DEF Arcs
  <2>3. Scanned' = Scanned
    BY <2>1, <2>2 DEF Scanned, C!Outgoing
  <2>4. WeakInv' = WeakInv
    BY <2>1, <2>3 DEF WeakInv
  <2>5. FirstTyped' = FirstTyped /\ Once' = Once /\ NestedIn(order, Arcs)' = NestedIn(order, Arcs)
    BY <2>1, <2>2 DEF FirstTyped, Once
  <2>6. FirstPass' = FirstPass
    BY <2>1, <2>2 DEF FirstPass, OnStack, C!Outgoing
  <2>7. SecondPass' = SecondPass
    BY <2>1, <2>2 DEF SecondPass, Collecting, Current, Done, StrongComponent
  <2>8. StrongInv' = StrongInv
    BY <2>1, <2>5, <2>6, <2>7 DEF StrongInv
  <2> QED BY <2>1, <2>4, <2>8 DEF ComponentInv
<1> QED BY <1>1, <1>2

\* For every graph: the roots of weakly_connected_components are at every step
\* the least nodes the scanned arcs connect; in strongly_connected_components
\* the last node of a component finishes after all that it leads to; and both
\* label every node by the least of its component.
THEOREM ComponentsLabelled == MCSpec => []ComponentsFound
<1>1. Inv /\ ComponentInv => ComponentsFound
  <2> SUFFICES ASSUME Inv, ComponentInv PROVE ComponentsFound
    OBVIOUS
  <2>1. kernel = "weak" => ForestConnects
    BY WeakFound DEF ComponentInv
  <2>2. kernel = "strong" => FinishOrder
    BY StrongFound DEF ComponentInv
  <2>3. ASSUME kernel = "weak", pc = "ok" PROVE \A v \in Nodes : parent[v] = C!Least(WeakComponent(v, Arcs))
    BY <2>3, WeakFound DEF ComponentInv
  <2>4. ASSUME kernel = "strong", pc = "ok" PROVE \A v \in Nodes : labels[v] = C!Least(StrongComponent(v))
    BY <2>4, StrongFound DEF ComponentInv
  <2>5. ~Traverses => kernel \in {"weak", "strong"}
    BY DEF Inv, TypeOK, GraphOK, Kernels, Traverses
  <2> QED BY <2>1, <2>2, <2>3, <2>4, <2>5 DEF ComponentsFound
<1> QED BY InvAlways, ComponentInit, ComponentNext, <1>1, PTL DEF MCSpec
=============================================================================
