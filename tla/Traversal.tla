------------------------------- MODULE Traversal -------------------------------
(***************************************************************************)
(* icebug-algorithms: bfs and dijkstra_paths (dijkstra is dijkstra_paths   *)
(* without the visitor), arc by arc, while another holder of the context   *)
(* may cancel it. A kernel looks at the context when it takes a node, at   *)
(* every CheckEvery-th arc of a row and of a traced path.                  *)
(*                                                                         *)
(* Distances are integers; Top is the largest finite one and a sum above   *)
(* it is the overflow the code refuses. Rounding is not modelled.          *)
(***************************************************************************)
EXTENDS Integers, FiniteSets, SequencesExt, Bags

CONSTANTS
  NodeCount,    \* nodes are 0 .. NodeCount - 1
  Weights,      \* weights of arcs, negative ones too
  LoopNodes,    \* nodes that may have a self-loop
  MaxArcs,      \* bound on the arcs of a graph
  Top,          \* the largest finite distance
  CheckEvery,   \* 4096 in the code
  None

ASSUME TraversalAssumption ==
  /\ NodeCount \in Nat \ {0} /\ Weights \subseteq Int /\ None \notin Int
  /\ Top \in Nat /\ NodeCount - 1 <= Top    \* a count of nodes is a finite distance
  /\ CheckEvery \in Nat \ {0}

VARIABLES
  weight,     \* the graph: the weight of every arc, None where there is none
  source, kernel,
  pc,
  dist,
  queue,      \* bfs: VecDeque
  heap,       \* dijkstra: BinaryHeap, a bag of <<distance, node>>
  parents,
  at,         \* the node being expanded, its distance when taken, the arc index
  nodes,      \* the path being traced, target first
  target,
  visited,    \* paths handed to the visitor, with their costs
  cancelled

graph == <<weight, source, kernel>>
vars == <<graph, pc, dist, queue, heap, parents, at, nodes, target, visited, cancelled>>

Nodes == 0 .. NodeCount - 1
Infinity == Top + 1
Arcs == {a \in Nodes \X Nodes : weight[a] # None}
InOrder(S) == CHOOSE s \in [1 .. Cardinality(S) -> S] : \A i, j \in DOMAIN s : i < j => s[i] < s[j]
Neighbors(u) == InOrder({v \in Nodes : <<u, v>> \in Arcs})

Graphs ==
  UNION {[S -> Weights] : S \in {S \in SUBSET {a \in Nodes \X Nodes : a[1] # a[2] \/ a[1] \in LoopNodes} :
                                    Cardinality(S) <= MaxArcs}}
NoCall ==
  /\ source = 0
  /\ dist = [v \in Nodes |-> Infinity] /\ parents = [v \in Nodes |-> 0]
  /\ queue = <<>> /\ heap = EmptyBag
  /\ at = [node |-> 0, distance |-> 0, arc |-> 0]
  /\ nodes = <<>> /\ target = 0 /\ visited = <<>>
  /\ cancelled = FALSE

Init ==
  /\ \E g \in Graphs : weight = [a \in Nodes \X Nodes |-> IF a \in DOMAIN g THEN g[a] ELSE None]
  /\ kernel \in {"bfs", "dijkstra"} /\ pc = "start"
  /\ NoCall

Cancel == ~cancelled /\ cancelled' = TRUE
          /\ UNCHANGED <<graph, pc, dist, queue, heap, parents, at, nodes, target, visited>>

-----------------------------------------------------------------------------
HasNegativeWeights == \E a \in Arcs : weight[a] < 0

Start ==
  /\ pc = "start"
  /\ IF kernel = "dijkstra" /\ HasNegativeWeights
     THEN pc' = "invalid" /\ UNCHANGED <<dist, queue, heap>>
     ELSE /\ pc' = "take"
          /\ dist' = [dist EXCEPT ![source] = 0]
          /\ IF kernel = "bfs" THEN queue' = <<source>> /\ UNCHANGED heap
             ELSE heap' = SetToBag({<<0, source>>}) /\ UNCHANGED queue
  /\ UNCHANGED <<graph, parents, at, nodes, target, visited, cancelled>>

Expand(node, distance) == at' = [node |-> node, distance |-> distance, arc |-> 0] /\ pc' = "row"

PopFront ==
  /\ pc = "take" /\ kernel = "bfs"
  /\ IF queue = <<>> THEN pc' = "ok" /\ UNCHANGED <<queue, at>>
     ELSE /\ queue' = Tail(queue)
          /\ IF cancelled THEN pc' = "cancelled" /\ UNCHANGED at
             ELSE Expand(Head(queue), dist[Head(queue)])
  /\ UNCHANGED <<graph, dist, heap, parents, nodes, target, visited, cancelled>>

\* The least distance, then the least node.
HeapTop ==
  CHOOSE e \in BagToSet(heap) :
    \A f \in BagToSet(heap) : e[1] < f[1] \/ (e[1] = f[1] /\ e[2] <= f[2])

Pop ==
  /\ pc = "take" /\ kernel = "dijkstra"
  /\ IF heap = EmptyBag THEN pc' = "paths" /\ UNCHANGED <<heap, at>>
     ELSE /\ heap' = heap (-) SetToBag({HeapTop})
          /\ IF cancelled THEN pc' = "cancelled" /\ UNCHANGED at
             ELSE IF HeapTop[1] # dist[HeapTop[2]] THEN UNCHANGED <<pc, at>>   \* stale
             ELSE Expand(HeapTop[2], HeapTop[1])
  /\ UNCHANGED <<graph, dist, queue, parents, nodes, target, visited, cancelled>>

ImprovesWeakly(next, v) == next <= dist[v]               \* mutant
ImprovesOnce(next, v) == next < dist[v] /\ dist[v] = Infinity   \* mutant: no decrease of a key
Improves(next, v) == next < dist[v]

ChecksNever(i) == FALSE      \* mutant: long rows and paths are not interrupted
Checks(i) == i % CheckEvery = 0

Undiscovered(v) == dist[v] = Infinity

BfsArc(v) ==
  /\ IF Undiscovered(v)
     THEN dist' = [dist EXCEPT ![v] = dist[at.node] + 1] /\ queue' = Append(queue, v)
     ELSE UNCHANGED <<dist, queue>>
  /\ UNCHANGED <<heap, parents, pc>>

DijkstraArc(v) ==
  LET next == at.distance + weight[<<at.node, v>>]
  IN /\ IF next > Top THEN pc' = "overflow" /\ UNCHANGED <<dist, parents, heap>>
        ELSE IF Improves(next, v)
        THEN /\ dist' = [dist EXCEPT ![v] = next]
             /\ parents' = [parents EXCEPT ![v] = at.node]
             /\ heap' = heap (+) SetToBag({<<next, v>>})
             /\ UNCHANGED pc
        ELSE UNCHANGED <<dist, parents, heap, pc>>
     /\ UNCHANGED queue

RelaxArc ==
  /\ pc = "row" /\ at.arc < Len(Neighbors(at.node))
  /\ at' = [at EXCEPT !.arc = @ + 1]
  /\ IF Checks(at.arc) /\ cancelled
     THEN pc' = "cancelled" /\ UNCHANGED <<dist, queue, heap, parents>>
     ELSE LET v == Neighbors(at.node)[at.arc + 1]
          IN IF kernel = "bfs" THEN BfsArc(v) ELSE DijkstraArc(v)
  /\ UNCHANGED <<graph, nodes, target, visited, cancelled>>

EndRow ==
  /\ pc = "row" /\ at.arc = Len(Neighbors(at.node)) /\ pc' = "take"
  /\ UNCHANGED <<graph, dist, queue, heap, parents, at, nodes, target, visited, cancelled>>

-----------------------------------------------------------------------------
(* The visitor is given one path per reached node, traced over parents.    *)

NextTarget ==
  /\ pc = "paths"
  /\ IF target = NodeCount THEN pc' = "ok" /\ UNCHANGED <<nodes, target>>
     ELSE IF cancelled THEN pc' = "cancelled" /\ UNCHANGED <<nodes, target>>
     ELSE IF dist[target] = Infinity THEN target' = target + 1 /\ UNCHANGED <<pc, nodes>>
     ELSE pc' = "trace" /\ nodes' = <<target>> /\ UNCHANGED target
  /\ UNCHANGED <<graph, dist, queue, heap, parents, at, visited, cancelled>>

Costs(path) == [i \in DOMAIN path |-> dist[path[i]]]
Visit(path) ==
  visited' = Append(visited, [nodes |-> Reverse(path), costs |-> Reverse(Costs(path))])

Trace ==
  /\ pc = "trace"
  /\ IF Last(nodes) = source
     THEN Visit(nodes) /\ target' = target + 1 /\ nodes' = <<>> /\ pc' = "paths"
     ELSE IF Checks(Len(nodes)) /\ cancelled
     THEN pc' = "cancelled" /\ UNCHANGED <<nodes, target, visited>>
     ELSE nodes' = Append(nodes, parents[Last(nodes)]) /\ UNCHANGED <<pc, target, visited>>
  /\ UNCHANGED <<graph, dist, queue, heap, parents, at, cancelled>>

Step == Start \/ PopFront \/ Pop \/ RelaxArc \/ EndRow \/ NextTarget \/ Trace
Next == Step \/ Cancel
Spec == Init /\ [][Next]_vars /\ WF_vars(Step)
=============================================================================
