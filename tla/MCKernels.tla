------------------------------- MODULE MCKernels -------------------------------
(***************************************************************************)
(* A call of one of the four kernels on a small graph: the traversals on   *)
(* every weighted graph of four nodes and few arcs, and the work they do   *)
(* after a cancellation; the components on every graph of a few more arcs. *)
(***************************************************************************)
EXTENDS Traversal, FiniteSetsExt

CONSTANT MaxUnweighted    \* bound on the arcs of a graph the components are asked of

SmallWeights == {-1, 0, 2}

VARIABLES
  parent, u, arc, seen, order, stack, labels, work, members,
  late      \* kernel steps since the cancellation

C == INSTANCE Components WITH arcs <- Arcs, MaxArcs <- MaxUnweighted

componentVars == <<parent, u, arc, seen, order, stack, labels, work, members>>
traversalVars == <<weight, source, dist, queue, heap, parents, at, nodes, target, visited, cancelled>>
allVars == <<vars, componentVars, late>>

\* bfs reads no weights: one weight is enough for it, and for the components.
\* A negative weight is refused whatever the rest: two arcs are enough for it.
\* Where a graph of weights has all the arcs it may have, none is a loop.
MCInit ==
  /\ \/ /\ Init /\ C!NoCall
        /\ kernel = "bfs" => \A a \in Arcs : weight[a] = 0
        /\ HasNegativeWeights => Cardinality(Arcs) <= 2
        /\ kernel = "dijkstra" /\ Cardinality(Arcs) = MaxArcs => \A v \in Nodes : <<v, v>> \notin Arcs
     \/ /\ \E g \in {S \in C!Graphs : \A v \in Nodes : <<v, v>> \in S => v \in LoopNodes} :
             weight = [a \in Nodes \X Nodes |-> IF a \in g THEN 0 ELSE None]
        /\ NoCall /\ C!Init
  /\ late = 0

Traverses == kernel \in {"bfs", "dijkstra"}

KernelStep ==
  /\ \/ Traverses /\ Step /\ UNCHANGED componentVars
     \/ ~Traverses /\ UNCHANGED traversalVars /\ C!Next
  /\ late' = IF cancelled THEN late + 1 ELSE 0

MCNext ==
  \/ KernelStep
  \/ Traverses /\ Cancel /\ UNCHANGED componentVars /\ late' = 0

MCSpec == MCInit /\ [][MCNext]_allVars /\ WF_allVars(KernelStep)

-----------------------------------------------------------------------------
Cost(a) == IF kernel = "bfs" THEN 1 ELSE weight[a]
Running == pc \in {"take", "row", "paths", "trace"}
Reached == {v \in Nodes : dist[v] # Infinity}

\* No arc improves a distance, and into every set of reached nodes without
\* the source leads an arc that accounts for the distance of its end: a path
\* of such arcs leads to every reached node, and no path is shorter.
Shortest ==
  /\ dist[source] = 0
  /\ \A a \in Arcs : a[1] \in Reached => dist[a[2]] <= dist[a[1]] + Cost(a)
  /\ \A X \in (SUBSET (Reached \ {source})) \ {{}} :
       \E a \in Arcs : a[1] \in Reached \ X /\ a[2] \in X /\ dist[a[2]] = dist[a[1]] + Cost(a)

\* The heap never holds more entries than were charged: one per arc and one.
HeapWithinCharge ==
  /\ \A e \in BagToSet(heap) : heap[e] = 1
  /\ Cardinality(BagToSet(heap)) <= Cardinality(Arcs) + 1

\* dijkstra: at any time the parent of a reached node is reached and accounts
\* for its distance, although distances still fall.
TreeConsistent ==
  \A v \in Reached \ {source} :
    /\ parents[v] \in Reached /\ <<parents[v], v>> \in Arcs
    /\ dist[v] = dist[parents[v]] + weight[<<parents[v], v>>]

\* A traversal that returns a result returns the shortest distances, and
\* visits every reached node below the target once, in order, by a path from
\* the source along arcs, with the cost of every prefix.
ShortestFound ==
  Traverses =>
    /\ kernel = "dijkstra" => TreeConsistent
    /\ pc = "ok" => Shortest
    /\ \A i \in DOMAIN visited :
         LET p == visited[i]
         IN /\ Head(p.nodes) = source /\ Head(p.costs) = 0 /\ Len(p.costs) = Len(p.nodes)
            /\ \A j \in 1 .. Len(p.nodes) - 1 :
                 /\ <<p.nodes[j], p.nodes[j + 1]>> \in Arcs
                 /\ p.costs[j + 1] = p.costs[j] + weight[<<p.nodes[j], p.nodes[j + 1]>>]
    /\ LET ends == [i \in DOMAIN visited |-> Last(visited[i].nodes)]
       IN /\ \A i, j \in DOMAIN ends : i < j => ends[i] < ends[j]
          /\ pc # "cancelled" =>
               Range(ends) = {v \in Reached : v < target /\ pc \in {"paths", "trace", "ok"}}

\* Work after a cancellation is bounded by the arcs between two checks.
CancelIsHeard == Running => late <= CheckEvery + 1

\* Nodes reachable over a set of arcs.
Spread(S, A) == S \cup {a[2] : a \in {b \in A : b[1] \in S}}
Reach(v, A) ==
  LET near[k \in Nat] == IF k = 0 THEN {v} ELSE Spread(near[k - 1], A)
  IN near[NodeCount]
Both(A) == A \cup {<<a[2], a[1]>> : a \in A}
WeakComponent(v, A) == Reach(v, Both(A))
StrongComponent(v) == {x \in Reach(v, Arcs) : v \in Reach(x, Arcs)}

\* The arcs the union-find has scanned.
Scanned ==
  IF pc # "union" THEN Arcs
  ELSE {a \in Arcs : a[1] < u \/ (a[1] = u /\ \E i \in 1 .. arc : C!Outgoing(u)[i] = a[2])}

ForestDescends == \A v \in Nodes : parent[v] <= v
RootOf(v) == C!Root(parent, v)

\* weak: after every union, and while paths are halved and flattened, two
\* nodes share a root exactly when the arcs scanned so far connect them, and
\* the root is the least of its tree.
ForestConnects ==
  ForestDescends /\ \A v \in Nodes : RootOf(v) = C!Least(WeakComponent(v, Scanned))

\* strong: the last node of a component finishes after all that the component
\* reaches outside itself, which the second pass depends on.
FinishOrder ==
  \A i, j \in DOMAIN order :
    i < j /\ order[j] \in Reach(order[i], Arcs) \ StrongComponent(order[i]) =>
      \E x \in StrongComponent(order[i]) : \A k \in 1 .. j : order[k] # x

\* Both component kernels label every node by the smallest of its component,
\* and are on the way there at every step.
ComponentsFound ==
  /\ kernel = "weak" => ForestConnects
  /\ kernel = "strong" => FinishOrder
  /\ ~Traverses /\ pc = "ok" =>
       \A v \in Nodes :
         IF kernel = "weak" THEN parent[v] = C!Least(WeakComponent(v, Arcs))
         ELSE labels[v] = C!Least(StrongComponent(v))

\* Every call returns.
Returns == <>(pc \in {"ok", "invalid", "overflow", "cancelled"})
=============================================================================
