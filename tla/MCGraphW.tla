------------------------------ MODULE MCGraphW ------------------------------
(***************************************************************************)
(* GraphW on small graphs: the calls grouped by what the runs ask, the     *)
(* properties, and the abstract store that the graph implements.           *)
(***************************************************************************)
EXTENDS GraphW

CONSTANT Settings     \* how the graph is made, which calls are made, and how many edges and ids there may be

VARIABLES
  setting,
  nodes, copies, weight, value,   \* the abstract state that the graph stands for
  asked,                          \* the call of the last step, with its arguments
  even                            \* whether the number of calls is

vars == <<graph, setting, nodes, copies, weight, value, asked, even>>

\* What tells states apart: the abstract state is read off the graph, and what
\* was asked before, or how often, has no effect on what comes next.
view == <<graph, setting>>

-----------------------------------------------------------------------------
(* Settings. Bounds: size nodes at first, at most nodes of them, edges and ids. *)

Setting(directed, weighted, indexed, calls) ==
  [directed |-> directed, weighted |-> weighted, indexed |-> indexed,
   compact |-> FALSE, calls |-> calls \cup {"addEdge", "removeEdge"}, loops |-> TRUE,
   size |-> 3, nodes |-> 3, edges |-> 3, ids |-> 3, weights |-> IF weighted THEN Weights ELSE {1}]

Undirected ==
  Setting(FALSE, TRUE, TRUE,
          {"restoreNode", "setWeight", "removeNode", "removeLoops", "sortEdges", "attach", "sortNeighbors"})
DirectedGraph ==
  Setting(TRUE, TRUE, TRUE, {"restoreNode", "setWeight", "removeNode", "removeLoops", "sortEdges"})
CompactIdsKept ==
  [Setting(TRUE, FALSE, TRUE, {"removeNode", "sortEdges", "attach"}) EXCEPT !.compact = TRUE, !.ids = 4]
RowsKept(directed) ==
  Setting(directed, FALSE, FALSE, {"sortEdges", "sortNeighbors", "sortEdgesBy", "indexEdges", "reindex", "flags"})
MultiGraph ==
  [Setting(FALSE, FALSE, FALSE, {"addNode", "parallel", "removeLoops", "removeMulti"})
     EXCEPT !.size = 2, !.edges = 5]
Switching ==
  [Setting(FALSE, TRUE, TRUE, {"switch", "removeAll", "attach"})
     EXCEPT !.size = 4, !.nodes = 4, !.loops = FALSE]

Sound == {Undirected, DirectedGraph, CompactIdsKept, RowsKept(TRUE), RowsKept(FALSE), MultiGraph, Switching}

May(call) == call \in setting.calls

-----------------------------------------------------------------------------
(* The edges, as the rows of one direction show them. *)

Tuples(rows) ==
  UNION {{[from |-> u, to |-> rows[u].to[i],
           wt |-> IF graph.weighted THEN rows[u].wt[i] ELSE 1,
           id |-> IF graph.indexed THEN rows[u].id[i] ELSE -1] : i \in DOMAIN rows[u].to} :
           u \in DOMAIN rows}
Flip(t) == [t EXCEPT !.from = t.to, !.to = t.from]

Between(u, v) == IF graph.directed \/ u < v THEN <<u, v>> ELSE <<v, u>>
EdgeOf(t) == Between(t.from, t.to)
Edges == {EdgeOf(t) : t \in Tuples(graph.out)}
Ends(e) == {e[1], e[2]}

Length(rows) == Total([u \in DOMAIN rows |-> Len(rows[u].to)])
Loops == Total([u \in DOMAIN graph.out |-> Multiplicity(graph.out[u], u)])

-----------------------------------------------------------------------------
Rows == [to : Seq(Nat), wt : Seq(Int), id : Seq(Nat)]

\* The vectors of a node are parallel and those of absent nodes are empty.
TypeOK ==
  /\ graph.n \in Nat /\ graph.m \in Nat /\ graph.loops \in Nat /\ graph.omega \in Nat
  /\ graph.z \in Nat /\ DOMAIN graph.out = 0 .. graph.z - 1
  /\ \A rows \in {graph.out, graph.in} : \A u \in DOMAIN rows :
       /\ rows[u] \in Rows
       /\ Len(rows[u].wt) = IF graph.weighted THEN Len(rows[u].to) ELSE 0
       /\ Len(rows[u].id) = IF graph.indexed THEN Len(rows[u].to) ELSE 0
       /\ u \notin Nodes => rows[u] = NoRow
  /\ graph.attr \in Seq(Values \cup {None})

\* Every edge is seen from both ends with one weight and one id, whatever
\* order the vectors of the two ends are in.
Mirror ==
  Tuples(IF graph.directed THEN graph.in ELSE graph.out) = {Flip(t) : t \in Tuples(graph.out)}

\* The counters kept by every call agree with the vectors (checkConsistency,
\* and the number of self-loops, on which algorithms rely).
Counters ==
  /\ graph.n = Cardinality(Nodes)
  /\ graph.loops = Loops
  /\ IF graph.directed THEN graph.m = Length(graph.out) /\ graph.m = Length(graph.in)
     ELSE 2 * graph.m = Length(graph.out) + graph.loops

\* An id below the bound identifies one edge.
IdsIdentify ==
  graph.indexed =>
    LET tuples == Tuples(graph.out)
    IN \A s, t \in tuples : s.id < graph.omega /\ (s.id = t.id => EdgeOf(s) = EdgeOf(t))

\* With maintained compact ids, the ids are exactly those below the count.
NoGaps ==
  setting.compact =>
    {t.id : t \in Tuples(graph.out)} = 0 .. graph.m - 1 /\ graph.omega = graph.m

\* The vectors of both ends, the counters and the ids of a graph describe one
\* and the same set of edges after every call of the settings, none of which
\* (this is what Covered is for) asks an attribute storage for an entry it
\* does not have.
Consistent == TypeOK /\ Mirror /\ Counters /\ IdsIdentify /\ NoGaps /\ ~graph.failed

InOrder(row) == \A i, j \in DOMAIN row.to : i < j => row.to[i] <= row.to[j]
AllSorted == \A u \in DOMAIN graph.out :
  InOrder(graph.out[u]) /\ (graph.directed => InOrder(graph.in[u]))

-----------------------------------------------------------------------------
\* Of an edge, whichever end it is seen from.
OfEdges(Field(_)) ==
  LET tuples == Tuples(graph.out)
  IN [e \in {EdgeOf(t) : t \in tuples} |-> Field(CHOOSE t \in tuples : EdgeOf(t) = e)]
ValueOf(t) == IF graph.indexed /\ HasValue(graph, t.id) THEN graph.attr[t.id + 1] ELSE None

CopyMap == [e \in Edges |-> Multiplicity(graph.out[e[1]], e[2])]
WeightMap == OfEdges(LAMBDA t : t.wt)
ValueMap == OfEdges(ValueOf)
Mapped == nodes = Nodes /\ copies = CopyMap /\ weight = WeightMap /\ value = ValueMap
Remap == nodes' = Nodes' /\ copies' = CopyMap' /\ weight' = WeightMap' /\ value' = ValueMap'

Store == INSTANCE EdgeStore WITH EndsOf <- Ends

\* Each call does to the nodes and the edges that its arguments name what it
\* says, with the weight and the value given, and leaves all others alone.
ImplementsStore == Store!Spec

-----------------------------------------------------------------------------
(* The calls of a run *)

Start ==
  /\ setting \in Settings
  /\ graph = [NewGraph(setting.size, setting.directed, setting.weighted, setting.indexed)
                EXCEPT !.compact = setting.compact]
  /\ Mapped /\ asked = <<"new">> /\ even = TRUE

\* The bounds on edges and ids.
Room == graph.m < setting.edges /\ (graph.indexed => graph.omega < setting.ids)

Adds ==
  \/ May("addNode") /\ graph.z < setting.nodes /\ AddNode /\ asked' = <<"addNode", graph.z>>
  \/ May("restoreNode") /\ \E v \in DOMAIN graph.out : RestoreNode(v) /\ asked' = <<"restoreNode", v>>
  \/ \E u, v \in Nodes, w \in setting.weights :
       \/ /\ May("addEdge") /\ Room /\ (u = v => setting.loops)
          /\ AddEdge(u, v, w) /\ asked' = <<"addEdge", Between(u, v), w>>
       \/ /\ May("parallel") /\ Room
          /\ AddParallelEdge(u, v, w) /\ asked' = <<"addEdge", Between(u, v), w>>
       \/ /\ May("setWeight") /\ (HasEdge(graph, u, v) \/ Room)
          /\ \/ SetWeight(u, v, w) /\ asked' = <<"setWeight", Between(u, v), w>>
             \/ IncreaseWeight(u, v, w) /\ asked' = <<"increaseWeight", Between(u, v), w>>

\* In compact mode a caller has given a value to the edge of the highest id
\* (otherwise the assertion of Attributes.hpp:120 does not hold).
Covered == graph.compact /\ graph.attached => Len(graph.attr) >= graph.omega

Removes ==
  \/ May("removeNode") /\ Covered /\ \E v \in Nodes : RemoveNode(v) /\ asked' = <<"removeNode", v>>
  \/ /\ May("removeEdge") /\ Covered
     /\ \E u, v \in Nodes : RemoveEdge(u, v) /\ asked' = <<"removeEdge", Between(u, v)>>
  \/ May("removeAll") /\ RemoveAllEdges /\ asked' = <<"removeAllEdges">>
  \/ May("removeLoops") /\ RemoveSelfLoops /\ asked' = <<"removeSelfLoops">>
  \/ May("removeMulti") /\ RemoveMultiEdges /\ asked' = <<"removeMultiEdges">>

\* sortEdges with a comparison is for graphs without ids: it makes them all 0.
Orders ==
  /\ asked' = <<"order">>
  /\ \/ May("indexEdges") /\ IndexEdges
     \/ May("reindex") /\ ForceIndexEdges
     \/ May("sortEdges") /\ SortEdges
     \/ May("sortEdgesBy") /\ ~graph.indexed /\ SortEdgesBy
     \/ May("sortNeighbors") /\ \E u \in Nodes : SortNeighbors(u)
     \/ May("flags") /\ \E b \in BOOLEAN : SetKeepEdgesSorted(b) \/ SetMaintainCompactEdges(b)

Swaps ==
  /\ May("switch")
  /\ \E s1, t1, s2, t2 \in Nodes :
       /\ Switch(s1, t1, s2, t2)
       /\ asked' = <<"swapEdge", Between(s1, t1), Between(s2, t2), Between(s1, t2), Between(s2, t1)>>

Attributes ==
  /\ May("attach")
  /\ \/ Attach /\ asked' = <<"attach">>
     \/ Detach /\ asked' = <<"detach">>
     \/ \E u, v \in Nodes, a \in Values : SetAttribute(u, v, a) /\ asked' = <<"set", Between(u, v), a>>

Next == Adds \/ Removes \/ Orders \/ Swaps \/ Attributes
Spec == Start /\ [][Next /\ UNCHANGED setting /\ Remap /\ even' = ~even]_vars

-----------------------------------------------------------------------------
(* Steps *)

\* A removal keeps the rows sorted when they were and the caller asked to, and
\* removeMultiEdges leaves one edge of each kind and drops no pair of ends.
RemovalsKeep ==
  [][/\ graph.sorted /\ graph'.m < graph.m /\ AllSorted => AllSorted'
     /\ May("removeMulti") /\ RemoveMultiEdges => Edges' = Edges /\ graph'.m = Cardinality(Edges)]_vars
=============================================================================
