------------------------------ MODULE Components ------------------------------
(***************************************************************************)
(* icebug-algorithms: weakly_connected_components, a union-find that       *)
(* halves paths as it looks for roots, and strongly_connected_components,  *)
(* Kosaraju's two passes with explicit stacks. Both label a component by   *)
(* its smallest vertex. Cancellation ends a kernel at its next check and   *)
(* is left to module Traversal.                                            *)
(***************************************************************************)
EXTENDS Integers, FiniteSets, SequencesExt

CONSTANTS
  NodeCount,    \* nodes are 0 .. NodeCount - 1
  MaxArcs,      \* bound on the arcs of a graph
  None          \* u64::MAX: no label yet; not a node

VARIABLES
  arcs,         \* the graph
  kernel,
  pc,
  parent,       \* weak: the union-find forest, in the end the labels
  u, arc,       \* weak: the arc being scanned
  seen, order, stack,           \* strong, first pass; stack of [node, next]
  labels, work, members         \* strong, second pass

graph == <<arcs, kernel>>
weak == <<parent, u, arc>>
first == <<seen, order, stack>>
second == <<labels, work, members>>
vars == <<graph, pc, weak, first, second>>

Nodes == 0 .. NodeCount - 1
InOrder(S) == CHOOSE s \in [1 .. Cardinality(S) -> S] : \A i, j \in DOMAIN s : i < j => s[i] < s[j]
Outgoing(v) == InOrder({x \in Nodes : <<v, x>> \in arcs})
Incoming(v) == {x \in Nodes : <<x, v>> \in arcs}
Least(S) == CHOOSE x \in S : \A y \in S : x <= y

Graphs == {S \in SUBSET (Nodes \X Nodes) : Cardinality(S) <= MaxArcs}

NoCall ==
  /\ parent = [v \in Nodes |-> v] /\ u = 0 /\ arc = 0
  /\ seen = {} /\ order = <<>> /\ stack = <<>>
  /\ labels = [v \in Nodes |-> None] /\ work = <<>> /\ members = {}

Init ==
  /\ arcs \in Graphs
  /\ kernel \in {"weak", "strong"}
  /\ pc = IF kernel = "weak" THEN "union" ELSE "search"
  /\ NoCall

-----------------------------------------------------------------------------
(* Weak components *)

Ancestor(forest, v) ==
  LET up[k \in Nat] == IF k = 0 THEN v ELSE forest[up[k - 1]] IN up

RootNear(forest, v) == forest[v]     \* mutant: one step only
\* Parents are smaller than their children: NodeCount steps reach the root.
Root(forest, v) == Ancestor(forest, v)[NodeCount]

\* root: every node the walk stands on is moved below its grandparent, and
\* the walk goes on from there, so it stands on every other ancestor.
Halved(forest, v) ==
  LET stands == {Ancestor(forest, v)[2 * k] : k \in 0 .. NodeCount}
  IN [x \in Nodes |-> IF x \in stands THEN forest[forest[x]] ELSE forest[x]]

Link(forest, a, b) ==
  [forest EXCEPT ![IF a < b THEN b ELSE a] = IF a < b THEN a ELSE b]

Union ==
  /\ pc = "union" /\ u < NodeCount /\ arc < Len(Outgoing(u))
  /\ LET a == Root(parent, u)
         halved == Halved(parent, u)
         b == Root(halved, Outgoing(u)[arc + 1])
     IN parent' = Link(Halved(halved, Outgoing(u)[arc + 1]), a, b)
  /\ arc' = arc + 1
  /\ UNCHANGED <<graph, pc, u, first, second>>

NextRow ==
  /\ pc = "union" /\ u < NodeCount /\ arc = Len(Outgoing(u))
  /\ u' = u + 1 /\ arc' = 0
  /\ UNCHANGED <<graph, pc, parent, first, second>>

Flatten ==
  /\ pc = "union" /\ u = NodeCount /\ pc' = "flatten" /\ u' = 0
  /\ UNCHANGED <<graph, parent, arc, first, second>>

FlattenNode ==
  /\ pc = "flatten"
  /\ IF u = NodeCount THEN pc' = "ok" /\ UNCHANGED <<parent, u>>
     ELSE /\ parent' = [Halved(parent, u) EXCEPT ![u] = Root(parent, u)]
          /\ u' = u + 1 /\ UNCHANGED pc
  /\ UNCHANGED <<graph, arc, first, second>>

-----------------------------------------------------------------------------
(* Strong components: the first pass lists the nodes as they finish.       *)

StartSearch ==
  /\ pc = "search" /\ stack = <<>> /\ seen # Nodes
  /\ LET start == Least(Nodes \ seen)
     IN seen' = seen \cup {start} /\ stack' = <<[node |-> start, next |-> 0]>>
  /\ UNCHANGED <<graph, pc, weak, order, second>>

\* The node on top is listed when all its arcs are tried.
Finished(next, row) == next = Len(row)

Fresh(x) == x \notin seen

Search ==
  /\ pc = "search" /\ stack # <<>>
  /\ LET v == Last(stack).node
         next == Last(stack).next
         row == Outgoing(v)
     IN IF Finished(next, row)
        THEN order' = Append(order, v) /\ stack' = Front(stack) /\ UNCHANGED seen
        ELSE LET x == row[next + 1]
                 tried == [stack EXCEPT ![Len(stack)].next = next + 1]
             IN /\ UNCHANGED order
                /\ IF Fresh(x)
                   THEN seen' = seen \cup {x} /\ stack' = Append(tried, [node |-> x, next |-> 0])
                   ELSE stack' = tried /\ UNCHANGED seen
  /\ UNCHANGED <<graph, pc, weak, second>>

Searched ==
  /\ pc = "search" /\ stack = <<>> /\ seen = Nodes /\ pc' = "collect"
  /\ UNCHANGED <<graph, weak, first, second>>

-----------------------------------------------------------------------------
(* The second pass follows incoming arcs from the last finished node.      *)

Unlabelled == {i \in DOMAIN order : labels[order[i]] = None}

NextInReverse(S) == CHOOSE i \in S : \A j \in S : j <= i

StartComponent ==
  /\ pc = "collect" /\ work = <<>> /\ members = {}
  /\ IF Unlabelled = {} THEN pc' = "ok" /\ UNCHANGED <<work, labels>>
     ELSE LET start == order[NextInReverse(Unlabelled)]
          IN work' = <<start>> /\ labels' = [labels EXCEPT ![start] = start] /\ UNCHANGED pc
  /\ UNCHANGED <<graph, weak, first, members>>

\* Nodes are put to work with the label of the component's start.
Collect ==
  /\ pc = "collect" /\ work # <<>>
  /\ LET v == Last(work)
         fresh == InOrder({x \in Incoming(v) : labels[x] = None})
     IN /\ members' = members \cup {v}
        /\ work' = Front(work) \o fresh
        /\ labels' = [x \in Nodes |-> IF x \in Range(fresh) THEN labels[v] ELSE labels[x]]
  /\ UNCHANGED <<graph, pc, weak, first>>

EndComponent ==
  /\ pc = "collect" /\ work = <<>> /\ members # {}
  /\ labels' = [v \in Nodes |-> IF v \in members THEN Least(members) ELSE labels[v]]
  /\ members' = {}
  /\ UNCHANGED <<graph, pc, weak, first, work>>

Next ==
  \/ Union \/ NextRow \/ Flatten \/ FlattenNode
  \/ StartSearch \/ Search \/ Searched
  \/ StartComponent \/ Collect \/ EndComponent
Spec == Init /\ [][Next]_vars
=============================================================================
