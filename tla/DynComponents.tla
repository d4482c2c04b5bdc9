---------------------------- MODULE DynComponents -----------------------------
(***************************************************************************)
(* DynConnectedComponentsImpl (components/DynConnectedComponentsImpl.hpp)  *)
(* for undirected graphs: the component of every node, and for every edge  *)
(* seen so far whether it is a tree edge. Only the removal of a tree edge  *)
(* may part a component; then a search from one end looks for another path *)
(* to the other.                                                           *)
(*                                                                         *)
(* edgesMap numbers the edges and isTree is indexed by the numbers; here   *)
(* known is the edges with a number and tree those whose flag is set.      *)
(***************************************************************************)
EXTENDS DynGraph

VARIABLES
  component, upperBound,
  known, tree,
  failed           \* an edge on the path found has no number: the call throws

componentVars == <<component, upperBound, known, tree, failed>>

none == -1

\* What a search from u finds.
Reach(u) == {v \in Nodes : Connected(u, v, edges)}

\* run searches from the first node of every component; the edges that
\* discover the nodes of a level make the tree. Ball(u, k) is the nodes at most
\* k edges away from u, and a node's level is the number of balls without it.
FirstOf(u) == Min(Reach(u))
Firsts == {FirstOf(u) : u \in Nodes}
Ball(u, k) ==
  FoldLeft(LAMBDA near, i : near \cup UNION {Neighbors(x) : x \in near}, {u}, [i \in 1 .. k |-> i])
Depth(u) == Cardinality({k \in 0 .. N : u \notin Ball(FirstOf(u), k)})

SearchTrees ==
  {{{v, parent[v]} : v \in Nodes \ Firsts} : parent \in
     {p \in [Nodes \ Firsts -> Nodes] :
        \A v \in Nodes \ Firsts : p[v] \in Neighbors(v) /\ Depth(p[v]) < Depth(v)}}

ComponentsRun ==
  /\ component = [u \in Nodes |-> Cardinality({f \in Firsts : f < FirstOf(u)})]
  /\ upperBound = Cardinality(Firsts)
  /\ known = edges
  /\ tree \in SearchTrees
  /\ failed = FALSE

-----------------------------------------------------------------------------
\* The larger number disappears and the last one takes its place.
MergedOnly(c, last, lo, hi) ==     \* mutant: the last number stays
  [w \in Nodes |-> IF c[w] = hi THEN lo ELSE c[w]]

Merged(c, last, lo, hi) ==
  [w \in Nodes |-> CASE c[w] = hi -> lo
                     [] c[w] # hi /\ c[w] = last -> hi
                     [] OTHER -> c[w]]

AddEdge(u, v) ==
  LET lo == Min({component[u], component[v]})
      hi == Max({component[u], component[v]})
  IN  /\ known' = known \cup {{u, v}}
      /\ IF lo = hi
         THEN UNCHANGED <<component, upperBound, tree>>
         ELSE /\ component' = Merged(component, upperBound - 1, lo, hi)
              /\ upperBound' = upperBound - 1
              /\ tree' = tree \cup {{u, v}}
      /\ UNCHANGED failed

\* updateTree: the edges of a shortest path found by the search become tree
\* edges (at throws for an edge without a number).
Paths(u, v, k) ==
  {p \in [1 .. k -> Nodes] :
     p[1] = u /\ p[k] = v /\ \A i \in 1 .. k - 1 : {p[i], p[i + 1]} \in edges}

ShortestPaths(u, v) ==
  UNION {Paths(u, v, k) : k \in {j \in 2 .. N : \A i \in 2 .. j - 1 : Paths(u, v, i) = {}}}

EdgesOf(p) == {{p[i], p[i + 1]} : i \in 1 .. Len(p) - 1}

\* The edge is in no tree, or another path exists, or u's side parts.
Kept(u, v) == {u, v} \notin tree

Bridged(u, v) ==
  /\ {u, v} \in tree /\ v \in Reach(u)
  /\ \E p \in ShortestPaths(u, v) :
       IF EdgesOf(p) \subseteq known
       THEN tree' = (tree \ {{u, v}}) \cup EdgesOf(p) /\ UNCHANGED failed
       ELSE tree' = tree \ {{u, v}} /\ failed' = TRUE
  /\ UNCHANGED <<component, upperBound, known>>

Parted(u, v) ==
  /\ {u, v} \in tree /\ v \notin Reach(u)
  /\ component' = [w \in Nodes |-> IF w \in Reach(u) THEN upperBound ELSE component[w]]
  /\ upperBound' = upperBound + 1
  /\ tree' = tree \ {{u, v}}
  /\ UNCHANGED <<known, failed>>

RemoveEdge(u, v) ==
  \/ Kept(u, v) /\ UNCHANGED componentVars
  \/ Bridged(u, v)
  \/ Parted(u, v)

UpdateComponents(e) == IF e.added THEN AddEdge(e.u, e.v) ELSE RemoveEdge(e.u, e.v)
=============================================================================
