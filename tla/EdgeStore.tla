------------------------------ MODULE EdgeStore ------------------------------
(***************************************************************************)
(* What a graph with edge attributes promises: a set of nodes, and for     *)
(* every edge its copies, a weight and perhaps a value. A step is a call,  *)
(* kept in asked with its arguments, and does what this call says to the   *)
(* edges it names; every other edge stays as it was. A new edge has no     *)
(* value, whatever ids it or its predecessors had.                         *)
(***************************************************************************)
EXTENDS Integers, TLC

CONSTANTS
  None,           \* no value
  EndsOf(_)       \* the set of the end nodes of an edge

VARIABLES
  nodes,
  copies,   \* [edges -> number of copies]
  weight,   \* [edges -> weight]
  value,    \* [edges -> value or None]
  asked,    \* the call of the last step
  even      \* whether the number of calls is: one that does nothing is a step too

vars == <<nodes, copies, weight, value, asked, even>>

Edges == DOMAIN weight
Only(f, S) == [x \in S |-> f[x]]
Keep(edges) == copies' = Only(copies, edges) /\ weight' = Only(weight, edges) /\ value' = Only(value, edges)
Same == UNCHANGED <<nodes, copies, weight, value>>

AddNode(v) == v \notin nodes /\ nodes' = nodes \cup {v} /\ UNCHANGED <<copies, weight, value>>
RemoveNode(v) == nodes' = nodes \ {v} /\ Keep({e \in Edges : v \notin EndsOf(e)})

\* A copy of an edge that is there already changes neither weight nor value.
AddEdge(e, w) ==
  /\ copies' = (e :> IF e \in Edges THEN copies[e] + 1 ELSE 1) @@ copies
  /\ weight' = weight @@ (e :> w)
  /\ value' = value @@ (e :> None)
  /\ UNCHANGED nodes

\* Both create an edge that does not exist.
SetWeight(e, w) ==
  IF e \notin Edges THEN AddEdge(e, w)
  ELSE weight' = [weight EXCEPT ![e] = w] /\ UNCHANGED <<nodes, copies, value>>
IncreaseWeight(e, w) ==
  IF e \notin Edges THEN AddEdge(e, w)
  ELSE weight' = [weight EXCEPT ![e] = @ + w] /\ UNCHANGED <<nodes, copies, value>>

RemoveEdge(e) ==
  /\ e \in Edges
  /\ IF copies[e] = 1 THEN Keep(Edges \ {e})
     ELSE copies' = [copies EXCEPT ![e] = @ - 1] /\ UNCHANGED <<weight, value>>
  /\ UNCHANGED nodes

IsLoop(e) == \A u, v \in EndsOf(e) : u = v
RemoveAllEdges == Keep({}) /\ UNCHANGED nodes
RemoveSelfLoops == Keep({e \in Edges : ~IsLoop(e)}) /\ UNCHANGED nodes
RemoveMultiEdges == copies' = [e \in Edges |-> 1] /\ UNCHANGED <<nodes, weight, value>>

SetValue(e, a) == e \in Edges /\ value' = [value EXCEPT ![e] = a] /\ UNCHANGED <<nodes, copies, weight>>
ForgetValues == value' = [e \in Edges |-> None] /\ UNCHANGED <<nodes, copies, weight>>

\* d and e become f and h, and take their copies, weights and values along.
Exchange(d, e, f, h) ==
  LET edges == (Edges \ {d, e}) \cup {f, h}
      Was(x) == IF x = f THEN d ELSE IF x = h THEN e ELSE x
      Moved(g) == [x \in edges |-> g[Was(x)]]
  IN /\ {d, e} \subseteq Edges /\ {f, h} \cap Edges = {}
     /\ copies' = Moved(copies) /\ weight' = Moved(weight) /\ value' = Moved(value)
     /\ UNCHANGED nodes

Init == copies = << >> /\ weight = << >> /\ value = << >> /\ even = TRUE

\* The calls, by the names of the graph's member functions. Those that sort,
\* number or attach do nothing to the edges.
Does(c) ==
  CASE c[1] \in {"addNode", "restoreNode"} -> AddNode(c[2])
    [] c[1] = "removeNode"       -> RemoveNode(c[2])
    [] c[1] = "addEdge"          -> AddEdge(c[2], c[3])
    [] c[1] = "setWeight"        -> SetWeight(c[2], c[3])
    [] c[1] = "increaseWeight"   -> IncreaseWeight(c[2], c[3])
    [] c[1] = "removeEdge"       -> RemoveEdge(c[2])
    [] c[1] = "removeAllEdges"   -> RemoveAllEdges
    [] c[1] = "removeSelfLoops"  -> RemoveSelfLoops
    [] c[1] = "removeMultiEdges" -> RemoveMultiEdges
    [] c[1] = "set"              -> SetValue(c[2], c[3])
    [] c[1] = "detach"           -> ForgetValues
    [] c[1] = "swapEdge"         -> Exchange(c[2], c[3], c[4], c[5])
    [] OTHER                     -> Same

Next == Does(asked') /\ even' = ~even
Spec == Init /\ [][Next]_vars
=============================================================================
