------------------------------- MODULE DynGraph -------------------------------
(***************************************************************************)
(* What icebug's dynamic algorithms (base/DynAlgorithm.hpp) share: a       *)
(* simple undirected weighted graph, changed by its user, and the events   *)
(* that tell of the changes. The events of a batch are handled one after   *)
(* the other on the graph with all of them applied.                        *)
(***************************************************************************)
EXTENDS Integers, Sequences, FiniteSets, SequencesExt, FiniteSetsExt, Functions

CONSTANT N       \* nodes 0 .. N - 1, all of which exist

ASSUME NAssumption == N \in Nat \ {0}

VARIABLES
  edges,         \* the graph, a set of edges {u, v}
  weight,        \* the weight of each pair that is or may become an edge
  events         \* the batch: a sequence of [added, u, v]

graphVars == <<edges, weight, events>>

Nodes == 0 .. N - 1
Pairs == {{u, v} : u, v \in Nodes} \ {{u} : u \in Nodes}
Neighbors(u) == {v \in Nodes : {u, v} \in edges}

\* v is in every set of nodes that u is in and no edge of es leaves.
Closed(S, es) == \A p \in es : p \cap S # {} => p \subseteq S
Connected(u, v, es) == \A S \in SUBSET Nodes : u \in S /\ Closed(S, es) => v \in S
=============================================================================
