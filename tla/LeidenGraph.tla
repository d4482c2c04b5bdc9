----------------------------- MODULE LeidenGraph -----------------------------
(***************************************************************************)
(* What the two phases of ParallelLeiden (community/ParallelLeiden.cpp)    *)
(* share: the threads of the parallel region, the graph, the partition.    *)
(***************************************************************************)
EXTENDS Integers, Sequences, FiniteSets, SequencesExt

CONSTANTS
  Threads,   \* threads of the parallel region
  N,         \* upperNodeIdBound; every node exists
  Chunk      \* WORKING_SIZE: nodes handed over at a time

ASSUME LeidenAssumption ==
  IsFiniteSet(Threads) /\ Threads # {} /\ N \in Nat \ {0} /\ Chunk \in Nat \ {0}

VARIABLES
  row,       \* the graph: row[u] lists the neighbours of u but u itself
  result     \* result[u]: the community of u

Nodes == 0 .. N - 1

None == -1
=============================================================================
