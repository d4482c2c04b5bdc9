-------------------------------- MODULE DynBFS --------------------------------
(***************************************************************************)
(* DynBFS (distance/DynBFS.cpp): distances from a source and the number of *)
(* shortest paths, repaired after a batch. Nodes whose distance may have   *)
(* changed wait in one queue per distance; a node is settled when some     *)
(* neighbour confirms its level, and otherwise moved to a later queue.     *)
(***************************************************************************)
EXTENDS DynGraph

source == 0

VARIABLES
  distances, npaths, maxDistance,
  queues,        \* queues[m + 1]: the nodes to look at for distance m
  black,         \* nodes settled in this update
  m,             \* the level being emptied, 0 between updates
  unread         \* an update ended with a node still in a queue

bfsVars == <<distances, npaths, maxDistance, queues, black, m, unread>>

infDist == 1000    \* larger than any distance of the model

\* run: level by level; every node's paths are those of its predecessors.
Levels ==
  FoldLeft(LAMBDA found, i :
             Append(found, {v \in Nodes \ UNION Range(found) : Neighbors(v) \cap Last(found) # {}}),
           <<{source}>>, [i \in 1 .. N - 1 |-> i])

LevelOf(v, found) ==
  IF \E k \in DOMAIN found : v \in found[k]
  THEN (CHOOSE k \in DOMAIN found : v \in found[k]) - 1
  ELSE infDist

Distances == LET found == Levels IN [v \in Nodes |-> LevelOf(v, found)]

PathCounts ==
  LET dist == Distances
      Count[v \in Nodes] ==
        CASE v = source -> 1
          [] v # source /\ dist[v] = infDist -> 0
          [] OTHER -> MapThenSumSet(LAMBDA u : Count[u], {u \in Neighbors(v) : dist[u] + 1 = dist[v]})
  IN  [v \in Nodes |-> Count[v]]

LastLevel ==
  LET dist == Distances
      far == Max({dist[v] : v \in {x \in Nodes : dist[x] # infDist}})
  IN  IF far = 0 THEN N - 1 ELSE far

BfsRun ==
  /\ distances = Distances
  /\ npaths = PathCounts
  /\ maxDistance = LastLevel
  /\ queues = <<>> /\ black = {} /\ m = 0 /\ unread = FALSE

-----------------------------------------------------------------------------
\* The farther end of each changed edge, next to the nearer one. A removal
\* counts only if both ends were reached.
Counts(e) ==
  IF e.added THEN distances[e.u] # infDist \/ distances[e.v] # infDist
             ELSE distances[e.u] # infDist /\ distances[e.v] # infDist

Farther(e) == IF distances[e.u] > distances[e.v] THEN e.u ELSE e.v
Nearer(e) == IF distances[e.u] > distances[e.v] THEN e.v ELSE e.u

Affected(level) ==
  SelectSeq(events, LAMBDA e : /\ Counts(e) /\ distances[e.u] # distances[e.v]
                               /\ distances[Nearer(e)] + 1 = level)

Put(qs, k, nodes) == [qs EXCEPT ![k + 1] = @ \o nodes]

Seeded ==
  [i \in 1 .. maxDistance + 2 |->
     LET es == Affected(i - 1) IN [j \in DOMAIN es |-> Farther(es[j])]]

\* The next level is entered only below maxDistance; it makes room when its
\* nodes, or those of the level after it, may reach farther.
Enter(level, qs) ==
  IF level < maxDistance
  THEN LET reach == level >= maxDistance - 1 /\ (qs[level + 1] # <<>> \/ qs[level + 2] # <<>>)
       IN  /\ m' = level
           /\ maxDistance' = IF reach THEN maxDistance + 1 ELSE maxDistance
           /\ queues' = IF reach THEN Append(qs, <<>>) ELSE qs
           /\ UNCHANGED <<black, unread>>
  ELSE /\ m' = 0 /\ queues' = <<>> /\ black' = {}
       /\ unread' = (unread \/ \E i \in DOMAIN qs : qs[i] # <<>>)
       /\ UNCHANGED maxDistance

BfsBegin == Enter(1, Seeded) /\ UNCHANGED <<distances, npaths>>

NextLevel ==
  /\ m > 0 /\ queues[m + 1] = <<>>
  /\ Enter(m + 1, queues)
  /\ UNCHANGED <<distances, npaths>>

W == Head(queues[m + 1])
Rest == [queues EXCEPT ![m + 1] = Tail(@)]
Row(u) == SelectSeq([i \in 1 .. N |-> i - 1], LAMBDA v : v \in Neighbors(u))
Below(u) == {z \in Neighbors(u) : distances[z] # infDist}
Con == IF Below(W) = {} THEN infDist ELSE Min({distances[z] + 1 : z \in Below(W)})
Beyond(k) == SelectSeq(Row(W), LAMBDA z : distances[z] > k)

SkipBlack ==
  /\ m > 0 /\ queues[m + 1] # <<>> /\ W \in black
  /\ queues' = Rest
  /\ UNCHANGED <<distances, npaths, maxDistance, black, m, unread>>

\* A neighbour one level up confirms the node; those below it come next.
SettleKeepPaths ==      \* mutant: the paths of the node are not counted again
  /\ m > 0 /\ queues[m + 1] # <<>> /\ W \notin black /\ Con = m
  /\ distances' = [distances EXCEPT ![W] = m]
  /\ black' = black \cup {W}
  /\ queues' = Put(Rest, m + 1, Beyond(m))
  /\ UNCHANGED <<npaths, maxDistance, m, unread>>

Settle ==
  /\ m > 0 /\ queues[m + 1] # <<>> /\ W \notin black /\ Con = m
  /\ distances' = [distances EXCEPT ![W] = m]
  /\ npaths' = [npaths EXCEPT ![W] =
       MapThenSumSet(LAMBDA z : npaths[z], {z \in Neighbors(W) : distances[z] + 1 = m})]
  /\ black' = black \cup {W}
  /\ queues' = Put(Rest, m + 1, Beyond(m))
  /\ UNCHANGED <<maxDistance, m, unread>>

\* No neighbour is near enough: the node is unreached until another level
\* confirms it, and whoever lies beyond may depend on it.
Defer ==
  /\ m > 0 /\ queues[m + 1] # <<>> /\ W \notin black /\ Con # m
  /\ distances' = [distances EXCEPT ![W] = infDist]
  /\ npaths' = [npaths EXCEPT ![W] = IF distances[W] # infDist THEN 0 ELSE @]
  /\ LET spread == IF distances[W] = infDist THEN Rest
                   ELSE Put(Rest, m + 1, SelectSeq(Beyond(m), LAMBDA z : distances[z] < infDist))
         roomy == spread \o [i \in 1 .. Con + 1 - Len(spread) |-> <<>>]
     IN  /\ queues' = CASE Con = infDist -> spread
                        [] Con # infDist /\ Con > maxDistance -> Put(roomy, Con, <<W>>)
                        [] Con # infDist /\ Con <= maxDistance -> Put(spread, Con, <<W>>)
         /\ maxDistance' = IF Con # infDist /\ Con > maxDistance THEN Con ELSE maxDistance
  /\ UNCHANGED <<black, m, unread>>

\* DynBFS.cpp:146 asserts that a node taken from a level lies there or beyond.
NoneNearer == m > 0 /\ queues[m + 1] # <<>> /\ W \notin black => Con >= m

BfsStep == NextLevel \/ SkipBlack \/ Settle \/ Defer
BfsDone == m = 0
=============================================================================
