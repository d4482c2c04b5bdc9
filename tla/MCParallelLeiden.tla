--------------------------- MODULE MCParallelLeiden ---------------------------
(* Small graphs for ParallelLeiden, and what its rounds guarantee. *)
EXTENDS ParallelLeiden

RowsOf(edges) ==
  [u \in Nodes |-> SelectSeq([i \in 1 .. N |-> i - 1], LAMBDA v : v # u /\ {u, v} \in edges)]
Case(edges, r, m) == [row |-> RowsOf(edges), result |-> r, moves |-> m]
Path4 == {{0, 2}, {2, 3}, {3, 1}}
Alone == [u \in Nodes |-> u]
Together == [u \in Nodes |-> 0]

\* Moves that meet each other from the first round's start, and refinements
\* of a community that took four nodes together in an earlier round.
AllCases == {Case({{0, 1}, {1, 3}}, Alone, 2), Case(Path4, Together, 1)}
RefineCases == {Case(Path4, Together, 0)}

\* Graphs are undirected. Nothing in ParallelLeiden asks for it, but the graph's
\* volume is twice its number of edges and every coarser graph is built so.
ASSUME UndirectedAssumption ==
  \A c \in Cases : \A u, v \in Nodes : v \in ToSet(c.row[u]) => u \in ToSet(c.row[v])

-----------------------------------------------------------------------------
\* t has taken the head of its list and not finished with it.
InProgress(t) ==
  /\ local[t].current # <<>>
  /\ \/ local[t].pc \in {"look", "grow", "await", "growing", "place", "spread", "schedule", "finish"}
     \/ local[t].pc \in {"announce", "yield", "resume", "flush", "notify"} /\ local[t].best # None

\* Where a node is still to be taken from: a list of the queue, or what a
\* thread has not begun of its own lists.
Ahead(t) == (IF InProgress(t) THEN 2 ELSE 1) .. Len(local[t].current)
Spots(u) ==
  (UNION {{<<"queue", i, k>> : k \in {k \in 1 .. Len(queue[i]) : queue[i][k] = u}} : i \in 1 .. Len(queue)})
  \cup (UNION {{<<"current", t, k>> : k \in {k \in Ahead(t) : local[t].current[k] = u}} : t \in Threads})
  \cup (UNION {{<<"fresh", t, k>> : k \in {k \in 1 .. Len(local[t].fresh) : local[t].fresh[k] = u}} : t \in Threads})

(* A node marked queued is in exactly one list, of one thread or in the    *)
(* queue, a node marked as being processed is with exactly one thread, and *)
(* an idle node is nowhere: no request to look at a node is lost or done   *)
(* twice, whatever order neighbours move in.                               *)
OwnedOnce ==
  \A u \in Nodes :
    /\ Cardinality(Spots(u)) = IF state[u] = "queued" THEN 1 ELSE 0
    /\ Cardinality({t \in Threads : InProgress(t) /\ Node(t) = u})
         = IF state[u] \in {"processing", "reprocess"} THEN 1 ELSE 0

(* When the threads have left, every node that stayed put in its last look *)
(* looked at what is true now: a neighbour that changed community since    *)
(* came into the community of the node itself.                             *)
LastLookIsFresh ==
  MoveDone => \A u \in Nodes : seen[u] # <<>> =>
    \A i \in DOMAIN seen[u] : result[row[u][i]] \in {seen[u][i], result[u]}

(* A thread that is about to add a node's degree to a community finds the  *)
(* community inside communityVolumes.                                      *)
VolumesFit == \A t \in Threads : local[t].pc = "place" => local[t].best < size

-----------------------------------------------------------------------------
Members(c) == {u \in Nodes : refined[u] = c}
\* An edge leads out of every part of S.
Connected(S) ==
  \A part \in (SUBSET S) \ {{}, S} : \E u \in part, v \in S \ part : v \in ToSet(row[u])

(* A refined community is named by a node that is itself in it: nobody     *)
(* leaves a community others have joined ("If this node is no longer a     *)
(* singleton, stop", ParallelLeiden.cpp:544).                              *)
HostsStay == \A u \in Nodes : refined[refined[u]] = refined[u]

(* As long as no thread went on without its locks, refined communities     *)
(* keep their hosts, lie inside one community and are connected: each      *)
(* becomes one node of the next graph.                                     *)
RefinedSound ==
  slipped \/ /\ HostsStay
             /\ \A u \in Nodes : result[u] = result[refined[u]]
             /\ \A c \in Range(refined) : Connected(Members(c))

(* The round ends: no thread sleeps, yields or waits for a lock forever.   *)
RoundEnds == <>(phase = "done")
=============================================================================
