--------------------------- MODULE DynamicAlgorithms ---------------------------
(***************************************************************************)
(* One graph and three dynamic algorithms that follow it. Its user applies *)
(* a batch of edge insertions and removals to the graph, and hands the     *)
(* batch to each algorithm in turn; whatever the algorithm then answers    *)
(* must be what it would answer if it were run again.                      *)
(***************************************************************************)
EXTENDS DynBFS, DynComponents, DynamicBSuitor

CONSTANTS
  Starts,          \* the initial [edges, weight, b]
  MaxBatch,        \* events in a batch
  MaxEvents        \* bound: events in a behaviour

ASSUME StartsAssumption ==
  Starts \subseteq [edges : SUBSET Pairs, weight : [Pairs -> Nat], b : [Nodes -> Nat]]

VARIABLES
  turn,            \* "run", "user", "components", "bfs" or "matching"
  next,            \* the event the algorithm of the turn looks at next
  handled,         \* events so far
  batched          \* a batch of more than one event was handled

vars == <<graphVars, bfsVars, componentVars, matchingVars, turn, next, handled, batched>>

Init ==
  /\ \E start \in Starts :
       edges = start.edges /\ weight = start.weight /\ b = start.b
  /\ BfsRun /\ ComponentsRun /\ MatchingStart
  /\ events = <<>> /\ turn = "run" /\ next = 1 /\ handled = 0 /\ batched = FALSE

\* run of DynamicBSuitorMatcher; the other two have been run already.
MatchingRuns ==
  /\ turn = "run" /\ ~RunDone
  /\ RunStep
  /\ UNCHANGED <<graphVars, bfsVars, componentVars, work, path, turn, next, handled, batched>>

RunReturns ==
  /\ turn = "run" /\ RunDone
  /\ turn' = "user"
  /\ UNCHANGED <<graphVars, bfsVars, componentVars, matchingVars, next, handled, batched>>

\* Every pair of a batch is inserted or removed once, as the graph has it.
EventOn(p) == [added |-> p \notin edges, u |-> Min(p), v |-> Max(p)]
Swapped(e) == [e EXCEPT !.u = e.v, !.v = e.u]

Batches ==
  UNION {{es \in [1 .. k -> UNION {{EventOn(p), Swapped(EventOn(p))} : p \in Pairs}] :
            \A i, j \in 1 .. k : i # j => {es[i].u, es[i].v} # {es[j].u, es[j].v}}
         : k \in 1 .. Min({MaxBatch, MaxEvents - handled})}

UserChanges ==
  /\ turn = "user" /\ handled < MaxEvents
  /\ \E es \in Batches :
       /\ events' = es
       /\ batched' = (batched \/ Len(es) > 1)
       /\ edges' = (edges \ {{e.u, e.v} : e \in {x \in Range(es) : ~x.added}})
                     \cup {{e.u, e.v} : e \in {x \in Range(es) : x.added}}
  /\ turn' = "components" /\ next' = 1 /\ handled' = handled + Len(events')
  /\ UNCHANGED <<weight, bfsVars, componentVars, matchingVars>>

\* updateBatch of DynConnectedComponents.
ComponentsEvent ==
  /\ turn = "components" /\ next <= Len(events)
  /\ UpdateComponents(events[next])
  /\ next' = next + 1
  /\ UNCHANGED <<graphVars, bfsVars, matchingVars, turn, handled, batched>>

BfsCalled ==
  /\ turn = "components" /\ next > Len(events)
  /\ turn' = "bfs" /\ BfsBegin
  /\ UNCHANGED <<graphVars, componentVars, matchingVars, next, handled, batched>>

BfsMoves ==
  /\ turn = "bfs" /\ BfsStep
  /\ UNCHANGED <<graphVars, componentVars, matchingVars, turn, next, handled, batched>>

MatchingCalled ==
  /\ turn = "bfs" /\ BfsDone
  /\ turn' = "matching" /\ next' = 1
  /\ UNCHANGED <<graphVars, bfsVars, componentVars, matchingVars, handled, batched>>

MatchingEvent ==
  /\ turn = "matching" /\ MatchingIdle /\ next <= Len(events)
  /\ UpdateMatching(events[next])
  /\ next' = next + 1
  /\ UNCHANGED <<graphVars, bfsVars, componentVars, turn, handled, batched>>

MatchingMoves ==
  /\ turn = "matching" /\ MatchingStep
  /\ UNCHANGED <<graphVars, bfsVars, componentVars, turn, next, handled, batched>>

BackToUser ==
  /\ turn = "matching" /\ MatchingIdle /\ next > Len(events)
  /\ turn' = "user" /\ events' = <<>> /\ next' = 1
  /\ UNCHANGED <<edges, weight, bfsVars, componentVars, matchingVars, handled, batched>>

Update ==
  MatchingRuns \/ RunReturns
    \/ ComponentsEvent \/ BfsCalled \/ BfsMoves \/ MatchingCalled
    \/ MatchingEvent \/ MatchingMoves \/ BackToUser

Next == UserChanges \/ Update

\* A call runs to its end; the user may stop calling.
Spec == Init /\ [][Next]_vars /\ WF_vars(Update)

-----------------------------------------------------------------------------
\* Same number exactly for nodes with a path between them, numbers without
\* gaps, and tree edges that span every component (removeEdge relies on them
\* to know when nothing has to be searched).
ComponentsExact ==
  turn = "user" /\ ~batched =>
    /\ ~failed
    /\ \A u, v \in Nodes : component[u] = component[v] <=> Connected(u, v, edges)
    /\ Range(component) = 0 .. upperBound - 1
    /\ tree \subseteq edges /\ edges \subseteq known
    /\ \A u, v \in Nodes : Connected(u, v, edges) => Connected(u, v, tree)

\* Unless some queue was never read, distances and path counts are those of
\* a search from scratch (updateBatch of DynBFS.hpp); meanwhile no queue holds
\* a node that belongs to an earlier level.
DistancesExact ==
  /\ turn = "bfs" => NoneNearer
  /\ turn = "matching" /\ next = 1 /\ ~unread =>
       distances = Distances /\ npaths = PathCounts

\* The stable matching: no two nodes would both rather have each other, and
\* since the ranks agree with an order of the edges there is only one. Taking
\* the edges in that order, with every edge whose ends have room, makes it.
Before(p, q) ==
  \/ weight[p] > weight[q]
  \/ weight[p] = weight[q] /\ Min(p) < Min(q)
  \/ weight[p] = weight[q] /\ Min(p) = Min(q) /\ Max(p) < Max(q)

Stable ==
  FoldLeft(LAMBDA M, p : IF \A u \in p : Cardinality({q \in M : u \in q}) < b[u] THEN M \cup {p} ELSE M,
           {}, SetToSortSeq(edges, Before))

\* DynamicBSuitorMatcher.hpp: "The solution is the same as a complete
\* recomputation of the b-Suitor b-matching", and both are the stable one.
SameAsRecomputed ==
  turn = "user" =>
    LET stable == Stable
    IN  \A u \in Nodes : suitors[u].partners = {v \in Nodes : {u, v} \in stable}

\* Every call returns: loose ends and queues are used up.
UpdatesSettle == turn # "user" ~> turn = "user"

\* DynBFS.hpp:35: "Updates the distances after an edge insertion." (An edge
\* out of the last level is put in a queue the loop over the levels ends at.)
DistancesUpdated ==
  turn = "matching" /\ Len(events) = 1 /\ events[1].added => distances = Distances
=============================================================================
