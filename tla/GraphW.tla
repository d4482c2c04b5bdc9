------------------------------- MODULE GraphW -------------------------------
(***************************************************************************)
(* NetworKit::GraphW, the mutable graph: vectors of neighbours with weight *)
(* and edge id vectors kept in parallel, removal by overwriting with the   *)
(* last entry, optional sorting and id compaction after a removal, and one *)
(* edge attribute storage (values with a validity bit, indexed by id).     *)
(*                                                                         *)
(* A graph is a record, and every member function that changes it is an    *)
(* operator from graphs to graphs, as some call one another (removeNode    *)
(* calls removeEdge, setWeight calls addEdge). Calls are atomic: the class *)
(* is not thread safe.                                                     *)
(***************************************************************************)
EXTENDS Integers, FiniteSets, SequencesExt

CONSTANTS
  Weights,     \* edge weights callers use
  Values,      \* attribute values callers use
  None         \* an attribute entry that is not valid

ASSUME GraphAssumption == Weights \subseteq Int /\ None \notin Values

VARIABLE graph

-----------------------------------------------------------------------------
(* Rows: the parallel vectors of one node. *)

NoRow == [to |-> <<>>, wt |-> <<>>, id |-> <<>>]

\* push_back on every vector the graph has.
Push(g, row, v, w, id) ==
  [to |-> Append(row.to, v),
   wt |-> IF g.weighted THEN Append(row.wt, w) ELSE row.wt,
   id |-> IF g.indexed THEN Append(row.id, id) ELSE row.id]

\* The template erase, of a vector that may be absent: overwrite with the
\* last entry, pop it.
Overwrite(s, i) == IF s = <<>> THEN s ELSE Front([s EXCEPT ![i] = Last(s)])
EraseAtShift(row, i) ==     \* mutant: the weights are shifted, not overwritten
  [to |-> Overwrite(row.to, i), id |-> Overwrite(row.id, i),
   wt |-> IF row.wt = <<>> THEN <<>> ELSE RemoveAt(row.wt, i)]
EraseAt(row, i) ==
  [to |-> Overwrite(row.to, i), wt |-> Overwrite(row.wt, i), id |-> Overwrite(row.id, i)]

\* indexInOutEdgeArray and indexInInEdgeArray: the first match, 0 for none.
Index(row, v) == SelectInSeq(row.to, LAMBDA x : x = v)

\* Where bubbling the entry at i upwards ends.
Settles(row, i) ==
  IF i > Len(row.to) THEN i
  ELSE CHOOSE k \in i .. Len(row.to) :
         /\ \A j \in i + 1 .. k : row.to[j] < row.to[i]
         /\ k = Len(row.to) \/ row.to[k + 1] >= row.to[i]

Rotate(s, i, k) ==
  [j \in DOMAIN s |-> IF j \in i .. k - 1 THEN s[j + 1] ELSE IF j = k THEN s[i] ELSE s[j]]

\* The bubbling of removeEdge moves targets and ids.
Bubble(row, i) ==
  LET k == Settles(row, i)
  IN IF i > Len(row.to) THEN row
     ELSE [row EXCEPT !.to = Rotate(@, i, k),
                      !.id = IF @ = <<>> THEN @ ELSE Rotate(@, i, k)]

-----------------------------------------------------------------------------
(* The attribute storage, once attached: attr[id + 1] is the value of edge id. *)

HasValue(g, id) == id < Len(g.attr) /\ g.attr[id + 1] # None

\* An assertion of the storage fails: the graph is of no further use.
Broken(g) == [g EXCEPT !.failed = TRUE]

Invalidate(g, id) == IF id < Len(g.attr) THEN [g EXCEPT !.attr[id + 1] = None] ELSE g

SwapData(g, i, j) ==
  IF ~g.attached THEN g
  ELSE IF i >= Len(g.attr) \/ j >= Len(g.attr)
  THEN Broken(g)
  ELSE [g EXCEPT !.attr[i + 1] = g.attr[j + 1], !.attr[j + 1] = g.attr[i + 1]]

EraseDataKeep(g, id) ==     \* mutant: the entry is kept, though invalid
  IF g.attached /\ id >= Len(g.attr) THEN Broken(g) ELSE g
EraseData(g, id) ==
  IF ~g.attached THEN g
  ELSE IF id >= Len(g.attr) THEN Broken(g) ELSE [g EXCEPT !.attr = RemoveAt(@, id + 1)]

\* Attribute::set on the id of edge (u, v) grows the storage when needed.
SetValue(g, id, a) ==
  LET grown == [i \in 1 .. IF id < Len(g.attr) THEN Len(g.attr) ELSE id + 1 |->
                  IF i <= Len(g.attr) THEN g.attr[i] ELSE None]
  IN [g EXCEPT !.attr = [grown EXCEPT ![id + 1] = a]]

-----------------------------------------------------------------------------
(* Nodes and edges *)

NodesOf(g) == g.exists
InRow(g, v) == IF g.directed THEN g.in[v] ELSE g.out[v]
HasEdge(g, u, v) == Index(g.out[u], v) # 0
IdOf(g, u, v) == g.out[u].id[Index(g.out[u], v)]

NewGraph(size, directed, weighted, indexed) ==
  [z |-> size, n |-> size, m |-> 0, loops |-> 0, omega |-> 0, exists |-> 0 .. size - 1,
   directed |-> directed, weighted |-> weighted, indexed |-> indexed,
   sorted |-> FALSE, compact |-> FALSE,
   out |-> [v \in 0 .. size - 1 |-> NoRow],
   in |-> [v \in 0 .. (IF directed THEN size - 1 ELSE -1) |-> NoRow],
   attached |-> FALSE, attr |-> <<>>, failed |-> FALSE]

Grow(rows, v) == [x \in DOMAIN rows \cup {v} |-> IF x = v THEN NoRow ELSE rows[x]]

AddNodeTo(g) ==
  [g EXCEPT !.z = @ + 1, !.n = @ + 1, !.exists = @ \cup {g.z},
            !.out = Grow(@, g.z), !.in = IF g.directed THEN Grow(@, g.z) ELSE @]

RestoreNodeIn(g, v) == [g EXCEPT !.exists = @ \cup {v}, !.n = @ + 1]

NextId(g) == g.omega

AddEdgeTo(g, u, v, w) ==
  LET id == NextId(g)
      counted == [g EXCEPT !.m = @ + 1, !.loops = IF u = v THEN @ + 1 ELSE @,
                           !.omega = IF g.indexed THEN id + 1 ELSE @,
                           !.out[u] = Push(g, @, v, w, id)]
  IN IF g.directed
     THEN [counted EXCEPT !.in[v] = Push(g, @, u, w, id)]
     ELSE IF u = v THEN counted ELSE [counted EXCEPT !.out[v] = Push(g, @, u, w, id)]

-----------------------------------------------------------------------------
(* removeEdge *)

\* Sorting the source's row swaps the attributes of the ids it exchanges.
SortSource(g, u, i) ==
  LET k == Settles(g.out[u], i)
      Swap(h, d) == SwapData(h, h.out[u].id[i + d], h.out[u].id[k])
      moved == [g EXCEPT !.out[u] = Bubble(@, i)]
  IN IF g.indexed THEN FoldLeft(Swap, moved, [d \in 1 .. k - i |-> d - 1]) ELSE moved

SortTarget(g, v, j) ==
  IF g.directed THEN g ELSE [g EXCEPT !.out[v] = Bubble(@, j)]

\* Ids above the deleted one move down by one, in every out row.
ShiftIds(ids, id) == [i \in DOMAIN ids |-> IF ids[i] > id THEN ids[i] - 1 ELSE ids[i]]
CompactIds(g, id) ==
  EraseData([g EXCEPT !.out = [v \in DOMAIN g.out |->
                                 [g.out[v] EXCEPT !.id = ShiftIds(@, id)]]], id)

\* In ids are looked up again in the out rows, by first match.
InIdsOf(g, v) == [i \in DOMAIN g.in[v].to |-> IdOf(g, g.in[v].to[i], v)]
CopyInIds(g) ==
  [g EXCEPT !.in = [v \in DOMAIN g.in |-> [g.in[v] EXCEPT !.id = InIdsOf(g, v)]]]

RemoveInUnsorted(g, v, j) ==     \* mutant: the in row is left as it is
  LET gone == [g EXCEPT !.in[v] = EraseAt(@, j)] IN IF g.compact THEN CopyInIds(gone) ELSE gone
RemoveIn(g, v, j) ==
  LET gone == [g EXCEPT !.in[v] = EraseAt(@, j)]
      kept == IF g.sorted THEN [gone EXCEPT !.in[v] = Bubble(@, j)] ELSE gone
  IN IF g.compact THEN CopyInIds(kept) ELSE kept

CanRemove(g, u, v) == HasEdge(g, u, v) /\ (g.compact => g.indexed)

RemoveEdgeFrom(g, u, v) ==
  LET i == Index(g.out[u], v)
      j == Index(InRow(g, v), u)
      id == IF g.indexed THEN IdOf(g, u, v) ELSE 0
      counted == [g EXCEPT !.m = @ - 1, !.loops = IF u = v THEN @ - 1 ELSE @,
                           !.out[u] = EraseAt(@, i)]
      marked == IF g.indexed THEN Invalidate(counted, id) ELSE counted
      erased == IF ~g.directed /\ u # v THEN [marked EXCEPT !.out[v] = EraseAt(@, j)] ELSE marked
      inOrder == IF g.sorted THEN SortTarget(SortSource(erased, u, i), v, j) ELSE erased
      compacted == IF g.compact THEN CompactIds(inOrder, id) ELSE inOrder
      done == IF g.directed THEN RemoveIn(compacted, v, j) ELSE compacted
  IN [done EXCEPT !.omega = IF g.compact THEN @ - 1 ELSE @]

Remaining(s) == [i \in DOMAIN s |-> i]

\* removeNode removes the first edge until none is left, then in edges.
DropNodeOnly(g, v) == [g EXCEPT !.exists = @ \ {v}, !.n = @ - 1]
RemoveNodeFrom(g, v) ==
  LET noOut == FoldLeft(LAMBDA h, i : IF h.out[v].to = <<>> THEN h
                                      ELSE RemoveEdgeFrom(h, v, h.out[v].to[1]),
                        g, Remaining(g.out[v].to))
      noIn == IF ~g.directed THEN noOut
              ELSE FoldLeft(LAMBDA h, i : IF h.in[v].to = <<>> THEN h
                                          ELSE RemoveEdgeFrom(h, h.in[v].to[1], v),
                            noOut, Remaining(noOut.in[v].to))
  IN DropNodeOnly(noIn, v)

-----------------------------------------------------------------------------
(* Removals of many edges: no attribute is invalidated, no id is freed. *)

Cleared(rows) == [v \in DOMAIN rows |-> NoRow]
RemoveAllEdgesFrom(g) == [g EXCEPT !.out = Cleared(@), !.in = Cleared(@), !.m = 0]

\* removeAdjacentEdges: scans the row, overwriting what is dropped with the
\* last entry, which is looked at next. Dropped are the targets given and, for
\* copies, those met before.
Sweep(row, dropped, copies) ==
  FoldLeft(LAMBDA s, k : IF s.at > Len(s.row.to) THEN s
                         ELSE LET v == s.row.to[s.at] IN
                              [row |-> IF v \in s.drop THEN EraseAt(s.row, s.at) ELSE s.row,
                               at |-> IF v \in s.drop THEN s.at ELSE s.at + 1,
                               drop |-> s.drop \cup (IF copies THEN {v} ELSE {})],
           [row |-> row, at |-> 1, drop |-> dropped], Remaining(row.to)).row

WithoutLoops(rows) == [u \in DOMAIN rows |-> Sweep(rows[u], {u}, FALSE)]
RemoveSelfLoopsFrom(g) ==
  [g EXCEPT !.out = WithoutLoops(@), !.in = WithoutLoops(@), !.m = @ - g.loops, !.loops = 0]

Multiplicity(row, v) == Cardinality({i \in DOMAIN row.to : row.to[i] = v})
WithoutCopies(rows) == [u \in DOMAIN rows |-> Sweep(rows[u], {}, TRUE)]
Total(f) == FoldFunctionOnSet(LAMBDA a, b : a + b, 0, f, DOMAIN f)
Copies(g, ofLoops) ==
  Total([p \in {q \in g.exists \X (DOMAIN g.out) : (q[1] = q[2]) = ofLoops /\ HasEdge(g, q[1], q[2])} |->
           Multiplicity(g.out[p[1]], p[2]) - 1])
HalfUnlessDirected(g, k) == IF g.directed THEN k ELSE k \div 2
RemoveMultiEdgesFrom(g) ==
  LET edges == Copies(g, FALSE)
      loops == Copies(g, TRUE)
  IN [g EXCEPT !.out = WithoutCopies(@), !.in = WithoutCopies(@),
               !.m = @ - (HalfUnlessDirected(g, edges) + loops),
               !.loops = @ - loops]

-----------------------------------------------------------------------------
(* Weights, ids, order *)

\* The weight w takes the place of the old one or is added to it.
Reweigh(g, u, v, w, added) ==
  LET New(old) == IF added THEN old + w ELSE w
      here == [g EXCEPT !.out[u].wt[Index(g.out[u], v)] = New(@)]
      j == Index(InRow(g, v), u)
  IN IF g.directed THEN [here EXCEPT !.in[v].wt[j] = New(@)]
     ELSE IF u = v THEN here ELSE [here EXCEPT !.out[v].wt[j] = New(@)]

\* Both create an edge that does not exist.
SetWeightIn(g, u, v, w) ==
  IF HasEdge(g, u, v) THEN Reweigh(g, u, v, w, FALSE) ELSE AddEdgeTo(g, u, v, w)
IncreaseWeightSets(g, u, v, w) ==     \* mutant: the weight is replaced
  IF HasEdge(g, u, v) THEN Reweigh(g, u, v, w, FALSE) ELSE AddEdgeTo(g, u, v, w)
IncreaseWeightIn(g, u, v, w) ==
  IF HasEdge(g, u, v) THEN Reweigh(g, u, v, w, TRUE) ELSE AddEdgeTo(g, u, v, w)

\* indexEdges numbers the edges seen from one end, node by node, and copies
\* the ids to the other end.
Owned(g, u) == {i \in DOMAIN g.out[u].to : g.directed \/ u >= g.out[u].to[i]}
NumberBefore(g, u, i) ==
  Cardinality({p \in UNION {{x} \X Owned(g, x) : x \in NodesOf(g)} :
                 p[1] < u \/ (p[1] = u /\ p[2] < i)})
OwnedId(g, u, v) == NumberBefore(g, u, Index(g.out[u], v))
IndexedOut(g, u) ==
  [i \in DOMAIN g.out[u].to |->
     IF i \in Owned(g, u) THEN NumberBefore(g, u, i) ELSE OwnedId(g, g.out[u].to[i], u)]
IndexEdgesIn(g) ==
  LET ids == [g EXCEPT !.indexed = TRUE, !.omega = NumberBefore(g, g.z, 0),
                       !.out = [u \in DOMAIN g.out |-> [g.out[u] EXCEPT !.id = IndexedOut(g, u)]]]
  IN IF g.directed THEN CopyInIds(ids) ELSE ids

\* sortEdges: every row in the order of the nodes the entries come from; the
\* new out rows are read from the in rows, the new in rows from those.
Entries(rows, v) ==
  UNION {{<<u, i>> : i \in {k \in DOMAIN rows[u].to : rows[u].to[k] = v}} : u \in DOMAIN rows}
Earlier(p, q) == p[1] < q[1] \/ (p[1] = q[1] /\ p[2] < q[2])
RowFrom(rows, v) ==
  LET order == SetToSortSeq(Entries(rows, v), Earlier)
      Stored(field) == {k \in DOMAIN order : rows[order[k][1]][field] # <<>>}
      From(field) == [k \in Stored(field) |-> rows[order[k][1]][field][order[k][2]]]
  IN [to |-> [k \in DOMAIN order |-> order[k][1]], wt |-> From("wt"), id |-> From("id")]
Collect(rows) == [v \in DOMAIN rows |-> RowFrom(rows, v)]
SortEdgesIn(g) ==
  LET newOut == Collect(IF g.directed THEN g.in ELSE g.out)
  IN [g EXCEPT !.out = newOut, !.in = IF g.directed THEN Collect(newOut) ELSE @]

\* sortNeighbors permutes the vectors of one row; in weights stay in place.
Permute(row, order) ==
  LET arranged(s) == [k \in DOMAIN s |-> s[order[k]]]
  IN [to |-> arranged(row.to), wt |-> arranged(row.wt), id |-> arranged(row.id)]
Ascending(row) ==
  SetToSortSeq(DOMAIN row.to,
               LAMBDA i, j : row.to[i] < row.to[j] \/ (row.to[i] = row.to[j] /\ i < j))
SortNeighborsIn(g, u) ==
  [g EXCEPT !.out[u] = Permute(@, Ascending(@)),
            !.in = IF ~g.directed THEN @
                   ELSE [@ EXCEPT ![u] = [Permute(@, Ascending(@)) EXCEPT !.wt = g.in[u].wt]]]

\* sortEdges with a comparison (here: descending targets) clears and refills
\* the out rows, with edge id 0.
SortEdgesByIn(g) ==
  LET Refilled(row) == [Permute(row, Reverse(Ascending(row))) EXCEPT
                          !.id = [i \in DOMAIN row.id |-> 0]]
  IN [g EXCEPT !.out = [u \in DOMAIN g.out |-> Refilled(g.out[u])]]

\* swapEdge: the targets of two edges are exchanged, at both ends.
ExchangeAt(rows, f, u, i, v, j) ==
  IF rows[u][f] = <<>> THEN rows
  ELSE [rows EXCEPT ![u] = [@ EXCEPT ![f] = [@ EXCEPT ![i] = rows[v][f][j]]],
                    ![v] = [@ EXCEPT ![f] = [@ EXCEPT ![j] = rows[u][f][i]]]]
ExchangeEntries(rows, u, i, v, j) ==
  ExchangeAt(ExchangeAt(ExchangeAt(rows, "to", u, i, v, j), "wt", u, i, v, j), "id", u, i, v, j)
SwapEdgeIn(g, s1, t1, s2, t2) ==
  LET i1 == Index(g.out[s1], t1)      i2 == Index(g.out[s2], t2)
      j1 == Index(InRow(g, t1), s1)   j2 == Index(InRow(g, t2), s2)
      sources == [g EXCEPT !.out = ExchangeAt(@, "to", s1, i1, s2, i2)]
  IN IF g.directed THEN [sources EXCEPT !.in = ExchangeEntries(@, t1, j1, t2, j2)]
     ELSE [sources EXCEPT !.out = ExchangeEntries(@, t1, j1, t2, j2)]

-----------------------------------------------------------------------------
(* The calls. Callers meet the asserted preconditions; a call that throws  *)
(* changes nothing and is left out.                                        *)

Nodes == NodesOf(graph)
Usable == ~graph.failed

AddNode == Usable /\ graph' = AddNodeTo(graph)

RemoveNode(v) ==
  /\ Usable /\ v \in Nodes
  /\ graph.compact /\ ~graph.indexed => graph.out[v].to = <<>> /\ InRow(graph, v).to = <<>>
  /\ graph' = RemoveNodeFrom(graph, v)

RestoreNode(v) ==
  Usable /\ v \in DOMAIN graph.out \ Nodes /\ graph' = RestoreNodeIn(graph, v)

\* Multi-edges are not supported; AddParallelEdge makes one all the same, as
\* addEdge does unless asked to check.
AddEdge(u, v, w) == Usable /\ ~HasEdge(graph, u, v) /\ graph' = AddEdgeTo(graph, u, v, w)
AddParallelEdge(u, v, w) ==
  Usable /\ HasEdge(graph, u, v) /\ graph' = AddEdgeTo(graph, u, v, w)

RemoveEdge(u, v) == Usable /\ CanRemove(graph, u, v) /\ graph' = RemoveEdgeFrom(graph, u, v)

RemoveAllEdges == Usable /\ graph' = RemoveAllEdgesFrom(graph)
RemoveSelfLoops == Usable /\ graph' = RemoveSelfLoopsFrom(graph)
RemoveMultiEdges == Usable /\ graph' = RemoveMultiEdgesFrom(graph)

SetWeight(u, v, w) ==
  Usable /\ graph.weighted /\ graph' = SetWeightIn(graph, u, v, w)

\* Weights that callers reach are bounded by those they use.
IncreaseWeight(u, v, w) ==
  /\ Usable /\ graph.weighted
  /\ HasEdge(graph, u, v) => graph.out[u].wt[Index(graph.out[u], v)] + w \in Weights
  /\ graph' = IncreaseWeightIn(graph, u, v, w)

IndexEdges == Usable /\ ~graph.indexed /\ graph' = IndexEdgesIn(graph)
ForceIndexEdges == Usable /\ graph.indexed /\ graph' = IndexEdgesIn(graph)

SortEdges == Usable /\ graph' = SortEdgesIn(graph)
SortEdgesBy == Usable /\ graph' = SortEdgesByIn(graph)
SortNeighbors(u) == Usable /\ graph' = SortNeighborsIn(graph, u)

SetKeepEdgesSorted(b) == Usable /\ graph' = [graph EXCEPT !.sorted = b]
SetMaintainCompactEdges(b) == Usable /\ graph' = [graph EXCEPT !.compact = b]

Attach ==
  Usable /\ graph.indexed /\ ~graph.attached /\ graph' = [graph EXCEPT !.attached = TRUE]
Detach ==
  Usable /\ graph.attached /\ graph' = [graph EXCEPT !.attached = FALSE, !.attr = <<>>]

SetAttribute(u, v, a) ==
  /\ Usable /\ graph.attached /\ HasEdge(graph, u, v)
  /\ graph' = SetValue(graph, IdOf(graph, u, v), a)

\* EdgeSwitching and LFRGenerator swap edges that pass these tests.
Switch(s1, t1, s2, t2) ==
  /\ Usable
  /\ HasEdge(graph, s1, t1) /\ HasEdge(graph, s2, t2)
  /\ s2 # t1 /\ t1 # t2 /\ s1 # t2
  /\ ~HasEdge(graph, s2, t1) /\ ~HasEdge(graph, s1, t2)
  /\ graph' = SwapEdgeIn(graph, s1, t1, s2, t2)
=============================================================================
