------------------------------ MODULE GraphBuild ------------------------------
(***************************************************************************)
(* icebug-core: how graph snapshots come to be. Edge lists and tables are  *)
(* sorted into CSR arrays, adopted arrays are validated, an incoming index *)
(* is built by counting, an induced selection is materialized with its     *)
(* property rows. Every function is an operator that gives a graph, or     *)
(* Invalid where the code returns an error.                                *)
(*                                                                         *)
(* A CSR is [off, to, wt], where entry i of an array of the code (counted  *)
(* from 0) is entry i + 1 here: slot s of row u is in off[u + 1] ..        *)
(* off[u + 2] - 1, its target is to[s + 1], its weight wt[s + 1]. Property *)
(* tables are sequences of rows, row r being entry r + 1.                  *)
(***************************************************************************)
EXTENDS Integers, FiniteSets, SequencesExt

CONSTANTS
  Weights,      \* weights callers pass
  Infinite,     \* a weight that is not finite
  Invalid, None

Csrs == [off : Seq(Nat), to : Seq(Nat), wt : Seq(Weights) \cup {None}]

\* What is absent or refused differs from every number, array and adjacency.
ASSUME BuildAssumption ==
  /\ Weights \subseteq Int /\ 1 \in Weights /\ Infinite \notin Weights
  /\ None \notin Nat \cup Seq(Int) /\ {None, Invalid} \cap Csrs = {}

-----------------------------------------------------------------------------
(* Sorting: rank says of every element how many come before it.            *)

ByRank(rank) == [k \in 1 .. Cardinality(DOMAIN rank) |-> CHOOSE x \in DOMAIN rank : rank[x] = k - 1]
Ascending(S) == ByRank([x \in S |-> Cardinality({y \in S : y < x})])

-----------------------------------------------------------------------------
(* CsrAdjacency *)

Row(csr, u) == csr.off[u + 1] .. csr.off[u + 2] - 1
Target(csr, s) == csr.to[s + 1]
WeightAt(csr, s) == IF csr.wt = None THEN 1 ELSE csr.wt[s + 1]
SlotCount(csr) == Len(csr.to)
NodeCount(csr) == Len(csr.off) - 1
Neighbors(csr, u) == SubSeq(csr.to, csr.off[u + 1] + 1, csr.off[u + 2])

\* binary_search in a sorted row.
SlotOf(csr, u, v) ==
  IF \E s \in Row(csr, u) : Target(csr, s) = v
  THEN CHOOSE s \in Row(csr, u) : Target(csr, s) = v ELSE None

SortedUnique(row) == \A i \in 1 .. Len(row) - 1 : row[i] < row[i + 1]

CsrTryNew(n, to, off, wt) ==
  LET csr == [off |-> off, to |-> to, wt |-> wt]
      valid == /\ Len(off) = n + 1
               /\ off[1] = 0 /\ off[n + 1] = Len(to)
               /\ wt # None => Len(wt) = Len(to) /\ \A i \in DOMAIN wt : wt[i] # Infinite
               /\ \A u \in 0 .. n - 1 :
                    /\ off[u + 1] <= off[u + 2] /\ off[u + 2] <= Len(to)
                    /\ \A i \in DOMAIN Neighbors(csr, u) : Neighbors(csr, u)[i] < n
                    /\ SortedUnique(Neighbors(csr, u))
  IN IF valid THEN csr ELSE Invalid

-----------------------------------------------------------------------------
(* Graph *)

Loops(csr) == Cardinality({u \in 0 .. NodeCount(csr) - 1 : SlotOf(csr, u, u) # None})

LogicalEdges(directed, csr) ==
  IF directed THEN SlotCount(csr) ELSE (SlotCount(csr) + Loops(csr)) \div 2

Reverses(out, reverse) ==
  /\ NodeCount(reverse) = NodeCount(out)
  /\ SlotCount(reverse) = SlotCount(out)
  /\ (reverse.wt = None) = (out.wt = None)
  /\ \A u \in 0 .. NodeCount(out) - 1 : \A s \in Row(out, u) :
       LET r == SlotOf(reverse, Target(out, s), u)
       IN r # None /\ WeightAt(out, s) = WeightAt(reverse, r)

GraphTryNew(directed, out, incoming) ==
  IF \/ ~directed /\ incoming # None
     \/ directed /\ incoming # None /\ ~Reverses(out, incoming)
     \/ ~directed /\ ~Reverses(out, out)
  THEN Invalid
  ELSE [directed |-> directed, edges |-> LogicalEdges(directed, out), loops |-> Loops(out),
        out |-> out, in |-> incoming, names |-> None, rows |-> None, ids |-> None]

Incoming(g) == IF g.directed THEN g.in ELSE g.out

-----------------------------------------------------------------------------
(* build: every edge is stored at both ends of an undirected graph, once   *)
(* if it is a loop, and keeps the number of the row it came from.          *)

SlotsOf(directed, edges) ==
  LET There(i) == [from |-> edges[i].source, to |-> edges[i].target, wt |-> edges[i].weight, id |-> i - 1]
      Back(i) == [from |-> edges[i].target, to |-> edges[i].source, wt |-> edges[i].weight, id |-> i - 1]
  IN UNION {IF directed THEN {There(i)} ELSE {There(i), Back(i)} : i \in DOMAIN edges}

\* sort_by_key is stable.
Before(r, s) ==
  \/ r.from < s.from
  \/ r.from = s.from /\ r.to < s.to
  \/ r.from = s.from /\ r.to = s.to /\ r.id < s.id
SortSlots(slots) == ByRank([s \in slots |-> Cardinality({r \in slots : Before(r, s)})])

Acceptable(n, weighted, e) ==
  /\ e.source < n /\ e.target < n
  /\ e.weight # Infinite /\ (~weighted => e.weight = 1)

OffsetsOf(n, slots) == [u \in 1 .. n + 1 |-> Cardinality({i \in DOMAIN slots : slots[i].from < u - 1})]

DuplicateTargets(slots) ==    \* mutant: rows are not told apart
  \E i \in 1 .. Len(slots) - 1 : slots[i].to = slots[i + 1].to
HasDuplicates(slots) ==
  \E i \in 1 .. Len(slots) - 1 :
    slots[i].from = slots[i + 1].from /\ slots[i].to = slots[i + 1].to

\* The graph, and the edge row each slot came from.
Build(n, directed, weighted, edges) ==
  LET slots == SortSlots(SlotsOf(directed, edges))
      csr == CsrTryNew(n, [i \in DOMAIN slots |-> slots[i].to], OffsetsOf(n, slots),
                       IF weighted THEN [i \in DOMAIN slots |-> slots[i].wt] ELSE None)
      graph == GraphTryNew(directed, csr, None)
  IN IF \/ \E i \in DOMAIN edges : ~Acceptable(n, weighted, edges[i])
        \/ HasDuplicates(slots)
     THEN Invalid
     ELSE IF csr = Invalid THEN Invalid
     ELSE IF graph = Invalid THEN Invalid ELSE [graph |-> graph, ids |-> [i \in DOMAIN slots |-> slots[i].id]]

FromEdges(n, directed, weighted, edges) ==
  LET built == Build(n, directed, weighted, edges) IN IF built = Invalid THEN Invalid ELSE built.graph

-----------------------------------------------------------------------------
(* with_properties: one row per node, one row per logical edge, and the    *)
(* row of every slot.                                                      *)

Canonical(g, u, s) == g.directed \/ Target(g.out, s) >= u
IdsValid(g, ids) ==
  LET slots == {p \in (0 .. NodeCount(g.out) - 1) \X (0 .. SlotCount(g.out) - 1) : p[2] \in Row(g.out, p[1])}
      canonical == {p \in slots : Canonical(g, p[1], p[2])}
  IN /\ Len(ids) = SlotCount(g.out)
     /\ \A p \in slots : ids[p[2] + 1] < g.edges
     /\ \A p \in slots \ canonical :
          LET r == SlotOf(g.out, Target(g.out, p[2]), p[1])
          IN r # None /\ ids[r + 1] = ids[p[2] + 1]
     /\ \A p, q \in canonical : p # q => ids[p[2] + 1] # ids[q[2] + 1]
     /\ {ids[p[2] + 1] : p \in canonical} = 0 .. g.edges - 1

WithProperties(g, names, rows, ids) ==
  IF \/ names # None /\ Len(names) # NodeCount(g.out)
     \/ rows # None /\ (Len(rows) # g.edges \/ ids = None)
     \/ ids # None /\ ~IdsValid(g, ids)
  THEN Invalid
  ELSE [g EXCEPT !.names = names, !.rows = rows, !.ids = ids]

\* from_tables: nodes is the node_id column, table the concatenated batches
\* of [source, target, weight], endpoints named by node_id.
RowOf(nodes, name) == CHOOSE i \in DOMAIN nodes : nodes[i] = name
FromTables(nodes, table, directed, weighted) ==
  LET known == \A i \in DOMAIN table : {table[i].source, table[i].target} \subseteq Range(nodes)
      edges == [i \in DOMAIN table |->
                  [source |-> RowOf(nodes, table[i].source) - 1,
                   target |-> RowOf(nodes, table[i].target) - 1,
                   weight |-> IF weighted THEN table[i].weight ELSE 1]]
      built == Build(Len(nodes), directed, weighted, edges)
  IN IF ~IsInjective(nodes) \/ ~known THEN Invalid
     ELSE IF built = Invalid THEN Invalid
     ELSE WithProperties(built.graph, nodes, table, built.ids)

-----------------------------------------------------------------------------
(* prepare_incoming: targets are counted, then every arc is put at the     *)
(* cursor of its target, in the order of the outgoing rows.                *)

ArcsInto(csr, v) == {s \in 0 .. SlotCount(csr) - 1 : Target(csr, s) = v}
SourceOf(csr, s) == CHOOSE u \in 0 .. NodeCount(csr) - 1 : s \in Row(csr, u)
CountsOf(csr) ==
  [v \in DOMAIN csr.off |-> Cardinality({s \in 0 .. SlotCount(csr) - 1 : Target(csr, s) < v - 1})]
CursorSlot(csr, s) ==
  CountsOf(csr)[Target(csr, s) + 1] + Cardinality({r \in ArcsInto(csr, Target(csr, s)) : r < s})
ArcsByTarget(csr) == ByRank([s \in 0 .. SlotCount(csr) - 1 |-> CursorSlot(csr, s)])
WeightsInPlace(csr) == csr.wt     \* mutant: the weights keep the outgoing order
WeightsByTarget(csr) ==
  IF csr.wt = None THEN None ELSE [k \in DOMAIN csr.to |-> WeightAt(csr, ArcsByTarget(csr)[k])]
PrepareIncoming(g) ==
  IF Incoming(g) # None THEN g
  ELSE [g EXCEPT !.in = CsrTryNew(NodeCount(g.out),
                                  [k \in DOMAIN g.out.to |-> SourceOf(g.out, ArcsByTarget(g.out)[k])],
                                  CountsOf(g.out), WeightsByTarget(g.out))]

-----------------------------------------------------------------------------
(* InducedView: members are sorted base ids, their ranks the compact ids.  *)

Members(S) == Ascending(S)
Rank(members, v) == SelectInSeq(members, LAMBDA m : m = v) - 1

ViewNeighbors(g, members, u) ==
  LET row == Neighbors(g.out, members[u + 1])
      inside == Ascending({i \in DOMAIN row : row[i] \in Range(members)})
  IN [k \in DOMAIN inside |-> Rank(members, row[inside[k]])]

\* The slots of the members' rows that stay, each logical edge once; rows
\* follow each other, so this is the order of the slots.
TakenForward(g, members, u, s) ==  \* mutant: a self-loop is taken for a reverse slot
  /\ Target(g.out, s) \in Range(members)
  /\ ~g.directed => Rank(members, Target(g.out, s)) > u
Taken(g, members, u, s) ==
  /\ Target(g.out, s) \in Range(members)
  /\ ~g.directed => Rank(members, Target(g.out, s)) >= u
TakenSlots(g, members) ==
  Ascending(UNION {{s \in Row(g.out, m) : Taken(g, members, Rank(members, m), s)} : m \in Range(members)})

\* Each row of the list is found again in the compact graph, both ways.
SlotIds(compact, edges) ==
  [k \in 1 .. SlotCount(compact.out) |->
     LET s == k - 1
         u == SourceOf(compact.out, s)
         v == Target(compact.out, s)
         IsEdge(e) == \/ e.source = u /\ e.target = v
                      \/ ~compact.directed /\ e.source = v /\ e.target = u
     IN SelectLastInSeq(edges, IsEdge) - 1]

\* One property row per taken slot.
RowsInOrder(g, taken) == SubSeq(g.rows, 1, Len(taken))     \* mutant: the first rows are kept
RowsTaken(g, taken) == [i \in DOMAIN taken |-> g.rows[g.ids[taken[i] + 1] + 1]]

Materialize(g, members) ==
  LET taken == TakenSlots(g, members)
      edges == [i \in DOMAIN taken |->
                  [source |-> Rank(members, SourceOf(g.out, taken[i])),
                   target |-> Rank(members, Target(g.out, taken[i])),
                   weight |-> WeightAt(g.out, taken[i])]]
      compact == FromEdges(Len(members), g.directed, g.out.wt # None, edges)
      names == IF g.names = None THEN None ELSE [i \in DOMAIN members |-> g.names[members[i] + 1]]
      rows == IF g.rows = None THEN None ELSE RowsTaken(g, taken)
  IN IF compact = Invalid THEN Invalid
     ELSE WithProperties(compact, names, rows, IF rows = None THEN None ELSE SlotIds(compact, edges))
=============================================================================
