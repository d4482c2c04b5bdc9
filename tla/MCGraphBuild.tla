----------------------------- MODULE MCGraphBuild -----------------------------
(***************************************************************************)
(* Graphs built from every small table, adopted from every small pair of   *)
(* arrays, prepared and materialized again and again.                      *)
(***************************************************************************)
EXTENDS GraphBuild

CONSTANTS
  Names,      \* external node ids; the node table lists them in a set order
  Stranger,   \* an external id that no node table lists
  MaxRows,    \* bound on the rows of an edge table
  AdoptSize,  \* nodes of an adopted graph
  MaxSlots    \* bound on its slots

TableRows == [source : Names \cup {Stranger}, target : Names \cup {Stranger}, weight : Weights \cup {Infinite}]
Graphs ==
  [directed : BOOLEAN, edges : Nat, loops : Nat, out : Csrs, in : Csrs \cup {None},
   names : Seq(Names) \cup {None}, rows : Seq(TableRows) \cup {None}, ids : Seq(Nat) \cup {None}]

ASSUME TablesAssumption ==
  /\ IsFiniteSet(Names) /\ Names # {} /\ Stranger \notin Names
  /\ MaxRows \in Nat /\ AdoptSize \in Nat /\ MaxSlots \in Nat
  /\ None \notin Seq(Names) /\ {None, Invalid} \cap Graphs = {}
  /\ Invalid \notin [graph : Graphs, ids : Seq(Nat)]

VARIABLES
  directed, weighted,
  table,      \* the edge table handed to from_tables
  graph       \* None, Invalid or the graph at hand

vars == <<directed, weighted, table, graph>>

NodeTable == SetToSeq(Names)
\* One edge of unknown source and one of infinite weight stand for all such.
Someone == CHOOSE x \in Names : TRUE
EdgeRows ==
  [source : Names, target : Names, weight : IF weighted THEN Weights ELSE {1}]
    \cup {[source |-> Stranger, target |-> Someone, weight |-> 1],
          [source |-> Someone, target |-> Someone, weight |-> Infinite]}

Init ==
  /\ directed \in BOOLEAN /\ weighted \in BOOLEAN
  /\ table = <<>> /\ graph = None

\* A table that is refused already is not made longer.
AddRow(e) ==
  /\ graph = None /\ Len(table) < MaxRows
  /\ FromTables(NodeTable, table, directed, weighted) # Invalid
  /\ table' = Append(table, e) /\ UNCHANGED <<directed, weighted, graph>>

LoadTables ==
  /\ graph = None
  /\ graph' = FromTables(NodeTable, table, directed, weighted)
  /\ UNCHANGED <<directed, weighted, table>>

Arrays(f, n) == UNION {[1 .. k -> f] : k \in 0 .. n}
AdoptedCsrs ==
  {CsrTryNew(AdoptSize, to, off, wt) :
     to \in Arrays(0 .. AdoptSize, MaxSlots), off \in [1 .. AdoptSize + 1 -> 0 .. MaxSlots + 1],
     wt \in {None} \cup Arrays(Weights, MaxSlots)} \ {Invalid}

Adopt(out, incoming) ==
  /\ graph = None /\ table = <<>>
  /\ graph' = GraphTryNew(directed, out, incoming)
  /\ UNCHANGED <<directed, weighted, table>>

Usable == graph \notin {None, Invalid}
Prepare == Usable /\ graph' = PrepareIncoming(graph) /\ UNCHANGED <<directed, weighted, table>>
Induce(S) ==
  /\ Usable /\ graph' = Materialize(graph, Members(S))
  /\ UNCHANGED <<directed, weighted, table>>

Stored == IF Usable THEN 0 .. NodeCount(graph.out) - 1 ELSE {}

Next ==
  \/ \E e \in EdgeRows : AddRow(e)
  \/ LoadTables
  \/ \E out \in AdoptedCsrs, incoming \in AdoptedCsrs \cup {None} : Adopt(out, incoming)
  \/ Prepare
  \/ \E S \in SUBSET Stored : Induce(S)

Spec == Init /\ [][Next]_vars

-----------------------------------------------------------------------------
Arcs(csr) ==
  UNION {{<<u, Target(csr, s), WeightAt(csr, s)>> : s \in Row(csr, u)} : u \in 0 .. NodeCount(csr) - 1}
Flipped(arcs) == {<<a[2], a[1], a[3]>> : a \in arcs}

\* Rows are sorted without repetition inside the bounds, in both
\* directions.
WellFormed(csr) ==
  /\ csr.off[1] = 0 /\ csr.off[NodeCount(csr) + 1] = SlotCount(csr)
  /\ csr.wt # None => DOMAIN csr.wt = DOMAIN csr.to
  /\ \A u \in 0 .. NodeCount(csr) - 1 :
       LET row == Neighbors(csr, u)
       IN \A i, j \in DOMAIN row : row[i] < NodeCount(csr) /\ (i < j => row[i] < row[j])
\* A graph that is accepted has well-formed rows, counts every loop and both
\* slots of an undirected edge once, and has a table row per node and edge.
\* Its incoming rows are the transpose of the outgoing ones, weights and all,
\* whether built, adopted or shared by an undirected graph.
GraphValid ==
  Usable =>
    /\ WellFormed(graph.out)
    /\ graph.in # None => graph.in # Invalid /\ WellFormed(graph.in)
    /\ graph.names # None => Len(graph.names) = NodeCount(graph.out)
    /\ graph.rows # None => Len(graph.rows) = graph.edges
    /\ LET Ends(a) == IF graph.directed THEN <<a[1], a[2]>> ELSE {a[1], a[2]}
       IN graph.edges = Cardinality({Ends(a) : a \in Arcs(graph.out)})
    /\ graph.loops = Cardinality({a \in Arcs(graph.out) : a[1] = a[2]})
    /\ Incoming(graph) # None => Arcs(Incoming(graph)) = Flipped(Arcs(graph.out))

\* Through sorting, both storage directions and any selections, the row of
\* a slot is the row of the edge it stands for and its weight.
PropertiesFollow ==
  Usable /\ graph.rows # None =>
    \A u \in Stored : \A s \in Row(graph.out, u) :
      LET row == graph.rows[graph.ids[s + 1] + 1]
          here == graph.names[u + 1]
          there == graph.names[Target(graph.out, s) + 1]
      IN /\ \/ row.source = here /\ row.target = there
            \/ ~graph.directed /\ row.source = there /\ row.target = here
         /\ graph.out.wt # None => row.weight = WeightAt(graph.out, s)

\* from_tables accepts exactly the simple graphs with known ends and finite
\* weights, and stores every edge of the table.
AcceptsSimple ==
  [][LoadTables =>
       LET Ends(e) == IF directed THEN <<e.source, e.target>> ELSE {e.source, e.target}
           simple == \A i, j \in DOMAIN table : i # j => Ends(table[i]) # Ends(table[j])
           sound == \A i \in DOMAIN table : table[i].source # Stranger /\ (weighted => table[i].weight # Infinite)
       IN IF simple /\ sound THEN Usable' /\ graph'.edges = Len(table) ELSE graph' = Invalid]_vars

\* A selection never fails to materialize, and its rows are those the view
\* shows by filtering the base.
ViewAgrees ==
  Usable =>
    \A S \in SUBSET Stored :
      LET compact == Materialize(graph, Members(S))
      IN /\ compact # Invalid
         /\ \A u \in 0 .. Cardinality(S) - 1 :
              Neighbors(compact.out, u) = ViewNeighbors(graph, Members(S), u)
=============================================================================
