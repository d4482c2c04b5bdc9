# A TLA+ model of icebug and Icecat

The repository holds two graph-analytics libraries. **icebug** is a C++ library with Python
bindings (`include/networkit`, `networkit/cpp`): a mutable graph (`GraphW`), immutable Arrow
graphs and views (`GraphR`, ...), and several hundred algorithms, some of them parallel (OpenMP)
with shared atomics, some of them dynamic. **Icecat** is the Rust rewrite (`rust/crates`):
immutable validated snapshots, a shared execution context with a memory budget and cancellation,
a durable snapshot store, and a small set of kernels.

This directory models the parts whose correctness depends on order, sharing, failure or long
sequences of calls. TLC checks every model on small instances; TLAPS proves theorems about the
snapshot store, the graph handles, the construction of graphs, the shared budget, the traversal and
component kernels, the concurrent union-find, the dynamic components, the frames of KADABRA and Leiden's two parallel
phases for every instance.

## How to run

    tlc -workers 2 -config MCKernels.cfg MCKernels.tla         # one run
    tlapm DynamicProofs.tla                                    # the proofs of one component

The proofs are in `IcecatStateProofs` (the snapshot store and the graph handles), `ContextProofs`, `GraphBuildProofs`, `KernelProofs`,
`UnionFindProofs`, `DynamicProofs`, `KadabraProofs` and `LeidenProofs`. `KernelProofs`, the longest, takes several minutes.

`PROJECT.json` lists every run with its module, its configuration and its properties, maps every
definition to the source lines it models, gives a mutant of the code that breaks each property,
and lists the hazards with the properties that cover them.

## Inventory

### Modelled

| Part | State it keeps | Operations | What is hard | What must hold |
|---|---|---|---|---|
| Icecat execution context (`icebug-core/src/execution.rs`) | `used`, `peak`, `cancelled`, relaxed atomics shared by every clone | `reserve`, `Reservation::drop`, `cancel`, `check` | a weak compare-and-exchange loop racing with itself, with drops and with cancellation | every byte belongs to one reservation, the limit holds, refusals are justified, calls return |
| Icecat graph handles (`icebug-core/src/graph.rs`) | snapshots shared by `Arc`, incoming index, reservations | `prepare_incoming`, `with_properties`, `clone`, drop | a charge must live exactly as long as its buffers, through errors, clones and derived graphs | no leak, no uncharged buffer |
| Icecat graph construction (`graph.rs`, `builder.rs`, `view.rs`) | none: functions from tables to graphs | `try_new`, `from_edges`, `from_tables`, `prepare_incoming`'s counting sort, `InducedView` | duplicates over two directions, loops, property rows carried along sorts | graphs are valid and are the graph that was meant |
| Icecat snapshot store (`icebug-io/src/lib.rs`) | a directory of sections and a manifest | `write_snapshot`, `read_snapshot` | an error or a kill at any call, concurrent writers, damage | a reader gets one published graph or an error |
| Icecat traversal kernels (`icebug-algorithms/src/traversal.rs`) | distances, parents, queue or heap | `bfs`, `dijkstra`, `dijkstra_paths` | stale heap entries, zero weights, overflow, the memory bound, cancellation | distances and paths are shortest |
| Icecat component kernels (`components.rs`) | a parent forest; stacks and an order | `weakly_…`, `strongly_connected_components` | halving while linking; explicit stacks; the order of the second pass | labels are the least node of each component |
| icebug mutable graph (`GraphW.cpp`, `GraphW.hpp`, `Attributes.hpp`) | up to six vectors per node, three counters, two flags, attribute storages | some thirty calls | parallel vectors permuted by every removal and sort; ids shifted; counters repeated in bulk calls | the graph is the set of edges the calls describe |
| icebug edge switching (`EdgeSwitching.cpp`) | the graph | `run` | tests made before the swap | the graph stays simple, degrees stay |
| icebug concurrent union-find (`ConcurrentUnionFind.cpp`) | one array of atomics: parent or negative rank | `find`, `merge` | halving by plain stores racing with links, relaxed loads, equal ranks | no cycle, merges are linearizable |
| icebug parallel Leiden (`ParallelLeiden.cpp`) | node states, private lists, a shared queue, `communityVolumes` and its growth; locks per node, refined communities | the two parallel regions of a round of `run` | a node asked for again while it is processed; a thread that grows the vector waits for all others, who may sleep; locks given up and taken again | no node lost or processed twice, indices fit, refined communities connected, the round ends |
| icebug KADABRA (`KadabraBetweenness.cpp`) | frames of samples by epoch, per thread; the reader's sum; `stop` | the sampling loop of `run`, `checkConvergence` | a reader adds frames of threads that are epochs ahead and wait for nobody; frames are recycled | frames are not shared, the sum is whole, everyone stops |
| icebug dynamic breadth-first search (`DynBFS.cpp`) | distances, numbers of shortest paths, `maxDistance` | `run`, `updateBatch` | a batch of insertions and removals repaired level by level | what a search from scratch gives |
| icebug dynamic components (`DynConnectedComponentsImpl.hpp`) | component of each node, edge ids, which edges are of the tree | `run`, `updateBatch` | a removal needs a search only when a tree edge goes | components of the present graph |
| icebug b-Suitor (`BSuitorMatcher.cpp`, `DynamicBSuitorMatcher.cpp`) | suitors and proposals of each node | `run`, `updateBatch` | displaced suitors propose again; loose ends followed by two paths | the matching of a recomputation |

Who uses whom: the Rust kernels call the graph (rows) and the context (`check`, `reserve`);
`prepare_incoming` and the kernels take reservations; the store writes graphs and reads them back
through the same validation as construction. Edge switching drives `GraphW`; icebug's `ShellStruct`
drives the concurrent union-find. The dynamic algorithms follow a graph that their user changes and are
handed the events after the graph has changed; the dynamic matcher starts from a run of the static one.
A Leiden round moves nodes, then refines, and hands a smaller graph to the next round.

### Not modelled

| Part | Hard behaviour, and why it is not here |
|---|---|
| `PLP.cpp`, `Luby.cpp`, `ParallelConnectedComponents.cpp` | shared bit vectors and activation flags in parallel loops. A write may undo that of a neighbouring bit; the labels found are heuristic or are repaired by the next round, and no document says what a lost activation may cost |
| `ParallelLeidenView.cpp` | the two protocols of `ParallelLeiden.cpp` over views instead of coarse graphs; not read line by line |
| `SignalHandling.cpp` | who owns the process-wide handler, nested handlers: planned |
| PageRank (`pagerank.rs`), grustcat | rounds over two buffers whose meaning is real arithmetic; grustcat repeats the kernels over another interface |
| `DynDijkstra`, `DynAPSP`, `DynBetweenness` and the other dynamic algorithms | the first repeats `DynBFS` over a priority queue; the others repair real-valued results |
| `GraphR`, `GraphBuilder`, views | read-only arrays, and a parallel conversion whose result is a function of its input |
| Cypher planner, DataFusion adapter, Python and Cython bindings, readers and writers | syntax, I/O and glue without shared state of their own |
| generators, numerics, layout, embedding, visualization, scoring of communities, most algorithms on a fixed graph | random or real-valued functions of their input |

The map covers a small share of the repository's lines for that last reason: most of icebug is several
hundred sequential, mostly numerical functions of a fixed graph, each with a unit test on its results, and
a state machine of such a function would repeat the program. What is modelled is where order, sharing, failure or history decides.

## Modules and the code

Every module's header says which file it models. Each `MC…` module holds the instance, the
observers and, except where the component's module states them itself, the properties of a run. Names follow the source.

**`Budget`** is the abstract context: `granted` (a bag of reservations), `closed`, and the number
of calls past their cancellation check; a grant and a release are atomic, and `Bytes` adds up a bag size by size. **`ExecutionContext`**
is the code, one action per atomic access: `Reserve` (`check`), `Load`, `Refuse`, `Exchange`
(success), `Retry` (failure), `Publish` (`fetch_max` and return), `Drop`, `Cancel`. `Drop` wraps,
like `fetch_sub`. A spurious failure of the weak exchange is a stutter. `MCExecutionContext` adds two
observers, the largest value `used` ever had and which calls met a moment without room.

**`PreparedGraph`** models the handles of one directed graph and the frame of `prepare_incoming`
(`Prepare`, `ReserveScratch`, `CountArcs`, `FillArcs`, `Finish`), each `?` of the code being the
other branch of an action. An `Arc<Reservation>` is dropped when no handle and no frame keeps it
(`Released`). Here `reserve` is one step, which `ImplementsBudget` justifies.

**`GraphBuild`** has the pure part: CSR validation, the transpose test, the builder, `from_tables`,
the property mapping, the counting sort and materialized views, as operators from inputs to graphs
or `Invalid`. A sort is given by the rank of each element (`ByRank`): `SortSlots` breaks the ties that `sort_by_key` keeps in order
by the row number, and `ArcsByTarget` places an arc at the cursor its target has when the arc's turn comes. `MCGraphBuild` enumerates
inputs and compares the results with definitions by sets of edges; `Graphs` is what a graph can be made of.

**`SnapshotStore`** has one action per file operation of `write_snapshot` (`CreateDir`,
`CreateSection`, `WriteSection`, `DigestSection`, `WriteTemporary`, `Persist`) and of
`read_snapshot` (`OpenManifest`, `VerifySection`, `LoadSection`), `Fail` for an error or a kill at
any of them, and the environment: `Damage` and `Remove`. A section's content is the writer whose
graph it encodes or `Torn`.

**`Traversal`** runs `bfs` or `dijkstra_impl` arc by arc, with the cancellation tests where the
code has them and the trace of the visitor at the end. `Infinity` is the initial distance and sums
above `Top` overflow. **`Components`** runs the weak kernel arc by arc (`Root` is
path halving as a recursive function) and the strong kernel step by step of its two explicit stacks.
**`MCKernels`** puts one call of any of the four kernels over one graph; `late` counts steps since the cancellation. `Reach` is what
a set of arcs reaches from a node, found round by round.

**`GraphW`** keeps `graph`, one record of the C++ fields: `directed`, `weighted` and `indexed`, rows of
`to`, `wt` and `id` for out and in, `n`, `m`, `loops` (`storedNumberOfSelfLoops`), `omega` (the id bound), the two flags, and one edge
attribute storage `attr`. Each call is an operator from graph to graph (`RemoveEdgeFrom`, ...) with
all it does in order, and an action that applies it. `failed` records that a call reached an
assertion of the attribute storage. **`EdgeStore`** is the abstract graph: nodes, and the number of copies, a weight and
a value of every edge. Its step is a call, kept in `asked` with its arguments, and `Does` says what each call does to the edges
it names: `increaseWeight` of one edge by 1 adds 1 to its weight and touches no other. **`MCGraphW`** begins in one of several settings, each a kind of graph with the calls that concern it
and its bounds, maps `graph` to the store and sets `asked` to the call each action makes, so that the graph implements the store only
if every call does what the store says of this call with these arguments. The mapped variables are functions of `graph`, and `asked` and `even` only
label the steps (a call that does nothing is one too), so states are told apart by the `view` of graph and setting; TLC checks the step into a known state too. Edge switching is the action `Switch`.

**`ConcurrentUnionFind`** has one action per atomic access of `find` and `merge`, with the frame
of the thread in `frame`. `written` holds every value an element ever had. With `Stale` a load returns any value the
element had since the thread last saw or wrote it (memory coherent per element, which is all that relaxed
operations promise); without it, the present value. **`DisjointSets`** is the abstract partition with atomic merges.
`MCConcurrentUnionFind` adds the partition the forest stands for, the call each frame carries out (`Asked`) and the last rank of every former root.

**`LeidenGraph`** is what both phases of `ParallelLeiden` share (`row`, the graph; `result`, the communities).
**`LeidenMove`** is `parallelMove`: `local[t].pc` names where thread `t` is, `current` and `fresh` are
`currentNodes` and `newNodes`, `state` is `nodeState`, and one action is one access to what others share:
`Begin`, `Look`, `Place`, `Schedule`, `Finish` for a node; `Flush`, `Notify`, `TakeOwn`, `TakeOrWait`, `Wait`, `Leave` for
the queue; `TestResize`, `Announce`, `Yield`, `Resume`, `Grow`, `Await`, `Growing` for the growth of `communityVolumes`.
Which move gains most is real arithmetic, so a node may stay or move to any community it saw, or a new one.
`seen` is an observer: what the last look at a node found.
**`LeidenRefine`** is `parallelRefine`: `Fetch` and `Pick` hand out nodes, `Cut` and `Choose` the target, `LockFirst`, `LockSecond`, `Test`, `Recheck`,
`Rechoose`, `Join`, `Unlock` the locks; `slipped` records that a thread went on without them. **`ParallelLeiden`** is the round
(`Turn` joins the first region and decides, `EndRound` the second); **`MCParallelLeiden`** has the graphs, partitions and properties; `Spots` are the
places, entry by entry of every list, that a node is still to be taken from.

**`KadabraBetweenness`** is the loop of every thread: `Test`, `Load`, `Publish`, `MoveToNextEpoch`, `Sample`, `Count`, `Leave`, and for thread 0
`Ask`, `Check`, `Sum`, `Decide`. A sample is `<<thread, seed, number>>`, a frame's `apx` the set of its samples, and `approxSum` the bag
the reader added. The statistical stopping test may say yes after any epoch.

**`DynGraph`** is the graph the dynamic algorithms follow. **`DynBFS`** empties the level queues of `updateBatch` one node per step
(`Settle`, `Defer`; `NoneNearer` is the assertion at line 146); the search from scratch is an operator. **`DynComponents`** has `AddEdge` and `RemoveEdge`; what a search finds is what no closed set of nodes
leaves out (`Connected`), with any search tree `run` could leave
(`SearchTrees`) and any shortest path `updateTree` could find. **`BSuitor`** runs `findSuitors` proposal by proposal; **`DynamicBSuitor`** has
`processEdgeInsertion`, `processEdgeRemoval` and the recursion of `trackUpdatePath`. **`DynamicAlgorithms`** composes them: the user changes the graph and hands the batch to
each in turn; `MCDynamic` gives the graphs.

## What the runs check

| Run | Question | Properties | Bounds |
|---|---|---|---|
| `context` | Do the lock-free accounting, the peak and the refusals hold, does `reserve` implement an atomic budget, do calls return, does cancellation drain? | `Accounted`, `RefusalJustified`, `ImplementsBudget`, `ReserveReturns`, `CancelDrains` | 2 threads, limit 3, sizes 1–3: two calls fit, exceed the limit, or race for the last byte; drops refill |
| `prepared` | Does the charge follow the buffers on every path? | `GraphInv`, `NoLeak`, `BuffersCharged`, `PrepareReturns` | 2 callers, 3 handles, 3 reservations; the limit fits two indexes, or one and a call |
| `snapshots` | Does a reader only ever see one published graph? | `StoreInv`, `AcceptedIsPublished`, `OkIsComplete`, `PublishedUntouched` | 2 writers of graphs with different sections, 1 reader, 2 damaged files, any number of removals |
| `build` | Is what the builder accepts the graph that was given, and do index, counts, properties and views agree with it? | `GraphValid`, `PropertiesFollow`, `ViewAgrees`, `AcceptsSimple` | all tables of up to 3 rows over 3 names and a stranger; all pairs of arrays of 2 nodes; every later call |
| `kernels` | Are distances, parents, heap size, paths and labels right at every step, is cancellation heard, do calls return? | `ShortestFound`, `HeapWithinCharge`, `CancelIsHeard`, `ComponentsFound`, `Returns` | all graphs of 4 nodes and up to 4 arcs, weights negative to overflowing, cancel at any step; weighted graphs of 4 arcs without loops, refused ones of up to 2 arcs; for components up to 5 arcs |
| `graph` | Does every sequence of calls keep vectors, counters and ids in step, keep sorted rows sorted, merge parallel edges, and do to the edges what the call and its arguments say? | `Consistent`, `RemovalsKeep`, `ImplementsStore` | seven settings, below |
| `union_find` | Are racing `find` and `merge` on relaxed atomics acyclic and linearizable, and do they return? | `Climbs`, `ImplementsDisjointSets`, `Returns` | 2 threads, one call each, stale loads, 4 elements as singletons or two trees |
| `leiden` | Is no node lost or processed twice, is the last look fresh, do indices fit, are refined communities connected, does the round end? | `OwnedOnce`, `LastLookIsFresh`, `VolumesFit`, `RefinedSound`, `RoundEnds` | 2 threads, 4 nodes, lists of 2, growth by 2; 2 moves from singletons or 1 in a community of four |
| `kadabra` | Does each frame have one use, is the sum made of whole epochs, do all stop? | `FramesApart`, `SumIsWhole`, `SamplingEnds` | 2 threads, batches of 1, at most 3 samples a frame and 3 epochs ahead of the reader, `omega` 9 |
| `dynamic` | Do the three dynamic algorithms answer what they would if run again, and do updates return? | `ComponentsExact`, `DistancesExact`, `SameAsRecomputed`, `UpdatesSettle` | 4 nodes, 4 graphs, 3 weightings, 2 capacities, 2 events in one batch or two; `ComponentsExact` until a batch had more than one event, `DistancesExact` until a queue was left unread |
| `leiden_refine` | (violated) Do hosts of refined communities stay? | `HostsStay` | as `leiden`, a community of four |
| `dyn_bfs` | (violated) Is every distance updated after one insertion? | `DistancesUpdated` | as `dynamic` |

The settings of `graph`, of 3 nodes, 3 edges ever present at once and 3 ids unless said otherwise:

| Setting | Graph | Calls besides `addEdge` and `removeEdge` |
|---|---|---|
| `Undirected` | weighted, indexed | `restoreNode`, `setWeight`, `increaseWeight`, `removeNode`, `removeSelfLoops`, `sortEdges`, `sortNeighbors`, attribute values |
| `DirectedGraph` | weighted, indexed | the same without `sortNeighbors` and attributes |
| `CompactIdsKept` | directed, indexed, compact ids, 4 of them | `removeNode`, `sortEdges`, attribute values |
| `RowsKept` | unweighted, both kinds, indexed late or never | `sortEdges`, `sortNeighbors`, `sortEdges(lambda)`, `indexEdges`, the two flags |
| `MultiGraph` | undirected, 2 or 3 nodes, 5 edges | `addNode`, parallel `addEdge`, `removeSelfLoops`, `removeMultiEdges` |
| `Switching` | undirected, weighted, indexed, simple, 4 nodes | edge switching, `removeAllEdges`, attribute values |

Why these bounds are enough to be worth running: the hazards of `GraphW` need a row of three
entries (an overwritten, a moved and an untouched one) and a loop; those of the union-find need a
path of length two being halved while its top is linked, which two trees of two and two calls give;
those of the store need a second writer and a kill between any two calls; a stale heap entry needs a node
reached twice, which four arcs give, and a path through it, a fourth node. Leiden's growth needs one thread that
grows and one that yields, sleeps or needs room itself; a lost request needs a neighbour that moves while a node is processed;
the given-up lock needs a target below a node and a third node that joins meanwhile. A frame of KADABRA is recycled
after two publications, which three epochs ahead allow. Loose ends of the matcher need a path of three edges, and
the repair of distances a removal that leaves a node with a farther parent. Each property is falsified by a
plausible bug in the modelled code within the same bounds (the `mutants` of `PROJECT.json`).

Bounds that only TLC needs are guards or input sets and have names: `nodes`, `edges` and
`ids` of a setting (GraphW), `MaxDamage` (SnapshotStore), `MaxArcs`, `MaxUnweighted`, `Top` (kernels), `MaxCalls` (union-find),
`MaxRows`, `MaxSlots` (GraphBuild), `moves` and `Cases` (Leiden), `MaxSamples`, `MaxAhead` (KADABRA), `Starts`, `MaxBatch`, `MaxEvents` (dynamic).
No run uses symmetry.

`CHECK_DEADLOCK FALSE` stands where the system really ends: a kernel returns, the store's writers and readers are
done, all handles are dropped and the context is cancelled, the calls or events of the instance are used up, a round or a sampling
is over, or a graph reaches a bound with no call left.

## Where the code and its documentation part

Two runs expect a violation: each checks a sentence of the documentation that the code does not keep.

| Run | What the code does |
|---|---|
| `leiden_refine` | Waiting for its second lock, `parallelRefine` gives up the first. When the node was joined meanwhile, it unlocks and says `continue`, which goes on with the inner `while` (`ParallelLeiden.cpp:568`): the node still joins its target, without locks, although others have joined it. Line 544 says "If this node is no longer a singleton, stop." `RefinedSound` holds as long as no thread slipped so |
| `dyn_bfs` | An insertion next to the farthest level queues the other end one level beyond `maxDistance`, and the loop over the queues (`DynBFS.cpp:109`) ends before it: adding `{2, 3}` to the path 0-1-2 leaves 3 unreached. `DynBFS.hpp:35` says of `update` "Updates the distances after an edge insertion." `DistancesExact` holds unless a queue was left unread |

Other disagreements met while reading, which the instances leave out and no run shows:

* **GraphW.** Sorted removal moves targets and ids of a row and not its weights (`GraphW.hpp:60`: "same schema (and same order!)");
  `sortEdges` with a comparison gives every edge the id 0 (`GraphW.hpp:65`); a compact removal erases the entry of the removed id also from a
  storage that does not reach it (assertion at `Attributes.hpp:120`); sorted removal of an indexed graph exchanges attribute values between ids that
  moved along with their edges (`GraphW.cpp:564`); `removeAllEdges` does not reset the count of self-loops (`GraphW.cpp:642`);
  `hasSortedNeighborhoods` repeats a flag that neither sorts nor is withdrawn by insertions (`GraphW.hpp:294`);
  bulk removals leave the attribute values of removed edges valid (`GraphW.cpp:653`) and gaps between compact ids (`GraphW.hpp:759`);
  `sortNeighbors` of a directed weighted graph leaves the weights of incoming edges in place (`GraphW.hpp:500`).
* **ParallelLeiden.** "All other threads are yielding" (`ParallelLeiden.cpp:315`) is not so: a thread that resumes has not yet been counted down, and with three a sleeper may wake.
  In `leiden` with a third move, the thread that grew the vector fills it, and grows it again while the other, still to be counted down after the first growth, goes on to its next node:
  it reads and writes the volumes while `resize` reallocates them. `Growing` is one step (316 and 318), and no property is about these accesses. `VolumesHold` is about the index only:
  it stays below the size if `Oversize` has a slot for every thread, which a `VECTOR_OVERSIZE` of 1 (`CommunityGTest.cpp:313`) does not have.
* **KADABRA.** The frames of the first samples keep these samples and do not count them in `nPairs`; the header's determinism
  "regardless of the number of threads" meets seeds and epochs taken from `omp_get_max_threads`; a second `run()` finds `stop` still true.
* **DynConnectedComponents.** A batch is handled against the final graph: of two removed tree edges with one end in common only one side is relabelled, and a removal whose other path takes an edge that
  a later event adds looks its number up in vain (the exception is `failed`). `ComponentsExact` therefore speaks of single events (`batched`).
* **BSuitorMatcher.** A node with `b = 0` takes partners without limit (assertion at `BSuitorMatcher.cpp:109`); an edge of weight 0 ties with "none".
  Of two edges of one weight, `BSuitorMatcher.hpp:143-144` calls the one to the smaller neighbour smaller; lines 33-35 and the code rank it higher, and so does the model.
  `DynDijkstra` may overwrite a smaller tentative distance in its queue.

So `Undirected` removes loops without ever asking for compact ids, `Switching` removes all edges of graphs without loops,
`RowsKept` has no weights, no attributes and no ids while the rows are sorted by a comparison, and `CompactIdsKept` removes edges only
while every attribute value in use reaches the last id (`Covered`).

## Fairness, and why the code has it

* `ExecutionContext`: weak fairness of every instruction of a running thread; strong fairness of
  `Exchange`, since a weak compare-and-exchange that could succeed again and again does not fail for ever; weak
  fairness of `Drop`, since a reservation is a local of an operation that ends. Nothing makes
  a thread call `reserve`, and nothing makes anyone cancel.
* `PreparedGraph`: a call that has begun runs on.
* `MCKernels`: the kernel, sequential code, takes its next step (`KernelStep`). Nobody has to cancel.
* `MCConcurrentUnionFind`: each thread takes its next access; strong fairness of `Link`
  for the same reason as `Exchange`; and strong fairness of the load that returns the newest rank, since a store becomes visible
  to loads that are repeated.
* `ParallelLeiden`: every thread of the team takes its next step in either phase, and the regions join. A thread that waits in a loop
  (`Yield`, `Await`) or for a lock has no step until what it waits for holds. Mutexes need not be fair.
* `KadabraBetweenness`: every thread takes its next step. Nobody waits but at the barrier.
* `DynamicAlgorithms`: a call runs to its end; the user may stop.

`SnapshotStore`, `GraphW` and `GraphBuild` have no fairness: their properties are safety.

## What is proved

Each theorem holds for every value of the constants that meets the named assumption; the components' modules declare these and TLC evaluates them on the instances.

`IcecatStateProofs`, the snapshot store, for every set of writers and readers, every assignment of sections and every bound on damage, from
`StoreAssumption` (every graph has the two outgoing sections; the incoming ones come in pairs):

* `StoreInvariance`: `StoreSpec => []StoreInv`. `AcceptedIsPublished` is not inductive: nothing in it
  excludes a manifest published by a second writer over sections of the first. `StoreInv` adds that a
  running writer is alone in its directory, that the directory has no manifest yet and that its sections so far are
  whole (`WriterOwns`); that an absent directory is empty (`Untouched`); that a manifest that parses is one of a
  write that succeeded (`ManifestHonest`); and that a reader's findings agree with the manifest it parsed (`ReaderAgrees`).
  One lemma per action shows that it keeps the four parts.
* `ReadersSeePublished`: `StoreSpec => []AcceptedIsPublished`.
* `SuccessIsComplete` and `TargetsNeverReused`: the action properties `OkIsComplete` and `PublishedUntouched`, from the invariant.

`IcecatStateProofs`, the graph handles, for any numbers of callers, handles and reservations (callers and reservations finitely many), any graph
and any limit, from `PreparedAssumption`:

* `InvHolds`: `GraphInv /\ NoLeak` is inductive. Neither half is alone: that the counter falls by the right number of bytes when
  a call returns early needs to know that the reservation the call gives up is in no handle and in no other call (`CallsApart`),
  and that the counter never falls below zero needs to know what it is made of. The sum is
  kept as two cardinalities; each action adds or takes away one reservation, one call or neither (`ChargeMore`, `ChargeFewer`,
  `ChargeJoin`, `ChargeLeave`), and `DropHandle` gives up as many as become unreachable (`DropStep`).
* `OwnersKnown` and `NothingLeaks`: its two halves, as theorems about `Spec`.
* `NothingUncharged`: `Spec => []BuffersCharged`. The calls that hold a scratch buffer own as many reservations as they are,
  different from those of the indexes the handles carry, so the sum of what is allocated is at most the counter.

`ContextProofs`, for any callers, limit and sizes, from `ContextAssumption` (sizes and limit fit a `usize`, whose largest value is any number):

* `RefusalIsJustified`: `ObsSpec => RefusalJustified`. The invariant says of every call that is about to judge a
  value of `used` that, if the value leaves no room, the call is in `tight` (`Judging`): the value was read, by `Load` or by a failed exchange, while the call was under way.
* `BytesAccounted`: `ObsSpec => []Accounted`. An exchange adds its call to the sizes held and its bytes to `used`; publishing moves a size from
  the call to the reservations, which changes neither; a drop takes the same from both, so `fetch_sub` never wraps. What adding one element does to
  `Bytes` is proved by induction on the sizes.
* `BudgetImplemented`: `ObsSpec => ImplementsBudget`, one lemma per action: the exchange is the `Grant`, the subtraction the `Release`, and every other
  access but the check, the refusal and the cancellation is a stutter.

`GraphBuildProofs`, for any finite set of names, any weights and any bounds, from `BuildAssumption` and `TablesAssumption` (what is absent or refused differs from
everything that is not, and names are finitely many):

* `GraphsSound`: `Spec => []IInv`. `GraphValid` is not inductive: that an undirected graph counts its edges right does not say that a selection of it is symmetric again, nor that
  its rows can be found. `GraphOK` speaks of slots instead of sets of arcs: the arrays are what `try_new` checks, slot by slot (`CsrOK`); an undirected graph has the opposite of every slot with its weight
  (`Reverses`, read by `ReversesMeans` and, since both sides are equally many, in both directions by `OppositesAll`); and every slot's row number leads to a row of its edge (`RowTells`).
* Built: the sorted slots are all slots (`SlotsSorted`), so neighbours in the list show every duplicate (`DuplicatesMean`), and the offsets counted from a list sorted by row cut it into its rows (`RowsByKey`).
  `Follows` says that each slot stands for the row it came from. That is enough for the check of `with_properties` to pass (`EdgeRowsValid`), which a caller of `from_tables` relies on.
* Prepared: the cursors order the arcs by target and then by source (`CursorOrder`), and `RowsByKey` again makes the index an adjacency (`TransposedOK`).
* Materialized: ranks are increasing, so the edges taken, each once, are simple (`EdgesKept`); the compact graph follows them, and the search for the row of a slot, which `materialize` repeats over the whole list,
  finds the one that `build` used (`IdsFound`).
* `GraphsValid` (`Spec => []GraphValid`), `RowsOfEdges` (`Spec => []PropertiesFollow`), `ViewsAgree` (`Spec => []ViewAgrees`): the number of edges is that of the canonical slots (`EdgesCounted`), a loop
  being its own opposite; and two increasing lists of the same targets are one list (`OneAscending`).
* `SimpleAccepted`: `Spec => AcceptsSimple`, from `TablesLoaded`, which is about every table whose targets are listed, of any length.

`KernelProofs`, for any number of nodes, any weights and bounds, from `TraversalAssumption` (a count of nodes is a finite distance):

* `ShortestPaths`: `MCSpec => []ShortestFound`. No single invariant says that the distances are shortest while they still fall; two bounds meet at the end.
  From below (`NoneGreater`), no estimate that no arc can improve is anywhere greater than `dist`. From above (`Searching`), no arc tried with the present distance of its start
  improves any longer, and every arc of a reached node that does not wait has been tried. That a tried arc stays tried is what the order is for: the queue
  holds distances of two levels at most, in order (`QueueOrder`), and nothing on the heap is less than what was taken from it (`HeapOrder`), so a node
  taken out never falls again. At the end, a set of reached nodes that no arc accounts for could be raised by one, against `NoneGreater` (`Enters`). The path handed to the visitor is the trace over parents turned round
  (`TraceGoesUp`, `VisitInv`); that a trace ends at all, through arcs of weight zero, is `Returns` and left to TLC.
* `HeapCharged`: `MCSpec => []HeapWithinCharge`. The entries are at most the arcs tried and one, and a node taken out never falls again, so no arc is tried twice; an arc pushes only an
  entry less than the distance of its end, which is less than no entry of that node, so none is there twice.
* `CancellationHeard`: `MCSpec => []CancelIsHeard`. `late` is at most what is left to the next check (`LateInv`).
* `ComponentsLabelled`: `MCSpec => []ComponentsFound`, for the union-find and for Kosaraju's two passes. `Root`, `Halved` and `Reach` are recursive functions, shown to
  exist and to be what iterating gives (`IterationExists`); `Reach` is the least set closed under the arcs (`ReachLeast`).
  Weak: halving leaves every root (`HalvedKeeps`), linking joins two trees under the lesser root (`LinkJoins`), so the roots tell what the scanned arcs connect (`Connects`).
  Strong, first pass (`FirstPass`, `NestedIn`): when a node finishes, it is reached from every unfinished node to which an arc leads from a finished one, since these are below it on the stack; so
  the last node of a component to finish does so after all that the component leads to (`FinishLast`). Second pass (`SecondPass`): what leads to the last node of the order that is not done, and is not done itself,
  is of its component (`LeadsIn`), so the members collected are the whole component (`Collected`).

`UnionFindProofs`, for any threads, any number of elements and any old values loads return, from `UnionFindAssumption` and
`StartsAssumption` (the forest to begin with climbs):

* `ParentsClimb`: `MCSpec => []Climbs`. `Climbs` is about all values
  ever written, since any may be loaded again. It is not inductive: halving writes a grandparent that was loaded before, from a parent that may have
  changed since. What saves it is that the rank of an element is frozen once it has a parent and that it stays a child (`Grown`), so what was once above an element
  is above it for ever (`Loadable`, `LoadableStays`); a frame that is about to write holds only such values, and the exchange of `Link` finds the rank that was compared.
* `MergesLinearizable`: `MCSpec => ImplementsDisjointSets`. A forest that climbs gives each element one root (`Rooted`, `OneRoot`), by induction on how many elements are
  higher. What once was a parent of an element, or was found by a search from it, is in its set for ever, since sets only grow (`Known`, `FrameKnows`). So halving and the raising of a rank
  change no set (`SameSets`), and the exchange of `Link`, which succeeds on a root that is one still, joins the two sets `merge` was asked for (`LinkImplements`). The step that takes effect is
  that exchange if a merge joins anything, and the return otherwise.

`DynamicProofs`, for any number of nodes, any initial graphs and any number of updates, from `NAssumption` and `StartsAssumption`
(the initial edges are pairs of nodes):

* `ComponentsFollow`, `Spec => []IInv`. `ComponentsExact` speaks of the moments the user has the turn, when the graph and the numbers agree; in between, the graph has changed already.
  `IInv` says for which graph the numbers are exact (`Exact`): until its event is handled, the graph without it (`EdgesBefore`). A node is connected with another if every set
  closed under the edges has both, so what a new edge connects (`WithEdge`) and what other edges carry over (`Carries`) are facts about sets. That the tree has no cycle is not needed: a removed tree edge either has
  a path in its place (`PathConnects`, `RemovedBridged`), or splits the tree in two as it splits the component (`RemovedParted`). A merge leaves no gap in the numbers (`MergedNumbers`).
  The first run numbers the components by their first nodes (`RanksFill`, `FirstNode`), and its edges lead to lower levels and so to those (`SearchSpans`).
* `ComponentsAlwaysExact`, `Spec => []ComponentsExact`. As in the property, batches of more than one event are excluded: the search of a removal then runs on a graph that has the later
  events of the batch already, and the numbers need not be exact (see the notes above).

`KadabraProofs`, for any number of threads, batch and quota, from `KadabraAssumption`:

* `FramesStayApart`, `Spec => []FramesApart`. The invariant (`Uses`) speaks of one thread: free, queued, published and written
  frames are distinct and are all there are; a deterministic thread at `publish` has one queued; otherwise none is ever queued and there are two frames at most,
  since a thread that moves to the next epoch has just published one. The reader and the other threads touch none of it.
* `SumsStayWhole`, `Spec => []SumIsWhole`. The invariant adds what frames hold: the one written, the paths drawn since its epoch began; one queued or published, an epoch that is over.
  A thread publishes only what the reader waits for, and nothing twice, so what was counted as finished stays in place until it is added (`AddedUp`).

`LeidenProofs`, for any threads, graph and partition to begin with, any chunk, and any `Oversize` of at least the number of threads (`LeidenAssumption`, `MoveAssumption`):

* `VolumesHold`, `Spec => []VolumesFit`. `VolumesFit` says nothing of how far beyond the end the communities taken may be. The invariant counts them: `upperBound` exceeds `size` by at most
  the number of threads that hold a community beyond the end (`Beyonders`), so one growth makes room for all of them, also those that asked while it was under way.
  It adds that a thread that announced itself with such a community waits for a growth that is under way, that one thread at a time grows (`Growers`), and that `vectorSize` is what `size` is or is about to be.
  `QuietStep` treats the steps that take no community, one lemma per action.
* `NodesOwned`, `Spec => []OwnedOnce`. The invariant (`OInv`) is about places instead of numbers: no node has two (`OneSpot`, `OneThread`), and its state tells whether it has one
  (`QueuedHasSpot`, `BusyHasThread`). Each action says which places it fills and empties.
* `NodesFresh`, `Spec => []LastLookIsFresh`, with `UndirectedAssumption` (who is my neighbour has me as one). While a thread has moved a node and not yet
  scheduled a neighbour, what that neighbour last saw may be stale, but the neighbour is still on the thread's list; afterwards it is queued or marked for another look (`FInv`, `StillTrue`).
  When all threads have left, none of them has anything to come and the queue is empty (`RInv`).
* `RefinementSound`, `Spec => []RefinedSound`, with `UndirectedAssumption`. As long as no thread slipped, which locks a thread holds follows from where it stands (`Owns`, `Locks`).
  Under its own lock a node that is alone stays so; under the target's, the host stays (`Fated`). What a thread noted of a community, that a neighbour is in it and that it lies inside one
  community of the partition, stays true, or the host has left for good (`Candidate`, `Noted`): a node is handed out once (`Handed`), so it moves once. A node that joins by an edge
  keeps the community connected (`StillConnected`). Connected is stated by cuts, an edge out of every part, which needs no paths.

What the proofs stand on in the library is finite cardinality and the well-foundedness of the naturals. The library's induction
theorems take an operator as a parameter, which the installed provers cannot instantiate; induction over a set of naturals, from its least element (`LeastExists`), serves the recursive functions of these models.

Only model-checked: all liveness, which needs `ENABLED`;
`GraphW` (`Consistent`, `RemovalsKeep`, `ImplementsStore`), whose calls are compositions of a dozen operators on rows; and the distances of `DynBFS` and the
matching of the dynamic b-Suitor (`DistancesExact`, `SameAsRecomputed`).

## Assumptions, and what the models leave out

* Snapshot files do not change while they are loaded (`rust/README.md:111-112`): `Damage` and `Remove` do not act while
  somebody reads, and `Remove` not while somebody writes. A power loss, which may lose a synced file's directory entry, is not modelled.
* Checksums tell contents apart.
* Callers of `GraphW` meet its asserted preconditions; one edge attribute stands for all; node attributes,
  `shrinkToFit`, `compactEdges`, preallocation and partial insertion are left out. `EdgeSwitching` picks any pair.
* Arithmetic on weights is on small integers with a top; rounding is not modelled.
* `ConcurrentUnionFind<true>` uses stronger orderings for the same accesses and is covered by the other. With `Stale` memory a load may return an old value of one element next to a new one of another; the stores of one thread take effect in program order, so their reordering, which relaxed stores permit, is not modelled.
* In the kernels a row is checked for cancellation every `CheckEvery` arcs (4096 in the code).
* `ParallelLeiden`: accesses to `result`, to node states and to the counters are single steps of one order; the volumes and cuts themselves, coarsening and the flattening of the final partition are left out.
  An unlock frees the lock, whoever holds it.
* `KadabraBetweenness`: a path is its generator's number; the first samples, the statistics and the ranking are left out.
* `DynBFS` and `DynComponents` on undirected graphs, `DynBFS` without lists of predecessors; weights positive, and `b` at least 1 for the matcher.

## Plan

1. icebug: `SignalHandler` (owners, nested handlers); the activation flags of `PLP` and `ParallelConnectedComponents` with writes to
   one word that undo each other; `ParallelLeidenView`; batches of `DynConnectedComponents` as a run of their own; `DynDijkstra`.
2. Icecat: `PageRankRounds` (two buffers, parallel pull, unfinished rounds), the grustcat kernels as instances,
   a composition of the kernels with `ExecutionContext` (a reservation per call, cancelled in the middle).
3. GraphW: preallocation and partial insertion, `compactEdges`, node attributes, `GraphBuilder`.
4. Proofs: `Consistent` and the refinement of `GraphW` call by call; the level queues of `DynBFS`; that the stable matching is the only one.
