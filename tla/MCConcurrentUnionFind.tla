------------------------- MODULE MCConcurrentUnionFind -------------------------
(***************************************************************************)
(* Threads that merge or find a bounded number of times, from singletons   *)
(* or from two pairs already merged.                                       *)
(***************************************************************************)
EXTENDS ConcurrentUnionFind

CONSTANT MaxCalls    \* bound on the calls of a thread

VARIABLES
  calls,       \* [Threads -> calls made]
  sets,        \* the partition the forest stands for
  rank         \* [Elements -> the rank, of a former root the last it had]

ovars == <<vars, calls, sets, rank>>

Singletons == {[i \in Elements |-> -1]}
\* merge(0, 1) and merge(2, 3) leave 1 and 3 with rank 1.
Pairs == {[i \in Elements |-> CASE i = 0 -> 1 [] i = 1 -> -2 [] i = 2 -> 3 [] i = 3 -> -2 [] OTHER -> -1]}
Both == Singletons \cup Pairs

Top(forest, x) ==
  LET up[k \in 0 .. N] == IF k = 0 THEN x
                          ELSE LET below == up[k - 1] IN IF forest[below] < 0 THEN below ELSE forest[below]
  IN up[N]
Partition(forest) == {{x \in Elements : Top(forest, x) = r} : r \in {Top(forest, x) : x \in Elements}}

StartRank(start, i) == IF start[i] < 0 THEN -1 - start[i] ELSE 0

\* The forests to begin with have climbed: a parent is of a higher rank than
\* its child had as a root, taken to be 0, or a larger element of that rank.
ASSUME StartsAssumption ==
  \A start \in Starts : \A i \in Elements :
    start[i] >= 0 =>
      /\ start[i] \in Elements
      /\ \/ StartRank(start, start[i]) > 0
         \/ StartRank(start, start[i]) = 0 /\ start[i] > i

MCInit ==
  /\ Init
  /\ calls = [t \in Threads |-> 0]
  /\ sets = Partition(parent)
  /\ rank = [i \in Elements |-> StartRank(parent, i)]

Observe ==
  /\ sets' = Partition(parent')
  /\ rank' = [i \in Elements |-> IF parent'[i] < 0 THEN -1 - parent'[i] ELSE rank[i]]

MCNext ==
  \E t \in Threads :
    \/ Accesses(t) /\ UNCHANGED calls /\ Observe
    \/ calls[t] < MaxCalls /\ Call(t)
       /\ calls' = [calls EXCEPT ![t] = @ + 1] /\ Observe
MCSpec == MCInit /\ [][MCNext]_ovars

\* A thread runs on; a weak exchange that may succeed again and again does not
\* fail for ever; and a store is seen in the end by loads that are repeated.
Fairness ==
  \A t \in Threads :
    /\ WF_vars(Accesses(t)) /\ SF_vars(Link(t))
    /\ SF_vars(LoadRankU(t, Len(written[frame[t].ru])))
    /\ SF_vars(LoadRankV(t, Len(written[frame[t].rv])))
FairSpec == MCSpec /\ Fairness

\* The call a frame carries out, and whether it has joined two sets by now.
AskedOf(f) ==
  IF f.pc = "idle" THEN None
  ELSE IF f.op = "find" THEN [op |-> "find", u |-> f.u]
  ELSE [op |-> "merge", u |-> f.u, v |-> f.v, joined |-> f.pc \in {"raise", "joined"}]
Asked == [t \in Threads |-> AskedOf(frame[t])]

Abstract == INSTANCE DisjointSets WITH
  Starts <- {Partition(start) : start \in Starts},
  asked <- Asked

-----------------------------------------------------------------------------
\* Every value a parent ever had climbs: to a higher rank, or to a larger
\* element of the rank its child had when it ceased to be a root. So whatever
\* old values find meets and halving writes back, there is no cycle.
Climbs ==
  \A i \in Elements : \A k \in DOMAIN written[i] :
    LET p == written[i][k]
    IN p >= 0 => rank[p] > rank[i] \/ (rank[p] = rank[i] /\ p > i)

\* Racing merges and finds behave as indivisible ones: one merge only joins
\* two sets and says so, and only sets that some call asks to join are joined.
ImplementsDisjointSets == Abstract!Spec

\* Every call returns, whatever the others do.
Returns == \A t \in Threads : frame[t].pc # "idle" ~> frame[t].pc = "idle"
=============================================================================
