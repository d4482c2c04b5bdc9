---------------------------- MODULE UnionFindProofs ----------------------------
(***************************************************************************)
(* For any number of threads and elements, and whatever old values loads   *)
(* return: the parents of ConcurrentUnionFind climb, so they form a forest *)
(* (ParentsClimb), and find and merge are linearizable: they implement the *)
(* disjoint sets (MergesLinearizable).                                     *)
(*                                                                         *)
(* The first argument: once an element has a parent its rank is frozen and *)
(* it stays a child (Grown), so what a thread loaded once, however old, is *)
(* still above the element it was loaded from (Loadable), and a frame that *)
(* is about to write holds only such values. w and r stand for written and *)
(* rank, or for their next values.                                         *)
(*                                                                         *)
(* The second: a forest that climbs gives every element one root (Rooted,  *)
(* OneRoot), which Top finds (TopRooted). An element that was once the     *)
(* parent of another, or that a search came by, is in its set for ever,    *)
(* since sets only grow (Known, FrameKnows). So halving changes no root    *)
(* (SameSets), and the exchange of Link, which finds a root that is one    *)
(* still and puts it under a higher element, joins the two sets that merge *)
(* was asked to join (LinkImplements).                                     *)
(***************************************************************************)
EXTENDS MCConcurrentUnionFind, FiniteSetTheorems, WellFoundedInduction, TLAPS

Higher(r, x, p) == r[p] > r[x] \/ (r[p] = r[x] /\ p > x)

\* What a load of the parent of i, however old, may have returned by now.
Loadable(w, r, i, value) ==
  /\ value \in Int /\ value < N
  /\ value < 0 => -1 - value <= r[i]
  /\ value >= 0 => Last(w[i]) >= 0 /\ Higher(r, i, value)

MemoryOK(w, r) ==
  /\ w \in [Elements -> Seq(Int)]
  /\ r \in [Elements -> Nat]
  /\ \A i \in Elements :
       /\ Len(w[i]) >= 1
       /\ Last(w[i]) < 0 => r[i] = -1 - Last(w[i])
       /\ \A k \in 1 .. Len(w[i]) : Loadable(w, r, i, w[i][k])

Searching == {"load", "reload", "load_grand", "reload_grand", "halve"}
Fields == {"op", "pc", "u", "v", "x", "p", "ru", "rv", "vu", "vv"}
FrameTyped(f) ==
  /\ DOMAIN f = Fields
  /\ f.op \in {"none", "find", "merge_u", "merge_v"}
  /\ f.pc \in Searching \cup {"idle", "parent_u", "parent_v", "rank_u", "rank_v", "link", "raise", "joined"}
  /\ f.u \in Elements /\ f.v \in Elements /\ f.x \in Elements /\ f.p \in Int
  /\ f.ru \in Elements /\ f.rv \in Elements /\ f.vu \in Int /\ f.vv \in Int

FrameOK(w, r, f) ==
  /\ FrameTyped(f)
  /\ f.pc # "idle" => f.op # "none"
  /\ f.pc \in {"load_grand", "reload_grand", "halve"} => f.p >= 0 /\ Loadable(w, r, f.x, f.p)
  /\ f.pc \in {"rank_u", "rank_v"} => f.ru # f.rv
  /\ f.pc = "rank_v" => Loadable(w, r, f.ru, f.vu)
  /\ f.pc = "link" => /\ f.vu < 0 /\ f.vv < 0 /\ Loadable(w, r, f.ru, f.vu)
                      /\ f.vu < f.vv \/ (f.vu = f.vv /\ f.ru > f.rv)
  /\ f.pc = "raise" => f.vu < 0

ViewOK == view \in [Threads -> [Elements -> Nat \ {0}]]

IInv ==
  /\ MemoryOK(written, rank)
  /\ ViewOK
  /\ DOMAIN frame = Threads /\ \A t \in Threads : FrameOK(written, rank, frame[t])

Grown(w, r, w2, r2) ==
  \A i \in Elements :
    /\ r[i] <= r2[i]
    /\ Last(w[i]) >= 0 => Last(w2[i]) >= 0 /\ r2[i] = r[i]

\* The rank as Observe records it.
RankAfter(w, r) == [i \in Elements |-> IF Last(w[i]) < 0 THEN -1 - Last(w[i]) ELSE r[i]]

-----------------------------------------------------------------------------
\* Being higher is transitive: halving skips a parent and stays above.
LEMMA HigherTransitive ==
  ASSUME NEW r \in [Elements -> Nat], NEW x \in Elements, NEW p \in Elements, NEW g \in Elements,
         Higher(r, x, p), Higher(r, p, g)
  PROVE  Higher(r, x, g)
  BY DEF Higher, Elements

\* What could be loaded remains loadable while ranks grow.
LEMMA LoadableStays ==
  ASSUME NEW w, NEW r \in [Elements -> Nat], NEW w2, NEW r2 \in [Elements -> Nat],
         Grown(w, r, w2, r2), NEW i \in Elements, NEW value, Loadable(w, r, i, value)
  PROVE  Loadable(w2, r2, i, value)
<1>1. /\ r[i] <= r2[i] /\ r[i] \in Nat /\ r2[i] \in Nat
      /\ Last(w[i]) >= 0 => Last(w2[i]) >= 0 /\ r2[i] = r[i]
  BY DEF Grown
<1>2. CASE value < 0
  BY <1>1, <1>2 DEF Loadable
<1>3. CASE value >= 0
  <2>1. value \in Elements /\ Last(w[i]) >= 0 /\ Higher(r, i, value)
    BY <1>3, UnionFindAssumption DEF Loadable, Elements
  <2>2. r[value] <= r2[value] /\ r[value] \in Nat /\ r2[value] \in Nat
    BY <2>1 DEF Grown
  <2>3. Higher(r2, i, value)
    BY <1>1, <2>1, <2>2 DEF Higher
  <2> QED BY <1>1, <1>3, <2>1, <2>3 DEF Loadable
<1> QED BY <1>2, <1>3 DEF Loadable

\* So a frame no step touched stays as it should be.
LEMMA FrameStays ==
  ASSUME NEW w, NEW r \in [Elements -> Nat], NEW w2, NEW r2 \in [Elements -> Nat],
         Grown(w, r, w2, r2), NEW f, FrameOK(w, r, f)
  PROVE  FrameOK(w2, r2, f)
<1>1. f.x \in Elements /\ f.ru \in Elements
  BY DEF FrameOK, FrameTyped
<1>2. /\ Loadable(w, r, f.x, f.p) => Loadable(w2, r2, f.x, f.p)
      /\ Loadable(w, r, f.ru, f.vu) => Loadable(w2, r2, f.ru, f.vu)
  BY <1>1, LoadableStays
<1> QED BY <1>2 DEF FrameOK

\* A write above the element, or one that raises a root, keeps the memory in
\* order and lets ranks only grow.
LEMMA PutKeeps ==
  ASSUME NEW w, NEW r, MemoryOK(w, r), NEW i \in Elements, NEW value \in Int,
         \/ value \in Elements /\ Higher(r, i, value)
         \/ Last(w[i]) < 0 /\ value = Last(w[i]) - 1,
         NEW w2, w2 = [w EXCEPT ![i] = IF Stale THEN Append(w[i], value) ELSE <<value>>],
         NEW r2, r2 = RankAfter(w2, r)
  PROVE  MemoryOK(w2, r2) /\ Grown(w, r, w2, r2)
<1>1. /\ w2 \in [Elements -> Seq(Int)] /\ \A j \in Elements : Len(w2[j]) >= 1
      /\ Last(w2[i]) = value /\ \A j \in Elements \ {i} : w2[j] = w[j]
      /\ \A k \in 1 .. Len(w2[i]) : w2[i][k] = value \/ \E m \in 1 .. Len(w[i]) : w2[i][k] = w[i][m]
  BY DEF MemoryOK, Last
<1>2. \A j \in Elements : Last(w[j]) \in Int /\ Last(w2[j]) \in Int
  <2>1. \A j \in Elements : Last(w[j]) \in Int
    BY DEF MemoryOK, Last
  <2> QED BY <1>1, <2>1
<1>3. /\ r \in [Elements -> Nat]
      /\ \A j \in Elements : Last(w[j]) < 0 => r[j] = -1 - Last(w[j])
      /\ \A j \in Elements : \A k \in 1 .. Len(w[j]) : Loadable(w, r, j, w[j][k])
  BY DEF MemoryOK
<1>4. \A j \in Elements : r2[j] = IF Last(w2[j]) < 0 THEN -1 - Last(w2[j]) ELSE r[j]
  BY DEF RankAfter
<1>5. r2 \in [Elements -> Nat]
  <2>1. \A j \in Elements : (IF Last(w2[j]) < 0 THEN -1 - Last(w2[j]) ELSE r[j]) \in Nat
    BY <1>2, <1>3
  <2> QED BY <2>1 DEF RankAfter
<1>6. \A j \in Elements \ {i} : r2[j] = r[j]
  BY <1>1, <1>2, <1>3, <1>4
<1>7. /\ r[i] <= r2[i]
      /\ Last(w[i]) >= 0 => value >= 0 /\ r2[i] = r[i]
      /\ value >= 0 => r2[i] = r[i]
  <2>1. r[i] \in Nat /\ r2[i] = IF value < 0 THEN -1 - value ELSE r[i]
    BY <1>1, <1>3, <1>4
  <2>2. CASE value \in Elements
    BY <2>1, <2>2 DEF Elements
  <2>3. CASE Last(w[i]) < 0 /\ value = Last(w[i]) - 1
    BY <1>2, <1>3, <2>1, <2>3
  <2> QED BY <2>2, <2>3
<1>8. Grown(w, r, w2, r2)
  <2>1. ASSUME NEW j \in Elements, j # i
        PROVE  r[j] <= r2[j] /\ (Last(w[j]) >= 0 => Last(w2[j]) >= 0 /\ r2[j] = r[j])
    <3>1. r[j] \in Nat /\ r2[j] = r[j] /\ w2[j] = w[j]
      BY <1>1, <1>3, <1>6, <2>1
    <3> QED BY <3>1
  <2>2. Last(w[i]) >= 0 => Last(w2[i]) >= 0 /\ r2[i] = r[i]
    BY <1>1, <1>7
  <2> QED BY <1>7, <2>1, <2>2 DEF Grown
<1>9. Loadable(w2, r2, i, value)
  <2>1. CASE value \in Elements /\ Higher(r, i, value)
    <3>1. value >= 0 /\ value < N /\ r2[i] = r[i] /\ r[i] \in Nat
      BY <1>3, <1>7, <2>1, UnionFindAssumption DEF Elements
    <3>2. r[value] <= r2[value] /\ r[value] \in Nat /\ r2[value] \in Nat
      BY <1>3, <1>5, <1>8, <2>1 DEF Grown
    <3>3. Higher(r2, i, value)
      BY <2>1, <3>1, <3>2 DEF Higher
    <3> QED BY <1>1, <3>1, <3>3 DEF Loadable
  <2>2. CASE Last(w[i]) < 0 /\ value = Last(w[i]) - 1
    <3>1. value < 0
      <4>1. Last(w[i]) \in Int
        BY <1>2
      <4> QED BY <2>2, <4>1
    <3>2. r2[i] = -1 - value
      BY <1>1, <1>4, <3>1
    <3> QED BY <3>1, <3>2, UnionFindAssumption DEF Loadable
  <2> QED BY <2>1, <2>2
<1>10. ASSUME NEW j \in Elements, NEW k \in 1 .. Len(w2[j])
       PROVE  Loadable(w2, r2, j, w2[j][k])
  <2>1. CASE j = i /\ w2[j][k] = value
    BY <1>9, <2>1
  <2>2. ASSUME NEW m \in 1 .. Len(w[j]), w2[j][k] = w[j][m]
        PROVE  Loadable(w2, r2, j, w2[j][k])
    <3>1. Loadable(w, r, j, w[j][m])
      BY <1>3
    <3>2. Loadable(w2, r2, j, w[j][m])
      BY ZenonT(40), <1>3, <1>5, <1>8, <3>1, LoadableStays
    <3> QED BY <2>2, <3>2
  <2>3. CASE j = i
    <3>1. w2[j][k] = value \/ \E m \in 1 .. Len(w[j]) : w2[j][k] = w[j][m]
      BY <1>1, <2>3
    <3> QED BY <2>1, <2>2, <2>3, <3>1
  <2>4. CASE j # i
    <3>1. k \in 1 .. Len(w[j]) /\ w2[j][k] = w[j][k]
      BY <1>1, <2>4
    <3> QED BY <2>2, <3>1
  <2> QED BY <2>3, <2>4
<1> QED BY <1>1, <1>2, <1>4, <1>5, <1>8, <1>10 DEF MemoryOK

-----------------------------------------------------------------------------
Advances(t) == DOMAIN frame' = Threads /\ \A o \in Threads \ {t} : frame'[o] = frame[o]

\* The rank recorded with a step is the one of the memory it leaves.
LEMMA Observed ==
  ASSUME Observe
  PROVE  rank' = RankAfter(written', rank)
  BY DEF Observe, RankAfter, parent

\* A step that writes nothing changes no rank.
LEMMA QuietStep ==
  ASSUME IInv, Observe, NEW t \in Threads, written' = written, ViewOK', Advances(t),
         FrameOK(written, rank, frame'[t])
  PROVE  IInv'
<1>1. rank' = rank
  BY Observed DEF IInv, MemoryOK, RankAfter
<1>2. \A o \in Threads : FrameOK(written, rank, frame'[o])
  BY DEF IInv, Advances
<1> QED BY <1>1, <1>2 DEF IInv, Advances

\* A step that writes keeps every frame in order that held what it may.
LEMMA WriteStep ==
  ASSUME IInv, Observe, NEW t \in Threads, NEW i \in Elements, NEW value \in Int, Put(t, i, value),
         \/ value \in Elements /\ Higher(rank, i, value)
         \/ Last(written[i]) < 0 /\ value = Last(written[i]) - 1,
         Advances(t), FrameOK(written, rank, frame[t]) => FrameOK(written, rank, frame'[t])
  PROVE  IInv'
<1>1. written' = [written EXCEPT ![i] = IF Stale THEN Append(written[i], value) ELSE <<value>>]
  BY DEF Put, IInv, MemoryOK
<1>2. MemoryOK(written', rank') /\ Grown(written, rank, written', rank')
  BY <1>1, Observed, PutKeeps DEF IInv
<1>3. rank \in [Elements -> Nat] /\ rank' \in [Elements -> Nat]
  BY <1>2 DEF IInv, MemoryOK
<1>4. ASSUME NEW o \in Threads
      PROVE  FrameOK(written', rank', frame'[o])
  <2>1. FrameOK(written, rank, frame'[o])
    BY DEF IInv, Advances
  <2> QED BY <1>2, <1>3, <2>1, FrameStays
<1>5. ViewOK'
  <2>1. Len(written'[i]) \in Nat \ {0}
    BY <1>2 DEF MemoryOK
  <2> QED BY <2>1 DEF Put, ViewOK, IInv
<1> QED BY <1>2, <1>4, <1>5 DEF IInv, Advances

\* Whatever a load returns could be loaded, and is seen from now on.
LEMMA Loaded ==
  ASSUME IInv, NEW t \in Threads, NEW i \in Elements, NEW k \in Readable(t, i)
  PROVE  /\ Loadable(written, rank, i, written[i][k])
         /\ written[i][k] \in Int
         /\ view' = [view EXCEPT ![t][i] = k] => ViewOK'
<1>1. k \in 1 .. Len(written[i])
  BY DEF Readable, IInv, MemoryOK, ViewOK
<1>2. Loadable(written, rank, i, written[i][k])
  BY <1>1 DEF IInv, MemoryOK
<1>3. view' = [view EXCEPT ![t][i] = k] => ViewOK'
  BY <1>1 DEF IInv, ViewOK
<1> QED BY <1>2, <1>3 DEF Loadable

\* What IInv says of the frame of one thread.
LEMMA FrameOf ==
  ASSUME IInv, NEW t \in Threads
  PROVE  /\ FrameTyped(frame[t]) /\ FrameOK(written, rank, frame[t]) /\ DOMAIN frame = Threads
         /\ frame[t].u \in Elements /\ frame[t].v \in Elements /\ frame[t].x \in Elements
         /\ frame[t].ru \in Elements /\ frame[t].rv \in Elements
  BY DEF IInv, FrameOK, FrameTyped

\* There is an element.
LEMMA ZeroIn == 0 \in Elements
  BY UnionFindAssumption DEF Elements

\* Blank and Search make frames that hold nothing yet.
LEMMA BlankOK == FrameOK(written, rank, Blank)
  BY ZeroIn DEF FrameOK, FrameTyped, Blank, Searching, Fields

\* A search that starts has read no parent yet.
LEMMA SearchOK ==
  ASSUME NEW t, NEW f, FrameTyped(f)
  PROVE  FrameOK(written, rank, Search(t, f))
  BY ZeroIn DEF FrameOK, FrameTyped, Search, Searching, Fields

\* A find that returns leaves the thread idle, or hands the root to the merge
\* that called it.
LEMMA FindReturnsOK ==
  ASSUME IInv, NEW t \in Threads, NEW r \in Elements, FindReturns(t, r), frame[t].pc # "idle"
  PROVE  FrameOK(written, rank, frame'[t]) /\ Advances(t)
<1> DEFINE f == frame[t]
<1>1. FrameTyped(f) /\ DOMAIN frame = Threads /\ f.op \in {"find", "merge_u", "merge_v"}
  BY FrameOf DEF FrameOK, FrameTyped
<1>2. CASE Return(t, <<"found", r>>) \/ Return(t, <<"merged", FALSE>>)
  BY <1>1, <1>2, BlankOK DEF Return, Advances
<1>3. CASE frame' = [frame EXCEPT ![t] = [f EXCEPT !.op = "merge_v", !.pc = "load", !.x = f.v,
                                                       !.p = 0, !.ru = r]]
  <2>1. frame'[t] = [f EXCEPT !.op = "merge_v", !.pc = "load", !.x = f.v, !.p = 0, !.ru = r] /\ Advances(t)
    BY <1>1, <1>3 DEF Advances
  <2>2. FrameOK(written, rank, [f EXCEPT !.op = "merge_v", !.pc = "load", !.x = f.v, !.p = 0, !.ru = r])
    BY <1>1 DEF FrameOK, FrameTyped, Searching, Fields
  <2> QED BY <2>1, <2>2
<1>4. CASE r # f.ru /\ frame' = [frame EXCEPT ![t] = [f EXCEPT !.pc = "rank_u", !.x = 0, !.p = 0, !.rv = r]]
  <2>1. frame'[t] = [f EXCEPT !.pc = "rank_u", !.x = 0, !.p = 0, !.rv = r] /\ Advances(t)
    BY <1>1, <1>4 DEF Advances
  <2>2. FrameOK(written, rank, [f EXCEPT !.pc = "rank_u", !.x = 0, !.p = 0, !.rv = r])
    BY <1>1, <1>4, ZeroIn DEF FrameOK, FrameTyped, Fields
  <2> QED BY <2>1, <2>2
<1> QED BY <1>1, <1>2, <1>3, <1>4 DEF FindReturns

\* A thread moves on to a frame that holds what it may.
LEMMA Moves ==
  ASSUME IInv, Observe, NEW t \in Threads, written' = written, ViewOK',
         NEW g, frame' = [frame EXCEPT ![t] = g], FrameOK(written, rank, g)
  PROVE  IInv'
<1>1. frame'[t] = g /\ Advances(t)
  BY DEF Advances, IInv
<1> QED BY <1>1, QuietStep

-----------------------------------------------------------------------------
\* Each operation keeps the invariant.
LEMMA CallFindKeeps ==
  ASSUME IInv, Observe, NEW t \in Threads, NEW u \in Elements, CallFind(t, u)
  PROVE  IInv'
<1>1. FrameOK(written, rank, [Blank EXCEPT !.op = "find", !.pc = "load", !.u = u, !.x = u])
  BY ZeroIn DEF FrameOK, FrameTyped, Blank, Searching, Fields
<1>2. ViewOK'
  BY DEF IInv, ViewOK, CallFind
<1> QED BY <1>1, <1>2, Moves DEF CallFind

\* A merge begins with two elements.
LEMMA CallMergeKeeps ==
  ASSUME IInv, Observe, NEW t \in Threads, NEW u \in Elements, NEW v \in Elements, CallMerge(t, u, v)
  PROVE  IInv'
<1>1. FrameOK(written, rank, [Blank EXCEPT !.op = "merge_u", !.pc = "parent_u", !.u = u, !.v = v])
  BY ZeroIn DEF FrameOK, FrameTyped, Blank, Searching, Fields
<1>2. ViewOK'
  BY DEF IInv, ViewOK, CallMerge
<1> QED BY <1>1, <1>2, Moves DEF CallMerge

\* The parent read, whichever write it comes from, is higher than the
\* element.
LEMMA LoadParentKeeps ==
  ASSUME IInv, Observe, NEW t \in Threads, NEW k \in Readable(t, frame[t].x), LoadParent(t, k)
  PROVE  IInv'
<1> DEFINE f == frame[t]
           p == written[f.x][k]
<1>1. FrameTyped(f) /\ f.x \in Elements /\ f.op # "none"
  BY FrameOf DEF LoadParent, At, FrameOK
<1>2. Loadable(written, rank, f.x, p) /\ p \in Int /\ ViewOK'
  BY <1>1, Loaded DEF LoadParent, See
<1>3. p < 0 => FrameOK(written, rank, [f EXCEPT !.pc = "reload"])
  BY <1>1 DEF FrameOK, FrameTyped, Searching, Fields
<1>4. p >= 0 => FrameOK(written, rank, [f EXCEPT !.pc = "load_grand", !.p = p])
  BY <1>1, <1>2 DEF FrameOK, FrameTyped, Searching, Fields
<1>5. /\ written' = written /\ Advances(t)
      /\ frame'[t] = IF p < 0 THEN [f EXCEPT !.pc = "reload"] ELSE [f EXCEPT !.pc = "load_grand", !.p = p]
  BY FrameOf DEF LoadParent, See, Advances
<1>6. CASE p < 0
  BY <1>2, <1>3, <1>5, <1>6, QuietStep
<1>7. CASE p >= 0
  BY <1>2, <1>4, <1>5, <1>7, QuietStep
<1> QED BY <1>2, <1>6, <1>7

\* So is the parent read by the next round of the search.
LEMMA ReloadParentKeeps ==
  ASSUME IInv, Observe, NEW t \in Threads, NEW k \in Readable(t, frame[t].x), ReloadParent(t, k)
  PROVE  IInv'
<1> DEFINE f == frame[t]
           p == written[f.x][k]
<1>1. FrameTyped(f) /\ f.x \in Elements /\ f.pc = "reload" /\ f.op # "none"
  BY FrameOf DEF ReloadParent, At, FrameOK
<1>2. Loadable(written, rank, f.x, p) /\ p \in Int /\ ViewOK' /\ written' = written
  BY <1>1, Loaded DEF ReloadParent
<1>3. CASE p < 0
  <2>1. FrameOK(written, rank, frame'[t]) /\ Advances(t)
    BY <1>1, <1>3, FindReturnsOK DEF ReloadParent
  <2> QED BY <1>2, <2>1, QuietStep
<1>4. CASE p >= 0
  <2>1. FrameOK(written, rank, [f EXCEPT !.pc = "load_grand", !.p = p])
    BY <1>1, <1>2, <1>4 DEF FrameOK, FrameTyped, Searching, Fields
  <2>2. frame' = [frame EXCEPT ![t] = [f EXCEPT !.pc = "load_grand", !.p = p]]
    BY <1>2, <1>4 DEF ReloadParent
  <2> QED BY <1>2, <2>1, <2>2, Moves
<1> QED BY <1>2, <1>3, <1>4

\* A value loaded from the parent is above the element itself.
LEMMA GrandAbove ==
  ASSUME IInv, NEW x \in Elements, NEW p \in Elements, NEW gp \in Int, gp >= 0,
         Loadable(written, rank, x, p), Loadable(written, rank, p, gp)
  PROVE  Loadable(written, rank, x, gp)
<1>1. gp \in Elements /\ p >= 0
  BY UnionFindAssumption DEF Loadable, Elements
<1>2. rank \in [Elements -> Nat]
  BY DEF IInv, MemoryOK
<1>3. Higher(rank, x, gp)
  BY <1>1, <1>2, HigherTransitive DEF Loadable
<1> QED BY <1>1, <1>3 DEF Loadable

\* A grandparent read is higher than the parent.
LEMMA LoadGrandKeeps ==
  ASSUME IInv, Observe, NEW t \in Threads, NEW k \in Readable(t, frame[t].p), LoadGrand(t, k)
  PROVE  IInv'
<1> DEFINE f == frame[t]
           gp == written[f.p][k]
<1>1. FrameTyped(f) /\ f.x \in Elements /\ f.op # "none" /\ Loadable(written, rank, f.x, f.p) /\ f.p >= 0
  BY FrameOf DEF LoadGrand, At, FrameOK
<1>2. f.p \in Elements
  BY <1>1, UnionFindAssumption DEF Loadable, Elements
<1>3. Loadable(written, rank, f.p, gp) /\ gp \in Int /\ ViewOK'
  BY <1>2, Loaded DEF LoadGrand, See
<1>4. gp < 0 => FrameOK(written, rank, [f EXCEPT !.pc = "reload_grand"])
  BY <1>1 DEF FrameOK, FrameTyped, Searching, Fields
<1>5. ASSUME gp >= 0
      PROVE  FrameOK(written, rank, [f EXCEPT !.pc = "halve", !.p = gp])
  <2>1. Loadable(written, rank, f.x, gp)
    BY <1>1, <1>2, <1>3, <1>5, GrandAbove
  <2> QED BY <1>1, <1>3, <1>5, <2>1 DEF FrameOK, FrameTyped, Searching, Fields
<1>6. /\ written' = written /\ Advances(t)
      /\ frame'[t] = IF gp < 0 THEN [f EXCEPT !.pc = "reload_grand"] ELSE [f EXCEPT !.pc = "halve", !.p = gp]
  BY FrameOf DEF LoadGrand, See, Advances
<1>7. CASE gp < 0
  BY <1>3, <1>4, <1>6, <1>7, QuietStep
<1>8. CASE gp >= 0
  BY <1>3, <1>5, <1>6, <1>8, QuietStep
<1> QED BY <1>3, <1>7, <1>8

\* So is a grandparent read again.
LEMMA ReloadGrandKeeps ==
  ASSUME IInv, Observe, NEW t \in Threads, NEW k \in Readable(t, frame[t].p), ReloadGrand(t, k)
  PROVE  IInv'
<1> DEFINE f == frame[t]
           gp == written[f.p][k]
<1>1. /\ FrameTyped(f) /\ f.x \in Elements /\ f.op # "none" /\ f.pc = "reload_grand"
      /\ Loadable(written, rank, f.x, f.p) /\ f.p >= 0
  BY FrameOf DEF ReloadGrand, At, FrameOK
<1>2. f.p \in Elements
  BY <1>1, UnionFindAssumption DEF Loadable, Elements
<1>3. Loadable(written, rank, f.p, gp) /\ gp \in Int /\ ViewOK' /\ written' = written
  BY <1>2, Loaded DEF ReloadGrand
<1>4. CASE gp < 0
  <2>1. FrameOK(written, rank, frame'[t]) /\ Advances(t)
    BY <1>1, <1>2, <1>4, FindReturnsOK DEF ReloadGrand
  <2> QED BY <1>3, <2>1, QuietStep
<1>5. CASE gp >= 0
  <2>1. Loadable(written, rank, f.x, gp)
    BY <1>1, <1>2, <1>3, <1>5, GrandAbove
  <2>2. FrameOK(written, rank, [f EXCEPT !.pc = "halve", !.p = gp])
    BY <1>1, <1>3, <1>5, <2>1 DEF FrameOK, FrameTyped, Searching, Fields
  <2>3. frame' = [frame EXCEPT ![t] = [f EXCEPT !.pc = "halve", !.p = gp]]
    BY <1>3, <1>5 DEF ReloadGrand
  <2> QED BY <1>3, <2>2, <2>3, Moves
<1> QED BY <1>3, <1>4, <1>5

\* Halving a path replaces a parent by one that is higher.
LEMMA HalveKeeps ==
  ASSUME IInv, Observe, NEW t \in Threads, Halve(t)
  PROVE  IInv'
<1> DEFINE f == frame[t]
<1>1. FrameTyped(f) /\ f.x \in Elements /\ f.op # "none" /\ Loadable(written, rank, f.x, f.p) /\ f.p >= 0
  BY FrameOf DEF Halve, At, FrameOK
<1>2. f.p \in Elements /\ f.p \in Int /\ Higher(rank, f.x, f.p) /\ Put(t, f.x, f.p)
  BY <1>1, UnionFindAssumption DEF Loadable, Elements, Halve
<1>3. frame'[t] = [f EXCEPT !.pc = "load", !.x = f.p, !.p = 0] /\ Advances(t)
  BY FrameOf DEF Halve, Advances
<1>4. FrameOK(written, rank, [f EXCEPT !.pc = "load", !.x = f.p, !.p = 0])
  BY <1>1, <1>2 DEF FrameOK, FrameTyped, Searching, Fields
<1> QED BY <1>1, <1>2, <1>3, <1>4, WriteStep

\* The first element's parent, read by merge.
LEMMA LoadParentUKeeps ==
  ASSUME IInv, Observe, NEW t \in Threads, NEW k \in Readable(t, frame[t].u), LoadParentU(t, k)
  PROVE  IInv'
<1> DEFINE f == frame[t]
           p == written[f.u][k]
<1>1. FrameTyped(f) /\ f.u \in Elements /\ f.op # "none"
  BY FrameOf DEF LoadParentU, At, FrameOK
<1>2. p \in Int /\ ViewOK'
  BY <1>1, Loaded DEF LoadParentU, See
<1>3. FrameOK(written, rank, [f EXCEPT !.pc = "parent_v", !.p = p])
  BY <1>1, <1>2 DEF FrameOK, FrameTyped, Searching, Fields
<1> QED BY <1>2, <1>3, Moves DEF LoadParentU, See

\* The second element's parent, read by merge.
LEMMA LoadParentVKeeps ==
  ASSUME IInv, Observe, NEW t \in Threads, NEW k \in Readable(t, frame[t].v), LoadParentV(t, k)
  PROVE  IInv'
<1> DEFINE f == frame[t]
<1>1. FrameTyped(f) /\ f.v \in Elements
  BY FrameOf
<1>2. ViewOK' /\ written' = written
  BY <1>1, Loaded DEF LoadParentV
<1>3. CASE Return(t, <<"merged", FALSE>>)
  BY <1>2, <1>3, BlankOK, Moves DEF Return
<1>4. CASE frame' = [frame EXCEPT ![t] = Search(t, f)]
  BY <1>1, <1>2, <1>4, SearchOK, Moves
<1> QED BY <1>3, <1>4 DEF LoadParentV

\* The rank read of the first root is not above its rank now.
LEMMA LoadRankUKeeps ==
  ASSUME IInv, Observe, NEW t \in Threads, NEW k \in Readable(t, frame[t].ru), LoadRankU(t, k)
  PROVE  IInv'
<1> DEFINE f == frame[t]
           vu == written[f.ru][k]
<1>1. FrameTyped(f) /\ f.ru \in Elements /\ f.op # "none" /\ f.ru # f.rv
  BY FrameOf DEF LoadRankU, At, FrameOK
<1>2. Loadable(written, rank, f.ru, vu) /\ vu \in Int /\ ViewOK'
  BY <1>1, Loaded DEF LoadRankU, See
<1>3. FrameOK(written, rank, [f EXCEPT !.pc = "rank_v", !.vu = vu])
  BY <1>1, <1>2 DEF FrameOK, FrameTyped, Searching, Fields
<1> QED BY <1>2, <1>3, Moves DEF LoadRankU, See

\* The rank read of the second root is not above its rank now.
LEMMA LoadRankVKeeps ==
  ASSUME IInv, Observe, NEW t \in Threads, NEW k \in Readable(t, frame[t].rv), LoadRankV(t, k)
  PROVE  IInv'
<1> DEFINE f == frame[t]
           vv == written[f.rv][k]
           turned == [f EXCEPT !.pc = "link", !.ru = f.rv, !.vu = vv, !.rv = f.ru, !.vv = f.vu]
           straight == [f EXCEPT !.pc = "link", !.vv = vv]
<1>1. /\ FrameTyped(f) /\ f.ru \in Elements /\ f.rv \in Elements /\ f.vu \in Int /\ f.op # "none"
      /\ Loadable(written, rank, f.ru, f.vu) /\ f.ru # f.rv
  BY FrameOf DEF LoadRankV, At, FrameOK, FrameTyped
<1>2. Loadable(written, rank, f.rv, vv) /\ vv \in Int /\ ViewOK' /\ written' = written
  BY <1>1, Loaded DEF LoadRankV, See
<1>3. /\ Advances(t)
      /\ frame'[t] = IF f.vu >= 0 \/ vv >= 0 THEN Search(t, f)
                     ELSE IF Outranks(f.ru, f.vu, f.rv, vv) THEN turned ELSE straight
  BY FrameOf DEF LoadRankV, Advances
<1>4. CASE f.vu >= 0 \/ vv >= 0
  BY <1>1, <1>2, <1>3, <1>4, SearchOK, QuietStep
<1>5. CASE f.vu < 0 /\ vv < 0 /\ Outranks(f.ru, f.vu, f.rv, vv)
  <2>1. vv < f.vu \/ (vv = f.vu /\ f.rv > f.ru)
    BY <1>1, <1>2, <1>5 DEF Outranks, Elements
  <2>2. FrameOK(written, rank, turned)
    BY <1>1, <1>2, <1>5, <2>1 DEF FrameOK, FrameTyped, Searching, Fields
  <2>3. frame'[t] = turned
    BY <1>1, <1>2, <1>3, <1>5
  <2> QED BY <1>2, <1>3, <2>2, <2>3, QuietStep
<1>6. CASE f.vu < 0 /\ vv < 0 /\ ~Outranks(f.ru, f.vu, f.rv, vv)
  <2>1. f.vu < vv \/ (f.vu = vv /\ f.ru > f.rv)
    BY <1>1, <1>2, <1>6 DEF Outranks, Elements
  <2>2. FrameOK(written, rank, straight)
    BY <1>1, <1>2, <1>6, <2>1 DEF FrameOK, FrameTyped, Searching, Fields
  <2>3. frame'[t] = straight
    BY <1>1, <1>2, <1>3, <1>6
  <2> QED BY <1>2, <1>3, <2>2, <2>3, QuietStep
<1> QED BY <1>1, <1>2, <1>4, <1>5, <1>6

\* A link is made only from a root whose rank is what was read, to a higher
\* element.
LEMMA LinkKeeps ==
  ASSUME IInv, Observe, NEW t \in Threads, Link(t)
  PROVE  IInv'
<1> DEFINE f == frame[t]
           pc == IF f.vu = f.vv THEN "raise" ELSE "joined"
<1>1. /\ FrameTyped(f) /\ f.ru \in Elements /\ f.rv \in Elements /\ f.op # "none"
      /\ f.vu < 0 /\ f.vv < 0 /\ f.vu \in Int /\ f.vv \in Int /\ Loadable(written, rank, f.ru, f.vu)
      /\ f.vu < f.vv \/ (f.vu = f.vv /\ f.ru > f.rv)
  BY FrameOf DEF Link, At, FrameOK, FrameTyped
<1>2. rank[f.rv] = -1 - f.vv /\ rank[f.ru] \in Nat /\ -1 - f.vu <= rank[f.ru]
  <2>1. Last(written[f.rv]) = f.vv
    BY <1>1 DEF Link, parent
  <2> QED BY <1>1, <2>1 DEF IInv, MemoryOK, Loadable
<1>3. Higher(rank, f.rv, f.ru)
  BY <1>1, <1>2 DEF Higher, Elements
<1>4. Put(t, f.rv, f.ru) /\ f.ru \in Int
  BY <1>1 DEF Link, Elements
<1>5. frame'[t] = [f EXCEPT !.pc = pc] /\ Advances(t)
  BY FrameOf DEF Link, Advances
<1>6. FrameOK(written, rank, [f EXCEPT !.pc = pc])
  BY <1>1 DEF FrameOK, FrameTyped, Searching, Fields
<1> QED BY <1>1, <1>3, <1>4, <1>5, <1>6, WriteStep

\* A link that fails writes nothing.
LEMMA LinkFailsKeeps ==
  ASSUME IInv, Observe, NEW t \in Threads, LinkFails(t)
  PROVE  IInv'
<1>1. ViewOK' /\ FrameTyped(frame[t])
  BY FrameOf DEF IInv, ViewOK, LinkFails
<1> QED BY <1>1, SearchOK, Moves DEF LinkFails

\* Raising a rank keeps every parent higher than its children.
LEMMA RaiseKeeps ==
  ASSUME IInv, Observe, NEW t \in Threads, Raise(t)
  PROVE  IInv'
<1> DEFINE f == frame[t]
<1>1. FrameTyped(f) /\ f.ru \in Elements /\ f.op # "none" /\ f.vu < 0 /\ f.vu - 1 \in Int
  BY FrameOf DEF Raise, At, FrameOK, FrameTyped
<1>2. Last(written[f.ru]) = f.vu /\ Put(t, f.ru, f.vu - 1)
  BY <1>1 DEF Raise, parent
<1>3. frame'[t] = [f EXCEPT !.pc = "joined"] /\ Advances(t)
  BY FrameOf DEF Raise, Advances
<1>4. FrameOK(written, rank, [f EXCEPT !.pc = "joined"])
  BY <1>1 DEF FrameOK, FrameTyped, Searching, Fields
<1> QED BY <1>1, <1>2, <1>3, <1>4, WriteStep

\* A raise that fails writes nothing.
LEMMA RaiseFailsKeeps ==
  ASSUME IInv, Observe, NEW t \in Threads, NEW k \in Readable(t, frame[t].ru), RaiseFails(t, k)
  PROVE  IInv'
<1> DEFINE f == frame[t]
           value == written[f.ru][k]
<1>1. FrameTyped(f) /\ f.ru \in Elements /\ f.op # "none" /\ f.pc = "raise"
  BY FrameOf DEF RaiseFails, At, FrameOK
<1>2. value \in Int /\ ViewOK' /\ written' = written
  BY <1>1, Loaded DEF RaiseFails, See
<1>3. value < 0 => FrameOK(written, rank, [f EXCEPT !.vu = value])
  BY <1>1, <1>2 DEF FrameOK, FrameTyped, Fields, Searching
<1>4. FrameOK(written, rank, [f EXCEPT !.pc = "joined"])
  BY <1>1 DEF FrameOK, FrameTyped, Searching, Fields
<1>5. Advances(t) /\ frame'[t] = IF value < 0 THEN [f EXCEPT !.vu = value] ELSE [f EXCEPT !.pc = "joined"]
  BY FrameOf DEF RaiseFails, Advances
<1>6. CASE value < 0
  BY <1>2, <1>3, <1>5, <1>6, QuietStep
<1>7. CASE value >= 0
  BY <1>2, <1>4, <1>5, <1>7, QuietStep
<1> QED BY <1>2, <1>6, <1>7

\* A merge that returns leaves its thread idle.
LEMMA MergeReturnsKeeps ==
  ASSUME IInv, Observe, NEW t \in Threads, MergeReturns(t)
  PROVE  IInv'
<1>1. ViewOK'
  BY DEF IInv, ViewOK, MergeReturns
<1> QED BY <1>1, BlankOK, Moves DEF MergeReturns, Return

-----------------------------------------------------------------------------
\* The invariant holds to begin with, of any forest of Starts that has climbed.
LEMMA InitKeeps == MCInit => IInv
<1> SUFFICES ASSUME MCInit PROVE IInv
  OBVIOUS
<1>1. PICK start \in Starts : written = [i \in Elements |-> <<start[i]>>]
  BY DEF MCInit, Init
<1>2. start \in [Elements -> Int]
  BY UnionFindAssumption
<1>3. /\ written \in [Elements -> Seq(Int)]
      /\ \A i \in Elements : Len(written[i]) = 1 /\ written[i][1] = start[i] /\ Last(written[i]) = start[i]
  BY <1>1, <1>2 DEF Last
<1>4. /\ \A i \in Elements : rank[i] = StartRank(start, i)
      /\ rank \in [Elements -> Nat]
  <2>1. rank = [i \in Elements |-> StartRank(parent, i)]
    BY DEF MCInit
  <2>2. \A i \in Elements : StartRank(parent, i) = StartRank(start, i)
    BY <1>3 DEF StartRank, parent
  <2>3. \A i \in Elements : StartRank(start, i) \in Nat
    BY <1>2 DEF StartRank
  <2> QED BY <2>1, <2>2, <2>3
<1>5. ASSUME NEW i \in Elements
      PROVE  /\ start[i] < 0 => rank[i] = -1 - start[i]
             /\ Loadable(written, rank, i, start[i])
  <2>1. start[i] \in Int /\ rank[i] \in Nat
    BY <1>2, <1>4
  <2>2. start[i] < 0 => rank[i] = -1 - start[i]
    BY <1>4 DEF StartRank
  <2>3. ASSUME start[i] >= 0
        PROVE  Loadable(written, rank, i, start[i])
    <3>1. start[i] \in Elements /\ start[i] < N
      BY <2>3, StartsAssumption, UnionFindAssumption DEF Elements
    <3>2. rank[i] = 0 /\ rank[start[i]] = StartRank(start, start[i])
      BY <1>4, <2>1, <2>3, <3>1 DEF StartRank
    <3>3. Higher(rank, i, start[i])
      BY <2>3, <3>2, StartsAssumption DEF Higher
    <3> QED BY <1>3, <2>1, <2>3, <3>1, <3>3 DEF Loadable
  <2>4. start[i] < 0 => start[i] < N
    BY <2>1, UnionFindAssumption
  <2> QED BY <2>1, <2>2, <2>3, <2>4 DEF Loadable
<1>6. MemoryOK(written, rank)
  BY <1>3, <1>4, <1>5 DEF MemoryOK
<1>7. ViewOK
  BY DEF MCInit, Init, ViewOK
<1>8. DOMAIN frame = Threads /\ \A t \in Threads : FrameOK(written, rank, frame[t])
  BY BlankOK DEF MCInit, Init
<1> QED BY <1>6, <1>7, <1>8 DEF IInv

\* Every access to an element keeps IInv.
LEMMA AccessKeeps ==
  ASSUME IInv, Observe, NEW t \in Threads, Accesses(t)
  PROVE  IInv'
<1>1. ASSUME NEW k \in Readable(t, frame[t].x), LoadParent(t, k) \/ ReloadParent(t, k)
      PROVE  IInv'
  BY <1>1, LoadParentKeeps, ReloadParentKeeps
<1>2. ASSUME NEW k \in Readable(t, frame[t].p), LoadGrand(t, k) \/ ReloadGrand(t, k)
      PROVE  IInv'
  BY <1>2, LoadGrandKeeps, ReloadGrandKeeps
<1>3. ASSUME NEW k \in Readable(t, frame[t].u), LoadParentU(t, k)
      PROVE  IInv'
  BY <1>3, LoadParentUKeeps
<1>4. ASSUME NEW k \in Readable(t, frame[t].v), LoadParentV(t, k)
      PROVE  IInv'
  BY <1>4, LoadParentVKeeps
<1>5. ASSUME NEW k \in Readable(t, frame[t].ru), LoadRankU(t, k) \/ RaiseFails(t, k)
      PROVE  IInv'
  BY <1>5, LoadRankUKeeps, RaiseFailsKeeps
<1>6. ASSUME NEW k \in Readable(t, frame[t].rv), LoadRankV(t, k)
      PROVE  IInv'
  BY <1>6, LoadRankVKeeps
<1>7. CASE Halve(t) \/ Link(t) \/ LinkFails(t) \/ Raise(t) \/ MergeReturns(t)
  BY <1>7, HalveKeeps, LinkKeeps, LinkFailsKeeps, RaiseKeeps, MergeReturnsKeeps
<1> QED BY <1>1, <1>2, <1>3, <1>4, <1>5, <1>6, <1>7 DEF Accesses

\* Every call keeps IInv.
LEMMA CallKeeps ==
  ASSUME IInv, Observe, NEW t \in Threads, Call(t)
  PROVE  IInv'
  BY CallFindKeeps, CallMergeKeeps DEF Call

\* IInv is inductive, whatever the readers observe.
LEMMA StepKeeps == IInv /\ [MCNext]_ovars => IInv'
<1> SUFFICES ASSUME IInv, [MCNext]_ovars PROVE IInv'
  OBVIOUS
<1>1. ASSUME NEW t \in Threads, Accesses(t), Observe
      PROVE  IInv'
  BY <1>1, AccessKeeps
<1>2. ASSUME NEW t \in Threads, Call(t), Observe
      PROVE  IInv'
  BY <1>2, CallKeeps
<1>3. CASE UNCHANGED ovars
  BY <1>3 DEF ovars, vars, IInv, ViewOK
<1> QED BY <1>1, <1>2, <1>3 DEF MCNext

\* IInv holds in every state.
LEMMA IInvHolds == MCSpec => []IInv
  BY InitKeeps, StepKeeps, PTL DEF MCSpec

\* Every value a parent ever had climbs, for all threads, elements and old
\* values: ConcurrentUnionFind::find and merge build no cycle.
THEOREM ParentsClimb == MCSpec => []Climbs
<1>1. IInv => Climbs
  <2> SUFFICES ASSUME IInv, NEW i \in Elements, NEW k \in DOMAIN written[i], written[i][k] >= 0
               PROVE  Higher(rank, i, written[i][k])
    BY DEF Climbs, Higher
  <2>1. k \in 1 .. Len(written[i])
    BY DEF IInv, MemoryOK
  <2> QED BY <2>1 DEF IInv, MemoryOK, Loadable
<1> QED BY <1>1, IInvHolds, PTL

-----------------------------------------------------------------------------
(* Induction over the naturals and over what is above an element.          *)

\* A set of naturals has a least element.
LEMMA Least ==
  ASSUME NEW T, T \subseteq Nat, T # {}
  PROVE  \E m \in T : \A k \in T : m <= k
<1> DEFINE R == OpToRel(<, Nat)
<1>1. IsWellFoundedOn(R, Nat)
  BY NatLessThanWellFounded, Zenon
<1>2. PICK m \in T : \A k \in T : ~(<<k, m>> \in R)
  <2> HIDE DEF R
  <2> QED BY <1>1, WFMin
<1>3. \A k, j \in Nat : k < j => <<k, j>> \in R
  BY SMT DEF OpToRel
<1>4. \A k \in T : ~(k < m)
  <2> HIDE DEF R
  <2> QED BY <1>2, <1>3, Zenon
<1> HIDE DEF R
<1>5. ASSUME NEW k \in T PROVE m <= k
  <2>1. ~(k < m) /\ k \in Nat /\ m \in Nat
    BY <1>4
  <2> QED BY <2>1, SMT
<1> QED BY <1>5

\* Induction over the numbers, as a fact about sets.
LEMMA Induction ==
  ASSUME NEW T, 0 \in T, \A n \in Nat : n \in T => n + 1 \in T
  PROVE  Nat \subseteq T
<1> SUFFICES ASSUME Nat \ T # {} PROVE FALSE
  OBVIOUS
<1>1. PICK m \in Nat \ T : \A k \in Nat \ T : m <= k
  BY Least
<1>2. m # 0 /\ m - 1 \in Nat
  OBVIOUS
<1>3. m - 1 \in T
  BY <1>1, <1>2
<1> QED BY <1>2, <1>3

Above(r, x) == {y \in Elements : Higher(r, x, y)}

\* Fewer elements are above an element that is higher.
LEMMA AboveShrinks ==
  ASSUME NEW r \in [Elements -> Nat], NEW x \in Elements
  PROVE  /\ Cardinality(Above(r, x)) \in Nat /\ Cardinality(Above(r, x)) < N
         /\ \A y \in Elements : Higher(r, x, y) => Cardinality(Above(r, y)) < Cardinality(Above(r, x))
<1>1. IsFiniteSet(Elements) /\ Cardinality(Elements) = N
  <2>1. N \in Nat /\ N >= 1
    BY UnionFindAssumption
  <2> QED BY <2>1, FS_Interval DEF Elements
<1>2. \A y \in Elements : IsFiniteSet(Above(r, y)) /\ Cardinality(Above(r, y)) \in Nat
  BY <1>1, FS_Subset, FS_CardinalityType DEF Above
<1>3. Cardinality(Above(r, x)) < N
  <2>1. x \notin Above(r, x)
    BY DEF Above, Higher, Elements
  <2>2. Above(r, x) \in SUBSET Elements /\ Above(r, x) # Elements
    BY <2>1 DEF Above
  <2>3. Cardinality(Above(r, x)) <= N /\ Cardinality(Above(r, x)) # N
    BY <1>1, <2>2, FS_Subset
  <2> QED BY <1>2, <2>3, UnionFindAssumption
<1>4. ASSUME NEW y \in Elements, Higher(r, x, y)
      PROVE  Cardinality(Above(r, y)) < Cardinality(Above(r, x))
  <2>1. Above(r, y) \in SUBSET Above(r, x)
    BY <1>4, HigherTransitive DEF Above
  <2>2. y \in Above(r, x) /\ y \notin Above(r, y)
    BY <1>4 DEF Above, Higher, Elements
  <2>3. Cardinality(Above(r, y)) <= Cardinality(Above(r, x)) /\ Cardinality(Above(r, y)) # Cardinality(Above(r, x))
    BY <1>2, <2>1, <2>2, FS_Subset
  <2> QED BY <1>2, <2>3
<1> QED BY <1>2, <1>3, <1>4

\* Among some elements there is one below none of the others.
LEMMA Highest ==
  ASSUME NEW r \in [Elements -> Nat], NEW S, S \subseteq Elements, S # {}
  PROVE  \E x \in S : \A y \in S : ~Higher(r, x, y)
<1> DEFINE M == {Cardinality(Above(r, x)) : x \in S}
<1>1. M \subseteq Nat /\ M # {}
  BY AboveShrinks
<1>2. PICK m \in M : \A k \in M : m <= k
  <2> HIDE DEF M
  <2> QED BY <1>1, Least
<1>3. PICK x \in S : m = Cardinality(Above(r, x))
  OBVIOUS
<1>4. ASSUME NEW y \in S, Higher(r, x, y) PROVE FALSE
  <2>1. Cardinality(Above(r, y)) < m /\ m <= Cardinality(Above(r, y))
    BY <1>2, <1>3, <1>4, AboveShrinks
  <2>2. Cardinality(Above(r, y)) \in Nat /\ m \in Nat
    BY <1>3, AboveShrinks
  <2> QED BY <2>1, <2>2
<1> QED BY <1>4

-----------------------------------------------------------------------------
(* Forests and their roots.                                                *)

Forest(F, r) ==
  /\ F \in [Elements -> Int] /\ r \in [Elements -> Nat]
  /\ \A i \in Elements : F[i] >= 0 => F[i] \in Elements /\ Higher(r, i, F[i])

\* T gives every element the root of its tree.
Rooted(F, T) ==
  /\ T \in [Elements -> Elements]
  /\ \A x \in Elements : /\ F[x] < 0 => T[x] = x
                         /\ F[x] >= 0 => T[x] = T[F[x]]

\* There is one way to do so.
LEMMA OneRoot ==
  ASSUME NEW F, NEW r, Forest(F, r), NEW T, Rooted(F, T), NEW T2, Rooted(F, T2)
  PROVE  T = T2
<1> DEFINE Bad == {x \in Elements : T[x] # T2[x]}
<1>1. CASE Bad # {}
  <2>1. PICK x \in Bad : \A y \in Bad : ~Higher(r, x, y)
    <3>1. Bad \subseteq Elements /\ r \in [Elements -> Nat]
      BY DEF Forest
    <3> HIDE DEF Bad
    <3> QED BY <1>1, <3>1, Highest
  <2>2. F[x] \in Int /\ ~(F[x] < 0)
    BY DEF Forest, Rooted
  <2>3. F[x] >= 0 /\ F[x] \in Elements /\ Higher(r, x, F[x])
    BY <2>2 DEF Forest
  <2>4. T[F[x]] = T2[F[x]]
    BY <2>1, <2>3
  <2> QED BY <2>3, <2>4 DEF Rooted
<1>2. CASE Bad = {}
  BY <1>2 DEF Rooted
<1> QED BY <1>1, <1>2

\* A root is a root, and above the elements it is not itself.
LEMMA RootAbove ==
  ASSUME NEW F, NEW r, Forest(F, r), NEW T, Rooted(F, T), NEW e \in Elements
  PROVE  /\ T[e] \in Elements /\ F[T[e]] < 0 /\ T[T[e]] = T[e]
         /\ T[e] = e \/ Higher(r, e, T[e])
<1> DEFINE Good(x) == F[T[x]] < 0 /\ (T[x] = x \/ Higher(r, x, T[x]))
           Bad == {x \in Elements : ~Good(x)}
<1>1. CASE Bad # {}
  <2>1. PICK x \in Bad : \A y \in Bad : ~Higher(r, x, y)
    <3>1. Bad \subseteq Elements /\ r \in [Elements -> Nat]
      BY DEF Forest
    <3> HIDE DEF Bad
    <3> QED BY <1>1, <3>1, Highest
  <2>2. F[x] \in Int /\ ~(F[x] < 0)
    BY DEF Forest, Rooted
  <2>3. F[x] >= 0 /\ F[x] \in Elements /\ Higher(r, x, F[x]) /\ T[x] = T[F[x]] /\ T[x] \in Elements
    BY <2>2 DEF Forest, Rooted
  <2>4. Good(F[x])
    BY <2>1, <2>3
  <2>5. T[F[x]] = F[x] \/ Higher(r, x, T[F[x]])
    <3>1. r \in [Elements -> Nat] /\ x \in Elements
      BY DEF Forest
    <3> QED BY <2>3, <2>4, <3>1, HigherTransitive
  <2>6. Good(x)
    BY <2>3, <2>4, <2>5
  <2> QED BY <2>6
<1>2. CASE Bad = {}
  <2>1. Good(e) /\ T[e] \in Elements
    BY <1>2 DEF Rooted
  <2> QED BY <2>1 DEF Rooted
<1> QED BY <1>1, <1>2

\* The parent of an element, or itself if it is a root.
Climb(F, y) == IF F[y] < 0 THEN y ELSE F[y]

\* s climbs from x in n steps.
Chain(F, x, n, s) ==
  s \in [0 .. n -> Elements] /\ s[0] = x /\ \A k \in 0 .. n - 1 : s[k + 1] = Climb(F, s[k])

\* Climbing from an element ends at an element.
LEMMA ClimbIn ==
  ASSUME NEW F, NEW r, Forest(F, r), NEW y \in Elements
  PROVE  Climb(F, y) \in Elements
<1>1. F[y] \in Int
  BY DEF Forest
<1> QED BY <1>1 DEF Climb, Forest

\* Climbing step by step, for any number of steps.
LEMMA ChainExists ==
  ASSUME NEW F, NEW r, Forest(F, r), NEW x \in Elements, NEW n \in Nat
  PROVE  \E s : Chain(F, x, n, s)
<1> DEFINE Some == {k \in Nat : \E s : Chain(F, x, k, s)}
<1>1. 0 \in Some
  <2>1. Chain(F, x, 0, [k \in 0 .. 0 |-> x])
    BY DEF Chain
  <2> QED BY <2>1
<1>2. ASSUME NEW m \in Nat, m \in Some PROVE m + 1 \in Some
  <2>1. PICK s : Chain(F, x, m, s)
    BY <1>2
  <2> DEFINE longer == [k \in 0 .. m + 1 |-> IF k = m + 1 THEN Climb(F, s[m]) ELSE s[k]]
  <2>2. longer \in [0 .. m + 1 -> Elements] /\ longer[0] = x
    <3>1. 0 \in 0 .. m + 1 /\ 0 # m + 1 /\ m \in 0 .. m /\ s[0] = x
      BY <2>1 DEF Chain
    <3>2. Climb(F, s[m]) \in Elements
      BY <2>1, <3>1, ClimbIn DEF Chain
    <3>3. \A k \in 0 .. m + 1 : k # m + 1 => s[k] \in Elements
      BY <2>1 DEF Chain
    <3> QED BY <3>1, <3>2, <3>3
  <2>3. ASSUME NEW k \in 0 .. (m + 1) - 1 PROVE longer[k + 1] = Climb(F, longer[k])
    <3>1. CASE k = m
      <4>1. longer[k + 1] = Climb(F, s[m]) /\ longer[k] = s[m]
        BY <3>1
      <4> QED BY <4>1
    <3>2. CASE k # m
      <4>1. k \in 0 .. m - 1 /\ k + 1 \in 0 .. m
        BY <3>2
      <4>2. longer[k + 1] = s[k + 1] /\ longer[k] = s[k]
        BY <4>1
      <4> QED BY <2>1, <4>1, <4>2 DEF Chain
    <3> QED BY <3>1, <3>2
  <2>4. Chain(F, x, m + 1, longer)
    <3> HIDE DEF longer
    <3> QED BY <2>2, <2>3 DEF Chain
  <2> QED BY <2>4
<1>3. Nat \subseteq Some
  <2> HIDE DEF Some
  <2> QED BY <1>1, <1>2, Induction
<1> QED BY <1>3

\* A chain as long as there are elements ends at a root.
LEMMA ChainEnds ==
  ASSUME NEW F, NEW r, Forest(F, r), NEW x, NEW s, Chain(F, x, N, s)
  PROVE  F[s[N]] < 0
<1>1. N \in Nat /\ r \in [Elements -> Nat] /\ F \in [Elements -> Int]
  BY UnionFindAssumption DEF Forest
<1> DEFINE Left(k) == Cardinality(Above(r, s[k]))
           Done(k) == F[s[k]] < 0 \/ Left(k) + k <= N - 1
           Some == {k \in Nat : k <= N => Done(k)}
<1>2. \A k \in 0 .. N : s[k] \in Elements /\ Left(k) \in Nat /\ Left(k) < N
  BY <1>1, AboveShrinks DEF Chain
<1>3. 0 \in Some
  <2>1. 0 \in 0 .. N
    BY <1>1
  <2>2. Left(0) \in Nat /\ Left(0) < N
    BY <1>2, <2>1
  <2> HIDE DEF Left
  <2> QED BY <1>1, <2>2
<1>4. ASSUME NEW k \in Nat, k \in Some PROVE k + 1 \in Some
  <2> SUFFICES ASSUME k + 1 <= N PROVE Done(k + 1)
    OBVIOUS
  <2>1. k \in 0 .. N /\ k + 1 \in 0 .. N /\ k \in 0 .. N - 1 /\ Done(k)
    BY <1>1, <1>4
  <2>2. s[k + 1] = Climb(F, s[k]) /\ s[k] \in Elements /\ s[k + 1] \in Elements
    BY <1>2, <2>1 DEF Chain
  <2>3. CASE F[s[k]] < 0
    BY <2>2, <2>3 DEF Climb
  <2>4. CASE ~(F[s[k]] < 0)
    <3>1. F[s[k]] \in Int /\ F[s[k]] >= 0 /\ s[k + 1] = F[s[k]]
      BY <1>1, <2>2, <2>4 DEF Climb
    <3>2. Higher(r, s[k], s[k + 1])
      BY <2>2, <3>1 DEF Forest
    <3>3. Left(k + 1) < Left(k)
      BY <1>1, <2>2, <3>2, AboveShrinks
    <3>4. Left(k) + k <= N - 1 /\ Left(k) \in Nat /\ Left(k + 1) \in Nat
      BY <1>2, <2>1, <2>4
    <3> HIDE DEF Left
    <3> QED BY <1>1, <3>3, <3>4
  <2> QED BY <2>3, <2>4
<1>5. N \in Some
  <2> HIDE DEF Some
  <2> QED BY <1>1, <1>3, <1>4, Induction
<1>6. Done(N) /\ Left(N) \in Nat
  BY <1>1, <1>2, <1>5
<1> HIDE DEF Left
<1> QED BY <1>1, <1>6

\* Top follows such a chain.
LEMMA TopEnds ==
  ASSUME NEW F, NEW r, Forest(F, r), NEW x \in Elements
  PROVE  \E s : Chain(F, x, N, s) /\ Top(F, x) = s[N]
<1> DEFINE Step(up) == [k \in 0 .. N |-> IF k = 0 THEN x
                          ELSE LET below == up[k - 1] IN IF F[below] < 0 THEN below ELSE F[below]]
           up == CHOOSE up : up = Step(up)
<1>1. N \in Nat
  BY UnionFindAssumption
<1>2. PICK s : Chain(F, x, N, s)
  BY <1>1, ChainExists
<1>3. s = Step(s)
  <2>1. ASSUME NEW k \in 0 .. N PROVE s[k] = Step(s)[k]
    <3>1. CASE k = 0
      BY <1>2, <3>1 DEF Chain
    <3>2. CASE k # 0
      <4>1. k - 1 \in 0 .. N - 1 /\ (k - 1) + 1 = k
        BY <1>1, <3>2
      <4>2. s[k] = Climb(F, s[k - 1])
        BY <1>2, <4>1 DEF Chain
      <4> QED BY <3>2, <4>2 DEF Climb
    <3> QED BY <3>1, <3>2
  <2> HIDE DEF Step
  <2>2. DOMAIN Step(s) = 0 .. N /\ Step(s) = [k \in 0 .. N |-> Step(s)[k]]
    BY DEF Step
  <2> QED BY <1>2, <2>1, <2>2 DEF Chain
<1>4. up = Step(up)
  <2> HIDE DEF Step
  <2> QED BY <1>3
<1>5. Top(F, x) = up[N]
  BY DEF Top
<1> HIDE DEF up
<1>6. \A k \in 0 .. N : up[k] = IF k = 0 THEN x ELSE Climb(F, up[k - 1])
  BY <1>4 DEF Climb
<1> HIDE DEF Step
<1>7. up[N] = s[N]
  <2> DEFINE Some == {k \in Nat : k <= N => up[k] = s[k]}
  <2>1. 0 \in Some
    BY <1>1, <1>2, <1>6 DEF Chain
  <2>2. ASSUME NEW k \in Nat, k \in Some PROVE k + 1 \in Some
    <3> SUFFICES ASSUME k + 1 <= N PROVE up[k + 1] = s[k + 1]
      OBVIOUS
    <3>1. k \in 0 .. N - 1 /\ k + 1 \in 0 .. N /\ k + 1 # 0 /\ (k + 1) - 1 = k /\ k <= N
      BY <1>1
    <3>2. up[k] = s[k]
      BY <2>2, <3>1
    <3>3. s[k + 1] = Climb(F, s[k])
      BY <1>2, <3>1 DEF Chain
    <3>4. up[k + 1] = Climb(F, up[k])
      BY <1>6, <3>1
    <3> QED BY <3>2, <3>3, <3>4
  <2>3. N \in Some
    <3> HIDE DEF Some
    <3> QED BY <1>1, <2>1, <2>2, Induction
  <2> QED BY <1>1, <2>3
<1> QED BY <1>2, <1>5, <1>7

\* What two chains from one element have in common.
LEMMA ChainsAgree ==
  ASSUME NEW F, NEW x, NEW n \in Nat, NEW m \in Nat, m <= n,
         NEW s, Chain(F, x, n, s), NEW s2, Chain(F, x, m, s2)
  PROVE  s[m] = s2[m]
<1> DEFINE Some == {k \in Nat : k <= m => s[k] = s2[k]}
<1>1. 0 \in Some
  BY DEF Chain
<1>2. ASSUME NEW k \in Nat, k \in Some PROVE k + 1 \in Some
  <2> SUFFICES ASSUME k + 1 <= m PROVE s[k + 1] = s2[k + 1]
    OBVIOUS
  <2>1. k \in 0 .. m - 1 /\ k \in 0 .. n - 1 /\ k <= m
    OBVIOUS
  <2>2. s[k] = s2[k]
    BY <1>2, <2>1
  <2> QED BY <2>1, <2>2 DEF Chain
<1>3. m \in Some
  <2> HIDE DEF Some
  <2> QED BY <1>1, <1>2, Induction
<1> QED BY <1>3

Roots(F) == [x \in Elements |-> Top(F, x)]

\* So it gives every element its root.
LEMMA TopRooted ==
  ASSUME NEW F, NEW r, Forest(F, r)
  PROVE  Rooted(F, Roots(F))
<1>1. N \in Nat /\ N >= 1 /\ F \in [Elements -> Int]
  BY UnionFindAssumption DEF Forest
<1>2. ASSUME NEW x \in Elements
      PROVE  /\ Top(F, x) \in Elements
             /\ F[x] < 0 => Top(F, x) = x
             /\ F[x] >= 0 => Top(F, x) = Top(F, F[x])
  <2>1. PICK s : Chain(F, x, N, s) /\ Top(F, x) = s[N]
    BY TopEnds
  <2>2. Top(F, x) \in Elements
    <3>1. N \in 0 .. N
      BY <1>1
    <3> QED BY <2>1, <3>1 DEF Chain
  <2>3. CASE F[x] < 0
    <3> DEFINE still == [k \in 0 .. N |-> x]
    <3>1. Chain(F, x, N, still)
      BY <1>1, <2>3 DEF Chain, Climb
    <3>2. s[N] = still[N]
      <4> HIDE DEF still
      <4> QED BY <1>1, <2>1, <3>1, ChainsAgree
    <3>3. still[N] = x
      BY <1>1
    <3> QED BY <1>1, <2>1, <2>2, <2>3, <3>2, <3>3
  <2>4. CASE F[x] >= 0
    <3> DEFINE rest == [k \in 0 .. N - 1 |-> s[k + 1]]
    <3>1. F[x] \in Elements /\ ~(F[x] < 0)
      BY <1>1, <2>4 DEF Forest
    <3>2. PICK s2 : Chain(F, F[x], N, s2) /\ Top(F, F[x]) = s2[N]
      BY <3>1, TopEnds
    <3>3. Chain(F, F[x], N - 1, rest)
      <4>1. s[0 + 1] = Climb(F, s[0]) /\ s[0] = x
        BY <1>1, <2>1 DEF Chain
      <4>2. rest[0] = F[x]
        BY <1>1, <3>1, <4>1 DEF Climb
      <4>3. rest \in [0 .. N - 1 -> Elements]
        BY <1>1, <2>1 DEF Chain
      <4>4. ASSUME NEW k \in 0 .. (N - 1) - 1 PROVE rest[k + 1] = Climb(F, rest[k])
        <5>1. k + 1 \in 0 .. N - 1 /\ k \in 0 .. N - 1
          BY <1>1
        <5>2. s[(k + 1) + 1] = Climb(F, s[k + 1])
          BY <2>1, <5>1 DEF Chain
        <5> QED BY <5>1, <5>2
      <4> HIDE DEF rest
      <4> QED BY <4>2, <4>3, <4>4 DEF Chain
    <3>4. s2[N - 1] = rest[N - 1]
      <4>1. N - 1 \in Nat /\ N - 1 <= N
        BY <1>1
      <4> HIDE DEF rest
      <4> QED BY <1>1, <3>2, <3>3, <4>1, ChainsAgree
    <3>5. rest[N - 1] = s[N]
      BY <1>1
    <3>6. F[s[N]] < 0
      BY <2>1, ChainEnds
    <3>7. s2[(N - 1) + 1] = Climb(F, s2[N - 1])
      <4>1. N - 1 \in 0 .. N - 1
        BY <1>1
      <4> QED BY <3>2, <4>1 DEF Chain
    <3>8. s2[N] = s[N]
      BY <1>1, <3>4, <3>5, <3>6, <3>7 DEF Climb
    <3> QED BY <2>1, <2>2, <3>1, <3>2, <3>8
  <2> QED BY <2>2, <2>3, <2>4
<1>3. \A x \in Elements : F[x] >= 0 => F[x] \in Elements
  BY DEF Forest
<1> QED BY <1>2, <1>3 DEF Rooted, Roots

\* Whatever gives every element its root is what Top gives.
LEMMA TopIs ==
  ASSUME NEW F, NEW r, Forest(F, r), NEW T, Rooted(F, T)
  PROVE  Roots(F) = T
  BY TopRooted, OneRoot

-----------------------------------------------------------------------------
(* The sets a forest stands for.                                           *)

ClassOf(T, x) == {y \in Elements : T[y] = T[x]}
Classes(T) == {ClassOf(T, x) : x \in Elements}

\* The partition of a forest: two elements are together when their roots are
\* the same.
LEMMA PartitionIs ==
  ASSUME NEW F
  PROVE  Partition(F) = Classes(Roots(F))
  BY DEF Partition, Classes, ClassOf, Roots

\* An element is in one of them.
LEMMA SetOfIs ==
  ASSUME NEW T, NEW x \in Elements, sets = Classes(T)
  PROVE  Abstract!SetOf(x) = ClassOf(T, x)
<1>1. ClassOf(T, x) \in sets /\ x \in ClassOf(T, x)
  BY DEF Classes, ClassOf
<1>2. ASSUME NEW S \in sets, x \in S PROVE S = ClassOf(T, x)
  <2>1. PICK z \in Elements : S = ClassOf(T, z)
    BY DEF Classes
  <2>2. T[x] = T[z]
    BY <1>2, <2>1 DEF ClassOf
  <2> QED BY <2>1, <2>2 DEF ClassOf
<1> QED BY <1>1, <1>2 DEF Abstract!SetOf

\* The sets of two roots become one when every element under the one root
\* comes under the other.
Joined(T, lost, kept) == [x \in Elements |-> IF T[x] = lost THEN kept ELSE T[x]]

\* When one root takes over the elements of another, two classes become one.
LEMMA ClassesJoin ==
  ASSUME NEW T \in [Elements -> Elements], NEW a \in Elements, NEW b \in Elements,
         NEW lost, NEW kept, lost # kept, (T[a] = lost /\ T[b] = kept) \/ (T[a] = kept /\ T[b] = lost)
  PROVE  Classes(Joined(T, lost, kept)) = (Classes(T) \ {ClassOf(T, a), ClassOf(T, b)}) \cup {ClassOf(T, a) \cup ClassOf(T, b)}
<1> DEFINE T2 == Joined(T, lost, kept)
<1>1. \A x \in Elements : T2[x] = IF T[x] = lost THEN kept ELSE T[x]
  BY DEF Joined
<1> HIDE DEF T2
<1>2. ASSUME NEW x \in Elements, T[x] = lost \/ T[x] = kept
      PROVE  ClassOf(T2, x) = ClassOf(T, a) \cup ClassOf(T, b)
  BY <1>1, <1>2 DEF ClassOf
<1>3. ASSUME NEW x \in Elements, ~(T[x] = lost \/ T[x] = kept)
      PROVE  ClassOf(T2, x) = ClassOf(T, x) /\ ClassOf(T, x) # ClassOf(T, a) /\ ClassOf(T, x) # ClassOf(T, b)
  <2>1. ClassOf(T2, x) = ClassOf(T, x)
    BY <1>1, <1>3 DEF ClassOf
  <2>2. x \in ClassOf(T, x) /\ x \notin ClassOf(T, a) /\ x \notin ClassOf(T, b)
    BY <1>3 DEF ClassOf
  <2> QED BY <2>1, <2>2
<1>4. ASSUME NEW x \in Elements, T[x] = lost \/ T[x] = kept
      PROVE  ClassOf(T, x) = ClassOf(T, a) \/ ClassOf(T, x) = ClassOf(T, b)
  BY <1>4 DEF ClassOf
<1>5. ASSUME NEW S \in Classes(T2)
      PROVE  S \in (Classes(T) \ {ClassOf(T, a), ClassOf(T, b)}) \cup {ClassOf(T, a) \cup ClassOf(T, b)}
  <2>1. PICK x \in Elements : S = ClassOf(T2, x)
    BY DEF Classes
  <2> QED BY <1>2, <1>3, <2>1 DEF Classes
<1>6. ASSUME NEW S \in Classes(T), S # ClassOf(T, a), S # ClassOf(T, b)
      PROVE  S \in Classes(T2)
  <2>1. PICK x \in Elements : S = ClassOf(T, x)
    BY DEF Classes
  <2> QED BY <1>3, <1>4, <1>6, <2>1 DEF Classes
<1>7. ClassOf(T, a) \cup ClassOf(T, b) \in Classes(T2)
  BY <1>2 DEF Classes
<1>8. Classes(T2) = (Classes(T) \ {ClassOf(T, a), ClassOf(T, b)}) \cup {ClassOf(T, a) \cup ClassOf(T, b)}
  <2> DEFINE all == Classes(T)
             now == Classes(T2)
             A == ClassOf(T, a)
             B == ClassOf(T, b)
  <2>1. \A S \in now : S \in (all \ {A, B}) \cup {A \cup B}
    BY <1>5
  <2>2. \A S \in all : S # A /\ S # B => S \in now
    BY <1>6
  <2>3. A \cup B \in now
    BY <1>7
  <2> HIDE DEF all, now, A, B
  <2>4. now = (all \ {A, B}) \cup {A \cup B}
    BY <2>1, <2>2, <2>3
  <2> QED BY <2>4 DEF all, now, A, B
<1> QED BY <1>8 DEF T2

-----------------------------------------------------------------------------
(* What a frame knows of the sets: T gives every element its root.         *)

\* The argument find searches for.
Aim(f) == IF f.op = "merge_v" THEN f.v ELSE f.u

FrameKnows(T, f) ==
  /\ f.pc \in {"parent_u", "parent_v"} => f.op = "merge_u"
  /\ f.pc \in {"rank_u", "rank_v", "link", "raise", "joined"} => f.op = "merge_v"
  /\ f.pc = "parent_v" /\ f.p >= 0 => f.p \in Elements /\ T[f.p] = T[f.u]
  /\ f.pc \in Searching => T[f.x] = T[Aim(f)]
  /\ f.pc \in Searching /\ f.op = "merge_v" => T[f.ru] = T[f.u]
  /\ f.pc \in {"load_grand", "reload_grand", "halve"} => f.p \in Elements /\ T[f.p] = T[f.x]
  /\ f.pc \in {"rank_u", "rank_v", "link"} =>
       \/ T[f.ru] = T[f.u] /\ T[f.rv] = T[f.v]
       \/ T[f.ru] = T[f.v] /\ T[f.rv] = T[f.u]

\* So whatever an element was written to point to is in its set.
Known(w, T) ==
  \A i \in Elements : \A k \in 1 .. Len(w[i]) : w[i][k] >= 0 => T[w[i][k]] = T[i]

Root == Roots(parent)

KInv ==
  /\ sets = Classes(Root)
  /\ Known(written, Root)
  /\ \A t \in Threads : FrameKnows(Root, frame[t])

\* Sets only grow, and what is known of them stays true.
LEMMA KnownStays ==
  ASSUME NEW T, NEW T2, \A a, b \in Elements : T[a] = T[b] => T2[a] = T2[b],
         NEW f, FrameTyped(f), FrameKnows(T, f)
  PROVE  FrameKnows(T2, f)
<1>1. f.u \in Elements /\ f.v \in Elements /\ f.x \in Elements /\ f.ru \in Elements /\ f.rv \in Elements /\ Aim(f) \in Elements
  BY DEF FrameTyped, Aim
<1> QED BY <1>1 DEF FrameKnows

\* The forest of the parents, as they are now.
LEMMA ForestNow == IInv => Forest(parent, rank)
<1> SUFFICES ASSUME IInv PROVE Forest(parent, rank)
  OBVIOUS
<1>1. written \in [Elements -> Seq(Int)] /\ rank \in [Elements -> Nat]
  BY DEF IInv, MemoryOK
<1>2. ASSUME NEW i \in Elements
      PROVE  parent[i] \in Int /\ Loadable(written, rank, i, parent[i])
  <2>1. Len(written[i]) \in 1 .. Len(written[i]) /\ parent[i] = written[i][Len(written[i])]
    BY <1>1 DEF IInv, MemoryOK, parent, Last
  <2> QED BY <2>1 DEF IInv, MemoryOK, Loadable
<1>3. \A i \in Elements : parent[i] >= 0 => parent[i] \in Elements /\ Higher(rank, i, parent[i])
  BY <1>2, UnionFindAssumption DEF Loadable, Elements
<1>4. parent \in [Elements -> Int]
  <2>1. parent = [i \in Elements |-> Last(written[i])]
    BY DEF parent
  <2> QED BY <1>2, <2>1
<1> QED BY <1>1, <1>3, <1>4 DEF Forest

\* The forest after a step is one, as IInv holds there.
LEMMA ForestNext == IInv' => Forest(parent', rank')
<1>1. IInv' => Forest(parent, rank)'
  BY ForestNow, PTL
<1> QED BY <1>1

\* Every element has a root, which is its own root and higher than the
\* element.
LEMMA RootNow ==
  ASSUME IInv
  PROVE  /\ Rooted(parent, Root) /\ Root \in [Elements -> Elements]
         /\ \A e \in Elements : Root[Root[e]] = Root[e] /\ parent[Root[e]] < 0
                                /\ (Root[e] = e \/ Higher(rank, e, Root[e]))
<1>1. Rooted(parent, Root)
  BY ForestNow, TopRooted DEF Root
<1>2. \A e \in Elements : Root[Root[e]] = Root[e] /\ parent[Root[e]] < 0
                          /\ (Root[e] = e \/ Higher(rank, e, Root[e]))
  BY <1>1, ForestNow, RootAbove
<1> QED BY <1>1, <1>2 DEF Rooted

-----------------------------------------------------------------------------
(* Each step keeps what is known and is a step of the disjoint sets.       *)

Implements == [Abstract!Next]_(Abstract!dvars)
JoinedBy == {"raise", "joined"}

\* What a find asks of the disjoint sets.
LEMMA AskedFind ==
  ASSUME NEW f, f.pc # "idle", f.op = "find"
  PROVE  AskedOf(f) = Abstract!Finding(f.u)
  BY DEF AskedOf, Abstract!Finding

\* What a merge asks, before and after it has joined two sets.
LEMMA AskedMerge ==
  ASSUME NEW f, f.pc # "idle", f.op # "find"
  PROVE  /\ f.pc \in JoinedBy => AskedOf(f) = Abstract!Merging(f.u, f.v, TRUE)
         /\ f.pc \notin JoinedBy => AskedOf(f) = Abstract!Merging(f.u, f.v, FALSE)
<1>1. AskedOf(f) = Abstract!Merging(f.u, f.v, f.pc \in JoinedBy)
  BY DEF AskedOf, Abstract!Merging, JoinedBy
<1>2. f.pc \in JoinedBy => (f.pc \in JoinedBy) = TRUE
  OBVIOUS
<1>3. f.pc \notin JoinedBy => (f.pc \in JoinedBy) = FALSE
  OBVIOUS
<1> QED BY <1>1, <1>2, <1>3, Zenon

\* What is asked changes with the frame of the thread that takes the step.
LEMMA AskedMoves ==
  ASSUME NEW t \in Threads, Advances(t)
  PROVE  Asked' = [Asked EXCEPT ![t] = AskedOf(frame'[t])]
<1>1. Asked' = [s \in Threads |-> AskedOf(frame'[s])]
  BY DEF Asked
<1>2. Asked = [s \in Threads |-> AskedOf(frame[s])]
  BY DEF Asked
<1>3. \A o \in Threads \ {t} : frame'[o] = frame[o]
  BY DEF Advances
<1> HIDE DEF Asked
<1> QED BY <1>1, <1>2, <1>3

\* A step that writes nothing leaves the sets alone.
LEMMA QuietRoot ==
  ASSUME KInv, Observe, written' = written
  PROVE  parent' = parent /\ Root' = Root /\ sets' = sets
<1>1. parent' = parent
  BY DEF parent
<1>2. Root' = Root
  BY <1>1 DEF Root, Roots
<1>3. sets' = Partition(parent) /\ sets = Partition(parent)
  BY <1>1, PartitionIs DEF Observe, KInv, Root
<1> QED BY <1>1, <1>2, <1>3

\* A step that writes nothing keeps what the other threads know of roots.
LEMMA QuietKnows ==
  ASSUME KInv, Observe, NEW t \in Threads, written' = written, Advances(t), FrameKnows(Root, frame'[t])
  PROVE  KInv'
<1>1. Root' = Root /\ sets' = sets
  BY QuietRoot
<1>2. \A o \in Threads : FrameKnows(Root, frame'[o])
  BY DEF KInv, Advances
<1>3. (\A o \in Threads : FrameKnows(Root, frame[o]))'
  BY <1>1, <1>2
<1>4. sets' = Classes(Root') /\ Known(written', Root')
  BY <1>1 DEF KInv
<1> QED BY <1>3, <1>4 DEF KInv

\* A step within a call that joins no sets changes nothing of what is asked.
LEMMA AskedStill ==
  ASSUME NEW t \in Threads, Advances(t), frame[t].pc # "idle", frame'[t].pc # "idle",
         frame'[t].pc \in JoinedBy <=> frame[t].pc \in JoinedBy,
         frame'[t].u = frame[t].u, frame'[t].v = frame[t].v,
         (frame'[t].op = "find") <=> (frame[t].op = "find")
  PROVE  Asked' = Asked
<1>1. AskedOf(frame'[t]) = AskedOf(frame[t])
  <2>1. CASE frame[t].op = "find"
    <3>1. AskedOf(frame[t]) = Abstract!Finding(frame[t].u) /\ AskedOf(frame'[t]) = Abstract!Finding(frame'[t].u)
      BY <2>1, AskedFind
    <3> QED BY <3>1
  <2>2. CASE frame[t].op # "find" /\ frame[t].pc \in JoinedBy
    <3>1. /\ AskedOf(frame[t]) = Abstract!Merging(frame[t].u, frame[t].v, TRUE)
          /\ AskedOf(frame'[t]) = Abstract!Merging(frame'[t].u, frame'[t].v, TRUE)
      BY <2>2, AskedMerge
    <3> QED BY <3>1
  <2>3. CASE frame[t].op # "find" /\ frame[t].pc \notin JoinedBy
    <3>1. /\ AskedOf(frame[t]) = Abstract!Merging(frame[t].u, frame[t].v, FALSE)
          /\ AskedOf(frame'[t]) = Abstract!Merging(frame'[t].u, frame'[t].v, FALSE)
      BY <2>3, AskedMerge
    <3> QED BY <3>1
  <2> QED BY <2>1, <2>2, <2>3
<1>2. Asked[t] = AskedOf(frame[t])
  BY DEF Asked
<1>3. Asked' = [Asked EXCEPT ![t] = Asked[t]]
  BY <1>1, <1>2, AskedMoves
<1>4. Asked = [Asked EXCEPT ![t] = Asked[t]]
  BY DEF Asked
<1> QED BY <1>3, <1>4

\* Such a step that writes nothing either.
LEMMA QuietMove ==
  ASSUME KInv, Observe, NEW t \in Threads, written' = written, reply' = reply, Advances(t),
         frame[t].pc # "idle", frame'[t].pc # "idle",
         frame'[t].pc \in JoinedBy <=> frame[t].pc \in JoinedBy,
         frame'[t].u = frame[t].u, frame'[t].v = frame[t].v,
         (frame'[t].op = "find") <=> (frame[t].op = "find"),
         FrameKnows(Root, frame'[t])
  PROVE  KInv' /\ Implements
<1>1. UNCHANGED Abstract!dvars
  BY AskedStill, QuietRoot DEF Abstract!dvars
<1> QED BY <1>1, QuietKnows DEF Implements

\* A step that answers.
LEMMA AnswerStep ==
  ASSUME IInv, KInv, Observe, NEW t \in Threads, written' = written, NEW r, Return(t, r)
  PROVE  KInv' /\ Abstract!Answer(t, r) /\ Asked[t] = AskedOf(frame[t])
<1>1. frame'[t] = Blank /\ Advances(t) /\ reply' = [reply EXCEPT ![t] = r]
  BY DEF Return, Advances, IInv
<1>2. FrameKnows(Root, Blank) /\ AskedOf(Blank) = None
  BY DEF FrameKnows, Blank, Searching, AskedOf
<1>3. KInv'
  BY <1>1, <1>2, QuietKnows
<1>4. Asked' = [Asked EXCEPT ![t] = None]
  BY <1>1, <1>2, AskedMoves
<1>5. Abstract!Answer(t, r)
  BY <1>1, <1>4, QuietRoot DEF Abstract!Answer
<1>6. Asked[t] = AskedOf(frame[t])
  BY DEF Asked
<1> QED BY <1>3, <1>5, <1>6

\* The find returns the root of its element: this is where it takes effect.
LEMMA FoundStep ==
  ASSUME IInv, KInv, Observe, NEW t \in Threads, written' = written,
         NEW r \in Elements, Return(t, <<"found", r>>),
         frame[t].pc # "idle", frame[t].op = "find", Root[r] = Root[frame[t].u]
  PROVE  KInv' /\ Implements
<1>1. KInv' /\ Abstract!Answer(t, <<"found", r>>) /\ Asked[t] = Abstract!Finding(frame[t].u)
  BY AnswerStep, AskedFind
<1>2. frame[t].u \in Elements
  BY FrameOf
<1>3. r \in Abstract!SetOf(frame[t].u)
  BY <1>2, SetOfIs DEF KInv, ClassOf
<1>4. Abstract!Found(t, frame[t].u, r)
  BY <1>1, <1>3 DEF Abstract!Found
<1> QED BY <1>1, <1>2, <1>4 DEF Implements, Abstract!Next

\* A merge returns TRUE after its link, or FALSE when both elements have one
\* root.
LEMMA MergedStep ==
  ASSUME IInv, KInv, Observe, NEW t \in Threads, written' = written,
         frame[t].pc # "idle", frame[t].op # "find",
         \/ frame[t].pc \in JoinedBy /\ Return(t, <<"merged", TRUE>>)
         \/ /\ frame[t].pc \notin JoinedBy /\ Root[frame[t].u] = Root[frame[t].v]
            /\ Return(t, <<"merged", FALSE>>)
  PROVE  KInv' /\ Implements
<1> DEFINE u == frame[t].u
           v == frame[t].v
<1>1. u \in Elements /\ v \in Elements
  BY FrameOf
<1>2. CASE frame[t].pc \in JoinedBy /\ Return(t, <<"merged", TRUE>>)
  <2>1. KInv' /\ Abstract!Answer(t, <<"merged", TRUE>>) /\ Asked[t] = Abstract!Merging(u, v, TRUE)
    BY <1>2, AnswerStep, AskedMerge
  <2>2. Abstract!Merged(t, u, v)
    BY <2>1 DEF Abstract!Merged
  <2> QED BY <1>1, <2>1, <2>2 DEF Implements, Abstract!Next
<1>3. CASE frame[t].pc \notin JoinedBy /\ Root[u] = Root[v] /\ Return(t, <<"merged", FALSE>>)
  <2>1. KInv' /\ Abstract!Answer(t, <<"merged", FALSE>>) /\ Asked[t] = Abstract!Merging(u, v, FALSE)
    BY <1>3, AnswerStep, AskedMerge
  <2>2. Abstract!SetOf(u) = Abstract!SetOf(v)
    <3>1. Abstract!SetOf(u) = ClassOf(Root, u) /\ Abstract!SetOf(v) = ClassOf(Root, v)
      BY <1>1, SetOfIs DEF KInv
    <3>2. ClassOf(Root, u) = ClassOf(Root, v)
      BY <1>3 DEF ClassOf
    <3> QED BY <3>1, <3>2
  <2>3. Abstract!Merged(t, u, v)
    BY <2>1, <2>2 DEF Abstract!Merged
  <2> QED BY <1>1, <2>1, <2>3 DEF Implements, Abstract!Next
<1> QED BY <1>2, <1>3

\* A call that begins asks, and changes no set.
LEMMA AskStep ==
  ASSUME IInv, KInv, Observe, NEW t \in Threads, written' = written, reply' = reply, frame[t].pc = "idle",
         NEW g, frame' = [frame EXCEPT ![t] = g], g.pc \in {"load", "parent_u"},
         g.u \in Elements, g.v \in Elements, FrameKnows(Root, g)
  PROVE  KInv' /\ Implements
<1>1. frame'[t] = g /\ Advances(t) /\ g.pc # "idle" /\ g.pc \notin JoinedBy
  BY DEF IInv, Advances, JoinedBy
<1>2. KInv'
  BY <1>1, QuietKnows
<1>3. Asked[t] = None /\ Asked' = [Asked EXCEPT ![t] = AskedOf(g)]
  <2>1. Asked[t] = None
    BY DEF Asked, AskedOf
  <2>2. Asked' = [Asked EXCEPT ![t] = AskedOf(g)]
    BY <1>1, AskedMoves
  <2> QED BY <2>1, <2>2
<1>4. Abstract!Ask(t, AskedOf(g))
  BY <1>3, QuietRoot DEF Abstract!Ask
<1>5. AskedOf(g) = Abstract!Finding(g.u) \/ AskedOf(g) = Abstract!Merging(g.u, g.v, FALSE)
  BY <1>1, AskedFind, AskedMerge
<1> QED BY <1>2, <1>4, <1>5 DEF Implements, Abstract!Next

\* The begin of a find is the begin of the abstract one.
LEMMA CallFindImplements ==
  ASSUME IInv, KInv, Observe, NEW t \in Threads, NEW u \in Elements, CallFind(t, u)
  PROVE  KInv' /\ Implements
<1> DEFINE g == [Blank EXCEPT !.op = "find", !.pc = "load", !.u = u, !.x = u]
<1>1. g.op = "find" /\ g.pc = "load" /\ g.u = u /\ g.x = u /\ g.v = 0
  BY DEF Blank
<1>2. frame' = [frame EXCEPT ![t] = g] /\ frame[t].pc = "idle" /\ written' = written /\ reply' = reply
  BY DEF CallFind, At
<1> HIDE DEF g
<1>3. FrameKnows(Root, g)
  BY <1>1 DEF FrameKnows, Searching, Aim
<1> QED BY <1>1, <1>2, <1>3, ZeroIn, AskStep

\* The begin of a merge is the begin of the abstract one.
LEMMA CallMergeImplements ==
  ASSUME IInv, KInv, Observe, NEW t \in Threads, NEW u \in Elements, NEW v \in Elements, CallMerge(t, u, v)
  PROVE  KInv' /\ Implements
<1> DEFINE g == [Blank EXCEPT !.op = "merge_u", !.pc = "parent_u", !.u = u, !.v = v]
<1>1. g.op = "merge_u" /\ g.pc = "parent_u" /\ g.u = u /\ g.v = v
  BY DEF Blank
<1>2. frame' = [frame EXCEPT ![t] = g] /\ frame[t].pc = "idle" /\ written' = written /\ reply' = reply
  BY DEF CallMerge, At
<1> HIDE DEF g
<1>3. FrameKnows(Root, g)
  BY <1>1 DEF FrameKnows, Searching, Aim
<1> QED BY <1>1, <1>2, <1>3, AskStep

\* What both invariants say of the frame of one thread.
LEMMA FrameHas ==
  ASSUME IInv, KInv, NEW t \in Threads
  PROVE  /\ FrameTyped(frame[t]) /\ FrameKnows(Root, frame[t]) /\ Aim(frame[t]) \in Elements
         /\ frame[t].pc # "idle" => frame[t].op \in {"find", "merge_u", "merge_v"}
<1>1. FrameTyped(frame[t]) /\ FrameOK(written, rank, frame[t])
  BY FrameOf
<1> QED BY <1>1 DEF KInv, FrameOK, FrameTyped, Aim

\* A value that was loaded is an element of the set of the one it was loaded from.
LEMMA LoadedKnown ==
  ASSUME IInv, KInv, NEW t \in Threads, NEW i \in Elements, NEW k \in Readable(t, i)
  PROVE  /\ written[i][k] \in Int
         /\ written[i][k] >= 0 => written[i][k] \in Elements /\ Root[written[i][k]] = Root[i]
<1>1. k \in 1 .. Len(written[i])
  BY DEF Readable, IInv, MemoryOK, ViewOK
<1>2. Loadable(written, rank, i, written[i][k])
  BY <1>1 DEF IInv, MemoryOK
<1> QED BY <1>1, <1>2, UnionFindAssumption DEF Loadable, KInv, Known, Elements

\* A search that ends at a root of what it looks for.
LEMMA FindReturnsImplements ==
  ASSUME IInv, KInv, Observe, NEW t \in Threads, written' = written, NEW r \in Elements, FindReturns(t, r),
         frame[t].pc \in Searching, Root[r] = Root[Aim(frame[t])]
  PROVE  KInv' /\ Implements
<1> DEFINE f == frame[t]
<1>1. /\ FrameTyped(f) /\ FrameKnows(Root, f) /\ f.op \in {"find", "merge_u", "merge_v"} /\ f.pc # "idle"
      /\ f.pc \notin JoinedBy /\ DOMAIN frame = Threads
  BY FrameHas, FrameOf DEF Searching, JoinedBy
<1>2. CASE f.op = "find"
  <2>1. Return(t, <<"found", r>>) /\ Root[r] = Root[f.u]
    BY <1>2 DEF FindReturns, Aim
  <2> QED BY <1>1, <1>2, <2>1, FoundStep
<1>3. CASE f.op = "merge_u"
  <2> DEFINE g == [f EXCEPT !.op = "merge_v", !.pc = "load", !.x = f.v, !.p = 0, !.ru = r]
  <2>1. frame' = [frame EXCEPT ![t] = g] /\ reply' = reply /\ Root[r] = Root[f.u]
    BY <1>3 DEF FindReturns, Aim
  <2>2. g.op = "merge_v" /\ g.pc = "load" /\ g.x = f.v /\ g.ru = r /\ g.u = f.u /\ g.v = f.v
    BY <1>1 DEF FrameTyped, Fields
  <2> HIDE DEF g
  <2>3. frame'[t] = g /\ Advances(t)
    BY <1>1, <2>1 DEF Advances
  <2>4. FrameKnows(Root, g)
    BY <2>1, <2>2 DEF FrameKnows, Searching, Aim
  <2> QED BY <1>1, <1>3, <2>1, <2>2, <2>3, <2>4, QuietMove DEF JoinedBy
<1>4. CASE f.op = "merge_v" /\ r = f.ru
  <2>1. Return(t, <<"merged", FALSE>>) /\ Root[f.u] = Root[f.v]
    BY <1>1, <1>4 DEF FindReturns, Aim, FrameKnows
  <2> QED BY <1>1, <1>4, <2>1, MergedStep
<1>5. CASE f.op = "merge_v" /\ r # f.ru
  <2> DEFINE g == [f EXCEPT !.pc = "rank_u", !.x = 0, !.p = 0, !.rv = r]
  <2>1. frame' = [frame EXCEPT ![t] = g] /\ reply' = reply /\ Root[r] = Root[f.v] /\ Root[f.ru] = Root[f.u]
    BY <1>1, <1>5 DEF FindReturns, Aim, FrameKnows
  <2>2. g.op = "merge_v" /\ g.pc = "rank_u" /\ g.ru = f.ru /\ g.rv = r /\ g.u = f.u /\ g.v = f.v
    BY <1>1, <1>5 DEF FrameTyped, Fields
  <2> HIDE DEF g
  <2>3. frame'[t] = g /\ Advances(t)
    BY <1>1, <2>1 DEF Advances
  <2>4. FrameKnows(Root, g)
    BY <2>1, <2>2 DEF FrameKnows, Searching, Aim
  <2> QED BY <1>1, <1>5, <2>1, <2>2, <2>3, <2>4, QuietMove DEF JoinedBy
<1> QED BY <1>1, <1>2, <1>3, <1>4, <1>5

\* A thread that goes on searching.
LEMMA SearchesOn ==
  ASSUME IInv, KInv, Observe, NEW t \in Threads, written' = written, reply' = reply,
         frame[t].pc \in Searching, NEW p, p \in Elements, Root[p] = Root[frame[t].x],
         NEW pc, \/ pc \in {"load_grand", "reload_grand", "halve"}
                    /\ frame' = [frame EXCEPT ![t] = [frame[t] EXCEPT !.pc = pc, !.p = p]]
                 \/ pc = "reload" /\ frame' = [frame EXCEPT ![t] = [frame[t] EXCEPT !.pc = pc]]
                 \/ pc = "reload_grand" /\ frame' = [frame EXCEPT ![t] = [frame[t] EXCEPT !.pc = pc]]
                    /\ p = frame[t].p
  PROVE  KInv' /\ Implements
<1> DEFINE f == frame[t]
           g == frame'[t]
<1>1. FrameTyped(f) /\ FrameKnows(Root, f) /\ DOMAIN frame = Threads
  BY FrameHas, FrameOf
<1>2. /\ Advances(t) /\ g.pc = pc /\ g.op = f.op /\ g.u = f.u /\ g.v = f.v /\ g.x = f.x /\ g.ru = f.ru
      /\ pc \in {"load_grand", "reload_grand", "halve"} => g.p = p
  BY <1>1 DEF Advances, FrameTyped, Fields
<1>3. g.pc \in Searching /\ f.pc # "idle" /\ g.pc # "idle" /\ f.pc \notin JoinedBy /\ g.pc \notin JoinedBy
  BY <1>2 DEF Searching, JoinedBy
<1>4. Aim(g) = Aim(f)
  BY <1>2 DEF Aim
<1> HIDE DEF g
<1>5. FrameKnows(Root, g)
  BY <1>1, <1>2, <1>3, <1>4 DEF FrameKnows, Searching
<1> QED BY <1>2, <1>3, <1>5, QuietMove DEF g

\* Reading a parent climbs within a set, or ends the search at its root.
LEMMA LoadParentImplements ==
  ASSUME IInv, KInv, Observe, NEW t \in Threads, NEW k \in Readable(t, frame[t].x),
         LoadParent(t, k) \/ ReloadParent(t, k)
  PROVE  KInv' /\ Implements
<1> DEFINE f == frame[t]
           p == written[f.x][k]
<1>1. /\ FrameTyped(f) /\ FrameKnows(Root, f) /\ f.x \in Elements /\ f.pc \in {"load", "reload"}
      /\ f.pc \in Searching /\ written' = written
  BY FrameHas DEF FrameTyped, LoadParent, ReloadParent, At, See, Searching
<1>2. p \in Int /\ (p >= 0 => p \in Elements /\ Root[p] = Root[f.x])
  BY <1>1, LoadedKnown
<1>3. CASE p >= 0
  <2>1. reply' = reply /\ frame' = [frame EXCEPT ![t] = [f EXCEPT !.pc = "load_grand", !.p = p]]
    BY <1>2, <1>3 DEF LoadParent, ReloadParent, See
  <2> QED BY <1>1, <1>2, <1>3, <2>1, SearchesOn
<1>4. CASE p < 0 /\ LoadParent(t, k)
  <2>1. reply' = reply /\ frame' = [frame EXCEPT ![t] = [f EXCEPT !.pc = "reload"]]
    BY <1>4 DEF LoadParent, See
  <2> QED BY <1>1, <2>1, SearchesOn
<1>5. CASE p < 0 /\ ReloadParent(t, k)
  <2>1. FindReturns(t, f.x) /\ Root[f.x] = Root[Aim(f)]
    BY <1>1, <1>5 DEF ReloadParent, FrameKnows
  <2> QED BY <1>1, <2>1, FindReturnsImplements
<1> QED BY <1>2, <1>3, <1>4, <1>5

\* Reading a grandparent climbs within a set, or ends the search at its root.
LEMMA LoadGrandImplements ==
  ASSUME IInv, KInv, Observe, NEW t \in Threads, NEW k \in Readable(t, frame[t].p),
         LoadGrand(t, k) \/ ReloadGrand(t, k)
  PROVE  KInv' /\ Implements
<1> DEFINE f == frame[t]
           gp == written[f.p][k]
<1>1. /\ FrameTyped(f) /\ FrameKnows(Root, f) /\ f.x \in Elements /\ f.pc \in {"load_grand", "reload_grand"}
      /\ f.pc \in Searching /\ written' = written
  BY FrameHas DEF FrameTyped, LoadGrand, ReloadGrand, At, See, Searching
<1>2. f.p \in Elements /\ Root[f.p] = Root[f.x] /\ Root[f.x] = Root[Aim(f)]
  BY <1>1 DEF FrameKnows
<1>3. gp \in Int /\ (gp >= 0 => gp \in Elements /\ Root[gp] = Root[f.p])
  BY <1>2, LoadedKnown
<1>4. CASE gp >= 0
  <2>1. reply' = reply /\ frame' = [frame EXCEPT ![t] = [f EXCEPT !.pc = "halve", !.p = gp]]
    BY <1>3, <1>4 DEF LoadGrand, ReloadGrand, See
  <2> QED BY <1>1, <1>2, <1>3, <1>4, <2>1, SearchesOn
<1>5. CASE gp < 0 /\ LoadGrand(t, k)
  <2>1. reply' = reply /\ frame' = [frame EXCEPT ![t] = [f EXCEPT !.pc = "reload_grand"]]
    BY <1>5 DEF LoadGrand, See
  <2> QED BY <1>1, <1>2, <2>1, SearchesOn
<1>6. CASE gp < 0 /\ ReloadGrand(t, k)
  <2>1. FindReturns(t, f.p) /\ Root[f.p] = Root[Aim(f)]
    BY <1>2, <1>6 DEF ReloadGrand
  <2> QED BY <1>1, <1>2, <2>1, FindReturnsImplements
<1> QED BY <1>3, <1>4, <1>5, <1>6

\* The search begins anew.
LEMMA SearchesAnew ==
  ASSUME IInv, KInv, Observe, NEW t \in Threads, written' = written, reply' = reply,
         frame[t].pc \in {"parent_v", "rank_v", "link"}, frame' = [frame EXCEPT ![t] = Search(t, frame[t])]
  PROVE  KInv' /\ Implements
<1> DEFINE f == frame[t]
           g == frame'[t]
<1>1. FrameTyped(f) /\ FrameKnows(Root, f) /\ DOMAIN frame = Threads /\ f.pc # "idle" /\ f.pc \notin JoinedBy
  BY FrameHas, FrameOf DEF JoinedBy
<1>2. f.op # "find"
  BY <1>1 DEF FrameKnows
<1>3. Advances(t) /\ g.pc = "load" /\ g.op = "merge_u" /\ g.u = f.u /\ g.v = f.v /\ g.x = f.u
  BY <1>1 DEF Advances, FrameTyped, Fields, Search
<1> HIDE DEF g
<1>4. FrameKnows(Root, g)
  BY <1>3 DEF FrameKnows, Searching, Aim
<1> QED BY <1>1, <1>2, <1>3, <1>4, QuietMove DEF g, JoinedBy

\* Reading the first element's parent: a stale one is still of its set.
LEMMA LoadParentUImplements ==
  ASSUME IInv, KInv, Observe, NEW t \in Threads, NEW k \in Readable(t, frame[t].u), LoadParentU(t, k)
  PROVE  KInv' /\ Implements
<1> DEFINE f == frame[t]
           g == frame'[t]
           p == written[f.u][k]
<1>1. /\ FrameTyped(f) /\ FrameKnows(Root, f) /\ DOMAIN frame = Threads /\ f.pc = "parent_u" /\ f.u \in Elements
      /\ written' = written /\ reply' = reply
  BY FrameHas, FrameOf DEF LoadParentU, At, See, FrameTyped
<1>2. p \in Int /\ (p >= 0 => p \in Elements /\ Root[p] = Root[f.u])
  BY <1>1, LoadedKnown
<1>3. Advances(t) /\ g.pc = "parent_v" /\ g.op = f.op /\ g.u = f.u /\ g.v = f.v /\ g.p = p /\ f.op = "merge_u"
  BY <1>1 DEF Advances, FrameTyped, Fields, LoadParentU, FrameKnows
<1> HIDE DEF g, p
<1>4. FrameKnows(Root, g)
  BY <1>2, <1>3 DEF FrameKnows, Searching
<1> QED BY <1>1, <1>3, <1>4, QuietMove DEF g, JoinedBy

\* Reading the second element's parent: a stale one is still of its set.
LEMMA LoadParentVImplements ==
  ASSUME IInv, KInv, Observe, NEW t \in Threads, NEW k \in Readable(t, frame[t].v), LoadParentV(t, k)
  PROVE  KInv' /\ Implements
<1> DEFINE f == frame[t]
           p == written[f.v][k]
<1>1. /\ FrameTyped(f) /\ FrameKnows(Root, f) /\ f.pc = "parent_v" /\ f.v \in Elements /\ written' = written
  BY FrameHas DEF LoadParentV, At, FrameTyped
<1>2. p \in Int /\ (p >= 0 => p \in Elements /\ Root[p] = Root[f.v])
  BY <1>1, LoadedKnown
<1>3. CASE SameParent(f.p, p)
  <2>1. Return(t, <<"merged", FALSE>>) /\ Root[f.u] = Root[f.v] /\ f.op # "find"
    BY <1>1, <1>2, <1>3 DEF LoadParentV, SameParent, FrameKnows
  <2> QED BY <1>1, <2>1, MergedStep DEF JoinedBy
<1>4. CASE ~SameParent(f.p, p)
  <2>1. frame' = [frame EXCEPT ![t] = Search(t, f)] /\ reply' = reply
    BY <1>4 DEF LoadParentV
  <2> QED BY <1>1, <2>1, SearchesAnew
<1> QED BY <1>3, <1>4

\* A link that fails changes no set.
LEMMA LinkFailsImplements ==
  ASSUME IInv, KInv, Observe, NEW t \in Threads, LinkFails(t)
  PROVE  KInv' /\ Implements
  BY SearchesAnew DEF LinkFails, At

\* Reading a rank changes no set.
LEMMA LoadRankUImplements ==
  ASSUME IInv, KInv, Observe, NEW t \in Threads, NEW k \in Readable(t, frame[t].ru), LoadRankU(t, k)
  PROVE  KInv' /\ Implements
<1> DEFINE f == frame[t]
           g == frame'[t]
<1>1. /\ FrameTyped(f) /\ FrameKnows(Root, f) /\ DOMAIN frame = Threads /\ f.pc = "rank_u"
      /\ written' = written /\ reply' = reply
  BY FrameHas, FrameOf DEF LoadRankU, At, See
<1>2. Advances(t) /\ g.pc = "rank_v" /\ g.op = f.op /\ g.u = f.u /\ g.v = f.v /\ g.ru = f.ru /\ g.rv = f.rv
  BY <1>1 DEF Advances, FrameTyped, Fields, LoadRankU
<1> HIDE DEF g
<1>3. FrameKnows(Root, g)
  BY <1>1, <1>2 DEF FrameKnows, Searching
<1> QED BY <1>1, <1>2, <1>3, QuietMove DEF g, JoinedBy

\* Reading the other rank changes no set.
LEMMA LoadRankVImplements ==
  ASSUME IInv, KInv, Observe, NEW t \in Threads, NEW k \in Readable(t, frame[t].rv), LoadRankV(t, k)
  PROVE  KInv' /\ Implements
<1> DEFINE f == frame[t]
           g == frame'[t]
           vv == written[f.rv][k]
<1>1. /\ FrameTyped(f) /\ FrameKnows(Root, f) /\ DOMAIN frame = Threads /\ f.pc = "rank_v"
      /\ written' = written /\ reply' = reply
  BY FrameHas, FrameOf DEF LoadRankV, At, See
<1>2. CASE f.vu >= 0 \/ vv >= 0
  <2>1. frame' = [frame EXCEPT ![t] = Search(t, f)]
    BY <1>2 DEF LoadRankV
  <2> QED BY <1>1, <2>1, SearchesAnew
<1>3. CASE ~(f.vu >= 0 \/ vv >= 0)
  <2>1. /\ Advances(t) /\ g.pc = "link" /\ g.op = f.op /\ g.u = f.u /\ g.v = f.v
        /\ (g.ru = f.ru /\ g.rv = f.rv) \/ (g.ru = f.rv /\ g.rv = f.ru)
    <3>1. Advances(t)
      BY <1>1 DEF Advances, LoadRankV
    <3>2. CASE Outranks(f.ru, f.vu, f.rv, vv)
      <4>1. g = [f EXCEPT !.pc = "link", !.ru = f.rv, !.vu = vv, !.rv = f.ru, !.vv = f.vu]
        BY <1>1, <1>3, <3>2 DEF LoadRankV
      <4> QED BY <1>1, <3>1, <4>1 DEF FrameTyped, Fields
    <3>3. CASE ~Outranks(f.ru, f.vu, f.rv, vv)
      <4>1. g = [f EXCEPT !.pc = "link", !.vv = vv]
        BY <1>1, <1>3, <3>3 DEF LoadRankV
      <4> QED BY <1>1, <3>1, <4>1 DEF FrameTyped, Fields
    <3> QED BY <3>2, <3>3
  <2> HIDE DEF g
  <2>2. FrameKnows(Root, g)
    BY <1>1, <2>1 DEF FrameKnows, Searching
  <2> QED BY <1>1, <2>1, <2>2, QuietMove DEF g, JoinedBy
<1> QED BY <1>2, <1>3

\* A raise that fails changes no set.
LEMMA RaiseFailsImplements ==
  ASSUME IInv, KInv, Observe, NEW t \in Threads, NEW k \in Readable(t, frame[t].ru), RaiseFails(t, k)
  PROVE  KInv' /\ Implements
<1> DEFINE f == frame[t]
           g == frame'[t]
<1>1. /\ FrameTyped(f) /\ FrameKnows(Root, f) /\ DOMAIN frame = Threads /\ f.pc = "raise"
      /\ written' = written /\ reply' = reply
  BY FrameHas, FrameOf DEF RaiseFails, At, See
<1>2. Advances(t) /\ g.pc \in JoinedBy /\ g.op = f.op /\ g.u = f.u /\ g.v = f.v
  <2>1. Advances(t) /\ (g = [f EXCEPT !.vu = written[f.ru][k]] \/ g = [f EXCEPT !.pc = "joined"])
    BY <1>1 DEF Advances, RaiseFails
  <2> QED BY <1>1, <2>1 DEF FrameTyped, Fields, JoinedBy
<1> HIDE DEF g
<1>3. FrameKnows(Root, g)
  BY <1>1, <1>2 DEF FrameKnows, Searching, JoinedBy
<1> QED BY <1>1, <1>2, <1>3, QuietMove DEF g, JoinedBy

\* A merge returns what it has decided.
LEMMA MergeReturnsImplements ==
  ASSUME IInv, KInv, Observe, NEW t \in Threads, MergeReturns(t)
  PROVE  KInv' /\ Implements
<1>1. frame[t].op # "find" /\ frame[t].pc = "joined"
  BY FrameHas DEF MergeReturns, At, FrameKnows
<1> QED BY <1>1, MergedStep DEF MergeReturns, JoinedBy

\* What a store does to the forest and to what may be loaded.
LEMMA PutParent ==
  ASSUME IInv, NEW t \in Threads, NEW i \in Elements, NEW value \in Int, Put(t, i, value)
  PROVE  /\ \A j \in Elements : parent'[j] = IF j = i THEN value ELSE parent[j]
         /\ \A j \in Elements : \A k \in 1 .. Len(written'[j]) :
              \/ j = i /\ written'[j][k] = value
              \/ \E m \in 1 .. Len(written[j]) : written'[j][k] = written[j][m]
<1>1. /\ written' = [written EXCEPT ![i] = IF Stale THEN Append(written[i], value) ELSE <<value>>]
      /\ written \in [Elements -> Seq(Int)]
  BY DEF Put, IInv, MemoryOK
<1>2. /\ Last(written'[i]) = value /\ \A j \in Elements \ {i} : written'[j] = written[j]
      /\ \A k \in 1 .. Len(written'[i]) : written'[i][k] = value \/ \E m \in 1 .. Len(written[i]) : written'[i][k] = written[i][m]
  BY <1>1 DEF Last
<1>3. \A j \in Elements : parent'[j] = Last(written'[j]) /\ parent[j] = Last(written[j])
  BY DEF parent
<1> QED BY <1>2, <1>3

\* A store after which T gives the roots, and sets have only grown.
LEMMA WriteKnows ==
  ASSUME IInv, IInv', KInv, Observe, NEW t \in Threads, NEW i \in Elements, NEW value \in Int, Put(t, i, value),
         Advances(t), NEW T, Rooted(parent', T), \A a, b \in Elements : Root[a] = Root[b] => T[a] = T[b],
         FrameKnows(T, frame'[t])
  PROVE  KInv' /\ Root' = T /\ sets' = Classes(T)
<1>1. Root' = T
  <2>1. Root' = Roots(parent')
    BY DEF Root
  <2> QED BY <2>1, ForestNext, TopIs
<1>2. sets' = Classes(T)
  <2>1. sets' = Partition(parent') /\ Root' = Roots(parent')
    BY DEF Observe, Root
  <2> QED BY <1>1, <2>1, PartitionIs
<1>3. Known(written', T)
  <2> SUFFICES ASSUME NEW j \in Elements, NEW k \in 1 .. Len(written'[j]), written'[j][k] >= 0
               PROVE  T[written'[j][k]] = T[j]
    BY DEF Known
  <2>1. CASE j = i /\ written'[j][k] = value
    <3>1. parent'[i] = value
      BY PutParent
    <3> QED BY <2>1, <3>1 DEF Rooted
  <2>2. ASSUME NEW m \in 1 .. Len(written[j]), written'[j][k] = written[j][m]
        PROVE  T[written'[j][k]] = T[j]
    <3>1. Loadable(written, rank, j, written[j][m]) /\ Root[written[j][m]] = Root[j]
      BY <2>2 DEF IInv, MemoryOK, KInv, Known
    <3>2. written[j][m] \in Elements
      BY <2>2, <3>1, UnionFindAssumption DEF Loadable, Elements
    <3> QED BY <2>2, <3>1, <3>2
  <2> QED BY <2>1, <2>2, PutParent
<1>4. \A o \in Threads : FrameKnows(T, frame'[o])
  <2>1. ASSUME NEW o \in Threads \ {t} PROVE FrameKnows(T, frame'[o])
    <3>1. frame'[o] = frame[o] /\ FrameTyped(frame[o]) /\ FrameKnows(Root, frame[o])
      BY FrameHas DEF Advances
    <3>2. FrameKnows(T, frame[o])
      BY <3>1, KnownStays
    <3> QED BY <3>1, <3>2
  <2> QED BY <2>1
<1>5. (\A o \in Threads : FrameKnows(Root, frame[o]))'
  BY <1>1, <1>4
<1>6. sets' = Classes(Root') /\ Known(written', Root')
  BY <1>1, <1>2, <1>3
<1> QED BY <1>1, <1>2, <1>5, <1>6 DEF KInv

\* A store that leaves every element the root it had.
LEMMA SameSets ==
  ASSUME IInv, IInv', KInv, Observe, NEW t \in Threads, NEW i \in Elements, NEW value \in Int, Put(t, i, value),
         reply' = reply, Advances(t), frame[t].pc # "idle", frame'[t].pc # "idle",
         frame'[t].pc \in JoinedBy <=> frame[t].pc \in JoinedBy,
         frame'[t].u = frame[t].u, frame'[t].v = frame[t].v,
         (frame'[t].op = "find") <=> (frame[t].op = "find"),
         FrameKnows(Root, frame'[t]),
         \/ parent[i] < 0 /\ value < 0
         \/ parent[i] >= 0 /\ value \in Elements /\ Root[value] = Root[i]
  PROVE  KInv' /\ Implements
<1>1. Rooted(parent', Root)
  <2>1. Rooted(parent, Root) /\ \A j \in Elements : parent'[j] = IF j = i THEN value ELSE parent[j]
    BY RootNow, PutParent
  <2>2. value \in Elements => ~(value < 0)
    BY DEF Elements
  <2> QED BY <2>1, <2>2 DEF Rooted
<1>2. KInv' /\ sets' = Classes(Root)
  BY <1>1, WriteKnows
<1>3. UNCHANGED Abstract!dvars
  BY <1>2, AskedStill DEF Abstract!dvars, KInv
<1> QED BY <1>2, <1>3 DEF Implements

\* Halving a path changes parents but no root.
LEMMA HalveImplements ==
  ASSUME IInv, IInv', KInv, Observe, NEW t \in Threads, Halve(t)
  PROVE  KInv' /\ Implements
<1> DEFINE f == frame[t]
           g == frame'[t]
<1>1. /\ FrameTyped(f) /\ FrameKnows(Root, f) /\ DOMAIN frame = Threads /\ f.pc = "halve" /\ f.x \in Elements
      /\ Put(t, f.x, f.p) /\ reply' = reply
  BY FrameHas, FrameOf DEF Halve, At, FrameTyped
<1>2. f.p \in Elements /\ f.p \in Int /\ Root[f.p] = Root[f.x] /\ Root[f.x] = Root[Aim(f)]
  BY <1>1 DEF FrameKnows, Searching, Elements
<1>3. parent[f.x] >= 0
  <2>1. FrameOK(written, rank, f)
    BY FrameOf
  <2> QED BY <1>1, <2>1 DEF FrameOK, Loadable, parent
<1>4. Advances(t) /\ g.pc = "load" /\ g.op = f.op /\ g.u = f.u /\ g.v = f.v /\ g.x = f.p /\ g.ru = f.ru
  BY <1>1 DEF Advances, FrameTyped, Fields, Halve
<1>5. Aim(g) = Aim(f)
  BY <1>4 DEF Aim
<1> HIDE DEF g
<1>6. FrameKnows(Root, g)
  BY <1>1, <1>2, <1>4, <1>5 DEF FrameKnows, Searching
<1> QED BY <1>1, <1>2, <1>3, <1>4, <1>6, SameSets DEF g, JoinedBy

\* Raising a rank changes no root.
LEMMA RaiseImplements ==
  ASSUME IInv, IInv', KInv, Observe, NEW t \in Threads, Raise(t)
  PROVE  KInv' /\ Implements
<1> DEFINE f == frame[t]
           g == frame'[t]
<1>1. /\ FrameTyped(f) /\ FrameKnows(Root, f) /\ DOMAIN frame = Threads /\ f.pc = "raise" /\ f.ru \in Elements
      /\ Put(t, f.ru, f.vu - 1) /\ reply' = reply /\ parent[f.ru] = f.vu /\ f.vu \in Int
  BY FrameHas, FrameOf DEF Raise, At, FrameTyped
<1>2. f.vu < 0
  <2>1. FrameOK(written, rank, f)
    BY FrameOf
  <2> QED BY <1>1, <2>1 DEF FrameOK
<1>3. Advances(t) /\ g.pc = "joined" /\ g.op = f.op /\ g.u = f.u /\ g.v = f.v
  BY <1>1 DEF Advances, FrameTyped, Fields, Raise
<1> HIDE DEF g
<1>4. FrameKnows(Root, g)
  BY <1>1, <1>3 DEF FrameKnows, Searching
<1>5. f.vu - 1 \in Int /\ f.vu - 1 < 0
  BY <1>1, <1>2
<1> QED BY <1>1, <1>2, <1>3, <1>4, <1>5, SameSets DEF g, JoinedBy

\* The exchange of Link puts one tree under a root of another.
LEMMA LinkImplements ==
  ASSUME IInv, IInv', KInv, Observe, NEW t \in Threads, Link(t)
  PROVE  KInv' /\ Implements
<1> DEFINE f == frame[t]
           g == frame'[t]
           kept == Root[f.ru]
           T == Joined(Root, f.rv, kept)
<1>1. /\ FrameTyped(f) /\ FrameOK(written, rank, f) /\ FrameKnows(Root, f) /\ DOMAIN frame = Threads
      /\ f.pc = "link" /\ f.ru \in Elements /\ f.rv \in Elements /\ f.u \in Elements /\ f.v \in Elements
      /\ parent[f.rv] = f.vv /\ Put(t, f.rv, f.ru) /\ reply' = reply
  BY FrameHas, FrameOf DEF Link, At
<1>2. /\ Advances(t) /\ g.pc \in JoinedBy /\ g.op = f.op /\ g.u = f.u /\ g.v = f.v
  BY <1>1 DEF Advances, FrameTyped, Fields, Link, JoinedBy
<1>3. /\ f.vu < 0 /\ f.vv < 0 /\ f.vu \in Int /\ f.vv \in Int /\ Loadable(written, rank, f.ru, f.vu)
      /\ f.vu < f.vv \/ (f.vu = f.vv /\ f.ru > f.rv)
  BY <1>1 DEF FrameOK, FrameTyped
<1>4. Higher(rank, f.rv, f.ru)
  <2>1. rank[f.rv] = -1 - f.vv /\ rank[f.ru] \in Nat /\ -1 - f.vu <= rank[f.ru]
    BY <1>1, <1>3 DEF IInv, MemoryOK, Loadable, parent
  <2> QED BY <1>1, <1>3, <2>1 DEF Higher, Elements
<1>5. /\ Rooted(parent, Root) /\ Root \in [Elements -> Elements] /\ rank \in [Elements -> Nat]
      /\ kept \in Elements /\ Root[kept] = kept /\ (kept = f.ru \/ Higher(rank, f.ru, kept))
  BY <1>1, RootNow DEF IInv, MemoryOK
<1>6. Root[f.rv] = f.rv
  BY <1>1, <1>3, <1>5 DEF Rooted
<1>7. kept # f.rv
  <2>1. Higher(rank, f.rv, kept)
    BY <1>1, <1>4, <1>5, HigherTransitive
  <2> QED BY <1>1, <1>5, <2>1 DEF Higher, Elements
<1>8. \A x \in Elements : T[x] = IF Root[x] = f.rv THEN kept ELSE Root[x]
  BY DEF Joined
<1>9. T \in [Elements -> Elements]
  BY <1>5 DEF Joined
<1> HIDE DEF g, T, kept
<1>10. Rooted(parent', T)
  <2>1. \A j \in Elements : parent'[j] = IF j = f.rv THEN f.ru ELSE parent[j]
    BY <1>1, PutParent DEF Elements
  <2>2. ASSUME NEW x \in Elements, x = f.rv PROVE parent'[x] = f.ru /\ ~(f.ru < 0) /\ T[x] = T[f.ru]
    <3>1. T[x] = kept
      BY <1>6, <1>8, <2>2
    <3>2. T[f.ru] = kept
      BY <1>1, <1>7, <1>8 DEF kept
    <3> QED BY <1>1, <2>1, <2>2, <3>1, <3>2 DEF Elements
  <2>3. ASSUME NEW x \in Elements, x # f.rv
        PROVE  (parent'[x] < 0 => T[x] = x) /\ (parent'[x] >= 0 => T[x] = T[parent'[x]])
    <3>1. parent'[x] = parent[x]
      BY <2>1, <2>3
    <3>2. parent[x] < 0 => Root[x] = x
      BY <1>5 DEF Rooted
    <3>3. parent[x] >= 0 => parent[x] \in Elements /\ Root[x] = Root[parent[x]]
      BY <1>5, ForestNow DEF Rooted, Forest
    <3> QED BY <1>8, <2>3, <3>1, <3>2, <3>3
  <2>4. \A x \in Elements : /\ parent'[x] < 0 => T[x] = x
                            /\ parent'[x] >= 0 => T[x] = T[parent'[x]]
    BY <2>2, <2>3
  <2> QED BY <1>9, <2>4 DEF Rooted
<1>11. FrameKnows(T, g)
  BY <1>1, <1>2 DEF FrameKnows, Searching, JoinedBy
<1>12. KInv' /\ sets' = Classes(T)
  <2>1. \A a, b \in Elements : Root[a] = Root[b] => T[a] = T[b]
    BY <1>8
  <2>2. f.ru \in Int
    BY <1>1 DEF Elements
  <2> QED BY <1>1, <1>2, <1>10, <1>11, <2>1, <2>2, WriteKnows DEF g
<1>13. \/ Root[f.u] = f.rv /\ Root[f.v] = kept
       \/ Root[f.u] = kept /\ Root[f.v] = f.rv
  BY <1>1, <1>6 DEF FrameKnows, kept
<1>14. /\ Abstract!SetOf(f.u) = ClassOf(Root, f.u) /\ Abstract!SetOf(f.v) = ClassOf(Root, f.v)
       /\ ClassOf(Root, f.u) # ClassOf(Root, f.v)
  <2>1. Abstract!SetOf(f.u) = ClassOf(Root, f.u) /\ Abstract!SetOf(f.v) = ClassOf(Root, f.v)
    BY <1>1, SetOfIs DEF KInv
  <2>2. f.u \in ClassOf(Root, f.u) /\ f.u \notin ClassOf(Root, f.v)
    BY <1>1, <1>7, <1>13 DEF ClassOf
  <2> QED BY <2>1, <2>2
<1>15. sets' = (sets \ {ClassOf(Root, f.u), ClassOf(Root, f.v)}) \cup {ClassOf(Root, f.u) \cup ClassOf(Root, f.v)}
  <2>1. sets = Classes(Root)
    BY DEF KInv
  <2> QED BY <1>1, <1>5, <1>7, <1>12, <1>13, <2>1, ClassesJoin DEF T
<1>16. Asked[t] = Abstract!Merging(f.u, f.v, FALSE) /\ Asked' = [Asked EXCEPT ![t] = Abstract!Merging(f.u, f.v, TRUE)]
  <2>1. f.op # "find" /\ f.pc \notin JoinedBy /\ f.pc # "idle" /\ g.op # "find" /\ g.pc # "idle"
    BY <1>1, <1>2 DEF FrameKnows, JoinedBy
  <2>2. AskedOf(f) = Abstract!Merging(f.u, f.v, FALSE) /\ AskedOf(g) = Abstract!Merging(g.u, g.v, TRUE)
    BY <1>2, <2>1, AskedMerge
  <2>3. Asked[t] = AskedOf(f)
    BY DEF Asked
  <2>4. Asked' = [Asked EXCEPT ![t] = AskedOf(g)]
    BY <1>2, AskedMoves DEF g
  <2> QED BY <1>2, <2>2, <2>3, <2>4
<1>17. Abstract!Join(t, f.u, f.v)
  BY <1>1, <1>14, <1>15, <1>16 DEF Abstract!Join
<1> QED BY <1>1, <1>12, <1>17 DEF Implements, Abstract!Next

-----------------------------------------------------------------------------
\* Every access is a step of the disjoint sets, or a stutter; Link is where
\* two sets are joined.
LEMMA AccessImplements ==
  ASSUME IInv, IInv', KInv, Observe, NEW t \in Threads, Accesses(t)
  PROVE  KInv' /\ Implements
<1>1. ASSUME NEW k \in Readable(t, frame[t].x), LoadParent(t, k) \/ ReloadParent(t, k)
      PROVE  KInv' /\ Implements
  BY <1>1, LoadParentImplements
<1>2. ASSUME NEW k \in Readable(t, frame[t].p), LoadGrand(t, k) \/ ReloadGrand(t, k)
      PROVE  KInv' /\ Implements
  BY <1>2, LoadGrandImplements
<1>3. ASSUME NEW k \in Readable(t, frame[t].u), LoadParentU(t, k)
      PROVE  KInv' /\ Implements
  BY <1>3, LoadParentUImplements
<1>4. ASSUME NEW k \in Readable(t, frame[t].v), LoadParentV(t, k)
      PROVE  KInv' /\ Implements
  BY <1>4, LoadParentVImplements
<1>5. ASSUME NEW k \in Readable(t, frame[t].ru), LoadRankU(t, k) \/ RaiseFails(t, k)
      PROVE  KInv' /\ Implements
  BY <1>5, LoadRankUImplements, RaiseFailsImplements
<1>6. ASSUME NEW k \in Readable(t, frame[t].rv), LoadRankV(t, k)
      PROVE  KInv' /\ Implements
  BY <1>6, LoadRankVImplements
<1>7. CASE Halve(t) \/ Link(t) \/ LinkFails(t) \/ Raise(t) \/ MergeReturns(t)
  BY <1>7, HalveImplements, LinkImplements, LinkFailsImplements, RaiseImplements, MergeReturnsImplements
<1> QED BY <1>1, <1>2, <1>3, <1>4, <1>5, <1>6, <1>7 DEF Accesses

\* Every step is a step of the disjoint sets, or a stutter.
LEMMA StepImplements == IInv /\ IInv' /\ KInv /\ [MCNext]_ovars => KInv' /\ Implements
<1> SUFFICES ASSUME IInv, IInv', KInv, [MCNext]_ovars PROVE KInv' /\ Implements
  OBVIOUS
<1>1. ASSUME NEW t \in Threads, Accesses(t), Observe
      PROVE  KInv' /\ Implements
  BY <1>1, AccessImplements
<1>2. ASSUME NEW t \in Threads, Call(t), Observe
      PROVE  KInv' /\ Implements
  BY <1>2, CallFindImplements, CallMergeImplements DEF Call
<1>3. CASE UNCHANGED ovars
  <2>1. written' = written /\ frame' = frame /\ reply' = reply /\ sets' = sets
    BY <1>3 DEF ovars, vars
  <2>2. parent' = parent /\ Asked' = Asked
    BY <2>1 DEF parent, Asked
  <2>3. Root' = Root
    BY <2>2 DEF Root, Roots
  <2>4. KInv'
    BY <2>1, <2>3 DEF KInv
  <2> QED BY <2>1, <2>2, <2>4 DEF Implements, Abstract!dvars
<1> QED BY <1>1, <1>2, <1>3 DEF MCNext

\* To begin with every element is in the set of its parent, and nothing is asked.
LEMMA InitKnows == MCInit => KInv /\ Abstract!Init
<1> SUFFICES ASSUME MCInit PROVE KInv /\ Abstract!Init
  OBVIOUS
<1>1. PICK start \in Starts : written = [i \in Elements |-> <<start[i]>>]
  BY DEF MCInit, Init
<1>2. start \in [Elements -> Int] /\ IInv
  BY UnionFindAssumption, InitKeeps
<1>3. parent = start
  <2>1. \A i \in Elements : Last(written[i]) = start[i]
    BY <1>1 DEF Last
  <2>2. parent = [i \in Elements |-> start[i]]
    BY <2>1 DEF parent
  <2> QED BY <1>2, <2>2
<1>4. sets = Partition(start) /\ sets = Classes(Root)
  BY <1>3, PartitionIs DEF MCInit, Root
<1>5. Known(written, Root)
  <2> SUFFICES ASSUME NEW i \in Elements, NEW k \in 1 .. Len(written[i]), written[i][k] >= 0
               PROVE  Root[written[i][k]] = Root[i]
    BY DEF Known
  <2>1. written[i][k] = parent[i]
    BY <1>1, <1>3
  <2>2. Rooted(parent, Root)
    BY <1>2, RootNow
  <2> QED BY <2>1, <2>2 DEF Rooted
<1>6. \A t \in Threads : FrameKnows(Root, frame[t])
  BY DEF MCInit, Init, Blank, FrameKnows, Searching
<1>7. Asked = [t \in Threads |-> None]
  <2>1. \A t \in Threads : AskedOf(frame[t]) = None
    BY DEF MCInit, Init, Blank, AskedOf
  <2> QED BY <2>1 DEF Asked
<1>8. Abstract!Init
  BY <1>1, <1>4, <1>7 DEF Abstract!Init, MCInit, Init
<1> QED BY <1>4, <1>5, <1>6, <1>8 DEF KInv

\* find and merge are linearizable, for all threads, elements and old values
\* loads may return: a step of theirs is a step of the disjoint sets, a merge
\* that joins two sets at its exchange, or changes nothing the user could see.
THEOREM MergesLinearizable == MCSpec => ImplementsDisjointSets
<1>1. MCSpec => [](IInv /\ KInv)
  <2>1. IInv /\ KInv /\ [MCNext]_ovars => IInv' /\ KInv'
    BY StepKeeps, StepImplements
  <2> QED BY <2>1, InitKeeps, InitKnows, PTL DEF MCSpec
<1>2. IInv /\ IInv' /\ KInv /\ [MCNext]_ovars => [Abstract!Next]_(Abstract!dvars)
  BY StepImplements DEF Implements
<1> QED BY <1>1, <1>2, InitKnows, PTL DEF MCSpec, ImplementsDisjointSets, Abstract!Spec

=============================================================================
