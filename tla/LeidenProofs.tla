----------------------------- MODULE LeidenProofs -----------------------------
(***************************************************************************)
(* For any threads, graph, chunk and Oversize of at least a slot for every *)
(* thread:                                                                 *)
(*                                                                         *)
(* A thread that is about to add a node to a community finds it inside     *)
(* communityVolumes (IInv). The argument counts: communities beyond the    *)
(* end of the vector are as many as the threads that hold one and wait     *)
(* (Beyonders), so one growth makes room for all; and a thread that yields *)
(* with one waits for a growth that is under way.                          *)
(*                                                                         *)
(* A queued node is in one list, a node in work with one thread (OInv).    *)
(* Places are <kind of list, which list, entry>: OneSpot and OneThread say *)
(* that no node has two, QueuedHasSpot and BusyHasThread that its state    *)
(* tells whether it has one.                                               *)
(*                                                                         *)
(* What a node was told of its neighbours stays true, or it is looked at   *)
(* again (FInv, StillTrue): between a neighbour's move and its scheduling  *)
(* of the node, the node is still to come in the neighbour's thread. When  *)
(* all threads have left none is to come, and the queue is empty (RInv).   *)
(*                                                                         *)
(* Refined communities keep their hosts and are connected as long as no    *)
(* thread slipped (Sound): a node that is about to join is alone and its   *)
(* target's host at home, which its thread's two locks preserve.           *)
(***************************************************************************)
EXTENDS MCParallelLeiden, SequenceTheorems, FiniteSetTheorems, TLAPS

Fields == {"pc", "current", "fresh", "best", "todo"}
Working == {"announce", "yield", "resume", "begin", "look", "grow", "await", "growing", "place",
            "spread", "schedule", "finish"}
Growers == {"await", "growing"}

\* l is a thread's locals, sz and rs the size of communityVolumes and resize.
LocalOK(l, sz, rs) ==
  /\ DOMAIN l = Fields
  /\ l.current \in Seq(Nodes) /\ l.fresh \in Seq(Nodes) /\ l.todo \in Seq(Nodes) /\ l.best \in Int
  /\ l.pc \in Working \/ (l.pc \in {"flush", "notify"} /\ l.best # None) => l.current # <<>>
  /\ l.pc = "schedule" => l.todo # <<>>
  /\ l.best >= sz => l.pc \in {"grow", "announce", "yield"} \cup Growers
  /\ l.best >= sz /\ l.pc \in {"announce", "yield"} => rs
  /\ l.pc \in Growers => rs

Small(sz) == {c \in Int : c < sz}
Beyonders == {t \in Threads : local[t].best >= size}

DataOK ==
  /\ row \in [Nodes -> Seq(Nodes)] /\ queue \in Seq(Seq(Nodes))
  /\ result \in [Nodes -> Small(size)] /\ seen \in [Nodes -> Seq(Small(size))]

IInv ==
  /\ size \in Nat /\ upperBound \in Nat /\ resize \in BOOLEAN
  /\ vectorSize = IF resize THEN size + Oversize ELSE size
  /\ DataOK
  /\ DOMAIN local = Threads
  /\ \A t \in Threads : LocalOK(local[t], size, resize)
  /\ \A t \in Threads : local[t].best < upperBound \/ local[t].best < size
  /\ \A s, t \in Threads : local[s].pc \in Growers /\ local[t].pc \in Growers => s = t
  /\ upperBound <= size + Cardinality(Beyonders)

-----------------------------------------------------------------------------
\* The threads are finitely many, and a growth makes room for each of them.
LEMMA Team ==
  /\ IsFiniteSet(Threads) /\ Cardinality(Threads) \in Nat /\ tcount = Cardinality(Threads)
  /\ Oversize \in Nat /\ Oversize >= Cardinality(Threads) /\ N \in Nat \ {0}
  BY LeidenAssumption, MoveAssumption, FS_CardinalityType DEF tcount

\* No more threads have a community beyond the volumes than there are
\* threads.
LEMMA BeyondersFinite ==
  IsFiniteSet(Beyonders) /\ Cardinality(Beyonders) \in Nat /\ Cardinality(Beyonders) <= Cardinality(Threads)
<1>1. Beyonders \subseteq Threads
  BY DEF Beyonders
<1> QED BY <1>1, Team, FS_Subset, FS_CardinalityType

\* A thread no step touched, or one that was woken.
Kept(s) ==
  \/ local'[s] = local[s]
  \/ local[s].pc = "sleep" /\ local'[s] = [local[s] EXCEPT !.pc = "wait"]

\* A thread that another one's step left alone, or woke, has sound locals
\* still.
LEMMA KeptOK ==
  ASSUME NEW s \in Threads, Kept(s), LocalOK(local[s], size, resize)
  PROVE  /\ LocalOK(local'[s], size, resize)
         /\ local'[s].best = local[s].best
         /\ local'[s].pc \in Growers <=> local[s].pc \in Growers
<1>1. CASE local'[s] = local[s]
  BY <1>1
<1>2. CASE local[s].pc = "sleep" /\ local'[s] = [local[s] EXCEPT !.pc = "wait"]
  BY <1>2 DEF LocalOK, Fields, Working, Growers
<1> QED BY <1>1, <1>2 DEF Kept

\* A step of one thread that takes no new community and does not grow the
\* vector keeps the invariant if it keeps the thread's locals in order.
LEMMA QuietStep ==
  ASSUME IInv, NEW t \in Threads,
         UNCHANGED <<size, upperBound, vectorSize, resize>>, DataOK',
         DOMAIN local' = Threads, \A s \in Threads \ {t} : Kept(s),
         LocalOK(local'[t], size, resize),
         local'[t].pc \in Growers => local[t].pc \in Growers,
         local'[t].best = local[t].best \/ (local'[t].best < size /\ local[t].best < size)
  PROVE  IInv'
<1>1. \A s \in Threads : LocalOK(local'[s], size, resize)
  BY KeptOK DEF IInv
<1>2. \A s \in Threads \ {t} : local'[s].best = local[s].best /\ (local'[s].pc \in Growers <=> local[s].pc \in Growers)
  BY KeptOK DEF IInv
<1>3. \A s \in Threads : local'[s].best \in Int /\ local[s].best \in Int
  BY <1>1 DEF IInv, LocalOK
<1>4. Beyonders' = Beyonders
  BY <1>2, <1>3 DEF Beyonders, IInv
<1>5. \A s \in Threads : local'[s].best < upperBound \/ local'[s].best < size
  BY <1>2, <1>3 DEF IInv
<1>6. \A s, r \in Threads : local'[s].pc \in Growers /\ local'[r].pc \in Growers => s = r
  BY <1>2 DEF IInv
<1> QED BY <1>1, <1>4, <1>5, <1>6 DEF IInv

-----------------------------------------------------------------------------
\* What the invariant says of the thread that steps.
LEMMA Stepper ==
  ASSUME IInv, NEW t \in Threads
  PROVE  /\ LocalOK(local[t], size, resize) /\ DOMAIN local = Threads /\ DOMAIN local[t] = Fields
         /\ local[t].current # <<>> => Node(t) \in Nodes /\ Tail(local[t].current) \in Seq(Nodes)
         /\ local[t].todo # <<>> => Head(local[t].todo) \in Nodes /\ Tail(local[t].todo) \in Seq(Nodes)
<1>1. LocalOK(local[t], size, resize) /\ DOMAIN local = Threads
  BY DEF IInv
<1>2. ASSUME NEW q \in Seq(Nodes), q # <<>>
      PROVE  Head(q) \in Nodes /\ Tail(q) \in Seq(Nodes)
  BY <1>2, HeadTailProperties
<1> QED BY <1>1, <1>2 DEF LocalOK, Node

\* Now one lemma for every action of a thread: what becomes of its locals,
\* that they are in order, and the sequences and indices they hold.
LEMMA TestResizeKeeps ==
  ASSUME IInv, NEW t \in Threads, TestResize(t), row' = row
  PROVE  IInv'
<1>1. DOMAIN local' = Threads /\ DOMAIN local'[t] = Fields /\ \A s \in Threads \ {t} : Kept(s)
  BY Stepper DEF TestResize, OnlyLocal, Go, Kept
<1>2. \A f \in Fields \ {"pc"} : local'[t][f] = local[t][f]
  BY Stepper DEF TestResize, OnlyLocal, Go
<1>3. LocalOK(local'[t], size, resize)
  BY <1>1, <1>2, Stepper DEF TestResize, OnlyLocal, Go, LocalOK, Fields, Working, Growers
<1>4. DataOK'
  BY DEF TestResize, OnlyLocal, Go, IInv, DataOK, work, volumes, history
<1> QED BY <1>1, <1>2, <1>3, <1>4, QuietStep, Stepper DEF TestResize, OnlyLocal, Go, handshake, volumes, Growers, Fields

\* Who announces that it waits keeps the community it has chosen.
LEMMA AnnounceKeeps ==
  ASSUME IInv, NEW t \in Threads, Announce(t), row' = row
  PROVE  IInv'
<1>1. DOMAIN local' = Threads /\ DOMAIN local'[t] = Fields /\ \A s \in Threads \ {t} : Kept(s)
  BY Stepper DEF Announce, Go, Kept
<1>2. \A f \in Fields \ {"pc"} : local'[t][f] = local[t][f]
  BY Stepper DEF Announce, Go
<1>3. LocalOK(local'[t], size, resize)
  BY <1>1, <1>2, Stepper DEF Announce, Go, LocalOK, Fields, Working, Growers
<1>4. DataOK'
  BY DEF Announce, Go, IInv, DataOK, work, volumes, history
<1> QED BY <1>1, <1>2, <1>3, <1>4, QuietStep, Stepper DEF Announce, Go, handshake, volumes, Growers, Fields

\* Who yields goes on only when the volumes have grown, so its community
\* fits.
LEMMA YieldKeeps ==
  ASSUME IInv, NEW t \in Threads, Yield(t), row' = row
  PROVE  IInv'
<1>1. DOMAIN local' = Threads /\ DOMAIN local'[t] = Fields /\ \A s \in Threads \ {t} : Kept(s)
  BY Stepper DEF Yield, Go, OnlyLocal, Kept
<1>2. \A f \in Fields \ {"pc"} : local'[t][f] = local[t][f]
  BY Stepper DEF Yield, Go, OnlyLocal
<1>3. LocalOK(local'[t], size, resize)
  BY <1>1, <1>2, Stepper DEF Yield, Go, OnlyLocal, LocalOK, Fields, Working, Growers
<1>4. DataOK'
  BY DEF Yield, Go, OnlyLocal, IInv, DataOK, work, volumes, history
<1> QED BY <1>1, <1>2, <1>3, <1>4, QuietStep, Stepper DEF Yield, Go, OnlyLocal, handshake, volumes, Growers, Fields

\* Who resumes goes on to its node, or to the place it has chosen.
LEMMA ResumeKeeps ==
  ASSUME IInv, NEW t \in Threads, Resume(t), row' = row
  PROVE  IInv'
<1>1. DOMAIN local' = Threads /\ DOMAIN local'[t] = Fields /\ \A s \in Threads \ {t} : Kept(s)
  BY Stepper DEF Resume, Go, Kept
<1>2. \A f \in Fields \ {"pc"} : local'[t][f] = local[t][f]
  BY Stepper DEF Resume, Go
<1>3. LocalOK(local'[t], size, resize)
  BY <1>1, <1>2, Stepper DEF Resume, Go, LocalOK, Fields, Working, Growers
<1>4. DataOK'
  BY DEF Resume, Go, IInv, DataOK, work, volumes, history
<1> QED BY <1>1, <1>2, <1>3, <1>4, QuietStep, Stepper DEF Resume, Go, handshake, volumes, Growers, Fields

\* A node that stays changes no community.
LEMMA StayKeeps ==
  ASSUME IInv, NEW t \in Threads, Stay(t), row' = row
  PROVE  IInv'
<1>1. DOMAIN local' = Threads /\ DOMAIN local'[t] = Fields /\ \A s \in Threads \ {t} : Kept(s)
  BY Stepper DEF Stay, Go, OnlyLocal, Kept
<1>2. \A f \in Fields \ {"pc"} : local'[t][f] = local[t][f]
  BY Stepper DEF Stay, Go, OnlyLocal
<1>3. LocalOK(local'[t], size, resize)
  BY <1>1, <1>2, Stepper DEF Stay, Go, OnlyLocal, LocalOK, Fields, Working, Growers
<1>4. DataOK'
  BY DEF Stay, Go, OnlyLocal, IInv, DataOK, work, volumes, history
<1> QED BY <1>1, <1>2, <1>3, <1>4, QuietStep, Stepper DEF Stay, Go, OnlyLocal, handshake, volumes, Growers, Fields

\* Only the one thread that grows the volumes waits for the others.
LEMMA AwaitKeeps ==
  ASSUME IInv, NEW t \in Threads, Await(t), row' = row
  PROVE  IInv'
<1>1. DOMAIN local' = Threads /\ DOMAIN local'[t] = Fields /\ \A s \in Threads \ {t} : Kept(s)
  BY Stepper DEF Await, Go, OnlyLocal, Kept
<1>2. \A f \in Fields \ {"pc"} : local'[t][f] = local[t][f]
  BY Stepper DEF Await, Go, OnlyLocal
<1>3. LocalOK(local'[t], size, resize)
  BY <1>1, <1>2, Stepper DEF Await, Go, OnlyLocal, LocalOK, Fields, Working, Growers
<1>4. DataOK'
  BY DEF Await, Go, OnlyLocal, IInv, DataOK, work, volumes, history
<1> QED BY <1>1, <1>2, <1>3, <1>4, QuietStep, Stepper DEF Await, Go, OnlyLocal, handshake, volumes, Growers, Fields

\* Work on a node begins with nothing seen.
LEMMA BeginKeeps ==
  ASSUME IInv, NEW t \in Threads, Begin(t), row' = row
  PROVE  IInv'
<1>1. DOMAIN local' = Threads /\ DOMAIN local'[t] = Fields /\ \A s \in Threads \ {t} : Kept(s)
  BY Stepper DEF Begin, Go, Kept
<1>2. \A f \in Fields \ {"pc", "todo"} : local'[t][f] = local[t][f]
  BY Stepper DEF Begin, Go
<1>n. Node(t) \in Nodes
  BY Stepper DEF Begin, LocalOK, Working
<1>3. LocalOK(local'[t], size, resize)
  <2>1. local'[t].pc = "look" /\ local'[t].todo = row[Node(t)]
    BY <1>1, Stepper DEF Begin, Fields
  <2>2. row[Node(t)] \in Seq(Nodes)
    BY <1>n DEF IInv, DataOK
  <2> QED BY <1>1, <1>2, <2>1, <2>2, Stepper DEF Begin, LocalOK, Fields, Working, Growers
<1>4. DataOK'
  <2>e. <<>> \in Seq(Small(size))
    BY EmptySeq
  <2>1. seen' \in [Nodes -> Seq(Small(size))]
    BY <1>n, <2>e DEF Begin, IInv, DataOK, volumes
  <2> QED BY <2>1 DEF Begin, IInv, DataOK, volumes
<1> QED BY ZenonT(40), <1>1, <1>2, <1>3, <1>4, QuietStep, Stepper DEF Begin, Go, handshake, volumes, Growers, Fields, LocalOK

\* The communities seen are those of neighbours, which the volumes have room
\* for.
LEMMA LookKeeps ==
  ASSUME IInv, NEW t \in Threads, Look(t), row' = row
  PROVE  IInv'
<1>1. DOMAIN local' = Threads /\ DOMAIN local'[t] = Fields /\ \A s \in Threads \ {t} : Kept(s)
  BY Stepper DEF Look, Go, Kept
<1>2. \A f \in Fields \ {"todo"} : local'[t][f] = local[t][f]
  BY Stepper DEF Look, Go
<1>n. Node(t) \in Nodes
  BY Stepper DEF Look, LocalOK, Working
<1>3. LocalOK(local'[t], size, resize)
  <2>1. local'[t].todo = Tail(local[t].todo)
    BY <1>1, Stepper DEF Look, Fields
  <2> QED BY <1>1, <1>2, <2>1, Stepper DEF Look, LocalOK, Fields, Working, Growers
<1>4. DataOK'
  <2>1. result[Head(local[t].todo)] \in Small(size)
    BY Stepper DEF Look, IInv, DataOK
  <2>2. seen' \in [Nodes -> Seq(Small(size))]
    <3>1. Append(seen[Node(t)], result[Head(local[t].todo)]) \in Seq(Small(size))
      BY <2>1, <1>n, AppendProperties DEF IInv, DataOK
    <3> QED BY <3>1, <1>n DEF Look, IInv, DataOK
  <2> QED BY <2>2 DEF Look, IInv, DataOK, volumes, work
<1> QED BY <1>1, <1>2, <1>3, <1>4, QuietStep, Stepper DEF Look, Go, handshake, volumes, Growers, Fields, LocalOK

\* A community that was seen fits the volumes.
LEMMA ChooseSeenKeeps ==
  ASSUME IInv, NEW t \in Threads, NEW c, ChooseSeen(t, c), row' = row
  PROVE  IInv'
<1>1. DOMAIN local' = Threads /\ DOMAIN local'[t] = Fields /\ \A s \in Threads \ {t} : Kept(s)
  BY Stepper DEF ChooseSeen, Go, Kept
<1>2. \A f \in Fields \ {"pc", "best"} : local'[t][f] = local[t][f]
  BY Stepper DEF ChooseSeen, Go
<1>n. Node(t) \in Nodes
  BY Stepper DEF ChooseSeen, LocalOK, Working
<1>c. c \in Small(size)
  <2>1. seen[Node(t)] \in Seq(Small(size)) /\ c \in Range(seen[Node(t)])
    BY <1>n DEF ChooseSeen, IInv, DataOK
  <2>2. PICK i \in DOMAIN seen[Node(t)] : c = seen[Node(t)][i]
    BY <2>1 DEF Range
  <2>3. \A q \in Seq(Small(size)) : \A j \in DOMAIN q : q[j] \in Small(size)
    BY ElementOfSeq, LenProperties
  <2> QED BY <2>1, <2>2, <2>3
<1>b. local'[t].pc = "place" /\ local'[t].best = c
  BY <1>1, Stepper DEF ChooseSeen, Fields
<1>3. LocalOK(local'[t], size, resize)
  BY <1>1, <1>2, <1>b, <1>c, Stepper DEF ChooseSeen, LocalOK, Fields, Working, Growers, Small, IInv
<1>4. DataOK'
  BY DEF ChooseSeen, IInv, DataOK, volumes, work
<1>5. local[t].best < size /\ local'[t].best < size /\ local'[t].pc \notin Growers
  <2>1. size \in Nat /\ LocalOK(local[t], size, resize) /\ local[t].pc = "look"
    BY Stepper DEF ChooseSeen, IInv
  <2> QED BY <1>b, <1>c, <2>1 DEF LocalOK, Small, Growers
<1> QED BY <1>1, <1>3, <1>4, <1>5, QuietStep DEF ChooseSeen, handshake, volumes

\* A node is placed only in a community that fits.
LEMMA PlaceKeeps ==
  ASSUME IInv, NEW t \in Threads, Place(t), row' = row
  PROVE  IInv'
<1>1. DOMAIN local' = Threads /\ DOMAIN local'[t] = Fields /\ \A s \in Threads \ {t} : Kept(s)
  BY Stepper DEF Place, Go, Kept
<1>2. \A f \in Fields \ {"pc", "todo"} : local'[t][f] = local[t][f]
  BY Stepper DEF Place, Go
<1>n. Node(t) \in Nodes
  BY Stepper DEF Place, LocalOK, Working
<1>3. LocalOK(local'[t], size, resize)
  <2>1. local'[t].pc = "spread" /\ local'[t].todo = row[Node(t)]
    BY <1>1, Stepper DEF Place, Fields
  <2>2. row[Node(t)] \in Seq(Nodes)
    BY <1>n DEF IInv, DataOK
  <2> QED BY <1>1, <1>2, <2>1, <2>2, Stepper DEF Place, LocalOK, Fields, Working, Growers
<1>4. DataOK'
  <2>e. <<>> \in Seq(Small(size))
    BY EmptySeq
  <2>1. seen' \in [Nodes -> Seq(Small(size))]
    BY <1>n, <2>e DEF Place, IInv, DataOK, volumes
  <2>2. local[t].best \in Small(size)
    <3>1. size \in Nat /\ LocalOK(local[t], size, resize) /\ local[t].pc = "place"
      BY Stepper DEF Place, IInv
    <3> QED BY <3>1 DEF LocalOK, Small, Growers
  <2>3. result' \in [Nodes -> Small(size)]
    BY <2>2 DEF Place, IInv, DataOK
  <2> QED BY <2>1, <2>3 DEF Place, IInv, DataOK, volumes, work
<1> QED BY SMTT(40), <1>1, <1>2, <1>3, <1>4, QuietStep, Stepper DEF Place, Go, handshake, volumes, Growers, Fields, LocalOK

\* Neighbours are found to look at again; no community changes.
LEMMA SpreadKeeps ==
  ASSUME IInv, NEW t \in Threads, Spread(t), row' = row
  PROVE  IInv'
<1>1. DOMAIN local' = Threads /\ DOMAIN local'[t] = Fields /\ \A s \in Threads \ {t} : Kept(s)
  BY Stepper DEF Spread, Go, Kept
<1>2. \A f \in Fields \ {"pc", "todo"} : local'[t][f] = local[t][f]
  BY Stepper DEF Spread, Go
<1>p. local'[t].pc \in {"finish", "schedule", "spread"} /\ local'[t].todo \in {Tail(local[t].todo), local[t].todo}
       /\ (local'[t].todo # local[t].todo => local[t].todo # <<>>)
       /\ (local'[t].pc = "schedule" => local'[t].todo # <<>>)
  BY <1>1, Stepper DEF Spread, Fields
<1>3. LocalOK(local'[t], size, resize)
  BY ZenonT(100), <1>1, <1>2, <1>p, Stepper DEF Spread, LocalOK, Fields, Working, Growers
<1>4. DataOK'
  BY DEF Spread, OnlyLocal, IInv, DataOK, work, volumes, history
<1> QED BY <1>1, <1>2, <1>3, <1>4, <1>p, QuietStep, Stepper DEF Spread, OnlyLocal, handshake, volumes, Growers, Fields

\* A list of nodes is handed to the queue, or kept; no community changes.
LEMMA FlushKeeps ==
  ASSUME IInv, NEW t \in Threads, Flush(t), row' = row
  PROVE  IInv'
<1>1. DOMAIN local' = Threads /\ DOMAIN local'[t] = Fields /\ \A s \in Threads \ {t} : Kept(s)
  BY Stepper DEF Flush, Go, Kept
<1>2. \A f \in Fields \ {"pc", "fresh"} : local'[t][f] = local[t][f]
  BY Stepper DEF Flush, Go
<1>3. LocalOK(local'[t], size, resize)
  <2>1. local'[t].pc = "notify" /\ local'[t].fresh = <<>>
    BY <1>1, Stepper DEF Flush, Fields
  <2>2. <<>> \in Seq(Nodes)
    BY EmptySeq
  <2> QED BY <1>1, <1>2, <2>1, <2>2, Stepper DEF Flush, LocalOK, Fields, Working, Growers
<1>4. DataOK'
  <2>1. local[t].fresh \in Seq(Nodes)
    BY Stepper DEF LocalOK
  <2>2. queue' \in Seq(Seq(Nodes))
    BY <2>1, AppendProperties DEF Flush, IInv, DataOK
  <2> QED BY <2>2 DEF Flush, IInv, DataOK, volumes, history
<1> QED BY ZenonT(40), <1>1, <1>2, <1>3, <1>4, QuietStep, Stepper DEF Flush, Go, handshake, volumes, Growers, Fields, LocalOK

\* The nodes found become the list to work on.
LEMMA TakeOwnKeeps ==
  ASSUME IInv, NEW t \in Threads, TakeOwn(t), row' = row
  PROVE  IInv'
<1>1. DOMAIN local' = Threads /\ DOMAIN local'[t] = Fields /\ \A s \in Threads \ {t} : Kept(s)
  BY Stepper DEF TakeOwn, Go, Kept
<1>2. \A f \in Fields \ {"current", "fresh"} : local'[t][f] = local[t][f]
  BY Stepper DEF TakeOwn, Go
<1>3. LocalOK(local'[t], size, resize)
  <2>1. local'[t].current = local[t].fresh /\ local'[t].fresh = <<>>
    BY <1>1, Stepper DEF TakeOwn, Fields
  <2>2. <<>> \in Seq(Nodes)
    BY EmptySeq
  <2> QED BY <1>1, <1>2, <2>1, <2>2, Stepper DEF TakeOwn, LocalOK, Fields, Working, Growers
<1>4. DataOK'
  BY DEF TakeOwn, OnlyLocal, IInv, DataOK, work, volumes, history
<1> QED BY <1>1, <1>2, <1>3, <1>4, QuietStep, Stepper DEF TakeOwn, OnlyLocal, handshake, volumes, Growers, Fields, LocalOK

\* A thread's list of nodes found, with one more.
LEMMA Pushed ==
  ASSUME IInv, NEW t \in Threads, NEW u \in Nodes
  PROVE  Append(local[t].fresh, u) \in Seq(Nodes)
  BY Stepper, AppendProperties DEF LocalOK

\* Marking a neighbour changes no community.
LEMMA ScheduleKeeps ==
  ASSUME IInv, NEW t \in Threads, Schedule(t), row' = row
  PROVE  IInv'
<1>1. DOMAIN local' = Threads /\ DOMAIN local'[t] = Fields /\ \A s \in Threads \ {t} : Kept(s)
  BY Stepper DEF Schedule, WithPushed, Kept
<1>2. \A f \in Fields \ {"pc", "fresh", "todo"} : local'[t][f] = local[t][f]
  BY Stepper DEF Schedule, WithPushed
<1>n. local[t].todo # <<>> /\ local[t].pc = "schedule"
  BY Stepper DEF Schedule, LocalOK, Working
<1>p. /\ local'[t].pc \in {"spread", "flush"} /\ local'[t].todo = Tail(local[t].todo)
      /\ local'[t].fresh \in {local[t].fresh, Append(local[t].fresh, Head(local[t].todo))}
  <2>1. CASE state[Head(local[t].todo)] = "idle"
    BY <1>1, <2>1, Stepper DEF Schedule, WithPushed, Fields
  <2>2. CASE state[Head(local[t].todo)] # "idle"
    BY <1>1, <2>2, Stepper DEF Schedule, Fields
  <2> QED BY <2>1, <2>2
<1>q. local'[t].fresh \in Seq(Nodes) /\ local'[t].todo \in Seq(Nodes)
  <2>1. Head(local[t].todo) \in Nodes /\ Tail(local[t].todo) \in Seq(Nodes) /\ local[t].fresh \in Seq(Nodes)
    BY <1>n, Stepper DEF LocalOK
  <2> QED BY <1>p, <2>1, Pushed
<1>3. LocalOK(local'[t], size, resize)
  BY <1>1, <1>2, <1>n, <1>p, <1>q, Stepper DEF LocalOK, Fields, Working, Growers
<1>4. DataOK'
  BY DEF Schedule, IInv, DataOK, volumes, history
<1>5. local'[t].best = local[t].best /\ local'[t].pc \notin Growers
  BY <1>2, <1>p DEF Growers, Fields
<1> QED BY <1>1, <1>3, <1>4, <1>5, QuietStep DEF Schedule, handshake, volumes

\* A node that is done leaves the list, or stays to be looked at again.
LEMMA FinishKeeps ==
  ASSUME IInv, NEW t \in Threads, Finish(t), row' = row
  PROVE  IInv'
<1>1. DOMAIN local' = Threads /\ DOMAIN local'[t] = Fields /\ \A s \in Threads \ {t} : Kept(s)
  BY Stepper DEF Finish, WithPushed, Kept
<1>2. \A f \in Fields \ {"pc", "current", "fresh", "best"} : local'[t][f] = local[t][f]
  BY Stepper DEF Finish, WithPushed
<1>n. local[t].current # <<>> /\ local[t].pc = "finish"
  BY Stepper DEF Finish, LocalOK, Working
<1>p. /\ local'[t].pc \in {"node", "flush"} /\ local'[t].current = Tail(local[t].current) /\ local'[t].best = None
      /\ local'[t].fresh \in {local[t].fresh, Append(local[t].fresh, Node(t))}
  <2>1. CASE state[Node(t)] = "processing"
    BY <1>1, <2>1, Stepper DEF Finish, Fields
  <2>2. CASE state[Node(t)] # "processing"
    BY <1>1, <2>2, Stepper DEF Finish, WithPushed, Fields
  <2> QED BY <2>1, <2>2
<1>q. local'[t].fresh \in Seq(Nodes) /\ local'[t].current \in Seq(Nodes)
  <2>1. Node(t) \in Nodes /\ Tail(local[t].current) \in Seq(Nodes) /\ local[t].fresh \in Seq(Nodes)
    BY <1>n, Stepper DEF LocalOK
  <2> QED BY <1>p, <2>1, Pushed
<1>z. size \in Nat /\ LocalOK(local[t], size, resize)
  BY Stepper DEF IInv
<1>3. LocalOK(local'[t], size, resize)
  BY <1>1, <1>2, <1>n, <1>p, <1>q, <1>z DEF LocalOK, Fields, Working, Growers, None
<1>4. DataOK'
  BY DEF Finish, IInv, DataOK, volumes, history
<1>5. local'[t].best < size /\ local[t].best < size /\ local'[t].pc \notin Growers
  BY <1>n, <1>p, <1>z DEF Growers, LocalOK, None
<1> QED BY <1>1, <1>3, <1>4, <1>5, QuietStep DEF Finish, handshake, volumes

\* Waking a thread changes where it stands and nothing else.
LEMMA NotifyKeeps ==
  ASSUME IInv, NEW t \in Threads, Notify(t), row' = row
  PROVE  IInv'
<1>0. DOMAIN local' = Threads /\ \A s \in Threads \ {t} : Kept(s)
  BY DEF Notify, Waking, Kept
<1>1. DOMAIN local'[t] = Fields /\ local'[t].pc = IF local[t].best = None THEN "node" ELSE "spread"
  BY Stepper DEF Notify, Waking, Fields
<1>2. \A f \in Fields \ {"pc"} : local'[t][f] = local[t][f]
  BY Stepper DEF Notify, Waking
<1>3. LocalOK(local'[t], size, resize)
  BY <1>1, <1>2, Stepper DEF Notify, LocalOK, Fields, Working, Growers
<1>4. DataOK'
  BY DEF Notify, OnlyLocal, IInv, DataOK, work, volumes, history
<1>5. local'[t].best = local[t].best /\ local'[t].pc \notin Growers
  BY <1>1, <1>2 DEF Growers, Fields
<1> QED BY <1>0, <1>3, <1>4, <1>5, QuietStep DEF Notify, OnlyLocal, handshake, volumes

\* Waking the threads that may leave changes where they stand and nothing
\* else.
LEMMA LeaveKeeps ==
  ASSUME IInv, NEW t \in Threads, Leave(t), row' = row
  PROVE  IInv'
<1>0. DOMAIN local' = Threads /\ \A s \in Threads \ {t} : Kept(s)
  BY DEF Leave, Waking, Kept
<1>1. DOMAIN local'[t] = Fields /\ local'[t].pc = "done"
  BY Stepper DEF Leave, Waking, Fields
<1>2. \A f \in Fields \ {"pc"} : local'[t][f] = local[t][f]
  BY Stepper DEF Leave, Waking
<1>3. LocalOK(local'[t], size, resize)
  BY <1>1, <1>2, Stepper DEF Leave, LocalOK, Fields, Working, Growers
<1>4. DataOK'
  BY DEF Leave, OnlyLocal, IInv, DataOK, work, volumes, history
<1>5. local'[t].best = local[t].best /\ local'[t].pc \notin Growers
  BY <1>1, <1>2 DEF Growers, Fields
<1> QED BY <1>0, <1>3, <1>4, <1>5, QuietStep DEF Leave, OnlyLocal, handshake, volumes

\* A list from the queue is a list of nodes; without one the thread waits.
LEMMA TakeOrWaitKeeps ==
  ASSUME IInv, NEW t \in Threads, TakeOrWait(t), row' = row
  PROVE  IInv'
<1>0. \/ Pop(t) /\ queue # <<>>
      \/ queue' = queue /\ \E pc \in {"sleep", "leave"} : Go(t, pc)
  BY DEF TakeOrWait
<1>1. DOMAIN local' = Threads /\ DOMAIN local'[t] = Fields /\ \A s \in Threads \ {t} : Kept(s)
  BY <1>0, Stepper DEF Pop, Go, Kept
<1>2. \A f \in Fields \ {"pc", "current"} : local'[t][f] = local[t][f]
  BY <1>0, Stepper DEF Pop, Go
<1>q. \A l \in Seq(Seq(Nodes)) : l # <<>> => Head(l) \in Seq(Nodes) /\ Tail(l) \in Seq(Seq(Nodes))
  BY HeadTailProperties
<1>p. /\ local'[t].pc \in {"node", "sleep", "leave"}
      /\ local'[t].current = local[t].current \/ (queue # <<>> /\ local'[t].current = Head(queue))
      /\ queue' = queue \/ (queue # <<>> /\ queue' = Tail(queue))
  BY <1>0, <1>1, Stepper DEF Pop, Go, Fields
<1>c. queue' \in Seq(Seq(Nodes)) /\ local'[t].current \in Seq(Nodes)
  BY <1>p, <1>q, Stepper DEF IInv, DataOK, LocalOK
<1>3. LocalOK(local'[t], size, resize)
  BY <1>1, <1>2, <1>p, <1>c, Stepper DEF TakeOrWait, LocalOK, Fields, Working, Growers
<1>4. DataOK'
  BY <1>c DEF TakeOrWait, IInv, DataOK, volumes, history
<1>5. local'[t].best = local[t].best /\ local'[t].pc \notin Growers
  BY <1>2, <1>p DEF Growers, Fields
<1> QED BY <1>1, <1>3, <1>4, <1>5, QuietStep DEF TakeOrWait, volumes

\* A woken thread takes a list of nodes, waits again or leaves.
LEMMA WaitKeeps ==
  ASSUME IInv, NEW t \in Threads, Wait(t), row' = row
  PROVE  IInv'
<1>0. \/ Pop(t) /\ queue # <<>>
      \/ queue' = queue /\ \E pc \in {"sleep", "leave"} : Go(t, pc)
  BY DEF Wait
<1>1. DOMAIN local' = Threads /\ DOMAIN local'[t] = Fields /\ \A s \in Threads \ {t} : Kept(s)
  BY <1>0, Stepper DEF Pop, Go, Kept
<1>2. \A f \in Fields \ {"pc", "current"} : local'[t][f] = local[t][f]
  BY <1>0, Stepper DEF Pop, Go
<1>q. \A l \in Seq(Seq(Nodes)) : l # <<>> => Head(l) \in Seq(Nodes) /\ Tail(l) \in Seq(Seq(Nodes))
  BY HeadTailProperties
<1>p. /\ local'[t].pc \in {"node", "sleep", "leave"}
      /\ local'[t].current = local[t].current \/ (queue # <<>> /\ local'[t].current = Head(queue))
      /\ queue' = queue \/ (queue # <<>> /\ queue' = Tail(queue))
  BY <1>0, <1>1, Stepper DEF Pop, Go, Fields
<1>c. queue' \in Seq(Seq(Nodes)) /\ local'[t].current \in Seq(Nodes)
  BY <1>p, <1>q, Stepper DEF IInv, DataOK, LocalOK
<1>3. LocalOK(local'[t], size, resize)
  BY <1>1, <1>2, <1>p, <1>c, Stepper DEF Wait, LocalOK, Fields, Working, Growers
<1>4. DataOK'
  BY <1>c DEF Wait, IInv, DataOK, volumes, history
<1>5. local'[t].best = local[t].best /\ local'[t].pc \notin Growers
  BY <1>2, <1>p DEF Growers, Fields
<1> QED BY <1>1, <1>3, <1>4, <1>5, QuietStep DEF Wait, volumes

-----------------------------------------------------------------------------
\* Nobody grows the vector yet: this thread is the only one that does.
LEMMA GrowKeeps ==
  ASSUME IInv, NEW t \in Threads, Grow(t), row' = row
  PROVE  IInv'
<1>0. DOMAIN local' = Threads /\ DOMAIN local'[t] = Fields /\ \A s \in Threads \ {t} : local'[s] = local[s]
  BY Stepper DEF Grow, Go
<1>1. \A f \in Fields \ {"pc"} : local'[t][f] = local[t][f]
  BY Stepper DEF Grow, Go
<1>2. local'[t].pc = IF resize THEN "announce" ELSE "await"
  BY <1>0, Stepper DEF Grow, Go, Fields
<1>3. DataOK' /\ UNCHANGED <<size, upperBound>>
  BY DEF Grow, IInv, DataOK, work, volumes, history
<1>4. resize \in BOOLEAN /\ resize' = TRUE
  BY DEF Grow, IInv
<1>5. \A s \in Threads : LocalOK(local[s], size, TRUE)
  BY <1>4 DEF IInv, LocalOK
<1>6. LocalOK(local'[t], size, TRUE)
  BY <1>0, <1>1, <1>2, <1>5, Stepper DEF Grow, LocalOK, Fields, Working, Growers
<1>7. \A s \in Threads : LocalOK(local'[s], size, TRUE) /\ local'[s].best = local[s].best
  BY <1>0, <1>1, <1>5, <1>6 DEF Fields
<1>8. Beyonders' = Beyonders
  BY <1>3, <1>7 DEF Beyonders
<1>9. \A r, s \in Threads : local'[r].pc \in Growers /\ local'[s].pc \in Growers => r = s
  <2>1. CASE resize
    BY <1>0, <1>2, <2>1 DEF IInv, Growers
  <2>2. CASE ~resize
    <3>1. \A s \in Threads : local[s].pc \notin Growers
      BY <2>2 DEF IInv, LocalOK
    <3> QED BY <1>0, <3>1
  <2> QED BY <2>1, <2>2
<1>10. vectorSize' = size + Oversize
  BY Team DEF Grow, IInv
<1> QED BY <1>0, <1>3, <1>4, <1>7, <1>8, <1>9, <1>10 DEF IInv

\* The communities beyond the end are no more than the threads, hence than
\* the slots that one growth adds.
LEMMA GrowingKeeps ==
  ASSUME IInv, NEW t \in Threads, Growing(t), row' = row
  PROVE  IInv'
<1>0. DOMAIN local' = Threads /\ DOMAIN local'[t] = Fields /\ \A s \in Threads \ {t} : local'[s] = local[s]
  BY Stepper DEF Growing, Go
<1>1. \A f \in Fields \ {"pc"} : local'[t][f] = local[t][f]
  BY Stepper DEF Growing, Go
<1>2. local'[t].pc = "place" /\ local[t].pc = "growing" /\ local[t].pc \in Growers
  BY <1>0, Stepper DEF Growing, Go, Fields, Growers
<1>3. resize = TRUE /\ resize' = FALSE /\ size' = size + Oversize /\ vectorSize' = size'
  BY <1>2 DEF Growing, IInv, LocalOK
<1>4. size \in Nat /\ size' \in Nat /\ size <= size' /\ upperBound \in Nat /\ upperBound' = upperBound /\ upperBound <= size'
  BY <1>3, Team, BeyondersFinite DEF IInv, Growing
<1>5. \A s \in Threads : local[s].best \in Int /\ local[s].best < size'
  BY <1>4 DEF IInv, LocalOK
<1>6. \A s \in Threads : local'[s].best = local[s].best
  BY <1>0, <1>1 DEF Fields
<1>7. \A s \in Threads : local'[s].pc \notin Growers
  BY <1>0, <1>2 DEF IInv, Growers
<1>8. \A s \in Threads : LocalOK(local'[s], size', FALSE)
  <2>1. LocalOK(local'[t], size', FALSE)
    BY <1>0, <1>1, <1>2, <1>4, <1>5, <1>6, Stepper DEF LocalOK, Fields, Working, Growers
  <2>2. ASSUME NEW s \in Threads \ {t}
        PROVE  LocalOK(local'[s], size', FALSE)
    <3>1. local'[s] = local[s] /\ LocalOK(local[s], size, resize) /\ local[s].pc \notin Growers
      BY <1>0, <1>7 DEF IInv
    <3> QED BY <1>4, <1>5, <3>1 DEF LocalOK
  <2> QED BY <2>1, <2>2
<1>9. Beyonders' = {} /\ Cardinality(Beyonders') = 0
  <2>1. Beyonders' = {}
    BY <1>4, <1>5, <1>6 DEF Beyonders
  <2> QED BY <2>1, FS_EmptySet
<1>10. DataOK'
  <2>1. Small(size) \subseteq Small(size')
    BY <1>4 DEF Small
  <2>2. Seq(Small(size)) \subseteq Seq(Small(size'))
    BY <2>1, SeqMonotonic
  <2> QED BY <2>1, <2>2 DEF Growing, IInv, DataOK, work, history
<1>11. upperBound' <= size' + Cardinality(Beyonders')
  BY <1>4, <1>9
<1>12. \A s \in Threads : local'[s].best < upperBound' \/ local'[s].best < size'
  BY <1>5, <1>6
<1>13. \A s \in Threads : LocalOK(local'[s], size', resize')
  BY <1>3, <1>8
<1>14. vectorSize' = IF resize' THEN size' + Oversize ELSE size'
  BY <1>3
<1>15. \A r, s \in Threads : local'[r].pc \in Growers /\ local'[s].pc \in Growers => r = s
  BY <1>7
<1>16. size' \in Nat /\ upperBound' \in Nat /\ resize' \in BOOLEAN
  BY <1>3, <1>4
<1> QED BY <1>0, <1>10, <1>11, <1>12, <1>13, <1>14, <1>15, <1>16 DEF IInv

\* A community beyond the end makes its thread one of the Beyonders.
LEMMA ChooseNewKeeps ==
  ASSUME IInv, NEW t \in Threads, ChooseNew(t), row' = row
  PROVE  IInv'
<1>0. DOMAIN local' = Threads /\ DOMAIN local'[t] = Fields /\ \A s \in Threads \ {t} : local'[s] = local[s]
  BY Stepper DEF ChooseNew
<1>1. \A f \in Fields \ {"pc", "best"} : local'[t][f] = local[t][f]
  BY Stepper DEF ChooseNew
<1>2. /\ local'[t].pc = (IF upperBound >= size THEN "grow" ELSE "place") /\ local'[t].best = upperBound
      /\ local[t].pc = "look"
  BY <1>0, Stepper DEF ChooseNew, Beyond, Fields
<1>3. UNCHANGED <<size, resize, vectorSize>> /\ upperBound' = upperBound + 1 /\ DataOK'
  BY DEF ChooseNew, IInv, DataOK, work, handshake
<1>4. size \in Nat /\ upperBound \in Nat /\ local[t].best \in Int /\ local[t].best < size
  BY <1>2 DEF IInv, LocalOK, Growers
<1>5. LocalOK(local'[t], size, resize)
  BY <1>0, <1>1, <1>2, <1>4, Stepper DEF LocalOK, Fields, Working, Growers
<1>6. \A s \in Threads : LocalOK(local'[s], size, resize)
  BY <1>0, <1>5 DEF IInv
<1>7. \A s \in Threads : local'[s].best < upperBound' \/ local'[s].best < size
  <2>1. \A s \in Threads \ {t} : local[s].best \in Int
    BY DEF IInv, LocalOK
  <2> QED BY <1>0, <1>2, <1>3, <1>4, <2>1 DEF IInv
<1>8. \A r, s \in Threads : local'[r].pc \in Growers /\ local'[s].pc \in Growers => r = s
  BY <1>0, <1>2 DEF IInv, Growers
<1>9. upperBound' <= size + Cardinality(Beyonders')
  <2>1. CASE upperBound >= size
    <3>1. t \notin Beyonders /\ Beyonders' = Beyonders \cup {t}
      BY <1>0, <1>2, <1>3, <1>4, <2>1 DEF Beyonders
    <3>2. Cardinality(Beyonders') = Cardinality(Beyonders) + 1
      BY <3>1, BeyondersFinite, FS_AddElement
    <3> QED BY <1>3, <1>4, <3>2, BeyondersFinite DEF IInv
  <2>2. CASE ~(upperBound >= size)
    <3>1. Beyonders' = Beyonders
      BY <1>0, <1>2, <1>3, <1>4, <2>2 DEF Beyonders
    <3> QED BY <1>3, <1>4, <2>2, <3>1, BeyondersFinite
  <2> QED BY <2>1, <2>2
<1> QED BY <1>0, <1>3, <1>4, <1>6, <1>7, <1>8, <1>9 DEF IInv

-----------------------------------------------------------------------------
\* Every step of the moving phase; the other phase leaves its variables alone.
LEMMA MoveKeeps ==
  ASSUME IInv, NEW t \in Threads, MoveStep(t), row' = row
  PROVE  IInv'
  BY TestResizeKeeps, AnnounceKeeps, YieldKeeps, ResumeKeeps, BeginKeeps, LookKeeps, StayKeeps,
     ChooseSeenKeeps, ChooseNewKeeps, GrowKeeps, AwaitKeeps, GrowingKeeps, PlaceKeeps, SpreadKeeps,
     ScheduleKeeps, FinishKeeps, FlushKeeps, NotifyKeeps, TakeOwnKeeps, TakeOrWaitKeeps, WaitKeeps,
     LeaveKeeps DEF MoveStep

\* Refinement moves no node and leaves the volumes alone.
LEMMA StillKeeps == IInv /\ UNCHANGED <<row, result, moveVars>> => IInv'
  BY DEF IInv, DataOK, Beyonders, moveVars

\* The lists the threads start with are sequences of nodes; nobody holds a
\* community yet.
LEMMA InitHolds == Init => IInv
<1> SUFFICES ASSUME Init PROVE IInv
  OBVIOUS
<1>1. PICK c \in Cases : row = c.row /\ result = c.result /\ MoveInit(c.moves)
  BY DEF Init
<1>2. PICK lists \in [Threads -> UNION {SetToSeqs(Block(k)) : k \in 0 .. tcount - 1}] :
        local = [t \in Threads |-> Start(lists[t])]
  BY <1>1 DEF MoveInit
<1>3. \A t \in Threads : lists[t] \in Seq(Nodes)
  <2> SUFFICES ASSUME NEW t \in Threads PROVE lists[t] \in Seq(Nodes)
    OBVIOUS
  <2>1. PICK k \in 0 .. tcount - 1 : lists[t] \in SetToSeqs(Block(k))
    BY <1>2
  <2>2. lists[t] \in [1 .. Cardinality(Block(k)) -> Block(k)]
    BY <2>1 DEF SetToSeqs
  <2>3. Block(k) \subseteq Nodes
    BY DEF Block
  <2>4. IsFiniteSet(Nodes)
    BY Team, FS_Interval DEF Nodes
  <2>5. Cardinality(Block(k)) \in Nat
    BY <2>3, <2>4, FS_Subset, FS_CardinalityType
  <2> HIDE DEF Nodes
  <2> QED BY <2>2, <2>3, <2>5
<1>4. size \in Nat /\ N <= size /\ upperBound = N /\ vectorSize = size /\ resize = FALSE
  BY <1>1, Team DEF MoveInit
<1>5. DataOK
  <2>1. Nodes \subseteq Small(size)
    BY <1>4, Team DEF Nodes, Small
  <2>2. row \in [Nodes -> Seq(Nodes)] /\ result \in [Nodes -> Nodes]
    BY <1>1, CasesAssumption
  <2>3. queue = <<>> /\ seen = [u \in Nodes |-> <<>>]
    BY <1>1 DEF MoveInit
  <2>4. <<>> \in Seq(Small(size)) /\ <<>> \in Seq(Seq(Nodes))
    BY EmptySeq
  <2> QED BY <2>1, <2>2, <2>3, <2>4 DEF DataOK
<1>6. \A t \in Threads : LocalOK(local[t], size, resize) /\ local[t].best < size /\ local[t].pc = "node"
  <2> SUFFICES ASSUME NEW t \in Threads
               PROVE  LocalOK(local[t], size, resize) /\ local[t].best < size /\ local[t].pc = "node"
    OBVIOUS
  <2>1. local[t] = Start(lists[t]) /\ lists[t] \in Seq(Nodes) /\ <<>> \in Seq(Nodes)
    BY <1>2, <1>3, EmptySeq
  <2> QED BY <2>1, <1>4 DEF Start, LocalOK, Fields, Working, Growers, None
<1>7. upperBound <= size + Cardinality(Beyonders)
  BY <1>4, Team, BeyondersFinite
<1> QED BY <1>2, <1>4, <1>5, <1>6, <1>7, Team DEF IInv, Growers

(* Every thread finds the community it moves a node to inside              *)
(* communityVolumes, for any number of threads and any growth that has a   *)
(* slot for each (ParallelLeiden.cpp, the growth of communityVolumes).     *)
THEOREM VolumesHold == Spec => []VolumesFit
<1>1. Init => IInv
  BY InitHolds
<1>2. IInv /\ [Next]_vars => IInv'
  <2> SUFFICES ASSUME IInv, [Next]_vars PROVE IInv'
    OBVIOUS
  <2>1. ASSUME NEW t \in Threads, Move(t)
        PROVE  IInv'
    BY <2>1, MoveKeeps DEF Move
  <2>2. ASSUME NEW t \in Threads, Refine(t)
        PROVE  IInv'
    BY <2>2, StillKeeps DEF Refine
  <2>3. CASE Turn
    BY <2>3, StillKeeps DEF Turn
  <2>4. CASE EndRound
    BY <2>4, StillKeeps DEF EndRound
  <2>5. CASE UNCHANGED vars
    BY <2>5, StillKeeps DEF vars
  <2> QED BY <2>1, <2>2, <2>3, <2>4, <2>5 DEF Next
<1>3. IInv => VolumesFit
  BY DEF IInv, LocalOK, Growers, VolumesFit
<1> QED BY <1>1, <1>2, <1>3, PTL DEF Spec

-----------------------------------------------------------------------------
Idling == {"sleep", "wait", "leave", "done"}
Busy == {"processing", "reprocess"}
NodeStates == {"idle", "queued"} \cup Busy

\* What a thread holds at each place, as far as IInv does not say it.
HeldOK(l) ==
  /\ l.best = None \/ l.best \in Nat
  /\ l.pc \in {"node", "begin", "look"} \cup Idling => l.best = None
  /\ l.pc \in {"grow", "await", "growing", "place", "spread", "schedule"} => l.best # None
  /\ l.pc \in Idling => l.current = <<>> /\ l.fresh = <<>>

\* u is entry k of the list of that kind that w names.
At(u, kind, w, k) ==
  \/ kind = "queue" /\ w \in 1 .. Len(queue) /\ k \in 1 .. Len(queue[w]) /\ queue[w][k] = u
  \/ kind = "current" /\ w \in Threads /\ k \in Ahead(w) /\ local[w].current[k] = u
  \/ kind = "fresh" /\ w \in Threads /\ k \in 1 .. Len(local[w].fresh) /\ local[w].fresh[k] = u

OneSpot ==
  \A u \in Nodes : \A ka, wa, xa, kb, wb, xb :
    At(u, ka, wa, xa) /\ At(u, kb, wb, xb) => ka = kb /\ wa = wb /\ xa = xb
QueuedHasSpot == \A u \in Nodes : state[u] = "queued" <=> \E kind, w, k : At(u, kind, w, k)
BusyHasThread == \A u \in Nodes : state[u] \in Busy <=> \E t \in Threads : InProgress(t) /\ Node(t) = u
OneThread ==
  \A s, t \in Threads : InProgress(s) /\ InProgress(t) /\ Node(s) = Node(t) => s = t

Held == 
  /\ result \in [Nodes -> Nat] /\ seen \in [Nodes -> Seq(Nat)]
  /\ \A t \in Threads : HeldOK(local[t])
Places == OneSpot /\ QueuedHasSpot /\ BusyHasThread /\ OneThread

OInv == Held /\ Places /\ state \in [Nodes -> NodeStates]

\* A thread that no step of its own touched keeps what it holds.
LEMMA KeptHeld ==
  ASSUME NEW s \in Threads, Kept(s), DOMAIN local[s] = Fields
  PROVE  /\ HeldOK(local[s]) => HeldOK(local'[s])
         /\ InProgress(s)' <=> InProgress(s)
         /\ local'[s].current = local[s].current /\ local'[s].fresh = local[s].fresh
         /\ local'[s].best = local[s].best /\ local'[s].todo = local[s].todo
         /\ local'[s].pc = local[s].pc \/ (local[s].pc = "sleep" /\ local'[s].pc = "wait")
<1>1. CASE local'[s] = local[s]
  BY <1>1 DEF InProgress
<1>2. CASE local[s].pc = "sleep" /\ local'[s] = [local[s] EXCEPT !.pc = "wait"]
  <2>1. /\ local'[s].pc = "wait" /\ local'[s].current = local[s].current /\ local'[s].fresh = local[s].fresh
        /\ local'[s].best = local[s].best /\ local'[s].todo = local[s].todo
    BY <1>2 DEF Fields
  <2> QED BY <1>2, <2>1 DEF InProgress, HeldOK, Idling
<1> QED BY <1>1, <1>2 DEF Kept

\* A step that moves no node in or out of a list leaves every node its place.
LEMMA SamePlaces ==
  ASSUME Places, queue' = queue, state' = state,
         \A s \in Threads : /\ InProgress(s)' <=> InProgress(s)
                            /\ local'[s].current = local[s].current /\ local'[s].fresh = local[s].fresh
  PROVE  Places'
<1>1. \A s \in Threads : Ahead(s)' = Ahead(s) /\ Node(s)' = Node(s)
  BY DEF Ahead, Node
<1>2. \A u, kind, w, k : At(u, kind, w, k)' <=> At(u, kind, w, k)
  BY <1>1 DEF At
<1>3. OneSpot'
  BY <1>2 DEF Places, OneSpot
<1>4. QueuedHasSpot'
  BY <1>2 DEF Places, QueuedHasSpot
<1>5. BusyHasThread' /\ OneThread'
  BY <1>1 DEF Places, BusyHasThread, OneThread
<1> QED BY <1>3, <1>4, <1>5 DEF Places

\* A step of t alone that neither takes nor gives away a node.
LEMMA SameHeld ==
  ASSUME IInv, OInv, NEW t \in Threads, queue' = queue, state' = state,
         result' \in [Nodes -> Nat], seen' \in [Nodes -> Seq(Nat)],
         \A s \in Threads \ {t} : Kept(s),
         HeldOK(local'[t]), InProgress(t)' <=> InProgress(t),
         local'[t].current = local[t].current, local'[t].fresh = local[t].fresh
  PROVE  OInv'
<1>0. \A s \in Threads : DOMAIN local[s] = Fields /\ HeldOK(local[s])
  BY Stepper DEF OInv, Held
<1>1. \A s \in Threads \ {t} : /\ HeldOK(local'[s]) /\ (InProgress(s)' <=> InProgress(s))
                               /\ local'[s].current = local[s].current /\ local'[s].fresh = local[s].fresh
  BY <1>0, KeptHeld
<1>2. Held'
  BY <1>1 DEF Held
<1>3. Places'
  BY <1>1, SamePlaces DEF OInv
<1> QED BY <1>2, <1>3 DEF OInv

\* What OInv and IInv say of the thread that steps.
LEMMA Holder ==
  ASSUME IInv, OInv, NEW t \in Threads
  PROVE  /\ DOMAIN local = Threads /\ DOMAIN local[t] = Fields /\ HeldOK(local[t])
         /\ local[t].pc \in Working \/ (local[t].pc \in {"flush", "notify"} /\ local[t].best # None)
              => local[t].current # <<>> /\ Node(t) \in Nodes
         /\ local[t].pc = "schedule" => local[t].todo # <<>> /\ Head(local[t].todo) \in Nodes
         /\ result \in [Nodes -> Nat] /\ seen \in [Nodes -> Seq(Nat)]
         /\ size \in Nat /\ upperBound \in Nat
<1>1. HeldOK(local[t]) /\ size \in Nat /\ upperBound \in Nat
  BY DEF OInv, Held, IInv
<1>2. result \in [Nodes -> Nat] /\ seen \in [Nodes -> Seq(Nat)]
  BY DEF OInv, Held
<1> QED BY <1>1, <1>2, Stepper DEF LocalOK

\* Where a thread has its node in hand.
Inside == {"look", "grow", "await", "growing", "place", "spread", "schedule", "finish"}
Between == {"announce", "yield", "resume", "flush", "notify"}
Has(pc, l) == l.current # <<>> /\ (pc \in Inside \/ (pc \in Between /\ l.best # None))

\* A thread is at work on a node while its place says so and its list is not
\* empty.
LEMMA InProgressHas == \A t \in Threads : InProgress(t) <=> Has(local[t].pc, local[t])
  BY DEF InProgress, Has, Inside, Between

\* Steps that move only the program counter.
LEMMA GoHeld ==
  ASSUME IInv, OInv, NEW t \in Threads, NEW pc, Go(t, pc),
         queue' = queue, state' = state, result' = result, seen' = seen, pc \notin Idling,
         pc \in {"node", "begin", "look"} => local[t].best = None,
         pc \in {"grow", "await", "growing", "place", "spread", "schedule"} => local[t].best # None,
         Has(pc, local[t]) <=> Has(local[t].pc, local[t])
  PROVE  OInv'
<1>1. \A s \in Threads \ {t} : Kept(s)
  BY Holder DEF Go, Kept
<1>2. /\ local'[t].pc = pc /\ local'[t].current = local[t].current /\ local'[t].fresh = local[t].fresh
      /\ local'[t].best = local[t].best
  BY Holder DEF Go, Fields
<1>3. HeldOK(local'[t])
  BY <1>2, Holder DEF HeldOK
<1>4. InProgress(t)' <=> InProgress(t)
  BY <1>2, InProgressHas DEF InProgress, Has, Inside, Between
<1>5. result' \in [Nodes -> Nat] /\ seen' \in [Nodes -> Seq(Nat)]
  BY Holder
<1> QED BY <1>1, <1>2, <1>3, <1>4, <1>5, SameHeld

\* Every entry of a sequence is one of its elements' set.
LEMMA EntryOfSeq == \A S : \A q \in Seq(S) : \A i \in DOMAIN q : q[i] \in S
  BY ElementOfSeq, LenProperties

\* Looking at resize changes nothing a thread holds.
LEMMA TestResizeOwn ==
  ASSUME IInv, OInv, NEW t \in Threads, TestResize(t)
  PROVE  OInv'
  BY GoHeld, Holder DEF TestResize, OnlyLocal, work, history, HeldOK, Has, Inside, Between, Idling, Working

\* Announcing changes nothing a thread holds.
LEMMA AnnounceOwn ==
  ASSUME IInv, OInv, NEW t \in Threads, Announce(t)
  PROVE  OInv'
  BY GoHeld, Holder DEF Announce, work, history, HeldOK, Has, Inside, Between, Idling, Working

\* Yielding changes nothing a thread holds.
LEMMA YieldOwn ==
  ASSUME IInv, OInv, NEW t \in Threads, Yield(t)
  PROVE  OInv'
  BY GoHeld, Holder DEF Yield, OnlyLocal, work, history, HeldOK, Has, Inside, Between, Idling, Working

\* Resuming changes nothing a thread holds.
LEMMA ResumeOwn ==
  ASSUME IInv, OInv, NEW t \in Threads, Resume(t)
  PROVE  OInv'
  BY GoHeld, Holder DEF Resume, work, history, HeldOK, Has, Inside, Between, Idling, Working

\* The node that stays is still its thread's.
LEMMA StayOwn ==
  ASSUME IInv, OInv, NEW t \in Threads, Stay(t)
  PROVE  OInv'
  BY GoHeld, Holder DEF Stay, OnlyLocal, work, history, HeldOK, Has, Inside, Between, Idling, Working

\* Awaiting the others changes nothing a thread holds.
LEMMA AwaitOwn ==
  ASSUME IInv, OInv, NEW t \in Threads, Await(t)
  PROVE  OInv'
  BY GoHeld, Holder DEF Await, OnlyLocal, work, history, HeldOK, Has, Inside, Between, Idling, Working

\* Growing the volumes changes nothing a thread holds.
LEMMA GrowingOwn ==
  ASSUME IInv, OInv, NEW t \in Threads, Growing(t)
  PROVE  OInv'
  BY GoHeld, Holder DEF Growing, work, history, HeldOK, Has, Inside, Between, Idling, Working

\* Asking for room changes nothing a thread holds.
LEMMA GrowOwn ==
  ASSUME IInv, OInv, NEW t \in Threads, Grow(t)
  PROVE  OInv'
  BY GoHeld, Holder DEF Grow, work, history, HeldOK, Has, Inside, Between, Idling, Working

\* The node looked at is its thread's before and after.
LEMMA LookOwn ==
  ASSUME IInv, OInv, NEW t \in Threads, Look(t)
  PROVE  OInv'
<1>1. \A s \in Threads \ {t} : Kept(s)
  BY Holder DEF Look, Kept
<1>2. \A f \in {"pc", "current", "fresh", "best"} : local'[t][f] = local[t][f]
  BY Holder DEF Look, Fields
<1>3. HeldOK(local'[t]) /\ (InProgress(t)' <=> InProgress(t))
  BY <1>2, Holder DEF HeldOK, InProgress
<1>4. seen' \in [Nodes -> Seq(Nat)]
  <2>1. Node(t) \in Nodes /\ Head(local[t].todo) \in Nodes
    BY Holder, Stepper DEF Look, Working
  <2>2. Append(seen[Node(t)], result[Head(local[t].todo)]) \in Seq(Nat)
    BY <2>1, Holder, AppendProperties
  <2> QED BY <2>1, <2>2, Holder DEF Look
<1> QED BY <1>1, <1>2, <1>3, <1>4, SameHeld, Holder DEF Look, work

\* The node that is to move is still its thread's.
LEMMA ChooseSeenOwn ==
  ASSUME IInv, OInv, NEW t \in Threads, NEW c, ChooseSeen(t, c)
  PROVE  OInv'
<1>1. \A s \in Threads \ {t} : Kept(s)
  BY Holder DEF ChooseSeen, Kept
<1>2. /\ local'[t].pc = "place" /\ local'[t].current = local[t].current /\ local'[t].fresh = local[t].fresh
      /\ local'[t].best = c
  BY Holder DEF ChooseSeen, Fields
<1>3. c \in Nat
  <2>1. Node(t) \in Nodes
    BY Holder DEF ChooseSeen, Working
  <2>2. seen[Node(t)] \in Seq(Nat) /\ c \in Range(seen[Node(t)])
    BY <2>1, Holder DEF ChooseSeen
  <2> QED BY <2>2, EntryOfSeq DEF Range
<1>4. HeldOK(local'[t]) /\ (InProgress(t)' <=> InProgress(t))
  <2>1. HeldOK(local'[t])
    BY <1>2, <1>3 DEF HeldOK, None, Idling
  <2>2. InProgress(t) /\ InProgress(t)'
    BY <1>2, Holder DEF InProgress, ChooseSeen, Working
  <2> QED BY <2>1, <2>2
<1> QED BY <1>1, <1>2, <1>4, SameHeld, Holder DEF ChooseSeen, work

\* So it is when its community is new.
LEMMA ChooseNewOwn ==
  ASSUME IInv, OInv, NEW t \in Threads, ChooseNew(t)
  PROVE  OInv'
<1>1. \A s \in Threads \ {t} : Kept(s)
  BY Holder DEF ChooseNew, Kept
<1>2. /\ local'[t].pc \in {"grow", "place"} /\ local'[t].best = upperBound
      /\ local'[t].current = local[t].current /\ local'[t].fresh = local[t].fresh
  BY Holder DEF ChooseNew, Fields
<1>3. HeldOK(local'[t])
  BY <1>2, Holder DEF HeldOK, None, Idling
<1>4. InProgress(t) /\ InProgress(t)'
  BY <1>2, Holder DEF InProgress, ChooseNew, Working
<1> QED BY <1>1, <1>2, <1>3, <1>4, SameHeld, Holder DEF ChooseNew, work

\* A node that was placed is still its thread's until its neighbours are
\* told.
LEMMA PlaceOwn ==
  ASSUME IInv, OInv, NEW t \in Threads, Place(t)
  PROVE  OInv'
<1>1. \A s \in Threads \ {t} : Kept(s)
  BY Holder DEF Place, Kept
<1>2. /\ local'[t].pc = "spread" /\ local'[t].best = local[t].best
      /\ local'[t].current = local[t].current /\ local'[t].fresh = local[t].fresh
  BY Holder DEF Place, Fields
<1>3. local[t].best \in Nat /\ local[t].best # None
  BY Holder DEF Place, HeldOK
<1>4. HeldOK(local'[t])
  BY <1>2, <1>3 DEF HeldOK, Idling
<1>5. InProgress(t) /\ InProgress(t)'
  BY <1>2, Holder DEF InProgress, Place, Working
<1>6. result' \in [Nodes -> Nat] /\ seen' \in [Nodes -> Seq(Nat)]
  <2>1. Node(t) \in Nodes /\ <<>> \in Seq(Nat)
    BY Holder, EmptySeq DEF Place, Working
  <2> QED BY <1>3, <2>1, Holder DEF Place
<1> QED BY <1>1, <1>2, <1>4, <1>5, <1>6, SameHeld DEF Place, work

\* A neighbour that is to be scheduled is in one list at most.
LEMMA SpreadOwn ==
  ASSUME IInv, OInv, NEW t \in Threads, Spread(t)
  PROVE  OInv'
<1>1. \A s \in Threads \ {t} : Kept(s)
  BY Holder DEF Spread, Kept
<1>2. /\ local'[t].pc \in {"finish", "schedule", "spread"} /\ local'[t].best = local[t].best
      /\ local'[t].current = local[t].current /\ local'[t].fresh = local[t].fresh
  BY Holder DEF Spread, Fields
<1>3. HeldOK(local'[t])
  BY <1>2, Holder DEF Spread, HeldOK, Idling
<1>4. InProgress(t) /\ InProgress(t)'
  BY <1>2, Holder DEF InProgress, Spread, Working
<1>5. result' = result /\ seen' = seen /\ queue' = queue /\ state' = state
  BY DEF Spread, OnlyLocal, work, history
<1> QED BY <1>1, <1>2, <1>3, <1>4, <1>5, Holder, SameHeld

\* Waking a thread hands no node over.
LEMMA NotifyOwn ==
  ASSUME IInv, OInv, NEW t \in Threads, Notify(t)
  PROVE  OInv'
<1>1. \A s \in Threads \ {t} : Kept(s)
  BY DEF Notify, Waking, Kept
<1>2. /\ local'[t].pc = IF local[t].best = None THEN "node" ELSE "spread"
      /\ local'[t].current = local[t].current /\ local'[t].fresh = local[t].fresh /\ local'[t].best = local[t].best
  BY Holder DEF Notify, Waking, Fields
<1>3. HeldOK(local'[t])
  BY <1>2, Holder DEF HeldOK, Idling
<1>4. InProgress(t)' <=> InProgress(t)
  BY <1>2, Holder DEF InProgress, Notify
<1>5. result' = result /\ seen' = seen /\ queue' = queue /\ state' = state
  BY DEF Notify, OnlyLocal, work, history
<1> QED BY <1>1, <1>2, <1>3, <1>4, <1>5, Holder, SameHeld

\* A thread leaves without a node.
LEMMA LeaveOwn ==
  ASSUME IInv, OInv, NEW t \in Threads, Leave(t)
  PROVE  OInv'
<1>1. \A s \in Threads \ {t} : Kept(s)
  BY DEF Leave, Waking, Kept
<1>2. /\ local'[t].pc = "done" /\ local[t].pc = "leave" /\ local'[t].best = local[t].best
      /\ local'[t].current = local[t].current /\ local'[t].fresh = local[t].fresh
  BY Holder DEF Leave, Waking, Fields
<1>3. HeldOK(local'[t])
  BY <1>2, Holder DEF HeldOK, Idling
<1>4. InProgress(t)' <=> InProgress(t)
  BY <1>2, Holder DEF InProgress
<1>5. result' = result /\ seen' = seen /\ queue' = queue /\ state' = state
  BY DEF Leave, OnlyLocal, work, history
<1> QED BY <1>1, <1>2, <1>3, <1>4, <1>5, Holder, SameHeld

-----------------------------------------------------------------------------
\* A step of t leaves what the other threads hold; what t holds after it is
\* for the step to say.
LEMMA OthersHeld ==
  ASSUME IInv, OInv, NEW t \in Threads, \A s \in Threads \ {t} : Kept(s), HeldOK(local'[t]),
         result' \in [Nodes -> Nat], seen' \in [Nodes -> Seq(Nat)]
  PROVE  /\ Held'
         /\ \A s \in Threads \ {t} : /\ (InProgress(s)' <=> InProgress(s)) /\ Node(s)' = Node(s)
                                     /\ Ahead(s)' = Ahead(s)
                                     /\ local'[s].current = local[s].current /\ local'[s].fresh = local[s].fresh
<1>0. \A s \in Threads : DOMAIN local[s] = Fields /\ HeldOK(local[s])
  BY Stepper DEF OInv, Held
<1>1. \A s \in Threads \ {t} : /\ HeldOK(local'[s]) /\ (InProgress(s)' <=> InProgress(s))
                               /\ local'[s].current = local[s].current /\ local'[s].fresh = local[s].fresh
  BY <1>0, KeptHeld
<1>2. Held'
  BY <1>1 DEF Held
<1>3. \A s \in Threads \ {t} : Node(s)' = Node(s) /\ Ahead(s)' = Ahead(s)
  BY <1>1 DEF Node, Ahead
<1> QED BY <1>1, <1>2, <1>3

\* The node at the head of the list leaves the list for the thread's hands.
LEMMA BeginOwn ==
  ASSUME IInv, OInv, NEW t \in Threads, Begin(t)
  PROVE  OInv'
<1>1. \A s \in Threads \ {t} : Kept(s)
  BY Holder DEF Begin, Kept
<1>2. /\ local'[t].pc = "look" /\ local[t].pc = "begin" /\ local'[t].best = local[t].best
      /\ local'[t].current = local[t].current /\ local'[t].fresh = local[t].fresh
  BY Holder DEF Begin, Fields
<1> DEFINE u0 == Node(t)
<1>3. u0 \in Nodes /\ local[t].current # <<>> /\ local[t].current \in Seq(Nodes) /\ local[t].fresh \in Seq(Nodes)
  BY <1>2, Holder, Stepper DEF LocalOK, Working
<1>4. Len(local[t].current) \in Nat \ {0} /\ local[t].current[1] = u0
  BY <1>3, LenProperties, EmptySeq DEF Node
<1>5. HeldOK(local'[t])
  BY <1>2, Holder DEF HeldOK, Idling
<1>6. ~InProgress(t) /\ InProgress(t)' /\ Node(t)' = u0
  BY <1>2, <1>3 DEF InProgress, Node
<1>7. Ahead(t) = 1 .. Len(local[t].current) /\ Ahead(t)' = 2 .. Len(local[t].current)
  BY <1>2, <1>6 DEF Ahead
<1>8. result' \in [Nodes -> Nat] /\ seen' \in [Nodes -> Seq(Nat)]
  <2>1. <<>> \in Seq(Nat)
    BY EmptySeq
  <2> QED BY <1>3, <2>1, Holder DEF Begin
<1>9. At(u0, "current", t, 1)
  BY <1>4, <1>7 DEF At
<1>10. state' = [state EXCEPT ![u0] = "processing"] /\ state[u0] = "queued" /\ state \in [Nodes -> NodeStates]
  <2>1. state[u0] = "queued"
    BY <1>3, <1>9 DEF OInv, Places, QueuedHasSpot
  <2> QED BY <2>1 DEF Begin, OInv
<1> HIDE DEF u0
<1>o. Held' /\ \A s \in Threads \ {t} : (InProgress(s)' <=> InProgress(s)) /\ Node(s)' = Node(s)
  BY <1>1, <1>5, <1>8, OthersHeld
<1>11. \A u, kind, w, k : At(u, kind, w, k)' <=> At(u, kind, w, k) /\ ~(kind = "current" /\ w = t /\ k = 1)
  <2>1. queue' = queue
    BY DEF Begin
  <2>2. \A s \in Threads \ {t} : Ahead(s)' = Ahead(s) /\ local'[s].current = local[s].current /\ local'[s].fresh = local[s].fresh
    BY <1>1, <1>5, <1>8, OthersHeld
  <2> QED BY <1>2, <1>4, <1>7, <2>1, <2>2 DEF At
<1>12. \A u \in Nodes \ {u0} : ~At(u, "current", t, 1)
  BY <1>3, <1>9 DEF At
<1>13. \A kind, w, k : At(u0, kind, w, k) => kind = "current" /\ w = t /\ k = 1
  BY <1>3, <1>9 DEF OInv, Places, OneSpot
<1>14. OneSpot'
  BY <1>11 DEF OInv, Places, OneSpot
<1>15. QueuedHasSpot'
  <2> SUFFICES ASSUME NEW u \in Nodes
               PROVE  state'[u] = "queued" <=> \E kind, w, k : At(u, kind, w, k)'
    BY DEF QueuedHasSpot
  <2>1. CASE u = u0
    BY <1>3, <1>10, <1>11, <1>13, <2>1
  <2>2. CASE u # u0
    <3>1. \A kind, w, k : At(u, kind, w, k)' <=> At(u, kind, w, k)
      BY <1>11, <1>12, <2>2
    <3> QED BY <1>3, <1>10, <2>2, <3>1 DEF OInv, Places, QueuedHasSpot
  <2> QED BY <2>1, <2>2
<1>16. \A s \in Threads : InProgress(s) => Node(s) # u0
  BY <1>3, <1>10 DEF OInv, Places, BusyHasThread, Busy
<1>17. BusyHasThread' /\ OneThread'
  <2>1. OneThread'
    BY <1>6, <1>16, <1>o DEF OInv, Places, OneThread
  <2>2. BusyHasThread'
    <3> SUFFICES ASSUME NEW u \in Nodes
                 PROVE  state'[u] \in Busy <=> \E s \in Threads : InProgress(s)' /\ Node(s)' = u
      BY DEF BusyHasThread
    <3>1. CASE u = u0
      BY <1>3, <1>6, <1>10, <3>1 DEF Busy
    <3>2. CASE u # u0
      BY <1>3, <1>6, <1>10, <1>o, <3>2 DEF OInv, Places, BusyHasThread
    <3> QED BY <3>1, <3>2
  <2> QED BY <2>1, <2>2
<1>18. state' \in [Nodes -> NodeStates]
  BY <1>3, <1>10 DEF NodeStates, Busy
<1> QED BY <1>14, <1>15, <1>17, <1>18, <1>o DEF OInv, Places

\* A step that takes no node in hand and puts none down, and after which
\* every entry of a list is an old one elsewhere.
LEMMA Rearranged ==
  ASSUME OInv, Held', state' = state,
         \A s \in Threads : (InProgress(s)' <=> InProgress(s)) /\ (InProgress(s) => Node(s)' = Node(s)),
         OneSpot', \A u \in Nodes : (\E kind, w, k : At(u, kind, w, k)') <=> \E kind, w, k : At(u, kind, w, k)
  PROVE  OInv'
<1>1. QueuedHasSpot'
  BY DEF OInv, Places, QueuedHasSpot
<1>2. BusyHasThread' /\ OneThread'
  BY DEF OInv, Places, BusyHasThread, OneThread
<1> QED BY <1>1, <1>2 DEF OInv, Places

\* The nodes that a thread found are its own before and after.
LEMMA TakeOwnOwn ==
  ASSUME IInv, OInv, NEW t \in Threads, TakeOwn(t)
  PROVE  OInv'
<1>1. \A s \in Threads \ {t} : Kept(s)
  BY Holder DEF TakeOwn, Kept
<1>2. /\ local'[t].pc = "node" /\ local[t].pc = "node" /\ local'[t].best = local[t].best
      /\ local'[t].current = local[t].fresh /\ local'[t].fresh = <<>> /\ local[t].current = <<>>
  BY Holder DEF TakeOwn, Fields
<1>3. HeldOK(local'[t])
  BY <1>2, Holder DEF HeldOK, Idling
<1>4. ~InProgress(t) /\ ~InProgress(t)'
  BY <1>2 DEF InProgress
<1>5. Ahead(t) = {} /\ Ahead(t)' = 1 .. Len(local[t].fresh) /\ Len(local'[t].fresh) = 0
  BY <1>2, <1>4 DEF Ahead
<1>6. queue' = queue /\ state' = state /\ result' = result /\ seen' = seen
  BY DEF TakeOwn, OnlyLocal, work, history
<1>o. Held' /\ \A s \in Threads \ {t} : (InProgress(s)' <=> InProgress(s)) /\ Node(s)' = Node(s)
  BY <1>1, <1>3, <1>6, Holder, OthersHeld
<1>7. \A u, kind, w, k : At(u, kind, w, k)' <=> IF kind # "queue" /\ w = t THEN kind = "current" /\ At(u, "fresh", t, k)
                                                ELSE At(u, kind, w, k)
  <2>1. \A s \in Threads \ {t} : Ahead(s)' = Ahead(s) /\ local'[s].current = local[s].current /\ local'[s].fresh = local[s].fresh
    BY <1>1, <1>3, <1>6, Holder, OthersHeld
  <2>2. local[t].fresh \in Seq(Nodes) /\ Len(local[t].fresh) \in Nat
    BY Stepper, LenProperties DEF LocalOK
  <2> QED BY <1>2, <1>5, <1>6, <2>1, <2>2 DEF At
<1>8. OneSpot'
  BY <1>7 DEF OInv, Places, OneSpot
<1>9. \A u, k : ~At(u, "current", t, k)
  BY <1>5 DEF At
<1>10. \A u \in Nodes : (\E kind, w, k : At(u, kind, w, k)') <=> \E kind, w, k : At(u, kind, w, k)
  <2> SUFFICES ASSUME NEW u \in Nodes
               PROVE  (\E kind, w, k : At(u, kind, w, k)') <=> \E kind, w, k : At(u, kind, w, k)
    OBVIOUS
  <2>1. ASSUME NEW kind, NEW w, NEW k, At(u, kind, w, k)'
        PROVE  \E ka, wa, xa : At(u, ka, wa, xa)
    BY <1>7, <2>1
  <2>2. ASSUME NEW kind, NEW w, NEW k, At(u, kind, w, k)
        PROVE  \E ka, wa, xa : At(u, ka, wa, xa)'
    <3>1. kind \in {"queue", "current", "fresh"}
      BY <2>2 DEF At
    <3>2. CASE kind = "fresh" /\ w = t
      BY <1>7, <2>2, <3>2
    <3>3. CASE ~(kind = "fresh" /\ w = t)
      BY <1>7, <1>9, <2>2, <3>1, <3>3
    <3> QED BY <3>2, <3>3
  <2> QED BY <2>1, <2>2
<1> QED BY <1>4, <1>6, <1>8, <1>10, <1>o, Rearranged

\* Nodes handed to the queue are the queue's, and no longer the thread's.
LEMMA FlushOwn ==
  ASSUME IInv, OInv, NEW t \in Threads, Flush(t)
  PROVE  OInv'
<1>1. \A s \in Threads \ {t} : Kept(s)
  BY Holder DEF Flush, Kept
<1>2. /\ local'[t].pc = "notify" /\ local[t].pc = "flush" /\ local'[t].best = local[t].best
      /\ local'[t].current = local[t].current /\ local'[t].fresh = <<>> /\ queue' = Append(queue, local[t].fresh)
  BY Holder DEF Flush, Fields
<1>3. HeldOK(local'[t])
  BY <1>2, Holder DEF HeldOK, Idling
<1>4. (InProgress(t)' <=> InProgress(t)) /\ Node(t)' = Node(t) /\ Ahead(t)' = Ahead(t) /\ Len(local'[t].fresh) = 0
  <2>1. (InProgress(t)' <=> InProgress(t)) /\ Node(t)' = Node(t)
    BY <1>2 DEF InProgress, Node
  <2> QED BY <1>2, <2>1 DEF Ahead
<1>6. state' = state /\ result' = result /\ seen' = seen
  BY DEF Flush, history
<1>o. Held' /\ \A s \in Threads \ {t} : (InProgress(s)' <=> InProgress(s)) /\ Node(s)' = Node(s)
  BY <1>1, <1>3, <1>6, Holder, OthersHeld
<1>5. /\ queue \in Seq(Seq(Nodes)) /\ Len(queue) \in Nat /\ Len(queue') = Len(queue) + 1
      /\ queue'[Len(queue) + 1] = local[t].fresh /\ \A i \in 1 .. Len(queue) : queue'[i] = queue[i]
  <2>1. local[t].fresh \in Seq(Nodes) /\ queue \in Seq(Seq(Nodes))
    BY Stepper DEF LocalOK, IInv, DataOK
  <2> QED BY <1>2, <2>1, AppendProperties, LenProperties
<1>7. \A u, kind, w, k : At(u, kind, w, k)' <=>
        \/ kind = "queue" /\ w = Len(queue) + 1 /\ At(u, "fresh", t, k)
        \/ ~(kind = "fresh" /\ w = t) /\ At(u, kind, w, k)
  <2>1. \A s \in Threads \ {t} : Ahead(s)' = Ahead(s) /\ local'[s].current = local[s].current /\ local'[s].fresh = local[s].fresh
    BY <1>1, <1>3, <1>6, Holder, OthersHeld
  <2> SUFFICES ASSUME NEW u, NEW kind, NEW w, NEW k
               PROVE  At(u, kind, w, k)' <=>
                        \/ kind = "queue" /\ w = Len(queue) + 1 /\ At(u, "fresh", t, k)
                        \/ ~(kind = "fresh" /\ w = t) /\ At(u, kind, w, k)
    OBVIOUS
  <2>2. CASE kind = "queue"
    BY <1>5, <2>2 DEF At
  <2>3. CASE kind # "queue"
    BY <1>2, <1>4, <2>1, <2>3 DEF At
  <2> QED BY <2>2, <2>3
<1>8. \A u, k : ~At(u, "queue", Len(queue) + 1, k)
  BY <1>5 DEF At
<1>9. OneSpot'
  BY <1>7, <1>8 DEF OInv, Places, OneSpot
<1>10. \A u \in Nodes : (\E kind, w, k : At(u, kind, w, k)') <=> \E kind, w, k : At(u, kind, w, k)
  <2> SUFFICES ASSUME NEW u \in Nodes
               PROVE  (\E kind, w, k : At(u, kind, w, k)') <=> \E kind, w, k : At(u, kind, w, k)
    OBVIOUS
  <2>1. ASSUME NEW kind, NEW w, NEW k, At(u, kind, w, k)'
        PROVE  \E ka, wa, xa : At(u, ka, wa, xa)
    BY <1>7, <2>1
  <2>2. ASSUME NEW kind, NEW w, NEW k, At(u, kind, w, k)
        PROVE  \E ka, wa, xa : At(u, ka, wa, xa)'
    <3>2. CASE kind = "fresh" /\ w = t
      BY <1>7, <2>2, <3>2
    <3>3. CASE ~(kind = "fresh" /\ w = t)
      BY <1>7, <2>2, <3>3
    <3> QED BY <3>2, <3>3
  <2> QED BY <2>1, <2>2
<1> QED BY <1>4, <1>6, <1>9, <1>10, <1>o, Rearranged

\* The first list of the queue becomes the thread's, which has none.
LEMMA PopOwn ==
  ASSUME IInv, OInv, NEW t \in Threads, Pop(t), queue # <<>>,
         local[t].pc \in {"node", "wait"}, local[t].current = <<>>,
         state' = state, result' = result, seen' = seen
  PROVE  OInv'
<1>1. \A s \in Threads \ {t} : Kept(s)
  BY Holder DEF Pop, Kept
<1>2. /\ local'[t].pc = "node" /\ local'[t].best = local[t].best
      /\ local'[t].current = Head(queue) /\ local'[t].fresh = local[t].fresh /\ queue' = Tail(queue)
  BY Holder DEF Pop, Fields
<1>3. HeldOK(local'[t])
  BY <1>2, Holder DEF HeldOK, Idling
<1>4. ~InProgress(t) /\ ~InProgress(t)'
  BY <1>2 DEF InProgress
<1>o. Held' /\ \A s \in Threads \ {t} : (InProgress(s)' <=> InProgress(s)) /\ Node(s)' = Node(s)
  BY <1>1, <1>3, Holder, OthersHeld
<1>5. /\ Len(queue) \in Nat \ {0} /\ Len(queue') = Len(queue) - 1 /\ local'[t].current = queue[1]
      /\ \A i \in 1 .. Len(queue) - 1 : queue'[i] = queue[i + 1]
  <2>1. queue \in Seq(Seq(Nodes))
    BY DEF IInv, DataOK
  <2> QED BY <1>2, <2>1, HeadTailProperties, LenProperties, EmptySeq
<1>6. Ahead(t) = {} /\ Ahead(t)' = 1 .. Len(queue[1])
  BY <1>2, <1>4, <1>5 DEF Ahead
<1>7. \A u, kind, w, k : At(u, kind, w, k)' <=>
        \/ kind = "queue" /\ w \in Nat \ {0} /\ At(u, "queue", w + 1, k)
        \/ kind = "current" /\ w = t /\ At(u, "queue", 1, k)
        \/ kind # "queue" /\ At(u, kind, w, k)
  <2>1. \A s \in Threads \ {t} : Ahead(s)' = Ahead(s) /\ local'[s].current = local[s].current /\ local'[s].fresh = local[s].fresh
    BY <1>1, <1>3, Holder, OthersHeld
  <2> SUFFICES ASSUME NEW u, NEW kind, NEW w, NEW k
               PROVE  At(u, kind, w, k)' <=>
                        \/ kind = "queue" /\ w \in Nat \ {0} /\ At(u, "queue", w + 1, k)
                        \/ kind = "current" /\ w = t /\ At(u, "queue", 1, k)
                        \/ kind # "queue" /\ At(u, kind, w, k)
    OBVIOUS
  <2>2. CASE kind = "queue"
    <3>1. w \in 1 .. Len(queue') <=> w \in Nat \ {0} /\ w + 1 \in 1 .. Len(queue)
      BY <1>5
    <3>2. w \in 1 .. Len(queue') => queue'[w] = queue[w + 1]
      BY <1>5
    <3> QED BY <2>2, <3>1, <3>2 DEF At
  <2>3. CASE kind # "queue" /\ w = t
    <3>1. 1 \in 1 .. Len(queue)
      BY <1>5
    <3> QED BY <1>2, <1>5, <1>6, <2>3, <3>1 DEF At
  <2>4. CASE kind # "queue" /\ w # t
    BY <2>1, <2>4 DEF At
  <2> QED BY <2>2, <2>3, <2>4
<1>8. \A u, w, k : At(u, "queue", w, k) => w \in Nat \ {0}
  BY <1>5 DEF At
<1>m. \A u, k : ~At(u, "current", t, k)
  BY <1>6 DEF At
<1>9. OneSpot'
  <2> SUFFICES ASSUME NEW u \in Nodes, NEW ka, NEW wa, NEW xa, NEW kb, NEW wb, NEW xb,
                      At(u, ka, wa, xa)', At(u, kb, wb, xb)'
               PROVE  ka = kb /\ wa = wb /\ xa = xb
    BY DEF OneSpot
  <2>0. \A kind, w, k, la, lb, lc : At(u, kind, w, k) /\ At(u, la, lb, lc) => kind = la /\ w = lb /\ k = lc
    BY DEF OInv, Places, OneSpot
  <2>1. CASE ka = "queue" /\ kb = "queue"
    <3>1. wa \in Nat \ {0} /\ wb \in Nat \ {0} /\ At(u, "queue", wa + 1, xa) /\ At(u, "queue", wb + 1, xb)
      BY <1>7, <2>1
    <3>2. wa + 1 = wb + 1 /\ xa = xb
      BY <2>0, <3>1
    <3> QED BY <2>1, <3>1, <3>2
  <2>2. CASE ka = "queue" /\ kb # "queue"
    <3>1. wa \in Nat \ {0} /\ At(u, "queue", wa + 1, xa)
      BY <1>7, <2>2
    <3>2. At(u, "queue", 1, xb) \/ At(u, kb, wb, xb)
      BY <1>7, <2>2
    <3> QED BY <2>0, <2>2, <3>1, <3>2
  <2>3. CASE ka # "queue" /\ kb = "queue"
    <3>1. wb \in Nat \ {0} /\ At(u, "queue", wb + 1, xb)
      BY <1>7, <2>3
    <3>2. At(u, "queue", 1, xa) \/ At(u, ka, wa, xa)
      BY <1>7, <2>3
    <3> QED BY <2>0, <2>3, <3>1, <3>2
  <2>4. CASE ka # "queue" /\ kb # "queue"
    <3>1. (ka = "current" /\ wa = t /\ At(u, "queue", 1, xa)) \/ At(u, ka, wa, xa)
      BY <1>7, <2>4
    <3>2. (kb = "current" /\ wb = t /\ At(u, "queue", 1, xb)) \/ At(u, kb, wb, xb)
      BY <1>7, <2>4
    <3> QED BY <2>0, <2>4, <3>1, <3>2
  <2> QED BY <2>1, <2>2, <2>3, <2>4
<1>10. \A u \in Nodes : (\E kind, w, k : At(u, kind, w, k)') <=> \E kind, w, k : At(u, kind, w, k)
  <2> SUFFICES ASSUME NEW u \in Nodes
               PROVE  (\E kind, w, k : At(u, kind, w, k)') <=> \E kind, w, k : At(u, kind, w, k)
    OBVIOUS
  <2>1. ASSUME NEW kind, NEW w, NEW k, At(u, kind, w, k)'
        PROVE  \E ka, wa, xa : At(u, ka, wa, xa)
    BY <1>7, <2>1
  <2>2. ASSUME NEW kind, NEW w, NEW k, At(u, kind, w, k)
        PROVE  \E ka, wa, xa : At(u, ka, wa, xa)'
    <3>1. CASE kind = "queue" /\ w = 1
      <4>1. At(u, "current", t, k)'
        BY <1>7, <2>2, <3>1
      <4> QED BY <4>1
    <3>2. CASE kind = "queue" /\ w # 1
      <4>1. w \in Nat \ {0}
        BY <1>8, <2>2, <3>2
      <4>2. w - 1 \in Nat \ {0} /\ (w - 1) + 1 = w
        BY <3>2, <4>1
      <4>3. At(u, "queue", w - 1, k)'
        BY <1>7, <2>2, <3>2, <4>2
      <4> QED BY <4>3
    <3>3. CASE kind # "queue"
      BY <1>7, <2>2, <3>3
    <3> QED BY <3>1, <3>2, <3>3
  <2> QED BY <2>1, <2>2
<1> QED BY <1>4, <1>9, <1>10, <1>o, Rearranged

\* Going to sleep or leaving, with nothing in hand.
LEMMA RestOwn ==
  ASSUME IInv, OInv, NEW t \in Threads, NEW pc \in {"sleep", "leave"}, Go(t, pc),
         local[t].pc \in {"node", "wait"}, local[t].current = <<>>, local[t].fresh = <<>>,
         queue' = queue, state' = state, result' = result, seen' = seen
  PROVE  OInv'
<1>1. \A s \in Threads \ {t} : Kept(s)
  BY Holder DEF Go, Kept
<1>2. /\ local'[t].pc = pc /\ local'[t].best = local[t].best
      /\ local'[t].current = local[t].current /\ local'[t].fresh = local[t].fresh
  BY Holder DEF Go, Fields
<1>3. HeldOK(local'[t])
  BY <1>2, Holder DEF HeldOK, Idling
<1>4. ~InProgress(t) /\ ~InProgress(t)'
  BY <1>2 DEF InProgress
<1> QED BY <1>1, <1>2, <1>3, <1>4, Holder, SameHeld

\* A list taken from the queue is in the queue no more.
LEMMA TakeOrWaitOwn ==
  ASSUME IInv, OInv, NEW t \in Threads, TakeOrWait(t)
  PROVE  OInv'
<1>1. /\ local[t].pc = "node" /\ local[t].current = <<>> /\ local[t].fresh = <<>>
      /\ state' = state /\ result' = result /\ seen' = seen
      /\ (queue # <<>> /\ Pop(t)) \/ (queue' = queue /\ \E pc \in {"sleep", "leave"} : Go(t, pc))
  BY DEF TakeOrWait, history
<1> QED BY <1>1, PopOwn, RestOwn

\* So is a list taken after waiting.
LEMMA WaitOwn ==
  ASSUME IInv, OInv, NEW t \in Threads, Wait(t)
  PROVE  OInv'
<1>1. /\ local[t].pc = "wait" /\ local[t].current = <<>> /\ local[t].fresh = <<>>
  BY Holder DEF Wait, HeldOK, Idling
<1>2. /\ state' = state /\ result' = result /\ seen' = seen
      /\ (queue # <<>> /\ Pop(t)) \/ (queue' = queue /\ \E pc \in {"sleep", "leave"} : Go(t, pc))
  BY DEF Wait, history
<1> QED BY <1>1, <1>2, PopOwn, RestOwn

\* A node that was idle, hence in no list, goes into the thread's own.
LEMMA ScheduleOwn ==
  ASSUME IInv, OInv, NEW t \in Threads, Schedule(t)
  PROVE  OInv'
<1> DEFINE x == Head(local[t].todo)
           fresh == local[t].fresh
<1>1. \A s \in Threads \ {t} : Kept(s)
  BY Holder DEF Schedule, Kept
<1>2. local[t].pc = "schedule" /\ x \in Nodes /\ fresh \in Seq(Nodes) /\ Len(fresh) \in Nat
  BY Holder, Stepper, LenProperties DEF Schedule, LocalOK
<1>3. /\ state \in [Nodes -> NodeStates] /\ state' = [state EXCEPT ![x] = Marked(@)]
      /\ queue' = queue /\ result' = result /\ seen' = seen
  BY DEF OInv, Schedule, history
<1>4. /\ local'[t].pc \in {"spread", "flush"} /\ local'[t].best = local[t].best
      /\ local'[t].current = local[t].current
      /\ local'[t].fresh = IF state[x] = "idle" THEN Append(fresh, x) ELSE fresh
  <2>1. CASE state[x] = "idle"
    BY <2>1, Holder DEF Schedule, WithPushed, Fields
  <2>2. CASE state[x] # "idle"
    BY <2>2, Holder DEF Schedule, Fields
  <2> QED BY <2>1, <2>2
<1>5. HeldOK(local'[t])
  BY <1>2, <1>4, Holder DEF HeldOK, Idling
<1>6. InProgress(t) /\ InProgress(t)' /\ Node(t)' = Node(t) /\ Ahead(t)' = Ahead(t)
  <2>1. InProgress(t) /\ InProgress(t)' /\ Node(t)' = Node(t)
    BY <1>2, <1>4, Holder DEF InProgress, Node, HeldOK, Working
  <2> QED BY <1>4, <2>1 DEF Ahead
<1>o. Held' /\ \A s \in Threads \ {t} : (InProgress(s)' <=> InProgress(s)) /\ Node(s)' = Node(s)
  BY <1>1, <1>3, <1>5, Holder, OthersHeld
<1>k. \A s \in Threads : (InProgress(s)' <=> InProgress(s)) /\ Node(s)' = Node(s)
  BY <1>6, <1>o
<1>7. \A s \in Threads \ {t} : Ahead(s)' = Ahead(s) /\ local'[s].current = local[s].current /\ local'[s].fresh = local[s].fresh
  BY <1>1, <1>3, <1>5, Holder, OthersHeld
<1> HIDE DEF x, fresh
<1>8. CASE state[x] = "idle"
  <2>1. /\ Len(local'[t].fresh) = Len(fresh) + 1 /\ local'[t].fresh[Len(fresh) + 1] = x
        /\ \A k \in 1 .. Len(fresh) : local'[t].fresh[k] = fresh[k]
    BY <1>2, <1>4, <1>8, AppendProperties
  <2>2. \A u, kind, w, k : At(u, kind, w, k)' <=>
          At(u, kind, w, k) \/ (u = x /\ kind = "fresh" /\ w = t /\ k = Len(fresh) + 1)
    <3> SUFFICES ASSUME NEW u, NEW kind, NEW w, NEW k
                 PROVE  At(u, kind, w, k)' <=>
                          At(u, kind, w, k) \/ (u = x /\ kind = "fresh" /\ w = t /\ k = Len(fresh) + 1)
      OBVIOUS
    <3>1. CASE kind = "fresh" /\ w = t
      <4>1. k \in 1 .. Len(fresh) + 1 <=> k \in 1 .. Len(fresh) \/ k = Len(fresh) + 1
        BY <1>2
      <4> QED BY <2>1, <3>1, <4>1 DEF At, fresh
    <3>2. CASE ~(kind = "fresh" /\ w = t)
      BY <1>3, <1>4, <1>6, <1>7, <3>2 DEF At
    <3> QED BY <3>1, <3>2
  <2>3. state'[x] = "queued" /\ \A u \in Nodes \ {x} : state'[u] = state[u]
    BY <1>2, <1>3, <1>8 DEF Marked
  <2>4. \A kind, w, k : ~At(x, kind, w, k)
    BY <1>2, <1>8 DEF OInv, Places, QueuedHasSpot
  <2>5. OneSpot'
    BY <2>2, <2>4 DEF OInv, Places, OneSpot
  <2>6. QueuedHasSpot'
    <3> SUFFICES ASSUME NEW u \in Nodes
                 PROVE  state'[u] = "queued" <=> \E kind, w, k : At(u, kind, w, k)'
      BY DEF QueuedHasSpot
    <3>1. CASE u = x
      <4>1. \E k : At(u, "fresh", t, k)'
        BY <2>2, <3>1
      <4> QED BY <2>3, <3>1, <4>1
    <3>2. CASE u # x
      BY <2>2, <2>3, <3>2 DEF OInv, Places, QueuedHasSpot
    <3> QED BY <3>1, <3>2
  <2>7. OneThread'
    BY <1>k DEF OInv, Places, OneThread
  <2>8. BusyHasThread'
    <3> SUFFICES ASSUME NEW u \in Nodes
                 PROVE  state'[u] \in Busy <=> \E s \in Threads : InProgress(s)' /\ Node(s)' = u
      BY DEF BusyHasThread
    <3>1. state'[u] \in Busy <=> state[u] \in Busy
      BY <1>8, <2>3 DEF Busy
    <3> QED BY <1>k, <3>1 DEF OInv, Places, BusyHasThread
  <2>9. state' \in [Nodes -> NodeStates]
    BY <1>2, <1>3, <1>8 DEF Marked, NodeStates
  <2> QED BY <2>5, <2>6, <2>7, <2>8, <2>9, <1>o DEF OInv, Places
<1>9. CASE state[x] # "idle"
  <2>1. \A u, kind, w, k : At(u, kind, w, k)' <=> At(u, kind, w, k)
    <3>1. \A s \in Threads : Ahead(s)' = Ahead(s) /\ local'[s].current = local[s].current /\ local'[s].fresh = local[s].fresh
      BY <1>4, <1>6, <1>7, <1>9 DEF fresh
    <3> QED BY <1>3, <3>1 DEF At
  <2>2. /\ state' \in [Nodes -> NodeStates]
        /\ \A u \in Nodes : (state'[u] = "queued" <=> state[u] = "queued") /\ (state'[u] \in Busy <=> state[u] \in Busy)
    BY <1>2, <1>3, <1>9 DEF Marked, NodeStates, Busy
  <2>3. OneSpot'
    BY <2>1 DEF OInv, Places, OneSpot
  <2>4. QueuedHasSpot'
    BY <2>1, <2>2 DEF OInv, Places, QueuedHasSpot
  <2>5. OneThread' /\ BusyHasThread'
    BY <1>k, <2>2 DEF OInv, Places, OneThread, BusyHasThread
  <2> QED BY <2>2, <2>3, <2>4, <2>5, <1>o DEF OInv, Places
<1> QED BY <1>8, <1>9

\* The node leaves the thread's hands, for its own list if it was marked.
LEMMA FinishOwn ==
  ASSUME IInv, OInv, NEW t \in Threads, Finish(t)
  PROVE  OInv'
<1> DEFINE u0 == Node(t)
           fresh == local[t].fresh
           current == local[t].current
<1>1. \A s \in Threads \ {t} : Kept(s)
  BY Holder DEF Finish, WithPushed, Kept
<1>2. /\ local[t].pc = "finish" /\ u0 \in Nodes /\ fresh \in Seq(Nodes) /\ Len(fresh) \in Nat
      /\ current \in Seq(Nodes) /\ current # <<>>
  BY Holder, Stepper, LenProperties DEF Finish, LocalOK, Working
<1>3. /\ state \in [Nodes -> NodeStates] /\ state' = [state EXCEPT ![u0] = Processed(@)]
      /\ queue' = queue /\ result' = result /\ seen' = seen
  BY DEF OInv, Finish, history
<1>4. /\ local'[t].pc \in {"node", "flush"} /\ local'[t].best = None
      /\ local'[t].current = Tail(current)
      /\ local'[t].fresh = IF state[u0] = "processing" THEN fresh ELSE Append(fresh, u0)
  <2>1. CASE state[u0] = "processing"
    BY <2>1, Holder DEF Finish, Fields
  <2>2. CASE state[u0] # "processing"
    BY <2>2, Holder DEF Finish, WithPushed, Fields
  <2> QED BY <2>1, <2>2
<1>5. HeldOK(local'[t])
  BY <1>2, <1>4, Holder DEF HeldOK, Idling
<1>6. InProgress(t) /\ ~InProgress(t)'
  BY <1>2, <1>4 DEF InProgress
<1>7. /\ Len(current) \in Nat \ {0} /\ Len(local'[t].current) = Len(current) - 1
      /\ \A k \in 1 .. Len(current) - 1 : local'[t].current[k] = current[k + 1]
  BY <1>2, <1>4, HeadTailProperties, LenProperties, EmptySeq
<1>8. Ahead(t) = 2 .. Len(current) /\ Ahead(t)' = 1 .. Len(current) - 1
  BY <1>6, <1>7 DEF Ahead
<1>o. Held' /\ \A s \in Threads \ {t} : (InProgress(s)' <=> InProgress(s)) /\ Node(s)' = Node(s)
  BY <1>1, <1>3, <1>5, Holder, OthersHeld
<1>9. \A s \in Threads \ {t} : Ahead(s)' = Ahead(s) /\ local'[s].current = local[s].current /\ local'[s].fresh = local[s].fresh
  BY <1>1, <1>3, <1>5, Holder, OthersHeld
<1>10. state[u0] \in Busy /\ \A s \in Threads \ {t} : InProgress(s) => Node(s) # u0
  BY <1>2, <1>6 DEF OInv, Places, BusyHasThread, OneThread
<1>11. \A kind, w, k : ~At(u0, kind, w, k)
  BY <1>2, <1>10 DEF OInv, Places, QueuedHasSpot, Busy
<1> HIDE DEF u0, fresh, current
<1>p. \A k : k \in 1 .. Len(current) - 1 <=> k \in Nat \ {0} /\ k + 1 \in 2 .. Len(current)
  BY <1>7
<1>c. \A u, k : At(u, "current", t, k)' <=> k \in Nat \ {0} /\ At(u, "current", t, k + 1)
  BY <1>7, <1>8, <1>p DEF At, current
<1>d. \A u, k : At(u, "current", t, k) => k \in Nat \ {0} /\ k - 1 \in Nat \ {0} /\ k = (k - 1) + 1
  BY <1>7, <1>8 DEF At
<1> DEFINE Again == state[u0] # "processing"
<1>f. \A u, k : At(u, "fresh", t, k)' <=> At(u, "fresh", t, k) \/ (Again /\ u = u0 /\ k = Len(fresh) + 1)
  <2>1. CASE Again
    <3>1. /\ Len(local'[t].fresh) = Len(fresh) + 1 /\ local'[t].fresh[Len(fresh) + 1] = u0
          /\ \A k \in 1 .. Len(fresh) : local'[t].fresh[k] = fresh[k]
      BY <1>2, <1>4, <2>1, AppendProperties
    <3>2. \A k : k \in 1 .. Len(fresh) + 1 <=> k \in 1 .. Len(fresh) \/ k = Len(fresh) + 1
      BY <1>2
    <3> QED BY <2>1, <3>1, <3>2 DEF At, fresh
  <2>2. CASE ~Again
    <3>1. local'[t].fresh = local[t].fresh
      BY <1>4, <2>2 DEF fresh
    <3> QED BY <2>2, <3>1 DEF At
  <2> QED BY <2>1, <2>2
<1> HIDE DEF Again
<1>e. \A u, kind, w, k : ~(kind \in {"current", "fresh"} /\ w = t) => (At(u, kind, w, k)' <=> At(u, kind, w, k))
  BY <1>3, <1>9 DEF At
<1>k. \A u, kind, w, k : At(u, kind, w, k) => kind \in {"queue", "current", "fresh"}
  BY DEF At
<1>12. \A u \in Nodes \ {u0} : \A kind, w, k : At(u, kind, w, k)' <=>
         IF kind = "current" /\ w = t THEN k \in Nat \ {0} /\ At(u, "current", t, k + 1) ELSE At(u, kind, w, k)
  BY <1>c, <1>e, <1>f
<1>13. \A u, kind, w, k : u = u0 => (At(u, kind, w, k)' <=> Again /\ kind = "fresh" /\ w = t /\ k = Len(fresh) + 1)
  BY <1>c, <1>e, <1>f, <1>11
<1>14. OneSpot'
  <2> SUFFICES ASSUME NEW u \in Nodes, NEW ka, NEW wa, NEW xa, NEW kb, NEW wb, NEW xb,
                      At(u, ka, wa, xa)', At(u, kb, wb, xb)'
               PROVE  ka = kb /\ wa = wb /\ xa = xb
    BY DEF OneSpot
  <2>0. \A kind, w, k, la, lb, lc : At(u, kind, w, k) /\ At(u, la, lb, lc) => kind = la /\ w = lb /\ k = lc
    BY DEF OInv, Places, OneSpot
  <2>1. CASE u = u0
    BY <1>13, <2>1
  <2>2. CASE u # u0 /\ ka = "current" /\ wa = t
    <3>1. xa \in Nat \ {0} /\ At(u, "current", t, xa + 1)
      BY <1>12, <2>2
    <3>2. CASE kb = "current" /\ wb = t
      <4>1. xb \in Nat \ {0} /\ At(u, "current", t, xb + 1)
        BY <1>12, <2>2, <3>2
      <4>2. xa + 1 = xb + 1
        BY <2>0, <3>1, <4>1
      <4> QED BY <2>2, <3>1, <3>2, <4>1, <4>2
    <3>3. CASE ~(kb = "current" /\ wb = t)
      <4>1. At(u, kb, wb, xb)
        BY <1>12, <2>2, <3>3
      <4> QED BY <2>0, <3>1, <3>3, <4>1
    <3> QED BY <3>2, <3>3
  <2>3. CASE u # u0 /\ ~(ka = "current" /\ wa = t)
    <3>1. At(u, ka, wa, xa)
      BY <1>12, <2>3
    <3>2. At(u, kb, wb, xb) \/ (kb = "current" /\ wb = t /\ At(u, "current", t, xb + 1))
      BY <1>12, <2>3
    <3> QED BY <2>0, <2>3, <3>1, <3>2
  <2> QED BY <2>1, <2>2, <2>3
<1>15. /\ \A u \in Nodes \ {u0} : state'[u] = state[u]
       /\ state'[u0] = IF Again THEN "queued" ELSE "idle"
  BY <1>2, <1>3 DEF Processed, Again
<1>16. QueuedHasSpot'
  <2> SUFFICES ASSUME NEW u \in Nodes
               PROVE  state'[u] = "queued" <=> \E kind, w, k : At(u, kind, w, k)'
    BY DEF QueuedHasSpot
  <2>1. CASE u = u0
    BY <1>13, <1>15, <2>1
  <2>2. CASE u # u0
    <3>1. ASSUME NEW kind, NEW w, NEW k, At(u, kind, w, k)'
          PROVE  \E ka, wa, xa : At(u, ka, wa, xa)
      BY <1>12, <2>2, <3>1
    <3>2. ASSUME NEW kind, NEW w, NEW k, At(u, kind, w, k)
          PROVE  \E ka, wa, xa : At(u, ka, wa, xa)'
      <4>1. CASE kind = "current" /\ w = t
        <5>1. k - 1 \in Nat \ {0} /\ k = (k - 1) + 1
          BY <1>d, <3>2, <4>1
        <5>2. At(u, "current", t, k - 1)'
          BY <1>c, <3>2, <4>1, <5>1
        <5> QED BY <5>2
      <4>2. CASE ~(kind = "current" /\ w = t)
        BY <1>12, <2>2, <3>2, <4>2
      <4> QED BY <4>1, <4>2
    <3>3. state[u] = "queued" <=> \E kind, w, k : At(u, kind, w, k)
      BY DEF OInv, Places, QueuedHasSpot
    <3> QED BY <1>15, <2>2, <3>1, <3>2, <3>3
  <2> QED BY <2>1, <2>2
<1>17. OneThread'
  BY <1>6, <1>o DEF OInv, Places, OneThread
<1>18. BusyHasThread'
  <2> SUFFICES ASSUME NEW u \in Nodes
               PROVE  state'[u] \in Busy <=> \E s \in Threads : InProgress(s)' /\ Node(s)' = u
    BY DEF BusyHasThread
  <2>1. CASE u = u0
    <3>1. state'[u] \notin Busy
      BY <1>15, <2>1 DEF Busy
    <3>2. \A s \in Threads : ~(InProgress(s)' /\ Node(s)' = u)
      BY <1>6, <1>10, <1>o, <2>1
    <3> QED BY <3>1, <3>2
  <2>2. CASE u # u0
    <3>1. state'[u] = state[u]
      BY <1>15, <2>2
    <3>2. \A s \in Threads : InProgress(s) /\ Node(s) = u => s # t
      BY <2>2 DEF u0
    <3> QED BY <1>6, <1>o, <2>2, <3>1, <3>2 DEF OInv, Places, BusyHasThread
  <2> QED BY <2>1, <2>2
<1>19. state' \in [Nodes -> NodeStates]
  BY <1>2, <1>3 DEF Processed, NodeStates
<1> QED BY <1>14, <1>16, <1>17, <1>18, <1>19, <1>o DEF OInv, Places

-----------------------------------------------------------------------------
\* Division with remainder.
LEMMA DivFacts ==
  ASSUME NEW a \in Nat, NEW b \in Nat, b > 0
  PROVE  a = b * (a \div b) + (a % b) /\ a \div b \in Nat /\ a % b \in 0 .. b - 1
  OBVIOUS

\* Multiplication by a number preserves order.
LEMMA MulMono ==
  ASSUME NEW m \in Nat, NEW q \in Nat, NEW n \in Nat, q >= n
  PROVE  m * q >= m * n
  OBVIOUS

\* The blocks of the team take in every node.
LEMMA BlockOf ==
  ASSUME NEW n \in Nat, NEW k \in Nat, n > 0, NEW u \in 0 .. k - 1
  PROVE  u \div (1 + k \div n) \in 0 .. n - 1
<1> DEFINE d == k \div n
          m == 1 + d
          q == u \div m
<1>1. k = n * d + (k % n) /\ d \in Nat /\ k % n \in 0 .. n - 1
  BY DivFacts
<1>2. m \in Nat /\ m > 0 /\ u \in Nat
  BY <1>1
<1>3. u = m * q + (u % m) /\ q \in Nat /\ u % m \in 0 .. m - 1
  BY <1>2, DivFacts
<1> HIDE DEF q
<1>4. m * n = n * d + n
  BY <1>1
<1> HIDE DEF m
<1>5. m * q <= u /\ u < m * n
  <2> HIDE DEF d
  <2>1. m * q \in Nat /\ n * d \in Nat /\ m * n \in Nat
    BY <1>1, <1>2, <1>3
  <2> QED BY <1>1, <1>2, <1>3, <1>4, <2>1
<1>6. q < n
  BY <1>2, <1>3, <1>5, MulMono
<1> QED BY <1>3, <1>6 DEF q, m

\* At the start every node is in one place of the list of one thread.
LEMMA InitOwned == Init => OInv
<1> SUFFICES ASSUME Init PROVE OInv
  OBVIOUS
<1>0. IInv
  BY InitHolds
<1>1. PICK c \in Cases : row = c.row /\ result = c.result /\ MoveInit(c.moves)
  BY DEF Init
<1>2. PICK p \in Bijection(Threads, 0 .. tcount - 1) :
        \E lists \in [Threads -> UNION {SetToSeqs(Block(k)) : k \in 0 .. tcount - 1}] :
          (\A t \in Threads : ToSet(lists[t]) = Block(p[t])) /\ local = [t \in Threads |-> Start(lists[t])]
  BY <1>1 DEF MoveInit
<1>3. PICK lists \in [Threads -> UNION {SetToSeqs(Block(k)) : k \in 0 .. tcount - 1}] :
        (\A t \in Threads : ToSet(lists[t]) = Block(p[t])) /\ local = [t \in Threads |-> Start(lists[t])]
  BY <1>2
<1>4. /\ \A s, t \in Threads : p[s] = p[t] => s = t
      /\ \A k \in 0 .. tcount - 1 : \E t \in Threads : p[t] = k
  BY <1>2 DEF Bijection, Injection, Surjection, IsInjective
<1>5. \A t \in Threads : \A i, j \in DOMAIN lists[t] : lists[t][i] = lists[t][j] => i = j
  <2> SUFFICES ASSUME NEW t \in Threads
               PROVE  \A i, j \in DOMAIN lists[t] : lists[t][i] = lists[t][j] => i = j
    OBVIOUS
  <2>1. PICK k \in 0 .. tcount - 1 : lists[t] \in SetToSeqs(Block(k))
    BY <1>3
  <2> QED BY <2>1 DEF SetToSeqs
<1>6. \A t \in Threads : \A u : (\E i \in DOMAIN lists[t] : lists[t][i] = u) <=> u \in Block(p[t])
  BY <1>3 DEF ToSet
<1>7. \A t \in Threads : /\ local[t].pc = "node" /\ local[t].current = lists[t] /\ local[t].fresh = <<>>
                         /\ local[t].best = None
  BY <1>3 DEF Start
<1>8. \A t \in Threads : lists[t] \in Seq(Nodes) /\ DOMAIN lists[t] = 1 .. Len(lists[t]) /\ ~InProgress(t)
  <2>1. \A t \in Threads : lists[t] \in Seq(Nodes)
    BY <1>0, <1>7 DEF IInv, LocalOK
  <2> QED BY <1>7, <2>1, LenProperties DEF InProgress
<1>9. \A u, kind, w, k : At(u, kind, w, k) <=>
        kind = "current" /\ w \in Threads /\ k \in DOMAIN lists[w] /\ lists[w][k] = u
  <2>1. queue = <<>> /\ Len(queue) = 0
    BY <1>1 DEF MoveInit
  <2>2. \A t \in Threads : Ahead(t) = DOMAIN lists[t] /\ Len(local[t].fresh) = 0
    BY <1>7, <1>8 DEF Ahead
  <2> QED BY <1>7, <2>1, <2>2 DEF At
<1>10. OneSpot
  <2> SUFFICES ASSUME NEW u \in Nodes, NEW s \in Threads, NEW t \in Threads,
                      NEW i \in DOMAIN lists[s], NEW j \in DOMAIN lists[t], lists[s][i] = u, lists[t][j] = u
               PROVE  s = t /\ i = j
    BY <1>9 DEF OneSpot
  <2>1. u \in Block(p[s]) /\ u \in Block(p[t])
    BY <1>6
  <2>2. p[s] = p[t]
    BY <2>1 DEF Block
  <2>3. s = t
    BY <1>4, <2>2
  <2> QED BY <1>5, <2>3
<1>11. state = [u \in Nodes |-> "queued"]
  BY <1>1 DEF MoveInit
<1>12. QueuedHasSpot
  <2> SUFFICES ASSUME NEW u \in Nodes
               PROVE  \E kind, w, k : At(u, kind, w, k)
    BY <1>11 DEF QueuedHasSpot
  <2>1. tcount \in Nat /\ tcount > 0
    BY Team, FS_EmptySet, LeidenAssumption
  <2>2. u \div (1 + N \div tcount) \in 0 .. tcount - 1
    BY <2>1, Team, BlockOf DEF Nodes
  <2>3. PICK t \in Threads : p[t] = u \div (1 + N \div tcount)
    BY <1>4, <2>2
  <2>4. u \in Block(p[t])
    BY <2>3 DEF Block
  <2>5. PICK i \in DOMAIN lists[t] : lists[t][i] = u
    BY <1>6, <2>4
  <2>6. At(u, "current", t, i)
    BY <1>9, <2>5
  <2> QED BY <2>6
<1>13. BusyHasThread /\ OneThread /\ state \in [Nodes -> NodeStates]
  BY <1>8, <1>11 DEF BusyHasThread, OneThread, Busy, NodeStates
<1>14. Held
  <2>1. \A u \in Nodes : u \in Nat
    BY Team DEF Nodes
  <2>2. result \in [Nodes -> Nat]
    BY <1>1, <2>1, CasesAssumption
  <2>3. seen \in [Nodes -> Seq(Nat)]
    <3>1. <<>> \in Seq(Nat)
      BY EmptySeq
    <3> QED BY <1>1, <3>1 DEF MoveInit
  <2>4. \A t \in Threads : HeldOK(local[t])
    BY <1>7 DEF HeldOK, Idling
  <2> QED BY <2>2, <2>3, <2>4 DEF Held
<1> QED BY <1>10, <1>12, <1>13, <1>14 DEF OInv, Places

\* Every step of the move phase keeps each node with one owner.
LEMMA MoveOwned ==
  ASSUME IInv, OInv, NEW t \in Threads, MoveStep(t)
  PROVE  OInv'
  BY TestResizeOwn, AnnounceOwn, YieldOwn, ResumeOwn, BeginOwn, LookOwn, StayOwn, ChooseSeenOwn,
     ChooseNewOwn, GrowOwn, AwaitOwn, GrowingOwn, PlaceOwn, SpreadOwn, ScheduleOwn, FinishOwn, FlushOwn,
     NotifyOwn, TakeOwnOwn, TakeOrWaitOwn, WaitOwn, LeaveOwn DEF MoveStep

\* Refinement hands no node of the move phase over.
LEMMA StillOwned ==
  ASSUME OInv, UNCHANGED <<row, result, moveVars>>
  PROVE  OInv'
<1>1. \A t \in Threads : (InProgress(t)' <=> InProgress(t)) /\ Node(t)' = Node(t) /\ Ahead(t)' = Ahead(t)
  BY DEF moveVars, InProgress, Node, Ahead
<1>2. Held' /\ state' \in [Nodes -> NodeStates]
  BY DEF OInv, Held, moveVars
<1>3. Places'
  BY SamePlaces, <1>1 DEF OInv, moveVars
<1> QED BY <1>2, <1>3 DEF OInv

\* The set form of where a node may be taken from.
LEMMA SpotsAt ==
  \A u, p : p \in Spots(u) <=> \E kind, w, k : p = <<kind, w, k>> /\ At(u, kind, w, k)
<1> SUFFICES ASSUME NEW u, NEW p
             PROVE  p \in Spots(u) <=> \E kind, w, k : p = <<kind, w, k>> /\ At(u, kind, w, k)
  OBVIOUS
<1> DEFINE Q(i) == {<<"queue", i, k>> : k \in {k \in 1 .. Len(queue[i]) : queue[i][k] = u}}
           C(t) == {<<"current", t, k>> : k \in {k \in Ahead(t) : local[t].current[k] = u}}
           F(t) == {<<"fresh", t, k>> : k \in {k \in 1 .. Len(local[t].fresh) : local[t].fresh[k] = u}}
<1>1. \A i : p \in Q(i) <=> \E k \in 1 .. Len(queue[i]) : queue[i][k] = u /\ p = <<"queue", i, k>>
  OBVIOUS
<1>2. \A t : p \in C(t) <=> \E k \in Ahead(t) : local[t].current[k] = u /\ p = <<"current", t, k>>
  OBVIOUS
<1>3. \A t : p \in F(t) <=> \E k \in 1 .. Len(local[t].fresh) : local[t].fresh[k] = u /\ p = <<"fresh", t, k>>
  OBVIOUS
<1>u. Spots(u) = (UNION {Q(i) : i \in 1 .. Len(queue)}) \cup (UNION {C(t) : t \in Threads})
                  \cup (UNION {F(t) : t \in Threads})
  BY DEF Spots
<1> HIDE DEF Q, C, F
<1>4. p \in Spots(u) <=> \/ \E i \in 1 .. Len(queue) : p \in Q(i)
                         \/ \E t \in Threads : p \in C(t)
                         \/ \E t \in Threads : p \in F(t)
  BY <1>u
<1>5. ASSUME p \in Spots(u)
      PROVE  \E kind, w, k : p = <<kind, w, k>> /\ At(u, kind, w, k)
  <2>1. CASE \E i \in 1 .. Len(queue) : p \in Q(i)
    BY <1>1, <2>1 DEF At
  <2>2. CASE \E t \in Threads : p \in C(t)
    BY <1>2, <2>2 DEF At
  <2>3. CASE \E t \in Threads : p \in F(t)
    BY <1>3, <2>3 DEF At
  <2> QED BY <1>4, <1>5, <2>1, <2>2, <2>3
<1>6. ASSUME NEW kind, NEW w, NEW k, p = <<kind, w, k>>, At(u, kind, w, k)
      PROVE  p \in Spots(u)
  <2>1. CASE kind = "queue"
    BY <1>1, <1>4, <1>6, <2>1 DEF At
  <2>2. CASE kind = "current"
    BY <1>2, <1>4, <1>6, <2>2 DEF At
  <2>3. CASE kind = "fresh"
    BY <1>3, <1>4, <1>6, <2>3 DEF At
  <2> QED BY <1>6, <2>1, <2>2, <2>3 DEF At
<1> QED BY <1>5, <1>6

\* OInv says of owners what OwnedOnce says.
LEMMA OwnedFollows == OInv => OwnedOnce
<1> SUFFICES ASSUME OInv, NEW u \in Nodes
             PROVE  /\ Cardinality(Spots(u)) = IF state[u] = "queued" THEN 1 ELSE 0
                    /\ Cardinality({t \in Threads : InProgress(t) /\ Node(t) = u})
                         = IF state[u] \in {"processing", "reprocess"} THEN 1 ELSE 0
  BY DEF OwnedOnce
<1> DEFINE P == Spots(u)
           T == {t \in Threads : InProgress(t) /\ Node(t) = u}
<1>1. \A p, q \in P : p = q
  BY SpotsAt DEF OInv, Places, OneSpot
<1>2. state[u] = "queued" <=> P # {}
  <2>1. P # {} <=> \E kind, w, k : At(u, kind, w, k)
    BY SpotsAt
  <2> QED BY <2>1 DEF OInv, Places, QueuedHasSpot
<1>3. \A s, t \in T : s = t
  BY DEF OInv, Places, OneThread
<1>4. state[u] \in Busy <=> T # {}
  BY DEF OInv, Places, BusyHasThread
<1> HIDE DEF P, T
<1>5. ASSUME NEW S, \A x, y \in S : x = y
      PROVE  Cardinality(S) = IF S # {} THEN 1 ELSE 0
  <2>1. CASE S = {}
    BY <2>1, FS_EmptySet
  <2>2. CASE S # {}
    <3>1. PICK x \in S : TRUE
      BY <2>2
    <3>2. S = {x}
      BY <1>5, <3>1
    <3> QED BY <2>2, <3>2, FS_Singleton
  <2> QED BY <2>1, <2>2
<1>6. Cardinality(P) = IF P # {} THEN 1 ELSE 0
  BY <1>1, <1>5
<1>7. Cardinality(T) = IF T # {} THEN 1 ELSE 0
  BY <1>3, <1>5
<1> QED BY <1>2, <1>4, <1>6, <1>7 DEF P, T, Busy

(* No request to look at a node is lost or done twice: for any graph and   *)
(* any number of threads, in whatever order they move, a queued node is in *)
(* exactly one list and a node in work with exactly one thread             *)
(* (ParallelLeiden.cpp, scheduleNode and finishProcessingNode).            *)
THEOREM NodesOwned == Spec => []OwnedOnce
<1>1. Init => IInv /\ OInv
  BY InitHolds, InitOwned
<1>2. IInv /\ OInv /\ [Next]_vars => IInv' /\ OInv'
  <2> SUFFICES ASSUME IInv, OInv, [Next]_vars PROVE IInv' /\ OInv'
    OBVIOUS
  <2>1. ASSUME NEW t \in Threads, Move(t)
        PROVE  IInv' /\ OInv'
    BY <2>1, MoveKeeps, MoveOwned DEF Move
  <2>2. ASSUME NEW t \in Threads, Refine(t)
        PROVE  IInv' /\ OInv'
    BY <2>2, StillKeeps, StillOwned DEF Refine
  <2>3. CASE Turn
    BY <2>3, StillKeeps, StillOwned DEF Turn
  <2>4. CASE EndRound
    BY <2>4, StillKeeps, StillOwned DEF EndRound
  <2>5. CASE UNCHANGED vars
    BY <2>5, StillKeeps, StillOwned DEF vars
  <2> QED BY <2>1, <2>2, <2>3, <2>4, <2>5 DEF Next
<1>3. OInv => OwnedOnce
  BY OwnedFollows
<1> QED BY <1>1, <1>2, <1>3, PTL DEF Spec

-----------------------------------------------------------------------------
\* Threads that rest are counted; the last one finds the queue empty and no
\* thread fills it again.
RInv ==
  /\ waitingForNodes = Cardinality({t \in Threads : local[t].pc \in Idling})
  /\ waitingForNodes = tcount => queue = <<>>
  /\ \A t \in Threads : local[t].pc \in {"leave", "done"} => waitingForNodes = tcount

\* The threads that rest before a step of t and after it.
Resting == {s \in Threads : local[s].pc \in Idling}

\* Only the thread that steps may come to rest or stop resting.
LEMMA RestingSet ==
  ASSUME IInv, NEW t \in Threads, \A s \in Threads \ {t} : Kept(s)
  PROVE  /\ IsFiniteSet(Resting) /\ Cardinality(Resting) \in Nat /\ Cardinality(Resting) <= tcount
         /\ (local[t].pc \notin Idling => Cardinality(Resting) < tcount)
         /\ Resting' = (Resting \ {t}) \cup {s \in {t} : local'[s].pc \in Idling}
<1>1. Resting \subseteq Threads
  BY DEF Resting
<1>2. IsFiniteSet(Resting) /\ Cardinality(Resting) \in Nat /\ Cardinality(Resting) <= tcount
  BY <1>1, Team, FS_Subset, FS_CardinalityType
<1>3. ASSUME local[t].pc \notin Idling
      PROVE  Cardinality(Resting) < tcount
  <2>1. Resting \subseteq Threads \ {t}
    BY <1>3 DEF Resting
  <2>2. IsFiniteSet(Threads \ {t}) /\ Cardinality(Threads \ {t}) = tcount - 1
    BY Team, FS_RemoveElement
  <2>3. Cardinality(Resting) <= tcount - 1
    BY <2>1, <2>2, FS_Subset
  <2> QED BY <1>2, <2>3, Team
<1>4. \A s \in Threads \ {t} : local'[s].pc \in Idling <=> local[s].pc \in Idling
  BY KeptHeld, Stepper DEF Idling
<1>5. Resting' = (Resting \ {t}) \cup {s \in {t} : local'[s].pc \in Idling}
  BY <1>4 DEF Resting
<1> QED BY <1>2, <1>3, <1>5

\* A step of a thread that does not rest and does not begin to.
LEMMA AwakeRest ==
  ASSUME IInv, RInv, NEW t \in Threads, \A s \in Threads \ {t} : Kept(s),
         local[t].pc \notin Idling, local'[t].pc \notin Idling, waitingForNodes' = waitingForNodes
  PROVE  RInv'
<1>1. Resting' = Resting
  BY RestingSet DEF Resting
<1>2. waitingForNodes = Cardinality(Resting) /\ waitingForNodes < tcount /\ tcount' = tcount
  BY RestingSet DEF RInv, Resting, tcount
<1>n. waitingForNodes # tcount
  BY <1>2, RestingSet, Team
<1>3. \A s \in Threads : local[s].pc \notin {"leave", "done"}
  BY <1>n DEF RInv
<1>4. \A s \in Threads : local'[s].pc \notin {"leave", "done"}
  BY <1>3, KeptHeld, Stepper DEF Idling
<1>5. waitingForNodes' = Cardinality(Resting')
  BY <1>1, <1>2
<1> QED BY <1>2, <1>n, <1>4, <1>5 DEF RInv, Resting

\* The last to rest finds the queue empty.
LEMMA TakeOrWaitRest ==
  ASSUME IInv, RInv, NEW t \in Threads, TakeOrWait(t)
  PROVE  RInv'
<1>1. \A s \in Threads \ {t} : Kept(s)
  BY Stepper DEF TakeOrWait, Pop, Go, Kept
<1>2. local[t].pc = "node" /\ local[t].pc \notin Idling
  BY DEF TakeOrWait, Idling
<1>3. CASE queue # <<>>
  BY <1>1, <1>2, <1>3, AwakeRest, Stepper DEF TakeOrWait, Pop, Idling, Fields
<1>4. CASE queue = <<>>
  <2>1. waitingForNodes = Cardinality(Resting) /\ waitingForNodes < tcount /\ tcount' = tcount /\ waitingForNodes \in Nat
    BY <1>1, <1>2, RestingSet DEF RInv, Resting, tcount
  <2>2. /\ waitingForNodes' = waitingForNodes + 1 /\ queue' = queue
        /\ local'[t].pc = IF waitingForNodes' < tcount THEN "sleep" ELSE "leave"
    BY <1>4, Stepper DEF TakeOrWait, Go, Fields
  <2>3. Resting' = Resting \cup {t} /\ t \notin Resting
    BY <1>1, <1>2, <2>2, RestingSet DEF Resting, Idling
  <2>4. Cardinality(Resting') = Cardinality(Resting) + 1
    BY <1>1, <2>3, RestingSet, FS_AddElement
  <2>5. waitingForNodes' = Cardinality(Resting')
    BY <2>1, <2>2, <2>4
  <2>6. \A s \in Threads \ {t} : local[s].pc \notin {"leave", "done"} /\ local'[s].pc \notin {"leave", "done"}
    <3>1. \A s \in Threads : local[s].pc \notin {"leave", "done"}
      <4>1. waitingForNodes # tcount
        BY <2>1, Team
      <4> QED BY <4>1 DEF RInv
    <3> QED BY <1>1, <3>1, KeptHeld, Stepper
  <2>7. \A s \in Threads : local'[s].pc \in {"leave", "done"} => waitingForNodes' = tcount'
    BY <2>1, <2>2, <2>6, Team
  <2> QED BY <1>4, <2>2, <2>5, <2>7 DEF RInv, Resting
<1> QED BY <1>3, <1>4

\* Who is woken for a list rests no longer; who is woken to leave rests on.
LEMMA WaitRest ==
  ASSUME IInv, RInv, NEW t \in Threads, Wait(t)
  PROVE  RInv'
<1>1. \A s \in Threads \ {t} : Kept(s)
  BY Stepper DEF Wait, Pop, Go, Kept
<1>2. local[t].pc = "wait" /\ t \in Resting /\ tcount' = tcount
  BY DEF Wait, Idling, Resting, tcount
<1>3. waitingForNodes = Cardinality(Resting) /\ waitingForNodes \in Nat
  BY <1>1, RestingSet DEF RInv, Resting
<1>4. CASE waitingForNodes = tcount
  <2>1. local'[t].pc = "leave" /\ queue' = queue /\ waitingForNodes' = waitingForNodes
    BY <1>4, Stepper, Team DEF Wait, Go, Fields
  <2>2. Resting' = Resting
    BY <1>1, <1>2, <2>1, RestingSet DEF Idling
  <2>3. waitingForNodes' = Cardinality(Resting')
    BY <1>3, <2>1, <2>2
  <2> QED BY <1>2, <1>4, <2>1, <2>3 DEF RInv, Resting
<1>5. CASE waitingForNodes < tcount
  <2>0. \A s \in Threads \ {t} : local'[s].pc \notin {"leave", "done"}
    <3>1. \A s \in Threads : local[s].pc \notin {"leave", "done"}
      <4>1. waitingForNodes # tcount
        BY <1>3, <1>5, Team
      <4> QED BY <4>1 DEF RInv
    <3> QED BY <1>1, <3>1, KeptHeld, Stepper
  <2>1. CASE queue = <<>>
    <3>1. local'[t].pc = "sleep" /\ queue' = queue /\ waitingForNodes' = waitingForNodes
      BY <1>3, <1>5, <2>1, Stepper, Team DEF Wait, Go, Fields
    <3>2. Resting' = Resting
      <4>1. Resting' = (Resting \ {t}) \cup {s \in {t} : local'[s].pc \in Idling}
        BY <1>1, RestingSet
      <4>2. local'[t].pc \in Idling
        BY <3>1 DEF Idling
      <4> QED BY <1>2, <4>1, <4>2
    <3>3. waitingForNodes' = Cardinality(Resting')
      BY <1>3, <3>1, <3>2
    <3> QED BY <1>2, <2>0, <2>1, <3>1, <3>3 DEF RInv, Resting
  <2>2. CASE queue # <<>>
    <3>1. local'[t].pc = "node" /\ waitingForNodes' = waitingForNodes - 1
      BY <1>3, <1>5, <2>2, Stepper, Team DEF Wait, Pop, Go, Fields
    <3>2. Resting' = Resting \ {t}
      BY <1>1, <1>2, <3>1, RestingSet DEF Idling
    <3>3. Cardinality(Resting') = Cardinality(Resting) - 1
      BY <1>1, <1>2, <3>2, RestingSet, FS_RemoveElement
    <3>4. waitingForNodes' = Cardinality(Resting') /\ waitingForNodes' # tcount'
      BY <1>2, <1>3, <1>5, <3>1, <3>3, Team
    <3> QED BY <2>0, <3>1, <3>4 DEF RInv, Resting
  <2> QED BY <2>1, <2>2
<1> QED BY <1>4, <1>5 DEF Wait

\* Threads leave only when all rest.
LEMMA LeaveRest ==
  ASSUME IInv, RInv, NEW t \in Threads, Leave(t)
  PROVE  RInv'
<1>1. \A s \in Threads \ {t} : Kept(s)
  BY DEF Leave, Waking, Kept
<1>2. /\ local[t].pc = "leave" /\ local'[t].pc = "done" /\ queue' = queue /\ waitingForNodes' = waitingForNodes
      /\ tcount' = tcount
  BY Stepper DEF Leave, Waking, Fields, OnlyLocal, work, tcount
<1>3. Resting' = Resting
  BY <1>1, <1>2, RestingSet DEF Resting, Idling
<1>4. waitingForNodes' = Cardinality(Resting')
  BY <1>2, <1>3 DEF RInv, Resting
<1>5. \A s \in Threads : local'[s].pc \in {"leave", "done"} => local[s].pc \in {"leave", "done"}
  BY <1>1, <1>2, KeptHeld, Stepper
<1> QED BY <1>2, <1>4, <1>5 DEF RInv, Resting

\* Every step keeps the count of resting threads, and the queue empty once
\* all rest.
LEMMA MoveRest ==
  ASSUME IInv, RInv, NEW t \in Threads, MoveStep(t)
  PROVE  RInv'
<1> DEFINE Awake == local[t].pc \notin Idling /\ local'[t].pc \notin Idling /\ waitingForNodes' = waitingForNodes
                    /\ \A s \in Threads \ {t} : Kept(s)
<1>1. CASE TestResize(t)
  <2>1. Awake
    BY <1>1, Stepper DEF TestResize, Go, OnlyLocal, Kept, Fields, Idling
  <2> QED BY <2>1, AwakeRest
<1>2. CASE Announce(t)
  <2>1. Awake
    BY <1>2, Stepper DEF Announce, Go, Kept, Fields, Idling
  <2> QED BY <2>1, AwakeRest
<1>3. CASE Yield(t)
  <2>1. Awake
    BY <1>3, Stepper DEF Yield, Go, OnlyLocal, Kept, Fields, Idling
  <2> QED BY <2>1, AwakeRest
<1>4. CASE Resume(t)
  <2>1. Awake
    BY <1>4, Stepper DEF Resume, Go, Kept, Fields, Idling
  <2> QED BY <2>1, AwakeRest
<1>5. CASE Begin(t)
  <2>1. Awake
    BY <1>5, Stepper DEF Begin, Kept, Fields, Idling
  <2> QED BY <2>1, AwakeRest
<1>6. CASE Look(t)
  <2>1. Awake
    BY <1>6, Stepper DEF Look, Kept, Fields, Idling
  <2> QED BY <2>1, AwakeRest
<1>7. CASE Stay(t)
  <2>1. Awake
    BY <1>7, Stepper DEF Stay, Go, OnlyLocal, Kept, Fields, Idling
  <2> QED BY <2>1, AwakeRest
<1>8. ASSUME NEW c, ChooseSeen(t, c)
      PROVE  RInv'
  <2>1. Awake
    BY <1>8, Stepper DEF ChooseSeen, Kept, Fields, Idling
  <2> QED BY <2>1, AwakeRest
<1>9. CASE ChooseNew(t)
  <2>1. Awake
    BY <1>9, Stepper DEF ChooseNew, Kept, Fields, Idling
  <2> QED BY <2>1, AwakeRest
<1>10. CASE Grow(t)
  <2>1. Awake
    BY <1>10, Stepper DEF Grow, Go, Kept, Fields, Idling
  <2> QED BY <2>1, AwakeRest
<1>11. CASE Await(t)
  <2>1. Awake
    BY <1>11, Stepper DEF Await, Go, OnlyLocal, Kept, Fields, Idling
  <2> QED BY <2>1, AwakeRest
<1>12. CASE Growing(t)
  <2>1. Awake
    BY <1>12, Stepper DEF Growing, Go, Kept, Fields, Idling
  <2> QED BY <2>1, AwakeRest
<1>13. CASE Place(t)
  <2>1. Awake
    BY <1>13, Stepper DEF Place, Kept, Fields, Idling
  <2> QED BY <2>1, AwakeRest
<1>14. CASE Spread(t)
  <2>1. Awake
    BY <1>14, Stepper DEF Spread, OnlyLocal, Kept, Fields, Idling
  <2> QED BY <2>1, AwakeRest
<1>15. CASE Schedule(t)
  <2>1. Awake
    BY <1>15, Stepper DEF Schedule, WithPushed, Kept, Fields, Idling
  <2> QED BY <2>1, AwakeRest
<1>16. CASE Finish(t)
  <2>1. Awake
    BY <1>16, Stepper DEF Finish, WithPushed, Kept, Fields, Idling
  <2> QED BY <2>1, AwakeRest
<1>17. CASE Flush(t)
  <2>1. Awake
    BY <1>17, Stepper DEF Flush, Kept, Fields, Idling
  <2> QED BY <2>1, AwakeRest
<1>18. CASE Notify(t)
  <2>1. Awake
    BY <1>18, Stepper DEF Notify, Waking, OnlyLocal, Kept, Fields, Idling
  <2> QED BY <2>1, AwakeRest
<1>19. CASE TakeOwn(t)
  <2>1. Awake
    BY <1>19, Stepper DEF TakeOwn, OnlyLocal, Kept, Fields, Idling
  <2> QED BY <2>1, AwakeRest
<1> QED BY <1>1, <1>2, <1>3, <1>4, <1>5, <1>6, <1>7, <1>8, <1>9, <1>10, <1>11, <1>12, <1>13, <1>14,
           <1>15, <1>16, <1>17, <1>18, <1>19, TakeOrWaitRest, WaitRest, LeaveRest DEF MoveStep

-----------------------------------------------------------------------------
\* A thread that goes through the neighbours of the node it has moved.
Spreading(t) ==
  \/ local[t].pc \in {"spread", "schedule"}
  \/ local[t].pc \in {"flush", "notify"} /\ local[t].best # None
ToCome(t, u) == \E j \in 1 .. Len(local[t].todo) : local[t].todo[j] = u

Again == {"queued", "reprocess"}

\* What u was told of its neighbour i still holds, or u will be looked at
\* again, or the neighbour's thread has still to come to u.
StillTrue(u, i) ==
  \/ result[row[u][i]] = seen[u][i]
  \/ result[row[u][i]] = result[u]
  \/ state[u] \in Again
  \/ \E t \in Threads : Spreading(t) /\ Node(t) = row[u][i] /\ ToCome(t, u)

Mutual ==
  \A u, v \in Nodes : (\E i \in 1 .. Len(row[u]) : row[u][i] = v) => \E i \in 1 .. Len(row[v]) : row[v][i] = u
Aligned(t) ==
  /\ Len(row[Node(t)]) = Len(seen[Node(t)]) + Len(local[t].todo)
  /\ \A j \in 1 .. Len(local[t].todo) : local[t].todo[j] = row[Node(t)][Len(seen[Node(t)]) + j]

FInv ==
  /\ Mutual
  /\ \A u \in Nodes : Len(seen[u]) <= Len(row[u])
  /\ \A t \in Threads : local[t].pc = "look" => Aligned(t)
  /\ \A t \in Threads : Spreading(t) => result[Node(t)] = local[t].best
  /\ \A u \in Nodes : \A i \in 1 .. Len(seen[u]) : StillTrue(u, i)

\* The other threads' part of it.
LEMMA KeptSpreading ==
  ASSUME NEW s \in Threads, Kept(s), DOMAIN local[s] = Fields
  PROVE  /\ Spreading(s)' <=> Spreading(s)
         /\ Node(s)' = Node(s) /\ local'[s].best = local[s].best
         /\ local'[s].todo = local[s].todo
         /\ local'[s].pc = "look" <=> local[s].pc = "look"
         /\ \A u : ToCome(s, u)' <=> ToCome(s, u)
  BY KeptHeld DEF Spreading, Node, ToCome

\* A step that neither moves a node nor looks at one.
LEMMA SameFresh ==
  ASSUME IInv, FInv, NEW t \in Threads, \A s \in Threads \ {t} : Kept(s),
         row' = row, result' = result, seen' = seen, local'[t].pc # "look",
         \A u \in Nodes : state[u] \in Again => state'[u] \in Again,
         Spreading(t)' => Spreading(t) /\ Node(t)' = Node(t) /\ local'[t].best = local[t].best,
         \A u \in Nodes : Spreading(t) /\ ToCome(t, u) =>
            \/ Spreading(t)' /\ Node(t)' = Node(t) /\ ToCome(t, u)'
            \/ result[Node(t)] = result[u]
            \/ state'[u] \in Again
  PROVE  FInv'
<1>0. \A s \in Threads \ {t} : /\ Spreading(s)' <=> Spreading(s)
                               /\ Node(s)' = Node(s) /\ local'[s].best = local[s].best
                               /\ local'[s].todo = local[s].todo
                               /\ local'[s].pc = "look" <=> local[s].pc = "look"
                               /\ \A u : ToCome(s, u)' <=> ToCome(s, u)
  BY KeptSpreading, Stepper
<1>1. Mutual' /\ \A u \in Nodes : Len(seen'[u]) <= Len(row'[u])
  BY DEF FInv, Mutual
<1>2. \A s \in Threads : local'[s].pc = "look" => Aligned(s)'
  BY ZenonT(40), <1>0 DEF FInv, Aligned
<1>3. \A s \in Threads : Spreading(s)' => result'[Node(s)'] = local'[s].best
  BY <1>0 DEF FInv
<1>4. ASSUME NEW u \in Nodes, NEW i \in 1 .. Len(seen'[u])
      PROVE  StillTrue(u, i)'
  <2>1. StillTrue(u, i)
    BY DEF FInv
  <2>2. ASSUME NEW s \in Threads, Spreading(s), Node(s) = row[u][i], ToCome(s, u)
        PROVE  StillTrue(u, i)'
    <3>1. CASE s = t
      BY <2>2, <3>1 DEF StillTrue
    <3>2. CASE s # t
      BY <1>0, <2>2, <3>2 DEF StillTrue
    <3> QED BY <3>1, <3>2
  <2>3. CASE result[row[u][i]] = seen[u][i] \/ result[row[u][i]] = result[u] \/ state[u] \in Again
    BY <2>3 DEF StillTrue
  <2> QED BY <2>1, <2>2, <2>3 DEF StillTrue
<1> QED BY <1>1, <1>2, <1>3, <1>4 DEF FInv

\* So does one of a thread that is not spreading before it nor after it.
LEMMA CalmFresh ==
  ASSUME IInv, FInv, NEW t \in Threads, \A s \in Threads \ {t} : Kept(s),
         row' = row, result' = result, seen' = seen, state' = state,
         local'[t].pc # "look", ~Spreading(t), ~Spreading(t)'
  PROVE  FInv'
  BY SameFresh

\* A node begun anew has seen nothing, so nothing it saw is out of date.
LEMMA BeginFresh ==
  ASSUME IInv, OInv, FInv, NEW t \in Threads, Begin(t), row' = row
  PROVE  FInv'
<1> DEFINE u0 == Node(t)
<1>1. \A s \in Threads \ {t} : Kept(s)
  BY Holder DEF Begin, Kept
<1>2. u0 \in Nodes /\ local[t].current # <<>> /\ local[t].pc = "begin" /\ seen \in [Nodes -> Seq(Nat)]
  BY Holder DEF Begin, Working
<1>3. /\ local'[t].pc = "look" /\ local'[t].current = local[t].current /\ local'[t].todo = row[u0]
      /\ seen' = [seen EXCEPT ![u0] = <<>>] /\ result' = result
      /\ \A u \in Nodes \ {u0} : state'[u] = state[u]
  BY Holder DEF Begin, Fields, OInv
<1>4. Node(t)' = u0 /\ ~Spreading(t) /\ ~Spreading(t)'
  BY <1>2, <1>3 DEF Node, Spreading
<1>5. \A s \in Threads \ {t} : local[s].pc = "look" => Node(s) # u0 /\ Node(s) \in Nodes
  <2> SUFFICES ASSUME NEW s \in Threads \ {t}, local[s].pc = "look"
               PROVE  Node(s) # u0 /\ Node(s) \in Nodes
    OBVIOUS
  <2>1. InProgress(s) /\ Node(s) \in Nodes /\ InProgress(t)' /\ InProgress(s)' /\ Node(s)' = Node(s)
    <3>1. InProgress(s) /\ Node(s) \in Nodes
      BY Holder DEF InProgress, Working
    <3>2. InProgress(s)' /\ Node(s)' = Node(s)
      BY <1>1, <3>1, KeptHeld, Holder DEF Node
    <3> QED BY <1>2, <1>3, <3>1, <3>2 DEF InProgress
  <2>2. OneThread'
    BY BeginOwn DEF OInv, Places
  <2> QED BY <1>4, <2>1, <2>2 DEF OneThread
<1>0. \A s \in Threads \ {t} : /\ Spreading(s)' <=> Spreading(s)
                               /\ Node(s)' = Node(s) /\ local'[s].best = local[s].best
                               /\ local'[s].todo = local[s].todo
                               /\ local'[s].pc = "look" <=> local[s].pc = "look"
                               /\ \A u : ToCome(s, u)' <=> ToCome(s, u)
  BY <1>1, KeptSpreading, Stepper
<1>l. Len(row[u0]) \in Nat /\ seen'[u0] = <<>> /\ Len(seen'[u0]) = 0
  BY <1>2, <1>3, LenProperties DEF IInv, DataOK
<1> HIDE DEF u0
<1>6. Mutual' /\ \A u \in Nodes : Len(seen'[u]) <= Len(row'[u])
  <2>1. Mutual'
    BY DEF FInv, Mutual
  <2>2. \A u \in Nodes \ {u0} : Len(seen'[u]) <= Len(row[u])
    BY <1>2, <1>3 DEF FInv
  <2>3. Len(seen'[u0]) <= Len(row[u0])
    BY <1>l
  <2> QED BY <2>1, <2>2, <2>3
<1>7. \A s \in Threads : local'[s].pc = "look" => Aligned(s)'
  <2>1. Aligned(t)'
    <3>1. \A j \in 1 .. Len(row[u0]) : Len(seen'[u0]) + j = j
      BY <1>l
    <3>2. Len(row[u0]) = Len(seen'[u0]) + Len(row[u0])
      BY <1>l
    <3>3. \A j \in 1 .. Len(row[u0]) : row[u0][j] = row[u0][Len(seen'[u0]) + j]
      BY <3>1
    <3> QED BY <1>3, <1>4, <3>2, <3>3 DEF Aligned
  <2>2. ASSUME NEW s \in Threads \ {t}, local'[s].pc = "look"
        PROVE  Aligned(s)'
    <3>1. Aligned(s) /\ Node(s)' = Node(s) /\ local'[s].todo = local[s].todo
      BY <1>0, <2>2 DEF FInv
    <3>2. seen'[Node(s)] = seen[Node(s)]
      BY <1>0, <1>2, <1>3, <1>5, <2>2
    <3> QED BY <3>1, <3>2 DEF Aligned
  <2> QED BY <2>1, <2>2
<1>8. \A s \in Threads : Spreading(s)' => result'[Node(s)'] = local'[s].best
  BY <1>0, <1>3, <1>4 DEF FInv
<1>9. ASSUME NEW u \in Nodes, NEW i \in 1 .. Len(seen'[u])
      PROVE  StillTrue(u, i)'
  <2>1. u # u0 /\ seen'[u] = seen[u] /\ state'[u] = state[u]
    BY <1>2, <1>3, <1>l
  <2>2. StillTrue(u, i)
    BY <2>1 DEF FInv
  <2>3. ASSUME NEW s \in Threads, Spreading(s), Node(s) = row[u][i], ToCome(s, u)
        PROVE  StillTrue(u, i)'
    <3>1. s # t
      BY <1>4, <2>3
    <3> QED BY <1>0, <2>3, <3>1 DEF StillTrue
  <2>4. CASE result[row[u][i]] = seen[u][i] \/ result[row[u][i]] = result[u] \/ state[u] \in Again
    BY <1>3, <2>1, <2>4 DEF StillTrue
  <2> QED BY <2>2, <2>3, <2>4 DEF StillTrue
<1> QED BY <1>6, <1>7, <1>8, <1>9 DEF FInv

\* Two threads never look at, or go round, the same node.
LEMMA Apart ==
  ASSUME IInv, OInv, NEW s \in Threads, NEW t \in Threads, s # t,
         Spreading(s) \/ local[s].pc \in Inside, Spreading(t) \/ local[t].pc \in Inside
  PROVE  Node(s) \in Nodes /\ Node(t) \in Nodes /\ Node(s) # Node(t)
<1>1. \A r \in Threads : Spreading(r) \/ local[r].pc \in Inside => InProgress(r) /\ Node(r) \in Nodes
  BY Holder DEF Spreading, Inside, InProgress, Working
<1> QED BY <1>1 DEF OInv, Places, OneThread

\* What is looked at is true at the moment of the look.
LEMMA LookFresh ==
  ASSUME IInv, OInv, FInv, NEW t \in Threads, Look(t), row' = row
  PROVE  FInv'
<1> DEFINE u0 == Node(t)
           x == Head(local[t].todo)
           n == Len(seen[u0])
<1>1. \A s \in Threads \ {t} : Kept(s)
  BY Holder DEF Look, Kept
<1>2. /\ u0 \in Nodes /\ local[t].pc = "look" /\ x \in Nodes /\ local[t].todo \in Seq(Nodes) /\ local[t].todo # <<>>
      /\ seen \in [Nodes -> Seq(Nat)] /\ result \in [Nodes -> Nat]
  BY Holder, Stepper DEF Look, Working, LocalOK
<1>3. /\ local'[t].pc = "look" /\ local'[t].current = local[t].current /\ local'[t].todo = Tail(local[t].todo)
      /\ seen' = [seen EXCEPT ![u0] = Append(@, result[x])] /\ result' = result /\ state' = state
  BY Holder DEF Look, Fields, work
<1>4. Node(t)' = u0 /\ ~Spreading(t) /\ ~Spreading(t)'
  BY <1>2, <1>3 DEF Node, Spreading
<1>5. \A s \in Threads \ {t} : local[s].pc = "look" => Node(s) # u0 /\ Node(s) \in Nodes
  BY <1>2, Apart DEF Inside
<1>0. \A s \in Threads \ {t} : /\ Spreading(s)' <=> Spreading(s)
                               /\ Node(s)' = Node(s) /\ local'[s].best = local[s].best
                               /\ local'[s].todo = local[s].todo
                               /\ local'[s].pc = "look" <=> local[s].pc = "look"
                               /\ \A u : ToCome(s, u)' <=> ToCome(s, u)
  BY <1>1, KeptSpreading, Stepper
<1>6. /\ n \in Nat /\ Len(seen'[u0]) = n + 1 /\ seen'[u0][n + 1] = result[x]
      /\ \A i \in 1 .. n : seen'[u0][i] = seen[u0][i]
  BY <1>2, <1>3, AppendProperties, LenProperties
<1>7. /\ Len(local[t].todo) \in Nat \ {0} /\ Len(local'[t].todo) = Len(local[t].todo) - 1 /\ local[t].todo[1] = x
      /\ \A j \in 1 .. Len(local[t].todo) - 1 : local'[t].todo[j] = local[t].todo[j + 1]
  BY <1>2, <1>3, HeadTailProperties, LenProperties, EmptySeq
<1>8. Len(row[u0]) = n + Len(local[t].todo) /\ \A j \in 1 .. Len(local[t].todo) : local[t].todo[j] = row[u0][n + j]
  BY <1>2 DEF FInv, Aligned
<1> HIDE DEF u0, x, n
<1>9. Mutual' /\ \A u \in Nodes : Len(seen'[u]) <= Len(row'[u])
  <2>1. Mutual'
    BY DEF FInv, Mutual
  <2>2. \A u \in Nodes \ {u0} : Len(seen'[u]) <= Len(row[u])
    BY <1>2, <1>3 DEF FInv
  <2>3. Len(seen'[u0]) <= Len(row[u0])
    BY <1>6, <1>7, <1>8
  <2> QED BY <2>1, <2>2, <2>3
<1>10. \A s \in Threads : local'[s].pc = "look" => Aligned(s)'
  <2>1. Aligned(t)'
    <3>1. Len(row[u0]) = Len(seen'[u0]) + Len(local'[t].todo)
      BY <1>6, <1>7, <1>8
    <3>2. \A j \in 1 .. Len(local'[t].todo) : local'[t].todo[j] = row[u0][Len(seen'[u0]) + j]
      <4> SUFFICES ASSUME NEW j \in 1 .. Len(local'[t].todo)
                   PROVE  local'[t].todo[j] = row[u0][Len(seen'[u0]) + j]
        OBVIOUS
      <4>1. j \in Nat /\ j + 1 \in 1 .. Len(local[t].todo) /\ j \in 1 .. Len(local[t].todo) - 1
        BY <1>7
      <4>2. local'[t].todo[j] = row[u0][n + (j + 1)]
        BY <1>7, <1>8, <4>1
      <4>3. n + (j + 1) = Len(seen'[u0]) + j
        BY <1>6, <4>1
      <4> QED BY <4>2, <4>3
    <3> QED BY <1>3, <1>4, <3>1, <3>2 DEF Aligned
  <2>2. ASSUME NEW s \in Threads \ {t}, local'[s].pc = "look"
        PROVE  Aligned(s)'
    <3>1. Aligned(s) /\ Node(s)' = Node(s) /\ local'[s].todo = local[s].todo
      BY <1>0, <2>2 DEF FInv
    <3>2. seen'[Node(s)] = seen[Node(s)]
      BY <1>0, <1>2, <1>3, <1>5, <2>2
    <3> QED BY <3>1, <3>2 DEF Aligned
  <2> QED BY <2>1, <2>2
<1>11. \A s \in Threads : Spreading(s)' => result'[Node(s)'] = local'[s].best
  BY <1>0, <1>3, <1>4 DEF FInv
<1>12. ASSUME NEW u \in Nodes, NEW i \in 1 .. Len(seen'[u])
       PROVE  StillTrue(u, i)'
  <2>1. CASE u = u0 /\ i = n + 1
    <3>1. 1 \in 1 .. Len(local[t].todo)
      BY <1>7
    <3>2. row[u0][i] = x
      BY <1>7, <1>8, <2>1, <3>1
    <3> QED BY <1>3, <1>6, <2>1, <3>2 DEF StillTrue
  <2>2. CASE ~(u = u0 /\ i = n + 1)
    <3>0. i \in 1 .. Len(seen[u]) /\ seen'[u][i] = seen[u][i]
      <4>1. CASE u = u0
        <5>1. i \in 1 .. n
          BY <1>6, <2>2, <4>1
        <5> QED BY <1>6, <4>1, <5>1 DEF n
      <4>2. CASE u # u0
        BY <1>2, <1>3, <4>2
      <4> QED BY <4>1, <4>2
    <3>1. StillTrue(u, i)
      BY <3>0 DEF FInv
    <3>2. ASSUME NEW s \in Threads, Spreading(s), Node(s) = row[u][i], ToCome(s, u)
          PROVE  StillTrue(u, i)'
      <4>1. s # t
        BY <1>4, <3>2
      <4> QED BY <1>0, <3>2, <4>1 DEF StillTrue
    <3>3. CASE result[row[u][i]] = seen[u][i] \/ result[row[u][i]] = result[u] \/ state[u] \in Again
      BY <1>3, <3>0, <3>3 DEF StillTrue
    <3> QED BY <3>1, <3>2, <3>3 DEF StillTrue
  <2> QED BY <2>1, <2>2
<1> QED BY <1>9, <1>10, <1>11, <1>12 DEF FInv

\* Every neighbour that has seen the node's old community is one the thread
\* has still to come to.
LEMMA PlaceFresh ==
  ASSUME IInv, OInv, FInv, NEW t \in Threads, Place(t), row' = row
  PROVE  FInv'
<1> DEFINE u0 == Node(t)
           best == local[t].best
<1>1. \A s \in Threads \ {t} : Kept(s)
  BY Holder DEF Place, Kept
<1>2. /\ u0 \in Nodes /\ local[t].pc = "place"
      /\ seen \in [Nodes -> Seq(Nat)] /\ result \in [Nodes -> Nat] /\ row \in [Nodes -> Seq(Nodes)]
  BY Holder DEF Place, Working, IInv, DataOK
<1>3. /\ local'[t].pc = "spread" /\ local'[t].current = local[t].current /\ local'[t].todo = row[u0]
      /\ local'[t].best = best
      /\ seen' = [seen EXCEPT ![u0] = <<>>] /\ result' = [result EXCEPT ![u0] = best] /\ state' = state
  BY Holder DEF Place, Fields, work
<1>4. Node(t)' = u0 /\ ~Spreading(t) /\ Spreading(t)'
  BY <1>2, <1>3 DEF Node, Spreading
<1>5. \A s \in Threads \ {t} : Spreading(s) \/ local[s].pc = "look" => Node(s) # u0 /\ Node(s) \in Nodes
  BY <1>2, Apart DEF Inside
<1>0. \A s \in Threads \ {t} : /\ Spreading(s)' <=> Spreading(s)
                               /\ Node(s)' = Node(s) /\ local'[s].best = local[s].best
                               /\ local'[s].todo = local[s].todo
                               /\ local'[s].pc = "look" <=> local[s].pc = "look"
                               /\ \A u : ToCome(s, u)' <=> ToCome(s, u)
  BY <1>1, KeptSpreading, Stepper
<1>l. Len(row[u0]) \in Nat /\ Len(seen'[u0]) = 0
  BY <1>2, <1>3, LenProperties
<1> HIDE DEF u0, best
<1>6. Mutual' /\ \A u \in Nodes : Len(seen'[u]) <= Len(row'[u])
  <2>1. Mutual'
    BY DEF FInv, Mutual
  <2>2. \A u \in Nodes \ {u0} : Len(seen'[u]) <= Len(row[u])
    BY <1>2, <1>3 DEF FInv
  <2>3. Len(seen'[u0]) <= Len(row[u0])
    BY <1>l
  <2> QED BY <2>1, <2>2, <2>3
<1>7. \A s \in Threads : local'[s].pc = "look" => Aligned(s)'
  <2> SUFFICES ASSUME NEW s \in Threads, local'[s].pc = "look" PROVE Aligned(s)'
    OBVIOUS
  <2>0. s # t
    BY <1>3
  <2>1. Aligned(s) /\ Node(s)' = Node(s) /\ local'[s].todo = local[s].todo
    BY <1>0, <2>0 DEF FInv
  <2>2. seen'[Node(s)] = seen[Node(s)]
    BY <1>0, <1>2, <1>3, <1>5, <2>0
  <2> QED BY <2>1, <2>2 DEF Aligned
<1>8. \A s \in Threads : Spreading(s)' => result'[Node(s)'] = local'[s].best
  <2> SUFFICES ASSUME NEW s \in Threads, Spreading(s)' PROVE result'[Node(s)'] = local'[s].best
    OBVIOUS
  <2>1. CASE s = t
    BY <1>2, <1>3, <1>4, <2>1
  <2>2. CASE s # t
    BY <1>0, <1>2, <1>3, <1>5, <2>2 DEF FInv
  <2> QED BY <2>1, <2>2
<1>9. ASSUME NEW u \in Nodes, NEW i \in 1 .. Len(seen'[u])
      PROVE  StillTrue(u, i)'
  <2>1. u # u0 /\ seen'[u] = seen[u] /\ result'[u] = result[u]
    BY <1>2, <1>3, <1>l
  <2>2. StillTrue(u, i) /\ i \in 1 .. Len(row[u]) /\ row[u][i] \in Nodes
    <3>1. StillTrue(u, i) /\ Len(seen[u]) <= Len(row[u])
      BY <2>1 DEF FInv
    <3>2. Len(seen[u]) \in Nat /\ Len(row[u]) \in Nat /\ row[u] \in Seq(Nodes)
      BY <1>2, LenProperties
    <3>3. i \in 1 .. Len(row[u])
      BY <2>1, <3>1, <3>2
    <3> QED BY <3>1, <3>2, <3>3, ElementOfSeq
  <2>3. CASE row[u][i] = u0
    <3>1. \E j \in 1 .. Len(row[u0]) : row[u0][j] = u
      BY <1>2, <2>2, <2>3 DEF FInv, Mutual
    <3>2. ToCome(t, u)'
      BY <1>3, <3>1 DEF ToCome
    <3> QED BY <1>4, <2>3, <3>2 DEF StillTrue
  <2>4. CASE row[u][i] # u0
    <3>0. result'[row[u][i]] = result[row[u][i]]
      BY <1>2, <1>3, <2>2, <2>4
    <3>1. ASSUME NEW s \in Threads, Spreading(s), Node(s) = row[u][i], ToCome(s, u)
          PROVE  StillTrue(u, i)'
      <4>1. s # t
        BY <1>4, <3>1
      <4> QED BY <1>0, <3>1, <4>1 DEF StillTrue
    <3>2. CASE result[row[u][i]] = seen[u][i] \/ result[row[u][i]] = result[u] \/ state[u] \in Again
      BY <1>3, <2>1, <3>0, <3>2 DEF StillTrue
    <3> QED BY <2>2, <3>1, <3>2 DEF StillTrue
  <2> QED BY <2>3, <2>4
<1> QED BY <1>6, <1>7, <1>8, <1>9 DEF FInv

\* A neighbour in the community the node has come into need not look again.
LEMMA SpreadFresh ==
  ASSUME IInv, OInv, FInv, NEW t \in Threads, Spread(t), row' = row
  PROVE  FInv'
<1>1. \A s \in Threads \ {t} : Kept(s)
  BY Holder DEF Spread, Kept
<1>2. row' = row /\ result' = result /\ seen' = seen /\ state' = state
  BY DEF Spread, OnlyLocal, work, history
<1>3. local[t].pc = "spread" /\ Spreading(t) /\ local[t].todo \in Seq(Nodes) /\ result[Node(t)] = local[t].best
  BY Stepper DEF Spread, Spreading, LocalOK, FInv
<1>4. /\ local'[t].pc = IF local[t].todo = <<>> THEN "finish"
                        ELSE IF result[Head(local[t].todo)] # local[t].best THEN "schedule" ELSE "spread"
      /\ local'[t].todo = IF local[t].todo # <<>> /\ result[Head(local[t].todo)] = local[t].best
                          THEN Tail(local[t].todo) ELSE local[t].todo
      /\ local'[t].best = local[t].best /\ local'[t].current = local[t].current
  BY Holder DEF Spread, Fields
<1>5. Node(t)' = Node(t)
  BY <1>4 DEF Node
<1>6. ASSUME NEW u \in Nodes, ToCome(t, u)
      PROVE  (Spreading(t)' /\ ToCome(t, u)') \/ result[Node(t)] = result[u]
  <2>1. PICK j \in 1 .. Len(local[t].todo) : local[t].todo[j] = u
    BY <1>6 DEF ToCome
  <2>2. local[t].todo # <<>>
    BY <2>1, EmptySeq
  <2>3. Spreading(t)'
    BY <1>4, <2>2 DEF Spreading
  <2>4. CASE local'[t].todo = local[t].todo
    BY <1>6, <2>3, <2>4 DEF ToCome
  <2>5. CASE result[Head(local[t].todo)] = local[t].best /\ local'[t].todo = Tail(local[t].todo)
    <3>1. /\ Head(local[t].todo) = local[t].todo[1] /\ Len(local'[t].todo) = Len(local[t].todo) - 1
          /\ Len(local[t].todo) \in Nat
          /\ \A k \in 1 .. Len(local[t].todo) - 1 : local'[t].todo[k] = local[t].todo[k + 1]
      BY <1>3, <2>2, <2>5, HeadTailProperties, LenProperties
    <3>2. CASE j = 1
      BY <1>3, <2>1, <2>5, <3>1, <3>2
    <3>3. CASE j # 1
      <4>1. j - 1 \in 1 .. Len(local[t].todo) - 1 /\ (j - 1) + 1 = j
        BY <2>1, <3>1, <3>3
      <4>2. local'[t].todo[j - 1] = u /\ j - 1 \in 1 .. Len(local'[t].todo)
        BY <2>1, <3>1, <4>1
      <4> QED BY <2>3, <4>2 DEF ToCome
    <3> QED BY <3>2, <3>3
  <2> QED BY <1>4, <2>4, <2>5
<1> QED BY <1>1, <1>2, <1>3, <1>4, <1>5, <1>6, SameFresh

\* scheduleNode leaves the neighbour queued or marked.
LEMMA ScheduleFresh ==
  ASSUME IInv, OInv, FInv, NEW t \in Threads, Schedule(t), row' = row
  PROVE  FInv'
<1> DEFINE x == Head(local[t].todo)
<1>1. \A s \in Threads \ {t} : Kept(s)
  BY Holder DEF Schedule, Kept
<1>2. result' = result /\ seen' = seen
  BY DEF Schedule, history
<1>3. local[t].pc = "schedule" /\ Spreading(t) /\ local[t].todo \in Seq(Nodes) /\ local[t].todo # <<>> /\ x \in Nodes
      /\ local[t].best # None
  BY Stepper, Holder DEF Schedule, Spreading, LocalOK, HeldOK
<1>4. /\ local'[t].pc \in {"spread", "flush"} /\ local'[t].todo = Tail(local[t].todo)
      /\ local'[t].best = local[t].best /\ local'[t].current = local[t].current
  <2>1. CASE state[x] = "idle"
    BY <2>1, Holder DEF Schedule, WithPushed, Fields
  <2>2. CASE state[x] # "idle"
    BY <2>2, Holder DEF Schedule, Fields
  <2> QED BY <2>1, <2>2
<1>5. Node(t)' = Node(t) /\ Spreading(t)'
  BY <1>3, <1>4 DEF Node, Spreading
<1>6. state' = [state EXCEPT ![x] = Marked(@)] /\ state \in [Nodes -> NodeStates]
  BY DEF Schedule, OInv
<1>7. /\ x = local[t].todo[1] /\ Len(local'[t].todo) = Len(local[t].todo) - 1
      /\ Len(local[t].todo) \in Nat
      /\ \A k \in 1 .. Len(local[t].todo) - 1 : local'[t].todo[k] = local[t].todo[k + 1]
  BY <1>3, <1>4, HeadTailProperties, LenProperties
<1> HIDE DEF x
<1>8. state'[x] \in Again /\ \A u \in Nodes : state[u] \in Again => state'[u] \in Again
  BY <1>3, <1>6 DEF Marked, NodeStates, Busy, Again
<1>9. ASSUME NEW u \in Nodes, ToCome(t, u)
      PROVE  ToCome(t, u)' \/ state'[u] \in Again
  <2>1. PICK j \in 1 .. Len(local[t].todo) : local[t].todo[j] = u
    BY <1>9 DEF ToCome
  <2>2. CASE j = 1
    BY <1>7, <1>8, <2>1, <2>2
  <2>3. CASE j # 1
    <3>1. j - 1 \in 1 .. Len(local[t].todo) - 1 /\ (j - 1) + 1 = j
      BY <1>7, <2>1, <2>3
    <3>2. local'[t].todo[j - 1] = u /\ j - 1 \in 1 .. Len(local'[t].todo)
      BY <1>7, <2>1, <3>1
    <3> QED BY <3>2 DEF ToCome
  <2> QED BY <2>2, <2>3
<1>10. local'[t].pc # "look"
  BY <1>4
<1> QED BY <1>1, <1>2, <1>3, <1>4, <1>5, <1>8, <1>9, <1>10, SameFresh

\* A node that is finished with has nothing left to tell.
LEMMA FinishFresh ==
  ASSUME IInv, OInv, FInv, NEW t \in Threads, Finish(t), row' = row
  PROVE  FInv'
<1> DEFINE u0 == Node(t)
<1>1. \A s \in Threads \ {t} : Kept(s)
  BY Holder DEF Finish, WithPushed, Kept
<1>2. result' = result /\ seen' = seen /\ local[t].pc = "finish" /\ u0 \in Nodes
  BY Holder DEF Finish, history, Working
<1>3. local'[t].pc \in {"node", "flush"} /\ local'[t].best = None
  <2>1. CASE state[u0] = "processing"
    BY <2>1, Holder DEF Finish, Fields
  <2>2. CASE state[u0] # "processing"
    BY <2>2, Holder DEF Finish, WithPushed, Fields
  <2> QED BY <2>1, <2>2
<1>4. ~Spreading(t) /\ ~Spreading(t)' /\ local'[t].pc # "look"
  BY <1>2, <1>3 DEF Spreading
<1>5. \A u \in Nodes : state[u] \in Again => state'[u] \in Again
  BY <1>2 DEF Finish, Processed, Again, OInv
<1> QED BY <1>1, <1>2, <1>4, <1>5, SameFresh

\* A node handed over is still queued.
LEMMA FlushFresh ==
  ASSUME IInv, OInv, FInv, NEW t \in Threads, Flush(t), row' = row
  PROVE  FInv'
<1>1. \A s \in Threads \ {t} : Kept(s)
  BY Holder DEF Flush, Kept
<1>2. result' = result /\ seen' = seen /\ state' = state /\ local[t].pc = "flush"
  BY DEF Flush, history
<1>3. /\ local'[t].pc = "notify" /\ local'[t].best = local[t].best /\ local'[t].current = local[t].current
      /\ local'[t].todo = local[t].todo
  BY Holder DEF Flush, Fields
<1>4. /\ Spreading(t)' <=> Spreading(t)
      /\ Node(t)' = Node(t) /\ \A u : ToCome(t, u)' <=> ToCome(t, u)
  BY <1>2, <1>3 DEF Spreading, Node, ToCome
<1> QED BY <1>1, <1>2, <1>3, <1>4, SameFresh

\* Waking a thread makes nothing out of date.
LEMMA NotifyFresh ==
  ASSUME IInv, OInv, FInv, NEW t \in Threads, Notify(t), row' = row
  PROVE  FInv'
<1>1. \A s \in Threads \ {t} : Kept(s)
  BY DEF Notify, Waking, Kept
<1>2. result' = result /\ seen' = seen /\ state' = state /\ local[t].pc = "notify"
  BY DEF Notify, OnlyLocal, work, history
<1>3. /\ local'[t].pc = (IF local[t].best = None THEN "node" ELSE "spread")
      /\ local'[t].best = local[t].best /\ local'[t].current = local[t].current
      /\ local'[t].todo = local[t].todo
  BY Holder DEF Notify, Waking, Fields
<1>4. /\ Spreading(t)' <=> Spreading(t)
      /\ Node(t)' = Node(t) /\ \A u : ToCome(t, u)' <=> ToCome(t, u)
  BY <1>2, <1>3 DEF Spreading, Node, ToCome
<1> QED BY <1>1, <1>2, <1>3, <1>4, SameFresh

\* What a node saw is true, or the node is to be looked at again, or about to
\* be told.
LEMMA MoveFresh ==
  ASSUME IInv, OInv, FInv, NEW t \in Threads, MoveStep(t), row' = row
  PROVE  FInv'
<1> DEFINE Calm == /\ \A s \in Threads \ {t} : Kept(s)
                   /\ result' = result /\ seen' = seen /\ state' = state
                   /\ local'[t].pc # "look" /\ ~Spreading(t) /\ ~Spreading(t)'
<1>1. CASE TestResize(t)
  <2>1. Calm
    BY <1>1, Holder DEF TestResize, Go, OnlyLocal, work, history, Kept, Fields, Spreading
  <2> QED BY <2>1, CalmFresh
<1>2. CASE Announce(t)
  <2>1. Calm
    BY <1>2, Holder DEF Announce, Go, work, history, Kept, Fields, Spreading
  <2> QED BY <2>1, CalmFresh
<1>3. CASE Yield(t)
  <2>1. Calm
    BY <1>3, Holder DEF Yield, Go, OnlyLocal, work, history, Kept, Fields, Spreading
  <2> QED BY <2>1, CalmFresh
<1>4. CASE Resume(t)
  <2>1. Calm
    BY <1>4, Holder DEF Resume, Go, work, history, Kept, Fields, Spreading
  <2> QED BY <2>1, CalmFresh
<1>5. CASE Stay(t)
  <2>1. Calm
    BY <1>5, Holder DEF Stay, Go, OnlyLocal, work, history, Kept, Fields, Spreading
  <2> QED BY <2>1, CalmFresh
<1>6. ASSUME NEW c, ChooseSeen(t, c)
      PROVE  FInv'
  <2>1. Calm
    BY <1>6, Holder DEF ChooseSeen, work, Kept, Fields, Spreading
  <2> QED BY <2>1, CalmFresh
<1>7. CASE ChooseNew(t)
  <2>1. Calm
    BY <1>7, Holder DEF ChooseNew, work, Kept, Fields, Spreading
  <2> QED BY <2>1, CalmFresh
<1>8. CASE Grow(t)
  <2>1. Calm
    BY <1>8, Holder DEF Grow, Go, work, history, Kept, Fields, Spreading
  <2> QED BY <2>1, CalmFresh
<1>9. CASE Await(t)
  <2>1. Calm
    BY <1>9, Holder DEF Await, Go, OnlyLocal, work, history, Kept, Fields, Spreading
  <2> QED BY <2>1, CalmFresh
<1>10. CASE Growing(t)
  <2>1. Calm
    BY <1>10, Holder DEF Growing, Go, work, history, Kept, Fields, Spreading
  <2> QED BY <2>1, CalmFresh
<1>11. CASE TakeOwn(t)
  <2>1. Calm
    BY <1>11, Holder DEF TakeOwn, OnlyLocal, work, history, Kept, Fields, Spreading
  <2> QED BY <2>1, CalmFresh
<1>12. CASE TakeOrWait(t)
  <2>0. local[t].pc = "node" /\ (Pop(t) \/ \E pc \in {"sleep", "leave"} : Go(t, pc))
    BY <1>12 DEF TakeOrWait
  <2>1. Calm
    BY <1>12, <2>0, Holder DEF TakeOrWait, Pop, Go, history, Kept, Fields, Spreading
  <2> QED BY <2>1, CalmFresh
<1>13. CASE Wait(t)
  <2>0. local[t].pc = "wait" /\ (Pop(t) \/ \E pc \in {"sleep", "leave"} : Go(t, pc))
    BY <1>13 DEF Wait
  <2>1. Calm
    BY <1>13, <2>0, Holder DEF Wait, Pop, Go, history, Kept, Fields, Spreading
  <2> QED BY <2>1, CalmFresh
<1>14. CASE Leave(t)
  <2>1. Calm
    BY <1>14, Holder DEF Leave, Waking, OnlyLocal, work, history, Kept, Fields, Spreading
  <2> QED BY <2>1, CalmFresh
<1> QED BY <1>1, <1>2, <1>3, <1>4, <1>5, <1>6, <1>7, <1>8, <1>9, <1>10, <1>11, <1>12, <1>13, <1>14,
           BeginFresh, LookFresh, PlaceFresh, SpreadFresh, ScheduleFresh, FinishFresh, FlushFresh,
           NotifyFresh DEF MoveStep

\* Refinement makes nothing out of date in the move phase.
LEMMA StillFresh ==
  ASSUME UNCHANGED <<row, result, moveVars>>
  PROVE  (RInv => RInv') /\ (FInv => FInv')
<1>1. \A t \in Threads : /\ Spreading(t)' <=> Spreading(t)
                         /\ Node(t)' = Node(t) /\ \A u : ToCome(t, u)' <=> ToCome(t, u)
  BY DEF moveVars, Spreading, Node, ToCome
<1>2. RInv => RInv'
  BY DEF RInv, tcount, moveVars
<1>3. ASSUME FInv PROVE FInv'
  <2>1. Mutual' /\ \A u \in Nodes : Len(seen'[u]) <= Len(row'[u])
    BY <1>3 DEF FInv, Mutual, moveVars
  <2>2. \A s \in Threads : local'[s].pc = "look" => Aligned(s)'
    BY <1>1, <1>3 DEF FInv, Aligned, moveVars
  <2>3. \A s \in Threads : Spreading(s)' => result'[Node(s)'] = local'[s].best
    BY <1>1, <1>3 DEF FInv, moveVars
  <2>4. \A u \in Nodes : \A i \in 1 .. Len(seen'[u]) : StillTrue(u, i)'
    BY <1>1, <1>3 DEF FInv, StillTrue, moveVars
  <2> QED BY <2>1, <2>2, <2>3, <2>4 DEF FInv
<1> QED BY <1>2, <1>3

\* At first nobody rests and nothing was seen.
LEMMA InitFresh == Init => RInv /\ FInv
<1> SUFFICES ASSUME Init PROVE RInv /\ FInv
  OBVIOUS
<1>1. PICK c \in Cases : row = c.row /\ result = c.result /\ MoveInit(c.moves)
  BY DEF Init
<1>2. \A t \in Threads : local[t].pc = "node"
  BY <1>1 DEF MoveInit, Start
<1>3. RInv
  <2>1. {t \in Threads : local[t].pc \in Idling} = {}
    BY <1>2 DEF Idling
  <2> QED BY <1>1, <1>2, <2>1, FS_EmptySet DEF RInv, MoveInit
<1>4. \A u \in Nodes : seen[u] = <<>> /\ Len(seen[u]) = 0 /\ row[u] \in Seq(Nodes) /\ Len(row[u]) \in Nat
      /\ DOMAIN row[u] = 1 .. Len(row[u])
  BY <1>1, InitHolds, LenProperties DEF MoveInit, IInv, DataOK
<1>5. Mutual
  <2>1. \A u, v \in Nodes : v \in ToSet(row[u]) => u \in ToSet(row[v])
    BY <1>1, UndirectedAssumption
  <2> QED BY <1>4, <2>1 DEF Mutual, ToSet
<1>6. FInv
  BY <1>2, <1>4, <1>5 DEF FInv, Spreading
<1> QED BY <1>3, <1>6

\* Once all threads rest nothing is queued, so what every node saw is true.
LEMMA FreshFollows == IInv /\ OInv /\ RInv /\ FInv => LastLookIsFresh
<1> SUFFICES ASSUME IInv, OInv, RInv, FInv, MoveDone, NEW u \in Nodes, NEW i \in DOMAIN seen[u]
             PROVE  result[row[u][i]] \in {seen[u][i], result[u]}
  BY DEF LastLookIsFresh
<1>1. \A t \in Threads : local[t].pc = "done" /\ local[t].current = <<>> /\ local[t].fresh = <<>>
  BY Holder DEF MoveDone, HeldOK, Idling
<1>2. queue = <<>>
  BY <1>1, LeidenAssumption DEF RInv
<1>3. \A t \in Threads : ~InProgress(t) /\ ~Spreading(t)
  BY <1>1 DEF InProgress, Spreading
<1>4. \A kind, w, k : ~At(u, kind, w, k)
  <2>1. Len(queue) = 0 /\ \A t \in Threads : Ahead(t) = {} /\ Len(local[t].fresh) = 0
    BY <1>1, <1>2, <1>3 DEF Ahead
  <2> QED BY <2>1 DEF At
<1>5. state[u] \notin Again
  BY <1>3, <1>4 DEF OInv, Places, QueuedHasSpot, BusyHasThread, Busy, Again
<1>6. i \in 1 .. Len(seen[u])
  BY LenProperties DEF OInv, Held
<1> QED BY <1>3, <1>5, <1>6 DEF FInv, StillTrue

(* When the threads have left, no node stays put on what is no longer so:  *)
(* for any undirected graph, any number of threads and any order of their  *)
(* moves, what the last look at a node found around it still holds, or the *)
(* neighbour has come into the node's own community (ParallelLeiden.cpp,   *)
(* the neighbours scheduled again after a move).                           *)
THEOREM NodesFresh == Spec => []LastLookIsFresh
<1>1. Init => IInv /\ OInv /\ RInv /\ FInv
  BY InitHolds, InitOwned, InitFresh
<1>2. IInv /\ OInv /\ RInv /\ FInv /\ [Next]_vars => IInv' /\ OInv' /\ RInv' /\ FInv'
  <2> SUFFICES ASSUME IInv, OInv, RInv, FInv, [Next]_vars PROVE IInv' /\ OInv' /\ RInv' /\ FInv'
    OBVIOUS
  <2>1. ASSUME NEW t \in Threads, Move(t)
        PROVE  IInv' /\ OInv' /\ RInv' /\ FInv'
    BY <2>1, MoveKeeps, MoveOwned, MoveRest, MoveFresh DEF Move
  <2>2. ASSUME NEW t \in Threads, Refine(t)
        PROVE  IInv' /\ OInv' /\ RInv' /\ FInv'
    BY <2>2, StillKeeps, StillOwned, StillFresh DEF Refine
  <2>3. CASE Turn
    BY <2>3, StillKeeps, StillOwned, StillFresh DEF Turn
  <2>4. CASE EndRound
    BY <2>4, StillKeeps, StillOwned, StillFresh DEF EndRound
  <2>5. CASE UNCHANGED vars
    BY <2>5, StillKeeps, StillOwned, StillFresh DEF vars
  <2> QED BY <2>1, <2>2, <2>3, <2>4, <2>5 DEF Next
<1>3. IInv /\ OInv /\ RInv /\ FInv => LastLookIsFresh
  BY FreshFollows
<1> QED BY <1>1, <1>2, <1>3, PTL DEF Spec

-----------------------------------------------------------------------------
(* The refining phase. A thread's locks follow from where it stands (Owns, *)
(* Locks). Under its own lock a node that is alone stays so, and under the *)
(* target's lock the host stays (Fated); what a thread has noted of a      *)
(* community stays true or the host has left for good (Candidate), since a *)
(* node moves once, by the one thread it was handed to (Handed).           *)

RefineFields == {"pc", "nodes", "todo", "neighComms", "criticalNodes", "bestC"}
Targeting == {"lock1", "lock2", "test", "host", "join", "joined", "relock1", "relock2", "recheck"}
Handing == {"unlock", "leave"}

Beside(u, v) == \E i \in 1 .. Len(row[u]) : row[u][i] = v

\* l are the locals of a thread, or its next ones.
Owns(l, x) ==
  \/ l.pc \in {"lock2", "relock2"} /\ x = (IF Head(l.nodes) < l.bestC THEN Head(l.nodes) ELSE l.bestC)
  \/ l.pc \in {"test", "host", "join", "joined", "recheck", "unlock"} /\ x \in {Head(l.nodes), l.bestC}
  \/ l.pc \in {"update", "leave"} /\ x = Head(l.nodes)

LocalsTyped(l) ==
  /\ DOMAIN l = RefineFields
  /\ l.pc \in {"pick", "cut", "update"} \cup Targeting \cup Handing
  /\ l.nodes \in Seq(Nodes) /\ l.todo \in Seq(Nodes)
  /\ l.neighComms \subseteq Nodes /\ l.criticalNodes \subseteq Nodes
  /\ IF l.pc = "pick" THEN l.neighComms = {} /\ l.criticalNodes = {} ELSE l.nodes # <<>>
  /\ l.pc \in Targeting \cup {"unlock"} => l.bestC \in Nodes /\ l.bestC # Head(l.nodes)

\* c is a community of a neighbour of u, or its host has left it.
Candidate(u, c) ==
  /\ result[c] = result[u]
  /\ refined[c] # c \/ \E x \in Nodes : Beside(u, x) /\ refined[x] = c

\* What a thread has noted of the surroundings of its node.
Noted(l) ==
  l.pc \notin {"pick"} \cup Handing =>
    LET u == Head(l.nodes)
    IN  /\ \A x \in l.criticalNodes : result[x] = result[u] /\ Beside(u, x)
        /\ \A c \in l.neighComms : Candidate(u, c)
        /\ l.pc = "cut" => /\ l.criticalNodes \subseteq l.neighComms
                           /\ \A i \in 1 .. Len(l.todo) : Beside(u, l.todo[i])
        /\ l.pc # "cut" => u \notin l.neighComms /\ u \notin l.criticalNodes
        /\ l.pc \in Targeting => l.bestC \in l.neighComms

Fated(l) ==
  /\ \A i \in 1 .. Len(l.nodes) : i > 1 \/ l.pc \notin Handing => refined[l.nodes[i]] = l.nodes[i]
  /\ l.pc \in {"host", "update", "join", "joined"} => singleton[Head(l.nodes)]
  /\ l.pc \in {"join", "joined"} => refined[l.bestC] = l.bestC
  /\ l.pc = "joined" => ~singleton[l.bestC]

Handed ==
  /\ left \subseteq Nodes
  /\ \A t \in Threads : \A i \in 1 .. Len(rlocal[t].nodes) : rlocal[t].nodes[i] \notin left
  /\ \A s, t \in Threads : \A i \in 1 .. Len(rlocal[s].nodes) : \A j \in 1 .. Len(rlocal[t].nodes) :
       rlocal[s].nodes[i] = rlocal[t].nodes[j] => s = t /\ i = j

Locks ==
  /\ \A x \in held : \E t \in Threads : Owns(rlocal[t], x)
  /\ \A t \in Threads : \A x \in Nodes : Owns(rlocal[t], x) => x \in held
  /\ \A s, t \in Threads : \A x \in Nodes : Owns(rlocal[s], x) /\ Owns(rlocal[t], x) => s = t

Hosted ==
  /\ refined \in [Nodes -> Nodes] /\ singleton \in [Nodes -> BOOLEAN]
  /\ \A u \in Nodes : refined[refined[u]] = refined[u] /\ result[refined[u]] = result[u]
  /\ \A u \in Nodes : refined[u] # u => ~singleton[refined[u]]
  /\ \A u \in left : refined[u] = u
  /\ \A c \in Nodes : Connected(Members(c))

Sound ==
  /\ row \in [Nodes -> Seq(Nodes)] /\ Mutual
  /\ DOMAIN rlocal = Threads
  /\ \A t \in Threads : LocalsTyped(rlocal[t]) /\ Noted(rlocal[t]) /\ Fated(rlocal[t])
  /\ Handed /\ Locks /\ Hosted

RefineInv == IF phase = "move" THEN RefineBlank /\ Mutual ELSE slipped \/ Sound

-----------------------------------------------------------------------------
\* Nodes are numbers, ordered as the locks are.
LEMMA NodesInt == Nodes \subseteq Int /\ \A x, y \in Nodes : x < y \/ x = y \/ y < x
  BY LeidenAssumption DEF Nodes

\* What Sound says of the thread that steps.
LEMMA Refiner ==
  ASSUME Sound, NEW t \in Threads
  PROVE  /\ LocalsTyped(rlocal[t]) /\ Noted(rlocal[t]) /\ Fated(rlocal[t])
         /\ DOMAIN rlocal = Threads /\ DOMAIN rlocal[t] = RefineFields
         /\ rlocal[t].nodes # <<>> =>
              /\ U(t) = rlocal[t].nodes[1] /\ U(t) \in Nodes /\ 1 \in 1 .. Len(rlocal[t].nodes)
              /\ row[U(t)] \in Seq(Nodes)
         /\ rlocal[t].todo # <<>> =>
              /\ Head(rlocal[t].todo) = rlocal[t].todo[1] /\ Head(rlocal[t].todo) \in Nodes
              /\ 1 \in 1 .. Len(rlocal[t].todo)
              /\ Tail(rlocal[t].todo) \in Seq(Nodes) /\ Len(Tail(rlocal[t].todo)) = Len(rlocal[t].todo) - 1
              /\ \A i \in 1 .. Len(rlocal[t].todo) - 1 : Tail(rlocal[t].todo)[i] = rlocal[t].todo[i + 1]
<1>1. LocalsTyped(rlocal[t]) /\ Noted(rlocal[t]) /\ Fated(rlocal[t]) /\ DOMAIN rlocal = Threads
      /\ row \in [Nodes -> Seq(Nodes)]
  BY DEF Sound
<1>2. ASSUME NEW q \in Seq(Nodes), q # <<>>
      PROVE  /\ Head(q) = q[1] /\ Head(q) \in Nodes /\ Tail(q) \in Seq(Nodes) /\ Len(Tail(q)) = Len(q) - 1
             /\ \A i \in 1 .. Len(q) - 1 : Tail(q)[i] = q[i + 1]
             /\ 1 \in 1 .. Len(q)
  <2>1. Head(q) = q[1] /\ Head(q) \in Nodes /\ Tail(q) \in Seq(Nodes) /\ Len(Tail(q)) = Len(q) - 1
    BY <1>2, HeadTailProperties
  <2>2. Len(q) \in Nat /\ Len(q) # 0
    BY <1>2, EmptySeq, LenProperties
  <2>3. \A i \in 1 .. Len(q) - 1 : Tail(q)[i] = q[i + 1]
    BY <1>2, HeadTailProperties
  <2> QED BY <2>1, <2>2, <2>3
<1> QED BY <1>1, <1>2 DEF LocalsTyped, U, L

\* Only locks of nodes are held.
LEMMA HeldNodes == Sound => held \subseteq Nodes
<1> SUFFICES ASSUME Sound, NEW x \in held PROVE x \in Nodes
  OBVIOUS
<1>1. PICK t \in Threads : Owns(rlocal[t], x)
  BY DEF Sound, Locks
<1>2. LocalsTyped(rlocal[t])
  BY DEF Sound
<1>3. rlocal[t].nodes # <<>> => Head(rlocal[t].nodes) \in Nodes
  BY Refiner DEF U, L
<1> QED BY <1>1, <1>2, <1>3 DEF Owns, LocalsTyped, Targeting, Handing

\* A step that changes no community, and of the lists only the thread's own.
LEMMA ThreadStep ==
  ASSUME Sound, NEW t \in Threads, UNCHANGED <<row, result, refined, singleton, left>>,
         DOMAIN rlocal' = Threads, \A s \in Threads \ {t} : rlocal'[s] = rlocal[s],
         LocalsTyped(rlocal'[t]), Noted(rlocal'[t]), Fated(rlocal'[t]),
         rlocal'[t].nodes = rlocal[t].nodes \/ (rlocal[t].nodes # <<>> /\ rlocal'[t].nodes = Tail(rlocal[t].nodes)),
         held' \subseteq Nodes,
         \A x \in Nodes : x \in held' <=> (x \in held /\ ~Owns(rlocal[t], x)) \/ Owns(rlocal'[t], x),
         \A x \in Nodes : Owns(rlocal'[t], x) => Owns(rlocal[t], x) \/ x \notin held
  PROVE  Sound'
<1>1. row' \in [Nodes -> Seq(Nodes)] /\ Mutual'
  BY DEF Sound, Mutual
<1>2. ASSUME NEW s \in Threads
      PROVE  LocalsTyped(rlocal[s])' /\ Noted(rlocal[s])' /\ Fated(rlocal[s])'
  <2>1. LocalsTyped(rlocal'[s]) /\ Noted(rlocal'[s]) /\ Fated(rlocal'[s])
    BY DEF Sound
  <2>2. Noted(rlocal[s])' <=> Noted(rlocal'[s])
    BY DEF Noted, Candidate, Beside
  <2>3. Fated(rlocal[s])' <=> Fated(rlocal'[s])
    BY DEF Fated
  <2>4. LocalsTyped(rlocal[s])' <=> LocalsTyped(rlocal'[s])
    BY DEF LocalsTyped
  <2> QED BY <2>1, <2>2, <2>3, <2>4
<1>3. Handed'
  <2>1. \A i \in 1 .. Len(rlocal'[t].nodes) :
           \E k \in 1 .. Len(rlocal[t].nodes) : rlocal'[t].nodes[i] = rlocal[t].nodes[k]
               /\ (rlocal'[t].nodes = rlocal[t].nodes => k = i) /\ (rlocal'[t].nodes # rlocal[t].nodes => k = i + 1)
    <3>1. CASE rlocal'[t].nodes = rlocal[t].nodes
      BY <3>1
    <3>2. CASE rlocal'[t].nodes # rlocal[t].nodes
      <4>1. rlocal[t].nodes \in Seq(Nodes) /\ rlocal[t].nodes # <<>> /\ rlocal'[t].nodes = Tail(rlocal[t].nodes)
        BY <3>2 DEF Sound, LocalsTyped
      <4>2. Len(rlocal'[t].nodes) = Len(rlocal[t].nodes) - 1 /\ Len(rlocal[t].nodes) \in Nat
            /\ \A i \in 1 .. Len(rlocal'[t].nodes) : rlocal'[t].nodes[i] = rlocal[t].nodes[i + 1]
        BY <4>1, HeadTailProperties, LenProperties
      <4> QED BY <3>2, <4>2
    <3> QED BY <3>1, <3>2
  <2>2. \A s \in Threads : rlocal[s].nodes \in Seq(Nodes) /\ rlocal'[s].nodes \in Seq(Nodes)
    BY DEF Sound, LocalsTyped
  <2>3. \A s \in Threads : Len(rlocal[s].nodes) \in Nat /\ Len(rlocal'[s].nodes) \in Nat
    BY <2>2, LenProperties
  <2>4. \A s \in Threads : \A i \in 1 .. Len(rlocal'[s].nodes) : rlocal'[s].nodes[i] \notin left'
    <3>1. \A s \in Threads : \A i \in 1 .. Len(rlocal[s].nodes) : rlocal[s].nodes[i] \notin left
      BY DEF Sound, Handed
    <3>2. left' = left /\ \A s \in Threads \ {t} : rlocal'[s].nodes = rlocal[s].nodes
      OBVIOUS
    <3> SUFFICES ASSUME NEW s \in Threads, NEW i \in 1 .. Len(rlocal'[s].nodes)
                 PROVE  rlocal'[s].nodes[i] \notin left'
      OBVIOUS
    <3>3. CASE s = t
      BY <2>1, <3>1, <3>2, <3>3
    <3>4. CASE s # t
      BY <3>1, <3>2, <3>4
    <3> QED BY <3>3, <3>4
  <2>5. ASSUME NEW s \in Threads, NEW r \in Threads, NEW i \in 1 .. Len(rlocal'[s].nodes),
               NEW j \in 1 .. Len(rlocal'[r].nodes), rlocal'[s].nodes[i] = rlocal'[r].nodes[j]
        PROVE  s = r /\ i = j
    <3>1. PICK k \in 1 .. Len(rlocal[s].nodes) : rlocal'[s].nodes[i] = rlocal[s].nodes[k]
               /\ (s # t => k = i)
               /\ (s = t => (rlocal'[t].nodes = rlocal[t].nodes => k = i) /\ (rlocal'[t].nodes # rlocal[t].nodes => k = i + 1))
      BY <2>1
    <3>2. PICK m \in 1 .. Len(rlocal[r].nodes) : rlocal'[r].nodes[j] = rlocal[r].nodes[m]
               /\ (r # t => m = j)
               /\ (r = t => (rlocal'[t].nodes = rlocal[t].nodes => m = j) /\ (rlocal'[t].nodes # rlocal[t].nodes => m = j + 1))
      BY <2>1
    <3>3. s = r /\ k = m
      <4>1. rlocal[s].nodes[k] = rlocal[r].nodes[m]
        BY <2>5, <3>1, <3>2
      <4>2. \A q, z \in Threads : \A a \in 1 .. Len(rlocal[q].nodes) : \A b \in 1 .. Len(rlocal[z].nodes) :
              rlocal[q].nodes[a] = rlocal[z].nodes[b] => q = z /\ a = b
        BY DEF Sound, Handed
      <4> QED BY <4>1, <4>2
    <3> QED BY <2>3, <3>1, <3>2, <3>3
  <2> QED BY <2>4, <2>5 DEF Sound, Handed
<1>4. Locks'
  <2>1. \A x \in held : \E s \in Threads : Owns(rlocal[s], x)
    BY DEF Sound, Locks
  <2>2. \A s \in Threads : \A x \in Nodes : Owns(rlocal[s], x) => x \in held
    BY DEF Sound, Locks
  <2>3. \A r, s \in Threads : \A x \in Nodes : Owns(rlocal[r], x) /\ Owns(rlocal[s], x) => r = s
    BY DEF Sound, Locks
  <2> HIDE DEF Nodes
  <2>5. \A x \in held' : \E s \in Threads : Owns(rlocal'[s], x)
    BY <2>1
  <2>6. \A s \in Threads : \A x \in Nodes : Owns(rlocal'[s], x) => x \in held'
    BY <2>2, <2>3
  <2>7. \A r, s \in Threads : \A x \in Nodes : Owns(rlocal'[r], x) /\ Owns(rlocal'[s], x) => r = s
    BY <2>2, <2>3
  <2> QED BY <2>5, <2>6, <2>7 DEF Locks
<1>5. Hosted'
  <2>1. \A c \in Nodes : Connected(Members(c))'
    <3> SUFFICES ASSUME NEW c \in Nodes PROVE Connected(Members(c))'
      OBVIOUS
    <3>1. Connected(Members(c)) /\ Members(c)' = Members(c)
      BY DEF Sound, Hosted, Members
    <3> QED BY <3>1 DEF Connected
  <2> QED BY <2>1 DEF Sound, Hosted
<1> QED BY <1>1, <1>2, <1>3, <1>4, <1>5 DEF Sound

\* A thread that stays with its node changes some of its locals.
LEMMA Locals ==
  ASSUME Sound, NEW t \in Threads, NEW l, rlocal' = [rlocal EXCEPT ![t] = l]
  PROVE  DOMAIN rlocal' = Threads /\ rlocal'[t] = l /\ \A s \in Threads \ {t} : rlocal'[s] = rlocal[s]
  BY DEF Sound

\* A step that only moves a thread's place leaves the other locals alone.
LEMMA Going ==
  ASSUME Sound, NEW t \in Threads, NEW pc, To(t, pc)
  PROVE  /\ DOMAIN rlocal' = Threads /\ \A s \in Threads \ {t} : rlocal'[s] = rlocal[s]
         /\ DOMAIN rlocal'[t] = RefineFields /\ rlocal'[t].pc = pc
         /\ \A f \in RefineFields \ {"pc"} : rlocal'[t][f] = rlocal[t][f]
  BY Refiner DEF To

\* A thread that is done with its node.
LEMMA NextNodeStep ==
  ASSUME Sound, NEW t \in Threads, rlocal[t].nodes # <<>>, Leaving(t),
         UNCHANGED <<row, result, refined, singleton, left>>,
         held' \subseteq Nodes, \A x \in Nodes : x \in held' <=> x \in held /\ ~Owns(rlocal[t], x)
  PROVE  Sound'
<1>1. /\ DOMAIN rlocal' = Threads /\ \A s \in Threads \ {t} : rlocal'[s] = rlocal[s]
      /\ rlocal'[t] = NextNode(rlocal[t]) /\ DOMAIN rlocal[t] = RefineFields
  BY Refiner DEF Leaving
<1>2. /\ DOMAIN rlocal'[t] = RefineFields /\ rlocal'[t].pc = "pick" /\ rlocal'[t].nodes = Tail(rlocal[t].nodes)
      /\ rlocal'[t].todo = <<>> /\ rlocal'[t].neighComms = {} /\ rlocal'[t].criticalNodes = {}
  BY <1>1 DEF NextNode, Fetching, RefineFields
<1>3. rlocal[t].nodes \in Seq(Nodes) /\ Fated(rlocal[t])
  BY Refiner DEF LocalsTyped
<1>4. /\ Tail(rlocal[t].nodes) \in Seq(Nodes) /\ Len(Tail(rlocal[t].nodes)) = Len(rlocal[t].nodes) - 1
      /\ Len(rlocal[t].nodes) \in Nat
      /\ \A i \in 1 .. Len(rlocal[t].nodes) - 1 : Tail(rlocal[t].nodes)[i] = rlocal[t].nodes[i + 1]
  BY <1>3, HeadTailProperties, LenProperties
<1>5. LocalsTyped(rlocal'[t])
  BY <1>2, <1>4, EmptySeq DEF LocalsTyped, Targeting, Handing
<1>6. Noted(rlocal'[t])
  BY <1>2 DEF Noted
<1>7. Fated(rlocal'[t])
  BY <1>2, <1>3, <1>4 DEF Fated, Handing
<1>8. \A x : ~Owns(rlocal'[t], x)
  BY <1>2 DEF Owns
<1> QED BY <1>1, <1>2, <1>5, <1>6, <1>7, <1>8, ThreadStep

\* Picking a node takes no lock.
LEMMA PickSound ==
  ASSUME Sound, NEW t \in Threads, Pick(t), UNCHANGED <<row, result>>
  PROVE  Sound'
<1>1. /\ rlocal[t].pc = "pick" /\ rlocal[t].nodes # <<>> /\ rlocal[t].neighComms = {} /\ rlocal[t].criticalNodes = {}
      /\ UNCHANGED <<refined, singleton, left, held>>
  BY Refiner DEF Pick, L, LocalsTyped, shared
<1>2. \A x : ~Owns(rlocal[t], x)
  BY <1>1 DEF Owns
<1>3. held \subseteq Nodes
  BY HeldNodes
<1>4. CASE singleton[U(t)]
  <2>1. rlocal' = [rlocal EXCEPT ![t].pc = "cut", ![t].todo = row[U(t)]]
    BY <1>4 DEF Pick
  <2>2. /\ DOMAIN rlocal' = Threads /\ \A s \in Threads \ {t} : rlocal'[s] = rlocal[s]
        /\ DOMAIN rlocal'[t] = RefineFields /\ rlocal'[t].pc = "cut" /\ rlocal'[t].todo = row[U(t)]
        /\ \A f \in RefineFields \ {"pc", "todo"} : rlocal'[t][f] = rlocal[t][f]
    BY <2>1, Refiner DEF RefineFields
  <2>3. LocalsTyped(rlocal'[t])
    BY <1>1, <2>2, Refiner DEF LocalsTyped, RefineFields, Targeting, Handing
  <2>4. Noted(rlocal'[t])
    BY <1>1, <2>2, Refiner DEF Noted, RefineFields, Targeting, U, L, Beside
  <2>5. Fated(rlocal'[t])
    BY <1>1, <2>2, Refiner DEF Fated, RefineFields, Handing
  <2>6. \A x : ~Owns(rlocal'[t], x)
    BY <2>2 DEF Owns
  <2> QED BY <1>1, <1>2, <1>3, <2>2, <2>3, <2>4, <2>5, <2>6, ThreadStep DEF RefineFields
<1>5. CASE ~singleton[U(t)]
  BY <1>1, <1>2, <1>3, <1>5, NextNodeStep DEF Pick
<1> QED BY <1>4, <1>5

\* A target seen is a node of the same community of the move phase.
LEMMA CutSound ==
  ASSUME Sound, NEW t \in Threads, Cut(t), UNCHANGED <<row, result>>
  PROVE  Sound'
<1> DEFINE l == rlocal[t]
           x == Head(l.todo)
           inside == result[x] = result[U(t)]
<1>1. /\ l.pc = "cut" /\ l.todo # <<>> /\ l.nodes # <<>> /\ U(t) \in Nodes /\ x \in Nodes /\ Beside(U(t), x)
      /\ UNCHANGED <<refined, singleton, left, held>> /\ U(t) = Head(l.nodes)
  <2>1. /\ l.pc = "cut" /\ l.todo # <<>> /\ UNCHANGED <<refined, singleton, left, held>> /\ U(t) = Head(l.nodes)
    BY DEF Cut, L, shared, U
  <2>2. l.nodes # <<>>
    BY <2>1, Refiner DEF LocalsTyped
  <2>3. U(t) \in Nodes /\ x \in Nodes /\ x = l.todo[1] /\ 1 \in 1 .. Len(l.todo)
    BY <2>1, <2>2, Refiner
  <2>4. \A i \in 1 .. Len(l.todo) : Beside(U(t), l.todo[i])
    BY <2>1, Refiner DEF Noted, Handing
  <2> QED BY <2>1, <2>2, <2>3, <2>4
<1>2. rlocal' = [rlocal EXCEPT
           ![t].todo = Tail(@),
           ![t].neighComms = IF inside THEN @ \cup {refined[x]} ELSE @,
           ![t].criticalNodes = IF inside /\ refined[x] = x THEN @ \cup {x} ELSE @]
  BY DEF Cut, L
<1>3. /\ DOMAIN rlocal' = Threads /\ \A s \in Threads \ {t} : rlocal'[s] = rlocal[s]
      /\ DOMAIN rlocal'[t] = RefineFields /\ rlocal'[t].todo = Tail(l.todo)
      /\ rlocal'[t].neighComms = (IF inside THEN l.neighComms \cup {refined[x]} ELSE l.neighComms)
      /\ rlocal'[t].criticalNodes = (IF inside /\ refined[x] = x THEN l.criticalNodes \cup {x} ELSE l.criticalNodes)
      /\ rlocal'[t].pc = l.pc /\ rlocal'[t].nodes = l.nodes /\ rlocal'[t].bestC = l.bestC
  BY <1>2, Refiner DEF RefineFields
<1>4. refined[x] \in Nodes /\ result[refined[x]] = result[x]
  BY <1>1 DEF Sound, Hosted
<1>5. LocalsTyped(rlocal'[t])
  <2>1. l.neighComms \subseteq Nodes /\ l.criticalNodes \subseteq Nodes /\ l.nodes \in Seq(Nodes)
    BY Refiner DEF LocalsTyped
  <2>2. rlocal'[t].neighComms \subseteq Nodes /\ rlocal'[t].criticalNodes \subseteq Nodes
    BY <1>1, <1>3, <1>4, <2>1
  <2>3. rlocal'[t].todo \in Seq(Nodes)
    BY <1>1, <1>3, Refiner
  <2> QED BY <1>1, <1>3, <2>1, <2>2, <2>3 DEF LocalsTyped, Targeting, Handing
<1>6. Noted(rlocal'[t])
  <2>0. /\ l.criticalNodes \subseteq l.neighComms
        /\ \A c \in l.criticalNodes : result[c] = result[U(t)] /\ Beside(U(t), c)
        /\ \A c \in l.neighComms : Candidate(U(t), c)
    BY <1>1, Refiner DEF Noted, Handing
  <2>1. \A c \in rlocal'[t].neighComms : Candidate(U(t), c)
    <3>1. \A c \in l.neighComms : Candidate(U(t), c)
      BY <2>0
    <3>2. inside => Candidate(U(t), refined[x])
      BY <1>1, <1>4 DEF Candidate
    <3> QED BY <1>3, <3>1, <3>2
  <2>2. \A c \in rlocal'[t].criticalNodes : result[c] = result[U(t)] /\ Beside(U(t), c)
    BY <1>1, <1>3, <2>0
  <2>3. rlocal'[t].criticalNodes \subseteq rlocal'[t].neighComms
    BY <1>3, <2>0
  <2>4. \A i \in 1 .. Len(rlocal'[t].todo) : Beside(U(t), rlocal'[t].todo[i])
    <3>1. \A i \in 1 .. Len(l.todo) : Beside(U(t), l.todo[i])
      BY <1>1, Refiner DEF Noted, Handing
    <3>2. Len(Tail(l.todo)) = Len(l.todo) - 1 /\ Len(l.todo) \in Nat
          /\ \A i \in 1 .. Len(l.todo) - 1 : Tail(l.todo)[i] = l.todo[i + 1]
      BY <1>1, Refiner, LenProperties DEF LocalsTyped
    <3> QED BY <1>3, <3>1, <3>2
  <2> QED BY <1>1, <1>3, <2>1, <2>2, <2>3, <2>4 DEF Noted, Targeting
<1>7. Fated(rlocal'[t])
  <2>1. \A i \in 1 .. Len(l.nodes) : refined[l.nodes[i]] = l.nodes[i]
    BY <1>1, Refiner DEF Fated, Handing
  <2> QED BY <1>1, <1>3, <2>1 DEF Fated
<1>8. \A y : ~Owns(rlocal[t], y) /\ ~Owns(rlocal'[t], y)
  BY <1>1, <1>3 DEF Owns
<1> QED BY <1>1, <1>3, <1>5, <1>6, <1>7, <1>8, ThreadStep, HeldNodes

\* A node that was joined is left alone; the target is another node.
LEMMA ChooseSound ==
  ASSUME Sound, NEW t \in Threads, Choose(t), UNCHANGED <<row, result>>
  PROVE  Sound'
<1> DEFINE l == rlocal[t]
<1>1. /\ l.pc = "cut" /\ l.nodes # <<>> /\ U(t) \in Nodes
      /\ UNCHANGED <<refined, singleton, left, held>> /\ U(t) = Head(l.nodes)
  BY Refiner DEF Choose, L, LocalsTyped, shared, U
<1>2. \A y : ~Owns(l, y)
  BY <1>1 DEF Owns
<1>3. CASE Leaving(t)
  BY <1>1, <1>2, <1>3, NextNodeStep, HeldNodes
<1>4. ASSUME NEW c \in l.neighComms, U(t) \notin l.neighComms,
             rlocal' = [rlocal EXCEPT ![t].pc = "lock1", ![t].bestC = c]
      PROVE  Sound'
  <2>1. /\ DOMAIN rlocal' = Threads /\ \A s \in Threads \ {t} : rlocal'[s] = rlocal[s]
        /\ DOMAIN rlocal'[t] = RefineFields /\ rlocal'[t].pc = "lock1" /\ rlocal'[t].bestC = c
        /\ \A f \in RefineFields \ {"pc", "bestC"} : rlocal'[t][f] = l[f]
    BY <1>4, Refiner DEF RefineFields
  <2>2. c \in Nodes /\ c # U(t)
    BY <1>4, Refiner DEF LocalsTyped
  <2>3. LocalsTyped(rlocal'[t])
    BY <1>1, <2>1, <2>2, Refiner DEF LocalsTyped, RefineFields, Targeting, Handing
  <2>4. Noted(rlocal'[t])
    BY <1>1, <1>4, <2>1, Refiner DEF Noted, RefineFields, Targeting, Handing
  <2>5. Fated(rlocal'[t])
    BY <1>1, <2>1, Refiner DEF Fated, RefineFields, Handing
  <2>6. \A y : ~Owns(rlocal'[t], y)
    BY <2>1 DEF Owns
  <2> QED BY <1>1, <1>2, <2>1, <2>3, <2>4, <2>5, <2>6, ThreadStep, HeldNodes DEF RefineFields
<1> QED BY <1>3, <1>4 DEF Choose, L

\* The lower lock, then the higher one.
LEMMA LockSound ==
  ASSUME Sound, NEW t \in Threads, LockFirst(t) \/ LockSecond(t), UNCHANGED <<row, result>>
  PROVE  Sound'
<1> DEFINE l == rlocal[t]
<1>1. PICK c, to :
        /\ held' = held \cup {c} /\ c \notin held /\ To(t, to)
        /\ UNCHANGED <<left, refined, singleton>>
        /\ \/ l.pc = "lock1" /\ to = "lock2" /\ c = Low(t)
           \/ l.pc = "relock1" /\ to = "relock2" /\ c = Low(t)
           \/ l.pc = "lock2" /\ to = "test" /\ c = High(t)
           \/ l.pc = "relock2" /\ to = "recheck" /\ c = High(t)
  BY DEF LockFirst, LockSecond, Lock, L
<1>2. /\ l.pc \in Targeting /\ l.nodes # <<>> /\ U(t) \in Nodes /\ U(t) = Head(l.nodes)
      /\ l.bestC \in Nodes /\ l.bestC # U(t) /\ to \in Targeting \ {"host", "join", "joined"}
      /\ l.pc \notin {"cut", "pick"} \cup Handing
  BY <1>1, Refiner DEF LocalsTyped, U, L, Targeting, Handing
<1>3. /\ DOMAIN rlocal' = Threads /\ \A s \in Threads \ {t} : rlocal'[s] = rlocal[s]
      /\ DOMAIN rlocal'[t] = RefineFields /\ rlocal'[t].pc = to
      /\ rlocal'[t].nodes = l.nodes /\ rlocal'[t].todo = l.todo /\ rlocal'[t].neighComms = l.neighComms
      /\ rlocal'[t].criticalNodes = l.criticalNodes /\ rlocal'[t].bestC = l.bestC
  BY <1>1, Going DEF RefineFields
<1>4. LocalsTyped(rlocal'[t])
  BY <1>2, <1>3, Refiner DEF LocalsTyped, Targeting, Handing
<1>5. Noted(rlocal'[t])
  BY <1>2, <1>3, Refiner DEF Noted, Targeting, Handing
<1>6. Fated(rlocal'[t])
  BY <1>2, <1>3, Refiner DEF Fated, Targeting, Handing
<1>7. c \in Nodes
  BY <1>1, <1>2 DEF Low, High, L
<1>8. \A x \in Nodes : Owns(rlocal'[t], x) <=> Owns(l, x) \/ x = c
  BY <1>1, <1>2, <1>3, NodesInt DEF Owns, Low, High, L, U
<1>9. \A x \in Nodes : Owns(l, x) => x \in held
  BY DEF Sound, Locks
<1>10. held' \subseteq Nodes
  BY <1>1, <1>7, HeldNodes
<1>11. \A x \in Nodes : x \in held' <=> (x \in held /\ ~Owns(l, x)) \/ Owns(rlocal'[t], x)
  BY <1>1, <1>7, <1>8, <1>9
<1>12. \A x \in Nodes : Owns(rlocal'[t], x) => Owns(l, x) \/ x \notin held
  BY <1>1, <1>8
<1> QED BY <1>1, <1>3, <1>4, <1>5, <1>6, <1>10, <1>11, <1>12, ThreadStep

\* The node tested is locked, so nobody joins it between the test and the
\* move.
LEMMA TestSound ==
  ASSUME Sound, NEW t \in Threads, Test(t), UNCHANGED <<row, result>>
  PROVE  Sound'
<1> DEFINE l == rlocal[t]
           to == IF singleton[U(t)] THEN "host" ELSE "unlock"
<1>1. To(t, to) /\ l.pc = "test" /\ UNCHANGED <<left, refined, singleton, held>>
  BY DEF Test, L, shared
<1>2. /\ l.nodes # <<>> /\ U(t) \in Nodes /\ U(t) = Head(l.nodes)
      /\ l.bestC \in Nodes /\ l.bestC # U(t)
  BY <1>1, Refiner DEF LocalsTyped, U, L, Targeting
<1>3. /\ DOMAIN rlocal' = Threads /\ \A s \in Threads \ {t} : rlocal'[s] = rlocal[s]
      /\ DOMAIN rlocal'[t] = RefineFields /\ rlocal'[t].pc = to
      /\ rlocal'[t].nodes = l.nodes /\ rlocal'[t].todo = l.todo /\ rlocal'[t].neighComms = l.neighComms
      /\ rlocal'[t].criticalNodes = l.criticalNodes /\ rlocal'[t].bestC = l.bestC
  BY <1>1, Going DEF RefineFields
<1>4. LocalsTyped(rlocal'[t])
  BY <1>1, <1>2, <1>3, Refiner DEF LocalsTyped, Targeting, Handing
<1>5. Noted(rlocal'[t])
  BY <1>1, <1>2, <1>3, Refiner DEF Noted, Targeting, Handing
<1>6. Fated(rlocal'[t])
  BY <1>1, <1>2, <1>3, Refiner DEF Fated, Targeting, Handing
<1>7. \A x : Owns(rlocal'[t], x) <=> Owns(l, x)
  BY <1>1, <1>3 DEF Owns
<1>8. \A x \in Nodes : Owns(l, x) => x \in held
  BY DEF Sound, Locks
<1> QED BY <1>1, <1>3, <1>4, <1>5, <1>6, <1>7, <1>8, ThreadStep, HeldNodes

\* A target whose host has left is given up and its lock freed.
LEMMA HostSound ==
  ASSUME Sound, NEW t \in Threads, Host(t), UNCHANGED <<row, result>>
  PROVE  Sound'
<1> DEFINE l == rlocal[t]
<1>1. l.pc = "host" /\ UNCHANGED <<left, refined, singleton>>
  BY DEF Host, L
<1>2. /\ l.nodes # <<>> /\ U(t) \in Nodes /\ U(t) = Head(l.nodes) /\ row[U(t)] \in Seq(Nodes)
      /\ l.bestC \in Nodes /\ l.bestC # U(t)
  BY <1>1, Refiner DEF LocalsTyped, U, L, Targeting
<1>3. \A x \in Nodes : Owns(l, x) => x \in held
  BY DEF Sound, Locks
<1>4. CASE refined[l.bestC] = l.bestC
  <2>1. To(t, "join") /\ held' = held
    BY <1>4 DEF Host, L
  <2>2. /\ DOMAIN rlocal' = Threads /\ \A s \in Threads \ {t} : rlocal'[s] = rlocal[s]
        /\ DOMAIN rlocal'[t] = RefineFields /\ rlocal'[t].pc = "join"
        /\ rlocal'[t].nodes = l.nodes /\ rlocal'[t].todo = l.todo /\ rlocal'[t].neighComms = l.neighComms
        /\ rlocal'[t].criticalNodes = l.criticalNodes /\ rlocal'[t].bestC = l.bestC
    BY <2>1, Going DEF RefineFields
  <2>3. LocalsTyped(rlocal'[t])
    BY <1>1, <1>2, <2>2, Refiner DEF LocalsTyped, Targeting, Handing
  <2>4. Noted(rlocal'[t])
    BY <1>1, <1>2, <2>2, Refiner DEF Noted, Targeting, Handing
  <2>5. Fated(rlocal'[t])
    BY <1>1, <1>2, <1>4, <2>2, Refiner DEF Fated, Targeting, Handing
  <2>6. \A x : Owns(rlocal'[t], x) <=> Owns(l, x)
    BY <1>1, <2>2 DEF Owns
  <2> QED BY <1>1, <1>3, <2>1, <2>2, <2>3, <2>4, <2>5, <2>6, ThreadStep, HeldNodes
<1>5. CASE refined[l.bestC] # l.bestC
  <2>1. /\ held' = held \ {l.bestC}
        /\ rlocal' = [rlocal EXCEPT ![t].pc = "update", ![t].neighComms = @ \ {l.bestC}, ![t].todo = row[U(t)]]
    BY <1>5 DEF Host, L
  <2>2. /\ DOMAIN rlocal' = Threads /\ \A s \in Threads \ {t} : rlocal'[s] = rlocal[s]
        /\ DOMAIN rlocal'[t] = RefineFields /\ rlocal'[t].pc = "update" /\ rlocal'[t].todo = row[U(t)]
        /\ rlocal'[t].neighComms = l.neighComms \ {l.bestC}
        /\ rlocal'[t].nodes = l.nodes /\ rlocal'[t].criticalNodes = l.criticalNodes /\ rlocal'[t].bestC = l.bestC
    BY <2>1, Refiner DEF RefineFields
  <2>3. LocalsTyped(rlocal'[t])
    BY <1>1, <1>2, <2>2, Refiner DEF LocalsTyped, Targeting, Handing
  <2>4. Noted(rlocal'[t])
    BY <1>1, <1>2, <2>2, Refiner DEF Noted, Targeting, Handing
  <2>5. Fated(rlocal'[t])
    BY <1>1, <1>2, <2>2, Refiner DEF Fated, Targeting, Handing
  <2>6. \A x : Owns(rlocal'[t], x) <=> Owns(l, x) /\ x # l.bestC
    BY <1>1, <1>2, <2>2 DEF Owns
  <2>7. Owns(l, l.bestC)
    BY <1>1 DEF Owns
  <2> QED BY <1>1, <1>3, <2>1, <2>2, <2>3, <2>4, <2>5, <2>6, <2>7, ThreadStep, HeldNodes
<1> QED BY <1>4, <1>5

\* Under the node's own lock nobody joins it, so what moved is elsewhere.
LEMMA UpdateSound ==
  ASSUME Sound, NEW t \in Threads, Update(t), UNCHANGED <<row, result>>
  PROVE  Sound'
<1> DEFINE l == rlocal[t]
           x == Head(l.todo)
           gone == x \in l.criticalNodes /\ refined[x] # x
<1>1. /\ l.pc = "update" /\ l.todo # <<>> /\ l.nodes # <<>> /\ U(t) \in Nodes /\ x \in Nodes
      /\ Tail(l.todo) \in Seq(Nodes)
      /\ UNCHANGED <<refined, singleton, left, held>> /\ U(t) = Head(l.nodes)
  <2>1. l.pc = "update" /\ l.todo # <<>> /\ UNCHANGED <<refined, singleton, left, held>> /\ U(t) = Head(l.nodes)
    BY DEF Update, L, shared, U
  <2>2. l.nodes # <<>>
    BY <2>1, Refiner DEF LocalsTyped
  <2> QED BY <2>1, <2>2, Refiner
<1>2. rlocal' = [rlocal EXCEPT
           ![t].todo = Tail(@),
           ![t].neighComms = IF gone THEN (@ \ {x}) \cup {refined[x]} ELSE @,
           ![t].criticalNodes = IF gone THEN @ \ {x} ELSE @]
  BY DEF Update, L
<1>3. /\ DOMAIN rlocal' = Threads /\ \A s \in Threads \ {t} : rlocal'[s] = rlocal[s]
      /\ DOMAIN rlocal'[t] = RefineFields /\ rlocal'[t].todo = Tail(l.todo)
      /\ rlocal'[t].neighComms = (IF gone THEN (l.neighComms \ {x}) \cup {refined[x]} ELSE l.neighComms)
      /\ rlocal'[t].criticalNodes = (IF gone THEN l.criticalNodes \ {x} ELSE l.criticalNodes)
      /\ rlocal'[t].pc = l.pc /\ rlocal'[t].nodes = l.nodes /\ rlocal'[t].bestC = l.bestC
  BY <1>2, Refiner DEF RefineFields
<1>4. /\ refined[x] \in Nodes /\ result[refined[x]] = result[x] /\ refined[refined[x]] = refined[x]
      /\ refined[x] # x => ~singleton[refined[x]]
  BY <1>1 DEF Sound, Hosted
<1>5. /\ l.neighComms \subseteq Nodes /\ l.criticalNodes \subseteq Nodes /\ l.nodes \in Seq(Nodes)
      /\ singleton[U(t)] /\ U(t) \notin l.neighComms /\ U(t) \notin l.criticalNodes
      /\ \A c \in l.neighComms : Candidate(U(t), c)
      /\ \A y \in l.criticalNodes : result[y] = result[U(t)] /\ Beside(U(t), y)
  <2>1. l.neighComms \subseteq Nodes /\ l.criticalNodes \subseteq Nodes /\ l.nodes \in Seq(Nodes)
    BY Refiner DEF LocalsTyped
  <2>2. singleton[U(t)]
    BY <1>1, Refiner DEF Fated
  <2> QED BY <1>1, <2>1, <2>2, Refiner DEF Noted, Handing
<1>6. gone => refined[x] # U(t) /\ Candidate(U(t), refined[x])
  BY <1>1, <1>4, <1>5 DEF Candidate
<1>7. LocalsTyped(rlocal'[t])
  <2>1. rlocal'[t].neighComms \subseteq Nodes /\ rlocal'[t].criticalNodes \subseteq Nodes
    BY <1>3, <1>4, <1>5
  <2> QED BY <1>1, <1>3, <1>5, <2>1 DEF LocalsTyped, Targeting, Handing
<1>8. Noted(rlocal'[t])
  <2>1. \A c \in rlocal'[t].neighComms : Candidate(U(t), c) /\ c # U(t)
    BY <1>3, <1>5, <1>6
  <2>2. \A c \in rlocal'[t].criticalNodes : result[c] = result[U(t)] /\ Beside(U(t), c) /\ c # U(t)
    BY <1>3, <1>5
  <2> QED BY <1>1, <1>3, <2>1, <2>2 DEF Noted, Targeting
<1>9. Fated(rlocal'[t])
  BY <1>1, <1>3, Refiner DEF Fated, Handing
<1>10. \A y : Owns(rlocal[t], y) <=> Owns(rlocal'[t], y)
  BY <1>1, <1>3 DEF Owns
<1>11. \A y \in Nodes : Owns(l, y) => y \in held
  BY DEF Sound, Locks
<1> QED BY <1>1, <1>3, <1>7, <1>8, <1>9, <1>10, <1>11, ThreadStep, HeldNodes

\* Another target is locked at once, or waited for in the order of the locks.
LEMMA RechooseSound ==
  ASSUME Sound, NEW t \in Threads, Rechoose(t), UNCHANGED <<row, result>>
  PROVE  Sound'
<1> DEFINE l == rlocal[t]
<1>1. /\ l.pc = "update" /\ l.nodes # <<>> /\ U(t) \in Nodes
      /\ UNCHANGED <<refined, singleton, left>> /\ U(t) = Head(l.nodes)
  <2>1. l.pc = "update" /\ UNCHANGED <<refined, singleton, left>> /\ U(t) = Head(l.nodes)
    BY DEF Rechoose, L, U
  <2>2. l.nodes # <<>>
    BY <2>1, Refiner DEF LocalsTyped
  <2> QED BY <2>1, <2>2, Refiner
<1>2. \A y : Owns(l, y) <=> y = U(t)
  BY <1>1 DEF Owns
<1>3. U(t) \in held
  BY <1>1, <1>2 DEF Sound, Locks
<1>4. CASE held' = held \ {U(t)} /\ Leaving(t)
  BY <1>1, <1>2, <1>4, NextNodeStep, HeldNodes
<1>5. ASSUME NEW c \in l.neighComms,
             held' = (CASE c \notin held -> held \cup {c}
                       [] c \in held /\ U(t) < c -> held
                       [] c \in held /\ U(t) > c -> held \ {U(t)}),
             rlocal' = [rlocal EXCEPT
               ![t].bestC = c,
               ![t].pc = CASE c \notin held -> "host"
                           [] c \in held /\ U(t) < c -> "relock2"
                           [] c \in held /\ U(t) > c -> "relock1"]
      PROVE  Sound'
  <2>1. c \in Nodes /\ c # U(t)
    <3>1. l.neighComms \subseteq Nodes
      BY Refiner DEF LocalsTyped
    <3>2. U(t) \notin l.neighComms
      BY <1>1, Refiner DEF Noted, Handing
    <3> QED BY <3>1, <3>2
  <2>2. U(t) < c \/ c < U(t)
    BY <1>1, <2>1, NodesInt
  <2>3. ~(U(t) < c /\ c < U(t)) /\ (U(t) > c <=> c < U(t))
    <3>1. c \in Int /\ U(t) \in Int
      BY <1>1, <2>1, NodesInt
    <3> QED BY <3>1
  <2>4. /\ DOMAIN rlocal' = Threads /\ \A s \in Threads \ {t} : rlocal'[s] = rlocal[s]
        /\ DOMAIN rlocal'[t] = RefineFields /\ rlocal'[t].bestC = c
        /\ rlocal'[t].nodes = l.nodes /\ rlocal'[t].todo = l.todo /\ rlocal'[t].neighComms = l.neighComms
        /\ rlocal'[t].criticalNodes = l.criticalNodes
        /\ rlocal'[t].pc = CASE c \notin held -> "host"
                             [] c \in held /\ U(t) < c -> "relock2"
                             [] c \in held /\ U(t) > c -> "relock1"
    BY <1>5, Refiner DEF RefineFields
  <2>5. \/ c \notin held /\ held' = held \cup {c} /\ rlocal'[t].pc = "host"
        \/ c \in held /\ U(t) < c /\ held' = held /\ rlocal'[t].pc = "relock2"
        \/ c \in held /\ c < U(t) /\ held' = held \ {U(t)} /\ rlocal'[t].pc = "relock1"
    BY <1>5, <2>2, <2>3, <2>4
  <2>6. LocalsTyped(rlocal'[t])
    BY <1>1, <2>1, <2>4, <2>5, Refiner DEF LocalsTyped, Targeting, Handing
  <2>7. Noted(rlocal'[t])
    <3>1. /\ \A x \in l.criticalNodes : result[x] = result[U(t)] /\ Beside(U(t), x)
          /\ \A d \in l.neighComms : Candidate(U(t), d)
          /\ U(t) \notin l.neighComms /\ U(t) \notin l.criticalNodes
      BY <1>1, Refiner DEF Noted, Handing
    <3>2. rlocal'[t].pc \in Targeting /\ rlocal'[t].pc # "cut"
      BY <2>5 DEF Targeting
    <3> QED BY <1>1, <2>4, <3>1, <3>2 DEF Noted
  <2>8. Fated(rlocal'[t])
    <3>1. singleton[U(t)] /\ \A i \in 1 .. Len(l.nodes) : refined[l.nodes[i]] = l.nodes[i]
      BY <1>1, Refiner DEF Fated, Handing
    <3>2. rlocal'[t].pc \in {"host", "relock1", "relock2"}
      BY <2>5
    <3> QED BY <1>1, <2>4, <3>1, <3>2 DEF Fated
  <2>9. held' \subseteq Nodes
    BY <2>1, <2>5, HeldNodes
  <2>10. \A y \in Nodes : y \in held' <=> (y \in held /\ ~Owns(l, y)) \/ Owns(rlocal'[t], y)
    BY <1>1, <1>2, <1>3, <2>1, <2>3, <2>4, <2>5 DEF Owns
  <2>11. \A y \in Nodes : Owns(rlocal'[t], y) => Owns(l, y) \/ y \notin held
    BY <1>1, <1>2, <1>3, <2>1, <2>3, <2>4, <2>5 DEF Owns
  <2> QED BY <1>1, <2>4, <2>6, <2>7, <2>8, <2>9, <2>10, <2>11, ThreadStep
<1> QED BY <1>4, <1>5 DEF Rechoose, L

\* Unless the thread goes on without its locks.
LEMMA RecheckSound ==
  ASSUME Sound, NEW t \in Threads, Recheck(t), UNCHANGED <<row, result>>, ~slipped'
  PROVE  Sound'
<1> DEFINE l == rlocal[t]
<1>1. To(t, "host") /\ l.pc = "recheck" /\ UNCHANGED <<left, refined, singleton, held>> /\ singleton[U(t)]
  BY DEF Recheck, L
<1>2. /\ l.nodes # <<>> /\ U(t) \in Nodes /\ U(t) = Head(l.nodes)
      /\ l.bestC \in Nodes /\ l.bestC # U(t)
  BY <1>1, Refiner DEF LocalsTyped, U, L, Targeting
<1>3. /\ DOMAIN rlocal' = Threads /\ \A s \in Threads \ {t} : rlocal'[s] = rlocal[s]
      /\ DOMAIN rlocal'[t] = RefineFields /\ rlocal'[t].pc = "host"
      /\ rlocal'[t].nodes = l.nodes /\ rlocal'[t].todo = l.todo /\ rlocal'[t].neighComms = l.neighComms
      /\ rlocal'[t].criticalNodes = l.criticalNodes /\ rlocal'[t].bestC = l.bestC
  BY <1>1, Going DEF RefineFields
<1>4. LocalsTyped(rlocal'[t])
  BY <1>1, <1>2, <1>3, Refiner DEF LocalsTyped, Targeting, Handing
<1>5. Noted(rlocal'[t])
  BY <1>1, <1>2, <1>3, Refiner DEF Noted, Targeting, Handing
<1>6. Fated(rlocal'[t])
  BY <1>1, <1>2, <1>3, Refiner DEF Fated, Targeting, Handing
<1>7. \A x : Owns(rlocal'[t], x) <=> Owns(l, x)
  BY <1>1, <1>3 DEF Owns
<1>8. \A x \in Nodes : Owns(l, x) => x \in held
  BY DEF Sound, Locks
<1> QED BY <1>1, <1>3, <1>4, <1>5, <1>6, <1>7, <1>8, ThreadStep, HeldNodes

\* A thread frees only locks it owns.
LEMMA UnlockSound ==
  ASSUME Sound, NEW t \in Threads, Unlock(t), UNCHANGED <<row, result>>
  PROVE  Sound'
<1> DEFINE l == rlocal[t]
<1>1. l.pc \in Handing /\ UNCHANGED <<left, refined, singleton>>
  BY DEF Unlock, L, Handing
<1>2. l.nodes # <<>> /\ U(t) \in Nodes /\ U(t) = Head(l.nodes)
  BY <1>1, Refiner DEF LocalsTyped, U, L, Handing
<1>3. CASE l.pc = "unlock"
  <2>1. To(t, "leave") /\ held' = held \ {l.bestC}
    BY <1>3 DEF Unlock, L
  <2>2. /\ DOMAIN rlocal' = Threads /\ \A s \in Threads \ {t} : rlocal'[s] = rlocal[s]
        /\ DOMAIN rlocal'[t] = RefineFields /\ rlocal'[t].pc = "leave"
        /\ rlocal'[t].nodes = l.nodes /\ rlocal'[t].todo = l.todo /\ rlocal'[t].neighComms = l.neighComms
        /\ rlocal'[t].criticalNodes = l.criticalNodes /\ rlocal'[t].bestC = l.bestC
    BY <2>1, Going DEF RefineFields
  <2>3. LocalsTyped(rlocal'[t])
    BY <1>2, <1>3, <2>2, Refiner DEF LocalsTyped, Targeting, Handing
  <2>4. Noted(rlocal'[t])
    BY <2>2 DEF Noted, Handing
  <2>5. Fated(rlocal'[t])
    BY <1>3, <2>2, Refiner DEF Fated, Handing
  <2>6. l.bestC # U(t)
    BY <1>2, <1>3, Refiner DEF LocalsTyped
  <2>7. \A x : /\ Owns(rlocal'[t], x) <=> x = U(t)
               /\ Owns(l, x) <=> x \in {U(t), l.bestC}
    BY <1>2, <1>3, <2>2 DEF Owns
  <2>8. U(t) \in held
    BY <1>2, <2>7 DEF Sound, Locks
  <2> QED BY <1>1, <1>2, <2>1, <2>2, <2>3, <2>4, <2>5, <2>6, <2>7, <2>8, ThreadStep, HeldNodes
<1>4. CASE l.pc = "leave"
  <2>1. held' = held \ {U(t)} /\ Leaving(t)
    BY <1>4 DEF Unlock, L
  <2>2. \A x : Owns(l, x) <=> x = U(t)
    BY <1>2, <1>4 DEF Owns
  <2> QED BY <1>1, <1>2, <2>1, <2>2, NextNodeStep, HeldNodes
<1> QED BY <1>1, <1>3, <1>4 DEF Handing

\* Nodes are handed out once.
LEMMA FetchSound ==
  ASSUME Sound, NEW t \in Threads, Fetch(t), UNCHANGED <<row, result>>
  PROVE  Sound'
<1> DEFINE l == rlocal[t]
<1>0. PICK some \in SUBSET left :
        left' = left \ some /\ \E s \in SetToSeqs(some) : rlocal' = [rlocal EXCEPT ![t].nodes = s]
  BY DEF Fetch
<1>1. PICK s \in SetToSeqs(some) : rlocal' = [rlocal EXCEPT ![t].nodes = s] /\ left' = left \ some
  BY <1>0
<1>2. /\ l.pc = "pick" /\ l.nodes = <<>> /\ l.neighComms = {} /\ l.criticalNodes = {}
      /\ UNCHANGED <<refined, singleton, held>>
  BY Refiner DEF Fetch, L, LocalsTyped
<1>3. /\ DOMAIN rlocal' = Threads /\ \A r \in Threads \ {t} : rlocal'[r] = rlocal[r]
      /\ DOMAIN rlocal'[t] = RefineFields /\ rlocal'[t].nodes = s /\ rlocal'[t].pc = "pick"
      /\ rlocal'[t].todo = l.todo /\ rlocal'[t].neighComms = {} /\ rlocal'[t].criticalNodes = {}
  BY <1>1, <1>2, Refiner DEF RefineFields
<1>4. left \subseteq Nodes /\ \A u \in left : refined[u] = u
  BY DEF Sound, Handed, Hosted
<1>5. /\ s \in Seq(some) /\ s \in Seq(Nodes) /\ Len(s) \in Nat
      /\ \A i \in 1 .. Len(s) : s[i] \in some
      /\ \A i, j \in 1 .. Len(s) : s[i] = s[j] => i = j
  <2>1. some \subseteq Nodes /\ IsFiniteSet(Nodes)
    BY <1>4, LeidenAssumption, FS_Interval DEF Nodes
  <2>2. Cardinality(some) \in Nat
    BY <2>1, FS_Subset, FS_CardinalityType
  <2>3. s \in [1 .. Cardinality(some) -> some] /\ \A i, j \in 1 .. Cardinality(some) : i # j => s[i] # s[j]
    BY DEF SetToSeqs
  <2> HIDE DEF Nodes
  <2>4. s \in Seq(some) /\ Len(s) = Cardinality(some)
    BY <2>2, <2>3
  <2>5. s \in Seq(Nodes)
    BY <2>1, <2>2, <2>3
  <2> QED BY <2>2, <2>3, <2>4, <2>5
<1>6. LocalsTyped(rlocal'[t]) /\ Noted(rlocal'[t]) /\ Fated(rlocal'[t])
  <2>1. LocalsTyped(rlocal'[t])
    BY <1>3, <1>5, Refiner DEF LocalsTyped, Targeting, Handing
  <2>2. Noted(rlocal'[t])
    BY <1>3 DEF Noted
  <2>3. Fated(rlocal'[t])
    BY <1>3, <1>4, <1>5 DEF Fated
  <2> QED BY <2>1, <2>2, <2>3
<1>7. row' \in [Nodes -> Seq(Nodes)] /\ Mutual'
  BY DEF Sound, Mutual
<1>8. ASSUME NEW r \in Threads
      PROVE  LocalsTyped(rlocal[r])' /\ Noted(rlocal[r])' /\ Fated(rlocal[r])'
  <2>1. LocalsTyped(rlocal'[r]) /\ Noted(rlocal'[r]) /\ Fated(rlocal'[r])
    BY <1>3, <1>6 DEF Sound
  <2>2. Noted(rlocal[r])' <=> Noted(rlocal'[r])
    BY <1>2 DEF Noted, Candidate, Beside
  <2>3. Fated(rlocal[r])' <=> Fated(rlocal'[r])
    BY <1>2 DEF Fated
  <2>4. LocalsTyped(rlocal[r])' <=> LocalsTyped(rlocal'[r])
    BY DEF LocalsTyped
  <2> QED BY <2>1, <2>2, <2>3, <2>4
<1>9. Handed'
  <2>1. \A r \in Threads \ {t} : rlocal'[r].nodes = rlocal[r].nodes
    BY <1>3
  <2>2. \A r \in Threads : \A i \in 1 .. Len(rlocal[r].nodes) : rlocal[r].nodes[i] \notin left
    BY DEF Sound, Handed
  <2>3. \A q, r \in Threads : \A i \in 1 .. Len(rlocal[q].nodes) : \A j \in 1 .. Len(rlocal[r].nodes) :
          rlocal[q].nodes[i] = rlocal[r].nodes[j] => q = r /\ i = j
    BY DEF Sound, Handed
  <2>4. \A r \in Threads : \A i \in 1 .. Len(rlocal'[r].nodes) : rlocal'[r].nodes[i] \notin left'
    <3> SUFFICES ASSUME NEW r \in Threads, NEW i \in 1 .. Len(rlocal'[r].nodes)
                 PROVE  rlocal'[r].nodes[i] \notin left'
      OBVIOUS
    <3>1. CASE r = t
      BY <1>1, <1>3, <1>5, <3>1
    <3>2. CASE r # t
      BY <1>1, <2>1, <2>2, <3>2
    <3> QED BY <3>1, <3>2
  <2>5. ASSUME NEW q \in Threads, NEW r \in Threads, NEW i \in 1 .. Len(rlocal'[q].nodes),
               NEW j \in 1 .. Len(rlocal'[r].nodes), rlocal'[q].nodes[i] = rlocal'[r].nodes[j]
        PROVE  q = r /\ i = j
    <3>1. CASE q = t /\ r = t
      BY <1>3, <1>5, <2>5, <3>1
    <3>2. CASE q = t /\ r # t
      BY <1>3, <1>5, <2>1, <2>2, <2>5, <3>2
    <3>3. CASE q # t /\ r = t
      BY <1>3, <1>5, <2>1, <2>2, <2>5, <3>3
    <3>4. CASE q # t /\ r # t
      <4>1. rlocal'[q].nodes = rlocal[q].nodes /\ rlocal'[r].nodes = rlocal[r].nodes
        BY <2>1, <3>4
      <4>2. i \in 1 .. Len(rlocal[q].nodes) /\ j \in 1 .. Len(rlocal[r].nodes) /\ rlocal[q].nodes[i] = rlocal[r].nodes[j]
        BY <2>5, <4>1
      <4> QED BY <2>3, <4>2
    <3> QED BY <3>1, <3>2, <3>3, <3>4
  <2> QED BY <1>1, <1>4, <2>4, <2>5 DEF Handed
<1>10. Locks'
  <2>1. \A r \in Threads : \A x : Owns(rlocal'[r], x) <=> Owns(rlocal[r], x)
    <3>1. \A x : ~Owns(rlocal'[t], x) /\ ~Owns(rlocal[t], x)
      BY <1>2, <1>3 DEF Owns
    <3> QED BY <1>3, <3>1
  <2> QED BY <1>2, <2>1 DEF Sound, Locks
<1>11. Hosted'
  <2>1. \A c \in Nodes : Connected(Members(c))'
    <3> SUFFICES ASSUME NEW c \in Nodes PROVE Connected(Members(c))'
      OBVIOUS
    <3>1. Connected(Members(c)) /\ Members(c)' = Members(c)
      BY <1>2 DEF Sound, Hosted, Members
    <3> QED BY <3>1 DEF Connected
  <2> QED BY <1>1, <1>2, <2>1 DEF Sound, Hosted
<1> QED BY <1>3, <1>7, <1>8, <1>9, <1>10, <1>11 DEF Sound

\* A step that hands no node out keeps the lists apart.
LEMMA ListsKept ==
  ASSUME Handed, left' = left, \A s \in Threads : rlocal'[s].nodes = rlocal[s].nodes
  PROVE  Handed'
<1>1. \A t \in Threads : \A i \in 1 .. Len(rlocal'[t].nodes) : rlocal'[t].nodes[i] \notin left'
  <2> SUFFICES ASSUME NEW t \in Threads, NEW i \in 1 .. Len(rlocal'[t].nodes)
               PROVE  rlocal'[t].nodes[i] \notin left
    OBVIOUS
  <2>1. rlocal'[t].nodes = rlocal[t].nodes
    OBVIOUS
  <2> QED BY <2>1 DEF Handed
<1>2. ASSUME NEW s \in Threads, NEW t \in Threads, NEW i \in 1 .. Len(rlocal'[s].nodes),
             NEW j \in 1 .. Len(rlocal'[t].nodes), rlocal'[s].nodes[i] = rlocal'[t].nodes[j]
      PROVE  s = t /\ i = j
  <2>1. rlocal'[t].nodes = rlocal[t].nodes /\ rlocal'[s].nodes = rlocal[s].nodes
    OBVIOUS
  <2> QED BY <1>2, <2>1 DEF Handed
<1> QED BY <1>1, <1>2 DEF Handed

\* Who holds both locks may say that the target is not alone.
LEMMA JoinSound ==
  ASSUME Sound, NEW t \in Threads, Join(t), UNCHANGED <<row, result>>
  PROVE  Sound'
<1> DEFINE l == rlocal[t]
<1>1. /\ To(t, "joined") /\ l.pc = "join" /\ UNCHANGED <<left, refined, held>>
      /\ singleton' = [singleton EXCEPT ![l.bestC] = FALSE]
  BY DEF Join, L
<1>2. /\ l.nodes # <<>> /\ U(t) \in Nodes /\ U(t) = Head(l.nodes)
      /\ l.bestC \in Nodes /\ l.bestC # U(t)
  BY <1>1, Refiner DEF LocalsTyped, U, L, Targeting
<1>3. /\ DOMAIN rlocal' = Threads /\ \A s \in Threads \ {t} : rlocal'[s] = rlocal[s]
      /\ DOMAIN rlocal'[t] = RefineFields /\ rlocal'[t].pc = "joined"
      /\ rlocal'[t].nodes = l.nodes /\ rlocal'[t].todo = l.todo /\ rlocal'[t].neighComms = l.neighComms
      /\ rlocal'[t].criticalNodes = l.criticalNodes /\ rlocal'[t].bestC = l.bestC
  BY <1>1, Going DEF RefineFields
<1>4. /\ singleton \in [Nodes -> BOOLEAN] /\ singleton' \in [Nodes -> BOOLEAN] /\ ~singleton'[l.bestC]
      /\ \A u \in Nodes : u # l.bestC => singleton'[u] = singleton[u]
  BY <1>1, <1>2 DEF Sound, Hosted
<1>5. LocalsTyped(rlocal'[t])
  BY <1>1, <1>2, <1>3, Refiner DEF LocalsTyped, Targeting, Handing
<1>6. Noted(rlocal'[t])
  BY <1>1, <1>2, <1>3, Refiner DEF Noted, Targeting, Handing
<1>7. \A x : Owns(rlocal'[t], x) <=> Owns(l, x)
  BY <1>1, <1>3 DEF Owns
<1>8. row' \in [Nodes -> Seq(Nodes)] /\ Mutual'
  BY DEF Sound, Mutual
<1>9. Fated(rlocal[t])'
  BY <1>1, <1>2, <1>3, <1>4, Refiner DEF Fated, Handing
<1>10. ASSUME NEW s \in Threads, s # t
       PROVE  Fated(rlocal[s])'
  <2>1. Fated(rlocal[s]) /\ LocalsTyped(rlocal[s]) /\ rlocal'[s] = rlocal[s]
    BY <1>3, <1>10 DEF Sound
  <2>2. CASE rlocal[s].pc \in {"host", "update", "join", "joined"}
    <3>1. Head(rlocal[s].nodes) \in Nodes
      BY <2>1, <2>2, Refiner DEF LocalsTyped, U, L
    <3>2. Owns(rlocal[s], Head(rlocal[s].nodes)) /\ Owns(l, l.bestC)
      BY <1>1, <2>2 DEF Owns
    <3>3. Head(rlocal[s].nodes) # l.bestC
      BY <1>10, <3>1, <3>2 DEF Sound, Locks
    <3>4. rlocal[s].pc = "joined" => rlocal[s].bestC \in Nodes
      BY <2>1 DEF LocalsTyped, Targeting
    <3>5. singleton'[Head(rlocal[s].nodes)] = singleton[Head(rlocal[s].nodes)]
      BY <1>4, <3>1, <3>3
    <3>6. rlocal[s].pc = "joined" => ~singleton'[rlocal[s].bestC]
      BY <1>4, <2>1, <3>4 DEF Fated
    <3> QED BY <1>1, <2>1, <3>5, <3>6 DEF Fated
  <2>3. CASE rlocal[s].pc \notin {"host", "update", "join", "joined"}
    BY <1>1, <2>1, <2>3 DEF Fated
  <2> QED BY <2>2, <2>3
<1>11. ASSUME NEW s \in Threads
       PROVE  LocalsTyped(rlocal[s])' /\ Noted(rlocal[s])'
  <2>1. LocalsTyped(rlocal'[s]) /\ Noted(rlocal'[s])
    BY <1>3, <1>5, <1>6 DEF Sound
  <2>2. Noted(rlocal[s])' <=> Noted(rlocal'[s])
    BY <1>1 DEF Noted, Candidate, Beside
  <2>3. LocalsTyped(rlocal[s])' <=> LocalsTyped(rlocal'[s])
    BY DEF LocalsTyped
  <2> QED BY <2>1, <2>2, <2>3
<1>12. Handed'
  <2>1. \A s \in Threads : rlocal'[s].nodes = rlocal[s].nodes
    BY <1>3
  <2> QED BY <1>1, <2>1, ListsKept DEF Sound
<1>13. Locks'
  <2>1. \A s \in Threads : \A x : Owns(rlocal'[s], x) <=> Owns(rlocal[s], x)
    BY <1>3, <1>7
  <2> QED BY <1>1, <2>1 DEF Sound, Locks
<1>14. Hosted'
  <2>1. \A c \in Nodes : Connected(Members(c))'
    <3> SUFFICES ASSUME NEW c \in Nodes PROVE Connected(Members(c))'
      OBVIOUS
    <3>1. Connected(Members(c)) /\ Members(c)' = Members(c)
      BY <1>1 DEF Sound, Hosted, Members
    <3> QED BY <3>1 DEF Connected
  <2>2. \A u \in Nodes : refined[u] # u => ~singleton'[refined[u]]
    BY <1>4 DEF Sound, Hosted
  <2> QED BY <1>1, <1>4, <2>1, <2>2 DEF Sound, Hosted
<1> QED BY <1>3, <1>8, <1>9, <1>10, <1>11, <1>12, <1>13, <1>14 DEF Sound

\* A step that touches no lock keeps every lock with one owner.
LEMMA LocksKept ==
  ASSUME Locks, held' = held, \A s \in Threads : \A x : Owns(rlocal'[s], x) <=> Owns(rlocal[s], x)
  PROVE  Locks'
  BY DEF Locks

\* A node that joins a connected community it has an edge to leaves it
\* connected.
LEMMA StillConnected ==
  ASSUME NEW S \in SUBSET Nodes, NEW v \in Nodes, NEW x \in S, Connected(S), Mutual,
         row \in [Nodes -> Seq(Nodes)], Beside(v, x)
  PROVE  Connected(S \cup {v})
<1> DEFINE both == S \cup {v}
<1>1. \A u, w \in Nodes : w \in ToSet(row[u]) <=> Beside(u, w)
  <2>1. \A u \in Nodes : DOMAIN row[u] = 1 .. Len(row[u])
    BY LenProperties
  <2> QED BY <2>1 DEF ToSet, Beside
<1>2. v \in ToSet(row[x]) /\ x \in ToSet(row[v])
  BY <1>1 DEF Mutual, Beside
<1> SUFFICES ASSUME NEW part \in (SUBSET both) \ {{}, both}
             PROVE  \E u \in part, w \in both \ part : w \in ToSet(row[u])
  BY DEF Connected
<1>3. CASE part \cap S \notin {{}, S}
  <2>1. PICK u \in part \cap S : \E w \in S \ (part \cap S) : w \in ToSet(row[u])
    BY <1>3 DEF Connected
  <2>2. PICK w \in S \ (part \cap S) : w \in ToSet(row[u])
    BY <2>1
  <2> QED BY <2>2
<1>4. CASE part \cap S = {}
  <2>1. v \in part /\ x \in both \ part
    BY <1>4
  <2> QED BY <1>2, <2>1
<1>5. CASE part \cap S = S
  <2>1. x \in part /\ v \in both \ part
    BY <1>5
  <2> QED BY <1>2, <2>1
<1> QED BY <1>3, <1>4, <1>5

\* The node leaves a community that is its own and joins one of a neighbour.
LEMMA JoinedSound ==
  ASSUME Sound, NEW t \in Threads, Joined(t), UNCHANGED <<row, result>>
  PROVE  Sound'
<1> DEFINE l == rlocal[t]
           c == l.bestC
           v == U(t)
<1>1. To(t, "unlock") /\ l.pc = "joined" /\ UNCHANGED <<left, singleton, held>>
      /\ refined' = [refined EXCEPT ![v] = c]
  BY DEF Joined, L
<1>2. l.nodes # <<>> /\ v \in Nodes /\ v = Head(l.nodes) /\ c \in Nodes /\ c # v /\ v = l.nodes[1]
      /\ 1 \in 1 .. Len(l.nodes)
  BY <1>1, Refiner DEF LocalsTyped, U, L, Targeting
<1>3. /\ DOMAIN rlocal' = Threads /\ \A s \in Threads \ {t} : rlocal'[s] = rlocal[s]
      /\ DOMAIN rlocal'[t] = RefineFields /\ rlocal'[t].pc = "unlock"
      /\ rlocal'[t].nodes = l.nodes /\ rlocal'[t].todo = l.todo /\ rlocal'[t].neighComms = l.neighComms
      /\ rlocal'[t].criticalNodes = l.criticalNodes /\ rlocal'[t].bestC = c
  BY <1>1, Going DEF RefineFields
<1>4. refined[v] = v /\ refined[c] = c /\ singleton[v] /\ ~singleton[c]
  BY <1>1, <1>2, Refiner DEF Fated, Handing
<1>5. /\ refined \in [Nodes -> Nodes] /\ refined' \in [Nodes -> Nodes]
      /\ refined'[v] = c /\ \A u \in Nodes : u # v => refined'[u] = refined[u]
  BY <1>1, <1>2 DEF Sound, Hosted
<1>6. \A u \in Nodes : refined[u] = v => u = v
  BY <1>2, <1>4 DEF Sound, Hosted
<1>7. result[c] = result[v] /\ \E x \in Nodes : Beside(v, x) /\ refined[x] = c
  <2>1. Candidate(v, c)
    BY <1>1, <1>2, Refiner DEF Noted, Targeting, Handing
  <2> QED BY <1>4, <2>1 DEF Candidate
<1>8. row' \in [Nodes -> Seq(Nodes)] /\ Mutual'
  BY DEF Sound, Mutual
<1>9. ASSUME NEW s \in Threads
      PROVE  LocalsTyped(rlocal[s])' /\ Noted(rlocal[s])'
  <2>1. LocalsTyped(rlocal[s]) /\ Noted(rlocal[s])
    BY DEF Sound
  <2>2. LocalsTyped(rlocal[t])'
    BY <1>1, <1>2, <1>3, Refiner DEF LocalsTyped, Targeting, Handing
  <2>3. Noted(rlocal[t])'
    BY <1>3 DEF Noted, Handing
  <2>4. CASE s # t
    <3>1. rlocal'[s] = rlocal[s]
      BY <1>3, <2>4
    <3>2. LocalsTyped(rlocal[s])'
      BY <2>1, <3>1 DEF LocalsTyped
    <3>3. ASSUME rlocal[s].pc \notin {"pick"} \cup Handing
          PROVE  \A d \in rlocal[s].neighComms : Candidate(Head(rlocal[s].nodes), d)'
      <4> SUFFICES ASSUME NEW d \in rlocal[s].neighComms
                   PROVE  Candidate(Head(rlocal[s].nodes), d)'
        BY <3>1
      <4> DEFINE u == Head(rlocal[s].nodes)
      <4>1. d \in Nodes /\ Candidate(u, d)
        BY <2>1, <3>3 DEF LocalsTyped, Noted
      <4>2. CASE refined[d] # d
        <5>1. refined'[d] # d
          BY <1>4, <1>5, <4>1, <4>2
        <5> QED BY <3>1, <4>1, <5>1 DEF Candidate
      <4>3. ASSUME NEW x \in Nodes, Beside(u, x), refined[x] = d
            PROVE  Candidate(u, d)'
        <5>1. CASE x = v
          <6>1. d = v /\ refined'[d] # d
            BY <1>2, <1>4, <1>5, <4>3, <5>1
          <6> QED BY <3>1, <4>1, <6>1 DEF Candidate
        <5>2. CASE x # v
          <6>1. refined'[x] = d
            BY <1>5, <4>3, <5>2
          <6> QED BY <3>1, <4>1, <4>3, <6>1 DEF Candidate, Beside
        <5> QED BY <5>1, <5>2
      <4> QED BY <4>1, <4>2, <4>3 DEF Candidate
    <3>4. Noted(rlocal[s])'
      <4>1. CASE rlocal[s].pc \in {"pick"} \cup Handing
        BY <3>1, <4>1 DEF Noted
      <4>2. CASE rlocal[s].pc \notin {"pick"} \cup Handing
        BY <2>1, <3>1, <3>3, <4>2 DEF Noted, Beside
      <4> QED BY <4>1, <4>2
    <3> QED BY <3>2, <3>4
  <2> QED BY <2>2, <2>3, <2>4
<1>10. \A s \in Threads : \A i \in 1 .. Len(rlocal[s].nodes) : rlocal[s].nodes[i] = v => s = t /\ i = 1
  BY <1>2 DEF Sound, Handed
<1>11. ASSUME NEW s \in Threads
       PROVE  Fated(rlocal[s])'
  <2>1. Fated(rlocal[s]) /\ LocalsTyped(rlocal[s]) /\ rlocal[s].nodes \in Seq(Nodes)
        /\ rlocal'[s].nodes = rlocal[s].nodes
    BY <1>3 DEF Sound, LocalsTyped
  <2>2. \A i \in 1 .. Len(rlocal[s].nodes) : rlocal[s].nodes[i] \in Nodes
    BY <2>1
  <2>3. CASE s = t
    BY <1>1, <1>3, <1>5, <1>10, <2>1, <2>2, <2>3 DEF Fated, Handing
  <2>4. CASE s # t
    <3>1. rlocal'[s] = rlocal[s]
      BY <1>3, <2>4
    <3>2. \A i \in 1 .. Len(rlocal[s].nodes) : refined'[rlocal[s].nodes[i]] = refined[rlocal[s].nodes[i]]
      BY <1>5, <1>10, <2>2, <2>4
    <3>3. rlocal[s].pc \in {"join", "joined"} => refined'[rlocal[s].bestC] = rlocal[s].bestC
      <4> SUFFICES ASSUME rlocal[s].pc \in {"join", "joined"}
                   PROVE  refined'[rlocal[s].bestC] = rlocal[s].bestC
        OBVIOUS
      <4>1. rlocal[s].bestC \in Nodes
        BY <2>1 DEF LocalsTyped, Targeting
      <4>2. Owns(rlocal[s], rlocal[s].bestC) /\ Owns(l, v)
        BY <1>1, <1>2 DEF Owns
      <4>3. rlocal[s].bestC # v
        BY <2>4, <4>1, <4>2 DEF Sound, Locks
      <4> QED BY <1>5, <2>1, <4>1, <4>3 DEF Fated
    <3> QED BY <1>1, <2>1, <3>1, <3>2, <3>3 DEF Fated
  <2> QED BY <2>3, <2>4
<1>12. Handed'
  <2>1. \A s \in Threads : rlocal'[s].nodes = rlocal[s].nodes
    BY <1>3
  <2> QED BY <1>1, <2>1, ListsKept DEF Sound
<1>13. Locks'
  <2>1. \A x : Owns(rlocal'[t], x) <=> Owns(l, x)
    BY <1>1, <1>3 DEF Owns
  <2>2. \A s \in Threads : \A x : Owns(rlocal'[s], x) <=> Owns(rlocal[s], x)
    BY <1>3, <2>1
  <2> QED BY <1>1, <2>2, LocksKept DEF Sound
<1>14. Hosted'
  <2>1. \A u \in Nodes : refined'[refined'[u]] = refined'[u] /\ result[refined'[u]] = result[u]
    <3> SUFFICES ASSUME NEW u \in Nodes
                 PROVE  refined'[refined'[u]] = refined'[u] /\ result[refined'[u]] = result[u]
      OBVIOUS
    <3>1. refined[refined[u]] = refined[u] /\ result[refined[u]] = result[u] /\ refined[u] \in Nodes
      BY DEF Sound, Hosted
    <3>2. CASE u = v
      BY <1>2, <1>4, <1>5, <1>7, <3>2
    <3>3. CASE u # v
      <4>1. refined[u] # v /\ refined'[u] = refined[u]
        BY <1>5, <1>6, <3>3
      <4> QED BY <1>5, <3>1, <4>1
    <3> QED BY <3>2, <3>3
  <2>2. \A u \in Nodes : refined'[u] # u => ~singleton[refined'[u]]
    BY <1>4, <1>5 DEF Sound, Hosted
  <2>3. \A u \in left : refined'[u] = u
    <3>1. v \notin left /\ left \subseteq Nodes
      BY <1>2 DEF Sound, Handed
    <3> QED BY <1>5, <3>1 DEF Sound, Hosted
  <2>4. ASSUME NEW d \in Nodes
        PROVE  Connected(Members(d))'
    <3>1. Connected(Members(d)) /\ Members(d)' = {u \in Nodes : refined'[u] = d}
      BY DEF Sound, Hosted, Members
    <3>2. CASE d = c
      <4>1. Members(d)' = Members(d) \cup {v}
        BY <1>2, <1>5, <3>1, <3>2 DEF Members
      <4>2. PICK x \in Nodes : Beside(v, x) /\ refined[x] = c
        BY <1>7
      <4>3. x \in Members(d) /\ Members(d) \in SUBSET Nodes
        BY <3>2, <4>2 DEF Members
      <4>4. Connected(Members(d) \cup {v})
        BY <1>2, <3>1, <4>2, <4>3, StillConnected DEF Sound
      <4> QED BY <4>1, <4>4 DEF Connected
    <3>3. CASE d = v
      <4>1. Members(d)' = {}
        BY <1>2, <1>5, <1>6, <3>1, <3>3
      <4> QED BY <4>1 DEF Connected
    <3>4. CASE d # c /\ d # v
      <4>1. Members(d)' = Members(d)
        BY <1>4, <1>5, <3>1, <3>4 DEF Members
      <4> QED BY <3>1, <4>1 DEF Connected
    <3> QED BY <3>2, <3>3, <3>4
  <2> QED BY <1>1, <1>5, <2>1, <2>2, <2>3, <2>4 DEF Sound, Hosted
<1> QED BY <1>3, <1>8, <1>9, <1>11, <1>12, <1>13, <1>14 DEF Sound

\* A step of a thread; where it does not slip, everything stays sound.
LEMMA RefineKeeps ==
  ASSUME slipped \/ Sound, NEW t \in Threads, RefineStep(t), UNCHANGED <<row, result>>
  PROVE  slipped' \/ Sound'
<1>1. slipped => slipped'
  BY DEF RefineStep, Fetch, Pick, Cut, Choose, LockFirst, LockSecond, Lock, Test, Host, Update, Rechoose,
         Recheck, Join, Joined, Unlock, shared
<1> QED BY <1>1, FetchSound, PickSound, CutSound, ChooseSound, LockSound, TestSound, HostSound, UpdateSound,
           RechooseSound, RecheckSound, JoinSound, JoinedSound, UnlockSound DEF RefineStep

\* A refinement that begins is sound: every node is alone and nothing is
\* locked.
LEMMA BlankSound ==
  ASSUME row \in [Nodes -> Seq(Nodes)], Mutual, RefineBlank, left' \subseteq Nodes,
         UNCHANGED <<row, result, refined, singleton, held, rlocal>>
  PROVE  Sound'
<1>1. /\ DOMAIN rlocal = Threads /\ DOMAIN Fetching = RefineFields /\ Fetching.pc = "pick" /\ Fetching.nodes = <<>>
      /\ Fetching.todo = <<>> /\ Fetching.neighComms = {} /\ Fetching.criticalNodes = {}
      /\ \A t \in Threads : rlocal[t] = Fetching
  BY DEF RefineBlank, Fetching, RefineFields
<1>2. row' \in [Nodes -> Seq(Nodes)] /\ Mutual'
  BY DEF Mutual
<1>3. ASSUME NEW t \in Threads
      PROVE  LocalsTyped(rlocal[t])' /\ Noted(rlocal[t])' /\ Fated(rlocal[t])'
  <2>1. rlocal'[t] = Fetching /\ Len(Fetching.nodes) = 0 /\ <<>> \in Seq(Nodes)
    BY <1>1, EmptySeq
  <2>2. LocalsTyped(rlocal[t])'
    BY <1>1, <2>1 DEF LocalsTyped, Targeting, Handing
  <2>3. Noted(rlocal[t])'
    BY <1>1, <2>1 DEF Noted
  <2>4. Fated(rlocal[t])'
    BY <1>1, <2>1 DEF Fated
  <2> QED BY <2>2, <2>3, <2>4
<1>4. Handed'
  <2>1. \A t \in Threads : Len(rlocal'[t].nodes) = 0
    BY <1>1, EmptySeq
  <2> QED BY <2>1 DEF Handed
<1>5. Locks'
  <2>1. held' = {} /\ \A t \in Threads : \A x : ~Owns(rlocal'[t], x)
    BY <1>1 DEF RefineBlank, Owns
  <2> QED BY <2>1 DEF Locks
<1>6. Hosted'
  <2>1. refined' = [u \in Nodes |-> u] /\ singleton' = [u \in Nodes |-> TRUE]
    BY DEF RefineBlank
  <2>2. \A c \in Nodes : Connected(Members(c))'
    <3> SUFFICES ASSUME NEW c \in Nodes PROVE Connected(Members(c))'
      OBVIOUS
    <3>1. Members(c)' = {c}
      BY <2>1 DEF Members
    <3> QED BY <3>1 DEF Connected
  <2> QED BY <2>1, <2>2 DEF Hosted
<1> QED BY <1>1, <1>2, <1>3, <1>4, <1>5, <1>6 DEF Sound

\* A step that leaves the variables of refinement alone keeps it sound.
LEMMA SoundStays ==
  ASSUME Sound, UNCHANGED <<row, result, refineVars>>
  PROVE  Sound'
<1>1. row' \in [Nodes -> Seq(Nodes)] /\ Mutual' /\ DOMAIN rlocal' = Threads
  BY DEF Sound, Mutual, refineVars
<1>2. ASSUME NEW t \in Threads
      PROVE  LocalsTyped(rlocal[t])' /\ Noted(rlocal[t])' /\ Fated(rlocal[t])'
  <2>1. LocalsTyped(rlocal[t]) /\ Noted(rlocal[t]) /\ Fated(rlocal[t])
    BY DEF Sound
  <2>2. LocalsTyped(rlocal[t])'
    BY <2>1 DEF LocalsTyped, refineVars
  <2>3. Noted(rlocal[t])'
    BY <2>1 DEF Noted, Candidate, Beside, refineVars
  <2>4. Fated(rlocal[t])'
    BY <2>1 DEF Fated, refineVars
  <2> QED BY <2>2, <2>3, <2>4
<1>3. Handed'
  BY ListsKept DEF Sound, refineVars
<1>4. Locks'
  BY LocksKept DEF Sound, refineVars
<1>5. Hosted'
  <2>1. \A c \in Nodes : Connected(Members(c))'
    <3> SUFFICES ASSUME NEW c \in Nodes PROVE Connected(Members(c))'
      OBVIOUS
    <3>1. Connected(Members(c)) /\ Members(c)' = Members(c)
      BY DEF Sound, Hosted, Members, refineVars
    <3> QED BY <3>1 DEF Connected
  <2> QED BY <2>1 DEF Sound, Hosted, refineVars
<1> QED BY <1>1, <1>2, <1>3, <1>4, <1>5 DEF Sound

\* RefineInv says of the refined communities what RefinedSound says.
LEMMA SoundFollows == row \in [Nodes -> Seq(Nodes)] /\ RefineInv => RefinedSound
<1> SUFFICES ASSUME row \in [Nodes -> Seq(Nodes)], RefineInv, ~slipped
             PROVE  /\ HostsStay
                    /\ \A u \in Nodes : result[u] = result[refined[u]]
                    /\ \A c \in Range(refined) : Connected(Members(c))
  BY DEF RefinedSound
<1>1. CASE phase = "move"
  <2>1. refined = [u \in Nodes |-> u]
    BY <1>1 DEF RefineInv, RefineBlank
  <2>2. \A c \in Range(refined) : Members(c) = {c}
    BY <2>1 DEF Members, Range
  <2>3. HostsStay /\ \A u \in Nodes : result[u] = result[refined[u]]
    BY <2>1 DEF HostsStay
  <2>4. \A c : Connected({c})
    BY DEF Connected
  <2> QED BY <2>2, <2>3, <2>4
<1>2. CASE phase # "move"
  <2>1. Hosted
    BY <1>2 DEF RefineInv, Sound
  <2>2. Range(refined) \subseteq Nodes
    BY <2>1 DEF Hosted, Range
  <2> QED BY <2>1, <2>2 DEF Hosted, HostsStay
<1> QED BY <1>1, <1>2

(* Until a thread goes on without its locks: for any undirected graph, any *)
(* partition and any number of threads, refined communities keep their     *)
(* hosts, lie inside one community and are connected, however the threads  *)
(* wait for each other's locks, give them up and choose again              *)
(* (ParallelLeiden.cpp, parallelRefine).                                   *)
THEOREM RefinementSound == Spec => []RefinedSound
<1>1. Init => IInv /\ OInv /\ RInv /\ FInv /\ RefineInv
  <2> SUFFICES ASSUME Init PROVE IInv /\ OInv /\ RInv /\ FInv /\ RefineInv
    OBVIOUS
  <2>1. IInv /\ OInv /\ RInv /\ FInv
    BY InitHolds, InitOwned, InitFresh
  <2> QED BY <2>1 DEF Init, RefineInv, FInv
<1>2. IInv /\ RefineInv /\ [Next]_vars => IInv' /\ RefineInv'
  <2> SUFFICES ASSUME IInv, RefineInv, [Next]_vars PROVE IInv' /\ RefineInv'
    OBVIOUS
  <2>1. ASSUME NEW t \in Threads, Move(t)
        PROVE  IInv' /\ RefineInv'
    <3>1. IInv'
      BY <2>1, MoveKeeps DEF Move
    <3>2. phase = "move" /\ phase' = "move" /\ UNCHANGED <<row, refineVars>>
      BY <2>1 DEF Move
    <3> QED BY <3>1, <3>2 DEF RefineInv, RefineBlank, Mutual, refineVars
  <2>2. ASSUME NEW t \in Threads, Refine(t)
        PROVE  IInv' /\ RefineInv'
    <3>1. IInv'
      BY <2>2, StillKeeps DEF Refine
    <3>2. phase = "refine" /\ phase' = "refine" /\ RefineStep(t) /\ UNCHANGED <<row, result>>
      BY <2>2 DEF Refine
    <3> QED BY <3>1, <3>2, RefineKeeps DEF RefineInv
  <2>3. CASE Turn
    <3>1. IInv'
      BY <2>3, StillKeeps DEF Turn
    <3>2. /\ phase = "move" /\ phase' # "move" /\ left' \in {left, Nodes}
          /\ UNCHANGED <<row, result, refined, singleton, held, rlocal>>
      BY <2>3 DEF Turn
    <3>3. Mutual /\ RefineBlank /\ left' \subseteq Nodes /\ row \in [Nodes -> Seq(Nodes)]
      BY <3>2 DEF RefineInv, RefineBlank, IInv, DataOK
    <3> QED BY <3>1, <3>2, <3>3, BlankSound DEF RefineInv
  <2>4. CASE EndRound
    <3>1. IInv'
      BY <2>4, StillKeeps DEF EndRound
    <3>2. phase # "move" /\ phase' # "move" /\ UNCHANGED <<row, result, refineVars>>
      BY <2>4 DEF EndRound
    <3> QED BY <3>1, <3>2, SoundStays DEF RefineInv, refineVars
  <2>5. CASE UNCHANGED vars
    <3>1. IInv'
      BY <2>5, StillKeeps DEF vars
    <3>2. UNCHANGED <<row, result, phase, refineVars>>
      BY <2>5 DEF vars
    <3>3. CASE phase = "move"
      BY <3>1, <3>2, <3>3 DEF RefineInv, RefineBlank, Mutual, refineVars
    <3>4. CASE phase # "move"
      BY <3>1, <3>2, <3>4, SoundStays DEF RefineInv, refineVars
    <3> QED BY <3>3, <3>4
  <2> QED BY <2>1, <2>2, <2>3, <2>4, <2>5 DEF Next
<1>3. IInv /\ RefineInv => RefinedSound
  BY SoundFollows DEF IInv, DataOK
<1> QED BY <1>1, <1>2, <1>3, PTL DEF Spec
==============================================================================
