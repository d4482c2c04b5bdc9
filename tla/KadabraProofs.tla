----------------------------- MODULE KadabraProofs -----------------------------
(***************************************************************************)
(* For any number of threads, batch and quota: every frame of a thread has *)
(* exactly one use, and without deterministic a thread has at most two;    *)
(* and what the reader has added up is whole after every epoch.            *)
(*                                                                         *)
(* The first is an argument of Uses alone, of one thread: what publish,    *)
(* the move to the next epoch and a full frame do to it, whatever the      *)
(* reader and the other threads are at. The second adds what the frames    *)
(* hold: the frame written holds the paths drawn since its epoch began,    *)
(* and a frame queued or published is done and of an earlier epoch. A      *)
(* thread publishes only what the reader waits for, and nothing twice, so  *)
(* that a frame counted as finished stays published until it is added.     *)
(***************************************************************************)
EXTENDS MCKadabra, SequenceTheorems, FiniteSetTheorems, FunctionTheorems, TLAPS

Distinct(s) == \A i, j \in 1 .. Len(s) : s[i] = s[j] => i = j
In(f, s) == \E i \in 1 .. Len(s) : s[i] = f

\* u: the free frames; q: those queued; e: the one published, or 0; c: the
\* one written, unless the thread is on its way to the next epoch.
Uses(det, u, q, e, c, n, at) ==
  /\ n \in Nat \ {0} /\ u \in Seq(1 .. n) /\ q \in Seq(1 .. n) /\ e \in 0 .. n /\ c \in 1 .. n
  /\ Distinct(u) /\ Distinct(q)
  /\ \A f \in 1 .. n : ~(In(f, u) /\ In(f, q))
  /\ ~In(e, u) /\ ~In(e, q)
  /\ at # "next" => e # c /\ ~In(c, u) /\ ~In(c, q)
  /\ \A f \in 1 .. n : f = e \/ In(f, u) \/ In(f, q) \/ (at # "next" /\ f = c)
  /\ det /\ at = "publish" => q # <<>>
  /\ ~det => q = <<>> /\ n <= 2 /\ (at = "next" => e # 0)

-----------------------------------------------------------------------------
\* What one more or one less element does to a sequence of distinct ones.
LEMMA Longer ==
  ASSUME NEW S, NEW s \in Seq(S), NEW x \in S, Distinct(s), ~In(x, s)
  PROVE  /\ Append(s, x) \in Seq(S) /\ Distinct(Append(s, x))
         /\ \A f : In(f, Append(s, x)) <=> f = x \/ In(f, s)
<1> DEFINE v == Append(s, x)
<1>1. /\ v \in Seq(S) /\ Len(s) \in Nat /\ Len(v) = Len(s) + 1
      /\ v[Len(s) + 1] = x /\ \A j \in 1 .. Len(s) : v[j] = s[j]
  OBVIOUS
<1> HIDE DEF v
<1>2. /\ \A j \in 1 .. Len(v) : j \in 1 .. Len(s) \/ j = Len(s) + 1
      /\ \A j \in 1 .. Len(s) : j \in 1 .. Len(v)
      /\ Len(s) + 1 \in 1 .. Len(v)
  BY <1>1
<1>3. Distinct(v)
  BY <1>1, <1>2 DEF Distinct, In
<1>4. \A f : In(f, v) <=> f = x \/ In(f, s)
  BY <1>1, <1>2 DEF In
<1>5. v \in Seq(S)
  BY <1>1
<1> QED BY <1>3, <1>4, <1>5 DEF v

\* Taking the head off a list of different frames leaves the others, still
\* different.
LEMMA Shorter ==
  ASSUME NEW S, NEW s \in Seq(S), s # <<>>, Distinct(s)
  PROVE  /\ Tail(s) \in Seq(S) /\ Head(s) \in S /\ Distinct(Tail(s)) /\ ~In(Head(s), Tail(s))
         /\ \A f : In(f, s) <=> f = Head(s) \/ In(f, Tail(s))
<1>1. Len(s) \in Nat /\ Len(s) # 0
  BY EmptySeq, LenProperties
<1>2. /\ Tail(s) \in Seq(S) /\ Head(s) = s[1] /\ 1 \in 1 .. Len(s) /\ s[1] \in S
      /\ Len(Tail(s)) = Len(s) - 1
      /\ \A j \in 1 .. Len(Tail(s)) : Tail(s)[j] = s[j + 1]
  BY <1>1
<1>3. /\ \A j \in 1 .. Len(Tail(s)) : j + 1 \in 1 .. Len(s) /\ j + 1 # 1
      /\ \A k \in 1 .. Len(s) : k = 1 \/ (k - 1 \in 1 .. Len(Tail(s)) /\ (k - 1) + 1 = k)
      /\ \A j, k \in 1 .. Len(Tail(s)) : j + 1 = k + 1 => j = k
  BY <1>1, <1>2
<1>4. Distinct(Tail(s)) /\ ~In(Head(s), Tail(s))
  BY <1>2, <1>3 DEF Distinct, In
<1>5. ASSUME NEW f
      PROVE  In(f, s) <=> f = Head(s) \/ In(f, Tail(s))
  <2>1. ASSUME NEW k \in 1 .. Len(s), s[k] = f
        PROVE  f = Head(s) \/ In(f, Tail(s))
    <3>1. CASE k = 1
      BY <1>2, <2>1, <3>1
    <3>2. CASE k # 1
      <4>1. k - 1 \in 1 .. Len(Tail(s)) /\ Tail(s)[k - 1] = s[k]
        BY <1>1, <1>2, <1>3, <3>2
      <4> QED BY <2>1, <4>1 DEF In
    <3> QED BY <3>1, <3>2
  <2>2. f = Head(s) \/ In(f, Tail(s)) => In(f, s)
    BY <1>2, <1>3 DEF In
  <2> QED BY <2>1, <2>2 DEF In
<1> QED BY <1>2, <1>4, <1>5

\* Nothing is in the empty list.
LEMMA NoneIn == \A f : ~In(f, <<>>)
  BY DEF In

\* The frame published before is free again.
LEMMA Freed ==
  ASSUME NEW n \in Nat, NEW u \in Seq(1 .. n), NEW e \in 0 .. n, Distinct(u), ~In(e, u),
         NEW v, v = IF e = 0 THEN u ELSE Append(u, e)
  PROVE  /\ v \in Seq(1 .. n) /\ Distinct(v)
         /\ \A f : In(f, v) <=> In(f, u) \/ (e # 0 /\ f = e)
<1>1. e # 0 => e \in 1 .. n
  OBVIOUS
<1> QED BY <1>1, Longer

-----------------------------------------------------------------------------
\* What a thread does to the uses of its frames.
LEMMA Elsewhere ==
  ASSUME NEW det, NEW u, NEW q, NEW e, NEW c, NEW n, NEW at, NEW to,
         Uses(det, u, q, e, c, n, at), at # "next", to # "next", det /\ to = "publish" => q # <<>>
  PROVE  Uses(det, u, q, e, c, n, to)
  BY DEF Uses

\* Publishing returns the frame published before to the unused ones.
LEMMA PublishWritten ==
  ASSUME NEW det, ~det, NEW u, NEW q, NEW e, NEW c, NEW n, Uses(det, u, q, e, c, n, "publish"),
         NEW v, v = IF e = 0 THEN u ELSE Append(u, e)
  PROVE  Uses(det, v, q, c, c, n, "next")
<1>1. /\ v \in Seq(1 .. n) /\ Distinct(v)
      /\ \A f : In(f, v) <=> In(f, u) \/ (e # 0 /\ f = e)
  <2>1. n \in Nat /\ u \in Seq(1 .. n) /\ e \in 0 .. n /\ Distinct(u) /\ ~In(e, u)
    BY DEF Uses
  <2> QED BY <2>1, Freed
<1>2. c \in 1 .. n /\ c \in 0 .. n /\ c # 0 /\ n \in Nat \ {0}
  BY DEF Uses
<1> QED BY <1>1, <1>2, NoneIn DEF Uses

\* With a queue, publishing takes its head and returns the frame published
\* before.
LEMMA PublishQueued ==
  ASSUME NEW det, det, NEW u, NEW q, NEW e, NEW c, NEW n, Uses(det, u, q, e, c, n, "publish"),
         NEW v, v = IF e = 0 THEN u ELSE Append(u, e)
  PROVE  Uses(det, v, Tail(q), Head(q), c, n, "sample")
<1>1. /\ v \in Seq(1 .. n) /\ Distinct(v)
      /\ \A f : In(f, v) <=> In(f, u) \/ (e # 0 /\ f = e)
  <2>1. n \in Nat /\ u \in Seq(1 .. n) /\ e \in 0 .. n /\ Distinct(u) /\ ~In(e, u)
    BY DEF Uses
  <2> QED BY <2>1, Freed
<1>2. q \in Seq(1 .. n) /\ q # <<>> /\ Distinct(q)
  BY DEF Uses
<1>3. /\ Tail(q) \in Seq(1 .. n) /\ Head(q) \in 1 .. n /\ Distinct(Tail(q)) /\ ~In(Head(q), Tail(q))
      /\ \A f : In(f, q) <=> f = Head(q) \/ In(f, Tail(q))
  BY <1>2, Shorter
<1>4. n \in Nat \ {0} /\ Head(q) \in 0 .. n /\ \A f \in 1 .. n : f # 0
  BY <1>3 DEF Uses
<1> QED BY <1>1, <1>3, <1>4 DEF Uses

\* Without an unused frame a new one is made, different from all in use.
LEMMA NextFresh ==
  ASSUME NEW det \in BOOLEAN, NEW q, NEW e, NEW c, NEW n, Uses(det, <<>>, q, e, c, n, "next"),
         NEW to \in {"test", "sample"}
  PROVE  Uses(det, <<>>, q, e, n + 1, n + 1, to)
<1>1. /\ n + 1 \in Nat \ {0} /\ n + 1 \in 1 .. n + 1 /\ n + 1 \notin 0 .. n /\ e \in 0 .. n /\ e \in 0 .. n + 1
      /\ \A f \in 1 .. n + 1 : f \in 1 .. n \/ f = n + 1
  BY DEF Uses
<1>2. q \in Seq(1 .. n) /\ 1 .. n \subseteq 1 .. n + 1 /\ ~In(n + 1, q)
  BY <1>1 DEF Uses, In
<1>3. <<>> \in Seq(1 .. n + 1) /\ q \in Seq(1 .. n + 1)
  BY <1>2, SeqMonotonic, EmptySeq
<1>4. ~det => n + 1 <= 2
  BY NoneIn DEF Uses
<1> QED BY <1>1, <1>2, <1>3, <1>4, NoneIn DEF Uses

\* With an unused frame its first one is written next.
LEMMA NextRecycled ==
  ASSUME NEW det, NEW u, u # <<>>, NEW q, NEW e, NEW c, NEW n, Uses(det, u, q, e, c, n, "next"),
         NEW to \in {"test", "sample"}
  PROVE  Uses(det, Tail(u), q, e, Head(u), n, to)
<1>1. u \in Seq(1 .. n) /\ Distinct(u)
  BY DEF Uses
<1>2. /\ Tail(u) \in Seq(1 .. n) /\ Head(u) \in 1 .. n /\ Distinct(Tail(u)) /\ ~In(Head(u), Tail(u))
      /\ \A f : In(f, u) <=> f = Head(u) \/ In(f, Tail(u))
  BY <1>1, Shorter
<1> QED BY <1>2 DEF Uses

\* A frame that is full joins the queue; the thread writes elsewhere from now
\* on.
LEMMA FrameFull ==
  ASSUME NEW det, det, NEW u, NEW q, NEW e, NEW c, NEW n, Uses(det, u, q, e, c, n, "count")
  PROVE  Uses(det, u, Append(q, c), e, c, n, "next")
<1>1. q \in Seq(1 .. n) /\ Distinct(q) /\ c \in 1 .. n /\ ~In(c, q)
  BY DEF Uses
<1>2. /\ Append(q, c) \in Seq(1 .. n) /\ Distinct(Append(q, c))
      /\ \A f : In(f, Append(q, c)) <=> f = c \/ In(f, q)
  BY <1>1, Longer
<1> QED BY <1>2 DEF Uses

-----------------------------------------------------------------------------
Records == [epoch : Nat, apx : SUBSET (Int \X Int \X Int), nPairs : Nat]
Generators == [seed : Nat, drawn : Nat]

ThreadOK(t) ==
  /\ frames[t] \in Seq(Records) /\ epochToWrite[t] \in Nat /\ rng[t] \in Generators
  /\ Uses(deterministic, unused[t], finishedQueue[t], epochFinished[t], curFrame[t], Len(frames[t]), pc[t])

OfThreads ==
  /\ DOMAIN frames = Threads /\ DOMAIN curFrame = Threads /\ DOMAIN unused = Threads
  /\ DOMAIN finishedQueue = Threads /\ DOMAIN epochToWrite = Threads /\ DOMAIN rng = Threads
  /\ DOMAIN epochFinished = Threads /\ DOMAIN pc = Threads

IInv == deterministic \in BOOLEAN /\ OfThreads /\ \A t \in Threads : ThreadOK(t)

Untouched(o) ==
  /\ frames'[o] = frames[o] /\ curFrame'[o] = curFrame[o] /\ unused'[o] = unused[o]
  /\ finishedQueue'[o] = finishedQueue[o] /\ epochToWrite'[o] = epochToWrite[o]
  /\ rng'[o] = rng[o] /\ epochFinished'[o] = epochFinished[o] /\ pc'[o] = pc[o]

\* A step is one thread's: it disturbs the frames of no other.
LEMMA OneMoves ==
  ASSUME IInv, NEW t \in Threads, deterministic' = deterministic, OfThreads', ThreadOK(t)',
         \A o \in Threads \ {t} : Untouched(o)
  PROVE  IInv'
<1>1. ASSUME NEW o \in Threads \ {t}
      PROVE  ThreadOK(o)'
  <2>1. ThreadOK(o) /\ Untouched(o)
    BY DEF IInv
  <2> QED BY <2>1 DEF ThreadOK, Untouched
<1> QED BY <1>1 DEF IInv

\* Steps that leave a thread's frames and their uses alone.
LEMMA OnlyPcMoves ==
  ASSUME IInv, NEW t \in Threads, UNCHANGED <<deterministic, owner, epochFinished>>,
         NEW from, NEW to, Go(t, from, to), from # "next", to # "next",
         deterministic /\ to = "publish" => finishedQueue[t] # <<>>
  PROVE  IInv'
<1>1. OfThreads' /\ \A o \in Threads \ {t} : Untouched(o)
  BY DEF IInv, OfThreads, Untouched, owner, Go
<1>2. pc[t] = from /\ pc'[t] = to
  BY DEF IInv, OfThreads, Go
<1>3. Uses(deterministic, unused[t], finishedQueue[t], epochFinished[t], curFrame[t], Len(frames[t]), to)
  BY <1>2, Elsewhere DEF IInv, ThreadOK
<1>4. ThreadOK(t)'
  BY <1>2, <1>3 DEF IInv, ThreadOK, owner
<1> QED BY <1>1, <1>4, OneMoves

\* Publishing a frame keeps the uses of frames apart.
LEMMA PublishKeeps ==
  ASSUME IInv, NEW t \in Threads, Publish(t)
  PROVE  IInv'
<1>1. OfThreads' /\ (\A o \in Threads \ {t} : Untouched(o)) /\ UNCHANGED <<deterministic, frames, curFrame, epochToWrite, rng>>
  BY DEF IInv, OfThreads, Untouched, Publish, Go
<1>2. /\ pc[t] = "publish" /\ pc'[t] = IF deterministic THEN "sample" ELSE "next"
      /\ unused'[t] = IF epochFinished[t] = 0 THEN unused[t] ELSE Append(unused[t], epochFinished[t])
      /\ epochFinished'[t] = IF deterministic THEN Head(finishedQueue[t]) ELSE curFrame[t]
      /\ finishedQueue'[t] = IF deterministic THEN Tail(finishedQueue[t]) ELSE finishedQueue[t]
  BY DEF IInv, OfThreads, Publish, Go, Recycled
<1>3. Uses(deterministic, unused[t], finishedQueue[t], epochFinished[t], curFrame[t], Len(frames[t]), "publish")
  BY <1>2 DEF IInv, ThreadOK
<1>4. Uses(deterministic, unused'[t], finishedQueue'[t], epochFinished'[t], curFrame[t], Len(frames[t]), pc'[t])
  <2>1. CASE deterministic
    BY <1>2, <1>3, <2>1, PublishQueued
  <2>2. CASE ~deterministic
    BY <1>2, <1>3, <2>2, PublishWritten
  <2> QED BY <2>1, <2>2
<1>5. ThreadOK(t)'
  BY <1>1, <1>4 DEF IInv, ThreadOK
<1> QED BY <1>1, <1>5, OneMoves

\* Moving to the next epoch keeps the uses of frames apart.
LEMMA MoveKeeps ==
  ASSUME IInv, NEW t \in Threads, MoveToNextEpoch(t)
  PROVE  IInv'
<1> DEFINE f == IF unused[t] = <<>> THEN Len(frames[t]) + 1 ELSE Head(unused[t])
           e == epochToWrite[t] + 1
<1>1. /\ OfThreads' /\ (\A o \in Threads \ {t} : Untouched(o))
      /\ UNCHANGED <<deterministic, finishedQueue, epochFinished>>
  BY DEF IInv, OfThreads, Untouched, MoveToNextEpoch, Go
<1>2. /\ pc[t] = "next" /\ pc'[t] \in {"test", "sample"}
      /\ epochToWrite'[t] = e /\ rng'[t] = [seed |-> e, drawn |-> 0]
      /\ unused'[t] = (IF unused[t] = <<>> THEN unused[t] ELSE Tail(unused[t]))
      /\ curFrame'[t] = f
      /\ frames'[t] = IF unused[t] = <<>> THEN Append(frames[t], Frame(e)) ELSE [frames[t] EXCEPT ![f] = Frame(e)]
  BY DEF IInv, OfThreads, MoveToNextEpoch, Go
<1>3. /\ Uses(deterministic, unused[t], finishedQueue[t], epochFinished[t], curFrame[t], Len(frames[t]), "next")
      /\ deterministic \in BOOLEAN /\ frames[t] \in Seq(Records) /\ e \in Nat
  BY <1>2 DEF IInv, ThreadOK
<1>4. Frame(e) \in Records
  BY <1>3 DEF Frame, Records
<1>5. frames'[t] \in Seq(Records)
      /\ Len(frames'[t]) = IF unused[t] = <<>> THEN Len(frames[t]) + 1 ELSE Len(frames[t])
  <2>1. CASE unused[t] = <<>>
    BY <1>2, <1>3, <1>4, <2>1
  <2>2. CASE unused[t] # <<>>
    <3>1. f \in 1 .. Len(frames[t])
      BY <1>3, <2>2, Shorter DEF Uses
    <3> QED BY <1>2, <1>3, <1>4, <2>2, <3>1, ExceptSeq
  <2> QED BY <2>1, <2>2
<1>6. Uses(deterministic, unused'[t], finishedQueue[t], epochFinished[t], curFrame'[t], Len(frames'[t]), pc'[t])
  <2>1. CASE unused[t] = <<>>
    BY <1>2, <1>3, <1>5, <2>1, NextFresh
  <2>2. CASE unused[t] # <<>>
    BY <1>2, <1>3, <1>5, <2>2, NextRecycled
  <2> QED BY <2>1, <2>2
<1>7. ThreadOK(t)'
  BY <1>1, <1>2, <1>3, <1>5, <1>6 DEF ThreadOK, Generators
<1> QED BY <1>1, <1>7, OneMoves

\* A batch and its count write to the frame, and change no use of it.
LEMMA Rewritten ==
  ASSUME NEW s \in Seq(Records), NEW c \in 1 .. Len(s), NEW r \in Records,
         NEW z, z = [s EXCEPT ![c] = r]
  PROVE  z \in Seq(Records) /\ Len(z) = Len(s)
  BY ExceptSeq

\* Drawing a sample writes only into the thread's current frame.
LEMMA SampleKeeps ==
  ASSUME IInv, NEW t \in Threads, Sample(t)
  PROVE  IInv'
<1> DEFINE c == curFrame[t]
           apx == frames[t][c].apx \cup {<<t, rng[t].seed, rng[t].drawn + i>> : i \in 1 .. Batch}
<1>1. CASE Go(t, "sample", "test") /\ UNCHANGED <<frames, rng>>
  BY <1>1, OnlyPcMoves DEF Sample, owner
<1>2. CASE /\ Go(t, "sample", "count")
           /\ frames' = [frames EXCEPT ![t][c].apx = apx]
           /\ rng' = [rng EXCEPT ![t].drawn = rng[t].drawn + Batch]
  <2>1. /\ OfThreads' /\ (\A o \in Threads \ {t} : Untouched(o))
        /\ UNCHANGED <<deterministic, curFrame, unused, finishedQueue, epochToWrite, epochFinished>>
    BY <1>2 DEF IInv, OfThreads, Untouched, Sample, Go
  <2>2. /\ pc[t] = "sample" /\ pc'[t] = "count" /\ frames'[t] = [frames[t] EXCEPT ![c].apx = apx]
        /\ rng'[t] = [rng[t] EXCEPT !.drawn = rng[t].drawn + Batch]
    BY <1>2 DEF IInv, OfThreads, Go
  <2>3. /\ Uses(deterministic, unused[t], finishedQueue[t], epochFinished[t], c, Len(frames[t]), "sample")
        /\ frames[t] \in Seq(Records) /\ epochToWrite[t] \in Nat /\ rng[t] \in Generators
    BY <2>2 DEF IInv, ThreadOK
  <2>4. c \in 1 .. Len(frames[t]) /\ frames[t][c] \in Records
    BY <2>3, ElementOfSeq DEF Uses
  <2>5. Workers \in Nat /\ Batch \in Nat /\ t \in Int
    BY KadabraAssumption DEF Threads
  <2>6. \A i \in 1 .. Batch : <<t, rng[t].seed, rng[t].drawn + i>> \in Int \X Int \X Int
    BY <2>3, <2>5 DEF Generators
  <2>7. apx \in SUBSET (Int \X Int \X Int)
    BY <2>4, <2>6 DEF Records
  <2>8. frames'[t] \in Seq(Records) /\ Len(frames'[t]) = Len(frames[t])
    <3> DEFINE r == [frames[t][c] EXCEPT !.apx = apx]
    <3>1. r \in Records
      BY <2>4, <2>7 DEF Records
    <3>2. frames'[t] = [frames[t] EXCEPT ![c] = r]
      BY <2>2
    <3> HIDE DEF r
    <3> QED BY <2>3, <2>4, <3>1, <3>2, Rewritten
  <2>9. rng'[t] \in Generators
    BY SMTT(20), <2>2, <2>3, <2>5 DEF Generators
  <2>10. Uses(deterministic, unused[t], finishedQueue[t], epochFinished[t], c, Len(frames[t]), "count")
    BY <2>3, Elsewhere
  <2>11. ThreadOK(t)'
    BY <2>1, <2>2, <2>3, <2>8, <2>9, <2>10 DEF ThreadOK
  <2> QED BY <2>1, <2>11, OneMoves
<1> QED BY <1>1, <1>2 DEF Sample, Current

\* Counting the samples of a frame may queue it, and keeps the uses apart.
LEMMA CountKeeps ==
  ASSUME IInv, NEW t \in Threads, Count(t)
  PROVE  IInv'
<1> DEFINE c == curFrame[t]
           full == deterministic /\ Current(t).nPairs + Batch > Quota
<1>1. /\ OfThreads' /\ (\A o \in Threads \ {t} : Untouched(o))
      /\ UNCHANGED <<deterministic, curFrame, unused, epochToWrite, rng, epochFinished>>
  BY DEF IInv, OfThreads, Untouched, Count, Go
<1>2. /\ pc[t] = "count" /\ pc'[t] = IF full THEN "next" ELSE "test"
      /\ frames'[t] = [frames[t] EXCEPT ![c].nPairs = frames[t][c].nPairs + Batch]
      /\ finishedQueue'[t] = IF full THEN Append(finishedQueue[t], c) ELSE finishedQueue[t]
  BY DEF IInv, OfThreads, Count, Go
<1>3. /\ Uses(deterministic, unused[t], finishedQueue[t], epochFinished[t], c, Len(frames[t]), "count")
      /\ frames[t] \in Seq(Records) /\ epochToWrite[t] \in Nat /\ rng[t] \in Generators
  BY <1>2 DEF IInv, ThreadOK
<1>4. c \in 1 .. Len(frames[t]) /\ frames[t][c] \in Records
  BY <1>3, ElementOfSeq DEF Uses
<1>5. frames[t][c].nPairs + Batch \in Nat
  <2>1. Batch \in Nat
    BY KadabraAssumption
  <2>2. frames[t][c].nPairs \in Nat
    BY <1>4 DEF Records
  <2> QED BY <2>1, <2>2
<1>6. frames'[t] \in Seq(Records) /\ Len(frames'[t]) = Len(frames[t])
  <2> DEFINE r == [frames[t][c] EXCEPT !.nPairs = frames[t][c].nPairs + Batch]
  <2>1. r \in Records
    BY <1>4, <1>5 DEF Records
  <2>2. frames'[t] = [frames[t] EXCEPT ![c] = r]
    BY <1>2
  <2> HIDE DEF r
  <2> QED BY <1>3, <1>4, <2>1, <2>2, Rewritten
<1>7. Uses(deterministic, unused[t], finishedQueue'[t], epochFinished[t], c, Len(frames[t]), pc'[t])
  <2>1. CASE full
    <3>1. deterministic /\ pc'[t] = "next" /\ finishedQueue'[t] = Append(finishedQueue[t], c)
      BY <1>2, <2>1
    <3> QED BY <1>3, <3>1, FrameFull
  <2>2. CASE ~full
    <3>1. pc'[t] = "test" /\ finishedQueue'[t] = finishedQueue[t]
      BY <1>2, <2>2
    <3> QED BY <1>3, <3>1, Elsewhere
  <2> QED BY <2>1, <2>2
<1>8. ThreadOK(t)'
  BY <1>1, <1>2, <1>3, <1>6, <1>7 DEF ThreadOK
<1> QED BY <1>1, <1>8, OneMoves

\* A thread finds something to publish only if it has it.
LEMMA LoadKeeps ==
  ASSUME IInv, NEW t \in Threads, Load(t)
  PROVE  IInv'
<1>1. deterministic /\ Due(t) => finishedQueue[t] # <<>>
  BY DEF Due
<1> QED BY <1>1, OnlyPcMoves DEF Load

\* The reader changes no frame and no list.
LEMMA ReaderKeeps ==
  ASSUME IInv, 0 \in Threads, Ask \/ Check \/ Sum \/ Decide
  PROVE  IInv'
<1>1. CASE Ask
  BY <1>1, OnlyPcMoves DEF Ask
<1>2. CASE Check
  BY <1>2, OnlyPcMoves DEF Check
<1>3. CASE Sum
  BY <1>3, OnlyPcMoves DEF Sum
<1>4. CASE Decide
  BY <1>4, OnlyPcMoves DEF Decide
<1> QED BY <1>1, <1>2, <1>3, <1>4

\* At first every thread has one frame, which it writes.
LEMMA InitKeeps == Init => IInv
<1> SUFFICES ASSUME Init PROVE IInv
  OBVIOUS
<1>1. OfThreads /\ deterministic \in BOOLEAN
  BY DEF Init, OfThreads
<1>2. ASSUME NEW t \in Threads
      PROVE  ThreadOK(t)
  <2> DEFINE first == [Frame(0) EXCEPT !.apx = {Guess(t)}]
  <2>1. t \in Int
    BY KadabraAssumption DEF Threads
  <2>2. first \in Records
    BY <2>1 DEF Frame, Guess, Records
  <2>3. /\ frames[t] = <<first>> /\ unused[t] = <<>> /\ finishedQueue[t] = <<>> /\ epochFinished[t] = 0
        /\ curFrame[t] = 1 /\ pc[t] = "test" /\ epochToWrite[t] = 0 /\ rng[t] = [seed |-> 0, drawn |-> 0]
    BY DEF Init
  <2>4. frames[t] \in Seq(Records) /\ Len(frames[t]) = 1
    BY <2>2, <2>3
  <2>5. Uses(deterministic, <<>>, <<>>, 0, 1, 1, "test")
    BY NoneIn, EmptySeq DEF Uses, Distinct
  <2> QED BY <2>3, <2>4, <2>5 DEF ThreadOK, Generators
<1> QED BY <1>1, <1>2 DEF IInv

\* IInv is inductive.
LEMMA StepKeeps == IInv /\ [Next]_vars => IInv'
<1> SUFFICES ASSUME IInv, [Next]_vars PROVE IInv'
  OBVIOUS
<1>1. CASE UNCHANGED vars
  BY <1>1 DEF vars, owner, IInv, OfThreads, ThreadOK
<1>2. ASSUME NEW t \in Threads, Step(t)
      PROVE  IInv'
  <2>1. CASE Test(t)
    BY <2>1, OnlyPcMoves DEF Test
  <2>2. CASE Leave(t)
    BY <2>2, OnlyPcMoves DEF Leave
  <2>3. CASE t = 0 /\ (Ask \/ Check \/ Sum \/ Decide)
    BY <2>3, ReaderKeeps
  <2> QED BY <1>2, <2>1, <2>2, <2>3, LoadKeeps, PublishKeeps, MoveKeeps, SampleKeeps, CountKeeps DEF Step
<1> QED BY <1>1, <1>2 DEF Next

-----------------------------------------------------------------------------
\* The uses joined to one sequence, as FramesApart lists them.
LEMMA Joined ==
  ASSUME NEW S, NEW s \in Seq(S), NEW r \in Seq(S), Distinct(s), Distinct(r), \A f \in S : ~(In(f, s) /\ In(f, r))
  PROVE  /\ s \o r \in Seq(S) /\ Distinct(s \o r)
         /\ \A f : In(f, s \o r) <=> In(f, s) \/ In(f, r)
<1> DEFINE v == s \o r
<1>1. /\ v \in Seq(S) /\ Len(s) \in Nat /\ Len(r) \in Nat /\ Len(v) = Len(s) + Len(r)
      /\ \A i \in 1 .. Len(v) : v[i] = IF i <= Len(s) THEN s[i] ELSE r[i - Len(s)]
  BY ConcatProperties, LenProperties
<1> HIDE DEF v
<1>2. /\ \A i \in 1 .. Len(s) : i \in 1 .. Len(v) /\ v[i] = s[i] /\ s[i] \in S
      /\ \A i \in 1 .. Len(r) : Len(s) + i \in 1 .. Len(v) /\ v[Len(s) + i] = r[i] /\ r[i] \in S
      /\ \A i \in 1 .. Len(v) : i \in 1 .. Len(s) \/ (i - Len(s) \in 1 .. Len(r) /\ Len(s) + (i - Len(s)) = i)
  <2>1. ASSUME NEW i \in 1 .. Len(r)
        PROVE  Len(s) + i \in 1 .. Len(v) /\ v[Len(s) + i] = r[i] /\ r[i] \in S
    <3>1. Len(s) + i \in 1 .. Len(v) /\ ~(Len(s) + i <= Len(s)) /\ (Len(s) + i) - Len(s) = i
      BY <1>1
    <3> QED BY <1>1, <3>1, ElementOfSeq
  <2>2. \A i \in 1 .. Len(s) : i \in 1 .. Len(v) /\ v[i] = s[i] /\ s[i] \in S
    BY <1>1, ElementOfSeq
  <2>3. \A i \in 1 .. Len(v) : i \in 1 .. Len(s) \/ (i - Len(s) \in 1 .. Len(r) /\ Len(s) + (i - Len(s)) = i)
    BY <1>1
  <2> QED BY <2>1, <2>2, <2>3
<1>3. ASSUME NEW i \in 1 .. Len(v), NEW j \in 1 .. Len(v), v[i] = v[j]
      PROVE  i = j
  <2>1. CASE i \in 1 .. Len(s) /\ j \in 1 .. Len(s)
    BY <1>2, <1>3, <2>1 DEF Distinct
  <2>2. CASE i - Len(s) \in 1 .. Len(r) /\ j - Len(s) \in 1 .. Len(r)
    <3>1. v[i] = r[i - Len(s)] /\ v[j] = r[j - Len(s)]
      BY <1>2, <1>1, <2>2
    <3>2. i - Len(s) = j - Len(s)
      BY <1>3, <2>2, <3>1 DEF Distinct
    <3> QED BY <1>1, <3>2
  <2>3. CASE i \in 1 .. Len(s) /\ j - Len(s) \in 1 .. Len(r)
    <3>1. v[i] = s[i] /\ v[j] = r[j - Len(s)] /\ s[i] \in S
      BY <1>2, <1>1, <2>3
    <3> QED BY <1>3, <2>3, <3>1 DEF In
  <2>4. CASE j \in 1 .. Len(s) /\ i - Len(s) \in 1 .. Len(r)
    <3>1. v[j] = s[j] /\ v[i] = r[i - Len(s)] /\ s[j] \in S
      BY <1>2, <1>1, <2>4
    <3> QED BY <1>3, <2>4, <3>1 DEF In
  <2> QED BY <1>2, <2>1, <2>2, <2>3, <2>4
<1>4. ASSUME NEW f
      PROVE  In(f, v) <=> In(f, s) \/ In(f, r)
  <2>1. In(f, s) \/ In(f, r) => In(f, v)
    BY <1>2 DEF In
  <2>2. ASSUME NEW i \in 1 .. Len(v), v[i] = f
        PROVE  In(f, s) \/ In(f, r)
    <3>1. CASE i \in 1 .. Len(s)
      BY <1>2, <2>2, <3>1 DEF In
    <3>2. CASE i - Len(s) \in 1 .. Len(r)
      <4>1. v[i] = r[i - Len(s)]
        BY <1>1, <1>2, <3>2
      <4> QED BY <2>2, <3>2, <4>1 DEF In
    <3> QED BY <1>2, <3>1, <3>2
  <2> QED BY <2>1, <2>2 DEF In
<1>5. Distinct(v) /\ v \in Seq(S)
  BY <1>1, <1>3 DEF Distinct
<1> QED BY <1>4, <1>5 DEF v

\* A list of one frame has that frame, once.
LEMMA AtMostOne ==
  ASSUME NEW S, NEW f \in S
  PROVE  /\ <<f>> \in Seq(S) /\ Distinct(<<f>>) /\ \A g : In(g, <<f>>) <=> g = f
  BY DEF Distinct, In

\* The empty list has no frame twice.
LEMMA NoneApart == \A S : <<>> \in Seq(S) /\ Distinct(<<>>)
  BY EmptySeq DEF Distinct

\* While the uses of frames are apart, nobody writes a frame that is
\* published or queued.
LEMMA UsesApart == IInv => FramesApart
<1> SUFFICES ASSUME IInv, NEW t \in Threads
             PROVE  /\ IsInjective(Holds(t)) /\ ToSet(Holds(t)) = DOMAIN frames[t]
                    /\ ~deterministic => Len(frames[t]) <= 2
  BY DEF FramesApart
<1> DEFINE u == unused[t]
           q == finishedQueue[t]
           e == epochFinished[t]
           c == curFrame[t]
           n == Len(frames[t])
           p == PublishedBy(t)
           w == WrittenBy(t)
<1>1. Uses(deterministic, u, q, e, c, n, pc[t]) /\ frames[t] \in Seq(Records)
  BY DEF IInv, ThreadOK
<1>2. u \in Seq(1 .. n) /\ q \in Seq(1 .. n) /\ Distinct(u) /\ Distinct(q) /\ e \in 0 .. n /\ c \in 1 .. n
  BY <1>1 DEF Uses
<1>3. p \in Seq(1 .. n) /\ Distinct(p) /\ \A f \in 1 .. n : In(f, p) <=> f = e
  <2>1. CASE e = 0
    BY <2>1, NoneApart, NoneIn DEF PublishedBy
  <2>2. CASE e # 0
    <3>1. e \in 1 .. n
      BY <1>2, <2>2
    <3> QED BY <2>2, <3>1, AtMostOne DEF PublishedBy
  <2> QED BY <2>1, <2>2
<1>4. w \in Seq(1 .. n) /\ Distinct(w) /\ \A f \in 1 .. n : In(f, w) <=> (pc[t] # "next" /\ f = c)
  BY <1>2, AtMostOne, NoneApart, NoneIn DEF WrittenBy
<1> HIDE DEF p, w
<1>5. \A f \in 1 .. n : /\ ~(In(f, u) /\ In(f, q))
                       /\ ~((In(f, u) \/ In(f, q)) /\ In(f, p))
                       /\ ~((In(f, u) \/ In(f, q) \/ In(f, p)) /\ In(f, w))
  BY <1>1, <1>3, <1>4 DEF Uses
<1>6. Holds(t) = ((u \o q) \o p) \o w
  BY DEF Holds, p, w
<1>7. /\ Holds(t) \in Seq(1 .. n) /\ Distinct(Holds(t))
      /\ \A f : In(f, Holds(t)) <=> In(f, u) \/ In(f, q) \/ In(f, p) \/ In(f, w)
  <2> HIDE DEF u, q
  <2> DEFINE S == 1 .. n
             v == Holds(t)
  <2>1. /\ u \in Seq(S) /\ q \in Seq(S) /\ p \in Seq(S) /\ w \in Seq(S)
        /\ Distinct(u) /\ Distinct(q) /\ Distinct(p) /\ Distinct(w)
    BY <1>2, <1>3, <1>4
  <2>2. \A f \in S : /\ ~(In(f, u) /\ In(f, q))
                     /\ ~((In(f, u) \/ In(f, q)) /\ In(f, p))
                     /\ ~((In(f, u) \/ In(f, q) \/ In(f, p)) /\ In(f, w))
    BY <1>5
  <2>3. v = ((u \o q) \o p) \o w
    BY <1>6
  <2> HIDE DEF v, S
  <2> DEFINE a == u \o q
             b == a \o p
  <2>4. a \in Seq(S) /\ Distinct(a) /\ \A f : In(f, a) <=> In(f, u) \/ In(f, q)
    BY <2>1, <2>2, Joined
  <2>5. v = b \o w
    BY <2>3
  <2> HIDE DEF a
  <2>6. b \in Seq(S) /\ Distinct(b) /\ \A f : In(f, b) <=> In(f, a) \/ In(f, p)
    <3>1. \A f \in S : ~(In(f, a) /\ In(f, p))
      BY <2>2, <2>4
    <3> QED BY <2>1, <2>4, <3>1, Joined
  <2> HIDE DEF b
  <2>7. b \o w \in Seq(S) /\ Distinct(b \o w) /\ \A f : In(f, b \o w) <=> In(f, b) \/ In(f, w)
    <3>1. \A f \in S : ~(In(f, b) /\ In(f, w))
      BY <2>2, <2>4, <2>6
    <3> QED BY <2>1, <2>6, <3>1, Joined
  <2> QED BY <2>4, <2>5, <2>6, <2>7 DEF v, S
<1>8. \A f \in 1 .. n : In(f, Holds(t))
  BY <1>1, <1>3, <1>4, <1>7 DEF Uses
<1>9. /\ Holds(t) \in Seq(1 .. n) /\ DOMAIN Holds(t) = 1 .. Len(Holds(t)) /\ DOMAIN frames[t] = 1 .. n
       /\ \A i \in 1 .. Len(Holds(t)) : Holds(t)[i] \in 1 .. n
  BY <1>1, <1>7, LenProperties, ElementOfSeq
<1>10. IsInjective(Holds(t))
  BY <1>7, <1>9 DEF IsInjective, Distinct
<1>11. ToSet(Holds(t)) = DOMAIN frames[t]
  BY <1>8, <1>9 DEF ToSet, In
<1>12. ~deterministic => n <= 2
  BY <1>1 DEF Uses
<1> QED BY <1>10, <1>11, <1>12

\* A frame that the reader of KadabraBetweenness::run adds up is not written,
\* queued or free at the same time, for any number of threads.
THEOREM FramesStayApart == Spec => []FramesApart
  BY InitKeeps, StepKeeps, UsesApart, PTL DEF Spec

-----------------------------------------------------------------------------
\* What a frame of the epoch holds when n paths of it are drawn.
Paths(t, epoch, n) == {<<t, epoch, k>> : k \in 1 .. n}
PathsAfter(t, epoch, n, m) == {<<t, epoch, n + i>> : i \in 1 .. m}
Guesses(t, epoch) == IF epoch = 0 THEN {Guess(t)} ELSE {}
Drawn(t, epoch, n) == Paths(t, epoch, n) \cup Guesses(t, epoch)
Full == Batch * (Quota \div Batch + 1)

\* A frame that is done: it counts the paths it holds.
Whole(t, det, r) == r.apx = Drawn(t, r.epoch, r.nPairs) /\ (det => r.nPairs = Full)

\* fs: the frames of thread t; q, e, c: those queued, published and written;
\* w: the epoch written; g: the generator.
Kept(t, det, fs, q, e, w, at) ==
  /\ \A i \in 1 .. Len(q) :
       /\ Whole(t, det, fs[q[i]]) /\ fs[q[i]].epoch <= w /\ (at # "next" => fs[q[i]].epoch < w)
       /\ \A j \in 1 .. Len(q) : i < j => fs[q[i]].epoch < fs[q[j]].epoch
       /\ e # 0 => fs[e].epoch < fs[q[i]].epoch
  /\ e # 0 => Whole(t, det, fs[e]) /\ fs[e].epoch <= w /\ (at # "next" => fs[e].epoch < w)

Written(t, det, r, w, g, at) ==
  at # "next" =>
    /\ r.epoch = w /\ g.seed = w
    /\ r.apx = Drawn(t, w, g.drawn)
    /\ g.drawn = IF at = "count" THEN r.nPairs + Batch ELSE r.nPairs
    /\ det => r.nPairs <= Quota /\ \E k \in Nat : r.nPairs = Batch * k

\* What the thread is about to publish is what the reader waits for.
Asked(det, fs, q, w, at, er) ==
  at = "publish" => IF det THEN fs[q[1]].epoch = er ELSE w = er

WholeOK(t) ==
  /\ Kept(t, deterministic, frames[t], finishedQueue[t], epochFinished[t], epochToWrite[t], pc[t])
  /\ Written(t, deterministic, Current(t), epochToWrite[t], rng[t], pc[t])
  /\ Asked(deterministic, frames[t], finishedQueue[t], epochToWrite[t], pc[t], epochToRead)

\* The epoch a thread published last.
Latest(t) == IF epochFinished[t] = 0 THEN -1 ELSE Published(t).epoch

ReaderOK ==
  /\ epochRead \in Int /\ epochRead >= -1 /\ epochToRead \in {epochRead, epochRead + 1}
  /\ nPairs \in Nat /\ next \in 0 .. Workers
  /\ \A t \in Threads : Latest(t) >= epochRead
  /\ pc[0] = "check" =>
       epochToRead = epochRead + 1 /\ \A t \in Threads : t < next => Latest(t) = epochToRead
  /\ pc[0] = "sum" =>
       epochToRead = epochRead + 1 /\ \A t \in Threads : Latest(t) = epochToRead

\* The frames added up: those of the epochs read, and some of the next.
AddedUp(t, epoch) == epoch <= epochRead \/ (pc[0] = "sum" /\ epoch = epochRead + 1 /\ t < next)
EpochOf(s) == IF s[2] = -1 THEN 0 ELSE s[2]
GuessesAdded == IF epochRead >= 0 THEN Workers ELSE IF pc[0] = "sum" THEN next ELSE 0

SumOK ==
  LET all == DOMAIN approxSum
  IN  /\ approxSum = SetToBag(all)
      /\ IsFiniteSet(all) /\ Cardinality(all) = nPairs + GuessesAdded
      /\ \A s \in all :
           /\ s \in Threads \X Int \X Int /\ s[2] >= -1 /\ AddedUp(s[1], EpochOf(s))
           /\ s[3] > 1 => <<s[1], s[2], s[3] - 1>> \in all
      /\ deterministic => \A t \in Threads, epoch \in Nat :
           AddedUp(t, epoch) => {s \in all : s[1] = t /\ s[2] = epoch} = Paths(t, epoch, Full)

\* Paths drawn after the first n.
LEMMA MorePaths ==
  ASSUME NEW t, NEW epoch, NEW n \in Nat, NEW m \in Nat
  PROVE  Paths(t, epoch, n + m) = Paths(t, epoch, n) \cup PathsAfter(t, epoch, n, m)
<1>1. \A k \in 1 .. n + m : k \in 1 .. n \/ (k - n \in 1 .. m /\ k = n + (k - n))
  OBVIOUS
<1>2. (\A k \in 1 .. n : k \in 1 .. n + m) /\ \A i \in 1 .. m : n + i \in 1 .. n + m
  OBVIOUS
<1>3. Paths(t, epoch, n + m) \subseteq Paths(t, epoch, n) \cup PathsAfter(t, epoch, n, m)
  <2> SUFFICES ASSUME NEW k \in 1 .. n + m
               PROVE  <<t, epoch, k>> \in Paths(t, epoch, n) \cup PathsAfter(t, epoch, n, m)
    BY DEF Paths
  <2> QED BY <1>1 DEF Paths, PathsAfter
<1>4. Paths(t, epoch, n) \cup PathsAfter(t, epoch, n, m) \subseteq Paths(t, epoch, n + m)
  BY <1>2 DEF Paths, PathsAfter
<1> QED BY <1>3, <1>4

\* A frame that another batch fills has had as many batches as go into the quota.
LEMMA FullCount ==
  ASSUME NEW k \in Nat, Batch * k <= Quota, Batch * k + Batch > Quota
  PROVE  Batch * k + Batch = Full
<1> DEFINE d == Quota \div Batch
<1>1. Batch \in Nat /\ Batch > 0 /\ Quota \in Nat
  BY KadabraAssumption
<1>2. Quota = Batch * d + (Quota % Batch) /\ d \in Nat /\ Quota % Batch \in 0 .. Batch - 1
  BY <1>1
<1> HIDE DEF d
<1>3. Batch * (k + 1) = Batch * k + Batch /\ Batch * (d + 1) = Batch * d + Batch
  BY <1>1, <1>2
<1>4. Batch * k \in Nat /\ Batch * d \in Nat
  BY <1>1, <1>2
<1>5. ASSUME NEW a \in Nat, NEW b \in Nat, a > b
      PROVE  Batch * a >= Batch * (b + 1)
  BY <1>1, <1>5
<1>6. ~(k > d)
  BY <1>1, <1>2, <1>3, <1>4, <1>5
<1>7. ~(d > k)
  BY <1>1, <1>2, <1>3, <1>4, <1>5
<1>8. k = d
  BY <1>2, <1>6, <1>7
<1> QED BY <1>3, <1>8 DEF Full, d

-----------------------------------------------------------------------------
\* What a thread does to the frames that are done.
LEMMA KeptElsewhere ==
  ASSUME NEW t, NEW det, NEW fs, NEW gs, NEW q, NEW e, NEW w, NEW at, NEW to, at # "next",
         Kept(t, det, fs, q, e, w, at),
         \A i \in 1 .. Len(q) : gs[q[i]] = fs[q[i]], e # 0 => gs[e] = fs[e]
  PROVE  Kept(t, det, gs, q, e, w, to)
  BY DEF Kept

\* A newer frame to write leaves the queue and the published frame as they
\* are.
LEMMA KeptLater ==
  ASSUME NEW t, NEW det, NEW fs, NEW gs, NEW q, NEW e, NEW w \in Nat, NEW to,
         Kept(t, det, fs, q, e, w, "next"),
         \A i \in 1 .. Len(q) : gs[q[i]] = fs[q[i]] /\ fs[q[i]].epoch \in Nat,
         e # 0 => gs[e] = fs[e] /\ fs[e].epoch \in Nat
  PROVE  Kept(t, det, gs, q, e, w + 1, to)
<1>1. \A x \in Nat : x <= w => x < w + 1 /\ x <= w + 1
  OBVIOUS
<1> QED BY <1>1 DEF Kept

\* Publishing the head of the queue: it was whole, and so is the rest.
LEMMA KeptPublished ==
  ASSUME NEW t, NEW det, NEW fs, NEW S, NEW q \in Seq(S), NEW e, NEW w, NEW at, NEW to, at # "next", to # "next",
         q # <<>>, Kept(t, det, fs, q, e, w, at)
  PROVE  Kept(t, det, fs, Tail(q), Head(q), w, to)
<1>1. Len(q) \in Nat /\ Len(q) # 0
  BY EmptySeq, LenProperties
<1>2. /\ Head(q) = q[1] /\ 1 \in 1 .. Len(q) /\ Len(Tail(q)) = Len(q) - 1
      /\ \A j \in 1 .. Len(Tail(q)) : Tail(q)[j] = q[j + 1]
  BY <1>1
<1>3. \A j \in 1 .. Len(Tail(q)) :
        /\ j + 1 \in 1 .. Len(q) /\ 1 < j + 1
        /\ \A k \in 1 .. Len(Tail(q)) : j < k => j + 1 < k + 1
  BY <1>1, <1>2
<1> QED BY <1>2, <1>3 DEF Kept

\* Publishing the frame just written: it is whole up to its epoch.
LEMMA KeptWritten ==
  ASSUME NEW t, NEW det, NEW fs, NEW q, NEW e, NEW c, NEW w \in Nat, NEW at,
         q = <<>>, Whole(t, det, fs[c]), fs[c].epoch = w
  PROVE  Kept(t, det, fs, q, c, w, "next")
<1>1. Len(q) = 0 /\ w <= w
  OBVIOUS
<1>2. 1 .. Len(q) = {}
  BY <1>1
<1> QED BY <1>1, <1>2 DEF Kept

\* Queueing a whole frame behind the others.
LEMMA KeptQueued ==
  ASSUME NEW t, NEW det, NEW fs, NEW gs, NEW S, NEW q \in Seq(S), NEW e, NEW c \in S, NEW w \in Nat, NEW at, at # "next",
         Kept(t, det, fs, q, e, w, at),
         \A i \in 1 .. Len(q) : gs[q[i]] = fs[q[i]], e # 0 => gs[e] = fs[e],
         Whole(t, det, gs[c]), gs[c].epoch = w
  PROVE  Kept(t, det, gs, Append(q, c), e, w, "next")
<1> DEFINE v == Append(q, c)
<1>1. /\ v \in Seq(S) /\ Len(q) \in Nat /\ Len(v) = Len(q) + 1
      /\ v[Len(q) + 1] = c /\ \A j \in 1 .. Len(q) : v[j] = q[j]
  OBVIOUS
<1> HIDE DEF v
<1>2. w <= w /\ \A j \in 1 .. Len(v) : j \in 1 .. Len(q) \/ j = Len(q) + 1
  BY <1>1
<1>3. /\ \A i \in 1 .. Len(q) : Whole(t, det, gs[v[i]]) /\ gs[v[i]].epoch <= w
      /\ e # 0 => \A i \in 1 .. Len(q) : gs[e].epoch < gs[v[i]].epoch
  BY <1>1 DEF Kept
<1>3a. \A i \in 1 .. Len(q) : gs[v[i]].epoch < w
  BY <1>1 DEF Kept
<1>3b. \A i, j \in 1 .. Len(q) : i < j => gs[v[i]].epoch < gs[v[j]].epoch
  BY <1>1 DEF Kept
<1>4. e # 0 => Whole(t, det, gs[e]) /\ gs[e].epoch <= w /\ gs[e].epoch < w
  BY DEF Kept
<1>5. \A i \in 1 .. Len(v) : \A j \in 1 .. Len(v) : i < j => i \in 1 .. Len(q)
  BY <1>1
<1>6. ASSUME NEW i \in 1 .. Len(v)
      PROVE  /\ Whole(t, det, gs[v[i]]) /\ gs[v[i]].epoch <= w
             /\ \A j \in 1 .. Len(v) : i < j => gs[v[i]].epoch < gs[v[j]].epoch
             /\ e # 0 => gs[e].epoch < gs[v[i]].epoch
  <2>1. CASE i \in 1 .. Len(q)
    <3>1. ASSUME NEW j \in 1 .. Len(v), i < j
          PROVE  gs[v[i]].epoch < gs[v[j]].epoch
      <4>1. CASE j \in 1 .. Len(q)
        BY <1>3b, <2>1, <3>1, <4>1
      <4>2. CASE j = Len(q) + 1
        <5>1. gs[v[j]] = gs[c]
          BY <1>1, <4>2
        <5>2. gs[v[i]].epoch < w
          BY <1>3a, <2>1
        <5> QED BY <5>1, <5>2
      <4> QED BY <1>2, <4>1, <4>2
    <3> QED BY <1>3, <2>1, <3>1
  <2>2. CASE i = Len(q) + 1
    <3>1. v[i] = c /\ i \notin 1 .. Len(q)
      BY <1>1, <2>2
    <3>2. \A j \in 1 .. Len(v) : ~(i < j)
      BY <1>5, <3>1
    <3>3. gs[v[i]] = gs[c]
      BY <3>1
    <3> QED BY <1>2, <1>4, <3>2, <3>3
  <2> QED BY <1>2, <2>1, <2>2
<1>7. Kept(t, det, gs, v, e, w, "next")
  BY <1>4, <1>6 DEF Kept
<1> QED BY <1>7 DEF v

\* What is known of a thread's frames and their uses.
LEMMA Facts ==
  ASSUME IInv, NEW t \in Threads
  PROVE  LET n == Len(frames[t])
             q == finishedQueue[t]
             e == epochFinished[t]
             c == curFrame[t]
         IN  /\ deterministic \in BOOLEAN
             /\ frames[t] \in Seq(Records) /\ epochToWrite[t] \in Nat
             /\ rng[t] \in Generators /\ rng[t].drawn \in Nat /\ rng[t].seed \in Nat
             /\ n \in Nat /\ c \in 1 .. n /\ q \in Seq(1 .. n) /\ Len(q) \in Nat /\ e \in 0 .. n /\ unused[t] \in Seq(1 .. n)
             /\ Current(t) \in Records
             /\ \A i \in 1 .. Len(q) : q[i] \in 1 .. n /\ frames[t][q[i]].epoch \in Nat
             /\ e # 0 => e \in 1 .. n /\ frames[t][e].epoch \in Nat
             /\ pc[t] # "next" => e # c /\ \A i \in 1 .. Len(q) : q[i] # c
             /\ \A i \in 1 .. Len(q) : ~In(q[i], unused[t])
             /\ ~In(e, unused[t])
             /\ ~deterministic => q = <<>>
             /\ deterministic /\ pc[t] = "publish" => q # <<>>
<1> DEFINE n == Len(frames[t])
           q == finishedQueue[t]
           e == epochFinished[t]
           c == curFrame[t]
<1>1. /\ frames[t] \in Seq(Records) /\ epochToWrite[t] \in Nat /\ rng[t] \in Generators
      /\ Uses(deterministic, unused[t], q, e, c, n, pc[t])
      /\ deterministic \in BOOLEAN
  BY DEF IInv, ThreadOK
<1>2. rng[t].drawn \in Nat /\ rng[t].seed \in Nat
  BY <1>1 DEF Generators
<1>3. /\ n \in Nat /\ c \in 1 .. n /\ q \in Seq(1 .. n) /\ e \in 0 .. n /\ unused[t] \in Seq(1 .. n)
      /\ \A f \in 1 .. n : ~(In(f, unused[t]) /\ In(f, q))
      /\ ~In(e, unused[t])
      /\ pc[t] # "next" => e # c /\ ~In(c, q)
      /\ ~deterministic => q = <<>>
      /\ deterministic /\ pc[t] = "publish" => q # <<>>
  BY <1>1 DEF Uses
<1>4. Len(q) \in Nat /\ \A i \in 1 .. Len(q) : q[i] \in 1 .. n
  BY <1>3, LenProperties, ElementOfSeq
<1>5. \A f \in 1 .. n : frames[t][f] \in Records /\ frames[t][f].epoch \in Nat
  <2>1. \A f \in 1 .. n : frames[t][f] \in Records
    BY <1>1, ElementOfSeq
  <2>2. \A r \in Records : r.epoch \in Nat
    BY DEF Records
  <2> QED BY <2>1, <2>2
<1>6. \A i \in 1 .. Len(q) : In(q[i], q)
  BY DEF In
<1>7. e # 0 => e \in 1 .. n
  BY <1>3
<1>8. pc[t] # "next" => \A i \in 1 .. Len(q) : q[i] # c
  BY <1>3, <1>6
<1>9. \A i \in 1 .. Len(q) : ~In(q[i], unused[t])
  BY <1>3, <1>4, <1>6
<1> HIDE DEF n, q, e, c
<1>10. Current(t) \in Records
  BY <1>3, <1>5 DEF Current, c
<1>11. \A i \in 1 .. Len(q) : frames[t][q[i]].epoch \in Nat
  BY <1>4, <1>5
<1>12. e # 0 => frames[t][e].epoch \in Nat
  BY <1>5, <1>7
<1> QED BY <1>1, <1>2, <1>3, <1>4, <1>7, <1>8, <1>9, <1>10, <1>11, <1>12 DEF n, q, e, c

AllWhole == \A t \in Threads : WholeOK(t)

\* A step is one thread's: what the others hold stays whole.
LEMMA OthersWhole ==
  ASSUME AllWhole, NEW t \in Threads, deterministic' = deterministic, epochToRead' = epochToRead,
         \A o \in Threads \ {t} : Untouched(o), WholeOK(t)'
  PROVE  AllWhole'
<1>1. ASSUME NEW o \in Threads \ {t}
      PROVE  WholeOK(o)'
  <2>1. WholeOK(o) /\ Untouched(o)
    BY DEF AllWhole
  <2> QED BY <2>1 DEF WholeOK, Untouched, Current
<1> QED BY <1>1 DEF AllWhole

\* Nor does it change what they published last.
Same == \A o \in Threads : Latest(o)' = Latest(o)

\* If no thread changes what it has published, the reader sees what it saw.
LEMMA OthersSame ==
  ASSUME NEW t \in Threads, \A o \in Threads \ {t} : Untouched(o), epochFinished'[t] = epochFinished[t],
         epochFinished[t] # 0 => frames'[t][epochFinished[t]] = frames[t][epochFinished[t]]
  PROVE  Same
<1>1. \A o \in Threads \ {t} : Latest(o)' = Latest(o)
  BY DEF Untouched, Latest, Published
<1>2. Latest(t)' = Latest(t)
  BY DEF Latest, Published
<1> QED BY <1>1, <1>2 DEF Same

\* Steps that leave frames, queue and generator alone.
LEMMA OnlyPcWhole ==
  ASSUME IInv, AllWhole, NEW t \in Threads, UNCHANGED <<deterministic, owner, epochFinished, epochToRead>>,
         NEW from, NEW to, Go(t, from, to), from \notin {"next", "count"}, to \notin {"next", "count"},
         to = "publish" => Due(t)
  PROVE  AllWhole' /\ Same
<1> DEFINE fs == frames[t]
           q == finishedQueue[t]
           e == epochFinished[t]
           w == epochToWrite[t]
<1>1. (\A o \in Threads \ {t} : Untouched(o)) /\ pc[t] = from /\ pc'[t] = to
  BY DEF IInv, OfThreads, Untouched, owner, Go
<1>2. WholeOK(t)
  BY DEF AllWhole
<1>3. Kept(t, deterministic, fs, q, e, w, to)
  BY <1>1, <1>2, KeptElsewhere DEF WholeOK
<1>4. Written(t, deterministic, Current(t), w, rng[t], to)
  BY <1>1, <1>2 DEF WholeOK, Written
<1>5. Asked(deterministic, fs, q, w, to, epochToRead)
  <2> SUFFICES ASSUME to = "publish" PROVE Asked(deterministic, fs, q, w, to, epochToRead)
    BY DEF Asked
  <2>1. Due(t) /\ q \in Seq(1 .. Len(fs))
    BY Facts
  <2>2. q # <<>> => Head(q) = q[1]
    BY <2>1
  <2> QED BY <2>1, <2>2 DEF Due, Asked
<1>6. WholeOK(t)'
  BY <1>1, <1>3, <1>4, <1>5 DEF WholeOK, owner, Current
<1>7. Same
  BY DEF Same, Latest, Published, owner
<1> QED BY <1>1, <1>6, <1>7, OthersWhole DEF owner

\* What a thread publishes is whole, and belongs to the epoch the reader
\* asked for.
LEMMA PublishWhole ==
  ASSUME IInv, AllWhole, NEW t \in Threads, Publish(t)
  PROVE  AllWhole' /\ \A o \in Threads : Latest(o)' \in {Latest(o), epochToRead}
<1> DEFINE fs == frames[t]
           q == finishedQueue[t]
           e == epochFinished[t]
           w == epochToWrite[t]
<1>1. /\ \A o \in Threads \ {t} : Untouched(o)
      /\ UNCHANGED <<deterministic, frames, curFrame, epochToWrite, rng, epochToRead>>
  BY DEF IInv, OfThreads, Untouched, Publish, Go, reader
<1>2. /\ pc[t] = "publish" /\ pc'[t] = IF deterministic THEN "sample" ELSE "next"
      /\ epochFinished'[t] = IF deterministic THEN Head(q) ELSE curFrame[t]
      /\ finishedQueue'[t] = IF deterministic THEN Tail(q) ELSE q
  BY DEF IInv, OfThreads, Publish, Go
<1>3. WholeOK(t)
  BY DEF AllWhole
<1>4. w \in Nat /\ q \in Seq(1 .. Len(fs)) /\ (~deterministic => q = <<>>) /\ (deterministic => q # <<>>)
  BY <1>2, Facts
<1>5. Kept(t, deterministic, fs, finishedQueue'[t], epochFinished'[t], w, pc'[t])
  <2>1. CASE deterministic
    <3>1. Kept(t, deterministic, fs, Tail(q), Head(q), w, "sample")
      BY <1>2, <1>3, <1>4, <2>1, KeptPublished DEF WholeOK
    <3> QED BY <1>2, <2>1, <3>1
  <2>2. CASE ~deterministic
    <3>1. Whole(t, deterministic, Current(t)) /\ Current(t).epoch = w
      BY <1>2, <1>3, <2>2 DEF WholeOK, Written, Whole
    <3>2. Kept(t, deterministic, fs, q, curFrame[t], w, "next")
      BY <1>4, <2>2, <3>1, KeptWritten DEF Current
    <3> QED BY <1>2, <2>2, <3>2
  <2> QED BY <2>1, <2>2
<1>6. Written(t, deterministic, Current(t), w, rng[t], pc'[t])
  BY <1>2, <1>3 DEF WholeOK, Written
<1>7. WholeOK(t)'
  BY <1>1, <1>2, <1>5, <1>6 DEF WholeOK, Asked, Current
<1>8. Latest(t)' = epochToRead
  <2>1. CASE deterministic
    <3>1. q \in Seq(1 .. Len(fs)) /\ q # <<>>
      BY <1>4, <2>1
    <3>2. Head(q) = q[1] /\ 1 \in 1 .. Len(q) /\ q[1] \in 1 .. Len(fs) /\ Len(fs) \in Nat
      <4>1. Len(q) \in Nat /\ Len(q) # 0 /\ Len(fs) \in Nat
        BY <3>1, EmptySeq, LenProperties, Facts
      <4> QED BY <3>1, <4>1, ElementOfSeq
    <3>3. epochFinished'[t] = q[1] /\ q[1] # 0 /\ frames'[t] = fs /\ fs[q[1]].epoch = epochToRead
      BY <1>1, <1>2, <1>3, <2>1, <3>2 DEF WholeOK, Asked
    <3> QED BY <3>3 DEF Latest, Published
  <2>2. CASE ~deterministic
    <3>1. curFrame[t] \in 1 .. Len(fs) /\ Len(fs) \in Nat
      BY Facts
    <3>2. /\ epochFinished'[t] = curFrame[t] /\ curFrame[t] # 0 /\ frames'[t] = fs
          /\ fs[curFrame[t]].epoch = w /\ w = epochToRead
      BY <1>1, <1>2, <1>3, <2>2, <3>1 DEF WholeOK, Asked, Written, Current
    <3> QED BY <3>2 DEF Latest, Published
  <2> QED BY <2>1, <2>2
<1>9. \A o \in Threads \ {t} : Latest(o)' = Latest(o)
  BY <1>1 DEF Untouched, Latest, Published
<1> QED BY <1>1, <1>7, <1>8, <1>9, OthersWhole

\* Moving to the next epoch publishes nothing.
LEMMA MoveWhole ==
  ASSUME IInv, AllWhole, NEW t \in Threads, MoveToNextEpoch(t)
  PROVE  AllWhole' /\ Same
<1> DEFINE fs == frames[t]
           q == finishedQueue[t]
           e == epochFinished[t]
           w == epochToWrite[t]
           f == IF unused[t] = <<>> THEN Len(fs) + 1 ELSE Head(unused[t])
           gs == frames'[t]
<1>1. /\ \A o \in Threads \ {t} : Untouched(o)
      /\ UNCHANGED <<deterministic, finishedQueue, epochFinished, epochToRead>>
  BY DEF IInv, OfThreads, Untouched, MoveToNextEpoch, Go, reader
<1>2. /\ pc[t] = "next" /\ pc'[t] \in {"test", "sample"}
      /\ epochToWrite'[t] = w + 1 /\ rng'[t] = [seed |-> w + 1, drawn |-> 0]
      /\ curFrame'[t] = f
      /\ gs = IF unused[t] = <<>> THEN Append(fs, Frame(w + 1)) ELSE [fs EXCEPT ![f] = Frame(w + 1)]
  BY DEF IInv, OfThreads, MoveToNextEpoch, Go
<1>3. /\ w \in Nat /\ fs \in Seq(Records) /\ Len(fs) \in Nat /\ unused[t] \in Seq(1 .. Len(fs))
      /\ \A i \in 1 .. Len(q) : q[i] \in 1 .. Len(fs) /\ fs[q[i]].epoch \in Nat /\ ~In(q[i], unused[t])
      /\ e # 0 => e \in 1 .. Len(fs) /\ fs[e].epoch \in Nat
      /\ ~In(e, unused[t])
  BY Facts
<1>4. gs[f] = Frame(w + 1) /\ \A x \in 1 .. Len(fs) : ~In(x, unused[t]) => gs[x] = fs[x]
  <2>1. CASE unused[t] = <<>>
    <3>1. gs = Append(fs, Frame(w + 1)) /\ f = Len(fs) + 1
      BY <1>2, <2>1
    <3>2. gs[Len(fs) + 1] = Frame(w + 1) /\ \A x \in 1 .. Len(fs) : gs[x] = fs[x]
      BY <1>3, <3>1, AppendProperties
    <3> QED BY <3>1, <3>2
  <2>2. CASE unused[t] # <<>>
    <3>1. f = unused[t][1] /\ 1 \in 1 .. Len(unused[t]) /\ f \in 1 .. Len(fs)
      <4>1. Len(unused[t]) \in Nat /\ Len(unused[t]) # 0 /\ Head(unused[t]) = unused[t][1]
        BY <1>3, <2>2, EmptySeq, LenProperties
      <4>2. unused[t][1] \in 1 .. Len(fs)
        BY <1>3, <4>1, ElementOfSeq
      <4> QED BY <2>2, <4>1, <4>2
    <3>2. In(f, unused[t])
      BY <3>1 DEF In
    <3>3. gs = [fs EXCEPT ![f] = Frame(w + 1)] /\ DOMAIN fs = 1 .. Len(fs)
      BY <1>2, <1>3, <2>2
    <3> HIDE DEF f
    <3> QED BY <3>1, <3>2, <3>3
  <2> QED BY <2>1, <2>2
<1> HIDE DEF f
<1>5. Kept(t, deterministic, gs, q, e, w + 1, pc'[t])
  <2>1. Kept(t, deterministic, fs, q, e, w, "next")
    BY <1>2 DEF AllWhole, WholeOK
  <2>2. /\ \A i \in 1 .. Len(q) : gs[q[i]] = fs[q[i]] /\ fs[q[i]].epoch \in Nat
        /\ e # 0 => gs[e] = fs[e] /\ fs[e].epoch \in Nat
    BY <1>3, <1>4
  <2> HIDE DEF gs
  <2> QED BY <1>3, <2>1, <2>2, KeptLater
<1>6. Written(t, deterministic, gs[f], w + 1, rng'[t], pc'[t])
  <2>1. /\ gs[f].epoch = w + 1 /\ gs[f].apx = {} /\ gs[f].nPairs = 0
        /\ rng'[t].seed = w + 1 /\ rng'[t].drawn = 0
    <3>1. gs[f].epoch = w + 1 /\ gs[f].apx = {} /\ gs[f].nPairs = 0
      <4> HIDE DEF gs
      <4> QED BY <1>4 DEF Frame
    <3>2. rng'[t].seed = w + 1 /\ rng'[t].drawn = 0
      BY <1>2
    <3> QED BY <3>1, <3>2
  <2>2. Drawn(t, w + 1, 0) = {}
    BY <1>3 DEF Drawn, Paths, Guesses
  <2>3. 0 <= Quota /\ 0 \in Nat /\ 0 = Batch * 0
    BY KadabraAssumption
  <2> QED BY <1>2, <2>1, <2>2, <2>3 DEF Written
<1>7. WholeOK(t)'
  BY <1>1, <1>2, <1>5, <1>6 DEF WholeOK, Asked, Current
<1>8. Same
  <2>1. e # 0 => gs[e] = fs[e]
    BY <1>3, <1>4
  <2> QED BY <1>1, <2>1, OthersSame
<1> QED BY <1>1, <1>7, <1>8, OthersWhole

\* A sample goes into a frame that is not published.
LEMMA SampleWhole ==
  ASSUME IInv, AllWhole, NEW t \in Threads, Sample(t)
  PROVE  AllWhole' /\ Same
<1> DEFINE fs == frames[t]
           q == finishedQueue[t]
           e == epochFinished[t]
           w == epochToWrite[t]
           c == curFrame[t]
           d == rng[t].drawn
           r == Current(t)
           more == PathsAfter(t, rng[t].seed, d, Batch)
<1>1. CASE Go(t, "sample", "test") /\ UNCHANGED <<frames, rng>>
  BY <1>1, OnlyPcWhole DEF Sample, owner, reader
<1>2. CASE /\ Go(t, "sample", "count")
           /\ frames' = [frames EXCEPT ![t][c].apx = fs[c].apx \cup more]
           /\ rng' = [rng EXCEPT ![t].drawn = d + Batch]
  <2>1. /\ \A o \in Threads \ {t} : Untouched(o)
        /\ UNCHANGED <<deterministic, curFrame, finishedQueue, epochToWrite, epochFinished, epochToRead>>
    BY <1>2 DEF IInv, OfThreads, Untouched, Sample, Go, reader
  <2>2. /\ pc[t] = "sample" /\ pc'[t] = "count" /\ frames'[t] = [fs EXCEPT ![c].apx = fs[c].apx \cup more]
        /\ rng'[t] = [rng[t] EXCEPT !.drawn = d + Batch]
    BY <1>2 DEF IInv, OfThreads, Go
  <2>3. /\ w \in Nat /\ fs \in Seq(Records) /\ c \in 1 .. Len(fs) /\ r \in Records /\ rng[t] \in Generators
        /\ d \in Nat
        /\ \A i \in 1 .. Len(q) : q[i] \in 1 .. Len(fs) /\ q[i] # c
        /\ e # 0 => e \in 1 .. Len(fs)
        /\ e # c
    BY <2>2, Facts
  <2>4. /\ frames'[t][c] = [r EXCEPT !.apx = r.apx \cup more]
        /\ \A x \in 1 .. Len(fs) : x # c => frames'[t][x] = fs[x]
    <3>1. DOMAIN fs = 1 .. Len(fs) /\ r = fs[c]
      BY <2>3, LenProperties DEF Current
    <3> QED BY <2>2, <2>3, <3>1
  <2>5. WholeOK(t)
    BY DEF AllWhole
  <2>6. Kept(t, deterministic, frames'[t], q, e, w, "count")
    <3>1. Kept(t, deterministic, fs, q, e, w, "sample")
      BY <2>2, <2>5 DEF WholeOK
    <3>2. (\A i \in 1 .. Len(q) : frames'[t][q[i]] = fs[q[i]]) /\ (e # 0 => frames'[t][e] = fs[e])
      BY <2>3, <2>4
    <3> QED BY <3>1, <3>2, KeptElsewhere
  <2>7. /\ frames'[t][c].epoch = r.epoch /\ frames'[t][c].nPairs = r.nPairs
        /\ frames'[t][c].apx = r.apx \cup more
    BY <2>3, <2>4 DEF Records
  <2>8. rng'[t].drawn = d + Batch /\ rng'[t].seed = rng[t].seed
    BY <2>2, <2>3 DEF Generators
  <2>9. /\ r.epoch = w /\ rng[t].seed = w /\ r.apx = Drawn(t, w, d) /\ d = r.nPairs
        /\ deterministic => r.nPairs <= Quota /\ \E k \in Nat : r.nPairs = Batch * k
    BY <2>2, <2>5 DEF WholeOK, Written
  <2>10. Drawn(t, w, d + Batch) = r.apx \cup more
    <3>1. Batch \in Nat
      BY KadabraAssumption
    <3>2. Paths(t, w, d + Batch) = Paths(t, w, d) \cup more
      <4>1. rng[t].seed = w
        BY <2>9
      <4>2. d \in Nat
        BY <2>3
      <4> HIDE DEF d, w, q, e, c, r, more
      <4>3. Paths(t, w, d + Batch) = Paths(t, w, d) \cup PathsAfter(t, w, d, Batch)
        BY ONLY <3>1, <4>2, MorePaths
      <4> QED BY <4>1, <4>3 DEF more
    <3> QED BY <2>9, <3>2 DEF Drawn
  <2> HIDE DEF more
  <2>11. Written(t, deterministic, frames'[t][c], w, rng'[t], "count")
    BY <2>7, <2>8, <2>9, <2>10 DEF Written
  <2>12. WholeOK(t)'
    BY <2>1, <2>2, <2>6, <2>11 DEF WholeOK, Asked, Current
  <2>13. Same
    <3>1. e # 0 => frames'[t][e] = fs[e]
      BY <2>3, <2>4
    <3> QED BY <2>1, <3>1, OthersSame
  <2> QED BY <2>1, <2>12, <2>13, OthersWhole
<1> QED BY <1>1, <1>2 DEF Sample, Current, PathsAfter

\* A frame that is full is whole, and not published yet.
LEMMA CountWhole ==
  ASSUME IInv, AllWhole, NEW t \in Threads, Count(t)
  PROVE  AllWhole' /\ Same
<1> DEFINE fs == frames[t]
           q == finishedQueue[t]
           e == epochFinished[t]
           w == epochToWrite[t]
           c == curFrame[t]
           r == Current(t)
           full == deterministic /\ r.nPairs + Batch > Quota
<1>1. /\ \A o \in Threads \ {t} : Untouched(o)
      /\ UNCHANGED <<deterministic, curFrame, rng, epochToWrite, epochFinished, epochToRead>>
  BY DEF IInv, OfThreads, Untouched, Count, Go, reader
<1>2. /\ pc[t] = "count" /\ pc'[t] = IF full THEN "next" ELSE "test"
      /\ frames'[t] = [fs EXCEPT ![c].nPairs = fs[c].nPairs + Batch]
      /\ finishedQueue'[t] = IF full THEN Append(q, c) ELSE q
  BY DEF IInv, OfThreads, Count, Go
<1>3. /\ w \in Nat /\ fs \in Seq(Records) /\ c \in 1 .. Len(fs) /\ r \in Records /\ q \in Seq(1 .. Len(fs))
      /\ \A i \in 1 .. Len(q) : q[i] \in 1 .. Len(fs) /\ q[i] # c
      /\ e # 0 => e \in 1 .. Len(fs)
      /\ e # c
  BY <1>2, Facts
<1>4. /\ frames'[t][c] = [r EXCEPT !.nPairs = r.nPairs + Batch]
      /\ \A x \in 1 .. Len(fs) : x # c => frames'[t][x] = fs[x]
  <2>1. DOMAIN fs = 1 .. Len(fs) /\ r = fs[c]
    BY <1>3, LenProperties DEF Current
  <2> QED BY <1>2, <1>3, <2>1
<1>5. /\ frames'[t][c].epoch = r.epoch /\ frames'[t][c].apx = r.apx
      /\ frames'[t][c].nPairs = r.nPairs + Batch
  BY <1>3, <1>4 DEF Records
<1>6. /\ (\A i \in 1 .. Len(q) : frames'[t][q[i]] = fs[q[i]]) /\ (e # 0 => frames'[t][e] = fs[e])
  BY <1>3, <1>4
<1>7. Kept(t, deterministic, fs, q, e, w, "count")
  BY <1>2 DEF AllWhole, WholeOK
<1>8. /\ r.epoch = w /\ rng[t].seed = w /\ r.apx = Drawn(t, w, rng[t].drawn) /\ rng[t].drawn = r.nPairs + Batch
      /\ deterministic => r.nPairs <= Quota /\ \E k \in Nat : r.nPairs = Batch * k
  BY <1>2 DEF AllWhole, WholeOK, Written
<1>9. r.nPairs \in Nat /\ Batch \in Nat /\ Quota \in Nat
  BY <1>3, KadabraAssumption DEF Records
<1>9a. Same
  BY <1>1, <1>6, OthersSame
<1>10. CASE full
  <2>1. deterministic /\ r.nPairs + Batch > Quota /\ pc'[t] = "next" /\ finishedQueue'[t] = Append(q, c)
    BY <1>2, <1>10
  <2>2. frames'[t][c].nPairs = Full
    <3>1. PICK k \in Nat : r.nPairs = Batch * k
      BY <1>8, <2>1
    <3>2. Batch * k <= Quota /\ Batch * k + Batch > Quota
      BY <1>8, <2>1, <3>1
    <3> QED BY <1>5, <3>1, <3>2, FullCount
  <2>3. Whole(t, deterministic, frames'[t][c]) /\ frames'[t][c].epoch = w
    BY <1>5, <1>8, <2>2 DEF Whole
  <2>4. Kept(t, deterministic, frames'[t], Append(q, c), e, w, "next")
    BY <1>3, <1>6, <1>7, <2>3, KeptQueued
  <2>5. WholeOK(t)'
    BY <1>1, <2>1, <2>4 DEF WholeOK, Asked, Written
  <2> QED BY <1>1, <1>9a, <2>5, OthersWhole
<1>11. CASE ~full
  <2>1. pc'[t] = "test" /\ finishedQueue'[t] = q
    BY <1>2, <1>11
  <2>2. Kept(t, deterministic, frames'[t], q, e, w, "test")
    BY <1>6, <1>7, KeptElsewhere
  <2>3. deterministic => r.nPairs + Batch <= Quota /\ \E k \in Nat : r.nPairs + Batch = Batch * k
    <3> SUFFICES ASSUME deterministic
                 PROVE  r.nPairs + Batch <= Quota /\ \E k \in Nat : r.nPairs + Batch = Batch * k
      OBVIOUS
    <3>1. r.nPairs + Batch <= Quota
      BY <1>9, <1>11
    <3>2. PICK k \in Nat : r.nPairs = Batch * k
      BY <1>8
    <3>3. r.nPairs + Batch = Batch * (k + 1) /\ k + 1 \in Nat
      BY <1>9, <3>2
    <3> QED BY <3>1, <3>3
  <2>4. Written(t, deterministic, frames'[t][c], w, rng[t], "test")
    BY <1>5, <1>8, <2>3 DEF Written
  <2>5. WholeOK(t)'
    BY <1>1, <2>1, <2>2, <2>4 DEF WholeOK, Asked, Current
  <2> QED BY <1>1, <1>9a, <2>5, OthersWhole
<1> QED BY <1>10, <1>11

-----------------------------------------------------------------------------
\* The reader's side.
LEMMA PathsCount ==
  ASSUME NEW t, NEW epoch, NEW n \in Nat
  PROVE  IsFiniteSet(Paths(t, epoch, n)) /\ Cardinality(Paths(t, epoch, n)) = n
<1> DEFINE f == [k \in 1 .. n |-> <<t, epoch, k>>]
<1>1. IsFiniteSet(1 .. n) /\ Cardinality(1 .. n) = n
  BY FS_Interval
<1>2. f \in [1 .. n -> Paths(t, epoch, n)]
  BY DEF Paths
<1>3. \A j, k \in 1 .. n : f[j] = f[k] => j = k
  OBVIOUS
<1>4. \A s \in Paths(t, epoch, n) : \E k \in 1 .. n : f[k] = s
  BY DEF Paths
<1>5. f \in Bijection(1 .. n, Paths(t, epoch, n))
  BY <1>2, <1>3, <1>4, Fun_IsBij
<1>6. ExistsBijection(1 .. n, Paths(t, epoch, n))
  BY <1>5 DEF ExistsBijection
<1> QED BY <1>1, <1>6, FS_Bijection

\* How many samples an epoch has.
LEMMA DrawnCount ==
  ASSUME NEW t, NEW epoch \in Nat, NEW n \in Nat
  PROVE  /\ IsFiniteSet(Drawn(t, epoch, n))
         /\ Cardinality(Drawn(t, epoch, n)) = n + IF epoch = 0 THEN 1 ELSE 0
<1> DEFINE P == Paths(t, epoch, n)
<1>1. IsFiniteSet(P) /\ Cardinality(P) = n
  BY PathsCount
<1>2. Guess(t) \notin P
  BY DEF Guess, Paths
<1> HIDE DEF P
<1>3. IsFiniteSet(P \cup {Guess(t)}) /\ Cardinality(P \cup {Guess(t)}) = n + 1
  BY <1>1, <1>2, FS_AddElement
<1>4. Drawn(t, epoch, n) = IF epoch = 0 THEN P \cup {Guess(t)} ELSE P
  BY DEF Drawn, Guesses, P
<1> QED BY <1>1, <1>3, <1>4

\* The samples of a frame are of its thread and epoch, from the first on.
LEMMA DrawnShape ==
  ASSUME NEW t \in Threads, NEW epoch \in Nat, NEW n \in Nat, NEW s \in Drawn(t, epoch, n)
  PROVE  /\ s \in Threads \X Int \X Int /\ s[1] = t /\ EpochOf(s) = epoch /\ s[2] >= -1
         /\ s[3] > 1 => <<s[1], s[2], s[3] - 1>> \in Drawn(t, epoch, n)
<1>1. CASE s \in Paths(t, epoch, n)
  <2>1. PICK k \in 1 .. n : s = <<t, epoch, k>>
    BY <1>1 DEF Paths
  <2>2. epoch # -1 /\ epoch >= -1 /\ k \in Int
    OBVIOUS
  <2>3. k > 1 => k - 1 \in 1 .. n
    OBVIOUS
  <2>4. s[3] > 1 => <<s[1], s[2], s[3] - 1>> \in Drawn(t, epoch, n)
    BY <2>1, <2>3 DEF Drawn, Paths
  <2> QED BY <2>1, <2>2, <2>4 DEF EpochOf
<1>2. CASE s \in Guesses(t, epoch)
  <2>1. s = <<t, -1, 1>> /\ epoch = 0
    BY <1>2 DEF Guesses, Guess
  <2> QED BY <2>1 DEF EpochOf
<1> QED BY <1>1, <1>2 DEF Drawn

\* Two bags of single elements.
LEMMA BagsJoined ==
  ASSUME NEW S, NEW T, S \cap T = {}
  PROVE  DOMAIN (SetToBag(S) (+) SetToBag(T)) = S \cup T /\ SetToBag(S) (+) SetToBag(T) = SetToBag(S \cup T)
  BY DEF SetToBag, (+)

Constants ==
  /\ Workers \in Nat /\ Workers > 0 /\ 0 \in Threads
  /\ \A t \in Threads : t \in Int /\ 0 <= t /\ t < Workers
  /\ \A t \in 0 .. Workers : t # Workers => t \in Threads

\* The constants are as the lemmas about them assume.
LEMMA ConstantsOK == Constants
  BY KadabraAssumption DEF Constants, Threads

\* Who is about to publish has not published for the epoch the reader waits
\* for.
LEMMA BeforePublish ==
  ASSUME IInv, AllWhole, ReaderOK, NEW t \in Threads, pc[t] = "publish"
  PROVE  Latest(t) < epochToRead
<1> DEFINE fs == frames[t]
           q == finishedQueue[t]
           e == epochFinished[t]
           w == epochToWrite[t]
<1>1. /\ w \in Nat /\ (deterministic => q # <<>>) /\ q \in Seq(1 .. Len(fs)) /\ Len(q) \in Nat
      /\ \A i \in 1 .. Len(q) : fs[q[i]].epoch \in Nat
      /\ e # 0 => fs[e].epoch \in Nat
  BY Facts
<1>2. WholeOK(t)
  BY DEF AllWhole
<1>3. CASE deterministic
  <2>1. 1 \in 1 .. Len(q)
    <3>1. Len(q) # 0
      BY <1>1, <1>3, EmptySeq
    <3> QED BY <1>1, <3>1
  <2>2. fs[q[1]].epoch = epochToRead
    BY <1>2, <1>3 DEF WholeOK, Asked
  <2>3. fs[q[1]].epoch \in Nat
    BY <1>1, <2>1
  <2>4. e # 0 => fs[e].epoch < fs[q[1]].epoch
    BY <1>2, <2>1 DEF WholeOK, Kept
  <2> QED BY <2>2, <2>3, <2>4 DEF Latest, Published
<1>4. CASE ~deterministic
  <2>1. w = epochToRead
    BY <1>2, <1>4 DEF WholeOK, Asked
  <2>2. e # 0 => fs[e].epoch < w
    BY <1>2 DEF WholeOK, Kept
  <2> QED BY <1>1, <2>1, <2>2 DEF Latest, Published
<1> QED BY <1>3, <1>4

\* The latest epoch published is that of the published frame, if there is
\* one.
LEMMA LatestType ==
  ASSUME IInv, NEW t \in Threads
  PROVE  Latest(t) \in Int /\ (Latest(t) >= 0 => epochFinished[t] # 0 /\ Published(t) \in Records /\ Latest(t) = Published(t).epoch)
<1>1. CASE epochFinished[t] = 0
  BY <1>1 DEF Latest
<1>2. CASE epochFinished[t] # 0
  <2>1. epochFinished[t] \in 1 .. Len(frames[t]) /\ frames[t] \in Seq(Records)
    BY <1>2, Facts
  <2>2. Published(t) \in Records
    BY <2>1, ElementOfSeq DEF Published
  <2>3. Published(t).epoch \in Nat
    BY <2>2 DEF Records
  <2> QED BY <1>2, <2>2, <2>3 DEF Latest
<1> QED BY <1>1, <1>2

\* The invariant of the reader does not see what the threads do meanwhile.
LEMMA SumUnmoved ==
  ASSUME SumOK, UNCHANGED <<deterministic, approxSum, nPairs>>,
         \A t \in Threads : \A epoch \in Int : AddedUp(t, epoch)' <=> AddedUp(t, epoch),
         GuessesAdded' = GuessesAdded
  PROVE  SumOK'
<1> DEFINE all == DOMAIN approxSum
<1>1. /\ approxSum = SetToBag(all)
      /\ IsFiniteSet(all) /\ Cardinality(all) = nPairs + GuessesAdded
      /\ \A s \in all : /\ s \in Threads \X Int \X Int /\ s[2] >= -1 /\ AddedUp(s[1], EpochOf(s))
                        /\ s[3] > 1 => <<s[1], s[2], s[3] - 1>> \in all
      /\ deterministic => \A t \in Threads, epoch \in Nat :
           AddedUp(t, epoch) => {s \in all : s[1] = t /\ s[2] = epoch} = Paths(t, epoch, Full)
  BY DEF SumOK
<1>2. \A s \in all : s[1] \in Threads /\ EpochOf(s) \in Int
  <2>1. \A s \in Threads \X Int \X Int : s[1] \in Threads /\ s[2] \in Int
    OBVIOUS
  <2>2. \A s \in all : s[1] \in Threads /\ s[2] \in Int
    BY <1>1, <2>1
  <2> QED BY <2>2 DEF EpochOf
<1>3. \A s \in all : AddedUp(s[1], EpochOf(s))'
  BY <1>1, <1>2
<1>4. deterministic => \A t \in Threads, epoch \in Nat :
           AddedUp(t, epoch)' => {s \in all : s[1] = t /\ s[2] = epoch} = Paths(t, epoch, Full)
  BY <1>1
<1> QED BY <1>1, <1>3, <1>4 DEF SumOK

\* A step of a sampler leaves the reader's sum as it was.
LEMMA SamplerSums ==
  ASSUME IInv, ReaderOK, SumOK, NEW t \in Threads,
         UNCHANGED <<deterministic, epochToRead, epochRead, approxSum, nPairs, next>>,
         \A o \in Threads : Latest(o)' \in {Latest(o), epochToRead},
         NEW from, NEW to, Go(t, from, to), from \notin {"check", "sum"}, to \notin {"check", "sum"}
  PROVE  ReaderOK' /\ SumOK'
<1>1. (pc'[0] = "check" <=> pc[0] = "check") /\ (pc'[0] = "sum" <=> pc[0] = "sum")
  BY ConstantsOK DEF Constants, IInv, OfThreads, Go
<1>2. ReaderOK'
  <2>1. /\ epochRead \in Int /\ epochRead >= -1 /\ epochToRead \in {epochRead, epochRead + 1}
        /\ nPairs \in Nat /\ next \in 0 .. Workers
    BY DEF ReaderOK
  <2>2. \A o \in Threads : Latest(o)' >= epochRead
    BY <2>1 DEF ReaderOK
  <2>3. pc[0] = "check" => epochToRead = epochRead + 1 /\ \A o \in Threads : o < next => Latest(o)' = epochToRead
    BY DEF ReaderOK
  <2>4. pc[0] = "sum" => epochToRead = epochRead + 1 /\ \A o \in Threads : Latest(o)' = epochToRead
    BY DEF ReaderOK
  <2> QED BY <1>1, <2>1, <2>2, <2>3, <2>4 DEF ReaderOK
<1>3. \A o \in Threads : \A epoch \in Int : AddedUp(o, epoch)' <=> AddedUp(o, epoch)
  BY <1>1 DEF AddedUp
<1>4. GuessesAdded' = GuessesAdded
  BY <1>1 DEF GuessesAdded
<1> QED BY <1>2, <1>3, <1>4, SumUnmoved

\* Asking for the next epoch: what is published belongs to the one before.
LEMMA AskSums ==
  ASSUME IInv, AllWhole, ReaderOK, SumOK, Ask
  PROVE  AllWhole' /\ ReaderOK' /\ SumOK'
<1>1. /\ UNCHANGED <<deterministic, owner, epochFinished, epochRead, stop, approxSum, nPairs>>
      /\ epochToRead' = IF epochToRead = epochRead THEN epochRead + 1 ELSE epochToRead
      /\ next' = 0 /\ pc[0] = "ask" /\ pc'[0] = "check" /\ \A t \in Threads : t # 0 => pc'[t] = pc[t]
  BY ConstantsOK DEF Constants, Ask, Go, IInv, OfThreads
<1>2. epochRead \in Int /\ epochRead >= -1 /\ epochToRead \in {epochRead, epochRead + 1} /\ nPairs \in Nat
      /\ \A t \in Threads : Latest(t) >= epochRead
  BY DEF ReaderOK
<1>3. epochToRead' = epochRead + 1
  BY <1>1, <1>2
<1>4. \A t \in Threads : Latest(t)' = Latest(t)
  BY <1>1 DEF Latest, Published, owner
<1>5. AllWhole'
  <2>1. ASSUME NEW t \in Threads
        PROVE  WholeOK(t)'
    <3>1. WholeOK(t)
      BY DEF AllWhole
    <3>2. CASE t = 0
      <4>1. pc[t] = "ask" /\ pc'[t] = "check"
        BY <1>1, <3>2
      <4>2. Kept(t, deterministic, frames[t], finishedQueue[t], epochFinished[t], epochToWrite[t], "check")
        BY <3>1, <4>1, KeptElsewhere DEF WholeOK
      <4> QED BY <1>1, <3>1, <4>1, <4>2 DEF WholeOK, Written, Asked, Current, owner
    <3>3. CASE t # 0 /\ pc[t] # "publish"
      BY <1>1, <3>1, <3>3 DEF WholeOK, Asked, Current, owner
    <3>4. CASE t # 0 /\ pc[t] = "publish"
      <4>1. Latest(t) < epochToRead /\ Latest(t) >= epochRead /\ Latest(t) \in Int
        BY <1>2, <3>4, BeforePublish, LatestType
      <4>2. epochToRead' = epochToRead
        BY <1>1, <1>2, <4>1
      <4> QED BY <1>1, <3>1, <3>4, <4>2 DEF WholeOK, Current, owner
    <3> QED BY <3>2, <3>3, <3>4
  <2> QED BY <2>1 DEF AllWhole
<1>6. ReaderOK'
  <2>1. 0 \in 0 .. Workers /\ \A t \in Threads : ~(t < 0)
    BY ConstantsOK DEF Constants
  <2> QED BY <1>1, <1>2, <1>3, <1>4, <2>1 DEF ReaderOK
<1>7. \A t \in Threads : \A epoch \in Int : AddedUp(t, epoch)' <=> AddedUp(t, epoch)
  BY <1>1 DEF AddedUp
<1>8. GuessesAdded' = GuessesAdded
  BY <1>1 DEF GuessesAdded
<1> QED BY <1>1, <1>5, <1>6, <1>7, <1>8, SumUnmoved

\* A check of one thread passes only if it has published for the epoch asked
\* for.
LEMMA CheckSums ==
  ASSUME IInv, AllWhole, ReaderOK, SumOK, Check
  PROVE  AllWhole' /\ ReaderOK' /\ SumOK'
<1>1. /\ UNCHANGED <<deterministic, owner, epochFinished, epochToRead, epochRead, stop, approxSum, nPairs>>
      /\ pc[0] = "check" /\ \A t \in Threads : t # 0 => pc'[t] = pc[t]
      /\ \/ next = Workers /\ pc'[0] = "sum" /\ next' = 0
         \/ next # Workers /\ Finished(next) /\ pc'[0] = "check" /\ next' = next + 1
         \/ pc'[0] = "load" /\ next' = next
  BY ConstantsOK DEF Constants, Check, Go, IInv, OfThreads
<1>2. epochRead \in Int /\ epochRead >= -1 /\ epochToRead = epochRead + 1 /\ nPairs \in Nat /\ next \in 0 .. Workers
      /\ (\A t \in Threads : Latest(t) >= epochRead) /\ \A t \in Threads : t < next => Latest(t) = epochToRead
  BY <1>1 DEF ReaderOK
<1>3. AllWhole' /\ Same
  <2>1. CASE Go(0, "check", "sum")
    BY <1>1, <2>1, ConstantsOK, OnlyPcWhole DEF Constants
  <2>2. CASE Go(0, "check", "check")
    BY <1>1, <2>2, ConstantsOK, OnlyPcWhole DEF Constants
  <2>3. CASE Go(0, "check", "load")
    BY <1>1, <2>3, ConstantsOK, OnlyPcWhole DEF Constants
  <2> QED BY <2>1, <2>2, <2>3 DEF Check
<1>4. \A t \in Threads : Latest(t)' = Latest(t)
  BY <1>3 DEF Same
<1>5. ReaderOK'
  <2>1. CASE next = Workers /\ pc'[0] = "sum" /\ next' = 0
    <3>1. 0 \in 0 .. Workers /\ \A t \in Threads : Latest(t) = epochToRead
      BY <1>2, <2>1, ConstantsOK DEF Constants
    <3> QED BY <1>1, <1>2, <1>4, <2>1, <3>1 DEF ReaderOK
  <2>2. CASE next # Workers /\ Finished(next) /\ pc'[0] = "check" /\ next' = next + 1
    <3>1. next + 1 \in 0 .. Workers /\ Latest(next) = epochToRead
      BY <1>2, <2>2, ConstantsOK DEF Constants, Finished, Latest
    <3>2. \A t \in Threads : t < next + 1 => Latest(t) = epochToRead
      <4>1. \A t \in Threads : t < next + 1 => t < next \/ t = next
        BY <1>2, ConstantsOK DEF Constants
      <4> QED BY <1>2, <3>1, <4>1
    <3> QED BY <1>1, <1>2, <1>4, <2>2, <3>1, <3>2 DEF ReaderOK
  <2>3. CASE pc'[0] = "load" /\ next' = next
    BY <1>1, <1>2, <1>4, <2>3 DEF ReaderOK
  <2> QED BY <1>1, <2>1, <2>2, <2>3
<1>6. \A t \in Threads : \A epoch \in Int : AddedUp(t, epoch)' <=> AddedUp(t, epoch)
  <2>1. \A t \in Threads : ~(t < 0)
    BY ConstantsOK DEF Constants
  <2> QED BY <1>1, <2>1 DEF AddedUp
<1>7. GuessesAdded' = GuessesAdded
  BY <1>1 DEF GuessesAdded
<1> QED BY <1>1, <1>3, <1>5, <1>6, <1>7, SumUnmoved

\* Deciding whether to stop uses the sum and changes no frame.
LEMMA DecideSums ==
  ASSUME IInv, AllWhole, ReaderOK, SumOK, Decide
  PROVE  AllWhole' /\ ReaderOK' /\ SumOK'
<1>1. /\ UNCHANGED <<deterministic, owner, epochFinished, epochToRead, approxSum, nPairs>>
      /\ next = Workers /\ next' = 0 /\ epochRead' = epochToRead /\ Go(0, "sum", "load")
      /\ pc[0] = "sum" /\ pc'[0] = "load"
  BY ConstantsOK DEF Constants, Decide, Go, IInv, OfThreads
<1>2. epochRead \in Int /\ epochRead >= -1 /\ epochToRead = epochRead + 1 /\ nPairs \in Nat
      /\ \A t \in Threads : Latest(t) = epochToRead
  BY <1>1 DEF ReaderOK
<1>3. AllWhole' /\ Same
  BY <1>1, ConstantsOK, OnlyPcWhole DEF Constants
<1>4. ReaderOK'
  <2>1. 0 \in 0 .. Workers /\ epochToRead \in Int /\ epochToRead >= -1 /\ epochToRead <= epochToRead
    BY <1>2, ConstantsOK DEF Constants
  <2> QED BY <1>1, <1>2, <1>3, <2>1 DEF ReaderOK, Same
<1>5. \A t \in Threads : \A epoch \in Int : AddedUp(t, epoch)' <=> AddedUp(t, epoch)
  <2>1. \A t \in Threads : t < next
    BY <1>1, ConstantsOK DEF Constants
  <2>2. \A epoch \in Int : epoch <= epochRead + 1 <=> epoch <= epochRead \/ epoch = epochRead + 1
    BY <1>2
  <2> QED BY <1>1, <1>2, <2>1, <2>2 DEF AddedUp
<1>6. GuessesAdded' = GuessesAdded
  BY <1>1, <1>2 DEF GuessesAdded
<1> QED BY <1>1, <1>3, <1>4, <1>5, <1>6, SumUnmoved

\* Adding up the published frames counts every sample of the epoch once.
LEMMA SumSums ==
  ASSUME IInv, AllWhole, ReaderOK, SumOK, Sum
  PROVE  AllWhole' /\ ReaderOK' /\ SumOK'
<1> DEFINE all == DOMAIN approxSum
           r == Published(next)
           new == r.apx
           E == epochRead + 1
<1>1. /\ UNCHANGED <<deterministic, owner, epochFinished, epochToRead, epochRead, stop>>
      /\ next < Workers /\ next' = next + 1 /\ Go(0, "sum", "sum") /\ pc[0] = "sum" /\ pc'[0] = "sum"
      /\ approxSum' = approxSum (+) SetToBag(new) /\ nPairs' = nPairs + r.nPairs
  BY ConstantsOK DEF Constants, Sum, Go, IInv, OfThreads
<1>2. /\ epochRead \in Int /\ epochRead >= -1 /\ epochToRead = E /\ nPairs \in Nat /\ next \in 0 .. Workers
      /\ \A t \in Threads : Latest(t) = E
  BY <1>1 DEF ReaderOK
<1>3. E \in Nat /\ next \in Threads /\ next \in Int /\ E # -1
  BY <1>1, <1>2, ConstantsOK DEF Constants
<1>4. AllWhole' /\ Same
  BY <1>1, ConstantsOK, OnlyPcWhole DEF Constants
<1>5. r \in Records /\ r.epoch = E /\ r.nPairs \in Nat /\ epochFinished[next] # 0
  <2>1. Latest(next) = E /\ Latest(next) >= 0
    BY <1>2, <1>3
  <2>2. r \in Records /\ r.epoch = E /\ epochFinished[next] # 0
    BY <1>3, <2>1, LatestType
  <2> QED BY <2>2 DEF Records
<1>6. new = Drawn(next, E, r.nPairs) /\ (deterministic => r.nPairs = Full)
  <2>1. WholeOK(next)
    BY <1>3 DEF AllWhole
  <2> QED BY <1>5, <2>1 DEF WholeOK, Kept, Whole, Published
<1>7. /\ approxSum = SetToBag(all)
      /\ IsFiniteSet(all) /\ Cardinality(all) = nPairs + GuessesAdded
      /\ \A s \in all : /\ s \in Threads \X Int \X Int /\ s[2] >= -1 /\ AddedUp(s[1], EpochOf(s))
                        /\ s[3] > 1 => <<s[1], s[2], s[3] - 1>> \in all
      /\ deterministic => \A t \in Threads, epoch \in Nat :
           AddedUp(t, epoch) => {s \in all : s[1] = t /\ s[2] = epoch} = Paths(t, epoch, Full)
  BY DEF SumOK
<1>8. ASSUME NEW s \in new
      PROVE  /\ s \in Threads \X Int \X Int /\ s[1] = next /\ EpochOf(s) = E /\ s[2] >= -1
             /\ s[3] > 1 => <<s[1], s[2], s[3] - 1>> \in new
  <2> DEFINE n == r.nPairs
  <2>1. s \in Drawn(next, E, n) /\ n \in Nat
    BY <1>5, <1>6
  <2> HIDE DEF n, E
  <2>2. /\ s \in Threads \X Int \X Int /\ s[1] = next /\ EpochOf(s) = E /\ s[2] >= -1
        /\ s[3] > 1 => <<s[1], s[2], s[3] - 1>> \in Drawn(next, E, n)
    BY <1>3, <2>1, DrawnShape
  <2>3. new = Drawn(next, E, n)
    BY <1>6 DEF n
  <2> HIDE DEF new
  <2> QED BY <2>2, <2>3
<1>9. IsFiniteSet(new) /\ Cardinality(new) = r.nPairs + IF E = 0 THEN 1 ELSE 0
  BY <1>3, <1>5, <1>6, DrawnCount
<1>10. ~AddedUp(next, E)
  BY <1>2, <1>3 DEF AddedUp
<1> HIDE DEF all, new, r
<1>11. all \cap new = {}
  BY <1>7, <1>8, <1>10
<1>12. approxSum' = SetToBag(all \cup new) /\ DOMAIN approxSum' = all \cup new
  BY <1>1, <1>7, <1>11, BagsJoined DEF all
<1>13. \A t \in Threads : \A epoch \in Int :
         AddedUp(t, epoch)' <=> AddedUp(t, epoch) \/ (t = next /\ epoch = E)
  <2>1. \A t \in Threads : t < next + 1 <=> t < next \/ t = next
    BY <1>3, ConstantsOK DEF Constants
  <2> QED BY <1>1, <2>1 DEF AddedUp
<1>14. ReaderOK'
  <2>1. next + 1 \in 0 .. Workers /\ nPairs + r.nPairs \in Nat
    BY <1>1, <1>2, <1>3, <1>5, ConstantsOK DEF Constants
  <2>2. \A t \in Threads : Latest(t)' = E
    BY <1>2, <1>4 DEF Same
  <2>3. E >= epochRead
    BY <1>2
  <2> QED BY <1>1, <1>2, <2>1, <2>2, <2>3 DEF ReaderOK
<1>15. IsFiniteSet(all \cup new) /\ Cardinality(all \cup new) = nPairs' + GuessesAdded'
  <2>1. /\ IsFiniteSet(all \cup new)
        /\ Cardinality(all \cup new) = Cardinality(all) + Cardinality(new) - Cardinality(all \cap new)
    BY <1>7, <1>9, FS_Union
  <2>2. Cardinality(all \cap new) = 0
    BY <1>11, FS_EmptySet
  <2>3. /\ epochRead >= 0 => E # 0 /\ GuessesAdded = Workers /\ GuessesAdded' = Workers
        /\ epochRead = -1 => E = 0 /\ GuessesAdded = next /\ GuessesAdded' = next + 1
    BY <1>1, <1>2 DEF GuessesAdded
  <2>4. epochRead >= 0 \/ epochRead = -1
    BY <1>2
  <2>5. Workers \in Int
    BY ConstantsOK DEF Constants
  <2> HIDE DEF E
  <2> QED BY <1>1, <1>2, <1>3, <1>5, <1>7, <1>9, <2>1, <2>2, <2>3, <2>4, <2>5
<1>16. ASSUME NEW s \in all \cup new
       PROVE  /\ s \in Threads \X Int \X Int /\ s[2] >= -1 /\ AddedUp(s[1], EpochOf(s))'
              /\ s[3] > 1 => <<s[1], s[2], s[3] - 1>> \in all \cup new
  <2>1. \A z \in Threads \X Int \X Int : z[1] \in Threads /\ z[2] \in Int
    OBVIOUS
  <2>2. s \in Threads \X Int \X Int
    BY <1>7, <1>8
  <2>3. s[1] \in Threads /\ EpochOf(s) \in Int
    BY <2>1, <2>2 DEF EpochOf
  <2>4. AddedUp(s[1], EpochOf(s)) \/ (s[1] = next /\ EpochOf(s) = E)
    BY <1>7, <1>8
  <2>5. AddedUp(s[1], EpochOf(s))'
    BY <1>13, <2>3, <2>4
  <2>6. s[2] >= -1
    BY <1>7, <1>8
  <2>7. s[3] > 1 => <<s[1], s[2], s[3] - 1>> \in all \cup new
    BY <1>7, <1>8
  <2> QED BY <2>2, <2>5, <2>6, <2>7
<1>17. ASSUME deterministic, NEW t \in Threads, NEW epoch \in Nat, AddedUp(t, epoch)'
       PROVE  {s \in all \cup new : s[1] = t /\ s[2] = epoch} = Paths(t, epoch, Full)
  <2>1. AddedUp(t, epoch) \/ (t = next /\ epoch = E)
    BY <1>13, <1>17
  <2>2. epoch # -1 /\ \A s : s[2] = epoch => EpochOf(s) = epoch
    BY DEF EpochOf
  <2>3. CASE AddedUp(t, epoch)
    <3>1. ~(t = next /\ epoch = E)
      BY <1>10, <2>3
    <3>2. \A s \in new : ~(s[1] = t /\ s[2] = epoch)
      BY <1>8, <2>2, <3>1
    <3>3. {s \in all \cup new : s[1] = t /\ s[2] = epoch} = {s \in all : s[1] = t /\ s[2] = epoch}
      BY <3>2
    <3> QED BY <1>7, <1>17, <2>3, <3>3
  <2>4. CASE t = next /\ epoch = E
    <3>1. \A s \in all : ~(s[1] = t /\ s[2] = epoch)
      BY <1>7, <1>10, <2>2, <2>4
    <3>2. new = Paths(t, epoch, Full) \cup Guesses(t, epoch)
      BY <1>6, <1>17, <2>4 DEF Drawn
    <3>3. \A s \in Paths(t, epoch, Full) : s[1] = t /\ s[2] = epoch
      BY DEF Paths
    <3>4. \A s \in Guesses(t, epoch) : s[2] # epoch
      BY <2>2 DEF Guesses, Guess
    <3> QED BY <3>1, <3>2, <3>3, <3>4
  <2> QED BY <2>1, <2>3, <2>4
<1>18. SumOK'
  BY <1>1, <1>12, <1>15, <1>16, <1>17 DEF SumOK
<1> QED BY <1>4, <1>14, <1>18

SInv == IInv /\ AllWhole /\ ReaderOK /\ SumOK

\* At first nothing is summed.
LEMMA SInvInit == Init => SInv
<1> SUFFICES ASSUME Init PROVE SInv
  OBVIOUS
<1>1. IInv
  BY InitKeeps
<1>2. ASSUME NEW t \in Threads
      PROVE  WholeOK(t) /\ Latest(t) = -1
  <2> DEFINE first == [Frame(0) EXCEPT !.apx = {Guess(t)}]
  <2>1. /\ frames[t] = <<first>> /\ unused[t] = <<>> /\ finishedQueue[t] = <<>> /\ epochFinished[t] = 0
        /\ curFrame[t] = 1 /\ pc[t] = "test" /\ epochToWrite[t] = 0 /\ rng[t] = [seed |-> 0, drawn |-> 0]
    BY DEF Init
  <2>2. Current(t) = first
    BY <2>1 DEF Current
  <2>3. first.epoch = 0 /\ first.apx = {Guess(t)} /\ first.nPairs = 0
    BY DEF Frame
  <2> HIDE DEF first
  <2>4. rng[t].seed = 0 /\ rng[t].drawn = 0
    BY <2>1
  <2>5. Drawn(t, 0, 0) = {Guess(t)}
    BY DEF Drawn, Paths, Guesses
  <2>6. 0 <= Quota /\ 0 \in Nat /\ 0 = Batch * 0
    BY KadabraAssumption
  <2>7. Written(t, deterministic, Current(t), 0, rng[t], "test")
    BY <2>2, <2>3, <2>4, <2>5, <2>6 DEF Written
  <2>8. Len(finishedQueue[t]) = 0
    BY <2>1
  <2>9. Kept(t, deterministic, frames[t], finishedQueue[t], 0, 0, "test")
    BY <2>8 DEF Kept
  <2> QED BY <2>1, <2>7, <2>9 DEF WholeOK, Asked, Latest
<1>3. pc[0] = "test" /\ epochRead = -1 /\ epochToRead = -1 /\ nPairs = 0 /\ next = 0 /\ approxSum = EmptyBag
  BY ConstantsOK DEF Constants, Init
<1>4. ReaderOK
  <2>1. 0 \in 0 .. Workers
    BY ConstantsOK DEF Constants
  <2> QED BY <1>2, <1>3, <2>1 DEF ReaderOK
<1>5. SumOK
  <2>1. approxSum = SetToBag(DOMAIN approxSum) /\ DOMAIN approxSum = {}
    BY <1>3 DEF EmptyBag, SetToBag
  <2>2. IsFiniteSet({}) /\ Cardinality({}) = 0 /\ GuessesAdded = 0
    BY <1>3, FS_EmptySet DEF GuessesAdded
  <2>3. \A t \in Threads, epoch \in Nat : ~AddedUp(t, epoch)
    BY <1>3 DEF AddedUp
  <2> QED BY <1>3, <2>1, <2>2, <2>3 DEF SumOK
<1> QED BY <1>1, <1>2, <1>4, <1>5 DEF SInv, AllWhole

\* SInv is inductive.
LEMMA SInvNext == SInv /\ [Next]_vars => SInv'
<1> SUFFICES ASSUME SInv, [Next]_vars PROVE SInv'
  OBVIOUS
<1>1. IInv' /\ IInv /\ AllWhole /\ ReaderOK /\ SumOK
  BY StepKeeps DEF SInv
<1>2. CASE UNCHANGED vars
  <2>1. AllWhole'
    BY <1>1, <1>2 DEF vars, owner, reader, AllWhole, WholeOK, Current
  <2>2. ReaderOK'
    BY <1>1, <1>2 DEF vars, owner, reader, ReaderOK, Latest, Published
  <2>3. SumOK'
    BY <1>1, <1>2 DEF vars, owner, reader, SumOK, AddedUp, GuessesAdded
  <2> QED BY <1>1, <2>1, <2>2, <2>3 DEF SInv
<1>3. ASSUME NEW t \in Threads, UNCHANGED <<deterministic, epochToRead, epochRead, approxSum, nPairs, next>>, AllWhole',
             \A o \in Threads : Latest(o)' \in {Latest(o), epochToRead},
             NEW from, NEW to, Go(t, from, to), from \notin {"check", "sum"}, to \notin {"check", "sum"}
      PROVE  SInv'
  BY <1>1, <1>3, SamplerSums DEF SInv
<1>4. ASSUME NEW t \in Threads, Test(t) \/ Load(t) \/ Leave(t) PROVE SInv'
  <2>1. UNCHANGED <<deterministic, owner, reader, epochFinished>>
    BY <1>4 DEF Test, Load, Leave
  <2>2. PICK from, to : /\ Go(t, from, to) /\ from \notin {"check", "sum", "next", "count"}
                        /\ to \notin {"check", "sum", "next", "count"} /\ (to = "publish" => Due(t))
    <3>1. CASE Test(t)
      BY <3>1 DEF Test
    <3>2. CASE Load(t)
      BY <3>2 DEF Load
    <3>3. CASE Leave(t)
      BY <3>3 DEF Leave
    <3> QED BY <1>4, <3>1, <3>2, <3>3
  <2>3. AllWhole' /\ Same
    BY <1>1, <2>1, <2>2, OnlyPcWhole DEF reader
  <2>4. UNCHANGED <<deterministic, epochToRead, epochRead, approxSum, nPairs, next>>
    BY <2>1 DEF reader
  <2> QED BY <1>3, <2>2, <2>3, <2>4 DEF Same
<1>5. ASSUME NEW t \in Threads, Publish(t) PROVE SInv'
  <2>1. UNCHANGED <<deterministic, epochToRead, epochRead, approxSum, nPairs, next>>
    BY <1>5 DEF Publish, reader
  <2>2. Go(t, "publish", IF deterministic THEN "sample" ELSE "next")
    BY <1>5 DEF Publish
  <2>3. AllWhole' /\ \A o \in Threads : Latest(o)' \in {Latest(o), epochToRead}
    BY <1>1, <1>5, PublishWhole
  <2> QED BY <1>3, <2>1, <2>2, <2>3
<1>6. ASSUME NEW t \in Threads, MoveToNextEpoch(t) PROVE SInv'
  <2>1. UNCHANGED <<deterministic, epochToRead, epochRead, approxSum, nPairs, next>>
    BY <1>6 DEF MoveToNextEpoch, reader
  <2>2. Go(t, "next", IF deterministic THEN "test" ELSE "sample")
    BY <1>6 DEF MoveToNextEpoch
  <2>3. AllWhole' /\ Same
    BY <1>1, <1>6, MoveWhole
  <2> QED BY <1>3, <2>1, <2>2, <2>3 DEF Same
<1>7. ASSUME NEW t \in Threads, Sample(t) PROVE SInv'
  <2>1. UNCHANGED <<deterministic, epochToRead, epochRead, approxSum, nPairs, next>>
    BY <1>7 DEF Sample, reader
  <2>2. Go(t, "sample", "test") \/ Go(t, "sample", "count")
    BY <1>7 DEF Sample
  <2>3. AllWhole' /\ Same
    BY <1>1, <1>7, SampleWhole
  <2> QED BY <1>3, <2>1, <2>2, <2>3 DEF Same
<1>8. ASSUME NEW t \in Threads, Count(t) PROVE SInv'
  <2>1. UNCHANGED <<deterministic, epochToRead, epochRead, approxSum, nPairs, next>>
    BY <1>8 DEF Count, reader
  <2>2. Go(t, "count", "test") \/ Go(t, "count", "next")
    BY <1>8 DEF Count
  <2>3. AllWhole' /\ Same
    BY <1>1, <1>8, CountWhole
  <2> QED BY <1>3, <2>1, <2>2, <2>3 DEF Same
<1>9. ASSUME Ask \/ Check \/ Sum \/ Decide PROVE SInv'
  BY <1>1, <1>9, AskSums, CheckSums, SumSums, DecideSums DEF SInv
<1> QED BY <1>2, <1>4, <1>5, <1>6, <1>7, <1>8, <1>9 DEF Next, Step

\* SInv says of the sum what SumIsWhole says.
LEMMA SInvWhole == SInv => SumIsWhole
<1> SUFFICES ASSUME SInv, pc[0] # "sum"
             PROVE  /\ approxSum = SetToBag(DOMAIN approxSum)
                    /\ Cardinality(DOMAIN approxSum) = nPairs + (IF epochRead >= 0 THEN Workers ELSE 0)
                    /\ \A s \in DOMAIN approxSum :
                         /\ s[2] <= epochRead
                         /\ s[3] > 1 => <<s[1], s[2], s[3] - 1>> \in DOMAIN approxSum
                    /\ deterministic => \A t \in Threads, e \in 0 .. epochRead :
                         Cardinality({s \in DOMAIN approxSum : s[1] = t /\ s[2] = e})
                           = Batch * (Quota \div Batch + 1)
  BY DEF SumIsWhole
<1> DEFINE all == DOMAIN approxSum
<1>1. /\ approxSum = SetToBag(all) /\ Cardinality(all) = nPairs + GuessesAdded
      /\ \A s \in all : /\ s \in Threads \X Int \X Int /\ s[2] >= -1 /\ AddedUp(s[1], EpochOf(s))
                        /\ s[3] > 1 => <<s[1], s[2], s[3] - 1>> \in all
      /\ deterministic => \A t \in Threads, epoch \in Nat :
           AddedUp(t, epoch) => {s \in all : s[1] = t /\ s[2] = epoch} = Paths(t, epoch, Full)
      /\ epochRead \in Int
  BY DEF SInv, SumOK, ReaderOK
<1>2. GuessesAdded = IF epochRead >= 0 THEN Workers ELSE 0
  BY DEF GuessesAdded
<1>3. \A t \in Threads : \A epoch : AddedUp(t, epoch) <=> epoch <= epochRead
  BY DEF AddedUp
<1>4. ASSUME NEW s \in all
      PROVE  s[2] <= epochRead
  <2>1. \A z \in Threads \X Int \X Int : z[1] \in Threads /\ z[2] \in Int
    OBVIOUS
  <2>2. s[1] \in Threads /\ s[2] \in Int
    BY <1>1, <2>1
  <2>3. EpochOf(s) <= epochRead
    BY <1>1, <1>3, <2>2
  <2> QED BY <1>1, <2>2, <2>3 DEF EpochOf
<1>5. ASSUME deterministic, NEW t \in Threads, NEW e \in 0 .. epochRead
      PROVE  Cardinality({s \in all : s[1] = t /\ s[2] = e}) = Batch * (Quota \div Batch + 1)
  <2>1. e \in Nat /\ AddedUp(t, e)
    BY <1>1, <1>3
  <2>2. {s \in all : s[1] = t /\ s[2] = e} = Paths(t, e, Full)
    BY <1>1, <1>5, <2>1
  <2>3. Full \in Nat
    <3>1. Batch \in Nat /\ Batch > 0 /\ Quota \in Nat
      BY KadabraAssumption
    <3>2. Quota \div Batch \in Nat
      BY <3>1
    <3> QED BY <3>1, <3>2 DEF Full
  <2>4. Cardinality(Paths(t, e, Full)) = Full
    BY <2>3, PathsCount
  <2> QED BY <2>2, <2>4 DEF Full
<1> QED BY <1>1, <1>2, <1>4, <1>5

\* What KadabraBetweenness::run has added up after an epoch is, of every thread
\* and epoch, the paths drawn first, each once, for any number of threads.
THEOREM SumsStayWhole == Spec => []SumIsWhole
  BY SInvInit, SInvNext, SInvWhole, PTL DEF Spec

=============================================================================
