-------------------------- MODULE KadabraBetweenness --------------------------
(***************************************************************************)
(* The sampling of KadabraBetweenness::run (centrality/                    *)
(* KadabraBetweenness.cpp): every thread adds samples to a frame of its    *)
(* own, frames belong to epochs, and thread 0 also adds up the frames of   *)
(* an epoch once every thread has published one. Nobody waits for anybody. *)
(*                                                                         *)
(* A sample is <<thread, epoch, number>>, the number-th path drawn from    *)
(* the generator seeded for the epoch; a frame's apx is the set of its     *)
(* samples, approxSum the bag of those added. The stopping test is         *)
(* statistics: it may say yes after any epoch. Accesses to atomics are     *)
(* single steps of one order.                                              *)
(***************************************************************************)
EXTENDS Integers, Sequences, FiniteSets, SequencesExt, Bags

CONSTANTS
  Workers,      \* threads of the team, 0 .. Workers - 1
  Batch,        \* itersPerStep
  Quota,        \* deterministic frames are full above it (1000 in the code)
  Omega,        \* samples after which the reader stops
  MaxSamples,   \* bound: batches stop when a frame has as many samples
  MaxAhead      \* bound: and when the thread is as many epochs ahead

ASSUME KadabraAssumption ==
  /\ {Workers, Batch, Omega, MaxSamples, MaxAhead} \subseteq Nat \ {0}
  /\ Quota \in Nat /\ MaxSamples > Quota

VARIABLES
  deterministic,
  frames,          \* [Threads -> sequence of frames]; the first is firstFrames[t]
  curFrame,        \* [Threads -> index of the frame written]
  unused, finishedQueue,    \* [Threads -> sequence of frame indices]
  epochToWrite,
  rng,             \* [Threads -> [seed, drawn]]
  epochFinished,   \* [Threads -> index of the frame published, or 0 for null]
  epochToRead, epochRead,
  stop,
  approxSum, nPairs,
  pc,
  next             \* the thread whose frame the reader comes to next

owner == <<frames, curFrame, unused, finishedQueue, epochToWrite, rng>>
reader == <<epochToRead, epochRead, stop, approxSum, nPairs, next>>
vars == <<deterministic, owner, reader, epochFinished, pc>>

Threads == 0 .. Workers - 1
Frame(epoch) == [epoch |-> epoch, apx |-> {}, nPairs |-> 0]

\* The samples that computed the first guesses are still in the first frames,
\* which count none.
Guess(t) == <<t, -1, 1>>

Init ==
  /\ deterministic \in BOOLEAN
  /\ frames = [t \in Threads |-> <<[Frame(0) EXCEPT !.apx = {Guess(t)}]>>]
  /\ curFrame = [t \in Threads |-> 1]
  /\ unused = [t \in Threads |-> <<>>] /\ finishedQueue = unused
  /\ epochToWrite = [t \in Threads |-> 0]
  /\ rng = [t \in Threads |-> [seed |-> 0, drawn |-> 0]]
  /\ epochFinished = [t \in Threads |-> 0]
  /\ epochToRead = -1 /\ epochRead = -1 /\ stop = FALSE
  /\ approxSum = EmptyBag /\ nPairs = 0
  /\ pc = [t \in Threads |-> "test"] /\ next = 0

Go(t, from, to) == pc[t] = from /\ pc' = [pc EXCEPT ![t] = to]
Published(t) == frames[t][epochFinished[t]]

-----------------------------------------------------------------------------
\* The reader: thread 0, before its share of the sampling.
Test(t) ==
  /\ Go(t, "test", IF stop THEN "barrier" ELSE IF t = 0 THEN "ask" ELSE "load")
  /\ UNCHANGED <<deterministic, owner, reader, epochFinished>>

Ask ==
  /\ Go(0, "ask", "check")
  /\ epochToRead' = IF epochToRead = epochRead THEN epochRead + 1 ELSE epochToRead
  /\ next' = 0
  /\ UNCHANGED <<deterministic, owner, epochFinished, epochRead, stop, approxSum, nPairs>>

AnyEpoch(t) == epochFinished[t] # 0      \* mutant: whatever has been published
Finished(t) == epochFinished[t] # 0 /\ Published(t).epoch = epochToRead

\* checkConvergence: is there a frame of the epoch from everyone?
Check ==
  /\ IF next = Workers
     THEN Go(0, "check", "sum") /\ next' = 0
     ELSE IF Finished(next)
          THEN Go(0, "check", "check") /\ next' = next + 1
          ELSE Go(0, "check", "load") /\ UNCHANGED next
  /\ UNCHANGED <<deterministic, owner, epochFinished, epochToRead, epochRead, stop, approxSum, nPairs>>

Sum ==
  /\ next < Workers
  /\ Go(0, "sum", "sum")
  /\ approxSum' = approxSum (+) SetToBag(Published(next).apx)
  /\ nPairs' = nPairs + Published(next).nPairs
  /\ next' = next + 1
  /\ UNCHANGED <<deterministic, owner, epochFinished, epochToRead, epochRead, stop>>

Decide ==
  /\ next = Workers
  /\ Go(0, "sum", "load")
  /\ stop' \in {b \in BOOLEAN : nPairs >= Omega => b}
  /\ epochRead' = epochToRead
  /\ next' = 0
  /\ UNCHANGED <<deterministic, owner, epochFinished, epochToRead, approxSum, nPairs>>

-----------------------------------------------------------------------------
\* Every thread: publish what the reader asks for, then sample.
DueLast(t) ==      \* mutant: only the frame finished last is looked at
  \/ ~deterministic /\ epochToRead = epochToWrite[t]
  \/ /\ deterministic /\ finishedQueue[t] # <<>>
     /\ epochToRead = frames[t][Last(finishedQueue[t])].epoch

Due(t) ==
  \/ ~deterministic /\ epochToRead = epochToWrite[t]
  \/ /\ deterministic /\ finishedQueue[t] # <<>>
     /\ epochToRead = frames[t][Head(finishedQueue[t])].epoch

Load(t) ==
  /\ Go(t, "load", IF Due(t) THEN "publish" ELSE "sample")
  /\ UNCHANGED <<deterministic, owner, reader, epochFinished>>

RecycledKept(t) == unused[t]      \* mutant: a frame no longer published is lost
Recycled(t) == IF epochFinished[t] = 0 THEN unused[t] ELSE Append(unused[t], epochFinished[t])

Publish(t) ==
  /\ Go(t, "publish", IF deterministic THEN "sample" ELSE "next")
  /\ unused' = [unused EXCEPT ![t] = Recycled(t)]
  /\ epochFinished' = [epochFinished EXCEPT
       ![t] = IF deterministic THEN Head(finishedQueue[t]) ELSE curFrame[t]]
  /\ finishedQueue' = [finishedQueue EXCEPT ![t] = IF deterministic THEN Tail(@) ELSE @]
  /\ UNCHANGED <<deterministic, frames, curFrame, epochToWrite, rng, reader>>

\* A frame is taken from those recycled, or allocated.
MoveToNextEpoch(t) ==
  /\ Go(t, "next", IF deterministic THEN "test" ELSE "sample")
  /\ epochToWrite' = [epochToWrite EXCEPT ![t] = @ + 1]
  /\ LET f == IF unused[t] = <<>> THEN Len(frames[t]) + 1 ELSE Head(unused[t])
     IN  /\ curFrame' = [curFrame EXCEPT ![t] = f]
         /\ frames' = [frames EXCEPT
              ![t] = IF unused[t] = <<>> THEN Append(@, Frame(epochToWrite'[t]))
                                         ELSE [@ EXCEPT ![f] = Frame(epochToWrite'[t])]]
  /\ unused' = [unused EXCEPT ![t] = IF @ = <<>> THEN @ ELSE Tail(@)]
  /\ rng' = [rng EXCEPT ![t] = [seed |-> epochToWrite'[t], drawn |-> 0]]
  /\ UNCHANGED <<deterministic, finishedQueue, reader, epochFinished>>

Current(t) == frames[t][curFrame[t]]

\* A batch, unless a bound of the model is reached.
Sample(t) ==
  /\ IF Current(t).nPairs >= MaxSamples \/ epochToWrite[t] > epochRead + MaxAhead
     THEN Go(t, "sample", "test") /\ UNCHANGED <<frames, rng>>
     ELSE /\ Go(t, "sample", "count")
          /\ frames' = [frames EXCEPT ![t][curFrame[t]].apx =
               @ \cup {<<t, rng[t].seed, rng[t].drawn + i>> : i \in 1 .. Batch}]
          /\ rng' = [rng EXCEPT ![t].drawn = @ + Batch]
  /\ UNCHANGED <<deterministic, curFrame, unused, finishedQueue, epochToWrite, reader, epochFinished>>

\* The batch counts; a deterministic frame that is full is queued.
Count(t) ==
  LET full == deterministic /\ Current(t).nPairs + Batch > Quota
  IN  /\ Go(t, "count", IF full THEN "next" ELSE "test")
      /\ frames' = [frames EXCEPT ![t][curFrame[t]].nPairs = @ + Batch]
      /\ finishedQueue' = [finishedQueue EXCEPT ![t] = IF full THEN Append(@, curFrame[t]) ELSE @]
      /\ UNCHANGED <<deterministic, curFrame, unused, epochToWrite, rng, reader, epochFinished>>

\* The barrier before the frames are freed.
Leave(t) ==
  /\ \A s \in Threads : pc[s] \in {"barrier", "done"}
  /\ Go(t, "barrier", "done")
  /\ UNCHANGED <<deterministic, owner, reader, epochFinished>>

Step(t) ==
  \/ Test(t) \/ Load(t) \/ Publish(t) \/ MoveToNextEpoch(t)
  \/ Sample(t) \/ Count(t) \/ Leave(t)
  \/ t = 0 /\ (Ask \/ Check \/ Sum \/ Decide)

Next == \E t \in Threads : Step(t)
Spec == Init /\ [][Next]_vars /\ \A t \in Threads : WF_vars(Step(t))

-----------------------------------------------------------------------------
PublishedBy(t) == IF epochFinished[t] = 0 THEN <<>> ELSE <<epochFinished[t]>>
WrittenBy(t) == IF pc[t] = "next" THEN <<>> ELSE <<curFrame[t]>>
Holds(t) == unused[t] \o finishedQueue[t] \o PublishedBy(t) \o WrittenBy(t)

(* Every frame of a thread has exactly one use: written, queued, published *)
(* or free. So a frame the reader adds up is not written at the same time, *)
(* and without deterministic two frames are enough for any run.            *)
FramesApart ==
  \A t \in Threads :
    /\ IsInjective(Holds(t)) /\ ToSet(Holds(t)) = DOMAIN frames[t]
    /\ ~deterministic => Len(frames[t]) <= 2

(* What has been added up is whole: after an epoch is read, the sum holds  *)
(* from every thread and every epoch so far the paths its generator drew   *)
(* first, each once, and nothing of a later epoch, and nPairs counts them  *)
(* (but not the first guesses). A deterministic run adds the same paths    *)
(* whatever the threads' speed.                                            *)
SumIsWhole ==
  pc[0] # "sum" =>
    /\ approxSum = SetToBag(DOMAIN approxSum)
    /\ Cardinality(DOMAIN approxSum) = nPairs + (IF epochRead >= 0 THEN Workers ELSE 0)
    /\ \A s \in DOMAIN approxSum :
         /\ s[2] <= epochRead
         /\ s[3] > 1 => <<s[1], s[2], s[3] - 1>> \in DOMAIN approxSum
    /\ deterministic => \A t \in Threads, e \in 0 .. epochRead :
         Cardinality({s \in DOMAIN approxSum : s[1] = t /\ s[2] = e})
           = Batch * (Quota \div Batch + 1)

(* The reader gets the frames it asks for until it has enough, and all     *)
(* threads leave, though none ever waits for another.                      *)
SamplingEnds == <>(\A t \in Threads : pc[t] = "done")
=============================================================================
