----------------------------- MODULE LeidenRefine -----------------------------
(***************************************************************************)
(* parallelRefine of ParallelLeiden: inside every community of result,     *)
(* nodes still alone join the refined community of a neighbour. A node and *)
(* its target are locked, the lower one first; when the target's host has  *)
(* left in the meantime another target is chosen, its lock is tried and,   *)
(* where waiting could deadlock, both locks are taken afresh.              *)
(*                                                                         *)
(* Which target is best is real arithmetic: any with an edge to the node   *)
(* may be chosen, or none. An unlock frees the mutex whoever holds it.     *)
(***************************************************************************)
EXTENDS LeidenGraph

VARIABLES
  left,        \* nodes not handed to a thread yet
  refined,     \* refined[u]: the refined community, named by its host
  singleton,   \* no node has joined u
  held,        \* the locks that are held
  rlocal,      \* [Threads -> locals of the thread]
  slipped      \* a thread went on after giving up its locks (see Recheck)

refineVars == <<left, refined, singleton, held, rlocal, slipped>>
shared == <<left, refined, singleton, held, slipped>>

\* Communities with an edge to the node (neighComms with their cutWeights),
\* neighbours that named their own community when looked at, the target.
Fetching == [pc |-> "pick", nodes |-> <<>>, todo |-> <<>>,
             neighComms |-> {}, criticalNodes |-> {}, bestC |-> None]

\* Before the phase begins, and after.
RefineBlank ==
  /\ left = {} /\ held = {} /\ slipped = FALSE
  /\ refined = [u \in Nodes |-> u]
  /\ singleton = [u \in Nodes |-> TRUE]
  /\ rlocal = [t \in Threads |-> Fetching]

L(t) == rlocal[t]
U(t) == Head(L(t).nodes)
To(t, pc) == rlocal' = [rlocal EXCEPT ![t].pc = pc]

\* The node is done with.
NextNode(l) == [Fetching EXCEPT !.nodes = Tail(l.nodes)]
Leaving(t) == rlocal' = [rlocal EXCEPT ![t] = NextNode(@)]

-----------------------------------------------------------------------------
\* schedule(dynamic, WORKING_SIZE) over the shuffled nodes.
Fetch(t) ==
  /\ L(t).pc = "pick" /\ L(t).nodes = <<>> /\ left # {}
  /\ \E some \in SUBSET left :
       /\ Cardinality(some) = IF Cardinality(left) < Chunk THEN Cardinality(left) ELSE Chunk
       /\ \E s \in SetToSeqs(some) : rlocal' = [rlocal EXCEPT ![t].nodes = s]
       /\ left' = left \ some
  /\ UNCHANGED <<refined, singleton, held, slipped>>

Pick(t) ==
  /\ L(t).pc = "pick" /\ L(t).nodes # <<>>
  /\ IF singleton[U(t)]
     THEN rlocal' = [rlocal EXCEPT ![t].pc = "cut", ![t].todo = row[U(t)]]
     ELSE Leaving(t)
  /\ UNCHANGED shared

\* Where one neighbour of the same community of result is now.
Cut(t) ==
  /\ L(t).pc = "cut" /\ L(t).todo # <<>>
  /\ LET x == Head(L(t).todo)
         inside == result[x] = result[U(t)]
     IN  rlocal' = [rlocal EXCEPT
           ![t].todo = Tail(@),
           ![t].neighComms = IF inside THEN @ \cup {refined[x]} ELSE @,
           ![t].criticalNodes = IF inside /\ refined[x] = x THEN @ \cup {x} ELSE @]
  /\ UNCHANGED shared

\* The target, or none; a node some other one has joined is left alone.
Choose(t) ==
  /\ L(t).pc = "cut" /\ L(t).todo = <<>>
  /\ \/ Leaving(t)
     \/ \E c \in L(t).neighComms :
          /\ U(t) \notin L(t).neighComms
          /\ rlocal' = [rlocal EXCEPT ![t].pc = "lock1", ![t].bestC = c]
  /\ UNCHANGED shared

\* lockLowerFirst.
Low(t) == IF U(t) < L(t).bestC THEN U(t) ELSE L(t).bestC
High(t) == IF U(t) < L(t).bestC THEN L(t).bestC ELSE U(t)

Lock(t, c, from, to) ==
  /\ L(t).pc = from /\ c \notin held
  /\ held' = held \cup {c}
  /\ To(t, to)
  /\ UNCHANGED <<left, refined, singleton, slipped>>

LockFirst(t)  == Lock(t, Low(t), "lock1", "lock2") \/ Lock(t, Low(t), "relock1", "relock2")
LockSecond(t) == Lock(t, High(t), "lock2", "test") \/ Lock(t, High(t), "relock2", "recheck")

\* A node that another one joined stays where it is.
TestNothing(t) == L(t).pc = "test" /\ To(t, "host") /\ UNCHANGED shared    \* mutant: not tested

Test(t) ==
  /\ L(t).pc = "test"
  /\ To(t, IF singleton[U(t)] THEN "host" ELSE "unlock")
  /\ UNCHANGED shared

\* The target is good as long as its host is in it.
Host(t) ==
  /\ L(t).pc = "host"
  /\ IF refined[L(t).bestC] = L(t).bestC
     THEN To(t, "join") /\ UNCHANGED held
     ELSE /\ held' = held \ {L(t).bestC}
          /\ rlocal' = [rlocal EXCEPT ![t].pc = "update",
                                      ![t].neighComms = @ \ {L(t).bestC},
                                      ![t].todo = row[U(t)]]
  /\ UNCHANGED <<left, refined, singleton, slipped>>

\* updateCut: the edge to a critical neighbour that moved counts for its new
\* community.
Update(t) ==
  /\ L(t).pc = "update" /\ L(t).todo # <<>>
  /\ LET x == Head(L(t).todo)
         gone == x \in L(t).criticalNodes /\ refined[x] # x
     IN  rlocal' = [rlocal EXCEPT
           ![t].todo = Tail(@),
           ![t].neighComms = IF gone THEN (@ \ {x}) \cup {refined[x]} ELSE @,
           ![t].criticalNodes = IF gone THEN @ \ {x} ELSE @]
  /\ UNCHANGED shared

\* Another target: its lock is free, or can be waited for, or the lock of the
\* node has to be given up first.
Rechoose(t) ==
  /\ L(t).pc = "update" /\ L(t).todo = <<>>
  /\ \/ /\ held' = held \ {U(t)}
        /\ Leaving(t)
     \/ \E c \in L(t).neighComms :
          /\ held' = CASE c \notin held -> held \cup {c}
                       [] c \in held /\ U(t) < c -> held
                       [] c \in held /\ U(t) > c -> held \ {U(t)}
          /\ rlocal' = [rlocal EXCEPT
               ![t].bestC = c,
               ![t].pc = CASE c \notin held -> "host"
                           [] c \in held /\ U(t) < c -> "relock2"
                           [] c \in held /\ U(t) > c -> "relock1"]
  /\ UNCHANGED <<left, refined, singleton, slipped>>

\* After waiting: a node that was joined gives up its locks, and the continue
\* that follows goes on with the loop over targets instead of the next node.
Recheck(t) ==
  /\ L(t).pc = "recheck"
  /\ IF singleton[U(t)]
     THEN UNCHANGED <<held, slipped>>
     ELSE held' = held \ {U(t), L(t).bestC} /\ slipped' = TRUE
  /\ To(t, "host")
  /\ UNCHANGED <<left, refined, singleton>>

Join(t) ==
  /\ L(t).pc = "join"
  /\ singleton' = [singleton EXCEPT ![L(t).bestC] = FALSE]
  /\ To(t, "joined")
  /\ UNCHANGED <<left, refined, held, slipped>>

Joined(t) ==
  /\ L(t).pc = "joined"
  /\ refined' = [refined EXCEPT ![U(t)] = L(t).bestC]
  /\ To(t, "unlock")
  /\ UNCHANGED <<left, singleton, held, slipped>>

\* The target's lock, then the node's.
Unlock(t) ==
  /\ \/ /\ L(t).pc = "unlock"
        /\ held' = held \ {L(t).bestC}
        /\ To(t, "leave")
     \/ /\ L(t).pc = "leave"
        /\ held' = held \ {U(t)}
        /\ Leaving(t)
  /\ UNCHANGED <<left, refined, singleton, slipped>>

RefineStep(t) ==
  \/ Fetch(t) \/ Pick(t) \/ Cut(t) \/ Choose(t)
  \/ LockFirst(t) \/ LockSecond(t) \/ Test(t) \/ Host(t)
  \/ Update(t) \/ Rechoose(t) \/ Recheck(t)
  \/ Join(t) \/ Joined(t) \/ Unlock(t)

RefineDone == left = {} /\ \A t \in Threads : L(t).pc = "pick" /\ L(t).nodes = <<>>
=============================================================================
