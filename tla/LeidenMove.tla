------------------------------ MODULE LeidenMove ------------------------------
(***************************************************************************)
(* parallelMove of ParallelLeiden: threads take nodes from private lists   *)
(* and a shared queue, look at the communities around each, may move it    *)
(* and then send its neighbours round again. A node has a state that makes *)
(* it be in one list only. A thread that needs a new community beyond the  *)
(* end of communityVolumes makes all others yield and grows the vector.    *)
(*                                                                         *)
(* Which move raises modularity is real arithmetic: a node may stay, move  *)
(* to any community it has seen or to a new one. moves bounds how many do. *)
(***************************************************************************)
EXTENDS LeidenGraph

CONSTANTS
  Oversize     \* VECTOR_OVERSIZE: by how much communityVolumes grows

\* run asks for Oversize >= 1 only; the default is 10000, far above any team.
ASSUME MoveAssumption ==
  Oversize \in Nat /\ Oversize >= Cardinality(Threads)

VARIABLES
  state,             \* nodeState
  queue,             \* lists of nodes, under qlock
  resize,            \* some thread grows communityVolumes
  waitingForResize, waitingForNodes,
  upperBound,        \* communities taken so far
  size,              \* communityVolumes.size()
  vectorSize,        \* what it will be after the next growth
  local,             \* [Threads -> locals of the thread]
  seen,              \* seen[u]: what the last look at u found around it
  moves              \* moves still allowed (the bound of the model)

moveVars == <<state, queue, resize, waitingForResize, waitingForNodes, upperBound,
              size, vectorSize, local, seen, moves>>

work == <<state, queue>>
handshake == <<resize, waitingForResize, vectorSize>>
volumes == <<upperBound, size>>
history == <<seen, moves>>

tcount == Cardinality(Threads)

\* A list of nodes still to do, a list of nodes found, the community chosen,
\* and the neighbours the current loop over a row has not come to.
Start(nodes) == [pc |-> "node", current |-> nodes, fresh |-> <<>>, best |-> None, todo |-> <<>>]

\* The node t is working on.
Node(t) == Head(local[t].current)

\* Thread p[t] of the team starts with a block of nodes, in shuffled order.
Block(k) == {u \in Nodes : u \div (1 + N \div tcount) = k}

MoveInit(spare) ==
  /\ state = [u \in Nodes |-> "queued"]
  /\ queue = <<>>
  /\ resize = FALSE /\ waitingForResize = 0 /\ waitingForNodes = 0
  /\ upperBound = N
  /\ size \in {upperBound, upperBound + Oversize} /\ vectorSize = size
  /\ \E p \in Bijection(Threads, 0 .. tcount - 1) :
       \E lists \in [Threads -> UNION {SetToSeqs(Block(k)) : k \in 0 .. tcount - 1}] :
         /\ \A t \in Threads : ToSet(lists[t]) = Block(p[t])
         /\ local = [t \in Threads |-> Start(lists[t])]
  /\ seen = [u \in Nodes |-> <<>>]
  /\ moves = spare

-----------------------------------------------------------------------------
Go(t, pc) == local' = [local EXCEPT ![t].pc = pc]

\* A step that only the thread itself can tell.
OnlyLocal == UNCHANGED <<work, handshake, volumes, history, waitingForNodes, result>>

\* Head of the loop over currentNodes: yield while somebody grows the volumes.
TestResize(t) ==
  /\ local[t].pc = "node" /\ local[t].current # <<>>
  /\ Go(t, IF resize THEN "announce" ELSE "begin")
  /\ OnlyLocal

Announce(t) ==
  /\ local[t].pc = "announce"
  /\ waitingForResize' = waitingForResize + 1
  /\ Go(t, "yield")
  /\ UNCHANGED <<work, volumes, history, resize, waitingForNodes, vectorSize, result>>

Yield(t) ==
  /\ local[t].pc = "yield" /\ ~resize
  /\ Go(t, "resume")
  /\ OnlyLocal

Resume(t) ==
  /\ local[t].pc = "resume"
  /\ waitingForResize' = waitingForResize - 1
  /\ Go(t, IF local[t].best = None THEN "begin" ELSE "place")
  /\ UNCHANGED <<work, volumes, history, resize, waitingForNodes, vectorSize, result>>

\* The node is now being processed; its neighbours are looked at one by one.
Begin(t) ==
  /\ local[t].pc = "begin"
  /\ state' = [state EXCEPT ![Node(t)] = IF @ = "queued" THEN "processing" ELSE @]
  /\ local' = [local EXCEPT ![t].pc = "look", ![t].todo = row[Node(t)]]
  /\ seen' = [seen EXCEPT ![Node(t)] = <<>>]
  /\ UNCHANGED <<handshake, volumes, queue, waitingForNodes, moves, result>>

Look(t) ==
  /\ local[t].pc = "look" /\ local[t].todo # <<>>
  /\ LET x == Head(local[t].todo)
     IN  seen' = [seen EXCEPT ![Node(t)] = Append(@, result[x])]
  /\ local' = [local EXCEPT ![t].todo = Tail(@)]
  /\ UNCHANGED <<work, handshake, volumes, waitingForNodes, moves, result>>

Stay(t) ==
  /\ local[t].pc = "look" /\ local[t].todo = <<>>
  /\ Go(t, "finish")
  /\ OnlyLocal

ChooseSeen(t, c) ==
  /\ local[t].pc = "look" /\ local[t].todo = <<>> /\ moves > 0
  /\ c \in Range(seen[Node(t)]) \ {result[Node(t)]}
  /\ local' = [local EXCEPT ![t].pc = "place", ![t].best = c]
  /\ moves' = moves - 1
  /\ UNCHANGED <<work, handshake, volumes, waitingForNodes, seen, result>>

BeyondBy1(c) == c > size     \* mutant: one index past the end is taken for room
Beyond(c) == c >= size

ChooseNew(t) ==
  /\ local[t].pc = "look" /\ local[t].todo = <<>> /\ row[Node(t)] # <<>> /\ moves > 0
  /\ upperBound' = upperBound + 1
  /\ local' = [local EXCEPT ![t].pc = IF Beyond(upperBound) THEN "grow" ELSE "place",
                            ![t].best = upperBound]
  /\ moves' = moves - 1
  /\ UNCHANGED <<work, handshake, waitingForNodes, size, seen, result>>

\* The first to need more room becomes the one that makes it.
Grow(t) ==
  /\ local[t].pc = "grow"
  /\ IF resize
     THEN Go(t, "announce") /\ UNCHANGED <<resize, vectorSize>>
     ELSE /\ resize' = TRUE
          /\ vectorSize' = vectorSize + Oversize
          /\ Go(t, "await")
  /\ UNCHANGED <<work, volumes, history, waitingForResize, waitingForNodes, result>>

Await(t) ==
  /\ local[t].pc = "await" /\ waitingForResize >= tcount - 1
  /\ Go(t, "growing")
  /\ OnlyLocal

Growing(t) ==
  /\ local[t].pc = "growing"
  /\ size' = vectorSize
  /\ resize' = FALSE
  /\ Go(t, "place")
  /\ UNCHANGED <<work, history, waitingForResize, waitingForNodes, upperBound, vectorSize, result>>

Place(t) ==
  /\ local[t].pc = "place"
  /\ result' = [result EXCEPT ![Node(t)] = local[t].best]
  /\ seen' = [seen EXCEPT ![Node(t)] = <<>>]
  /\ local' = [local EXCEPT ![t].pc = "spread", ![t].todo = row[Node(t)]]
  /\ UNCHANGED <<work, handshake, volumes, waitingForNodes, moves>>

\* A neighbour elsewhere has to be looked at again.
Spread(t) ==
  /\ local[t].pc = "spread"
  /\ local' = [local EXCEPT
       ![t].pc = IF local[t].todo = <<>> THEN "finish"
                 ELSE IF result[Head(local[t].todo)] # local[t].best THEN "schedule" ELSE "spread",
       ![t].todo = IF local[t].todo # <<>> /\ result[Head(@)] = local[t].best THEN Tail(@) ELSE @]
  /\ OnlyLocal

\* pushNewNode, whose full list goes to the queue next.
WithPushed(l, u, pc) ==
  [l EXCEPT !.fresh = Append(@, u), !.pc = IF Len(l.fresh) + 1 = Chunk THEN "flush" ELSE pc]

\* scheduleNode: an idle node is queued, one being processed marked.
MarkedIfIdle(s) == IF s = "idle" THEN "queued" ELSE s    \* mutant: no mark
Marked(s) == CASE s = "idle" -> "queued" [] s = "processing" -> "reprocess" [] OTHER -> s

Schedule(t) ==
  LET x == Head(local[t].todo)
      l == [local[t] EXCEPT !.pc = "spread", !.todo = Tail(@)]
  IN  /\ local[t].pc = "schedule"
      /\ state' = [state EXCEPT ![x] = Marked(@)]
      /\ local' = [local EXCEPT ![t] = IF state[x] = "idle" THEN WithPushed(l, x, "spread") ELSE l]
      /\ UNCHANGED <<handshake, volumes, history, queue, waitingForNodes, result>>

\* finishProcessingNode.
ProcessedIdle(s) == "idle"    \* mutant: idle although it goes into a list again
Processed(s) == IF s = "processing" THEN "idle" ELSE "queued"

Finish(t) ==
  LET u == Node(t)
      l == [local[t] EXCEPT !.pc = "node", !.current = Tail(@), !.best = None]
  IN  /\ local[t].pc = "finish"
      /\ state' = [state EXCEPT ![u] = Processed(@)]
      /\ local' = [local EXCEPT ![t] = IF state[u] = "processing" THEN l ELSE WithPushed(l, u, "node")]
      /\ UNCHANGED <<handshake, volumes, history, queue, waitingForNodes, result>>

Flush(t) ==
  /\ local[t].pc = "flush"
  /\ queue' = Append(queue, local[t].fresh)
  /\ local' = [local EXCEPT ![t].pc = "notify", ![t].fresh = <<>>]
  /\ UNCHANGED <<handshake, volumes, history, state, waitingForNodes, result>>

\* notify_all: sleepers test their condition again.
Waking(ls, t, pc) ==
  [s \in Threads |-> CASE s = t -> [ls[s] EXCEPT !.pc = pc]
                       [] s # t /\ ls[s].pc = "sleep" -> [ls[s] EXCEPT !.pc = "wait"]
                       [] OTHER -> ls[s]]

Notify(t) ==
  /\ local[t].pc = "notify"
  /\ local' = Waking(local, t, IF local[t].best = None THEN "node" ELSE "spread")
  /\ OnlyLocal

-----------------------------------------------------------------------------
\* The list is done: go on with the nodes found, else with the queue's.
TakeOwn(t) ==
  /\ local[t].pc = "node" /\ local[t].current = <<>> /\ local[t].fresh # <<>>
  /\ local' = [local EXCEPT ![t].current = local[t].fresh, ![t].fresh = <<>>]
  /\ OnlyLocal

Pop(t) ==
  /\ queue' = Tail(queue)
  /\ local' = [local EXCEPT ![t].pc = "node", ![t].current = Head(queue)]

\* Both empty: wait for the others, who may find more, or leave as the last.
TakeOrWait(t) ==
  /\ local[t].pc = "node" /\ local[t].current = <<>> /\ local[t].fresh = <<>>
  /\ IF queue # <<>>
     THEN Pop(t) /\ UNCHANGED <<waitingForNodes, waitingForResize>>
     ELSE /\ waitingForNodes' = waitingForNodes + 1
          /\ IF waitingForNodes' < tcount
             THEN waitingForResize' = waitingForResize + 1 /\ Go(t, "sleep")
             ELSE UNCHANGED waitingForResize /\ Go(t, "leave")
          /\ UNCHANGED queue
  /\ UNCHANGED <<volumes, history, state, resize, vectorSize, result>>

Wait(t) ==
  /\ local[t].pc = "wait"
  /\ \/ /\ waitingForNodes = tcount
        /\ Go(t, "leave") /\ UNCHANGED <<queue, waitingForNodes, waitingForResize>>
     \/ /\ waitingForNodes < tcount /\ queue = <<>>
        /\ Go(t, "sleep") /\ UNCHANGED <<queue, waitingForNodes, waitingForResize>>
     \/ /\ waitingForNodes < tcount /\ queue # <<>>
        /\ Pop(t)
        /\ waitingForNodes' = waitingForNodes - 1
        /\ waitingForResize' = waitingForResize - 1
  /\ UNCHANGED <<volumes, history, state, resize, vectorSize, result>>

LeaveQuietly(t) == local[t].pc = "leave" /\ Go(t, "done") /\ OnlyLocal    \* mutant: nobody is woken

Leave(t) ==
  /\ local[t].pc = "leave"
  /\ local' = Waking(local, t, "done")
  /\ OnlyLocal

MoveStep(t) ==
  \/ TestResize(t) \/ Announce(t) \/ Yield(t) \/ Resume(t)
  \/ Begin(t) \/ Look(t) \/ Stay(t) \/ (\E c \in Range(result) : ChooseSeen(t, c)) \/ ChooseNew(t)
  \/ Grow(t) \/ Await(t) \/ Growing(t) \/ Place(t)
  \/ Spread(t) \/ Schedule(t) \/ Finish(t) \/ Flush(t) \/ Notify(t)
  \/ TakeOwn(t) \/ TakeOrWait(t) \/ Wait(t) \/ Leave(t)

MoveDone == \A t \in Threads : local[t].pc = "done"
=============================================================================
