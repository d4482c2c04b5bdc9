---------------------------- MODULE PreparedGraph ----------------------------
(***************************************************************************)
(* Graph handles of icebug-core and the incoming index prepare_incoming    *)
(* builds for them. The index is charged to an ExecutionContext by a       *)
(* reservation that every snapshot holding the index must keep alive, and  *)
(* its scratch buffer by a second one that must not outlive the call.      *)
(*                                                                         *)
(* reserve and Drop are one step here: module ExecutionContext shows that  *)
(* their lock-free code implements exactly that (ImplementsBudget).        *)
(***************************************************************************)
EXTENDS Integers, FiniteSets

CONSTANTS
  Threads,     \* callers of prepare_incoming
  Handles,     \* slots for Graph handles of one directed graph
  Rids,        \* identities of reservations (and of the indexes under them)
  None,
  N,           \* node count of the graph
  Slots,       \* adjacency slots of the graph
  Weighted,    \* the graph carries weights
  Limit        \* byte limit of the context

\* A handle: the incoming index it carries, and the reservations it keeps.
Snapshot == [index : Rids \cup {None}, retains : SUBSET Rids]

ASSUME PreparedAssumption ==
  /\ N \in Nat /\ Slots \in Nat /\ Limit \in Nat
  /\ Weighted \in BOOLEAN
  /\ None \notin Rids \cup Handles /\ None \notin Snapshot
  /\ IsFiniteSet(Threads) /\ IsFiniteSet(Rids)

VARIABLES
  used,        \* bytes reserved in the context
  cancelled,   \* the context was cancelled
  handle,      \* [Handles -> None, or a snapshot handle]
  frame        \* [Threads -> the frame of prepare_incoming]

vars == <<used, cancelled, handle, frame>>

Idle == [pc |-> "idle", from |-> None, into |-> None, rid |-> None]
PCs == {"idle", "scratch", "count", "fill", "finish"}

OffsetBytes == 8 * (N + 1)
IndexBytes == OffsetBytes + (IF Weighted THEN 16 ELSE 8) * Slots
ScratchBytes == 8 * N

\* Reservations some handle of hs or some frame of fs keeps alive.
Kept(hs, fs) ==
  (UNION {hs[h].retains : h \in {x \in Handles : hs[x] # None}})
    \cup ({fs[t].rid : t \in Threads} \ {None})

Released == Kept(handle, frame) \ Kept(handle', frame')

\* Arc<Reservation> drops with its last owner; fetch_sub its bytes.
DropUnreachable(scratch) ==
  used' = used - scratch - Cardinality(Released) * IndexBytes

Free == {h \in Handles : handle[h] = None /\ \A t \in Threads : frame[t].into # h}

Init ==
  /\ used = 0
  /\ cancelled = FALSE
  /\ \E h \in Handles :
       handle = [x \in Handles |->
                   IF x = h THEN [index |-> None, retains |-> {}] ELSE None]
  /\ frame = [t \in Threads |-> Idle]

-----------------------------------------------------------------------------
Return(t) == frame' = [frame EXCEPT ![t] = Idle]

\* The scratch reservation a frame owns drops with it on every path.
ScratchOfLastPass(t) ==    \* mutant: not dropped when the first pass is cancelled
  IF frame[t].pc \in {"fill", "finish"} THEN ScratchBytes ELSE 0

ScratchOf(t) ==
  IF frame[t].pc \in {"count", "fill", "finish"} THEN ScratchBytes ELSE 0

\* Clone of a handle: shares the whole snapshot.
Clone(h, into) ==
  /\ handle[h] # None /\ into \in Free
  /\ handle' = [handle EXCEPT ![into] = handle[h]]
  /\ UNCHANGED <<used, cancelled, frame>>

\* with_properties: a new snapshot with the index and reservations of the old.
WithPropertiesForgets(h, into) ==    \* mutant: the reservations are not cloned
  /\ handle[h] # None /\ into \in Free
  /\ handle' = [handle EXCEPT ![into] = [handle[h] EXCEPT !.retains = {}]]
  /\ UNCHANGED <<used, cancelled, frame>>

WithProperties(h, into) ==
  /\ handle[h] # None /\ into \in Free
  /\ handle' = [handle EXCEPT
       ![into] = [index |-> handle[h].index, retains |-> handle[h].retains]]
  /\ UNCHANGED <<used, cancelled, frame>>

\* A handle drops, unless a call borrows it.
DropHandle(h) ==
  /\ handle[h] # None
  /\ \A t \in Threads : frame[t].from # h
  /\ handle' = [handle EXCEPT ![h] = None]
  /\ UNCHANGED <<cancelled, frame>>
  /\ DropUnreachable(0)

Cancel ==
  /\ ~cancelled
  /\ cancelled' = TRUE
  /\ UNCHANGED <<used, handle, frame>>

\* Entry of prepare_incoming: the check, the early return of a clone when the
\* index is there, and the reservation of the retained buffers.
Prepare(t, h, into, r) ==
  /\ frame[t].pc = "idle"
  /\ handle[h] # None /\ into \in Free
  /\ r \notin Kept(handle, frame)
  /\ CASE cancelled -> UNCHANGED <<used, handle, frame>>
       [] ~cancelled /\ handle[h].index # None ->
            /\ handle' = [handle EXCEPT ![into] = handle[h]]
            /\ UNCHANGED <<used, frame>>
       [] ~cancelled /\ handle[h].index = None ->
            /\ IF used + IndexBytes <= Limit
               THEN /\ used' = used + IndexBytes
                    /\ frame' = [frame EXCEPT ![t] =
                         [pc |-> "scratch", from |-> h, into |-> into, rid |-> r]]
               ELSE UNCHANGED <<used, frame>>
            /\ UNCHANGED handle
  /\ UNCHANGED cancelled

\* The second reservation, for the cursor array; reserve checks again. An
\* error leaves the function and drops the first reservation.
ReserveScratchUnlimited(t) ==  \* mutant: scratch is not checked for room
  /\ frame[t].pc = "scratch"
  /\ used' = used + ScratchBytes
  /\ frame' = [frame EXCEPT ![t].pc = "count"]
  /\ UNCHANGED <<cancelled, handle>>

ReserveScratchStuck(t) ==  \* mutant: waits for room instead of failing
  /\ frame[t].pc = "scratch"
  /\ ~cancelled /\ used + ScratchBytes <= Limit
  /\ used' = used + ScratchBytes
  /\ frame' = [frame EXCEPT ![t].pc = "count"]
  /\ UNCHANGED <<cancelled, handle>>

ReserveScratch(t) ==
  /\ frame[t].pc = "scratch"
  /\ UNCHANGED <<cancelled, handle>>
  /\ IF ~cancelled /\ used + ScratchBytes <= Limit
     THEN /\ used' = used + ScratchBytes
          /\ frame' = [frame EXCEPT ![t].pc = "count"]
     ELSE Return(t) /\ DropUnreachable(0)

\* The two passes over the arcs, each with its cancellation checks; a check
\* that fails returns through ? and drops both reservations.
Pass(t, from, to) ==
  /\ frame[t].pc = from
  /\ UNCHANGED <<cancelled, handle>>
  /\ IF cancelled
     THEN Return(t) /\ DropUnreachable(ScratchOf(t))
     ELSE frame' = [frame EXCEPT ![t].pc = to] /\ UNCHANGED used

CountArcs(t) == Pass(t, "count", "fill")
FillArcs(t)  == Pass(t, "fill", "finish")

\* The new handle keeps the reservations of the old one and the new one;
\* leaving the function drops the scratch reservation.
Finish(t) ==
  /\ frame[t].pc = "finish"
  /\ handle' = [handle EXCEPT ![frame[t].into] =
       [index   |-> frame[t].rid,
        retains |-> handle[frame[t].from].retains \cup {frame[t].rid}]]
  /\ Return(t)
  /\ DropUnreachable(ScratchOf(t))
  /\ UNCHANGED cancelled

Next ==
  \/ \E h, into \in Handles :
       \/ Clone(h, into)
       \/ WithProperties(h, into)
       \/ \E t \in Threads, r \in Rids : Prepare(t, h, into, r)
  \/ \E h \in Handles : DropHandle(h)
  \/ \E t \in Threads : ReserveScratch(t) \/ CountArcs(t) \/ FillArcs(t) \/ Finish(t)
  \/ Cancel

\* A call that has begun runs to its return.
Fairness ==
  \A t \in Threads :
    WF_vars(ReserveScratch(t) \/ CountArcs(t) \/ FillArcs(t) \/ Finish(t))

Spec == Init /\ [][Next]_vars /\ Fairness

-----------------------------------------------------------------------------
TypeOK ==
  /\ used \in 0 .. Limit
  /\ cancelled \in BOOLEAN
  /\ handle \in [Handles -> Snapshot \cup {None}]
  /\ frame \in [Threads -> [pc : PCs, from : Handles \cup {None},
                            into : Handles \cup {None}, rid : Rids \cup {None}]]

InUse(t) == frame[t].pc # "idle"
Building == {t \in Threads : ScratchOf(t) # 0}
Indexes == {handle[h].index : h \in {x \in Handles : handle[x] # None}} \ {None}

\* Bytes of the buffers prepare_incoming has allocated and not freed: every
\* index some handle carries, and per call the offsets, then all of it.
Allocated ==
  LET during(pc) == Cardinality({t \in Threads : frame[t].pc = pc})
  IN  Cardinality(Indexes) * IndexBytes
        + during("count") * OffsetBytes
        + (during("fill") + during("finish")) * (IndexBytes + ScratchBytes)

\* A call under way holds the one reservation it made for its index, and
\* borrows a handle.
CallsHold ==
  \A t \in Threads :
    IF InUse(t)
    THEN /\ frame[t].rid \in Rids
         /\ frame[t].from \in Handles /\ handle[frame[t].from] # None
    ELSE frame[t] = Idle

\* Nobody else holds it.
CallsApart ==
  \A t \in Threads : InUse(t) =>
    /\ \A s \in Threads : InUse(s) /\ s # t => frame[s].rid # frame[t].rid
    /\ \A h \in Handles : handle[h] # None => frame[t].rid \notin handle[h].retains

\* A handle keeps the reservation of its index.
IndexRetained ==
  \A h \in Handles : handle[h] # None => handle[h].index \in handle[h].retains \cup {None}

(* Reservations have one owner each until a snapshot takes them over, and  *)
(* the limit holds. With NoLeak, this is inductive.                        *)
GraphInv == TypeOK /\ CallsHold /\ CallsApart /\ IndexRetained

(* The budget holds exactly the bytes of the indexes some handle or call   *)
(* still owns, on every path out of prepare_incoming (refused, cancelled   *)
(* in either pass, finished) and after clones and drops in any order.      *)
NoLeak ==
  used = Cardinality(Kept(handle, frame)) * IndexBytes
           + Cardinality(Building) * ScratchBytes

(* No buffer of an index exists without bytes reserved for it: a snapshot  *)
(* derived by with_properties or a clone keeps the reservation of the      *)
(* index it shares, even when the handle that built it is gone.            *)
BuffersCharged == Allocated <= used /\ Indexes \subseteq Kept(handle, frame)

(* prepare_incoming returns: callers that together exceed the limit fail   *)
(* and give their bytes back, they never wait for each other.              *)
PrepareReturns == \A t \in Threads : InUse(t) ~> ~InUse(t)
=============================================================================
