-------------------------- MODULE ConcurrentUnionFind --------------------------
(***************************************************************************)
(* NetworKit::ConcurrentUnionFind<false>: one array of atomic parents, find  *)
(* with path halving by plain stores, merge by compare and exchange and by *)
(* rank. One action is one atomic access. Every access of this variant is  *)
(* relaxed, or an acquire load of a relaxed store, which orders nothing:   *)
(* memory is coherent element by element and no more. written[i] is the    *)
(* modification order of parent[i], and a load returns any value not older *)
(* than the last one its thread has seen there; an exchange acts on the    *)
(* last. With Stale = FALSE every load returns the last value.             *)
(*                                                                         *)
(* A root holds -1 - rank, another element its parent.                     *)
(***************************************************************************)
EXTENDS Integers, SequencesExt

CONSTANTS
  Threads,
  N,          \* elements are 0 .. N - 1
  Stale,      \* loads may return old values
  Starts,     \* forests to begin with, left by merges every thread has seen
  None

Elements == 0 .. N - 1

ASSUME UnionFindAssumption ==
  /\ N \in Nat \ {0} /\ Stale \in BOOLEAN
  /\ Starts \subseteq [Elements -> Int]

VARIABLES
  written,    \* [Elements -> the values of parent[i], oldest first]
  view,       \* [Threads -> [Elements -> position of the newest value seen]]
  frame,      \* [Threads -> the frame of find or merge]
  reply       \* [Threads -> what the last call returned]

vars == <<written, view, frame, reply>>

parent == [i \in Elements |-> Last(written[i])]

\* u, v: the arguments; x: find's cursor; p: its last load; ru, rv: the roots
\* found; vu, vv: the values loaded there.
Blank == [op |-> "none", pc |-> "idle", u |-> 0, v |-> 0, x |-> 0, p |-> 0,
          ru |-> 0, rv |-> 0, vu |-> 0, vv |-> 0]

Init ==
  /\ \E start \in Starts : written = [i \in Elements |-> <<start[i]>>]
  /\ view = [t \in Threads |-> [i \in Elements |-> 1]]
  /\ frame = [t \in Threads |-> Blank]
  /\ reply = [t \in Threads |-> None]

-----------------------------------------------------------------------------
At(t, pc) == frame[t].pc = pc
Readable(t, i) == IF Stale THEN view[t][i] .. Len(written[i]) ELSE {Len(written[i])}

\* Position k of the values of element i is loaded.
See(t, i, k) == view' = [view EXCEPT ![t][i] = k] /\ UNCHANGED <<written, reply>>

Put(t, i, value) ==
  /\ written' = [written EXCEPT ![i] = IF Stale THEN Append(@, value) ELSE <<value>>]
  /\ view' = [view EXCEPT ![t][i] = Len(written'[i])]

Return(t, r) == frame' = [frame EXCEPT ![t] = Blank] /\ reply' = [reply EXCEPT ![t] = r]

\* find returns r to the call it is part of.
FindReturns(t, r) ==
  LET f == frame[t]
  IN CASE f.op = "find" -> Return(t, <<"found", r>>)
       [] f.op = "merge_u" ->
            /\ frame' = [frame EXCEPT ![t] = [f EXCEPT !.op = "merge_v", !.pc = "load", !.x = f.v,
                                                       !.p = 0, !.ru = r]]
            /\ UNCHANGED reply
       [] f.op = "merge_v" /\ r = f.ru -> Return(t, <<"merged", FALSE>>)
       [] f.op = "merge_v" /\ r # f.ru ->
            /\ frame' = [frame EXCEPT ![t] = [f EXCEPT !.pc = "rank_u", !.x = 0, !.p = 0, !.rv = r]]
            /\ UNCHANGED reply

CallFind(t, u) ==
  /\ At(t, "idle")
  /\ frame' = [frame EXCEPT ![t] = [Blank EXCEPT !.op = "find", !.pc = "load", !.u = u, !.x = u]]
  /\ UNCHANGED <<written, view, reply>>

CallMerge(t, u, v) ==
  /\ At(t, "idle")
  /\ frame' = [frame EXCEPT ![t] = [Blank EXCEPT !.op = "merge_u", !.pc = "parent_u", !.u = u, !.v = v]]
  /\ UNCHANGED <<written, view, reply>>

-----------------------------------------------------------------------------
(* find: the first load of an element, and a second one if it was a root.  *)

LoadParent(t, k) ==
  LET f == frame[t]
      p == written[f.x][k]
  IN /\ At(t, "load") /\ See(t, f.x, k)
     /\ frame' = [frame EXCEPT ![t] = IF p < 0 THEN [f EXCEPT !.pc = "reload"]
                                      ELSE [f EXCEPT !.pc = "load_grand", !.p = p]]

ReloadParent(t, k) ==
  LET f == frame[t]
      p == written[f.x][k]
  IN /\ At(t, "reload") /\ view' = [view EXCEPT ![t][f.x] = k] /\ UNCHANGED written
     /\ IF p < 0 THEN FindReturns(t, f.x)
        ELSE /\ frame' = [frame EXCEPT ![t] = [f EXCEPT !.pc = "load_grand", !.p = p]]
             /\ UNCHANGED reply

\* gp takes the place of p once it is known not to be a root's value.
LoadGrand(t, k) ==
  LET f == frame[t]
      gp == written[f.p][k]
  IN /\ At(t, "load_grand") /\ See(t, f.p, k)
     /\ frame' = [frame EXCEPT ![t] = IF gp < 0 THEN [f EXCEPT !.pc = "reload_grand"]
                                      ELSE [f EXCEPT !.pc = "halve", !.p = gp]]

ReloadGrand(t, k) ==
  LET f == frame[t]
      gp == written[f.p][k]
  IN /\ At(t, "reload_grand") /\ view' = [view EXCEPT ![t][f.p] = k] /\ UNCHANGED written
     /\ IF gp < 0 THEN FindReturns(t, f.p)
        ELSE /\ frame' = [frame EXCEPT ![t] = [f EXCEPT !.pc = "halve", !.p = gp]]
             /\ UNCHANGED reply

\* Path halving, a plain store.
Halve(t) ==
  LET f == frame[t]
  IN /\ At(t, "halve") /\ Put(t, f.x, f.p) /\ UNCHANGED reply
     /\ frame' = [frame EXCEPT ![t] = [f EXCEPT !.pc = "load", !.x = f.p, !.p = 0]]

-----------------------------------------------------------------------------
(* merge: the immediate parent check, both finds, the ranks, the exchange. *)

LoadParentU(t, k) ==
  LET f == frame[t]
  IN /\ At(t, "parent_u") /\ See(t, f.u, k)
     /\ frame' = [frame EXCEPT ![t] = [f EXCEPT !.pc = "parent_v", !.p = written[f.u][k]]]

Search(t, f) == [f EXCEPT !.op = "merge_u", !.pc = "load", !.x = f.u, !.p = 0,
                          !.ru = 0, !.rv = 0, !.vu = 0, !.vv = 0]

SameParent(pu, pv) == pu = pv /\ pu >= 0

LoadParentV(t, k) ==
  LET f == frame[t]
  IN /\ At(t, "parent_v") /\ view' = [view EXCEPT ![t][f.v] = k] /\ UNCHANGED written
     /\ IF SameParent(f.p, written[f.v][k]) THEN Return(t, <<"merged", FALSE>>)
        ELSE frame' = [frame EXCEPT ![t] = Search(t, f)] /\ UNCHANGED reply

LoadRankU(t, k) ==
  LET f == frame[t]
  IN /\ At(t, "rank_u") /\ See(t, f.ru, k)
     /\ frame' = [frame EXCEPT ![t] = [f EXCEPT !.pc = "rank_v", !.vu = written[f.ru][k]]]

OutranksEvenly(ru, vu, rv, vv) == vu > vv            \* mutant: a tie is left to the order of arguments
\* The larger rank, the larger element of equal rank, stays a root.
Outranks(ru, vu, rv, vv) == vu > vv \/ (vu = vv /\ ru < rv)

LoadRankVAgain(t, k) ==      \* mutant: the roots are not searched again
  LET f == frame[t]
      vv == written[f.rv][k]
  IN /\ At(t, "rank_v") /\ See(t, f.rv, k)
     /\ frame' = [frame EXCEPT ![t] =
          IF f.vu >= 0 \/ vv >= 0 THEN [f EXCEPT !.pc = "rank_u", !.vu = 0]
          ELSE [f EXCEPT !.pc = "link", !.vv = vv]]
LoadRankV(t, k) ==
  LET f == frame[t]
      vv == written[f.rv][k]
  IN /\ At(t, "rank_v") /\ See(t, f.rv, k)
     /\ frame' = [frame EXCEPT ![t] =
          IF f.vu >= 0 \/ vv >= 0 THEN Search(t, f)
          ELSE IF Outranks(f.ru, f.vu, f.rv, vv)
          THEN [f EXCEPT !.pc = "link", !.ru = f.rv, !.vu = vv, !.rv = f.ru, !.vv = f.vu]
          ELSE [f EXCEPT !.pc = "link", !.vv = vv]]

LinkBlind(t) ==      \* mutant: a store instead of the exchange
  LET f == frame[t]
  IN /\ At(t, "link") /\ Put(t, f.rv, f.ru) /\ UNCHANGED reply
     /\ frame' = [frame EXCEPT ![t].pc = IF f.vu = f.vv THEN "raise" ELSE "joined"]
\* compare_exchange_weak succeeds.
Link(t) ==
  LET f == frame[t]
  IN /\ At(t, "link") /\ parent[f.rv] = f.vv
     /\ Put(t, f.rv, f.ru) /\ UNCHANGED reply
     /\ frame' = [frame EXCEPT ![t].pc = IF f.vu = f.vv THEN "raise" ELSE "joined"]

\* It fails, spuriously perhaps, and the loop begins again.
LinkFails(t) ==
  /\ At(t, "link")
  /\ frame' = [frame EXCEPT ![t] = Search(t, frame[t])]
  /\ UNCHANGED <<written, view, reply>>

\* The rank of the root is raised, unless it is one no longer.
Raise(t) ==
  LET f == frame[t]
  IN /\ At(t, "raise") /\ parent[f.ru] = f.vu
     /\ Put(t, f.ru, f.vu - 1) /\ UNCHANGED reply
     /\ frame' = [frame EXCEPT ![t].pc = "joined"]

\* A failed exchange loads a value: another rank to try with, or a parent.
RaiseFails(t, k) ==
  LET f == frame[t]
      value == written[f.ru][k]
  IN /\ At(t, "raise") /\ value # f.vu /\ See(t, f.ru, k)
     /\ frame' = [frame EXCEPT ![t] = IF value < 0 THEN [f EXCEPT !.vu = value]
                                      ELSE [f EXCEPT !.pc = "joined"]]

MergeReturns(t) == At(t, "joined") /\ Return(t, <<"merged", TRUE>>) /\ UNCHANGED <<written, view>>

Accesses(t) ==
  \/ \E k \in Readable(t, frame[t].x) : LoadParent(t, k) \/ ReloadParent(t, k)
  \/ frame[t].pc \in {"load_grand", "reload_grand"} /\
       \E k \in Readable(t, frame[t].p) : LoadGrand(t, k) \/ ReloadGrand(t, k)
  \/ Halve(t)
  \/ \E k \in Readable(t, frame[t].u) : LoadParentU(t, k)
  \/ \E k \in Readable(t, frame[t].v) : LoadParentV(t, k)
  \/ \E k \in Readable(t, frame[t].ru) : LoadRankU(t, k) \/ RaiseFails(t, k)
  \/ \E k \in Readable(t, frame[t].rv) : LoadRankV(t, k)
  \/ Link(t) \/ LinkFails(t) \/ Raise(t) \/ MergeReturns(t)

Call(t) == \E u, v \in Elements : CallFind(t, u) \/ CallMerge(t, u, v)
Next == \E t \in Threads : Accesses(t) \/ Call(t)
Spec == Init /\ [][Next]_vars
=============================================================================
