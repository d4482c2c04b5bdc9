---------------------------- MODULE DisjointSets ----------------------------
(***************************************************************************)
(* What a concurrent union-find promises: a merge joins the two sets in    *)
(* one step during the call, or answers that they are one set already;     *)
(* one only of several racing merges of two sets answers that it joined    *)
(* them; a find answers with an element of the set it is asked for.        *)
(***************************************************************************)
CONSTANTS
  Threads, Elements,
  Starts,     \* partitions to begin with
  None

VARIABLES
  sets,       \* a partition of Elements
  asked,      \* [Threads -> None or a call, with what it has done so far]
  reply       \* [Threads -> the answer of the last call]

dvars == <<sets, asked, reply>>

SetOf(x) == CHOOSE S \in sets : x \in S
Merging(u, v, joined) == [op |-> "merge", u |-> u, v |-> v, joined |-> joined]
Finding(u) == [op |-> "find", u |-> u]

Init ==
  /\ sets \in Starts
  /\ asked = [t \in Threads |-> None] /\ reply = [t \in Threads |-> None]

Ask(t, call) ==
  /\ asked[t] = None /\ asked' = [asked EXCEPT ![t] = call]
  /\ UNCHANGED <<sets, reply>>

Join(t, u, v) ==
  /\ asked[t] = Merging(u, v, FALSE) /\ SetOf(u) # SetOf(v)
  /\ sets' = (sets \ {SetOf(u), SetOf(v)}) \cup {SetOf(u) \cup SetOf(v)}
  /\ asked' = [asked EXCEPT ![t] = Merging(u, v, TRUE)]
  /\ UNCHANGED reply

Answer(t, r) ==
  /\ asked' = [asked EXCEPT ![t] = None]
  /\ reply' = [reply EXCEPT ![t] = r]
  /\ UNCHANGED sets

\* True for the merge that joined the sets, false for one that finds them joined.
Merged(t, u, v) ==
  \/ asked[t] = Merging(u, v, TRUE) /\ Answer(t, <<"merged", TRUE>>)
  \/ asked[t] = Merging(u, v, FALSE) /\ SetOf(u) = SetOf(v) /\ Answer(t, <<"merged", FALSE>>)

Found(t, u, r) == asked[t] = Finding(u) /\ r \in SetOf(u) /\ Answer(t, <<"found", r>>)

Next ==
  \E t \in Threads, u, v \in Elements :
    \/ Ask(t, Merging(u, v, FALSE)) \/ Ask(t, Finding(u))
    \/ Join(t, u, v) \/ Merged(t, u, v) \/ Found(t, u, v)

Spec == Init /\ [][Next]_dvars
=============================================================================
