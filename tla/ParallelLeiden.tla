---------------------------- MODULE ParallelLeiden ----------------------------
(***************************************************************************)
(* One round of run of ParallelLeiden: all threads move nodes between      *)
(* communities until no node is queued, then, unless every node is alone,  *)
(* they split every community into refined ones, the nodes of the next     *)
(* round's graph.                                                          *)
(*                                                                         *)
(* The first round starts with every node alone. In a later one the nodes  *)
(* are refined communities of the round before and several of them may be  *)
(* in one community. Cases gives the graphs and partitions to begin with   *)
(* and how many moves to allow in each.                                    *)
(***************************************************************************)
EXTENDS LeidenMove, LeidenRefine

CONSTANT Cases    \* a set of [row, result, moves]

ASSUME CasesAssumption ==
  \A c \in Cases : c.row \in [Nodes -> Seq(Nodes)] /\ c.result \in [Nodes -> Nodes]

VARIABLE phase    \* "move", "refine" or "done"

vars == <<row, result, phase, moveVars, refineVars>>

Init ==
  /\ \E c \in Cases : row = c.row /\ result = c.result /\ MoveInit(c.moves)
  /\ phase = "move"
  /\ RefineBlank

Move(t) ==
  /\ phase = "move" /\ MoveStep(t)
  /\ UNCHANGED <<row, phase, refineVars>>

\* The parallel regions join; numberOfSubsets decides whether to go on.
Turn ==
  /\ phase = "move" /\ MoveDone
  /\ IF Cardinality(Range(result)) = N
     THEN phase' = "done" /\ UNCHANGED left
     ELSE phase' = "refine" /\ left' = Nodes
  /\ UNCHANGED <<row, result, moveVars, refined, singleton, held, rlocal, slipped>>

Refine(t) ==
  /\ phase = "refine" /\ RefineStep(t)
  /\ UNCHANGED <<row, result, phase, moveVars>>

EndRound ==
  /\ phase = "refine" /\ RefineDone
  /\ phase' = "done"
  /\ UNCHANGED <<row, result, moveVars, refineVars>>

Next == Turn \/ EndRound \/ \E t \in Threads : Move(t) \/ Refine(t)

\* Every thread of the team runs.
Spec ==
  /\ Init /\ [][Next]_vars
  /\ WF_vars(Turn) /\ WF_vars(EndRound)
  /\ \A t \in Threads : WF_vars(Move(t)) /\ WF_vars(Refine(t))
=============================================================================
