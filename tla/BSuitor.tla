-------------------------------- MODULE BSuitor --------------------------------
(***************************************************************************)
(* BSuitorMatcher (matching/BSuitorMatcher.cpp): every node u proposes to  *)
(* b[u] neighbours, heaviest edges first; a node keeps the b best          *)
(* proposals and the suitor it drops for a better one proposes again.      *)
(***************************************************************************)
EXTENDS DynGraph

CONSTANT NoNode     \* none, greater than every node

VARIABLES
  b,              \* b[u]: how many partners u may have
  suitors,        \* [Nodes -> [partners, min]]
  proposed,       \* the same, of the nodes each node proposed to
  who, asked,     \* run: the node whose turn it is, its proposals so far
  displaced       \* run: the suitor just dropped, who proposes next, or none

runVars == <<proposed, who, asked, displaced>>

ASSUME NoNode = N

\* Of two nodes the one with the heavier edge to u ranks higher, then the
\* smaller one; no node has weight 0.
Weight(u, v) == IF v = NoNode THEN 0 ELSE weight[{u, v}]
Ranks(u, x, y) ==
  \/ Weight(u, x) > Weight(u, y)
  \/ Weight(u, x) = Weight(u, y) /\ x < y
BestOf(u, S) == CHOOSE x \in S : \A y \in S \ {x} : Ranks(u, x, y)
WorstOf(u, S) == CHOOSE x \in S : \A y \in S \ {x} : Ranks(u, y, x)

-----------------------------------------------------------------------------
(* MatchingNodeInfo: up to b nodes and, once full, the worst of them.      *)
Empty == [partners |-> {}, min |-> NoNode]
Removed(s, u, x) == [s EXCEPT ![u] = [partners |-> @.partners \ {x}, min |-> NoNode]]
Full(s, u) == Cardinality(s[u].partners) >= b[u]

\* The partner dropped to make room, or none.
Dropped(s, u, x) == IF x \notin s[u].partners /\ Full(s, u) THEN s[u].min ELSE NoNode

Inserted(s, u, x) ==
  LET room == IF Full(s, u) THEN Removed(s, u, s[u].min) ELSE s
      now == room[u].partners \cup {x}
  IN  IF x \in s[u].partners THEN s
      ELSE [room EXCEPT ![u] = [partners |-> now,
                                min |-> IF Cardinality(now) = b[u] THEN WorstOf(u, now) ELSE @.min]]

EligibleOnTie(s, u, x) == Weight(x, u) >= Weight(x, s[x].min)     \* mutant
\* Would x rather have u than the worst of its suitors?
Eligible(s, u, x) == Ranks(x, u, s[x].min)

-----------------------------------------------------------------------------
(* run: findSuitors for every node, whose makeSuitor goes on with the node *)
(* displaced by its proposal.                                              *)
Preferred(u) ==
  LET open == {x \in Neighbors(u) \ proposed[u].partners : Eligible(suitors, u, x)}
  IN  IF open = {} THEN NoNode ELSE BestOf(u, open)

Nobody == [u \in Nodes |-> Empty]

Unmatched ==
  /\ suitors = Nobody /\ proposed = Nobody
  /\ who = 0 /\ asked = 0 /\ displaced = NoNode

MakeSuitor(u, v) ==
  LET left == Dropped(suitors, v, u)
      made == Inserted(proposed, u, v)
  IN  /\ suitors' = Inserted(suitors, v, u)
      /\ proposed' = IF left = NoNode THEN made ELSE Removed(made, left, v)
      /\ displaced' = left

FindSuitors ==
  /\ who \in Nodes /\ displaced = NoNode
  /\ IF asked = b[who]
     THEN who' = who + 1 /\ asked' = 0 /\ UNCHANGED <<suitors, proposed, displaced>>
     ELSE /\ asked' = asked + 1 /\ UNCHANGED who
          /\ IF Preferred(who) = NoNode
             THEN UNCHANGED <<suitors, proposed, displaced>>
             ELSE MakeSuitor(who, Preferred(who))
  /\ UNCHANGED b

\* A displaced node looks for another partner, once.
Displaced ==
  /\ displaced # NoNode
  /\ IF Preferred(displaced) = NoNode
     THEN displaced' = NoNode /\ UNCHANGED <<suitors, proposed>>
     ELSE MakeSuitor(displaced, Preferred(displaced))
  /\ UNCHANGED <<b, who, asked>>

RunStep == FindSuitors \/ Displaced
RunDone == who = N /\ displaced = NoNode
=============================================================================
