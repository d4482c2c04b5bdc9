---------------------------- MODULE DynamicBSuitor -----------------------------
(***************************************************************************)
(* DynamicBSuitorMatcher (matching/DynamicBSuitorMatcher.cpp): after an    *)
(* event only the nodes that lost a partner, or could get a better one,    *)
(* look for partners. A node that drops a partner leaves it a loose end;   *)
(* the path of these is followed until nobody can improve.                 *)
(***************************************************************************)
EXTENDS BSuitor

VARIABLES
  work,     \* nodes whose paths are still to be followed, the next one first
  path      \* the path being followed: [current, prev, looseEnds], or none

matchingVars == <<b, suitors, runVars, work, path>>

NoPath == <<>>
Heaviest == 1000     \* more than any weight

MatchingStart == Unmatched /\ work = <<>> /\ path = NoPath

Ends(nodes) == SelectSeq(nodes, LAMBDA x : x # NoNode)

\* An edge that both ends prefer, or that is one of theirs already.
IsBetterMatch(u, v) == suitors[u].min = NoNode \/ Ranks(u, v, suitors[u].min)
Useless(u, v) ==
  \/ v \in suitors[u].partners /\ u \in suitors[v].partners
  \/ ~IsBetterMatch(u, v) \/ ~IsBetterMatch(v, u)

WithoutNothing(s, x, u) == s      \* mutant: the dropped node keeps its partner
Without(s, x, u) == IF x = NoNode THEN s ELSE Removed(s, x, u)

Insertion(u, v) ==
  /\ ~Useless(u, v)
  /\ LET startU == Dropped(suitors, u, v)
         startV == Dropped(suitors, v, u)
         both == Inserted(Inserted(suitors, u, v), v, u)
     IN  /\ suitors' = Without(Without(both, startU, u), startV, v)
         /\ work' = Ends(<<startU, startV>>)
  /\ UNCHANGED <<b, runVars, path>>

Removal(u, v) ==
  /\ v \in suitors[u].partners
  /\ suitors' = Removed(Removed(suitors, u, v), v, u)
  /\ work' = <<u, v>>
  /\ UNCHANGED <<b, runVars, path>>

UpdateMatching(e) ==
  IF e.added
  THEN \/ Insertion(e.u, e.v)
       \/ Useless(e.u, e.v) /\ UNCHANGED matchingVars
  ELSE \/ Removal(e.u, e.v)
       \/ e.v \notin suitors[e.u].partners /\ UNCHANGED matchingVars

-----------------------------------------------------------------------------
(* trackUpdatePath, one step of its loop at a time.                        *)
Follow ==
  /\ path = NoPath /\ work # <<>>
  /\ path' = <<[current |-> Head(work), prev |-> Heaviest, looseEnds |-> <<>>]>>
  /\ work' = Tail(work)
  /\ UNCHANGED <<b, runVars, suitors>>

\* Neighbours the current node would gain by, and they by it, on an edge no
\* heavier than the one before on the path.
Partners(l) ==
  {x \in Neighbors(l.current) \ suitors[l.current].partners :
     /\ Ranks(l.current, x, suitors[l.current].min)
     /\ Eligible(suitors, l.current, x)
     /\ weight[{l.current, x}] <= l.prev}

\* The next node of the path is the one the partner dropped.
PairUp ==
  /\ path # NoPath
  /\ LET l == path[1]
         partner == BestOf(l.current, Partners(l))
         byCurrent == Dropped(suitors, l.current, partner)
         byPartner == Dropped(suitors, partner, l.current)
         both == Inserted(Inserted(suitors, l.current, partner), partner, l.current)
         loose == l.looseEnds \o Ends(<<byCurrent>>)
     IN  /\ Partners(l) # {}
         /\ suitors' = Without(Without(both, byCurrent, l.current), byPartner, partner)
         /\ IF byPartner # NoNode
            THEN /\ path' = <<[current |-> byPartner, prev |-> weight[{l.current, partner}],
                               looseEnds |-> loose]>>
                 /\ UNCHANGED work
            ELSE path' = NoPath /\ work' = loose \o work
  /\ UNCHANGED <<b, runVars>>

PathEnds ==
  /\ path # NoPath /\ Partners(path[1]) = {}
  /\ path' = NoPath
  /\ work' = path[1].looseEnds \o work
  /\ UNCHANGED <<b, runVars, suitors>>

MatchingStep == Follow \/ PairUp \/ PathEnds
MatchingIdle == work = <<>> /\ path = NoPath
=============================================================================
