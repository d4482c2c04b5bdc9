------------------------------- MODULE MCDynamic -------------------------------
(***************************************************************************)
(* Four nodes. The initial graphs are a square, a path with an isolated    *)
(* node, a star and a triangle with a tail; the weights are all equal, all *)
(* different, or two pairs of equal ones; nodes have one partner, or the   *)
(* inner two have two.                                                     *)
(***************************************************************************)
EXTENDS DynamicAlgorithms

Graphs4 == {
  {{0, 1}, {1, 2}, {2, 3}, {0, 3}},
  {{0, 1}, {1, 2}},
  {{0, 1}, {0, 2}, {0, 3}},
  {{0, 1}, {1, 2}, {0, 2}, {2, 3}}}

Equal == [p \in Pairs |-> 1]
Distinct == [p \in Pairs |-> 1 + ((5 * Min(p) + 3 * Max(p)) % 7)]
Mixed == [p \in Pairs |-> 1 + ((Min(p) + Max(p)) % 2)]

AllStarts ==
  {[edges |-> g, weight |-> w, b |-> k] :
     g \in Graphs4, w \in {Equal, Distinct, Mixed}, k \in {[u \in Nodes |-> 1], [u \in Nodes |-> IF u \in {1, 2} THEN 2 ELSE 1]}}
=============================================================================
