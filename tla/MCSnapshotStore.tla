--------------------------- MODULE MCSnapshotStore ---------------------------
(***************************************************************************)
(* Writers on one path: a prepared directed graph, one with every kind of  *)
(* property, any other a bare graph; and readers that may come at any time. *)
(***************************************************************************)
EXTENDS SnapshotStore

CONSTANTS prepared, attributed

MCPartsOf ==
  [w \in Writers |->
     CASE w = prepared   -> {1, 2, 3, 4}
       [] w = attributed -> {1, 2, 5, 6, 7}
       [] OTHER          -> {1, 2}]
=============================================================================
