--------------------------- MODULE MCPreparedGraph ---------------------------
(***************************************************************************)
(* Two nodes and one weighted arc: an index takes 40 bytes, its scratch 16. *)
(* The limit of 100 fits two indexes, or one index and a call under way.   *)
(***************************************************************************)
EXTENDS PreparedGraph
=============================================================================
