------------------------------- MODULE MCKadabra -------------------------------
(* Two threads, frames of one and two samples, up to some four epochs. *)
EXTENDS KadabraBetweenness
=============================================================================
