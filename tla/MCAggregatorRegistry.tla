------------------------ MODULE MCAggregatorRegistry ------------------------
(* Two nodes and two concurrent request goroutines: enough for a heartbeat, *)
(* a registration and the cleanup of one node to interleave, next to a node *)
(* that must not be affected.                                               *)
EXTENDS AggregatorRegistry
=============================================================================
