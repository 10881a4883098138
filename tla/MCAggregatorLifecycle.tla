------------------------ MODULE MCAggregatorLifecycle ------------------------
(* Two nodes, so that a batch can be cancelled between two forwards, and two *)
(* handlers, so that one can be drained while another is not.                *)
EXTENDS AggregatorLifecycle
=============================================================================
