-------------------------- MODULE MCMetricsPipeline --------------------------
(* The agent of n1 retries once and collects twice; that of n2 collects once *)
(* and does not retry, but its samples share the batches of n1, and nothing   *)
(* says that the control plane ever stores one.                              *)
EXTENDS MetricsPipeline

CONSTANTS n1, n2

TwoNodes == {n1, n2}
RetriesOf == [n \in TwoNodes |-> IF n = n1 THEN 1 ELSE 0]
SamplesOf == [n \in TwoNodes |-> IF n = n1 THEN 2 ELSE 1]
=============================================================================
