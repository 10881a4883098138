---------------------------- MODULE MCMetricsStore ----------------------------
(* In memory: histories longer than the store keeps, and a reader between    *)
(* range and read; its entries differ by their times.  InfluxDB: four        *)
(* requests store metrics at the same time and any batch may fail, enough    *)
(* for three errors after one call answered.                                *)
EXTENDS MetricsStore, TLC

Symmetric == Permutations(Calls)
=============================================================================
