---------------------------- MODULE MCNetworkRates ----------------------------
(* Half seconds, two collections a second as by default and a retry after a  *)
(* second; one watched interface and one that is not.  A counter of a few    *)
(* bytes in a range of sixteen stands for one far from its end.              *)
EXTENDS NetworkRates
=============================================================================
