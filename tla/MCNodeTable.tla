----------------------------- MODULE MCNodeTable -----------------------------
(* Three requests at a time on one node: two registrations and a configure   *)
(* can interleave statement by statement.                                   *)
EXTENDS NodeTable, TLC

Symmetry == Permutations(Handlers) \union Permutations(Tokens) \union Permutations(Names)
=============================================================================
