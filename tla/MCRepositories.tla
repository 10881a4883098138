---------------------------- MODULE MCRepositories ----------------------------
(* Two callers, two owners, each of any table, and two rows.                 *)
EXTENDS Repositories, TLC

AnyTable == [Owners -> Table]

Symmetry == Permutations(Owners) \cup Permutations(Rows) \cup Permutations(Callers)
              \cup Permutations(Hashes) \cup Permutations(Columns)
=============================================================================
