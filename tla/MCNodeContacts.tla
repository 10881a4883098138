---------------------------- MODULE MCNodeContacts ----------------------------
(* Two nodes and two handlers, so that one can overtake the other.           *)
EXTENDS NodeContacts, TLC

Symmetry == Permutations(Nodes) \cup Permutations(Tokens) \cup Permutations(Handlers)
=============================================================================
