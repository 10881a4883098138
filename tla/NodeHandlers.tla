----------------------------- MODULE NodeHandlers -----------------------------
(***************************************************************************)
(* What the models of the control plane's node handlers share: the nodes     *)
(* table and where each handler is.  NodeTable keeps the columns of a row    *)
(* that registrations and configurations write, NodeContacts those that tell *)
(* who asks and when.                                                       *)
(***************************************************************************)
CONSTANTS
  Nodes,    \* node ids
  Tokens,   \* credentials, given by the operator or generated
  Handlers  \* the request goroutines of the control plane

VARIABLES
  rows,  \* the table: a map from node id to row
  pc     \* pc[h]: the next statement of the handler on goroutine h

Goto(h, position) == pc' = [pc EXCEPT ![h] = position]
=============================================================================
