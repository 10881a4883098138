----------------------------- MODULE NodeContacts -----------------------------
(***************************************************************************)
(* Who a node is to the control plane and when it was last heard of          *)
(* (api/gin_handlers.go, repository/node_repository.go): an agent that asks  *)
(* for its configuration shows nothing but a token, by which FindByToken     *)
(* finds a row; that contact and every registration write last_active_at     *)
(* with a time taken before the statement is sent.  Each SQL statement and   *)
(* each call of time.Now is one action.                                     *)
(*                                                                         *)
(* A node's configuration is a value of its own, identified with the node.   *)
(* GetAll orders rows by name; names are the operators', so any row may come *)
(* first.  The other columns are in NodeTable, next to which the proofs      *)
(* speak of this module: hence names like ContactsInit.                      *)
(***************************************************************************)
EXTENDS Integers, NodeHandlers

CONSTANTS
  Nothing,  \* no row, no time
  MaxTime   \* bound: the clock

ASSUME ContactsAssumption ==
  Nothing \notin Nodes \cup Tokens /\ MaxTime \in Nat

VARIABLES
  now,      \* the clock
  asker,    \* asker[h]: the node whose request it serves
  token,    \* token[h]: the token of that request
  found,    \* found[h]: the row the handler works on
  at,       \* at[h]: what time.Now returned to it
  served,   \* history: who was answered whose configuration
  settled   \* history: the last contact written while no other was under way

contactsVars == <<now, rows, pc, asker, token, found, at, served, settled>>

Time == 0..MaxTime
Contact == [token : Tokens, lastActive : Time]

ContactsTypeOK ==
  /\ now \in Time
  /\ DOMAIN rows \subseteq Nodes /\ rows \in [DOMAIN rows -> Contact]
  /\ pc \in [Handlers -> {"idle", "lookup", "stampNew", "create", "stampOld",
                          "update", "find", "stamp", "touch", "answer"}]
  /\ asker \in [Handlers -> Nodes \cup {Nothing}]
  /\ token \in [Handlers -> Tokens \cup {Nothing}]
  /\ found \in [Handlers -> DOMAIN rows \cup {Nothing}]
  /\ at \in [Handlers -> Time \cup {Nothing}]
  /\ served \subseteq Nodes \X Nodes
  /\ settled \in [DOMAIN rows -> Time]

ContactsInit ==
  /\ now = 0
  /\ rows = [n \in {} |-> Nothing] /\ settled = [n \in {} |-> 0]
  /\ pc = [h \in Handlers |-> "idle"]
  /\ asker = [h \in Handlers |-> Nothing] /\ token = asker
  /\ found = asker /\ at = asker
  /\ served = {}
-----------------------------------------------------------------------------
Answered(h) ==
  /\ Goto(h, "idle")
  /\ asker' = [asker EXCEPT ![h] = Nothing] /\ token' = [token EXCEPT ![h] = Nothing]
  /\ found' = [found EXCEPT ![h] = Nothing] /\ at' = [at EXCEPT ![h] = Nothing]

Tick ==
  /\ now < MaxTime /\ now' = now + 1
  /\ UNCHANGED <<rows, pc, asker, token, found, at, served, settled>>

Matching(t) == {n \in DOMAIN rows : rows[n].token = t}

Request(h, n, t, position) ==
  /\ pc[h] = "idle" /\ Goto(h, position)
  /\ asker' = [asker EXCEPT ![h] = n] /\ token' = [token EXCEPT ![h] = t]
  /\ UNCHANGED <<now, rows, found, at, served, settled>>

(* An operator registers a node, with a token of its choice or a generated   *)
(* one.                                                                     *)
Register(h) == \E n \in Nodes, t \in Tokens : Request(h, n, t, "lookup")

(* An agent asks with its node's token; somebody asks with no node's.        *)
Ask(h) ==
  \/ \E n \in DOMAIN rows : Request(h, n, rows[n].token, "find")
  \/ \E t \in Tokens : Matching(t) = {} /\ Request(h, Nothing, t, "find")

(* time.Now, before the statement that will write it is sent.                *)
Stamp(h) ==
  /\ \/ pc[h] = "stampNew" /\ Goto(h, "create")
     \/ pc[h] = "stampOld" /\ Goto(h, "update")
     \/ pc[h] = "stamp" /\ Goto(h, "touch")
  /\ at' = [at EXCEPT ![h] = now]
  /\ UNCHANGED <<now, rows, asker, token, found, served, settled>>

(* A contact with n was written.  It is settled if no other handler is about *)
(* to write to n.                                                           *)
Settle(h, n) ==
  IF \E o \in Handlers \ {h} : /\ pc[o] \in {"create", "update", "touch"}
                               /\ (IF pc[o] = "touch" THEN found[o] ELSE asker[o]) = n
    THEN settled ELSE [settled EXCEPT ![n] = at[h]]
-----------------------------------------------------------------------------
(* Registration: GetByID.                                                   *)
LookupNode(h) ==
  /\ pc[h] = "lookup"
  /\ IF asker[h] \in DOMAIN rows
       THEN Goto(h, "stampOld") /\ found' = [found EXCEPT ![h] = asker[h]]
       ELSE Goto(h, "stampNew") /\ UNCHANGED found
  /\ UNCHANGED <<now, rows, asker, token, at, served, settled>>

(* A plausible slip: the new row has no last_active_at.                      *)
CreateUnstamped(h) ==
  /\ pc[h] = "create" /\ asker[h] \notin DOMAIN rows
  /\ rows' = [m \in DOMAIN rows \cup {asker[h]} |->
                IF m = asker[h] THEN [token |-> token[h], lastActive |-> Nothing]
                ELSE rows[m]]
  /\ settled' = [m \in DOMAIN rows' |-> IF m = asker[h] THEN at[h] ELSE settled[m]]
  /\ Answered(h)
  /\ UNCHANGED <<now, served>>

(* INSERT; a row that is there already is an error (StatementFails).         *)
CreateNode(h) ==
  /\ pc[h] = "create" /\ asker[h] \notin DOMAIN rows
  /\ rows' = [m \in DOMAIN rows \cup {asker[h]} |->
                IF m = asker[h] THEN [token |-> token[h], lastActive |-> at[h]]
                ELSE rows[m]]
  /\ settled' = [m \in DOMAIN rows' |-> IF m = asker[h] THEN at[h] ELSE settled[m]]
  /\ Answered(h)
  /\ UNCHANGED <<now, served>>

(* A plausible slip: last_active_at is not among the columns of the UPDATE.  *)
UpdateUntimed(h) ==
  /\ pc[h] = "update"
  /\ settled' = Settle(h, found[h])
  /\ Answered(h)
  /\ UNCHANGED <<now, rows, served>>

(* UPDATE of the whole row; the token is the old one.                        *)
UpdateNode(h) ==
  /\ pc[h] = "update"
  /\ rows' = [rows EXCEPT ![found[h]].lastActive = at[h]]
  /\ settled' = Settle(h, found[h])
  /\ Answered(h)
  /\ UNCHANGED <<now, served>>

(* The database fails a statement: an error is answered.                     *)
StatementFails(h) ==
  /\ pc[h] \in {"lookup", "create", "update", "find"}
  /\ Answered(h)
  /\ UNCHANGED <<now, rows, served, settled>>
-----------------------------------------------------------------------------
(* A plausible slip: the rows share one variable, which holds the last of    *)
(* them when the matching one is returned.                                  *)
FindByTokenLast(h) ==
  /\ pc[h] = "find" /\ Matching(token[h]) # {}
  /\ \E n \in DOMAIN rows : found' = [found EXCEPT ![h] = n]
  /\ Goto(h, "stamp")
  /\ UNCHANGED <<now, rows, asker, token, at, served, settled>>

(* All rows are read, and the first whose hash the token matches is taken.   *)
FindByToken(h) ==
  /\ pc[h] = "find"
  /\ \E n \in Matching(token[h]) : found' = [found EXCEPT ![h] = n]
  /\ Goto(h, "stamp")
  /\ UNCHANGED <<now, rows, asker, token, at, served, settled>>

(* There is none: 401.                                                      *)
NotFound(h) ==
  /\ pc[h] = "find" /\ Matching(token[h]) = {}
  /\ Answered(h)
  /\ UNCHANGED <<now, rows, served, settled>>

UpdateLastActiveAt(h) ==
  /\ pc[h] = "touch"
  /\ rows' = [rows EXCEPT ![found[h]].lastActive = at[h]]
  /\ settled' = Settle(h, found[h])
  /\ Goto(h, "answer")
  /\ UNCHANGED <<now, asker, token, found, at, served>>

(* It fails: a warning is logged, and the configuration answered all the     *)
(* same.                                                                    *)
TouchFails(h) ==
  /\ pc[h] = "touch"
  /\ Goto(h, "answer")
  /\ UNCHANGED <<now, rows, asker, token, found, at, served, settled>>

(* The configuration in the copy FindByToken returned.                       *)
GetNodeConfiguration(h) ==
  /\ pc[h] = "answer"
  /\ served' = IF asker[h] = Nothing THEN served
               ELSE served \cup {<<asker[h], found[h]>>}
  /\ Answered(h)
  /\ UNCHANGED <<now, rows, settled>>

ContactsNext ==
  \/ Tick
  \/ \E h \in Handlers :
       \/ Register(h) \/ Ask(h) \/ Stamp(h) \/ StatementFails(h)
       \/ LookupNode(h) \/ CreateNode(h) \/ UpdateNode(h)
       \/ FindByToken(h) \/ NotFound(h) \/ UpdateLastActiveAt(h) \/ TouchFails(h)
       \/ GetNodeConfiguration(h)

ContactsSpec == ContactsInit /\ [][ContactsNext]_contactsVars
-----------------------------------------------------------------------------
(* A contact that was written while no other of its node was under way is    *)
(* forgotten only for a later one: no handler puts an older time back.       *)
SettledContactsStay == \A n \in DOMAIN rows : rows[n].lastActive >= settled[n]

(* Where every node has a token of its own, an agent gets its own node's     *)
(* configuration or none.                                                   *)
OwnTokens == \A m, n \in DOMAIN rows : m # n => rows[m].token # rows[n].token
OwnConfiguration == OwnTokens => \A p \in served : p[1] = p[2]
=============================================================================
