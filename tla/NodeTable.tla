------------------------------ MODULE NodeTable ------------------------------
(***************************************************************************)
(* The control plane's nodes table and the handlers that write it: node     *)
(* registration (HandleRegisterNodeGin: look the row up, then insert it or   *)
(* write the whole row back) and configuration (HandleUpdateNode-            *)
(* ConfigurationGin: check the token, look the row up, write one column),    *)
(* and the one that answers a node's token (HandleGetNodeTokenGin).          *)
(* Each SQL statement is one action; no transaction spans two of them, so    *)
(* the handlers of one node interleave statement by statement.               *)
(*                                                                         *)
(* Registrations come from operators, who name the node, and from the        *)
(* aggregator's ValidateNode, which posts an id and a token only.            *)
(*                                                                         *)
(* A row keeps the columns that tell the writers apart: the credential (hash *)
(* and encrypted token, always written together), the name (which every      *)
(* registration sets), the group (which a registration may set) and the      *)
(* configuration.  No handler deletes a row, sets a status or leaves a       *)
(* configuration empty.                                                     *)
(***************************************************************************)
EXTENDS NodeHandlers

CONSTANTS
  Names,     \* node names
  Groups,    \* ids of node groups
  Configs,   \* configurations validateNodeConfiguration accepts
  Default,   \* getDefaultNodeConfiguration
  None       \* an absent name, group or row

ASSUME TableAssumption ==
  /\ None \notin Tokens \union Names \union Groups \union Configs \union {Default}
  /\ Default \notin Configs

VARIABLES
  request,     \* request[h]: the request it serves
  node,        \* node[h]: its local copy of the row
  intended,    \* history: the rows if each writer had changed its columns only
  overlapped,  \* history: nodes written between a registration's read and write
  handed,      \* history: handed[n], the tokens answered to operators
  turnedAway   \* history: nodes whose credential a validation did not accept

vars == <<rows, pc, request, node, intended, overlapped, handed, turnedAway>>

Row == [token : Tokens, name : Names, group : Groups \union {None},
        config : Configs \union {Default}]
Registration == [kind : {"register"}, id : Nodes, token : Tokens,
                 name : Names \union {None}, group : Groups \union {None}]
Configuration == [kind : {"configure"}, id : Nodes, token : Tokens, config : Configs]

(* A handler is at a statement of its own function, past the checks before it. *)
RequestOf(h) ==
  /\ pc[h] \in {"lookup", "create", "update"} =>
       request[h] \in Registration
  /\ pc[h] \in {"create", "update"} => request[h].name # None
  /\ pc[h] \in {"authenticate", "check", "configure"} => request[h] \in Configuration
  /\ pc[h] \in {"check", "configure"} => request[h].id \in DOMAIN rows

TypeOK ==
  /\ DOMAIN rows \subseteq Nodes /\ rows \in [DOMAIN rows -> Row]
  /\ pc \in [Handlers -> {"idle", "lookup", "create", "update",
                          "authenticate", "check", "configure"}]
  /\ request \in [Handlers -> Registration \union Configuration \union {None}]
  /\ node \in [Handlers -> Row \union {None}]
  /\ \A h \in Handlers : RequestOf(h)
  /\ DOMAIN intended = DOMAIN rows /\ intended \in [DOMAIN rows -> Row]
  /\ overlapped \subseteq DOMAIN rows
  /\ handed \in [Nodes -> SUBSET Tokens]
  /\ turnedAway \subseteq DOMAIN rows

Init ==
  /\ rows = [n \in {} |-> n]
  /\ pc = [h \in Handlers |-> "idle"]
  /\ request = [h \in Handlers |-> None]
  /\ node = [h \in Handlers |-> None]
  /\ intended = rows
  /\ overlapped = {}
  /\ handed = [n \in Nodes |-> {}]
  /\ turnedAway = {}
-----------------------------------------------------------------------------
(* The request is answered; the handler's locals are gone.                  *)
Respond(h) ==
  /\ Goto(h, "idle")
  /\ request' = [request EXCEPT ![h] = None]
  /\ node' = [node EXCEPT ![h] = None]

Serve(h, r, position) ==
  /\ pc[h] = "idle"
  /\ request' = [request EXCEPT ![h] = r]
  /\ Goto(h, position)
  /\ UNCHANGED <<rows, node, intended, overlapped, handed, turnedAway>>

(* An operator registers a node or changes one; a token that is not given   *)
(* is generated.                                                            *)
OperatorRegisters(h) ==
  \E n \in Nodes, t \in Tokens, name \in Names, g \in Groups \union {None} :
    Serve(h, [kind |-> "register", id |-> n, token |-> t, name |-> name, group |-> g],
          "lookup")

(* The aggregator's ValidateNode asks about a node and the token its agent   *)
(* presented: its payload has no name, and the token under another key.      *)
AggregatorValidates(h) ==
  \E n \in Nodes, t \in Tokens :
    Serve(h, [kind |-> "register", id |-> n, token |-> t, name |-> None, group |-> None],
          "lookup")

OperatorConfigures(h) ==
  \E n \in Nodes, t \in Tokens, c \in Configs :
    Serve(h, [kind |-> "configure", id |-> n, token |-> t, config |-> c], "authenticate")

(* The database fails a statement, or the handler rejects the input: an      *)
(* error is answered and nothing was written.                               *)
Fail(h) ==
  /\ pc[h] # "idle"
  /\ Respond(h)
  /\ UNCHANGED <<rows, intended, overlapped, handed, turnedAway>>
-----------------------------------------------------------------------------
(* ShouldBindJSON of HandleRegisterNodeGin: name is required.                *)
BindFails(h) ==
  /\ pc[h] = "lookup" /\ request[h].name = None
  /\ Respond(h)
  /\ turnedAway' = IF request[h].id \in DOMAIN rows
                      /\ rows[request[h].id].token = request[h].token
                   THEN turnedAway \union {request[h].id} ELSE turnedAway
  /\ UNCHANGED <<rows, intended, overlapped, handed>>

(* GetByID.                                                                 *)
Lookup(h) ==
  LET n == request[h].id IN
  /\ pc[h] = "lookup" /\ request[h].name # None
  /\ IF n \in DOMAIN rows
       THEN Goto(h, "update") /\ node' = [node EXCEPT ![h] = rows[n]]
       ELSE Goto(h, "create") /\ UNCHANGED node
  /\ UNCHANGED <<rows, request, intended, overlapped, handed, turnedAway>>

PutRow(table, n, row) == [m \in DOMAIN table \union {n} |-> IF m = n THEN row ELSE table[m]]

NewRow(r) == [token |-> r.token, name |-> r.name, group |-> r.group, config |-> Default]

(* A plausible slip: the insert replaces a row that came in between.        *)
CreateUpserts(h) ==
  LET r == request[h] IN
  /\ pc[h] = "create"
  /\ rows' = PutRow(rows, r.id, NewRow(r))
  /\ intended' = PutRow(intended, r.id, NewRow(r))
  /\ handed' = [handed EXCEPT ![r.id] = @ \union {r.token}]
  /\ Respond(h)
  /\ UNCHANGED <<overlapped, turnedAway>>

(* INSERT: the primary key keeps out a second row of the same id, which is   *)
(* an error (Fail); the answer carries the token.                            *)
Create(h) ==
  LET r == request[h] IN
  /\ pc[h] = "create" /\ r.id \notin DOMAIN rows
  /\ rows' = PutRow(rows, r.id, NewRow(r))
  /\ intended' = PutRow(intended, r.id, NewRow(r))
  /\ handed' = [handed EXCEPT ![r.id] = @ \union {r.token}]
  /\ Respond(h)
  /\ UNCHANGED <<overlapped, turnedAway>>

(* A plausible slip: a request without a group empties it.                   *)
RegisteredDropsGroup(row, r) == [row EXCEPT !.name = r.name, !.group = r.group]

(* What a registration changes of an existing row.                          *)
Registered(row, r) ==
  [row EXCEPT !.name = r.name, !.group = IF r.group # None THEN r.group ELSE @]

(* What the operator asked for: columns the request leaves out stay.        *)
Asked(row, r) ==
  [token |-> row.token, name |-> r.name, config |-> row.config,
   group |-> IF r.group = None THEN row.group ELSE r.group]

(* Whoever writes n while another registration holds a copy of its row.     *)
Overlaps(h, n) ==
  IF \E other \in Handlers \ {h} : pc[other] = "update" /\ request[other].id = n
  THEN overlapped \union {n} ELSE overlapped

(* UPDATE of the whole row from the local copy.                             *)
Update(h) ==
  LET r == request[h] IN
  /\ pc[h] = "update"
  /\ rows' = [rows EXCEPT ![r.id] = Registered(node[h], r)]
  /\ intended' = [intended EXCEPT ![r.id] = Asked(intended[r.id], r)]
  /\ overlapped' = Overlaps(h, r.id)
  /\ Respond(h)
  /\ UNCHANGED <<handed, turnedAway>>
-----------------------------------------------------------------------------
(* validateNodeAuthentication: the token must be that of the row.            *)
Authenticate(h) ==
  LET r == request[h] IN
  /\ pc[h] = "authenticate"
  /\ r.id \in DOMAIN rows /\ rows[r.id].token = r.token
  /\ Goto(h, "check")
  /\ UNCHANGED <<rows, request, node, intended, overlapped, handed, turnedAway>>

(* GetByID again, to see that the node is there; the copy is not used.       *)
CheckNode(h) ==
  /\ pc[h] = "check" /\ request[h].id \in DOMAIN rows
  /\ Goto(h, "configure")
  /\ UNCHANGED <<rows, request, node, intended, overlapped, handed, turnedAway>>

(* UpdateConfiguration writes the one column.                               *)
UpdateConfiguration(h) ==
  LET r == request[h] IN
  /\ pc[h] = "configure"
  /\ rows' = [rows EXCEPT ![r.id].config = r.config]
  /\ intended' = [intended EXCEPT ![r.id].config = r.config]
  /\ overlapped' = Overlaps(h, r.id)
  /\ Respond(h)
  /\ UNCHANGED <<handed, turnedAway>>

(* HandleGetNodeTokenGin: an operator who lost a node's token is answered    *)
(* the encrypted one of the row, read by one statement.                      *)
GetNodeToken ==
  /\ \E n \in DOMAIN rows : handed' = [handed EXCEPT ![n] = @ \union {rows[n].token}]
  /\ UNCHANGED <<rows, pc, request, node, intended, overlapped, turnedAway>>

Next ==
  \/ GetNodeToken
  \/ \E h \in Handlers :
       \/ OperatorRegisters(h) \/ AggregatorValidates(h) \/ OperatorConfigures(h)
       \/ Fail(h) \/ BindFails(h) \/ Lookup(h) \/ Create(h) \/ Update(h)
       \/ Authenticate(h) \/ CheckNode(h) \/ UpdateConfiguration(h)

Spec == Init /\ [][Next]_vars
-----------------------------------------------------------------------------
(* The token a registration was answered is the node's credential from then  *)
(* on: of several registrations of one new id exactly one is told a token,   *)
(* and the whole rows written back later never bring in another.             *)
HandedTokenIsValid ==
  \A n \in Nodes : \A t \in handed[n] : n \in DOMAIN rows /\ rows[n].token = t

(* The copy a registration is going to write back is of its node's row: the  *)
(* credential in it is current, however long ago it was read, and all of it   *)
(* is as long as nobody wrote in between.                                    *)
CopiesCarryCredential ==
  \A h \in Handlers : pc[h] = "update" =>
    LET n == request[h].id IN
    /\ n \in DOMAIN rows /\ node[h] \in Row
    /\ node[h].token = rows[n].token
    /\ n \notin overlapped => node[h] = rows[n]

(* As long as nobody writes between a registration's read and its write,     *)
(* every column of the row is as the last request that names it says, and a  *)
(* registration that leaves a column out leaves it alone.                    *)
SoloWritesKept == \A n \in DOMAIN rows \ overlapped : rows[n] = intended[n]

(* The credential of a row never changes, whatever row is written back over  *)
(* it (Update writes auth_token_hash and encrypted_auth_token as well).       *)
KeepsCredential == \A n \in DOMAIN rows : n \in DOMAIN rows' /\ rows'[n].token = rows[n].token
CredentialFixed == [][KeepsCredential]_vars

(* "更新指定节点的配置信息": once a configuration was written and answered     *)
(* 200, the row has it until somebody configures the node again.             *)
ConfigurationKept == \A n \in DOMAIN rows : rows[n].config = intended[n].config

(* ValidateNode's comment: if the node exists and the token matches, the      *)
(* registration interface answers success.                                  *)
MatchingTokenIsAccepted == turnedAway = {}
=============================================================================
