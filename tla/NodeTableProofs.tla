--------------------------- MODULE NodeTableProofs ---------------------------
(***************************************************************************)
(* Proofs about the nodes table, for any number of nodes, requests and       *)
(* values of the columns, and (from "KnowsNode" on) about who a node is to   *)
(* the control plane and when it was last heard of.                          *)
(***************************************************************************)
EXTENDS NodeTable, NodeContacts, Integers, TLAPS

IInv == TypeOK /\ HandedTokenIsValid /\ CopiesCarryCredential /\ SoloWritesKept

(* The table starts empty and no handler runs.                              *)
LEMMA InitIInv == Init => IInv
BY DEF Init, IInv, TypeOK, RequestOf, HandedTokenIsValid, CopiesCarryCredential,
   SoloWritesKept

(* A statement that writes no row: the handler moves on with its own locals. *)
LEMMA QuietStep ==
  ASSUME IInv, NEW h \in Handlers,
         pc' = [pc EXCEPT ![h] = pc'[h]],
         pc'[h] \in {"idle", "lookup", "create", "update",
                     "authenticate", "check", "configure"},
         request' = [request EXCEPT ![h] = request'[h]],
         request'[h] \in Registration \union Configuration \union {None},
         node' = [node EXCEPT ![h] = node'[h]],
         node'[h] \in Row \union {None},
         UNCHANGED <<rows, intended, overlapped, handed>>,
         turnedAway' \subseteq DOMAIN rows,
         RequestOf(h)',
         pc'[h] = "update" => LET n == request'[h].id IN
                              n \in DOMAIN rows /\ node'[h] = rows[n]
  PROVE  IInv'
<1> USE DEF IInv
<1>1. ASSUME NEW g \in Handlers, g # h
      PROVE  pc'[g] = pc[g] /\ request'[g] = request[g] /\ node'[g] = node[g]
  BY <1>1 DEF TypeOK
<1>2. \A g \in Handlers : RequestOf(g)'
  BY <1>1 DEF TypeOK, RequestOf
<1>3. /\ request' \in [Handlers -> Registration \union Configuration \union {None}]
      /\ node' \in [Handlers -> Row \union {None}]
  BY DEF TypeOK
<1>4. TypeOK'
  <2>1. pc' \in [Handlers -> {"idle", "lookup", "create", "update",
                              "authenticate", "check", "configure"}]
    BY DEF TypeOK
  <2> QED
    BY <1>2, <1>3, <2>1 DEF TypeOK
<1>5. CopiesCarryCredential'
  <2>1. \A n \in DOMAIN rows : rows[n] \in Row
    BY DEF TypeOK
  <2> QED
    BY <1>1, <2>1 DEF CopiesCarryCredential
<1> QED
  BY <1>4, <1>5 DEF HandedTokenIsValid, SoloWritesKept

(* Writing a row that is there already.                                     *)
LEMMA PutExisting ==
  ASSUME NEW S, NEW D, NEW table \in [D -> S], NEW n \in D, NEW row
  PROVE  [table EXCEPT ![n] = row] = PutRow(table, n, row)
BY DEF PutRow

(* A registration changes of a row what was asked for and nothing else.     *)
LEMMA RegisteredAsAsked ==
  ASSUME NEW row \in Row, NEW r \in Registration
  PROVE  Registered(row, r) = Asked(row, r)
<1>1. /\ Registered(row, r) = [row EXCEPT !.name = r.name, !.group = Asked(row, r).group]
      /\ Asked(row, r).name = r.name
      /\ Asked(row, r).token = row.token /\ Asked(row, r).config = row.config
  BY DEF Registered, Asked
<1>2. PICK t \in Tokens, name \in Names, group \in Groups \union {None},
           config \in Configs \union {Default} :
        row = [token |-> t, name |-> name, group |-> group, config |-> config]
  BY DEF Row
<1>3. Asked(row, r) = [token |-> t, name |-> r.name, config |-> config,
                       group |-> Asked(row, r).group]
  BY <1>2 DEF Asked
<1> QED
  BY <1>1, <1>2, <1>3

(* A statement that writes row n and ends its handler.                      *)
LEMMA WriteStep ==
  ASSUME IInv, NEW h \in Handlers, NEW n \in Nodes, NEW row \in Row, NEW meant \in Row,
         rows' = PutRow(rows, n, row), intended' = PutRow(intended, n, meant),
         Respond(h),
         n \in DOMAIN rows => row.token = rows[n].token,
         n \in DOMAIN rows => overlapped' = Overlaps(h, n),
         n \notin DOMAIN rows => overlapped' = overlapped,
         n \notin overlapped => row = meant,
         turnedAway' = turnedAway,
         handed' \in [Nodes -> SUBSET Tokens],
         \A m \in Nodes : \A t \in handed'[m] : t \in handed[m] \/ (m = n /\ t = row.token)
  PROVE  IInv'
<1> USE DEF IInv
<1>1. /\ DOMAIN rows' = DOMAIN rows \union {n} /\ DOMAIN intended' = DOMAIN rows \union {n}
      /\ rows'[n] = row /\ intended'[n] = meant
      /\ \A m \in DOMAIN rows : m # n => rows'[m] = rows[m] /\ intended'[m] = intended[m]
  BY DEF PutRow, TypeOK
<1>2. /\ rows' \in [DOMAIN rows' -> Row] /\ intended' \in [DOMAIN rows' -> Row]
      /\ DOMAIN rows' \subseteq Nodes
  BY DEF PutRow, TypeOK
<1>3. /\ pc'[h] = "idle"
      /\ \A g \in Handlers : g # h => /\ pc'[g] = pc[g] /\ request'[g] = request[g]
                                      /\ node'[g] = node[g]
  BY DEF Respond, Goto, TypeOK
<1>4. overlapped \subseteq overlapped' /\ overlapped' \subseteq DOMAIN rows'
  BY <1>1 DEF Overlaps, TypeOK
<1>5. TypeOK'
  <2>1. /\ pc' \in [Handlers -> {"idle", "lookup", "create", "update",
                                 "authenticate", "check", "configure"}]
        /\ request' \in [Handlers -> Registration \union Configuration \union {None}]
        /\ node' \in [Handlers -> Row \union {None}]
    BY DEF Respond, Goto, TypeOK
  <2>2. ASSUME NEW g \in Handlers PROVE RequestOf(g)'
    <3>1. CASE g = h
      BY <1>3, <3>1 DEF RequestOf
    <3>2. CASE g # h
      BY <1>1, <1>3, <3>2 DEF RequestOf, TypeOK
    <3> QED
      BY <3>1, <3>2
  <2>3. DOMAIN intended' = DOMAIN rows' /\ turnedAway' \subseteq DOMAIN rows'
    BY <1>1 DEF TypeOK
  <2> QED
    BY <1>2, <1>4, <2>1, <2>2, <2>3 DEF TypeOK
<1>6. HandedTokenIsValid'
  BY <1>1 DEF HandedTokenIsValid
<1>7. CopiesCarryCredential'
  <2> SUFFICES ASSUME NEW g \in Handlers, pc'[g] = "update"
               PROVE  /\ request'[g].id \in DOMAIN rows' /\ node'[g] \in Row
                      /\ node'[g].token = rows'[request'[g].id].token
                      /\ request'[g].id \notin overlapped' =>
                           node'[g] = rows'[request'[g].id]
    BY DEF CopiesCarryCredential
  <2>1. g # h /\ pc[g] = "update" /\ request'[g] = request[g] /\ node'[g] = node[g]
    BY <1>3
  <2>2. /\ request[g].id \in DOMAIN rows /\ node[g] \in Row
        /\ node[g].token = rows[request[g].id].token
        /\ request[g].id \notin overlapped => node[g] = rows[request[g].id]
    BY <2>1 DEF CopiesCarryCredential
  <2>3. request[g].id = n => n \in overlapped'
    BY <2>1, <2>2 DEF Overlaps
  <2> QED
    BY <1>1, <1>4, <2>1, <2>2, <2>3
<1>8. SoloWritesKept'
  BY <1>1, <1>4 DEF SoloWritesKept
<1> QED
  BY <1>5, <1>6, <1>7, <1>8

(* IInv is inductive.                                                       *)
LEMMA StepIInv == IInv /\ [Next]_vars => IInv'
<1> SUFFICES ASSUME IInv, [Next]_vars PROVE IInv'
  OBVIOUS
<1> USE DEF IInv
<1>1. ASSUME NEW h \in Handlers,
             OperatorRegisters(h) \/ AggregatorValidates(h) \/ OperatorConfigures(h)
      PROVE  IInv'
  <2>1. PICK r \in Registration \union Configuration, position \in {"lookup", "authenticate"} :
          /\ Serve(h, r, position)
          /\ r \in Registration <=> position = "lookup"
          /\ r \in Configuration <=> position = "authenticate"
    <3>1. ASSUME OperatorRegisters(h) \/ AggregatorValidates(h)
          PROVE  \E r \in Registration : Serve(h, r, "lookup")
      BY <3>1 DEF OperatorRegisters, AggregatorValidates, Registration
    <3>2. ASSUME OperatorConfigures(h)
          PROVE  \E r \in Configuration : Serve(h, r, "authenticate")
      BY <3>2 DEF OperatorConfigures, Configuration
    <3>3. ASSUME NEW r \in Registration, NEW q \in Configuration PROVE r # q
      <4>1. r.kind = "register" /\ q.kind = "configure"
        BY DEF Registration, Configuration
      <4> QED
        BY <4>1
    <3> QED
      BY <1>1, <3>1, <3>2, <3>3
  <2>2. pc'[h] = position /\ request'[h] = r
    BY <2>1 DEF Serve, Goto, TypeOK
  <2>3. RequestOf(h)'
    BY <2>1, <2>2 DEF RequestOf
  <2>4. /\ pc' = [pc EXCEPT ![h] = pc'[h]] /\ request' = [request EXCEPT ![h] = request'[h]]
        /\ node' = [node EXCEPT ![h] = node'[h]]
        /\ request'[h] \in Registration \union Configuration \union {None}
        /\ node'[h] \in Row \union {None}
        /\ UNCHANGED <<rows, intended, overlapped, handed>>
        /\ turnedAway' \subseteq DOMAIN rows
    BY <2>1, <2>2 DEF Serve, Goto, TypeOK
  <2>5. pc'[h] # "update"
    BY <2>2
  <2> QED
    BY <2>1, <2>2, <2>3, <2>4, <2>5, QuietStep
<1>2. ASSUME NEW h \in Handlers, Fail(h) \/ BindFails(h) PROVE IInv'
  <2>1. /\ Respond(h) /\ UNCHANGED <<rows, intended, overlapped, handed>>
        /\ turnedAway' \subseteq DOMAIN rows
    BY <1>2 DEF Fail, BindFails, TypeOK
  <2>2. pc'[h] = "idle"
    BY <2>1 DEF Respond, Goto, TypeOK
  <2>3. RequestOf(h)'
    BY <2>2 DEF RequestOf
  <2>4. /\ pc' = [pc EXCEPT ![h] = pc'[h]] /\ request' = [request EXCEPT ![h] = request'[h]]
        /\ node' = [node EXCEPT ![h] = node'[h]]
        /\ request'[h] \in Registration \union Configuration \union {None}
        /\ node'[h] \in Row \union {None}
    BY <2>1, <2>2 DEF Respond, Goto, TypeOK
  <2> QED
    BY <2>1, <2>2, <2>3, <2>4, QuietStep
<1>3. ASSUME NEW h \in Handlers, Lookup(h) PROVE IInv'
  <2>1. /\ pc'[h] \in {"create", "update"} /\ request' = request
        /\ pc'[h] = "update" => /\ request[h].id \in DOMAIN rows
                                /\ node'[h] = rows[request[h].id]
    BY <1>3 DEF Lookup, Goto, TypeOK
  <2>2. RequestOf(h)'
    BY <1>3, <2>1 DEF Lookup, RequestOf, TypeOK
  <2>3. /\ pc' = [pc EXCEPT ![h] = pc'[h]] /\ request' = [request EXCEPT ![h] = request'[h]]
        /\ node' = [node EXCEPT ![h] = node'[h]]
        /\ request'[h] \in Registration \union Configuration \union {None}
        /\ node'[h] \in Row \union {None}
    BY <1>3, <2>1 DEF Lookup, Goto, TypeOK
  <2>4. /\ UNCHANGED <<rows, intended, overlapped, handed>>
        /\ turnedAway' \subseteq DOMAIN rows
    BY <1>3 DEF Lookup, TypeOK
  <2> QED
    BY <2>1, <2>2, <2>3, <2>4, QuietStep
<1>4. ASSUME NEW h \in Handlers, Authenticate(h) \/ CheckNode(h) PROVE IInv'
  <2>1. /\ pc'[h] \in {"check", "configure"} /\ request' = request /\ node' = node
        /\ request[h].id \in DOMAIN rows /\ pc[h] \in {"authenticate", "check"}
        /\ UNCHANGED <<rows, intended, overlapped, handed, turnedAway>>
        /\ pc' = [pc EXCEPT ![h] = pc'[h]]
    BY <1>4 DEF Authenticate, CheckNode, Goto, TypeOK
  <2>2. RequestOf(h)'
    BY <2>1 DEF RequestOf, TypeOK
  <2>3. /\ request' = [request EXCEPT ![h] = request'[h]]
        /\ node' = [node EXCEPT ![h] = node'[h]]
        /\ request'[h] \in Registration \union Configuration \union {None}
        /\ node'[h] \in Row \union {None}
        /\ turnedAway' \subseteq DOMAIN rows
    BY <2>1 DEF TypeOK
  <2> QED
    BY <2>1, <2>2, <2>3, QuietStep
<1>5. ASSUME NEW h \in Handlers, Create(h) PROVE IInv'
  <2> DEFINE r == request[h]
  <2>1. r \in Registration /\ r.name # None
    BY <1>5 DEF Create, TypeOK, RequestOf
  <2>2. NewRow(r) \in Row /\ NewRow(r).token = r.token /\ r.id \in Nodes /\ r.token \in Tokens
    BY <2>1 DEF NewRow, Row, Registration
  <2>3. /\ handed' \in [Nodes -> SUBSET Tokens]
        /\ \A m \in Nodes : \A t \in handed'[m] : t \in handed[m] \/ (m = r.id /\ t = r.token)
    BY <1>5, <2>2 DEF Create, TypeOK
  <2> HIDE DEF r
  <2>4. /\ rows' = PutRow(rows, r.id, NewRow(r))
        /\ intended' = PutRow(intended, r.id, NewRow(r))
        /\ Respond(h) /\ UNCHANGED <<overlapped, turnedAway>> /\ r.id \notin DOMAIN rows
    BY <1>5 DEF Create, r
  <2> QED
    BY <2>2, <2>3, <2>4, WriteStep
<1>6. ASSUME NEW h \in Handlers, Update(h) PROVE IInv'
  <2> DEFINE n == request[h].id
             meant == Asked(intended[n], request[h])
             row == Registered(node[h], request[h])
  <2>1. request[h] \in Registration /\ request[h].name # None /\ n \in Nodes
    BY <1>6 DEF Update, TypeOK, RequestOf, Registration
  <2>2. /\ n \in DOMAIN rows /\ node[h] \in Row /\ node[h].token = rows[n].token
        /\ n \notin overlapped => node[h] = rows[n] /\ rows[n] = intended[n]
    BY <1>6 DEF Update, CopiesCarryCredential, SoloWritesKept
  <2>3. intended[n] \in Row
    BY <2>2 DEF TypeOK
  <2>4. row \in Row /\ meant \in Row /\ row.token = rows[n].token
    BY <2>1, <2>2, <2>3 DEF Registered, Asked, Row, Registration
  <2>5. rows' = PutRow(rows, n, row) /\ intended' = PutRow(intended, n, meant)
    <3>1. /\ rows' = [rows EXCEPT ![n] = row]
          /\ intended' = [intended EXCEPT ![n] = meant]
      <4>1. rows' = [rows EXCEPT ![n] = row]
        BY <1>6 DEF Update
      <4>2. intended' = [intended EXCEPT ![n] = meant]
        BY <1>6 DEF Update
      <4> QED
        BY <4>1, <4>2
    <3>2. rows \in [DOMAIN rows -> Row] /\ intended \in [DOMAIN rows -> Row]
      BY DEF TypeOK
    <3> HIDE DEF n, meant, row
    <3>3. PutRow(rows, n, row) = [rows EXCEPT ![n] = row]
      BY <2>2, <3>2, PutExisting
    <3>4. PutRow(intended, n, meant) = [intended EXCEPT ![n] = meant]
      <4>1. n \in DOMAIN rows /\ intended \in [DOMAIN rows -> Row]
        BY <2>2, <3>2
      <4> QED
        BY <4>1, PutExisting
    <3> QED
      BY <3>1, <3>3, <3>4
  <2>6. n \notin overlapped => row = meant
    BY <2>1, <2>2, RegisteredAsAsked
  <2>7. /\ Respond(h) /\ UNCHANGED <<handed, turnedAway>> /\ overlapped' = Overlaps(h, n)
    BY <1>6 DEF Update
  <2>8. handed' \in [Nodes -> SUBSET Tokens]
    BY <2>7 DEF TypeOK
  <2> HIDE DEF n, meant, row
  <2> QED
    BY <2>1, <2>2, <2>4, <2>5, <2>6, <2>7, <2>8, WriteStep
<1>7. ASSUME NEW h \in Handlers, UpdateConfiguration(h) PROVE IInv'
  <2> DEFINE n == request[h].id
             meant == [intended[n] EXCEPT !.config = request[h].config]
             row == [rows[n] EXCEPT !.config = request[h].config]
  <2>1. request[h] \in Configuration /\ n \in DOMAIN rows /\ n \in Nodes
    BY <1>7 DEF UpdateConfiguration, TypeOK, RequestOf, Configuration
  <2>2. rows[n] \in Row /\ intended[n] \in Row
    BY <2>1 DEF TypeOK
  <2>3. row \in Row /\ meant \in Row /\ row.token = rows[n].token
    BY <2>1, <2>2 DEF Row, Configuration
  <2>4. rows' = PutRow(rows, n, row) /\ intended' = PutRow(intended, n, meant)
    BY <1>7, <2>1 DEF UpdateConfiguration, PutRow, TypeOK
  <2>5. n \notin overlapped => row = meant
    BY <2>1 DEF SoloWritesKept
  <2>6. /\ Respond(h) /\ UNCHANGED <<handed, turnedAway>> /\ overlapped' = Overlaps(h, n)
    BY <1>7 DEF UpdateConfiguration
  <2>7. handed' \in [Nodes -> SUBSET Tokens]
    BY <2>6 DEF TypeOK
  <2> HIDE DEF n, meant, row
  <2> QED
    BY <2>1, <2>3, <2>4, <2>5, <2>6, <2>7, WriteStep
<1>8. ASSUME GetNodeToken PROVE IInv'
  <2>1. PICK n \in DOMAIN rows : handed' = [handed EXCEPT ![n] = @ \union {rows[n].token}]
    BY <1>8 DEF GetNodeToken
  <2>2. /\ handed' \in [Nodes -> SUBSET Tokens]
        /\ \A m \in Nodes : \A t \in handed'[m] :
             t \in handed[m] \/ (m = n /\ t = rows[n].token)
    <3>1. rows[n].token \in Tokens /\ n \in Nodes
      BY DEF TypeOK, Row
    <3> QED
      BY <2>1, <3>1 DEF TypeOK
  <2>3. TypeOK' /\ CopiesCarryCredential' /\ SoloWritesKept'
    BY <1>8, <2>2
      DEF GetNodeToken, TypeOK, RequestOf, CopiesCarryCredential, SoloWritesKept
  <2>4. HandedTokenIsValid'
    BY <1>8, <2>2 DEF GetNodeToken, HandedTokenIsValid
  <2> QED
    BY <2>3, <2>4
<1>9. CASE UNCHANGED vars
  BY <1>9
    DEF vars, TypeOK, RequestOf, HandedTokenIsValid, CopiesCarryCredential, SoloWritesKept
<1> QED
  BY <1>1, <1>2, <1>3, <1>4, <1>5, <1>6, <1>7, <1>8, <1>9 DEF Next

LEMMA InvariantHolds == Spec => []IInv
BY InitIInv, StepIInv, PTL DEF Spec

(* Rows are complete, and no handler gets past a check it did not make.     *)
THEOREM TypeCorrect == Spec => []TypeOK
BY InvariantHolds, PTL DEF IInv

(* A token answered to a registration stays the credential of its node.     *)
THEOREM HandedTokensStayValid == Spec => []HandedTokenIsValid
BY InvariantHolds, PTL DEF IInv

(* A column only ever reverts if a registration was overlapped.              *)
THEOREM SoloWritesAreKept == Spec => []SoloWritesKept
BY InvariantHolds, PTL DEF IInv

(* The row a registration holds never carries another credential than the    *)
(* table, however many statements of others came in between.                 *)
THEOREM CopiesAlwaysCarryCredential == Spec => []CopiesCarryCredential
BY InvariantHolds, PTL DEF IInv

(* No write, of a column or of a whole row, changes a credential.           *)
THEOREM CredentialsAreFixed == Spec => CredentialFixed
<1>1. ASSUME IInv, Next PROVE KeepsCredential
  <2> USE DEF IInv
  <2>1. ASSUME UNCHANGED rows PROVE KeepsCredential
    BY <2>1 DEF KeepsCredential
  <2>2. ASSUME NEW h \in Handlers, Create(h) PROVE KeepsCredential
    BY <2>2 DEF Create, PutRow, KeepsCredential
  <2>3. ASSUME NEW h \in Handlers, Update(h) PROVE KeepsCredential
    <3>1. node[h] \in Row /\ node[h].token = rows[request[h].id].token
      BY <1>1, <2>3 DEF Update, CopiesCarryCredential
    <3>2. Registered(node[h], request[h]).token = rows[request[h].id].token
      BY <3>1 DEF Registered, Row
    <3> QED
      BY <1>1, <2>3, <3>2 DEF Update, KeepsCredential, TypeOK
  <2>4. ASSUME NEW h \in Handlers, UpdateConfiguration(h) PROVE KeepsCredential
    <3>1. \A n \in DOMAIN rows : rows[n] \in Row
      BY <1>1 DEF TypeOK
    <3> QED
      BY <2>4, <3>1 DEF UpdateConfiguration, KeepsCredential, Row
  <2> QED
    BY <1>1, <2>1, <2>2, <2>3, <2>4 DEF Next, OperatorRegisters, AggregatorValidates,
       OperatorConfigures, Serve, Fail, BindFails, Lookup, Authenticate, CheckNode,
       GetNodeToken
<1>2. IInv /\ [Next]_vars => [KeepsCredential]_vars
  BY <1>1
<1> QED
  BY <1>2, InvariantHolds, PTL DEF Spec, CredentialFixed
-----------------------------------------------------------------------------
(* Who a node is to a handler, and which row it works on: a registration       *)
(* knows its node; whoever asked by a token works on a row of that token, as   *)
(* the asking node's row is.                                                *)
KnowsNode(h) ==
  /\ pc[h] \in {"lookup", "stampNew", "create", "stampOld", "update"} =>
       asker[h] \in Nodes /\ token[h] \in Tokens
  /\ pc[h] \in {"find", "stamp", "touch", "answer"} /\ asker[h] # Nothing =>
       asker[h] \in DOMAIN rows /\ rows[asker[h]].token = token[h]

WorksOnRow(h) ==
  /\ pc[h] \in {"stampOld", "update", "stamp", "touch", "answer"} =>
       found[h] \in DOMAIN rows
  /\ pc[h] \in {"stampOld", "update"} => found[h] = asker[h]
  /\ pc[h] \in {"stamp", "touch", "answer"} => rows[found[h]].token = token[h]

(* A time that will be written was taken after the last settled contact.      *)
StampIsLater(h) ==
  /\ pc[h] \in {"create", "update", "touch"} => at[h] \in 0..now
  /\ pc[h] \in {"update", "touch"} => at[h] >= settled[found[h]]

ServedByToken ==
  \A p \in served : /\ p[1] \in DOMAIN rows /\ p[2] \in DOMAIN rows
                    /\ rows[p[1]].token = rows[p[2]].token

ContactsInv ==
  /\ ContactsTypeOK /\ SettledContactsStay /\ ServedByToken
  /\ \A n \in DOMAIN rows : settled[n] <= now
  /\ \A h \in Handlers : KnowsNode(h) /\ WorksOnRow(h) /\ StampIsLater(h)

LEMMA InitContacts == ContactsInit => ContactsInv
<1> SUFFICES ASSUME ContactsInit PROVE ContactsInv
  OBVIOUS
<1>1. DOMAIN rows = {} /\ DOMAIN settled = {} /\ served = {}
  BY DEF ContactsInit
<1>2. \A h \in Handlers : pc[h] = "idle"
  BY DEF ContactsInit
<1>3. 0 \in Time
  BY ContactsAssumption DEF Time
<1>4. ContactsTypeOK
  BY <1>1, <1>3 DEF ContactsInit, ContactsTypeOK
<1> QED
  BY <1>1, <1>2, <1>4
    DEF ContactsInv, SettledContactsStay, ServedByToken, KnowsNode,
        WorksOnRow, StampIsLater

(* What is the handler's own.                                               *)
LocalsTyped ==
  /\ pc \in [Handlers -> {"idle", "lookup", "stampNew", "create", "stampOld",
                          "update", "find", "stamp", "touch", "answer"}]
  /\ asker \in [Handlers -> Nodes \cup {Nothing}]
  /\ token \in [Handlers -> Tokens \cup {Nothing}]
  /\ found \in [Handlers -> DOMAIN rows \cup {Nothing}]
  /\ at \in [Handlers -> Time \cup {Nothing}]

OthersKeep(h) ==
  \A g \in Handlers : g # h => /\ pc'[g] = pc[g] /\ asker'[g] = asker[g]
                               /\ token'[g] = token[g] /\ found'[g] = found[g]
                               /\ at'[g] = at[g]

LEMMA TimeIs ==
  ASSUME ContactsTypeOK
  PROVE  now \in Nat /\ now \in 0..MaxTime /\ 0..now \subseteq Time
BY ContactsAssumption DEF ContactsTypeOK, Time

LEMMA RowIs ==
  ASSUME ContactsTypeOK,
         NEW n \in DOMAIN rows
  PROVE  /\ rows[n].token \in Tokens /\ rows[n].lastActive \in Nat
         /\ rows[n].lastActive \in Time /\ settled[n] \in Nat /\ n \in Nodes
<1>1. rows[n] \in Contact /\ settled[n] \in Time /\ n \in Nodes
  BY DEF ContactsTypeOK
<1> QED
  BY <1>1, ContactsAssumption DEF Contact, Time

(* A statement of h that writes no row.                                      *)
LEMMA LocalStep ==
  ASSUME ContactsInv, NEW h \in Handlers, UNCHANGED <<now, rows, served, settled>>,
         LocalsTyped', OthersKeep(h),
         KnowsNode(h)', WorksOnRow(h)', StampIsLater(h)'
  PROVE  ContactsInv'
<1> USE DEF ContactsInv
<1>1. ContactsTypeOK'
  BY DEF ContactsTypeOK, LocalsTyped, Time
<1>2. ASSUME NEW g \in Handlers, g # h
      PROVE  KnowsNode(g)' /\ WorksOnRow(g)' /\ StampIsLater(g)'
  <2>1. KnowsNode(g)'
    BY <1>2 DEF KnowsNode, OthersKeep
  <2>2. WorksOnRow(g)'
    BY <1>2 DEF WorksOnRow, OthersKeep
  <2>3. StampIsLater(g)'
    BY <1>2 DEF StampIsLater, OthersKeep
  <2> QED
    BY <2>1, <2>2, <2>3
<1>3. /\ SettledContactsStay' /\ ServedByToken'
      /\ \A n \in DOMAIN rows' : settled'[n] <= now'
  BY DEF SettledContactsStay, ServedByToken
<1> QED
  BY <1>1, <1>2, <1>3

(* h writes its time to the row it works on.                                 *)
LEMMA ContactWrite ==
  ASSUME ContactsInv, NEW h \in Handlers,
         pc[h] \in {"update", "touch"},
         rows' = [rows EXCEPT ![found[h]].lastActive = at[h]],
         settled' = Settle(h, found[h]),
         UNCHANGED <<now, served>>, LocalsTyped', OthersKeep(h),
         pc'[h] \in {"idle", "answer"},
         pc'[h] = "answer" => /\ pc[h] = "touch" /\ asker'[h] = asker[h]
                              /\ token'[h] = token[h] /\ found'[h] = found[h]
  PROVE  ContactsInv'
<1> USE DEF ContactsInv
<1> DEFINE n == found[h]
           t == at[h]
<1>1. /\ n \in DOMAIN rows /\ t \in 0..now /\ t >= settled[n] /\ t \in Time
      /\ settled[n] \in Nat /\ now \in Nat
  BY TimeIs, RowIs DEF WorksOnRow, StampIsLater
<1>2. /\ rows' = [rows EXCEPT ![n].lastActive = t]
      /\ settled' = Settle(h, n)
  OBVIOUS
<1>3. settled' = settled \/ settled' = [settled EXCEPT ![n] = t]
  BY <1>2 DEF Settle
<1>4. \A m \in DOMAIN rows : rows[m] \in Contact
  BY DEF ContactsTypeOK
<1>5. /\ settled \in [DOMAIN rows -> Time]
      /\ rows \in [DOMAIN rows -> Contact]
  BY DEF ContactsTypeOK
<1>6. ASSUME NEW g \in Handlers, g # h, pc[g] \in {"update", "touch"}, found[g] = n
      PROVE  settled' = settled
  <2>1. pc[g] = "update" => asker[g] = n
    BY <1>6 DEF WorksOnRow
  <2>2. (IF pc[g] = "touch" THEN found[g] ELSE asker[g]) = n
    BY <1>6, <2>1
  <2> HIDE DEF n
  <2> QED
    BY <1>2, <1>6, <2>2 DEF Settle
<1> HIDE DEF n, t
<1>7. /\ DOMAIN rows' = DOMAIN rows
      /\ rows' \in [DOMAIN rows -> Contact]
      /\ rows'[n].lastActive = t
      /\ \A m \in DOMAIN rows : /\ rows'[m].token = rows[m].token
                                /\ m # n => rows'[m].lastActive = rows[m].lastActive
  <2> DEFINE row == [rows[n] EXCEPT !.lastActive = t]
  <2>1. row \in Contact /\ row.lastActive = t /\ row.token = rows[n].token
    BY <1>1, <1>4 DEF Contact
  <2>2. rows' = [rows EXCEPT ![n] = row]
    BY <1>2
  <2> HIDE DEF row
  <2> QED
    BY <1>1, <1>5, <2>1, <2>2
<1>8. /\ settled' \in [DOMAIN rows -> Time]
      /\ \A m \in DOMAIN rows : m # n => settled'[m] = settled[m]
      /\ settled'[n] = settled[n] \/ settled'[n] = t
  BY <1>1, <1>3, <1>5
<1>9. ContactsTypeOK'
  BY <1>7, <1>8 DEF ContactsTypeOK, LocalsTyped, Time
<1>10. SettledContactsStay'
  <2> SUFFICES ASSUME NEW m \in DOMAIN rows
               PROVE  rows'[m].lastActive >= settled'[m]
    BY <1>7 DEF SettledContactsStay
  <2>1. CASE m = n
    BY <1>1, <1>7, <1>8, <2>1
  <2>2. CASE m # n
    BY <1>7, <1>8, <2>2 DEF SettledContactsStay
  <2> QED
    BY <2>1, <2>2
<1>11. \A m \in DOMAIN rows' : settled'[m] <= now'
  BY <1>1, <1>7, <1>8
<1>12. ServedByToken'
  BY <1>7 DEF ServedByToken
<1>13. ASSUME NEW g \in Handlers, g # h
       PROVE  KnowsNode(g)' /\ WorksOnRow(g)' /\ StampIsLater(g)'
  <2>1. KnowsNode(g)'
    BY <1>7, <1>13 DEF KnowsNode, OthersKeep
  <2>2. WorksOnRow(g)'
    BY <1>7, <1>13 DEF WorksOnRow, OthersKeep
  <2>3. StampIsLater(g)'
    <3>1. pc[g] \in {"update", "touch"} => at[g] >= settled'[found[g]]
      <4> SUFFICES ASSUME pc[g] \in {"update", "touch"}
                   PROVE  at[g] >= settled'[found[g]]
        OBVIOUS
      <4>1. found[g] \in DOMAIN rows /\ at[g] >= settled[found[g]]
        BY DEF WorksOnRow, StampIsLater
      <4>2. settled'[found[g]] = settled[found[g]]
        BY <1>6, <1>8, <1>13, <4>1
      <4> QED
        BY <4>1, <4>2
    <3> QED
      BY <1>13, <3>1 DEF StampIsLater, OthersKeep
  <2> QED
    BY <2>1, <2>2, <2>3
<1>14. KnowsNode(h)' /\ WorksOnRow(h)' /\ StampIsLater(h)'
  <2>1. KnowsNode(h)'
    BY <1>7 DEF KnowsNode
  <2>2. WorksOnRow(h)'
    BY <1>7 DEF WorksOnRow
  <2>3. StampIsLater(h)'
    BY DEF StampIsLater
  <2> QED
    BY <2>1, <2>2, <2>3
<1> QED
  BY <1>9, <1>10, <1>11, <1>12, <1>13, <1>14

(* h inserts a row.                                                         *)
LEMMA CreateStep ==
  ASSUME ContactsInv, NEW h \in Handlers, CreateNode(h)
  PROVE  ContactsInv'
<1> USE DEF ContactsInv
<1> DEFINE n == asker[h]
           row == [token |-> token[h], lastActive |-> at[h]]
<1>1. /\ n \notin DOMAIN rows /\ pc[h] = "create" /\ Answered(h)
      /\ UNCHANGED <<now, served>>
      /\ rows' = [m \in DOMAIN rows \cup {n} |->
                            IF m = n THEN row ELSE rows[m]]
      /\ settled' = [m \in DOMAIN rows' |-> IF m = n THEN at[h] ELSE settled[m]]
  BY DEF CreateNode
<1>2. n \in Nodes /\ token[h] \in Tokens /\ at[h] \in 0..now
  BY <1>1 DEF KnowsNode, StampIsLater
<1>3. row \in Contact /\ at[h] \in Time /\ row.lastActive = at[h]
  BY <1>2, TimeIs DEF Contact
<1>4. LocalsTyped' /\ OthersKeep(h) /\ pc'[h] = "idle"
  <2>1. DOMAIN rows \subseteq DOMAIN rows'
    BY <1>1
  <2> QED
    BY <1>1, <2>1
      DEF Answered, Goto, LocalsTyped, OthersKeep, ContactsTypeOK,
          Time
<1> HIDE DEF n, row
<1>5. /\ DOMAIN rows' = DOMAIN rows \cup {n}
      /\ DOMAIN settled' = DOMAIN rows'
      /\ rows'[n] = row /\ settled'[n] = at[h]
      /\ \A m \in DOMAIN rows : /\ m # n /\ rows'[m] = rows[m]
                                /\ settled'[m] = settled[m]
  BY <1>1
<1>6. \A m \in DOMAIN rows :
          rows[m] \in Contact /\ settled[m] \in Time
  BY DEF ContactsTypeOK
<1>7. /\ rows' \in [DOMAIN rows' -> Contact]
      /\ settled' \in [DOMAIN rows' -> Time]
  <2>1. \A m \in DOMAIN rows' : rows'[m] \in Contact
    BY <1>3, <1>5, <1>6
  <2>2. \A m \in DOMAIN rows' : settled'[m] \in Time
    BY <1>3, <1>5, <1>6
  <2> QED
    BY <1>1, <2>1, <2>2
<1>8. ContactsTypeOK'
  BY <1>1, <1>2, <1>4, <1>5, <1>7 DEF ContactsTypeOK, LocalsTyped, n, Time
<1>9. SettledContactsStay'
  <2>1. rows'[n].lastActive >= settled'[n]
    BY <1>2, <1>3, <1>5
  <2> QED
    BY <1>5, <2>1 DEF SettledContactsStay
<1>10. \A m \in DOMAIN rows' : settled'[m] <= now'
  BY <1>1, <1>2, <1>5
<1>11. ServedByToken'
  BY <1>1, <1>5 DEF ServedByToken
<1>12. ASSUME NEW g \in Handlers
       PROVE  KnowsNode(g)' /\ WorksOnRow(g)' /\ StampIsLater(g)'
  <2>1. CASE g = h
    BY <1>4, <2>1 DEF KnowsNode, WorksOnRow, StampIsLater
  <2>2. CASE g # h
    <3>1. KnowsNode(g)'
      BY <1>4, <1>5, <2>2 DEF KnowsNode, OthersKeep
    <3>2. WorksOnRow(g)'
      BY <1>4, <1>5, <2>2 DEF WorksOnRow, OthersKeep
    <3>3. StampIsLater(g)'
      BY <1>1, <1>4, <1>5, <2>2 DEF WorksOnRow, StampIsLater, OthersKeep
    <3> QED
      BY <3>1, <3>2, <3>3
  <2> QED
    BY <2>1, <2>2
<1> QED
  BY <1>8, <1>9, <1>10, <1>11, <1>12

(* ContactsInv is inductive.                                                *)
LEMMA StepContacts == ContactsInv /\ [ContactsNext]_contactsVars => ContactsInv'
<1> SUFFICES ASSUME ContactsInv, [ContactsNext]_contactsVars PROVE ContactsInv'
  OBVIOUS
<1> USE DEF ContactsInv
<1>1. CASE Tick
  <2>1. /\ now' = now + 1 /\ now' \in Time /\ now \in Nat
        /\ UNCHANGED <<rows, pc, asker, token, found, at, served, settled>>
    BY <1>1, TimeIs, ContactsAssumption DEF Tick, Time
  <2>2. ContactsTypeOK'
    BY <2>1 DEF ContactsTypeOK
  <2>3. ASSUME NEW h \in Handlers PROVE StampIsLater(h)'
    <3>1. 0..now \subseteq 0..now'
      BY <2>1
    <3> QED
      BY <2>1, <3>1 DEF StampIsLater
  <2>4. ASSUME NEW h \in Handlers PROVE KnowsNode(h)' /\ WorksOnRow(h)'
    BY <2>1 DEF KnowsNode, WorksOnRow
  <2>5. \A n \in DOMAIN rows' : settled'[n] <= now'
    BY <2>1, RowIs
  <2> QED
    BY <2>1, <2>2, <2>3, <2>4, <2>5 DEF SettledContactsStay, ServedByToken
<1>2. ASSUME NEW h \in Handlers, Register(h) \/ Ask(h) PROVE ContactsInv'
  <2>1. PICK n \in Nodes \cup {Nothing}, t \in Tokens, p \in {"lookup", "find"} :
          /\ Request(h, n, t, p)
          /\ p = "lookup" => n \in Nodes
          /\ p = "find" /\ n # Nothing => n \in DOMAIN rows /\ rows[n].token = t
    <3>1. CASE Register(h)
      BY <3>1 DEF Register
    <3>2. ASSUME NEW n \in DOMAIN rows, Request(h, n, rows[n].token, "find")
          PROVE  n \in Nodes /\ rows[n].token \in Tokens
      BY RowIs
    <3>3. CASE Ask(h)
      BY <3>2, <3>3 DEF Ask
    <3> QED
      BY <1>2, <3>1, <3>3
  <2>2. LocalsTyped' /\ OthersKeep(h)
    BY <2>1
      DEF Request, Goto, LocalsTyped, OthersKeep, ContactsTypeOK,
          Time
  <2>3. /\ pc'[h] = p /\ asker'[h] = n /\ token'[h] = t
        /\ UNCHANGED <<now, rows, found, at, served, settled>>
    BY <2>1 DEF Request, Goto, ContactsTypeOK
  <2>4. KnowsNode(h)' /\ WorksOnRow(h)' /\ StampIsLater(h)'
    BY <2>1, <2>3 DEF KnowsNode, WorksOnRow, StampIsLater
  <2> QED
    BY <2>2, <2>3, <2>4, LocalStep
<1>3. ASSUME NEW h \in Handlers, StatementFails(h) \/ NotFound(h) PROVE ContactsInv'
  <2>1. Answered(h) /\ UNCHANGED <<now, rows, served, settled>>
    BY <1>3 DEF StatementFails, NotFound
  <2>2. LocalsTyped' /\ OthersKeep(h)
    BY <2>1
      DEF Answered, Goto, LocalsTyped, OthersKeep, ContactsTypeOK,
          Time
  <2>3. pc'[h] = "idle"
    BY <2>1 DEF Answered, Goto, ContactsTypeOK
  <2>4. KnowsNode(h)' /\ WorksOnRow(h)' /\ StampIsLater(h)'
    BY <2>3 DEF KnowsNode, WorksOnRow, StampIsLater
  <2> QED
    BY <2>1, <2>2, <2>4, LocalStep
<1>4. ASSUME NEW h \in Handlers, Stamp(h) PROVE ContactsInv'
  <2>1. /\ UNCHANGED <<now, rows, asker, token, found, served, settled>>
        /\ at' = [at EXCEPT ![h] = now] /\ now \in Time
        /\ \/ pc[h] = "stampNew" /\ pc' = [pc EXCEPT ![h] = "create"]
           \/ pc[h] = "stampOld" /\ pc' = [pc EXCEPT ![h] = "update"]
           \/ pc[h] = "stamp" /\ pc' = [pc EXCEPT ![h] = "touch"]
    BY <1>4 DEF Stamp, Goto, ContactsTypeOK
  <2>2. LocalsTyped' /\ OthersKeep(h)
    BY <2>1 DEF LocalsTyped, OthersKeep, ContactsTypeOK, Time
  <2>3. /\ at'[h] = now
        /\ \/ pc[h] = "stampNew" /\ pc'[h] = "create"
           \/ pc[h] = "stampOld" /\ pc'[h] = "update"
           \/ pc[h] = "stamp" /\ pc'[h] = "touch"
    BY <2>1 DEF ContactsTypeOK
  <2>4. KnowsNode(h)'
    BY <2>1, <2>3 DEF KnowsNode
  <2>5. WorksOnRow(h)'
    BY <2>1, <2>3 DEF WorksOnRow
  <2>6. StampIsLater(h)'
    <3>1. now \in 0..now
      BY TimeIs
    <3>2. pc'[h] \in {"update", "touch"} => now >= settled[found[h]]
      <4>1. pc'[h] \in {"update", "touch"} => found[h] \in DOMAIN rows
        BY <2>3 DEF WorksOnRow
      <4>2. \A n \in DOMAIN rows : now >= settled[n]
        BY TimeIs, RowIs
      <4> QED
        BY <4>1, <4>2
    <3> QED
      BY <2>1, <2>3, <3>1, <3>2 DEF StampIsLater
  <2> QED
    BY <2>1, <2>2, <2>4, <2>5, <2>6, LocalStep
<1>5. ASSUME NEW h \in Handlers, LookupNode(h) PROVE ContactsInv'
  <2>1. /\ pc[h] = "lookup"
        /\ UNCHANGED <<now, rows, asker, token, at, served, settled>>
        /\ \/ /\ asker[h] \in DOMAIN rows
              /\ pc' = [pc EXCEPT ![h] = "stampOld"]
              /\ found' = [found EXCEPT ![h] = asker[h]]
           \/ pc' = [pc EXCEPT ![h] = "stampNew"] /\ found' = found
    BY <1>5 DEF LookupNode, Goto
  <2>2. LocalsTyped' /\ OthersKeep(h)
    BY <2>1 DEF LocalsTyped, OthersKeep, ContactsTypeOK, Time
  <2>3. \/ pc'[h] = "stampOld" /\ found'[h] = asker[h] /\ asker[h] \in DOMAIN rows
        \/ pc'[h] = "stampNew"
    BY <2>1 DEF ContactsTypeOK
  <2>4. KnowsNode(h)' /\ WorksOnRow(h)' /\ StampIsLater(h)'
    BY <2>1, <2>3 DEF KnowsNode, WorksOnRow, StampIsLater
  <2> QED
    BY <2>1, <2>2, <2>4, LocalStep
<1>6. ASSUME NEW h \in Handlers, FindByToken(h) PROVE ContactsInv'
  <2>1. PICK n \in Matching(token[h]) : found' = [found EXCEPT ![h] = n]
    BY <1>6 DEF FindByToken
  <2>2. /\ n \in DOMAIN rows /\ rows[n].token = token[h] /\ pc[h] = "find"
        /\ pc' = [pc EXCEPT ![h] = "stamp"]
        /\ UNCHANGED <<now, rows, asker, token, at, served, settled>>
    BY <1>6 DEF FindByToken, Goto, Matching
  <2>3. LocalsTyped' /\ OthersKeep(h)
    BY <2>1, <2>2 DEF LocalsTyped, OthersKeep, ContactsTypeOK, Time
  <2>4. pc'[h] = "stamp" /\ found'[h] = n
    BY <2>1, <2>2 DEF ContactsTypeOK
  <2>5. KnowsNode(h)' /\ WorksOnRow(h)' /\ StampIsLater(h)'
    BY <2>2, <2>4 DEF KnowsNode, WorksOnRow, StampIsLater
  <2> QED
    BY <2>2, <2>3, <2>5, LocalStep
<1>7. ASSUME NEW h \in Handlers, TouchFails(h) PROVE ContactsInv'
  <2>1. /\ pc[h] = "touch" /\ pc' = [pc EXCEPT ![h] = "answer"]
        /\ UNCHANGED <<now, rows, asker, token, found, at, served, settled>>
    BY <1>7 DEF TouchFails, Goto
  <2>2. LocalsTyped' /\ OthersKeep(h) /\ pc'[h] = "answer"
    BY <2>1 DEF LocalsTyped, OthersKeep, ContactsTypeOK, Time
  <2>3. KnowsNode(h)' /\ WorksOnRow(h)' /\ StampIsLater(h)'
    BY <2>1, <2>2 DEF KnowsNode, WorksOnRow, StampIsLater
  <2> QED
    BY <2>1, <2>2, <2>3, LocalStep
<1>8. ASSUME NEW h \in Handlers, UpdateNode(h) PROVE ContactsInv'
  <2>1. /\ pc[h] = "update"
        /\ rows' = [rows EXCEPT ![found[h]].lastActive = at[h]]
        /\ settled' = Settle(h, found[h]) /\ Answered(h)
        /\ UNCHANGED <<now, served>>
    BY <1>8 DEF UpdateNode
  <2>2. LocalsTyped' /\ OthersKeep(h) /\ pc'[h] = "idle"
    BY <2>1
      DEF Answered, Goto, LocalsTyped, OthersKeep, ContactsTypeOK,
          Time
  <2> QED
    BY <2>1, <2>2, ContactWrite
<1>9. ASSUME NEW h \in Handlers, UpdateLastActiveAt(h) PROVE ContactsInv'
  <2>1. /\ pc[h] = "touch"
        /\ rows' = [rows EXCEPT ![found[h]].lastActive = at[h]]
        /\ settled' = Settle(h, found[h])
        /\ pc' = [pc EXCEPT ![h] = "answer"]
        /\ UNCHANGED <<now, asker, token, found, at, served>>
    BY <1>9 DEF UpdateLastActiveAt, Goto
  <2>2. LocalsTyped' /\ OthersKeep(h) /\ pc'[h] = "answer"
    BY <2>1 DEF LocalsTyped, OthersKeep, ContactsTypeOK, Time
  <2> QED
    BY <2>1, <2>2, ContactWrite
<1>10. ASSUME NEW h \in Handlers, GetNodeConfiguration(h) PROVE ContactsInv'
  <2>1. /\ pc[h] = "answer" /\ Answered(h)
        /\ UNCHANGED <<now, rows, settled>>
        /\ served' = served \/ /\ asker[h] # Nothing
                               /\ served' = served \cup {<<asker[h], found[h]>>}
    BY <1>10 DEF GetNodeConfiguration
  <2>2. LocalsTyped' /\ OthersKeep(h) /\ pc'[h] = "idle"
    BY <2>1
      DEF Answered, Goto, LocalsTyped, OthersKeep, ContactsTypeOK,
          Time
  <2>3. asker[h] # Nothing =>
          /\ asker[h] \in DOMAIN rows /\ found[h] \in DOMAIN rows
          /\ rows[asker[h]].token = rows[found[h]].token
    BY <2>1 DEF KnowsNode, WorksOnRow
  <2>4. ServedByToken'
    BY <2>1, <2>3 DEF ServedByToken
  <2>5. served' \subseteq Nodes \X Nodes
    BY <2>1, <2>3, RowIs DEF ContactsTypeOK
  <2>6. ContactsTypeOK'
    BY <2>1, <2>2, <2>5 DEF ContactsTypeOK, LocalsTyped, Time
  <2>7. ASSUME NEW g \in Handlers PROVE KnowsNode(g)' /\ WorksOnRow(g)' /\ StampIsLater(g)'
    <3>1. CASE g = h
      BY <2>2, <3>1 DEF KnowsNode, WorksOnRow, StampIsLater
    <3>2. CASE g # h
      BY <2>1, <2>2, <3>2 DEF KnowsNode, WorksOnRow, StampIsLater, OthersKeep
    <3> QED
      BY <3>1, <3>2
  <2>8. SettledContactsStay' /\ \A n \in DOMAIN rows' : settled'[n] <= now'
    BY <2>1 DEF SettledContactsStay
  <2> QED
    BY <2>4, <2>6, <2>7, <2>8
<1>11. CASE UNCHANGED contactsVars
  BY <1>11
    DEF contactsVars, ContactsTypeOK, SettledContactsStay, ServedByToken,
        KnowsNode, WorksOnRow, StampIsLater
<1> QED
  BY <1>1, <1>2, <1>3, <1>4, <1>5, <1>6, <1>7, <1>8, <1>9, <1>10, <1>11, CreateStep
  DEF ContactsNext

LEMMA ContactsHold == ContactsSpec => []ContactsInv
BY InitContacts, StepContacts, PTL DEF ContactsSpec

(* Every row has a token and a time of contact, and handlers their requests. *)
THEOREM ContactsTypes == ContactsSpec => []ContactsTypeOK
BY ContactsHold, PTL DEF ContactsInv

(* No handler, however late its statement comes, puts a time before a contact *)
(* that was written while no other was under way.                            *)
THEOREM ContactsNeverGoBack == ContactsSpec => []SettledContactsStay
BY ContactsHold, PTL DEF ContactsInv

(* Where tokens are distinct nobody is answered another node's configuration. *)
THEOREM EachItsOwnConfiguration == ContactsSpec => []OwnConfiguration
<1>1. ContactsInv => OwnConfiguration
  BY DEF ContactsInv, ServedByToken, OwnTokens, OwnConfiguration
<1> QED
  BY <1>1, ContactsHold, PTL
=============================================================================
