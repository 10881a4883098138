----------------------------- MODULE Repositories -----------------------------
(***************************************************************************)
(* The repositories of alerting rules and notifications, users and sessions, *)
(* node groups, services and nodes (src/internal/server/repository).  Each   *)
(* SQL statement is one action.  Rules, users, groups and services are       *)
(* owners: notifications, sessions and nodes refer to them by foreign keys,  *)
(* and the deletion of an owner is a transaction of two statements, whose    *)
(* effects others see at its commit and whose rows they wait for until then  *)
(* (READ COMMITTED, row locks).  A statement that has to wait is executed    *)
(* when it need not wait any longer.                                        *)
(*                                                                         *)
(* Callers change an owner or a node by reading it, changing the copy and    *)
(* writing the copy back.  Of an owner's columns the password's hash is kept *)
(* and, as one, those its Update writes; of the rows that refer to owners    *)
(* the references and the time a cleanup looks at.                           *)
(***************************************************************************)
EXTENDS Integers, FiniteSets

CONSTANTS
  Owners,   \* ids of alerting rules, users, node groups and services
  Rows,     \* ids of notifications, sessions and nodes
  Tables,   \* the tables that the owners may be of, owner by owner
  Hashes,   \* hashes of passwords
  Columns,  \* contents of the columns that Update writes
  Null,     \* SQL's NULL
  Callers,  \* goroutines that use the repositories
  MaxTime   \* bound: the clock

Table == {"rule", "user", "group", "service"}

ASSUME RepositoriesAssumption ==
  /\ Tables \subseteq [Owners -> Table]
  /\ Owners \cap Rows = {} /\ Null \notin Owners \cup Rows \cup Hashes
  /\ MaxTime \in Nat

VARIABLES
  now,      \* the clock
  table,    \* the table each owner is of
  owners,   \* the rows of the owners
  rows,     \* the rows that refer to them
  created,  \* history: owners and rows that were inserted at some time
  copies,   \* copies[c]: the owner or node caller c has read and will write
  tx,       \* tx[c]: the transaction caller c is in
  okays,    \* history: how many deletions of each owner were answered nil
  late,     \* history: notifications inserted while their rule's deletion ran
  asked     \* history: the hash each user was given last

vars == <<now, table, owners, rows, created, copies, tx, okays, late, asked>>

Owner == [hash : Hashes \cup {Null}, columns : Columns]
Row == [kind : {"notification", "session", "node"}, refs : SUBSET Owners,
        at : 0..MaxTime]
NoCopy == [id |-> Null]
Copy == [id : Owners, row : Owner] \cup [id : Rows, row : Row]
NoTx == [phase |-> "none"]
(* locked: the rows that the first statement has deleted or taken away.      *)
Tx == [phase : {"rows", "owner"}, owner : Owners, locked : SUBSET Rows]

TypeOK ==
  /\ now \in 0..MaxTime /\ table \in Tables
  /\ created \subseteq Owners \cup Rows
  /\ DOMAIN owners \subseteq created \cap Owners /\ owners \in [DOMAIN owners -> Owner]
  /\ DOMAIN rows \subseteq created \cap Rows /\ rows \in [DOMAIN rows -> Row]
  /\ copies \in [Callers -> Copy \cup {NoCopy}]
  /\ tx \in [Callers -> Tx \cup {NoTx}]
  /\ okays \in [Owners -> Nat] /\ late \subseteq Rows
  /\ asked \in [Owners -> Hashes \cup {Null}]

Empty == [x \in {} |-> Null]

Init ==
  /\ now = 0 /\ table \in Tables
  /\ owners = Empty /\ rows = Empty /\ created = {}
  /\ copies = [c \in Callers |-> NoCopy]
  /\ tx = [c \in Callers |-> NoTx]
  /\ okays = [o \in Owners |-> 0] /\ late = {}
  /\ asked = [o \in Owners |-> Null]
-----------------------------------------------------------------------------
With(f, key, value) ==
  [x \in DOMAIN f \cup {key} |-> IF x = key THEN value ELSE f[x]]
Without(f, gone) == [x \in DOMAIN f \ gone |-> f[x]]

Of(kind) == {x \in DOMAIN rows : rows[x].kind = kind}
Dependents(o) == {x \in DOMAIN rows : o \in rows[x].refs}

(* What a transaction has written: whoever writes to it waits.  The deletion *)
(* of the owner writes, by the foreign key's action, all that refer to it.   *)
Locks(c) ==
  CASE tx[c].phase = "owner" -> tx[c].locked \cup Dependents(tx[c].owner)
    [] tx[c].phase = "rows"  -> tx[c].locked
    [] OTHER                 -> {}
RowLocked(x) == \E c \in Callers : x \in Locks(c)
OwnerLocked(o) == \E c \in Callers : tx[c].phase = "owner" /\ tx[c].owner = o
Deleting(o) == \E c \in Callers : tx[c] # NoTx /\ tx[c].owner = o

Released(row, o) == [row EXCEPT !.refs = @ \ {o}]

Tick ==
  /\ now < MaxTime /\ now' = now + 1
  /\ UNCHANGED <<table, owners, rows, created, copies, tx, okays, late, asked>>
-----------------------------------------------------------------------------
(* INSERT of an owner, with the hash of its password if it has one.          *)
Create(o, hash) ==
  /\ o \notin created /\ created' = created \cup {o}
  /\ \E c \in Columns :
       owners' = With(owners, o, [hash |-> hash, columns |-> c])
  /\ asked' = [asked EXCEPT ![o] = hash]
  /\ UNCHANGED <<now, table, rows, copies, tx, okays, late>>

CreateRule(o) == table[o] = "rule" /\ Create(o, Null)
CreateGroup(o) == table[o] = "group" /\ Create(o, Null)
CreateService(o) == table[o] = "service" /\ Create(o, Null)
CreateUser(o) == table[o] = "user" /\ \E hash \in Hashes : Create(o, hash)

(* One of the queries; then the caller sets columns and is about to update.  *)
Read(c, o) ==
  /\ copies[c] = NoCopy /\ tx[c] = NoTx /\ o \in DOMAIN owners
  /\ \E new \in Columns \ {owners[o].columns} :
       copies' = [copies EXCEPT ![c] =
                    [id |-> o, row |-> [owners[o] EXCEPT !.columns = new]]]
  /\ UNCHANGED <<now, table, owners, rows, created, tx, okays, late, asked>>

(* A plausible slip: the whole copy is written.                              *)
UpdatedWhole(row, copy) == copy

(* What the statement sets: all columns but the password's.                  *)
Updated(row, copy) == [row EXCEPT !.columns = copy.columns]

(* A plausible slip: without such a row one is inserted.                     *)
UpdateUpserts(c) ==
  /\ copies[c].id \in Owners /\ ~OwnerLocked(copies[c].id)
  /\ owners' = With(owners, copies[c].id, copies[c].row)
  /\ copies' = [copies EXCEPT ![c] = NoCopy]
  /\ UNCHANGED <<now, table, rows, created, tx, okays, late, asked>>

(* Update writes the copy; to an owner that is no more it answers an error.  *)
Update(c) ==
  /\ copies[c].id \in Owners /\ ~OwnerLocked(copies[c].id)
  /\ owners' = [o \in DOMAIN owners |-> IF o = copies[c].id
                  THEN Updated(owners[o], copies[c].row) ELSE owners[o]]
  /\ copies' = [copies EXCEPT ![c] = NoCopy]
  /\ UNCHANGED <<now, table, rows, created, tx, okays, late, asked>>

(* The statement of one column, of which the caller has read nothing.        *)
UpdateEnabled(o) ==
  /\ table[o] = "rule" /\ o \in DOMAIN owners /\ ~OwnerLocked(o)
  /\ \E new \in Columns : owners' = [owners EXCEPT ![o].columns = new]
  /\ UNCHANGED <<now, table, rows, created, copies, tx, okays, late, asked>>

(* A plausible slip: without such a row one is inserted.                     *)
UpdatePasswordUpserts(o) ==
  /\ table[o] = "user" /\ ~OwnerLocked(o)
  /\ \E hash \in Hashes, c \in Columns :
       owners' = With(owners, o, [hash |-> hash, columns |-> c])
  /\ UNCHANGED <<now, table, rows, created, copies, tx, okays, late, asked>>

UpdatePassword(o) ==
  /\ table[o] = "user" /\ o \in DOMAIN owners /\ ~OwnerLocked(o)
  /\ \E hash \in Hashes : /\ owners' = [owners EXCEPT ![o].hash = hash]
                          /\ asked' = [asked EXCEPT ![o] = hash]
  /\ UNCHANGED <<now, table, rows, created, copies, tx, okays, late>>
-----------------------------------------------------------------------------
(* Foreign keys: a reference that is new to the row must be to an owner that *)
(* exists, and waits for a deletion of it.                                   *)
Referable(new) == \A o \in new : o \in DOMAIN owners /\ ~OwnerLocked(o)

(* INSERT of a row that refers to owners.                                    *)
Insert(x, row) ==
  /\ x \notin created /\ created' = created \cup {x}
  /\ Referable(row.refs)
  /\ rows' = With(rows, x, row)
  /\ late' = IF row.kind = "notification" /\ \E o \in row.refs : Deleting(o)
               THEN late \cup {x} ELSE late
  /\ UNCHANGED <<now, table, owners, copies, tx, okays, asked>>

(* A notification of a rule that was triggered at some time, and a session   *)
(* of a user that expires at some time.                                      *)
CreateNotification(x) ==
  \E o \in DOMAIN owners, t \in 0..now :
    /\ table[o] = "rule"
    /\ Insert(x, [kind |-> "notification", refs |-> {o}, at |-> t])

CreateSession(x) ==
  \E o \in DOMAIN owners, t \in now..MaxTime :
    /\ table[o] = "user"
    /\ Insert(x, [kind |-> "session", refs |-> {o}, at |-> t])

(* What a registration may give: a group, a service, both or neither.        *)
Memberships ==
  {m \in SUBSET Owners : /\ \A o \in m : table[o] \in {"group", "service"}
                         /\ \A o, p \in m : table[o] = table[p] => o = p}

(* A registration of a node that was not there.                              *)
CreateNode(x) ==
  \E m \in Memberships : Insert(x, [kind |-> "node", refs |-> m, at |-> 0])

(* A registration of a node that is there: GetByID, then what the request    *)
(* gives is set in the copy.                                                *)
ReadNode(c, x) ==
  /\ copies[c] = NoCopy /\ tx[c] = NoTx /\ x \in Of("node")
  /\ \E m \in Memberships :
       LET kept == {o \in rows[x].refs : \A p \in m : table[p] # table[o]}
       IN  copies' = [copies EXCEPT ![c] =
                  [id |-> x, row |-> [rows[x] EXCEPT !.refs = m \cup kept]]]
  /\ UNCHANGED <<now, table, owners, rows, created, tx, okays, late, asked>>

(* A plausible slip: the columns are not declared as foreign keys.           *)
UpdateNodeUnchecked(c) ==
  /\ copies[c].id \in DOMAIN rows /\ ~RowLocked(copies[c].id)
  /\ rows' = [rows EXCEPT ![copies[c].id] = copies[c].row]
  /\ copies' = [copies EXCEPT ![c] = NoCopy]
  /\ UNCHANGED <<now, table, owners, created, tx, okays, late, asked>>

(* UPDATE of the whole row from the copy, after whoever has it locked.       *)
UpdateNode(c) ==
  /\ copies[c].id \in DOMAIN rows /\ ~RowLocked(copies[c].id)
  /\ Referable(copies[c].row.refs \ rows[copies[c].id].refs)
  /\ rows' = [rows EXCEPT ![copies[c].id] = copies[c].row]
  /\ copies' = [copies EXCEPT ![c] = NoCopy]
  /\ UNCHANGED <<now, table, owners, created, tx, okays, late, asked>>

(* The node is no more, or an owner that the request named or the copy held: *)
(* the registration is answered 500.                                        *)
UpdateNodeRefused(c) ==
  /\ copies[c].id \in Rows
  /\ copies[c].id \in DOMAIN rows =>
       /\ ~RowLocked(copies[c].id)
       /\ ~(copies[c].row.refs \subseteq
               rows[copies[c].id].refs \cup DOMAIN owners)
  /\ copies' = [copies EXCEPT ![c] = NoCopy]
  /\ UNCHANGED <<now, table, owners, rows, created, tx, okays, late, asked>>

(* DELETE of some rows, after whoever has them locked.                       *)
Remove(gone) ==
  /\ \A x \in gone : ~RowLocked(x)
  /\ rows' = Without(rows, gone)
  /\ UNCHANGED <<now, table, owners, created, copies, tx, okays, late, asked>>

DeleteNotification(x) == x \in Of("notification") /\ Remove({x})
DeleteSession(x) == x \in Of("session") /\ Remove({x})
DeleteNode(x) == x \in Of("node") /\ Remove({x})

(* Everything triggered before a moment that has passed; everything expired. *)
CleanupOldNotifications(t) ==
  t <= now /\ Remove({x \in Of("notification") : rows[x].at < t})
CleanupExpiredSessions == Remove({x \in Of("session") : rows[x].at < now})
-----------------------------------------------------------------------------
(* A plausible slip: the first statement is executed outside the transaction. *)
BeginAtOnce(c, o) ==
  /\ tx[c] = NoTx /\ copies[c] = NoCopy
  /\ \A x \in Dependents(o) : ~RowLocked(x)
  /\ tx' = [tx EXCEPT ![c] = [phase |-> "rows", owner |-> o, locked |-> {}]]
  /\ rows' = IF table[o] \in {"rule", "user"} THEN Without(rows, Dependents(o))
             ELSE [x \in DOMAIN rows |-> Released(rows[x], o)]
  /\ UNCHANGED <<now, table, owners, created, copies, okays, late, asked>>

(* BEGIN, and the first statement: what refers to the owner is deleted, or   *)
(* its reference set to NULL.                                               *)
Begin(c, o) ==
  /\ tx[c] = NoTx /\ copies[c] = NoCopy
  /\ \A x \in Dependents(o) : ~RowLocked(x)
  /\ tx' = [tx EXCEPT ![c] = [phase |-> "rows", owner |-> o,
                              locked |-> Dependents(o)]]
  /\ UNCHANGED <<now, table, owners, rows, created, copies, okays, late, asked>>

DeleteRule(c, o) == table[o] = "rule" /\ Begin(c, o)
DeleteUser(c, o) == table[o] = "user" /\ Begin(c, o)
DeleteGroup(c, o) == table[o] = "group" /\ Begin(c, o)
DeleteService(c, o) == table[o] = "service" /\ Begin(c, o)

(* The second statement, which waits for another deletion of the same owner  *)
(* and for who has written what has come to refer to the owner meanwhile.    *)
DeleteOwner(c) ==
  /\ tx[c].phase = "rows"
  /\ LET o == tx[c].owner
     IN  /\ o \in DOMAIN owners /\ ~OwnerLocked(o)
         /\ \A x \in Dependents(o) \ tx[c].locked : ~RowLocked(x)
  /\ tx' = [tx EXCEPT ![c].phase = "owner"]
  /\ UNCHANGED <<now, table, owners, rows, created, copies, okays, late, asked>>

(* It affects no row: an error is answered, and the transaction rolled back. *)
NotThere(c) ==
  /\ tx[c].phase = "rows" /\ tx[c].owner \notin DOMAIN owners
  /\ tx' = [tx EXCEPT ![c] = NoTx]
  /\ UNCHANGED <<now, table, owners, rows, created, copies, okays, late, asked>>

(* A plausible slip: the owner first, and its notifications after it, when   *)
(* they refer to it no more.                                                *)
RemainingOwnerFirst(o, locked) ==
  LET gone == IF table[o] = "user" THEN Dependents(o) ELSE {}
  IN  [x \in DOMAIN rows \ gone |-> Released(rows[x], o)]

(* What the transaction leaves of the rows: of a rule or a user those are    *)
(* deleted that the first statement found.  What has come since is deleted   *)
(* by a user's foreign key (ON DELETE CASCADE) and released by the others    *)
(* (ON DELETE SET NULL).                                                    *)
Remaining(o, locked) ==
  LET gone == CASE table[o] = "rule" -> locked
                [] table[o] = "user" -> locked \cup Dependents(o)
                [] OTHER             -> {}
  IN  [x \in DOMAIN rows \ gone |-> Released(rows[x], o)]

Commit(c) ==
  /\ tx[c].phase = "owner"
  /\ LET o == tx[c].owner
     IN  /\ owners' = Without(owners, {o})
         /\ rows' = Remaining(o, tx[c].locked)
         /\ okays' = [okays EXCEPT ![o] = @ + 1]
  /\ tx' = [tx EXCEPT ![c] = NoTx]
  /\ UNCHANGED <<now, table, created, copies, late, asked>>

(* A statement or the commit fails, or the process dies: ROLLBACK.           *)
Rollback(c) ==
  /\ tx[c] # NoTx
  /\ tx' = [tx EXCEPT ![c] = NoTx]
  /\ UNCHANGED <<now, table, owners, rows, created, copies, okays, late, asked>>

Next ==
  \/ Tick \/ CleanupExpiredSessions
  \/ \E t \in 1..MaxTime : CleanupOldNotifications(t)
  \/ \E o \in Owners :
       \/ CreateRule(o) \/ CreateUser(o) \/ CreateGroup(o) \/ CreateService(o)
       \/ UpdateEnabled(o) \/ UpdatePassword(o)
       \/ \E c \in Callers :
            \/ Read(c, o) \/ DeleteRule(c, o) \/ DeleteUser(c, o)
            \/ DeleteGroup(c, o) \/ DeleteService(c, o)
  \/ \E x \in Rows :
       \/ CreateNotification(x) \/ CreateSession(x) \/ CreateNode(x)
       \/ DeleteNotification(x) \/ DeleteSession(x) \/ DeleteNode(x)
       \/ \E c \in Callers : ReadNode(c, x)
  \/ \E c \in Callers :
       \/ Update(c) \/ UpdateNode(c) \/ UpdateNodeRefused(c)
       \/ DeleteOwner(c) \/ NotThere(c) \/ Commit(c) \/ Rollback(c)

Spec == Init /\ [][Next]_vars
-----------------------------------------------------------------------------
(* Of all who delete an owner at the same time one is told that it did       *)
(* (rowsAffected is 0 for the others), and no copy that is written back      *)
(* after it brings the owner back.                                          *)
DeletedOnce ==
  \A o \in Owners : okays[o] <= 1 /\ (okays[o] = 1 => o \notin DOMAIN owners)

(* What rows refer to exists: a session that was opened while its user's     *)
(* deletion ran goes with it, and a registration does not write the group    *)
(* back that its node was in when it read it.                                *)
ReferencesExist == \A x \in DOMAIN rows : rows[x].refs \subseteq DOMAIN owners

(* A notification without a rule was created while its rule's deletion ran:  *)
(* all that were there when it began went with the rule.                     *)
OrphansAreLate == \A x \in Of("notification") : rows[x].refs = {} => x \in late

(* A password that was set stays until the next one is, whatever copies of   *)
(* the user were read before and are written back after.                     *)
PasswordKept == \A o \in DOMAIN owners : owners[o].hash = asked[o]

(* Rows leave an owner, by deletion or by release, one by one, for their age, *)
(* or all that were there when its deletion began with it: a deletion that   *)
(* fails half way leaves them.                                              *)
LeftForAReason ==
  \A o \in Owners :
    LET left == Dependents(o) \ {x \in DOMAIN rows' : o \in rows'[x].refs}
    IN  \/ Cardinality(left) <= 1
        \/ \A x \in left : rows[x].kind # "node" /\ rows[x].at < now
        \/ o \in DOMAIN owners \ DOMAIN owners' /\ left = Dependents(o)
LeaveForAReason == [][LeftForAReason]_vars
=============================================================================
