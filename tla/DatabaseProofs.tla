---------------------------- MODULE DatabaseProofs ----------------------------
(***************************************************************************)
(* Proofs about the control plane's database: its repositories, for any      *)
(* number of owners, rows, callers and values of their columns, and the      *)
(* migration that creates its tables, for any number of server processes and *)
(* of faults (from "The lists" on).                                         *)
(***************************************************************************)
EXTENDS Repositories, Migration, FiniteSetTheorems, TLAPS

(* What a row may refer to: a notification to a rule, a session to a user, a  *)
(* node to a group and a service; never to two owners of one table.          *)
Fits(row) ==
  /\ \A o \in row.refs :
       \/ row.kind = "notification" /\ table[o] = "rule"
       \/ row.kind = "session" /\ table[o] = "user"
       \/ row.kind = "node" /\ table[o] \in {"group", "service"}
  /\ \A o, p \in row.refs : table[o] = table[p] => o = p

RowsFit == \A x \in DOMAIN rows : Fits(rows[x])

CopiesFit ==
  \A c \in Callers : copies[c].id \in Rows =>
    /\ copies[c].id \in created /\ copies[c].row.kind = "node"
    /\ Fits(copies[c].row)
    /\ copies[c].id \in DOMAIN rows => rows[copies[c].id].kind = "node"

(* Owners and their histories.                                              *)
DeletedWereThere == \A o \in Owners : okays[o] = 1 => o \in created
OwnersInv == DeletedOnce /\ DeletedWereThere /\ PasswordKept

(* Rows, copies and what they refer to.                                      *)
RowsInv == ReferencesExist /\ OrphansAreLate /\ RowsFit /\ CopiesFit

(* What transactions have written: no two of them the same, each only what    *)
(* refers to its owner, and all of that but the late notifications.          *)
LocksApart == \A c, d \in Callers : c # d => Locks(c) \cap Locks(d) = {}
LockedRefer ==
  \A c \in Callers : tx[c] # NoTx => tx[c].locked \subseteq Dependents(tx[c].owner)
OwnersThere ==
  \A c \in Callers : tx[c].phase = "owner" => tx[c].owner \in DOMAIN owners
OwnersApart ==
  \A c, d \in Callers :
    c # d /\ tx[c].phase = "owner" /\ tx[d].phase = "owner" =>
      tx[c].owner # tx[d].owner
OthersLate ==
  \A c \in Callers : tx[c] # NoTx =>
    \A x \in Dependents(tx[c].owner) :
      rows[x].kind = "notification" => x \in tx[c].locked \cup late
LocksInv == LocksApart /\ LockedRefer /\ OwnersThere /\ OwnersApart /\ OthersLate

IInv == TypeOK /\ OwnersInv /\ RowsInv /\ LocksInv
-----------------------------------------------------------------------------
LEMMA Copied ==
  ASSUME TypeOK, NEW c \in Callers
  PROVE  /\ copies[c].id \in Owners => copies[c].row \in Owner
         /\ copies[c].id \in Rows => copies[c].row \in Row
<1>1. copies[c] \in Copy \cup {NoCopy}
  BY DEF TypeOK
<1>2. CASE copies[c] = NoCopy
  <2>1. copies[c].id = Null
    BY <1>2 DEF NoCopy
  <2> QED
    BY <2>1, RepositoriesAssumption
<1>3. CASE copies[c] \in [id : Owners, row : Owner]
  <2>1. copies[c].id \in Owners /\ copies[c].row \in Owner
    BY <1>3
  <2> QED
    BY <2>1, RepositoriesAssumption
<1>4. CASE copies[c] \in [id : Rows, row : Row]
  <2>1. copies[c].id \in Rows /\ copies[c].row \in Row
    BY <1>4
  <2> QED
    BY <2>1, RepositoriesAssumption
<1> QED
  BY <1>1, <1>2, <1>3, <1>4 DEF Copy

LEMMA Phases ==
  ASSUME TypeOK, NEW c \in Callers
  PROVE  /\ tx[c].phase \in {"none", "rows", "owner"}
         /\ tx[c] = NoTx <=> tx[c].phase = "none"
         /\ tx[c] # NoTx => /\ tx[c] \in Tx /\ tx[c].owner \in Owners
                            /\ tx[c].locked \subseteq Rows
<1>1. tx[c] \in Tx \cup {NoTx}
  BY DEF TypeOK
<1>2. CASE tx[c] = NoTx
  BY <1>2 DEF NoTx
<1>3. CASE tx[c] \in Tx
  <2>1. /\ tx[c].phase \in {"rows", "owner"} /\ tx[c].owner \in Owners
        /\ tx[c].locked \in SUBSET Rows
    BY <1>3 DEF Tx
  <2>2. NoTx.phase = "none"
    BY DEF NoTx
  <2> QED
    BY <1>3, <2>1, <2>2
<1> QED
  BY <1>1, <1>2, <1>3

LEMMA LocksAre ==
  ASSUME TypeOK, NEW c \in Callers
  PROVE  /\ tx[c].phase = "owner" =>
              Locks(c) = tx[c].locked \cup Dependents(tx[c].owner)
         /\ tx[c].phase = "rows" => Locks(c) = tx[c].locked
         /\ tx[c].phase = "none" => Locks(c) = {}
BY DEF Locks

LEMMA DependentsAre ==
  ASSUME NEW o, NEW x
  PROVE  x \in Dependents(o) <=> x \in DOMAIN rows /\ o \in rows[x].refs
BY DEF Dependents

(* A transaction on a rule or a user has locked rows that refer to nothing    *)
(* else.                                                                    *)
LEMMA LockedReferOnce ==
  ASSUME IInv, NEW c \in Callers, tx[c] # NoTx, NEW x \in Locks(c),
         table[tx[c].owner] \in {"rule", "user"}
  PROVE  x \in DOMAIN rows /\ rows[x].refs = {tx[c].owner}
<1> DEFINE o == tx[c].owner
<1>1. x \in Dependents(o)
  <2>1. tx[c].phase \in {"rows", "owner"}
    BY Phases DEF IInv
  <2>2. tx[c].locked \subseteq Dependents(o)
    BY DEF IInv, LocksInv, LockedRefer
  <2> QED
    BY <2>1, <2>2, LocksAre DEF IInv
<1>2. x \in DOMAIN rows /\ o \in rows[x].refs
  BY <1>1, DependentsAre
<1>3. Fits(rows[x])
  BY <1>2 DEF IInv, RowsInv, RowsFit
<1>4. \A p \in rows[x].refs : table[p] = table[o]
  BY <1>2, <1>3 DEF Fits
<1>5. \A p \in rows[x].refs : p = o
  BY <1>2, <1>3, <1>4 DEF Fits
<1> QED
  BY <1>2, <1>5
-----------------------------------------------------------------------------
LEMMA Withouts ==
  ASSUME NEW f, NEW S, f \in [DOMAIN f -> S], NEW gone
  PROVE  /\ DOMAIN Without(f, gone) = DOMAIN f \ gone
         /\ Without(f, gone) \in [DOMAIN Without(f, gone) -> S]
         /\ \A x \in DOMAIN f \ gone : Without(f, gone)[x] = f[x]
BY DEF Without

LEMMA Releases ==
  ASSUME NEW row \in Row, NEW o
  PROVE  /\ Released(row, o) \in Row /\ Released(row, o).kind = row.kind
         /\ Released(row, o).refs = row.refs \ {o} /\ Released(row, o).at = row.at
BY DEF Released, Row

LEMMA RowParts ==
  ASSUME NEW row \in Row
  PROVE  /\ row.kind \in {"notification", "session", "node"}
         /\ row.refs \subseteq Owners /\ row.at \in 0..MaxTime
BY DEF Row

(* What a commit leaves of the rows it leaves as they were, but for the       *)
(* reference to the owner.                                                  *)
LEMMA Remains ==
  ASSUME TypeOK, NEW o, NEW locked
  PROVE  /\ DOMAIN Remaining(o, locked) \subseteq DOMAIN rows
         /\ Remaining(o, locked) \in [DOMAIN Remaining(o, locked) -> Row]
         /\ \A x \in DOMAIN Remaining(o, locked) :
              Remaining(o, locked)[x] = Released(rows[x], o)
         /\ table[o] = "rule" =>
              DOMAIN Remaining(o, locked) = DOMAIN rows \ locked
         /\ table[o] = "user" =>
              DOMAIN Remaining(o, locked) = DOMAIN rows \ (locked \cup Dependents(o))
         /\ table[o] \notin {"rule", "user"} =>
              DOMAIN Remaining(o, locked) = DOMAIN rows
<1> DEFINE gone == CASE table[o] = "rule" -> locked
                     [] table[o] = "user" -> locked \cup Dependents(o)
                     [] OTHER             -> {}
<1>1. Remaining(o, locked) = [x \in DOMAIN rows \ gone |-> Released(rows[x], o)]
  BY DEF Remaining
<1>2. \A x \in DOMAIN rows : rows[x] \in Row
  BY DEF TypeOK
<1>3. \A x \in DOMAIN rows : Released(rows[x], o) \in Row
  BY <1>2, Releases
<1>4. /\ table[o] = "rule" => gone = locked
      /\ table[o] = "user" => gone = locked \cup Dependents(o)
      /\ table[o] \notin {"rule", "user"} => gone = {}
  OBVIOUS
<1> HIDE DEF gone
<1> QED
  BY <1>1, <1>3, <1>4
-----------------------------------------------------------------------------
LEMMA InitTypes == Init => TypeOK
<1> SUFFICES ASSUME Init PROVE TypeOK
  OBVIOUS
<1>1. now \in 0..MaxTime
  BY RepositoriesAssumption DEF Init
<1>2. owners \in [DOMAIN owners -> Owner] /\ rows \in [DOMAIN rows -> Row]
  BY DEF Init, Empty
<1>3. DOMAIN owners = {} /\ DOMAIN rows = {}
  BY DEF Init, Empty
<1> QED
  BY <1>1, <1>2, <1>3 DEF Init, TypeOK

(* A statement that inserts an owner, one that writes owners, one that        *)
(* inserts a row, one that writes or deletes rows, a caller's reading, and a  *)
(* transaction's going on, each by what it does to the types.                *)
LEMMA TypeStep ==
  ASSUME TypeOK, table' = table, now' \in 0..MaxTime,
         created \subseteq created', created' \subseteq Owners \cup Rows,
         owners' = owners \/ /\ DOMAIN owners' \subseteq created' \cap Owners
                             /\ owners' \in [DOMAIN owners' -> Owner],
         rows' = rows \/ /\ DOMAIN rows' \subseteq created' \cap Rows
                         /\ rows' \in [DOMAIN rows' -> Row],
         copies' = copies \/ copies' \in [Callers -> Copy \cup {NoCopy}],
         tx' = tx \/ tx' \in [Callers -> Tx \cup {NoTx}],
         okays' = okays \/ okays' \in [Owners -> Nat],
         late' \subseteq Rows,
         asked' = asked \/ asked' \in [Owners -> Hashes \cup {Null}]
  PROVE  TypeOK'
BY DEF TypeOK

LEMMA TypeNow == TypeOK => /\ now \in 0..MaxTime /\ created \subseteq Owners \cup Rows
                           /\ late \subseteq Rows
BY DEF TypeOK
-----------------------------------------------------------------------------
(* What a row that is inserted refers to.                                    *)
Whole(row) == Fits(row) /\ (row.kind # "node" => row.refs # {})

(* What Insert is given by the three statements that insert rows.            *)
LEMMA Inserted ==
  ASSUME TypeOK, NEW x \in Rows,
         CreateNotification(x) \/ CreateSession(x) \/ CreateNode(x)
  PROVE  \E row \in Row : Insert(x, row) /\ Whole(row)
<1>1. ASSUME CreateNotification(x)
      PROVE  \E row \in Row : Insert(x, row) /\ Whole(row)
  <2>1. PICK o \in DOMAIN owners, t \in 0..now :
          /\ table[o] = "rule"
          /\ Insert(x, [kind |-> "notification", refs |-> {o}, at |-> t])
    BY <1>1 DEF CreateNotification
  <2> DEFINE row == [kind |-> "notification", refs |-> {o}, at |-> t]
  <2>2. o \in Owners /\ t \in 0..MaxTime
    BY RepositoriesAssumption DEF TypeOK
  <2>3. row \in Row /\ Whole(row)
    BY <2>1, <2>2 DEF Row, Fits, Whole
  <2> QED
    BY <2>1, <2>3
<1>2. ASSUME CreateSession(x)
      PROVE  \E row \in Row : Insert(x, row) /\ Whole(row)
  <2>1. PICK o \in DOMAIN owners, t \in now..MaxTime :
          /\ table[o] = "user"
          /\ Insert(x, [kind |-> "session", refs |-> {o}, at |-> t])
    BY <1>2 DEF CreateSession
  <2> DEFINE row == [kind |-> "session", refs |-> {o}, at |-> t]
  <2>2. o \in Owners /\ t \in 0..MaxTime
    BY RepositoriesAssumption DEF TypeOK
  <2>3. row \in Row /\ Whole(row)
    BY <2>1, <2>2 DEF Row, Fits, Whole
  <2> QED
    BY <2>1, <2>3
<1>3. ASSUME CreateNode(x)
      PROVE  \E row \in Row : Insert(x, row) /\ Whole(row)
  <2>1. PICK m \in Memberships :
          Insert(x, [kind |-> "node", refs |-> m, at |-> 0])
    BY <1>3 DEF CreateNode
  <2> DEFINE row == [kind |-> "node", refs |-> m, at |-> 0]
  <2>2. 0 \in 0..MaxTime
    BY RepositoriesAssumption
  <2>3. row \in Row
    BY <2>1, <2>2 DEF Row, Memberships
  <2>4. Whole(row)
    BY <2>1 DEF Fits, Whole, Memberships
  <2> QED
    BY <2>1, <2>3, <2>4
<1> QED
  BY <1>1, <1>2, <1>3

(* What the deletions and cleanups give Remove: one row, or rows that are of  *)
(* age.                                                                     *)
LEMMA Removed ==
  ASSUME \/ CleanupExpiredSessions
         \/ \E t \in 1..MaxTime : CleanupOldNotifications(t)
         \/ \E x \in Rows : DeleteNotification(x) \/ DeleteSession(x) \/ DeleteNode(x),
         TypeOK
  PROVE  \E gone : /\ Remove(gone)
                   /\ \/ \E x \in Rows : gone = {x}
                      \/ \A x \in gone : rows[x].kind # "node" /\ rows[x].at < now
<1>1. ASSUME CleanupExpiredSessions
      PROVE  \E gone : /\ Remove(gone)
                       /\ \A x \in gone : rows[x].kind # "node" /\ rows[x].at < now
  <2> DEFINE gone == {x \in Of("session") : rows[x].at < now}
  <2>1. Remove(gone)
    BY <1>1 DEF CleanupExpiredSessions
  <2>2. \A x \in gone : rows[x].kind # "node" /\ rows[x].at < now
    BY DEF Of
  <2> HIDE DEF gone
  <2> QED
    BY <2>1, <2>2
<1>2. ASSUME NEW t \in 1..MaxTime, CleanupOldNotifications(t)
      PROVE  \E gone : /\ Remove(gone)
                       /\ \A x \in gone : rows[x].kind # "node" /\ rows[x].at < now
  <2> DEFINE gone == {x \in Of("notification") : rows[x].at < t}
  <2>1. Remove(gone) /\ t <= now
    BY <1>2 DEF CleanupOldNotifications
  <2>2. \A x \in gone : rows[x].kind # "node" /\ rows[x].at < now
    <3>1. \A x \in DOMAIN rows : rows[x].at \in 0..MaxTime
      BY RowParts DEF TypeOK
    <3>2. now \in 0..MaxTime
      BY DEF TypeOK
    <3> QED
      BY <2>1, <3>1, <3>2, RepositoriesAssumption DEF Of
  <2> HIDE DEF gone
  <2> QED
    BY <2>1, <2>2
<1>3. ASSUME NEW x \in Rows, DeleteNotification(x) \/ DeleteSession(x) \/ DeleteNode(x)
      PROVE  Remove({x})
  BY <1>3 DEF DeleteNotification, DeleteSession, DeleteNode
<1> QED
  BY <1>1, <1>2, <1>3
-----------------------------------------------------------------------------
LEMMA TypeOwners ==
  ASSUME TypeOK, NEW o \in Owners,
         CreateRule(o) \/ CreateUser(o) \/ CreateGroup(o) \/ CreateService(o)
  PROVE  TypeOK' /\ \E hash : Create(o, hash)
<1>1. PICK hash \in Hashes \cup {Null} : Create(o, hash)
  BY DEF CreateRule, CreateUser, CreateGroup, CreateService
<1>2. PICK k \in Columns :
        owners' = With(owners, o, [hash |-> hash, columns |-> k])
  BY <1>1 DEF Create
<1>3. [hash |-> hash, columns |-> k] \in Owner
  BY DEF Owner
<1>4. owners \in [DOMAIN owners -> Owner] /\ DOMAIN owners \subseteq created \cap Owners
  BY DEF TypeOK
<1>5. DOMAIN owners' = DOMAIN owners \cup {o} /\ owners' \in [DOMAIN owners' -> Owner]
  <2> DEFINE new == [hash |-> hash, columns |-> k]
  <2>1. owners' = With(owners, o, new) /\ new \in Owner
    BY <1>2, <1>3
  <2> HIDE DEF new
  <2>2. /\ DOMAIN With(owners, o, new) = DOMAIN owners \cup {o}
        /\ With(owners, o, new) \in [DOMAIN With(owners, o, new) -> Owner]
    BY <1>4, <2>1 DEF With
  <2> QED
    BY <2>1, <2>2
<1>6. /\ created' = created \cup {o} /\ asked' = [asked EXCEPT ![o] = hash]
      /\ UNCHANGED <<now, table, rows, copies, tx, okays, late>>
  BY <1>1 DEF Create
<1>7. asked' \in [Owners -> Hashes \cup {Null}]
  BY <1>6 DEF TypeOK
<1> QED
  BY <1>1, <1>4, <1>5, <1>6, <1>7, TypeStep, TypeNow

(* Everything that is written is of its type, from which state it may be.    *)
LEMMA StepTypes == TypeOK /\ [Next]_vars => TypeOK'
<1> SUFFICES ASSUME TypeOK, [Next]_vars PROVE TypeOK'
  OBVIOUS
<1> USE TypeNow
<1>1. CASE Tick
  BY <1>1, RepositoriesAssumption DEF Tick, TypeOK
<1>2. ASSUME NEW o \in Owners,
             CreateRule(o) \/ CreateUser(o) \/ CreateGroup(o) \/ CreateService(o)
      PROVE  TypeOK'
  BY <1>2, TypeOwners
<1>3. ASSUME NEW o \in Owners, UpdateEnabled(o) PROVE TypeOK'
  <2>1. PICK k \in Columns : owners' = [owners EXCEPT ![o].columns = k]
    BY <1>3 DEF UpdateEnabled
  <2>2. o \in DOMAIN owners /\ UNCHANGED <<now, table, rows, created, copies, tx,
                                          okays, late, asked>>
    BY <1>3 DEF UpdateEnabled
  <2>3. owners' \in [DOMAIN owners -> Owner] /\ DOMAIN owners' = DOMAIN owners
    BY <2>1, <2>2 DEF TypeOK, Owner
  <2> QED
    BY <2>2, <2>3 DEF TypeOK
<1>4. ASSUME NEW o \in Owners, UpdatePassword(o) PROVE TypeOK'
  <2>1. PICK hash \in Hashes : /\ owners' = [owners EXCEPT ![o].hash = hash]
                               /\ asked' = [asked EXCEPT ![o] = hash]
    BY <1>4 DEF UpdatePassword
  <2>2. o \in DOMAIN owners /\ UNCHANGED <<now, table, rows, created, copies, tx,
                                          okays, late>>
    BY <1>4 DEF UpdatePassword
  <2>3. Columns # {}
    BY <2>2 DEF TypeOK, Owner
  <2>4. owners' \in [DOMAIN owners -> Owner] /\ DOMAIN owners' = DOMAIN owners
    <3>1. PICK k \in Columns : TRUE
      BY <2>3
    <3> QED
      BY <2>1, <2>2, <3>1 DEF TypeOK, Owner
  <2>5. asked' \in [Owners -> Hashes \cup {Null}]
    BY <2>1 DEF TypeOK
  <2> QED
    BY <2>2, <2>4, <2>5 DEF TypeOK
<1>5. ASSUME NEW c \in Callers, NEW o \in Owners, Read(c, o) PROVE TypeOK'
  <2>1. PICK k \in Columns : copies' = [copies EXCEPT ![c] =
                    [id |-> o, row |-> [owners[o] EXCEPT !.columns = k]]]
    BY <1>5 DEF Read
  <2>2. o \in DOMAIN owners /\ UNCHANGED <<now, table, owners, rows, created, tx,
                                          okays, late, asked>>
    BY <1>5 DEF Read
  <2>3. [owners[o] EXCEPT !.columns = k] \in Owner
    BY <2>2 DEF TypeOK, Owner
  <2>4. copies' \in [Callers -> Copy \cup {NoCopy}]
    BY <2>1, <2>3 DEF Copy, TypeOK
  <2> QED
    BY <2>2, <2>4, TypeStep
<1>6. ASSUME NEW c \in Callers, NEW x \in Rows, ReadNode(c, x) PROVE TypeOK'
  <2>1. PICK m \in Memberships :
          copies' = [copies EXCEPT ![c] = [id |-> x, row |->
            [rows[x] EXCEPT !.refs =
               m \cup {o \in rows[x].refs : \A p \in m : table[p] # table[o]}]]]
    BY <1>6 DEF ReadNode
  <2> DEFINE refs == m \cup {o \in rows[x].refs : \A p \in m : table[p] # table[o]}
  <2>2. x \in DOMAIN rows /\ UNCHANGED <<now, table, owners, rows, created, tx,
                                        okays, late, asked>>
    BY <1>6 DEF ReadNode, Of
  <2>3. rows[x] \in Row /\ refs \subseteq Owners
    <3>1. rows[x] \in Row
      BY <2>2 DEF TypeOK
    <3> QED
      BY <3>1, RowParts DEF Memberships
  <2> HIDE DEF refs
  <2>4. [rows[x] EXCEPT !.refs = refs] \in Row
    BY <2>3 DEF Row
  <2>5. copies' = [copies EXCEPT ![c] = [id |-> x, row |-> [rows[x] EXCEPT !.refs = refs]]]
    BY <2>1 DEF refs
  <2>6. copies' \in [Callers -> Copy \cup {NoCopy}]
    BY <2>4, <2>5 DEF Copy, TypeOK
  <2> QED
    BY <2>2, <2>6, TypeStep
<1>7. ASSUME NEW c \in Callers, Update(c) PROVE TypeOK'
  <2>1. copies[c].row \in Owner
    BY <1>7, Copied DEF Update
  <2>2. /\ owners' = [o \in DOMAIN owners |-> IF o = copies[c].id
                        THEN Updated(owners[o], copies[c].row) ELSE owners[o]]
        /\ copies' = [copies EXCEPT ![c] = NoCopy]
        /\ UNCHANGED <<now, table, rows, created, tx, okays, late, asked>>
    BY <1>7 DEF Update
  <2>3. \A o \in DOMAIN owners : Updated(owners[o], copies[c].row) \in Owner
    BY <2>1 DEF Updated, Owner, TypeOK
  <2>4. owners' \in [DOMAIN owners -> Owner] /\ DOMAIN owners' = DOMAIN owners
    BY <2>2, <2>3 DEF TypeOK
  <2>5. copies' \in [Callers -> Copy \cup {NoCopy}]
    BY <2>2 DEF TypeOK
  <2> QED
    BY <2>2, <2>4, <2>5 DEF TypeOK
<1>8. ASSUME NEW c \in Callers, UpdateNode(c) PROVE TypeOK'
  <2>1. /\ copies[c].id \in DOMAIN rows
        /\ rows' = [rows EXCEPT ![copies[c].id] = copies[c].row]
        /\ copies' = [copies EXCEPT ![c] = NoCopy]
        /\ UNCHANGED <<now, table, owners, created, tx, okays, late, asked>>
    BY <1>8 DEF UpdateNode
  <2>2. copies[c].row \in Row
    BY <2>1, Copied DEF TypeOK
  <2>3. /\ rows' \in [DOMAIN rows' -> Row] /\ DOMAIN rows' = DOMAIN rows
        /\ copies' \in [Callers -> Copy \cup {NoCopy}]
    BY <2>1, <2>2 DEF TypeOK
  <2> QED
    BY <2>1, <2>3 DEF TypeOK
<1>9. ASSUME NEW c \in Callers, UpdateNodeRefused(c) PROVE TypeOK'
  <2>1. /\ copies' = [copies EXCEPT ![c] = NoCopy]
        /\ UNCHANGED <<now, table, owners, rows, created, tx, okays, late, asked>>
    BY <1>9 DEF UpdateNodeRefused
  <2>2. copies' \in [Callers -> Copy \cup {NoCopy}]
    BY <2>1 DEF TypeOK
  <2> QED
    BY <2>1, <2>2, TypeStep
<1>10. ASSUME NEW x \in Rows, CreateNotification(x) \/ CreateSession(x) \/ CreateNode(x)
       PROVE  TypeOK'
  <2>1. PICK row \in Row : Insert(x, row)
    BY <1>10, Inserted
  <2>2. /\ created' = created \cup {x} /\ rows' = With(rows, x, row)
        /\ late' \subseteq Rows
        /\ UNCHANGED <<now, table, owners, copies, tx, okays, asked>>
    BY <2>1 DEF Insert
  <2>3. rows \in [DOMAIN rows -> Row] /\ DOMAIN rows \subseteq created \cap Rows
    BY DEF TypeOK
  <2>4. DOMAIN rows' = DOMAIN rows \cup {x} /\ rows' \in [DOMAIN rows' -> Row]
    <3>1. /\ DOMAIN With(rows, x, row) = DOMAIN rows \cup {x}
          /\ With(rows, x, row) \in [DOMAIN With(rows, x, row) -> Row]
      BY <2>3 DEF With
    <3> QED
      BY <2>2, <3>1
  <2> QED
    BY <2>2, <2>3, <2>4, TypeStep
<1>11. ASSUME NEW gone, Remove(gone) PROVE TypeOK'
  <2>1. /\ rows' = Without(rows, gone)
        /\ UNCHANGED <<now, table, owners, created, copies, tx, okays, late, asked>>
    BY <1>11 DEF Remove
  <2>2. rows \in [DOMAIN rows -> Row] /\ DOMAIN rows \subseteq created \cap Rows
    BY DEF TypeOK
  <2>3. DOMAIN rows' = DOMAIN rows \ gone /\ rows' \in [DOMAIN rows' -> Row]
    BY <2>1, <2>2, Withouts
  <2> QED
    BY <2>1, <2>2, <2>3, TypeStep
<1>12. ASSUME NEW c \in Callers, NEW o \in Owners, Begin(c, o) PROVE TypeOK'
  <2>1. /\ tx' = [tx EXCEPT ![c] = [phase |-> "rows", owner |-> o,
                                    locked |-> Dependents(o)]]
        /\ UNCHANGED <<now, table, owners, rows, created, copies, okays, late, asked>>
    BY <1>12 DEF Begin
  <2>2. Dependents(o) \subseteq Rows
    BY DEF Dependents, TypeOK
  <2>3. tx' \in [Callers -> Tx \cup {NoTx}]
    BY <2>1, <2>2 DEF Tx, TypeOK
  <2> QED
    BY <2>1, <2>3, TypeStep
<1>13. ASSUME NEW c \in Callers, DeleteOwner(c) PROVE TypeOK'
  <2>1. /\ tx[c].phase = "rows" /\ tx' = [tx EXCEPT ![c].phase = "owner"]
        /\ UNCHANGED <<now, table, owners, rows, created, copies, okays, late, asked>>
    BY <1>13 DEF DeleteOwner
  <2>2. tx[c] \in Tx
    BY <2>1, Phases
  <2>3. [tx[c] EXCEPT !.phase = "owner"] \in Tx
    BY <2>2 DEF Tx
  <2>4. tx' \in [Callers -> Tx \cup {NoTx}]
    BY <2>1, <2>3 DEF TypeOK
  <2> QED
    BY <2>1, <2>4, TypeStep
<1>14. ASSUME NEW c \in Callers, NotThere(c) \/ Rollback(c) PROVE TypeOK'
  <2>1. /\ tx' = [tx EXCEPT ![c] = NoTx]
        /\ UNCHANGED <<now, table, owners, rows, created, copies, okays, late, asked>>
    BY <1>14 DEF NotThere, Rollback
  <2>2. tx' \in [Callers -> Tx \cup {NoTx}]
    BY <2>1 DEF TypeOK
  <2> QED
    BY <2>1, <2>2, TypeStep
<1>15. ASSUME NEW c \in Callers, Commit(c) PROVE TypeOK'
  <2> DEFINE o == tx[c].owner
  <2>1. /\ owners' = Without(owners, {o}) /\ rows' = Remaining(o, tx[c].locked)
        /\ okays' = [okays EXCEPT ![o] = @ + 1] /\ tx' = [tx EXCEPT ![c] = NoTx]
        /\ UNCHANGED <<now, table, created, copies, late, asked>>
    BY <1>15 DEF Commit
  <2>2. /\ rows \in [DOMAIN rows -> Row] /\ DOMAIN rows \subseteq created \cap Rows
        /\ owners \in [DOMAIN owners -> Owner]
        /\ DOMAIN owners \subseteq created \cap Owners
    BY DEF TypeOK
  <2> HIDE DEF o
  <2>3. DOMAIN owners' = DOMAIN owners \ {o} /\ owners' \in [DOMAIN owners' -> Owner]
    BY <2>1, <2>2, Withouts
  <2>4. DOMAIN rows' \subseteq DOMAIN rows /\ rows' \in [DOMAIN rows' -> Row]
    BY <2>1, Remains
  <2>5. okays' \in [Owners -> Nat]
    <3>1. okays \in [Owners -> Nat] /\ o \in Owners
      BY <1>15, Phases DEF TypeOK, Commit, NoTx, o
    <3>2. okays[o] + 1 \in Nat
      BY <3>1
    <3> QED
      BY <2>1, <3>1, <3>2
  <2>6. tx' \in [Callers -> Tx \cup {NoTx}]
    BY <2>1 DEF TypeOK
  <2> QED
    BY <2>1, <2>2, <2>3, <2>4, <2>5, <2>6, TypeStep
<1>16. CASE UNCHANGED vars
  BY <1>16 DEF vars, TypeOK
<1>17. ASSUME NEW c \in Callers, NEW o \in Owners,
              DeleteRule(c, o) \/ DeleteUser(c, o) \/ DeleteGroup(c, o)
                \/ DeleteService(c, o)
       PROVE  TypeOK'
  BY <1>12, <1>17 DEF DeleteRule, DeleteUser, DeleteGroup, DeleteService
<1>18. ASSUME \/ CleanupExpiredSessions
              \/ \E t \in 1..MaxTime : CleanupOldNotifications(t)
              \/ \E x \in Rows : DeleteNotification(x) \/ DeleteSession(x) \/ DeleteNode(x)
       PROVE  TypeOK'
  BY <1>11, <1>18, Removed
<1> QED
  BY <1>1, <1>2, <1>3, <1>4, <1>5, <1>6, <1>7, <1>8, <1>9, <1>10, <1>13, <1>14,
     <1>15, <1>16, <1>17, <1>18 DEF Next
-----------------------------------------------------------------------------
(* Owners: who is told that it deleted one did, and no password reverts.     *)
LEMMA StepOwners == IInv /\ [Next]_vars => OwnersInv'
<1> SUFFICES ASSUME IInv, [Next]_vars PROVE OwnersInv'
  OBVIOUS
<1> USE DEF IInv
<1>1. ASSUME NEW o \in Owners,
             CreateRule(o) \/ CreateUser(o) \/ CreateGroup(o) \/ CreateService(o)
      PROVE  OwnersInv'
  <2>1. PICK hash : Create(o, hash)
    BY <1>1, TypeOwners
  <2>2. /\ o \notin created /\ created' = created \cup {o}
        /\ DOMAIN owners' = DOMAIN owners \cup {o} /\ owners'[o].hash = hash
        /\ \A p \in DOMAIN owners : p # o => owners'[p] = owners[p]
        /\ asked' = [asked EXCEPT ![o] = hash] /\ okays' = okays
    BY <2>1 DEF Create, With
  <2>3. DeletedOnce' /\ DeletedWereThere'
    BY <2>2 DEF OwnersInv, DeletedOnce, DeletedWereThere
  <2>4. PasswordKept'
    BY <2>2 DEF OwnersInv, PasswordKept, TypeOK
  <2> QED
    BY <2>3, <2>4 DEF OwnersInv
<1>2. ASSUME NEW o \in Owners, UpdateEnabled(o) PROVE OwnersInv'
  <2>1. PICK k \in Columns : owners' = [owners EXCEPT ![o].columns = k]
    BY <1>2 DEF UpdateEnabled
  <2>2. UNCHANGED <<created, okays, asked>>
    BY <1>2 DEF UpdateEnabled
  <2>3. /\ DOMAIN owners' = DOMAIN owners
        /\ \A p \in DOMAIN owners : owners'[p].hash = owners[p].hash
    BY <2>1 DEF TypeOK, Owner
  <2> QED
    BY <2>2, <2>3 DEF OwnersInv, DeletedOnce, DeletedWereThere, PasswordKept
<1>3. ASSUME NEW o \in Owners, UpdatePassword(o) PROVE OwnersInv'
  <2>1. PICK hash \in Hashes : /\ owners' = [owners EXCEPT ![o].hash = hash]
                               /\ asked' = [asked EXCEPT ![o] = hash]
    BY <1>3 DEF UpdatePassword
  <2>2. UNCHANGED <<created, okays>>
    BY <1>3 DEF UpdatePassword
  <2>3. /\ DOMAIN owners' = DOMAIN owners
        /\ \A p \in DOMAIN owners : owners'[p].hash = asked'[p]
    BY <2>1 DEF OwnersInv, PasswordKept, TypeOK, Owner
  <2> QED
    BY <2>2, <2>3 DEF OwnersInv, DeletedOnce, DeletedWereThere, PasswordKept
<1>4. ASSUME NEW c \in Callers, Update(c) PROVE OwnersInv'
  <2>1. /\ owners' = [o \in DOMAIN owners |-> IF o = copies[c].id
                        THEN Updated(owners[o], copies[c].row) ELSE owners[o]]
        /\ UNCHANGED <<created, okays, asked>>
    BY <1>4 DEF Update
  <2>2. \A o \in DOMAIN owners :
          Updated(owners[o], copies[c].row).hash = owners[o].hash
    BY DEF Updated, TypeOK, Owner
  <2>3. /\ DOMAIN owners' = DOMAIN owners
        /\ \A p \in DOMAIN owners : owners'[p].hash = owners[p].hash
    BY <2>1, <2>2
  <2> QED
    BY <2>1, <2>3 DEF OwnersInv, DeletedOnce, DeletedWereThere, PasswordKept
<1>5. ASSUME NEW c \in Callers, Commit(c) PROVE OwnersInv'
  <2> DEFINE o == tx[c].owner
  <2>1. /\ owners' = Without(owners, {o}) /\ okays' = [okays EXCEPT ![o] = @ + 1]
        /\ UNCHANGED <<created, asked>> /\ tx[c].phase = "owner"
    BY <1>5 DEF Commit
  <2>2. o \in DOMAIN owners /\ o \in Owners
    BY <2>1 DEF LocksInv, OwnersThere, TypeOK
  <2> HIDE DEF o
  <2>3. /\ DOMAIN owners' = DOMAIN owners \ {o}
        /\ \A p \in DOMAIN owners' : owners'[p] = owners[p]
    BY <2>1 DEF Without
  <2>4. /\ okays[o] \in Nat /\ okays[o] <= 1 /\ okays[o] # 1
        /\ okays'[o] = okays[o] + 1 /\ \A p \in Owners \ {o} : okays'[p] = okays[p]
    BY <2>1, <2>2 DEF OwnersInv, DeletedOnce, TypeOK
  <2>5. okays'[o] = 1
    BY <2>4
  <2>6. o \in created
    BY <2>2 DEF TypeOK
  <2>7. DeletedOnce'
    <3> SUFFICES ASSUME NEW p \in Owners
                 PROVE  okays'[p] <= 1 /\ (okays'[p] = 1 => p \notin DOMAIN owners')
      BY DEF DeletedOnce
    <3>1. CASE p = o
      BY <2>3, <2>5, <3>1
    <3>2. CASE p # o
      BY <2>3, <2>4, <3>2 DEF OwnersInv, DeletedOnce
    <3> QED
      BY <3>1, <3>2
  <2>8. DeletedWereThere' /\ PasswordKept'
    BY <2>1, <2>3, <2>4, <2>6 DEF OwnersInv, DeletedWereThere, PasswordKept
  <2> QED
    BY <2>7, <2>8 DEF OwnersInv
<1>6. ASSUME UNCHANGED <<owners, okays, asked>>, created \subseteq created'
      PROVE  OwnersInv'
  BY <1>6 DEF OwnersInv, DeletedOnce, DeletedWereThere, PasswordKept
<1>7. ASSUME NEW c \in Callers, NEW o \in Owners, Begin(c, o)
      PROVE  UNCHANGED <<owners, okays, asked, created>>
  BY <1>7 DEF Begin
<1>8. ASSUME NEW gone, Remove(gone) PROVE UNCHANGED <<owners, okays, asked, created>>
  BY <1>8 DEF Remove
<1>9. ASSUME NEW x \in Rows, CreateNotification(x) \/ CreateSession(x) \/ CreateNode(x)
      PROVE  UNCHANGED <<owners, okays, asked>> /\ created \subseteq created'
  <2>1. PICK row : Insert(x, row)
    BY <1>9, Inserted
  <2> QED
    BY <2>1 DEF Insert
<1>10. ASSUME \/ \E c \in Callers : \/ UpdateNode(c) \/ UpdateNodeRefused(c)
                                    \/ DeleteOwner(c) \/ NotThere(c) \/ Rollback(c)
                                    \/ \E o \in Owners : Read(c, o)
                                    \/ \E x \in Rows : ReadNode(c, x)
              \/ Tick \/ UNCHANGED vars
       PROVE  UNCHANGED <<owners, okays, asked, created>>
  BY <1>10 DEF UpdateNode, UpdateNodeRefused, DeleteOwner, NotThere, Rollback, Read,
     ReadNode, Tick, vars
<1>11. ASSUME \/ CleanupExpiredSessions
              \/ \E t \in 1..MaxTime : CleanupOldNotifications(t)
              \/ \E x \in Rows : DeleteNotification(x) \/ DeleteSession(x) \/ DeleteNode(x)
       PROVE  UNCHANGED <<owners, okays, asked, created>>
  BY <1>8, <1>11, Removed
<1>12. ASSUME NEW c \in Callers, NEW o \in Owners,
              DeleteRule(c, o) \/ DeleteUser(c, o) \/ DeleteGroup(c, o)
                \/ DeleteService(c, o)
       PROVE  UNCHANGED <<owners, okays, asked, created>>
  BY <1>7, <1>12 DEF DeleteRule, DeleteUser, DeleteGroup, DeleteService
<1> QED
  BY <1>1, <1>2, <1>3, <1>4, <1>5, <1>6, <1>9, <1>10, <1>11, <1>12 DEF Next
-----------------------------------------------------------------------------
(* Copies go on to fit while no row changes its kind.                        *)
LEMMA CopiesStay ==
  ASSUME TypeOK, CopiesFit, table' = table, created \subseteq created',
         copies' = copies \/ \E c \in Callers : copies' = [copies EXCEPT ![c] = NoCopy],
         \A x \in DOMAIN rows' : IF x \in DOMAIN rows THEN rows'[x].kind = rows[x].kind
                                 ELSE x \notin created
  PROVE  CopiesFit'
<1> SUFFICES ASSUME NEW c \in Callers, copies'[c].id \in Rows
             PROVE  /\ copies'[c].id \in created' /\ copies'[c].row.kind = "node"
                    /\ Fits(copies[c].row)'
                    /\ copies'[c].id \in DOMAIN rows' =>
                         rows'[copies'[c].id].kind = "node"
  BY DEF CopiesFit
<1>1. copies'[c] = copies[c] \/ copies'[c] = NoCopy
  BY DEF TypeOK
<1>2. NoCopy.id \notin Rows
  BY RepositoriesAssumption DEF NoCopy
<1>3. copies'[c] = copies[c]
  BY <1>1, <1>2
<1>4. /\ copies[c].id \in created /\ copies[c].row.kind = "node"
      /\ Fits(copies[c].row)
      /\ copies[c].id \in DOMAIN rows => rows[copies[c].id].kind = "node"
  BY <1>3 DEF CopiesFit
<1>5. Fits(copies[c].row)'
  BY <1>3, <1>4 DEF Fits
<1> QED
  BY <1>3, <1>4, <1>5

(* A statement that leaves rows and transactions alone.                      *)
LEMMA RowsStay ==
  ASSUME IInv, UNCHANGED <<table, rows, tx, late>>, CopiesFit',
         DOMAIN owners \subseteq DOMAIN owners'
  PROVE  RowsInv' /\ LocksInv'
<1> USE DEF IInv, RowsInv, LocksInv
<1>1. /\ \A c \in Callers : Locks(c)' = Locks(c)
      /\ \A o : Dependents(o)' = Dependents(o)
  BY DEF Locks, Dependents
<1>2. ReferencesExist' /\ OrphansAreLate' /\ RowsFit'
  BY DEF ReferencesExist, OrphansAreLate, RowsFit, Fits, Of
<1>3. LocksApart' /\ LockedRefer' /\ OwnersThere' /\ OwnersApart' /\ OthersLate'
  BY <1>1 DEF LocksApart, LockedRefer, OwnersThere, OwnersApart, OthersLate
<1> QED
  BY <1>2, <1>3

(* Every transaction that is not c's has written the same as before.         *)
LEMMA LocksStay ==
  ASSUME IInv, NEW c \in Callers,
         \A d \in Callers : d # c => tx'[d] = tx[d] /\ Locks(d)' = Locks(d),
         \A d \in Callers : d # c => Locks(c)' \cap Locks(d) = {},
         LockedRefer', OwnersThere', OthersLate',
         tx'[c].phase = "owner" =>
           \A d \in Callers : tx[d].phase = "owner" => tx[d].owner # tx'[c].owner
  PROVE  LocksInv'
<1>1. LocksApart'
  BY DEF IInv, LocksInv, LocksApart
<1>2. OwnersApart'
  BY DEF IInv, LocksInv, OwnersApart
<1> QED
  BY <1>1, <1>2 DEF LocksInv

(* The same when no transaction goes on.                                     *)
LEMMA LocksStayAll ==
  ASSUME IInv, tx' = tx, owners' = owners,
         \A d \in Callers : Locks(d)' = Locks(d), LockedRefer', OthersLate'
  PROVE  LocksInv'
BY DEF IInv, LocksInv, LocksApart, OwnersApart, OwnersThere
-----------------------------------------------------------------------------
(* What c's transaction has locked refers to its owner.                      *)
LEMMA LocksRefer ==
  ASSUME IInv, NEW c \in Callers, NEW x \in Locks(c)
  PROVE  /\ tx[c] # NoTx /\ x \in Dependents(tx[c].owner) /\ RowLocked(x)
         /\ x \in DOMAIN rows /\ x \in created
<1>1. tx[c].phase \in {"rows", "owner"} /\ tx[c] # NoTx
  BY Phases, LocksAre DEF IInv
<1>2. tx[c].locked \subseteq Dependents(tx[c].owner)
  BY <1>1 DEF IInv, LocksInv, LockedRefer
<1>3. x \in Dependents(tx[c].owner)
  BY <1>1, <1>2, LocksAre DEF IInv
<1>4. x \in DOMAIN rows
  BY <1>3, DependentsAre
<1> QED
  BY <1>1, <1>3, <1>4 DEF RowLocked, IInv, TypeOK

LEMMA InsertStep ==
  ASSUME IInv, NEW x \in Rows, NEW row \in Row, Insert(x, row), Whole(row)
  PROVE  RowsInv' /\ LocksInv'
<1> USE DEF IInv
<1>1. /\ x \notin created /\ created' = created \cup {x} /\ x \notin DOMAIN rows
      /\ Referable(row.refs)
      /\ UNCHANGED <<now, table, owners, copies, tx, okays, asked>>
  BY DEF Insert, TypeOK
<1>2. /\ DOMAIN rows' = DOMAIN rows \cup {x} /\ rows'[x] = row
      /\ \A y \in DOMAIN rows : rows'[y] = rows[y] /\ y # x
  BY <1>1 DEF Insert, With
<1>3. /\ late \subseteq late'
      /\ row.kind = "notification" /\ (\E o \in row.refs : Deleting(o)) => x \in late'
  BY DEF Insert
<1>4. \A o : Dependents(o)' = Dependents(o) \cup (IF o \in row.refs THEN {x} ELSE {})
  BY <1>2 DEF Dependents
<1>5. ReferencesExist'
  <2>1. row.refs \subseteq DOMAIN owners
    BY <1>1 DEF Referable
  <2> QED
    BY <1>1, <1>2, <2>1 DEF RowsInv, ReferencesExist
<1>6. OrphansAreLate'
  BY <1>2, <1>3 DEF RowsInv, OrphansAreLate, Of, Whole
<1>7. RowsFit'
  BY <1>1, <1>2 DEF RowsInv, RowsFit, Fits, Whole
<1>8. CopiesFit'
  BY <1>1, <1>2, CopiesStay DEF RowsInv
<1>9. ASSUME NEW d \in Callers PROVE Locks(d)' = Locks(d)
  <2>1. tx[d].phase = "owner" => tx[d].owner \notin row.refs
    BY <1>1 DEF Referable, OwnerLocked
  <2> QED
    BY <1>1, <1>4, <2>1 DEF Locks
<1>10. LockedRefer'
  BY <1>1, <1>4 DEF LocksInv, LockedRefer
<1>11. OthersLate'
  <2> SUFFICES ASSUME NEW d \in Callers, tx[d] # NoTx,
                      NEW y \in Dependents(tx[d].owner)', rows'[y].kind = "notification"
               PROVE  y \in tx[d].locked \cup late'
    BY <1>1 DEF OthersLate
  <2>1. CASE y \in Dependents(tx[d].owner)
    <3>1. rows'[y] = rows[y]
      BY <1>2, <2>1, DependentsAre
    <3> QED
      BY <1>3, <2>1, <3>1 DEF LocksInv, OthersLate
  <2>2. CASE y \notin Dependents(tx[d].owner)
    <3>1. y = x /\ tx[d].owner \in row.refs
      BY <1>1, <1>4, <2>2
    <3>2. Deleting(tx[d].owner)
      BY DEF Deleting
    <3> QED
      BY <1>2, <1>3, <3>1, <3>2
  <2> QED
    BY <2>1, <2>2
<1> QED
  BY <1>1, <1>5, <1>6, <1>7, <1>8, <1>9, <1>10, <1>11, LocksStayAll DEF RowsInv

LEMMA UpdateNodeStep ==
  ASSUME IInv, NEW c \in Callers, UpdateNode(c)
  PROVE  RowsInv' /\ LocksInv'
<1> USE DEF IInv
<1> DEFINE x == copies[c].id
           row == copies[c].row
<1>1. /\ x \in DOMAIN rows /\ ~RowLocked(x) /\ Referable(row.refs \ rows[x].refs)
      /\ rows' = [rows EXCEPT ![x] = row] /\ copies' = [copies EXCEPT ![c] = NoCopy]
      /\ UNCHANGED <<now, table, owners, created, tx, okays, late, asked>>
  BY DEF UpdateNode
<1>2. row.kind = "node" /\ Fits(row) /\ rows[x].kind = "node"
  <2>1. x \in Rows
    BY <1>1 DEF TypeOK
  <2> QED
    BY <1>1, <2>1 DEF RowsInv, CopiesFit
<1> HIDE DEF x, row
<1>3. /\ DOMAIN rows' = DOMAIN rows /\ rows'[x] = row
      /\ \A y \in DOMAIN rows : y # x => rows'[y] = rows[y]
  BY <1>1 DEF TypeOK
<1>4. \A y, o : y # x => (y \in Dependents(o)' <=> y \in Dependents(o))
  BY <1>3 DEF Dependents
<1>5. ReferencesExist'
  <2>1. rows[x].refs \subseteq DOMAIN owners
    BY <1>1 DEF RowsInv, ReferencesExist
  <2>2. row.refs \subseteq DOMAIN owners
    BY <1>1, <2>1 DEF Referable
  <2> QED
    BY <1>1, <1>3, <2>2 DEF RowsInv, ReferencesExist
<1>6. OrphansAreLate'
  BY <1>1, <1>2, <1>3 DEF RowsInv, OrphansAreLate, Of
<1>7. RowsFit'
  <2> SUFFICES ASSUME NEW y \in DOMAIN rows' PROVE Fits(rows[y])'
    BY DEF RowsFit
  <2>1. Fits(rows'[y])
    BY <1>2, <1>3 DEF RowsInv, RowsFit
  <2> QED
    BY <1>1, <2>1 DEF Fits
<1>8. CopiesFit'
  <2>1. \A y \in DOMAIN rows' : y \in DOMAIN rows /\ rows'[y].kind = rows[y].kind
    BY <1>2, <1>3
  <2> QED
    BY <1>1, <2>1, CopiesStay DEF RowsInv
<1>9. ASSUME NEW d \in Callers PROVE Locks(d)' = Locks(d) /\ x \notin Locks(d)
  <2>1. x \notin Locks(d)
    BY <1>1 DEF RowLocked
  <2>2. CASE tx[d].phase = "owner"
    <3> DEFINE o == tx[d].owner
    <3>1. x \notin Dependents(o) /\ Locks(d) = tx[d].locked \cup Dependents(o)
      BY <2>1, <2>2, LocksAre
    <3>2. o \notin rows[x].refs
      BY <1>1, <3>1, DependentsAre
    <3>3. o \notin row.refs
      BY <1>1, <2>2, <3>2 DEF Referable, OwnerLocked
    <3>4. x \notin Dependents(o)'
      BY <1>1, <1>3, <3>3 DEF Dependents
    <3>5. Dependents(o)' = Dependents(o)
      BY <1>1, <1>4, <3>1, <3>4
    <3> QED
      BY <1>1, <2>1, <2>2, <3>5 DEF Locks
  <2>3. CASE tx[d].phase # "owner"
    BY <1>1, <2>1, <2>3 DEF Locks
  <2> QED
    BY <2>2, <2>3
<1>10. LockedRefer'
  <2> SUFFICES ASSUME NEW d \in Callers, tx[d] # NoTx, NEW y \in tx[d].locked
               PROVE  y \in Dependents(tx[d].owner)'
    BY <1>1 DEF LockedRefer
  <2>1. y \in Locks(d)
    BY Phases, LocksAre
  <2>2. y # x /\ y \in Dependents(tx[d].owner)
    BY <1>9, <2>1, LocksRefer
  <2> QED
    BY <1>1, <1>4, <2>2
<1>11. OthersLate'
  <2> SUFFICES ASSUME NEW d \in Callers, tx[d] # NoTx,
                      NEW y \in Dependents(tx[d].owner)', rows'[y].kind = "notification"
               PROVE  y \in tx[d].locked \cup late
    BY <1>1 DEF OthersLate
  <2>1. y # x
    BY <1>2, <1>3
  <2>2. y \in Dependents(tx[d].owner) /\ rows'[y] = rows[y]
    BY <1>1, <1>3, <1>4, <2>1, DependentsAre
  <2> QED
    BY <2>2 DEF LocksInv, OthersLate
<1> QED
  BY <1>1, <1>5, <1>6, <1>7, <1>8, <1>9, <1>10, <1>11, LocksStayAll DEF RowsInv
LEMMA RemoveStep ==
  ASSUME IInv, NEW gone, Remove(gone)
  PROVE  RowsInv' /\ LocksInv'
<1> USE DEF IInv
<1>1. /\ \A x \in gone : ~RowLocked(x)
      /\ UNCHANGED <<now, table, owners, created, copies, tx, okays, late, asked>>
  BY DEF Remove
<1>2. /\ DOMAIN rows' = DOMAIN rows \ gone
      /\ \A y \in DOMAIN rows' : rows'[y] = rows[y]
  BY DEF Remove, Without
<1>3. \A o : Dependents(o)' = Dependents(o) \ gone
  BY <1>2 DEF Dependents
<1>4. ReferencesExist' /\ OrphansAreLate'
  BY <1>1, <1>2 DEF RowsInv, ReferencesExist, OrphansAreLate, Of
<1>5. RowsFit'
  BY <1>1, <1>2 DEF RowsInv, RowsFit, Fits
<1>6. CopiesFit'
  BY <1>1, <1>2, CopiesStay DEF RowsInv
<1>7. ASSUME NEW d \in Callers PROVE Locks(d)' = Locks(d) /\ Locks(d) \cap gone = {}
  <2>1. Locks(d) \cap gone = {}
    BY <1>1 DEF RowLocked
  <2>2. CASE tx[d].phase = "owner"
    <3>1. Dependents(tx[d].owner) \cap gone = {}
      BY <2>1, <2>2, LocksAre
    <3>2. Dependents(tx[d].owner)' = Dependents(tx[d].owner)
      BY <1>1, <1>3, <3>1
    <3> QED
      BY <1>1, <2>1, <2>2, <3>2 DEF Locks
  <2>3. CASE tx[d].phase # "owner"
    BY <1>1, <2>1, <2>3 DEF Locks
  <2> QED
    BY <2>2, <2>3
<1>8. LockedRefer'
  <2> SUFFICES ASSUME NEW d \in Callers, tx[d] # NoTx, NEW y \in tx[d].locked
               PROVE  y \in Dependents(tx[d].owner)'
    BY <1>1 DEF LockedRefer
  <2>1. y \in Locks(d)
    BY Phases, LocksAre
  <2>2. y \notin gone /\ y \in Dependents(tx[d].owner)
    BY <1>7, <2>1, LocksRefer
  <2> QED
    BY <1>1, <1>3, <2>2
<1>9. OthersLate'
  <2> SUFFICES ASSUME NEW d \in Callers, tx[d] # NoTx,
                      NEW y \in Dependents(tx[d].owner)', rows'[y].kind = "notification"
               PROVE  y \in tx[d].locked \cup late
    BY <1>1 DEF OthersLate
  <2>1. y \in Dependents(tx[d].owner) /\ y \in DOMAIN rows'
    BY <1>1, <1>2, <1>3, DependentsAre
  <2>2. rows'[y] = rows[y]
    BY <1>2, <2>1
  <2> QED
    BY <2>1, <2>2 DEF LocksInv, OthersLate
<1> QED
  BY <1>1, <1>4, <1>5, <1>6, <1>7, <1>8, <1>9, LocksStayAll DEF RowsInv
-----------------------------------------------------------------------------
(* A transaction goes on; rows and owners stay.                              *)
LEMMA BeginStep ==
  ASSUME IInv, NEW c \in Callers, NEW o \in Owners, Begin(c, o)
  PROVE  RowsInv' /\ LocksInv'
<1> USE DEF IInv
<1>1. /\ \A x \in Dependents(o) : ~RowLocked(x)
      /\ UNCHANGED <<now, table, owners, rows, created, copies, okays, late, asked>>
  BY DEF Begin
<1>2. /\ tx'[c].phase = "rows" /\ tx'[c].owner = o /\ tx'[c].locked = Dependents(o)
      /\ \A d \in Callers : d # c => tx'[d] = tx[d]
  BY DEF Begin, TypeOK
<1>3. RowsInv'
  BY <1>1 DEF RowsInv, ReferencesExist, OrphansAreLate, RowsFit, CopiesFit, Fits, Of
<1>4. \A p : Dependents(p)' = Dependents(p)
  BY <1>1 DEF Dependents
<1>5. \A d \in Callers : d # c => tx'[d] = tx[d] /\ Locks(d)' = Locks(d)
  BY <1>1, <1>2, <1>4 DEF Locks
<1>6. Locks(c)' = Dependents(o)
  BY <1>2 DEF Locks
<1>7. \A d \in Callers : d # c => Locks(c)' \cap Locks(d) = {}
  BY <1>1, <1>6 DEF RowLocked
<1>8. LockedRefer'
  BY <1>2, <1>4 DEF LocksInv, LockedRefer
<1>9. OwnersThere'
  BY <1>1, <1>2 DEF LocksInv, OwnersThere
<1>10. OthersLate'
  BY <1>1, <1>2, <1>4 DEF LocksInv, OthersLate
<1>11. tx'[c].phase # "owner"
  BY <1>2
<1>12. LocksInv'
  BY <1>5, <1>7, <1>8, <1>9, <1>10, <1>11, LocksStay
<1> QED
  BY <1>3, <1>12

LEMMA DeleteOwnerStep ==
  ASSUME IInv, NEW c \in Callers, DeleteOwner(c)
  PROVE  RowsInv' /\ LocksInv'
<1> USE DEF IInv
<1> DEFINE o == tx[c].owner
<1>1. /\ tx[c].phase = "rows" /\ o \in DOMAIN owners /\ ~OwnerLocked(o)
      /\ \A x \in Dependents(o) \ tx[c].locked : ~RowLocked(x)
      /\ UNCHANGED <<now, table, owners, rows, created, copies, okays, late, asked>>
  BY DEF DeleteOwner
<1>2. /\ tx'[c].phase = "owner" /\ tx'[c].owner = o /\ tx'[c].locked = tx[c].locked
      /\ \A d \in Callers : d # c => tx'[d] = tx[d]
  <2>1. tx[c] \in Tx /\ tx' = [tx EXCEPT ![c].phase = "owner"]
    BY <1>1, Phases DEF DeleteOwner
  <2> QED
    BY <2>1 DEF TypeOK, Tx
<1>3. tx[c] # NoTx
  BY <1>1, Phases
<1>4. RowsInv'
  BY <1>1 DEF RowsInv, ReferencesExist, OrphansAreLate, RowsFit, CopiesFit, Fits, Of
<1>5. \A p : Dependents(p)' = Dependents(p)
  BY <1>1 DEF Dependents
<1>6. \A d \in Callers : d # c => tx'[d] = tx[d] /\ Locks(d)' = Locks(d)
  BY <1>1, <1>2, <1>5 DEF Locks
<1>7. Locks(c)' = tx[c].locked \cup Dependents(o)
  BY <1>2, <1>5 DEF Locks
<1>8. ASSUME NEW d \in Callers, d # c PROVE Locks(c)' \cap Locks(d) = {}
  <2>1. tx[c].locked \cap Locks(d) = {}
    <3>1. Locks(c) \cap Locks(d) = {}
      BY <1>8 DEF LocksInv, LocksApart
    <3>2. Locks(c) = tx[c].locked
      BY <1>1, LocksAre
    <3> QED
      BY <3>1, <3>2
  <2>2. (Dependents(o) \ tx[c].locked) \cap Locks(d) = {}
    BY <1>1 DEF RowLocked
  <2> QED
    BY <1>7, <2>1, <2>2
<1> HIDE DEF o
<1>9. LockedRefer'
  BY <1>2, <1>3, <1>5 DEF LocksInv, LockedRefer, o
<1>10. OwnersThere'
  BY <1>1, <1>2 DEF LocksInv, OwnersThere
<1>11. OthersLate'
  BY <1>1, <1>2, <1>3, <1>5 DEF LocksInv, OthersLate, o
<1>12. \A d \in Callers : tx[d].phase = "owner" => tx[d].owner # o
  BY <1>1 DEF OwnerLocked
<1>13. LocksInv'
  BY <1>2, <1>6, <1>8, <1>9, <1>10, <1>11, <1>12, LocksStay
<1> QED
  BY <1>4, <1>13

(* It ends with nothing written.                                             *)
LEMMA EndStep ==
  ASSUME IInv, NEW c \in Callers, tx' = [tx EXCEPT ![c] = NoTx],
         UNCHANGED <<now, table, owners, rows, created, copies, okays, late, asked>>
  PROVE  RowsInv' /\ LocksInv'
<1> USE DEF IInv
<1>1. /\ tx'[c] = NoTx /\ tx'[c].phase = "none"
      /\ \A d \in Callers : d # c => tx'[d] = tx[d]
  BY DEF TypeOK, NoTx
<1>2. RowsInv'
  BY DEF RowsInv, ReferencesExist, OrphansAreLate, RowsFit, CopiesFit, Fits, Of
<1>3. \A p : Dependents(p)' = Dependents(p)
  BY DEF Dependents
<1>4. \A d \in Callers : d # c => tx'[d] = tx[d] /\ Locks(d)' = Locks(d)
  BY <1>1, <1>3 DEF Locks
<1>5. Locks(c)' = {}
  BY <1>1 DEF Locks
<1>6. LockedRefer'
  BY <1>1, <1>3 DEF LocksInv, LockedRefer
<1>7. OwnersThere'
  BY <1>1 DEF LocksInv, OwnersThere
<1>8. OthersLate'
  BY <1>1, <1>3 DEF LocksInv, OthersLate
<1>9. LocksInv'
  BY <1>1, <1>4, <1>5, <1>6, <1>7, <1>8, LocksStay
<1> QED
  BY <1>2, <1>9
-----------------------------------------------------------------------------
(* What a commit takes away its transaction has locked; what it leaves refers *)
(* to all but the owner it referred to before.                               *)
LEMMA Committed ==
  ASSUME IInv, NEW c \in Callers, Commit(c)
  PROVE  /\ DOMAIN rows' \subseteq DOMAIN rows
         /\ DOMAIN rows \ DOMAIN rows' \subseteq Locks(c)
         /\ Dependents(tx[c].owner) \subseteq Locks(c)
         /\ \A x \in DOMAIN rows' : /\ rows'[x].refs = rows[x].refs \ {tx[c].owner}
                                    /\ rows'[x].kind = rows[x].kind
         /\ table[tx[c].owner] = "rule" => DOMAIN rows' = DOMAIN rows \ tx[c].locked
         /\ table[tx[c].owner] \notin {"rule", "user"} => DOMAIN rows' = DOMAIN rows
<1> USE DEF IInv
<1> DEFINE o == tx[c].owner
           locked == tx[c].locked
<1>1. rows' = Remaining(o, locked) /\ tx[c].phase = "owner"
  BY DEF Commit
<1>2. Locks(c) = locked \cup Dependents(o)
  BY <1>1, LocksAre
<1> HIDE DEF o, locked
<1>3. /\ DOMAIN rows' \subseteq DOMAIN rows
      /\ \A x \in DOMAIN rows' : rows'[x] = Released(rows[x], o)
      /\ table[o] = "rule" => DOMAIN rows' = DOMAIN rows \ locked
      /\ table[o] = "user" => DOMAIN rows' = DOMAIN rows \ (locked \cup Dependents(o))
      /\ table[o] \notin {"rule", "user"} => DOMAIN rows' = DOMAIN rows
  BY <1>1, Remains
<1>4. \A x \in DOMAIN rows : rows[x] \in Row
  BY DEF TypeOK
<1>5. \A x \in DOMAIN rows' : /\ rows'[x].refs = rows[x].refs \ {o}
                              /\ rows'[x].kind = rows[x].kind
  BY <1>3, <1>4, Releases
<1>6. DOMAIN rows \ DOMAIN rows' \subseteq Locks(c) /\ Dependents(o) \subseteq Locks(c)
  BY <1>2, <1>3
<1> QED
  BY <1>3, <1>5, <1>6 DEF o, locked

LEMMA CommitStep ==
  ASSUME IInv, NEW c \in Callers, Commit(c)
  PROVE  RowsInv' /\ LocksInv'
<1> USE DEF IInv
<1> DEFINE o == tx[c].owner
<1>1. /\ tx[c].phase = "owner" /\ owners' = Without(owners, {o})
      /\ UNCHANGED <<now, table, created, copies, late, asked>>
  BY DEF Commit
<1>2. /\ tx'[c] = NoTx /\ tx'[c].phase = "none"
      /\ \A d \in Callers : d # c => tx'[d] = tx[d]
  BY DEF Commit, TypeOK, NoTx
<1>3. tx[c] # NoTx
  BY <1>1, Phases
<1>4. /\ DOMAIN rows' \subseteq DOMAIN rows
      /\ DOMAIN rows \ DOMAIN rows' \subseteq Locks(c) /\ Dependents(o) \subseteq Locks(c)
      /\ \A x \in DOMAIN rows' : /\ rows'[x].refs = rows[x].refs \ {o}
                                 /\ rows'[x].kind = rows[x].kind
      /\ table[o] = "rule" => DOMAIN rows' = DOMAIN rows \ tx[c].locked
  BY Committed
<1> HIDE DEF o
<1>5. DOMAIN owners' = DOMAIN owners \ {o}
  BY <1>1 DEF Without
<1>6. ReferencesExist'
  BY <1>4, <1>5 DEF RowsInv, ReferencesExist
<1>7. OrphansAreLate'
  <2> SUFFICES ASSUME NEW x \in DOMAIN rows', rows'[x].kind = "notification",
                      rows'[x].refs = {}
               PROVE  x \in late
    BY <1>1 DEF OrphansAreLate, Of
  <2>1. x \in DOMAIN rows /\ rows[x].kind = "notification" /\ rows[x].refs \ {o} = {}
    BY <1>4
  <2>2. CASE rows[x].refs = {}
    BY <2>1, <2>2 DEF RowsInv, OrphansAreLate, Of
  <2>3. CASE o \in rows[x].refs
    <3>1. table[o] = "rule"
      BY <2>1, <2>3 DEF RowsInv, RowsFit, Fits
    <3>2. x \notin tx[c].locked
      BY <1>4, <3>1
    <3>3. x \in Dependents(o)
      BY <2>1, <2>3, DependentsAre
    <3> QED
      BY <1>3, <2>1, <3>2, <3>3 DEF LocksInv, OthersLate, o
  <2> QED
    BY <2>1, <2>2, <2>3
<1>8. RowsFit'
  <2> SUFFICES ASSUME NEW x \in DOMAIN rows' PROVE Fits(rows[x])'
    BY DEF RowsFit
  <2>1. /\ Fits(rows[x]) /\ rows'[x].refs \subseteq rows[x].refs
        /\ rows'[x].kind = rows[x].kind
    BY <1>4 DEF RowsInv, RowsFit
  <2> QED
    BY <1>1, <2>1 DEF Fits
<1>9. CopiesFit'
  <2>1. \A x \in DOMAIN rows' : x \in DOMAIN rows /\ rows'[x].kind = rows[x].kind
    BY <1>4
  <2> QED
    BY <1>1, <2>1, CopiesStay DEF RowsInv
<1>10. ASSUME NEW d \in Callers, d # c, NEW x \in Locks(d)
       PROVE  x \in DOMAIN rows' /\ rows'[x].refs = rows[x].refs
  <2>1. x \notin Locks(c)
    BY <1>10 DEF LocksInv, LocksApart
  <2>2. x \in DOMAIN rows' /\ x \notin Dependents(o) /\ x \in DOMAIN rows
    BY <1>4, <1>10, <2>1, LocksRefer
  <2>3. o \notin rows[x].refs
    BY <2>2, DependentsAre
  <2> QED
    BY <1>4, <2>2, <2>3
<1>11. \A p : Dependents(p)' \subseteq Dependents(p)
  BY <1>4 DEF Dependents
<1>12. ASSUME NEW d \in Callers, d # c, NEW x \in Locks(d)
       PROVE  \A p : x \in Dependents(p)' <=> x \in Dependents(p)
  BY <1>10, <1>12, LocksRefer DEF Dependents
<1>13. ASSUME NEW d \in Callers, d # c PROVE Locks(d)' = Locks(d)
  <2>1. CASE tx[d].phase = "owner"
    <3>1. Dependents(tx[d].owner) \subseteq Locks(d)
      BY <2>1, LocksAre
    <3>2. tx'[d] = tx[d]
      BY <1>2, <1>13
    <3>3. Dependents(tx[d].owner)' = Dependents(tx[d].owner)
      BY <1>11, <1>12, <1>13, <3>1, <3>2
    <3> QED
      BY <2>1, <3>2, <3>3 DEF Locks
  <2>2. CASE tx[d].phase # "owner"
    BY <1>2, <1>13, <2>2 DEF Locks
  <2> QED
    BY <2>1, <2>2
<1>14. Locks(c)' = {}
  BY <1>2 DEF Locks
<1>15. LockedRefer'
  <2> SUFFICES ASSUME NEW d \in Callers, tx'[d] # NoTx, NEW x \in tx'[d].locked
               PROVE  x \in Dependents(tx[d].owner)'
    BY DEF LockedRefer
  <2>1. d # c /\ tx'[d] = tx[d]
    BY <1>2
  <2>2. x \in Locks(d)
    BY <2>1, Phases, LocksAre
  <2>3. x \in Dependents(tx[d].owner)
    BY <2>2, LocksRefer
  <2> QED
    BY <1>12, <2>1, <2>2, <2>3
<1>16. OwnersThere'
  <2> SUFFICES ASSUME NEW d \in Callers, tx'[d].phase = "owner"
               PROVE  tx'[d].owner \in DOMAIN owners'
    BY DEF OwnersThere
  <2>1. d # c /\ tx'[d] = tx[d]
    BY <1>2
  <2>2. tx[d].owner # o /\ tx[d].owner \in DOMAIN owners
    BY <1>1, <2>1 DEF LocksInv, OwnersThere, OwnersApart, o
  <2> QED
    BY <1>5, <2>1, <2>2
<1>17. OthersLate'
  <2> SUFFICES ASSUME NEW d \in Callers, tx'[d] # NoTx,
                      NEW x \in Dependents(tx[d].owner)', rows'[x].kind = "notification"
               PROVE  x \in tx'[d].locked \cup late
    BY <1>1 DEF OthersLate
  <2>1. d # c /\ tx'[d] = tx[d]
    BY <1>2
  <2>2. x \in Dependents(tx[d].owner) /\ x \in DOMAIN rows'
    <3>1. x \in DOMAIN rows'
      BY DEF Dependents
    <3> QED
      BY <1>11, <2>1, <3>1
  <2>3. rows[x].kind = "notification"
    BY <1>4, <2>2
  <2> QED
    BY <2>1, <2>2, <2>3 DEF LocksInv, OthersLate
<1>18. \A d \in Callers : d # c => Locks(c)' \cap Locks(d) = {}
  BY <1>14
<1>19. LocksInv'
  BY <1>2, <1>13, <1>15, <1>16, <1>17, <1>18, LocksStay
<1> QED
  BY <1>6, <1>7, <1>8, <1>9, <1>19 DEF RowsInv
-----------------------------------------------------------------------------
(* A copy of a node, with the groups and services of a registration.         *)
LEMMA ReadNodeStep ==
  ASSUME IInv, NEW c \in Callers, NEW x \in Rows, ReadNode(c, x)
  PROVE  RowsInv' /\ LocksInv'
<1> USE DEF IInv
<1>1. PICK m \in Memberships :
        copies' = [copies EXCEPT ![c] = [id |-> x, row |->
          [rows[x] EXCEPT !.refs =
             m \cup {o \in rows[x].refs : \A p \in m : table[p] # table[o]}]]]
  BY DEF ReadNode
<1> DEFINE refs == m \cup {o \in rows[x].refs : \A p \in m : table[p] # table[o]}
           row == [rows[x] EXCEPT !.refs = refs]
<1>2. /\ x \in DOMAIN rows /\ rows[x].kind = "node"
      /\ UNCHANGED <<now, table, owners, rows, created, tx, okays, late, asked>>
  BY DEF ReadNode, Of
<1>3. rows[x] \in Row /\ x \in created /\ Fits(rows[x])
  BY <1>2 DEF TypeOK, RowsInv, RowsFit
<1>4. /\ \A o \in refs : table[o] \in {"group", "service"}
      /\ \A o, p \in refs : table[o] = table[p] => o = p
  BY <1>2, <1>3 DEF Fits, Memberships
<1>5. row.kind = "node" /\ row.refs = refs
  BY <1>2, <1>3 DEF Row
<1> HIDE DEF refs
<1>6. Fits(row)
  BY <1>4, <1>5 DEF Fits
<1>7. copies' = [copies EXCEPT ![c] = [id |-> x, row |-> row]]
  BY <1>1 DEF refs
<1> HIDE DEF row
<1>8. CopiesFit'
  <2> SUFFICES ASSUME NEW d \in Callers, copies'[d].id \in Rows
               PROVE  /\ copies'[d].id \in created /\ copies'[d].row.kind = "node"
                      /\ Fits(copies'[d].row)
                      /\ copies'[d].id \in DOMAIN rows =>
                           rows[copies'[d].id].kind = "node"
    BY <1>2 DEF CopiesFit, Fits
  <2>1. CASE d = c
    <3>1. copies'[d].id = x /\ copies'[d].row = row
      BY <1>7, <2>1 DEF TypeOK
    <3> QED
      BY <1>2, <1>3, <1>5, <1>6, <3>1
  <2>2. CASE d # c
    <3>1. copies'[d] = copies[d]
      BY <1>7, <2>2 DEF TypeOK
    <3> QED
      BY <3>1 DEF RowsInv, CopiesFit
  <2> QED
    BY <2>1, <2>2
<1> QED
  BY <1>2, <1>8, RowsStay

LEMMA ReadStep ==
  ASSUME IInv, NEW c \in Callers, NEW o \in Owners, Read(c, o)
  PROVE  RowsInv' /\ LocksInv'
<1> USE DEF IInv
<1>1. UNCHANGED <<now, table, owners, rows, created, tx, okays, late, asked>>
  BY DEF Read
<1>2. \A d \in Callers : d # c => copies'[d] = copies[d]
  BY DEF Read, TypeOK
<1>3. copies'[c].id = o
  BY DEF Read, TypeOK
<1>4. o \notin Rows
  BY RepositoriesAssumption
<1>5. CopiesFit'
  BY <1>1, <1>2, <1>3, <1>4 DEF RowsInv, CopiesFit, Fits
<1> QED
  BY <1>1, <1>5, RowsStay

LEMMA InitIInv == Init => IInv
<1> SUFFICES ASSUME Init PROVE IInv
  OBVIOUS
<1>1. TypeOK
  BY InitTypes
<1>2. DOMAIN owners = {} /\ DOMAIN rows = {}
  BY DEF Init, Empty
<1>3. \A c \in Callers : copies[c].id \notin Rows
  BY RepositoriesAssumption DEF Init, NoCopy
<1>4. \A c \in Callers : tx[c] = NoTx /\ tx[c].phase = "none"
  BY DEF Init, NoTx
<1>5. \A o \in Owners : okays[o] = 0
  BY DEF Init
<1>6. OwnersInv
  BY <1>2, <1>5 DEF OwnersInv, DeletedOnce, DeletedWereThere, PasswordKept
<1>7. RowsInv
  BY <1>2, <1>3 DEF RowsInv, ReferencesExist, OrphansAreLate, Of, RowsFit, CopiesFit
<1>8. \A c \in Callers : Locks(c) = {}
  BY <1>1, <1>4, LocksAre
<1>9. LocksInv
  BY <1>4, <1>8 DEF LocksInv, LocksApart, LockedRefer, OwnersThere, OwnersApart, OthersLate
<1> QED
  BY <1>1, <1>6, <1>7, <1>9 DEF IInv

(* IInv is inductive.                                                       *)
LEMMA StepIInv == IInv /\ [Next]_vars => IInv'
<1> SUFFICES ASSUME IInv, [Next]_vars PROVE RowsInv' /\ LocksInv'
  BY StepTypes, StepOwners DEF IInv
<1> USE DEF IInv
<1>1. ASSUME Tick \/ UNCHANGED vars PROVE RowsInv' /\ LocksInv'
  <2>1. UNCHANGED <<table, owners, rows, created, copies, tx, late>>
    BY <1>1 DEF Tick, vars
  <2>2. CopiesFit'
    BY <2>1 DEF RowsInv, CopiesFit, Fits
  <2> QED
    BY <2>1, <2>2, RowsStay
<1>2. ASSUME NEW o \in Owners,
             CreateRule(o) \/ CreateUser(o) \/ CreateGroup(o) \/ CreateService(o)
      PROVE  RowsInv' /\ LocksInv'
  <2>1. PICK hash : Create(o, hash)
    BY <1>2, TypeOwners
  <2>2. /\ created' = created \cup {o} /\ DOMAIN owners \subseteq DOMAIN owners'
        /\ UNCHANGED <<now, table, rows, copies, tx, okays, late>>
    BY <2>1 DEF Create, With
  <2>3. CopiesFit'
    BY <2>2, CopiesStay DEF RowsInv
  <2> QED
    BY <2>2, <2>3, RowsStay
<1>3. ASSUME NEW o \in Owners, UpdateEnabled(o) \/ UpdatePassword(o)
      PROVE  RowsInv' /\ LocksInv'
  <2>1. /\ DOMAIN owners' = DOMAIN owners
        /\ UNCHANGED <<now, table, rows, created, copies, tx, okays, late>>
    BY <1>3 DEF UpdateEnabled, UpdatePassword
  <2>2. CopiesFit'
    BY <2>1 DEF RowsInv, CopiesFit, Fits
  <2> QED
    BY <2>1, <2>2, RowsStay
<1>4. ASSUME NEW c \in Callers, Update(c) PROVE RowsInv' /\ LocksInv'
  <2>1. /\ DOMAIN owners' = DOMAIN owners /\ copies' = [copies EXCEPT ![c] = NoCopy]
        /\ UNCHANGED <<now, table, rows, created, tx, okays, late, asked>>
    BY <1>4 DEF Update
  <2>2. CopiesFit'
    BY <2>1, CopiesStay DEF RowsInv
  <2> QED
    BY <2>1, <2>2, RowsStay
<1>5. ASSUME NEW c \in Callers, UpdateNodeRefused(c) PROVE RowsInv' /\ LocksInv'
  <2>1. /\ copies' = [copies EXCEPT ![c] = NoCopy]
        /\ UNCHANGED <<now, table, owners, rows, created, tx, okays, late, asked>>
    BY <1>5 DEF UpdateNodeRefused
  <2>2. CopiesFit'
    BY <2>1, CopiesStay DEF RowsInv
  <2> QED
    BY <2>1, <2>2, RowsStay
<1>6. ASSUME NEW c \in Callers, NotThere(c) \/ Rollback(c) PROVE RowsInv' /\ LocksInv'
  <2>1. /\ tx' = [tx EXCEPT ![c] = NoTx]
        /\ UNCHANGED <<now, table, owners, rows, created, copies, okays, late, asked>>
    BY <1>6 DEF NotThere, Rollback
  <2> QED
    BY <2>1, EndStep
<1>7. ASSUME NEW x \in Rows, CreateNotification(x) \/ CreateSession(x) \/ CreateNode(x)
      PROVE  RowsInv' /\ LocksInv'
  BY <1>7, Inserted, InsertStep
<1>8. ASSUME \/ CleanupExpiredSessions
             \/ \E t \in 1..MaxTime : CleanupOldNotifications(t)
             \/ \E x \in Rows : DeleteNotification(x) \/ DeleteSession(x) \/ DeleteNode(x)
      PROVE  RowsInv' /\ LocksInv'
  BY <1>8, Removed, RemoveStep
<1>9. ASSUME NEW c \in Callers, NEW o \in Owners,
             DeleteRule(c, o) \/ DeleteUser(c, o) \/ DeleteGroup(c, o)
               \/ DeleteService(c, o)
      PROVE  RowsInv' /\ LocksInv'
  BY <1>9, BeginStep DEF DeleteRule, DeleteUser, DeleteGroup, DeleteService
<1> QED
  BY <1>1, <1>2, <1>3, <1>4, <1>5, <1>6, <1>7, <1>8, <1>9, ReadStep, ReadNodeStep,
     UpdateNodeStep, DeleteOwnerStep, CommitStep DEF Next

LEMMA InvariantHolds == Spec => []IInv
BY InitIInv, StepIInv, PTL DEF Spec

(* Owners, rows, copies and transactions keep their types: nothing is ever   *)
(* written that its table or caller does not hold.                           *)
THEOREM TypeCorrect == Spec => []TypeOK
BY InvariantHolds, PTL DEF IInv

(* However many callers delete an owner at the same time, one is told that    *)
(* it did, and no copy brings the owner back.                                *)
THEOREM DeletedOnlyOnce == Spec => []DeletedOnce
<1>1. IInv => DeletedOnce
  BY DEF IInv, OwnersInv
<1> QED
  BY <1>1, InvariantHolds, PTL

(* Whatever is deleted while rows are inserted and written back, no row       *)
(* refers to what is not there.                                             *)
THEOREM ReferencesAlwaysExist == Spec => []ReferencesExist
<1>1. IInv => ReferencesExist
  BY DEF IInv, RowsInv
<1> QED
  BY <1>1, InvariantHolds, PTL

(* A notification loses its rule only if it came while the rule's deletion    *)
(* ran.                                                                     *)
THEOREM OrphansCameLate == Spec => []OrphansAreLate
<1>1. IInv => OrphansAreLate
  BY DEF IInv, RowsInv
<1> QED
  BY <1>1, InvariantHolds, PTL

(* No copy of a user that is written back reverts the password.              *)
THEOREM PasswordsStay == Spec => []PasswordKept
<1>1. IInv => PasswordKept
  BY DEF IInv, OwnersInv
<1> QED
  BY <1>1, InvariantHolds, PTL
-----------------------------------------------------------------------------
(* The rows that leave owner o.                                             *)
Leaving(o) == Dependents(o) \ {x \in DOMAIN rows' : o \in rows'[x].refs}

LEMMA AtMostOne ==
  ASSUME NEW S, NEW x, S \subseteq {x}
  PROVE  Cardinality(S) <= 1
<1>1. IsFiniteSet({x}) /\ Cardinality({x}) = 1
  BY FS_Singleton
<1> QED
  BY <1>1, FS_Subset

(* While every row is there and refers to what it did, none leaves.          *)
LEMMA NoneLeaves ==
  ASSUME \A x \in DOMAIN rows : x \in DOMAIN rows' /\ rows[x].refs \subseteq rows'[x].refs
  PROVE  LeftForAReason
<1> SUFFICES ASSUME NEW o \in Owners PROVE Cardinality(Leaving(o)) <= 1
  BY DEF LeftForAReason, Leaving
<1>1. Leaving(o) \subseteq {o}
  BY DEF Leaving, Dependents
<1> QED
  BY <1>1, AtMostOne

LEMMA StepLeaves == IInv /\ [Next]_vars => [LeftForAReason]_vars
<1> SUFFICES ASSUME IInv, Next PROVE LeftForAReason
  OBVIOUS
<1> USE DEF IInv
<1>1. ASSUME NEW x \in Rows, CreateNotification(x) \/ CreateSession(x) \/ CreateNode(x)
      PROVE  LeftForAReason
  <2>1. PICK row : Insert(x, row)
    BY <1>1, Inserted
  <2>2. \A y \in DOMAIN rows : y \in DOMAIN rows' /\ rows'[y] = rows[y]
    BY <2>1 DEF Insert, With, TypeOK
  <2> QED
    BY <2>2, NoneLeaves
<1>2. ASSUME NEW c \in Callers, UpdateNode(c) PROVE LeftForAReason
  <2>1. /\ DOMAIN rows' = DOMAIN rows
        /\ \A y \in DOMAIN rows : y # copies[c].id => rows'[y] = rows[y]
    BY <1>2 DEF UpdateNode
  <2>2. ASSUME NEW o \in Owners PROVE Cardinality(Leaving(o)) <= 1
    <3>1. Leaving(o) \subseteq {copies[c].id}
      BY <2>1 DEF Leaving, Dependents
    <3> QED
      BY <3>1, AtMostOne
  <2> QED
    BY <2>2 DEF LeftForAReason, Leaving
<1>3. ASSUME \/ CleanupExpiredSessions
             \/ \E t \in 1..MaxTime : CleanupOldNotifications(t)
             \/ \E x \in Rows : DeleteNotification(x) \/ DeleteSession(x) \/ DeleteNode(x)
      PROVE  LeftForAReason
  <2>1. PICK gone : /\ Remove(gone)
                    /\ \/ \E x \in Rows : gone = {x}
                       \/ \A x \in gone : rows[x].kind # "node" /\ rows[x].at < now
    BY <1>3, Removed
  <2>2. \A o \in Owners : Leaving(o) \subseteq gone
    BY <2>1 DEF Remove, Without, Leaving, Dependents
  <2>3. CASE \E x \in Rows : gone = {x}
    <3>1. \A o \in Owners : Cardinality(Leaving(o)) <= 1
      BY <2>2, <2>3, AtMostOne
    <3> QED
      BY <3>1 DEF LeftForAReason, Leaving
  <2>4. CASE \A x \in gone : rows[x].kind # "node" /\ rows[x].at < now
    <3>1. \A o \in Owners : \A x \in Leaving(o) : rows[x].kind # "node" /\ rows[x].at < now
      BY <2>2, <2>4
    <3> QED
      BY <3>1 DEF LeftForAReason, Leaving
  <2> QED
    BY <2>1, <2>3, <2>4
<1>4. ASSUME NEW c \in Callers, Commit(c) PROVE LeftForAReason
  <2> DEFINE o == tx[c].owner
  <2>1. /\ DOMAIN rows' \subseteq DOMAIN rows
        /\ DOMAIN rows \ DOMAIN rows' \subseteq Locks(c)
        /\ \A x \in DOMAIN rows' : rows'[x].refs = rows[x].refs \ {o}
        /\ table[o] \notin {"rule", "user"} => DOMAIN rows' = DOMAIN rows
    BY <1>4, Committed
  <2>2. tx[c].phase = "owner" /\ owners' = Without(owners, {o})
    BY <1>4 DEF Commit
  <2>3. o \in DOMAIN owners \ DOMAIN owners' /\ tx[c] # NoTx
    <3>1. o \in DOMAIN owners
      BY <2>2 DEF LocksInv, OwnersThere
    <3> QED
      BY <2>2, <3>1, Phases DEF Without
  <2>4. Leaving(o) = Dependents(o)
    BY <2>1 DEF Leaving
  <2>5. ASSUME NEW p \in Owners, p # o PROVE Leaving(p) = {}
    <3> SUFFICES ASSUME NEW x \in Dependents(p), ~(x \in DOMAIN rows' /\ p \in rows'[x].refs)
                 PROVE  FALSE
      BY DEF Leaving
    <3>1. x \in DOMAIN rows /\ p \in rows[x].refs
      BY DependentsAre
    <3>2. x \notin DOMAIN rows'
      BY <2>1, <2>5, <3>1
    <3>3. x \in Locks(c) /\ table[o] \in {"rule", "user"}
      BY <2>1, <3>1, <3>2
    <3>4. rows[x].refs = {o}
      BY <2>3, <3>3, LockedReferOnce
    <3> QED
      BY <2>5, <3>1, <3>4
  <2>6. \A p \in Owners : p # o => Cardinality(Leaving(p)) <= 1
    BY <2>5, FS_EmptySet
  <2> HIDE DEF o
  <2> QED
    BY <2>3, <2>4, <2>6 DEF LeftForAReason, Leaving
<1>5. ASSUME UNCHANGED rows PROVE LeftForAReason
  BY <1>5, NoneLeaves
<1>6. ASSUME NEW o \in Owners,
             \/ CreateRule(o) \/ CreateUser(o) \/ CreateGroup(o) \/ CreateService(o)
             \/ UpdateEnabled(o) \/ UpdatePassword(o)
             \/ \E c \in Callers : \/ Read(c, o) \/ DeleteRule(c, o) \/ DeleteUser(c, o)
                                   \/ DeleteGroup(c, o) \/ DeleteService(c, o)
      PROVE  UNCHANGED rows
  BY <1>6 DEF CreateRule, CreateUser, CreateGroup, CreateService, Create, UpdateEnabled,
     UpdatePassword, Read, DeleteRule, DeleteUser, DeleteGroup, DeleteService, Begin
<1>7. ASSUME NEW c \in Callers,
             \/ Update(c) \/ UpdateNodeRefused(c) \/ DeleteOwner(c) \/ NotThere(c)
             \/ Rollback(c) \/ \E x \in Rows : ReadNode(c, x)
      PROVE  UNCHANGED rows
  BY <1>7 DEF Update, UpdateNodeRefused, DeleteOwner, NotThere, Rollback, ReadNode
<1>8. Tick => UNCHANGED rows
  BY DEF Tick
<1> QED
  BY <1>1, <1>2, <1>3, <1>4, <1>5, <1>6, <1>7, <1>8 DEF Next

(* Rows leave an owner one by one, for their age, or all together with it.   *)
THEOREM RowsLeaveForAReason == Spec => LeaveForAReason
BY InvariantHolds, StepLeaves, PTL DEF Spec, LeaveForAReason
-----------------------------------------------------------------------------
(* The lists, item by item.                                                 *)
LEMMA SchemaItems ==
  /\ Schemas[1] = "services" /\ Schemas[2] = "node_groups" /\ Schemas[3] = "nodes"
  /\ Schemas[4] = "service_nodes" /\ Schemas[5] = "users"
  /\ Schemas[6] = "user_sessions" /\ Schemas[7] = "alerting_rules"
  /\ Schemas[8] = "notifications"
BY DEF Schemas

LEMMA RequiredItems ==
  /\ Required[1] = "users" /\ Required[2] = "user_sessions"
  /\ Required[3] = "node_groups" /\ Required[4] = "nodes"
  /\ Required[5] = "services" /\ Required[6] = "service_nodes"
  /\ Required[7] = "alerting_rules" /\ Required[8] = "notifications"
BY DEF Required

LEMMA TableItems ==
  RequiredTables = {"services", "node_groups", "nodes", "service_nodes",
           "users", "user_sessions", "alerting_rules", "notifications"}
<1>1. 1..8 = {1, 2, 3, 4, 5, 6, 7, 8}
  OBVIOUS
<1>2. RequiredTables = {Schemas[1], Schemas[2], Schemas[3], Schemas[4],
               Schemas[5], Schemas[6], Schemas[7], Schemas[8]}
  BY <1>1 DEF RequiredTables
<1> QED
  BY <1>2, SchemaItems

LEMMA OneIsFirst == 1 \in 1..8 /\ 8 \in 1..8
OBVIOUS

(* The order of the migrations respects the foreign keys.                    *)
LEMMA ReferencedEarlier ==
  ASSUME NEW i \in 1..8, NEW t \in References[Schemas[i]]
  PROVE  \E j \in 1..8 : j < i /\ t = Schemas[j]
<1>1. References[Schemas[1]] = {} /\ References[Schemas[2]] = {}
  BY SchemaItems DEF References
<1>2. References[Schemas[3]] = {Schemas[1], Schemas[2]}
  BY SchemaItems DEF References
<1>3. References[Schemas[4]] = {Schemas[1], Schemas[3]}
  BY SchemaItems DEF References
<1>4. References[Schemas[5]] = {} /\ References[Schemas[6]] = {Schemas[5]}
  BY SchemaItems DEF References
<1>5. /\ References[Schemas[7]] = {}
      /\ References[Schemas[8]] = {Schemas[7], Schemas[3]}
  BY SchemaItems DEF References
<1>6. i \in {1, 2, 3, 4, 5, 6, 7, 8}
  OBVIOUS
<1> QED
  BY <1>1, <1>2, <1>3, <1>4, <1>5, <1>6

(* Every table is among those that are checked.                              *)
LEMMA RequiredIsAll ==
  ASSUME NEW T \in SUBSET RequiredTables, \A i \in 1..8 : Required[i] \in T
  PROVE  T = RequiredTables
<1>1. RequiredTables \subseteq {Required[1], Required[2], Required[3], Required[4],
                       Required[5], Required[6], Required[7], Required[8]}
  BY TableItems, RequiredItems
<1> QED
  BY <1>1

LEMMA AllSchemas ==
  ASSUME NEW T \in SUBSET RequiredTables, \A i \in 1..8 : Schemas[i] \in T
  PROVE  T = RequiredTables
BY DEF RequiredTables
(* What a process has established before the statement it is at: the tables  *)
(* it has checked are there, the migrations before the one it is at are      *)
(* recorded, and what it is about to record it has executed.                 *)
Established(s) ==
  /\ pc[s] = "check" => \A i \in 1..8 : i < at[s] => Required[i] \in tables
  /\ pc[s] = "verify" => \A i \in 1..8 : Required[i] \in tables
  /\ pc[s] \in {"applied", "execute", "record"} =>
       \A i \in 1..8 : i < at[s] => i \in recorded
  /\ pc[s] = "record" => Schemas[at[s]] \in tables

MigrationInv ==
  /\ MigrationTypeOK /\ RecordedExist /\ SuccessIsComplete
  /\ \A s \in Servers : Established(s)

LEMMA InitMigration == MigrationInit => MigrationInv
<1> SUFFICES ASSUME MigrationInit PROVE MigrationInv
  OBVIOUS
<1>1. \A s \in Servers : pc[s] = "down" /\ outcome[s] = "none"
  BY DEF MigrationInit
<1>2. MigrationTypeOK
  <2>1. /\ pc = [s \in Servers |-> "down"] /\ at = [s \in Servers |-> 1]
        /\ outcome = [s \in Servers |-> "none"]
    BY DEF MigrationInit
  <2>2. at \in [Servers -> 1..8]
    BY <2>1, OneIsFirst
  <2>3. 0 \in 0..MaxFaults
    BY MigrationAssumption
  <2> QED
    BY <2>1, <2>2, <2>3 DEF MigrationInit, MigrationTypeOK
<1>3. RecordedExist
  BY DEF MigrationInit, RecordedExist
<1> QED
  BY <1>1, <1>2, <1>3 DEF MigrationInv, SuccessIsComplete, Established

(* Tables and records only ever come: what other processes have established  *)
(* stays.                                                                   *)
LEMMA ServerStep ==
  ASSUME MigrationInv, NEW s \in Servers,
         NEW position \in {"down", "connect", "check", "verify", "ledger",
                           "applied", "execute", "record", "serving"},
         NEW i \in 1..8, Goto(s, position, i),
         NEW how \in {"none", "failed", "migrated", "verified"},
         outcome' = [outcome EXCEPT ![s] = how],
         tables \subseteq tables', tables' \subseteq RequiredTables,
         recorded \subseteq recorded', recorded' \subseteq 1..8,
         ledger' \in BOOLEAN, faults' \in 0..MaxFaults,
         RecordedExist',
         how \in {"migrated", "verified"} => tables' = RequiredTables,
         Established(s)'
  PROVE  MigrationInv'
<1> USE DEF MigrationInv
<1>1. MigrationTypeOK'
  BY DEF MigrationTypeOK, Goto
<1>2. \A r \in Servers : r # s => /\ pc'[r] = pc[r] /\ at'[r] = at[r]
                                  /\ outcome'[r] = outcome[r]
  BY DEF MigrationTypeOK, Goto
<1>3. outcome'[s] = how
  BY DEF MigrationTypeOK
<1>4. SuccessIsComplete'
  BY <1>2, <1>3 DEF SuccessIsComplete, MigrationTypeOK
<1>5. ASSUME NEW r \in Servers PROVE Established(r)'
  BY <1>2 DEF Established
<1> QED
  BY <1>1, <1>4, <1>5

(* A step that writes nothing to the database.                               *)
LEMMA QuietStep ==
  ASSUME MigrationInv, NEW s \in Servers,
         NEW position \in {"down", "connect", "check", "verify", "ledger",
                           "applied", "execute", "record", "serving"},
         NEW i \in 1..8, Goto(s, position, i),
         NEW how \in {"none", "failed", "migrated", "verified"},
         outcome' = [outcome EXCEPT ![s] = how],
         UNCHANGED database, faults' \in 0..MaxFaults,
         how \in {"migrated", "verified"} => tables = RequiredTables,
         Established(s)'
  PROVE  MigrationInv'
<1>1. /\ tables' = tables /\ recorded' = recorded /\ ledger' = ledger
      /\ RecordedExist' /\ tables \subseteq RequiredTables /\ recorded \subseteq 1..8
      /\ ledger \in BOOLEAN
  BY DEF database, MigrationInv, RecordedExist, MigrationTypeOK
<1> QED
  BY <1>1, ServerStep, OneIsFirst

(* With all migrations recorded, all tables are there.                       *)
LEMMA AllRecorded ==
  ASSUME MigrationInv, NEW s \in Servers, pc[s] \in {"applied", "record"}, at[s] = 8,
         at[s] \in recorded \/ pc[s] = "record"
  PROVE  tables = RequiredTables
<1>1. \A i \in 1..8 : Schemas[i] \in tables
  BY DEF MigrationInv, Established, RecordedExist
<1>2. tables \in SUBSET RequiredTables
  BY DEF MigrationInv, MigrationTypeOK
<1> QED
  BY <1>1, <1>2, AllSchemas

(* An error of CheckTablesExist leaves the invariant, whichever way the start *)
(* goes on, for the migration assumes nothing of the tables it finds.          *)
LEMMA MissingStep ==
  ASSUME MigrationInv, NEW s \in Servers, TablesMissing(s), UNCHANGED database,
         faults' \in 0..MaxFaults
  PROVE  MigrationInv'
<1> USE DEF MigrationInv
<1>1. CASE s \in AutoMigrate
  <2>1. /\ Goto(s, "ledger", 1) /\ outcome' = [outcome EXCEPT ![s] = outcome[s]]
        /\ outcome[s] \in {"none", "failed", "migrated", "verified"}
        /\ outcome[s] \in {"migrated", "verified"} => tables = RequiredTables
    BY <1>1 DEF TablesMissing, MigrationTypeOK, SuccessIsComplete
  <2>2. Established(s)'
    BY <2>1 DEF Goto, Established, MigrationTypeOK
  <2> QED
    BY <2>1, <2>2, QuietStep, OneIsFirst
<1>2. CASE s \notin AutoMigrate
  <2>1. Goto(s, "serving", 1) /\ outcome' = [outcome EXCEPT ![s] = "failed"]
    BY <1>2 DEF TablesMissing, Serve
  <2>2. Established(s)'
    BY <2>1 DEF Goto, Established, MigrationTypeOK
  <2> QED
    BY <2>1, <2>2, QuietStep, OneIsFirst
<1> QED
  BY <1>1, <1>2

(* MigrationInv is inductive.                                                       *)
LEMMA StepMigration == MigrationInv /\ [MigrationNext]_migrationVars => MigrationInv'
<1> SUFFICES ASSUME MigrationInv, [MigrationNext]_migrationVars PROVE MigrationInv'
  OBVIOUS
<1> USE DEF MigrationInv
<1>1. ASSUME NEW s \in Servers, Boot(s) PROVE MigrationInv'
  <2>1. /\ Goto(s, "connect", 1) /\ outcome' = [outcome EXCEPT ![s] = "none"]
        /\ UNCHANGED database /\ faults' \in 0..MaxFaults
    BY <1>1 DEF Boot, MigrationTypeOK
  <2>2. Established(s)'
    BY <2>1 DEF Goto, Established, MigrationTypeOK
  <2> QED
    BY <2>1, <2>2, QuietStep, OneIsFirst
<1>2. ASSUME NEW s \in Servers, Crash(s) \/ Stop(s) PROVE MigrationInv'
  <2>1. /\ Goto(s, "down", 1) /\ outcome' = [outcome EXCEPT ![s] = outcome[s]]
        /\ UNCHANGED database /\ faults' \in 0..MaxFaults
    BY <1>2, MigrationAssumption DEF Crash, Stop, Down, MigrationTypeOK
  <2>2. Established(s)'
    BY <2>1 DEF Goto, Established, MigrationTypeOK
  <2>3. /\ outcome[s] \in {"none", "failed", "migrated", "verified"}
        /\ outcome[s] \in {"migrated", "verified"} => tables = RequiredTables
    BY DEF MigrationTypeOK, SuccessIsComplete
  <2> QED
    BY <2>1, <2>2, <2>3, QuietStep, OneIsFirst
<1>3. ASSUME NEW s \in Servers, Fail(s) PROVE MigrationInv'
  <2>1. /\ Goto(s, "serving", 1) /\ outcome' = [outcome EXCEPT ![s] = "failed"]
        /\ UNCHANGED database /\ faults' \in 0..MaxFaults
    BY <1>3, MigrationAssumption DEF Fail, Serve, MigrationTypeOK
  <2>2. Established(s)'
    BY <2>1 DEF Goto, Established, MigrationTypeOK
  <2> QED
    BY <2>1, <2>2, QuietStep, OneIsFirst
<1>4. ASSUME NEW s \in Servers, Connect(s) PROVE MigrationInv'
  <2>1. /\ Goto(s, "check", 1) /\ outcome' = [outcome EXCEPT ![s] = outcome[s]]
        /\ UNCHANGED database /\ faults' \in 0..MaxFaults
    BY <1>4 DEF Connect, MigrationTypeOK
  <2>2. Established(s)'
    BY <2>1 DEF Goto, Established, MigrationTypeOK
  <2>3. /\ outcome[s] \in {"none", "failed", "migrated", "verified"}
        /\ outcome[s] \in {"migrated", "verified"} => tables = RequiredTables
    BY DEF MigrationTypeOK, SuccessIsComplete
  <2> QED
    BY <2>1, <2>2, <2>3, QuietStep, OneIsFirst
<1>5. ASSUME NEW s \in Servers, CheckTable(s) PROVE MigrationInv'
  <2>1. UNCHANGED database /\ tables' = tables /\ faults' \in 0..MaxFaults
    BY <1>5 DEF CheckTable, database, MigrationTypeOK
  <2>2. /\ outcome[s] \in {"none", "failed", "migrated", "verified"}
        /\ outcome[s] \in {"migrated", "verified"} => tables = RequiredTables
        /\ at[s] \in 1..8 /\ outcome = [outcome EXCEPT ![s] = outcome[s]]
    BY DEF MigrationTypeOK, SuccessIsComplete
  <2>3. CASE Required[at[s]] \in tables /\ at[s] < 8
    <3>1. Goto(s, "check", at[s] + 1) /\ outcome' = outcome
      BY <1>5, <2>3 DEF CheckTable
    <3>2. pc'[s] = "check" /\ at'[s] = at[s] + 1
      BY <3>1 DEF Goto, MigrationTypeOK
    <3>3. \A i \in 1..8 : i < at[s] + 1 => i < at[s] \/ i = at[s]
      BY <2>2
    <3>4. Established(s)'
      BY <1>5, <2>1, <2>3, <3>2, <3>3 DEF CheckTable, Established
    <3>5. at[s] + 1 \in 1..8
      BY <2>2, <2>3
    <3> QED
      BY <2>1, <2>2, <3>1, <3>4, <3>5, QuietStep, OneIsFirst
  <2>4. CASE Required[at[s]] \in tables /\ at[s] = 8
    <3>1. Goto(s, "verify", 1) /\ outcome' = outcome
      BY <1>5, <2>4 DEF CheckTable
    <3>2. pc'[s] = "verify"
      BY <3>1 DEF Goto, MigrationTypeOK
    <3>3. \A i \in 1..8 : i < at[s] \/ i = at[s]
      BY <2>4
    <3>4. Established(s)'
      BY <1>5, <2>1, <2>4, <3>2, <3>3 DEF CheckTable, Established
    <3> QED
      BY <2>1, <2>2, <3>1, <3>4, QuietStep, OneIsFirst
  <2>5. CASE Required[at[s]] \notin tables
    <3>1. TablesMissing(s)
      BY <1>5, <2>5 DEF CheckTable
    <3> QED
      BY <2>1, <3>1, MissingStep
  <2> QED
    BY <2>2, <2>3, <2>4, <2>5
<1>6. ASSUME NEW s \in Servers, CheckFails(s) PROVE MigrationInv'
  <2>1. TablesMissing(s) /\ UNCHANGED database /\ faults' \in 0..MaxFaults
    BY <1>6, MigrationAssumption DEF CheckFails, MigrationTypeOK
  <2> QED
    BY <2>1, MissingStep
<1>7. ASSUME NEW s \in Servers, VerifyColumns(s) PROVE MigrationInv'
  <2>1. /\ Goto(s, "serving", 1) /\ outcome' = [outcome EXCEPT ![s] = "verified"]
        /\ UNCHANGED database /\ faults' \in 0..MaxFaults
    BY <1>7 DEF VerifyColumns, Serve, MigrationTypeOK
  <2>2. Established(s)'
    BY <2>1 DEF Goto, Established, MigrationTypeOK
  <2>3. tables = RequiredTables
    BY <1>7, RequiredIsAll DEF VerifyColumns, Established, MigrationTypeOK
  <2> QED
    BY <2>1, <2>2, <2>3, QuietStep, OneIsFirst
<1>8. ASSUME NEW s \in Servers, CreateLedger(s) PROVE MigrationInv'
  <2>1. /\ Goto(s, "applied", 1) /\ outcome' = [outcome EXCEPT ![s] = outcome[s]]
        /\ tables' = tables /\ recorded' = recorded /\ ledger' \in BOOLEAN
        /\ faults' \in 0..MaxFaults
    BY <1>8 DEF CreateLedger, MigrationTypeOK
  <2>2. pc'[s] = "applied" /\ at'[s] = 1
    BY <2>1 DEF Goto, MigrationTypeOK
  <2>3. Established(s)'
    BY <2>2 DEF Established
  <2>4. /\ outcome[s] \in {"none", "failed", "migrated", "verified"}
        /\ outcome[s] \in {"migrated", "verified"} => tables' = RequiredTables
        /\ RecordedExist' /\ tables \subseteq RequiredTables /\ recorded \subseteq 1..8
    BY <2>1 DEF MigrationTypeOK, SuccessIsComplete, RecordedExist
  <2> QED
    BY <2>1, <2>3, <2>4, ServerStep, OneIsFirst
<1>9. ASSUME NEW s \in Servers, CheckApplied(s) PROVE MigrationInv'
  <2>1. UNCHANGED database /\ recorded' = recorded /\ faults' \in 0..MaxFaults
    BY <1>9 DEF CheckApplied, database, MigrationTypeOK
  <2>2. /\ outcome[s] \in {"none", "failed", "migrated", "verified"}
        /\ outcome[s] \in {"migrated", "verified"} => tables = RequiredTables
        /\ at[s] \in 1..8 /\ outcome = [outcome EXCEPT ![s] = outcome[s]]
    BY DEF MigrationTypeOK, SuccessIsComplete
  <2>3. CASE at[s] \in recorded /\ at[s] < 8
    <3>1. Goto(s, "applied", at[s] + 1) /\ outcome' = outcome
      BY <1>9, <2>3 DEF CheckApplied, Advance
    <3>2. pc'[s] = "applied" /\ at'[s] = at[s] + 1
      BY <3>1 DEF Goto, MigrationTypeOK
    <3>3. \A i \in 1..8 : i < at[s] + 1 => i < at[s] \/ i = at[s]
      BY <2>2
    <3>4. Established(s)'
      BY <1>9, <2>1, <2>3, <3>2, <3>3 DEF CheckApplied, Established
    <3>5. at[s] + 1 \in 1..8
      BY <2>2, <2>3
    <3> QED
      BY <2>1, <2>2, <3>1, <3>4, <3>5, QuietStep, OneIsFirst
  <2>4. CASE at[s] \in recorded /\ at[s] = 8
    <3>1. Goto(s, "serving", 1) /\ outcome' = [outcome EXCEPT ![s] = "migrated"]
      BY <1>9, <2>4 DEF CheckApplied, Advance, Serve
    <3>2. Established(s)'
      BY <3>1 DEF Goto, Established, MigrationTypeOK
    <3>3. tables = RequiredTables
      BY <1>9, <2>4, AllRecorded DEF CheckApplied
    <3> QED
      BY <2>1, <3>1, <3>2, <3>3, QuietStep, OneIsFirst
  <2>5. CASE at[s] \notin recorded
    <3>1. Goto(s, "execute", at[s]) /\ outcome' = outcome
      BY <1>9, <2>5 DEF CheckApplied
    <3>2. pc'[s] = "execute" /\ at'[s] = at[s]
      BY <3>1 DEF Goto, MigrationTypeOK
    <3>3. Established(s)'
      BY <1>9, <2>1, <3>2 DEF CheckApplied, Established
    <3> QED
      BY <2>1, <2>2, <3>1, <3>3, QuietStep, OneIsFirst
  <2> QED
    BY <2>2, <2>3, <2>4, <2>5
<1>10. ASSUME NEW s \in Servers, Execute(s) PROVE MigrationInv'
  <2>1. /\ recorded' = recorded /\ ledger' = ledger /\ faults' \in 0..MaxFaults
        /\ at[s] \in 1..8 /\ recorded \subseteq 1..8 /\ ledger \in BOOLEAN
        /\ tables \subseteq RequiredTables /\ outcome = [outcome EXCEPT ![s] = outcome[s]]
        /\ outcome[s] \in {"none", "failed", "migrated", "verified"}
    BY <1>10 DEF Execute, MigrationTypeOK
  <2>2. CASE References[Schemas[at[s]]] \subseteq tables
    <3>1. /\ tables' = tables \union {Schemas[at[s]]} /\ outcome' = outcome
          /\ Goto(s, "record", at[s])
      BY <1>10, <2>2 DEF Execute
    <3>2. pc'[s] = "record" /\ at'[s] = at[s]
      BY <3>1 DEF Goto, MigrationTypeOK
    <3>3. Established(s)'
      BY <1>10, <2>1, <3>1, <3>2 DEF Execute, Established
    <3>4. tables' \subseteq RequiredTables /\ RecordedExist'
      BY <2>1, <3>1 DEF RequiredTables, RecordedExist
    <3>5. outcome[s] \in {"migrated", "verified"} => tables' = RequiredTables
      BY <2>1, <3>1, <3>4 DEF SuccessIsComplete
    <3> QED
      BY <2>1, <3>1, <3>3, <3>4, <3>5, ServerStep, OneIsFirst
  <2>3. CASE ~(References[Schemas[at[s]]] \subseteq tables)
    <3>1. /\ Goto(s, "serving", 1) /\ outcome' = [outcome EXCEPT ![s] = "failed"]
          /\ UNCHANGED database
      BY <1>10, <2>3 DEF Execute, Serve, database
    <3>2. Established(s)'
      BY <3>1 DEF Goto, Established, MigrationTypeOK
    <3> QED
      BY <2>1, <3>1, <3>2, QuietStep, OneIsFirst
  <2> QED
    BY <2>2, <2>3
<1>11. ASSUME NEW s \in Servers, Record(s) PROVE MigrationInv'
  <2>1. /\ recorded' = recorded \union {at[s]} /\ tables' = tables /\ ledger' = ledger
        /\ faults' \in 0..MaxFaults /\ pc[s] = "record"
        /\ at[s] \in 1..8 /\ recorded' \subseteq 1..8 /\ ledger \in BOOLEAN
        /\ tables \subseteq RequiredTables /\ outcome = [outcome EXCEPT ![s] = outcome[s]]
        /\ outcome[s] \in {"none", "failed", "migrated", "verified"}
        /\ outcome[s] \in {"migrated", "verified"} => tables = RequiredTables
    BY <1>11 DEF Record, MigrationTypeOK, SuccessIsComplete
  <2>2. RecordedExist'
    BY <2>1 DEF RecordedExist, Established
  <2>3. CASE at[s] \in recorded
    <3>1. Goto(s, "serving", 1) /\ outcome' = [outcome EXCEPT ![s] = "failed"]
      BY <1>11, <2>3 DEF Record, Serve
    <3>2. Established(s)'
      BY <3>1 DEF Goto, Established, MigrationTypeOK
    <3> QED
      BY <2>1, <2>2, <3>1, <3>2, ServerStep, OneIsFirst
  <2>4. CASE at[s] \notin recorded /\ at[s] < 8
    <3>1. Goto(s, "applied", at[s] + 1) /\ outcome' = outcome
      BY <1>11, <2>4 DEF Record, Advance
    <3>2. pc'[s] = "applied" /\ at'[s] = at[s] + 1
      BY <3>1 DEF Goto, MigrationTypeOK
    <3>3. \A i \in 1..8 : i < at[s] + 1 => i < at[s] \/ i = at[s]
      BY <2>1
    <3>4. Established(s)'
      BY <2>1, <3>2, <3>3 DEF Established
    <3>5. at[s] + 1 \in 1..8
      BY <2>1, <2>4
    <3> QED
      BY <2>1, <2>2, <3>1, <3>4, <3>5, ServerStep, OneIsFirst
  <2>5. CASE at[s] \notin recorded /\ at[s] = 8
    <3>1. Goto(s, "serving", 1) /\ outcome' = [outcome EXCEPT ![s] = "migrated"]
      BY <1>11, <2>5 DEF Record, Advance, Serve
    <3>2. Established(s)'
      BY <3>1 DEF Goto, Established, MigrationTypeOK
    <3>3. tables = RequiredTables
      BY <2>1, <2>5, AllRecorded
    <3> QED
      BY <2>1, <2>2, <3>1, <3>2, <3>3, ServerStep, OneIsFirst
  <2> QED
    BY <2>1, <2>3, <2>4, <2>5
<1>12. CASE UNCHANGED migrationVars
  BY <1>12 DEF migrationVars, MigrationTypeOK, RecordedExist, SuccessIsComplete, Established
<1> QED
  BY <1>1, <1>2, <1>3, <1>4, <1>5, <1>6, <1>7, <1>8, <1>9, <1>10, <1>11, <1>12
  DEF MigrationNext, Step

LEMMA MigrationHolds == MigrationSpec => []MigrationInv
BY InitMigration, StepMigration, PTL DEF MigrationSpec

(* Each process is at a statement of its own, at a migration of the list.    *)
THEOREM MigrationTypes == MigrationSpec => []MigrationTypeOK
BY MigrationHolds, PTL DEF MigrationInv

(* However many processes migrate and wherever they crash, no migration is   *)
(* recorded whose table is not there.                                       *)
THEOREM RecordsAreTrue == MigrationSpec => []RecordedExist
BY MigrationHolds, PTL DEF MigrationInv

(* No process executes a schema before those it refers to.                   *)
THEOREM SchemasComeInOrder == MigrationSpec => []ReferencesComeFirst
<1>1. MigrationInv => ReferencesComeFirst
  <2> SUFFICES ASSUME MigrationInv, NEW s \in Servers, pc[s] = "execute",
                      NEW t \in References[Schemas[at[s]]]
               PROVE  t \in tables
    BY DEF ReferencesComeFirst
  <2>1. at[s] \in 1..8
    BY DEF MigrationInv, MigrationTypeOK
  <2>2. PICK j \in 1..8 : j < at[s] /\ t = Schemas[j]
    BY <2>1, ReferencedEarlier
  <2> QED
    BY <2>2 DEF MigrationInv, Established, RecordedExist
<1> QED
  BY <1>1, MigrationHolds, PTL

(* A start that reports success has all tables.                              *)
THEOREM SuccessMeansComplete == MigrationSpec => []SuccessIsComplete
BY MigrationHolds, PTL DEF MigrationInv
=============================================================================
