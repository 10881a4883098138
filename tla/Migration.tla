------------------------------ MODULE Migration ------------------------------
(***************************************************************************)
(* The start of the control plane up to its migrated database: connect,     *)
(* check the required tables, and if one is missing or the check fails       *)
(* execute the schemas in their order, each recorded under its number in     *)
(* schema_migrations after it was executed.  Each statement is one action    *)
(* and no transaction spans two, so a crash may come between a schema and    *)
(* its record, and several server processes may migrate one database at the  *)
(* same time.                                                              *)
(*                                                                         *)
(* Whatever else fails, the server logs it and serves on; only a later start *)
(* tries again.  (The proofs speak of this module next to Repositories,      *)
(* hence names like MigrationInit.)                                         *)
(***************************************************************************)
EXTENDS Integers, Sequences

CONSTANTS
  Servers,      \* server processes on one database
  AutoMigrate,  \* those of them configured to migrate
  MaxFaults     \* bound: crashes and failed statements

ASSUME MigrationAssumption == AutoMigrate \subseteq Servers /\ MaxFaults \in Nat

(* migrationSchemas: the table each schema creates.                          *)
Schemas == <<"services", "node_groups", "nodes", "service_nodes",
             "users", "user_sessions", "alerting_rules", "notifications">>

(* requiredTables, in the order they are checked.                            *)
Required == <<"users", "user_sessions", "node_groups", "nodes",
              "services", "service_nodes", "alerting_rules", "notifications">>

RequiredTables == {Schemas[i] : i \in 1..8}

(* The REFERENCES clauses of a table's schema.                               *)
References ==
  [services |-> {}, node_groups |-> {}, users |-> {}, alerting_rules |-> {},
   nodes |-> {"services", "node_groups"}, service_nodes |-> {"services", "nodes"},
   user_sessions |-> {"users"}, notifications |-> {"alerting_rules", "nodes"}]

VARIABLES
  tables,    \* the tables there are, apart from schema_migrations
  ledger,    \* schema_migrations is there
  recorded,  \* the numbers in it
  pc,        \* pc[s]: the statement server s is at
  at,        \* at[s]: the table it checks, or the migration it is at
  outcome,   \* outcome[s]: how its last start ended
  faults     \* crashes and failed statements so far

migrationVars == <<tables, ledger, recorded, pc, at, outcome, faults>>
database == <<tables, ledger, recorded>>

MigrationTypeOK ==
  /\ tables \subseteq RequiredTables
  /\ ledger \in BOOLEAN
  /\ recorded \subseteq 1..8
  /\ pc \in [Servers -> {"down", "connect", "check", "verify", "ledger",
                         "applied", "execute", "record", "serving"}]
  /\ at \in [Servers -> 1..8]
  /\ outcome \in [Servers -> {"none", "failed", "migrated", "verified"}]
  /\ faults \in 0..MaxFaults

MigrationInit ==
  /\ tables = {} /\ ledger = FALSE /\ recorded = {}
  /\ pc = [s \in Servers |-> "down"]
  /\ at = [s \in Servers |-> 1]
  /\ outcome = [s \in Servers |-> "none"]
  /\ faults = 0
-----------------------------------------------------------------------------
Goto(s, position, i) ==
  /\ pc' = [pc EXCEPT ![s] = position]
  /\ at' = [at EXCEPT ![s] = i]

Serve(s, how) ==
  /\ Goto(s, "serving", 1)
  /\ outcome' = [outcome EXCEPT ![s] = how]

Boot(s) ==
  /\ pc[s] = "down"
  /\ Goto(s, "connect", 1)
  /\ outcome' = [outcome EXCEPT ![s] = "none"]
  /\ UNCHANGED <<database, faults>>

(* The process ends, between any two statements; what was written stays.     *)
Down(s) == Goto(s, "down", 1) /\ UNCHANGED <<database, outcome>>

Crash(s) ==
  /\ pc[s] # "down" /\ faults < MaxFaults
  /\ Down(s) /\ faults' = faults + 1

Stop(s) ==
  /\ pc[s] = "serving"
  /\ Down(s) /\ UNCHANGED faults

(* A statement fails, the first ping or the health check included, and that   *)
(* ends the start; only a failing table check does not (CheckFails).         *)
Fail(s) ==
  /\ pc[s] \notin {"down", "check", "serving"} /\ faults < MaxFaults
  /\ Serve(s, "failed") /\ faults' = faults + 1
  /\ UNCHANGED database

(* NewPostgresDB and CheckDatabaseHealth.                                    *)
Connect(s) ==
  /\ pc[s] = "connect"
  /\ Goto(s, "check", 1)
  /\ UNCHANGED <<database, outcome, faults>>

(* CheckTablesExist answered an error, whatever error it is: "检测到缺少必要的  *)
(* 数据库表" where the server migrates by itself, else a warning.              *)
TablesMissing(s) ==
  \/ s \in AutoMigrate /\ Goto(s, "ledger", 1) /\ UNCHANGED outcome
  \/ s \notin AutoMigrate /\ Serve(s, "failed")

(* CheckTablesExist, one query per table; the first missing one decides.     *)
CheckTable(s) ==
  /\ pc[s] = "check"
  /\ \/ /\ Required[at[s]] \in tables
        /\ IF at[s] < 8 THEN Goto(s, "check", at[s] + 1) ELSE Goto(s, "verify", 1)
        /\ UNCHANGED outcome
     \/ Required[at[s]] \notin tables /\ TablesMissing(s)
  /\ UNCHANGED <<database, faults>>

(* The query itself fails: answered as if the table were missing.            *)
CheckFails(s) ==
  /\ pc[s] = "check" /\ faults < MaxFaults
  /\ TablesMissing(s) /\ faults' = faults + 1
  /\ UNCHANGED database

(* VerifyTableColumns: a table is created with all its columns at once.      *)
VerifyColumns(s) ==
  /\ pc[s] = "verify"
  /\ Serve(s, "verified")
  /\ UNCHANGED <<database, faults>>

(* createMigrationTable and the check after it.                              *)
CreateLedger(s) ==
  /\ pc[s] = "ledger"
  /\ ledger' = TRUE
  /\ Goto(s, "applied", 1)
  /\ UNCHANGED <<tables, recorded, outcome, faults>>

(* On to the next migration, or "数据库迁移完成".                              *)
Advance(s) ==
  IF at[s] < 8 THEN Goto(s, "applied", at[s] + 1) /\ UNCHANGED outcome
  ELSE Serve(s, "migrated")

(* A plausible slip: the record is written before the schema is executed.    *)
CheckAppliedRecords(s) ==
  /\ pc[s] = "applied"
  /\ recorded' = recorded \union {at[s]}
  /\ IF at[s] \in recorded THEN Advance(s)
     ELSE Goto(s, "execute", at[s]) /\ UNCHANGED outcome
  /\ UNCHANGED <<tables, ledger, faults>>

(* isMigrationApplied.                                                      *)
CheckApplied(s) ==
  /\ pc[s] = "applied" /\ ledger
  /\ IF at[s] \in recorded THEN Advance(s)
     ELSE Goto(s, "execute", at[s]) /\ UNCHANGED outcome
  /\ UNCHANGED <<database, faults>>

(* A plausible slip: a plain CREATE TABLE, which fails if the table is there. *)
ExecuteOnce(s) ==
  /\ pc[s] = "execute"
  /\ IF Schemas[at[s]] \in tables
     THEN Serve(s, "failed") /\ UNCHANGED tables
     ELSE /\ tables' = tables \union {Schemas[at[s]]}
          /\ Goto(s, "record", at[s]) /\ UNCHANGED outcome
  /\ UNCHANGED <<ledger, recorded, faults>>

(* CREATE TABLE IF NOT EXISTS: an error if a table it refers to is missing.  *)
Execute(s) ==
  /\ pc[s] = "execute"
  /\ IF References[Schemas[at[s]]] \subseteq tables
     THEN /\ tables' = tables \union {Schemas[at[s]]}
          /\ Goto(s, "record", at[s]) /\ UNCHANGED outcome
     ELSE Serve(s, "failed") /\ UNCHANGED tables
  /\ UNCHANGED <<ledger, recorded, faults>>

(* recordMigration: an INSERT, which the primary key refuses if another      *)
(* process recorded the migration in between; the migration ends there.      *)
Record(s) ==
  /\ pc[s] = "record"
  /\ recorded' = recorded \union {at[s]}
  /\ IF at[s] \in recorded THEN Serve(s, "failed") ELSE Advance(s)
  /\ UNCHANGED <<tables, ledger, faults>>

(* What the process does by itself.                                         *)
Step(s) ==
  \/ Connect(s) \/ CheckTable(s) \/ VerifyColumns(s) \/ CreateLedger(s)
  \/ CheckApplied(s) \/ Execute(s) \/ Record(s)

MigrationNext ==
  \E s \in Servers :
    Boot(s) \/ Crash(s) \/ Stop(s) \/ Fail(s) \/ CheckFails(s) \/ Step(s)

MigrationSpec == MigrationInit /\ [][MigrationNext]_migrationVars

(* Processes run on, and one that did not come up with its tables is stopped *)
(* and started again by its operator; faults are bounded.                    *)
FairSpec ==
  /\ MigrationSpec
  /\ \A s \in Servers :
       /\ WF_migrationVars(Step(s)) /\ WF_migrationVars(Boot(s))
       /\ WF_migrationVars(Stop(s) /\ outcome[s] = "failed")
-----------------------------------------------------------------------------
(* Whatever was recorded was executed: a crash leaves an executed schema      *)
(* without its record, never a record without its table.                     *)
RecordedExist == \A i \in recorded : Schemas[i] \in tables

(* A schema is executed only when the tables it refers to are there, though   *)
(* the migrations before it may be another process's or an earlier start's.   *)
ReferencesComeFirst ==
  \A s \in Servers : pc[s] = "execute" => References[Schemas[at[s]]] \subseteq tables

(* "数据库迁移成功完成", "✓ 数据库所有必需表已存在": a start that says so left   *)
(* all tables there.                                                        *)
SuccessIsComplete ==
  \A s \in Servers : outcome[s] \in {"migrated", "verified"} => tables = RequiredTables

(* An interrupted migration is completed: whatever point the crashes, the     *)
(* failed statements and the second process left it at, in the end the tables *)
(* are there and a start says so.                                          *)
MigrationCompletes ==
  AutoMigrate # {} =>
    <>(/\ tables = RequiredTables
       /\ \E s \in Servers : outcome[s] \in {"migrated", "verified"})
=============================================================================
