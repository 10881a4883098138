----------------------------- MODULE MCMigration -----------------------------
(* Three processes that start at the same time on an empty database, of      *)
(* which one does not migrate.                                              *)
EXTENDS Migration
=============================================================================
