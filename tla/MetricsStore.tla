----------------------------- MODULE MetricsStore -----------------------------
(***************************************************************************)
(* The metrics store of the control plane.  main chooses it once, when it    *)
(* starts (cmd/server/main.go): the store in memory unless the configuration *)
(* or a flag says influxdb, and no call moves from one to the other later.   *)
(***************************************************************************)
EXTENDS MemoryStorage

CONSTANT Calls  \* calls of StoreMetrics of the InfluxDB store

VARIABLES
  storage,  \* metricsStorage: which of the two it is
  writerWaits, pc, buffer, batches, failed, offered, listener, held, errChan, answer
            \* those of InfluxErrors

Influx == INSTANCE InfluxErrors

writerVars ==
  <<writerWaits, pc, buffer, batches, failed, offered, listener, held, errChan, answer>>
storeVars == <<storage, vars, writerVars>>

StoreInit ==
  /\ storage \in {"memory", "influxdb"}
  /\ Init /\ Influx!Init

(* A step of the InfluxDB store, which serves if main chose it.              *)
OfInflux(A) == storage = "influxdb" /\ A /\ UNCHANGED <<storage, vars>>

StoreNext ==
  \/ storage = "memory" /\ Next /\ UNCHANGED <<storage, writerVars>>
  \/ OfInflux(Influx!Next)

StoreSpec == StoreInit /\ [][StoreNext]_storeVars
-----------------------------------------------------------------------------
(* The choice and the variables of both stores keep their types.             *)
StoreTypeOK == storage \in {"memory", "influxdb"} /\ TypeOK /\ Influx!TypeOK

(* A goroutine that influxdb.go:246 starts is lost only after it swallowed   *)
(* two errors, so the leaked ones are at most half the batches that failed.  *)
StuckTookTwo == Influx!StuckTookTwo

(* The writer finds nobody to take its error only when all goroutines of     *)
(* influxdb.go:246 are stuck: no single failed write stops the later ones.   *)
UnheardComesLate == Influx!UnheardComesLate
=============================================================================
