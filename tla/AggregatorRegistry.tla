------------------------- MODULE AggregatorRegistry -------------------------
(***************************************************************************)
(* The aggregator's connection table (internal/aggregator/server.go): the   *)
(* map connections.nodes behind one RWMutex, the HTTP handlers that renew,  *)
(* create and upgrade its entries, and the goroutine that evicts idle ones. *)
(*                                                                         *)
(* Every critical section of the code is one action.  A heartbeat from an   *)
(* unknown node takes the lock twice, a registration calls the control      *)
(* plane before it takes the lock, and the lock is free in between.         *)
(*                                                                         *)
(* Times are ages: LastActive is kept as the number of ticks since it was   *)
(* written, counted up to Stale, which is all "now - LastActive > timeout"  *)
(* can tell apart.  Status and ConnectedAt are shown by GET /nodes and      *)
(* tested nowhere; they are left out.                                       *)
(***************************************************************************)
EXTENDS Naturals

CONSTANTS
  Nodes,             \* node identifiers
  Handlers,          \* the request goroutines of the HTTP server
  ConnectionTimeout  \* config.Server.ConnectionTimeout, in ticks

ASSUME RegistryAssumption == ConnectionTimeout \in Nat \ {0}

VARIABLES
  nodes,      \* connections.nodes: a map from node to NodeConnection
  pc,         \* pc[h]: where the handler running on goroutine h stands
  request,    \* request[h]: the kind and the node of the request it serves
  waited,     \* waited[h]: the age of that request
  validated,  \* the nodes ValidateNode has ever answered nil for
  served      \* served[n]: the age of the youngest answered request that
              \* left n in the table; Stale when there is none

vars == <<nodes, pc, request, waited, validated, served>>

Stale == ConnectionTimeout + 1
Ages == 0..Stale
Older(a) == IF a = Stale THEN a ELSE a + 1
Younger(a, b) == IF a < b THEN a ELSE b

NodeConnection == [Verified : BOOLEAN, LastActive : Ages]
Kinds == {"register", "heartbeat", "metrics"}
Positions == {"idle", "admitted", "missed", "validated", "done"}

TypeOK ==
  /\ DOMAIN nodes \subseteq Nodes
  /\ nodes \in [DOMAIN nodes -> NodeConnection]
  /\ pc \in [Handlers -> Positions]
  /\ request \in [Handlers -> [kind : Kinds, node : Nodes]]
  /\ \A h \in Handlers : /\ pc[h] = "missed" => request[h].kind = "heartbeat"
                         /\ pc[h] = "validated" => request[h].kind = "register"
  /\ waited \in [Handlers -> Ages]
  /\ validated \subseteq Nodes
  /\ served \in [Nodes -> Ages]

Init ==
  /\ nodes = [n \in {} |-> n]
  /\ pc = [h \in Handlers |-> "idle"]
  /\ \E n \in Nodes : request = [h \in Handlers |-> [kind |-> "metrics", node |-> n]]
  /\ waited = [h \in Handlers |-> Stale]
  /\ validated = {}
  /\ served = [n \in Nodes |-> Stale]
-----------------------------------------------------------------------------
(* The two functions that write entries; both run under the write lock.    *)

(* registerOrUpdateNode: an existing entry is renewed and may become        *)
(* verified but never loses it; otherwise a fresh entry is stored.          *)
RegisterOrUpdateNode(n, verified) ==
  nodes' = [m \in DOMAIN nodes \union {n} |->
              IF m # n THEN nodes[m]
              ELSE [Verified |-> verified \/ (n \in DOMAIN nodes /\ nodes[n].Verified),
                    LastActive |-> 0]]

(* updateNodeActivity on a node that is in the map.                        *)
UpdateNodeActivity(n) == nodes' = [nodes EXCEPT ![n].LastActive = 0]
-----------------------------------------------------------------------------
(* A request arrives at goroutine h.  authMiddleware looks the node up and  *)
(* lets the request pass whatever it finds, so it leaves no trace here.     *)
Arrive(h) ==
  /\ pc[h] = "idle"
  /\ \E k \in Kinds, n \in Nodes :
       request' = [request EXCEPT ![h] = [kind |-> k, node |-> n]]
  /\ pc' = [pc EXCEPT ![h] = "admitted"]
  /\ waited' = [waited EXCEPT ![h] = 0]
  /\ UNCHANGED <<nodes, validated, served>>

Serving(h, kind, position) == request[h].kind = kind /\ pc[h] = position

(* handleNodeHeartbeat, first critical section: the node is known.         *)
HeartbeatRenew(h) ==
  /\ Serving(h, "heartbeat", "admitted")
  /\ request[h].node \in DOMAIN nodes
  /\ UpdateNodeActivity(request[h].node)
  /\ pc' = [pc EXCEPT ![h] = "done"]
  /\ UNCHANGED <<request, waited, validated, served>>

(* handleNodeHeartbeat, first critical section: the node is unknown.  The   *)
(* lock is released before the second one.                                  *)
HeartbeatMiss(h) ==
  /\ Serving(h, "heartbeat", "admitted")
  /\ request[h].node \notin DOMAIN nodes
  /\ pc' = [pc EXCEPT ![h] = "missed"]
  /\ UNCHANGED <<nodes, request, waited, validated, served>>

(* handleNodeHeartbeat, second critical section; by now the node may be     *)
(* there, put in by another heartbeat or a registration.                    *)
HeartbeatRegister(h) ==
  /\ Serving(h, "heartbeat", "missed")
  /\ RegisterOrUpdateNode(request[h].node, FALSE)
  /\ pc' = [pc EXCEPT ![h] = "done"]
  /\ UNCHANGED <<request, waited, validated, served>>

(* handleNodeMetrics: renews the entry if there is one and ignores whether  *)
(* there was; the rest of the handler does not touch the table.             *)
MetricsRenew(h) ==
  /\ Serving(h, "metrics", "admitted")
  /\ IF request[h].node \in DOMAIN nodes
       THEN UpdateNodeActivity(request[h].node)
       ELSE UNCHANGED nodes
  /\ pc' = [pc EXCEPT ![h] = "done"]
  /\ UNCHANGED <<request, waited, validated, served>>

(* handleNodeRegister: ValidateNode asks the control plane, with no lock    *)
(* held, and gets a success status back.                                    *)
RegisterValidated(h) ==
  /\ Serving(h, "register", "admitted")
  /\ pc' = [pc EXCEPT ![h] = "validated"]
  /\ validated' = validated \union {request[h].node}
  /\ UNCHANGED <<nodes, request, waited, served>>

(* handleNodeRegister: the control plane refuses or cannot be reached; the  *)
(* handler answers 401 and stores nothing.                                  *)
RegisterRefused(h) ==
  /\ Serving(h, "register", "admitted")
  /\ pc' = [pc EXCEPT ![h] = "idle"]
  /\ UNCHANGED <<nodes, request, waited, validated, served>>

(* A plausible slip: the entry is stored without waiting for the answer.   *)
RegisterStoreEarly(h) ==
  /\ request[h].kind = "register" /\ pc[h] \in {"admitted", "validated"}
  /\ RegisterOrUpdateNode(request[h].node, TRUE)
  /\ pc' = [pc EXCEPT ![h] = "done"]
  /\ UNCHANGED <<request, waited, validated, served>>

(* handleNodeRegister, after a positive answer.                            *)
RegisterStore(h) ==
  /\ Serving(h, "register", "validated")
  /\ RegisterOrUpdateNode(request[h].node, TRUE)
  /\ pc' = [pc EXCEPT ![h] = "done"]
  /\ UNCHANGED <<request, waited, validated, served>>

(* The handler answers 200.  A metrics request promises nothing about the   *)
(* table: it does not create an entry.                                      *)
Answer(h) ==
  /\ pc[h] = "done"
  /\ pc' = [pc EXCEPT ![h] = "idle"]
  /\ served' = IF request[h].kind = "metrics" THEN served
               ELSE [served EXCEPT ![request[h].node] = Younger(@, waited[h])]
  /\ UNCHANGED <<nodes, request, waited, validated>>
-----------------------------------------------------------------------------
Expired(c) == c.LastActive > ConnectionTimeout

(* Plausible slips: the boundary is off by one; the sweep finds nothing.   *)
CleanupConnectionsOffByOne ==
  /\ nodes' = [n \in {m \in DOMAIN nodes : nodes[m].LastActive < ConnectionTimeout}
                 |-> nodes[n]]
  /\ UNCHANGED <<pc, request, waited, validated, served>>
CleanupConnectionsSkips ==
  /\ nodes' = [n \in {m \in DOMAIN nodes : Expired(nodes[m]) => nodes[m].Verified}
                 |-> nodes[n]]
  /\ UNCHANGED <<pc, request, waited, validated, served>>

(* cleanupConnections, on the ticker of cleanupExpiredConnections: one pass *)
(* over the map under the write lock, with the time read once.              *)
CleanupConnections ==
  /\ nodes' = [n \in {m \in DOMAIN nodes : ~Expired(nodes[m])} |-> nodes[n]]
  /\ UNCHANGED <<pc, request, waited, validated, served>>

(* Time passes for entries, requests in flight and answered requests.      *)
Tick ==
  /\ nodes' = [n \in DOMAIN nodes |-> [nodes[n] EXCEPT !.LastActive = Older(@)]]
  /\ waited' = [h \in Handlers |-> Older(waited[h])]
  /\ served' = [n \in Nodes |-> Older(served[n])]
  /\ UNCHANGED <<pc, request, validated>>

Handle(h) ==
  \/ HeartbeatRenew(h)
  \/ HeartbeatMiss(h)
  \/ HeartbeatRegister(h)
  \/ MetricsRenew(h)
  \/ RegisterValidated(h)
  \/ RegisterRefused(h)
  \/ RegisterStore(h)
  \/ Answer(h)

Next ==
  \/ \E h \in Handlers : Arrive(h) \/ Handle(h)
  \/ CleanupConnections
  \/ Tick

Spec == Init /\ [][Next]_vars

(* Time moves on and the cleanup ticker fires again and again; no client   *)
(* is obliged to send anything.                                            *)
FairSpec == Spec /\ WF_vars(Tick) /\ WF_vars(CleanupConnections)
-----------------------------------------------------------------------------
(* A node counts as verified only if the control plane confirmed it, in     *)
(* whatever order heartbeats, registrations and evictions of the same node  *)
(* interleave (handleNodeRegister validates outside the lock).              *)
VerifiedWasValidated ==
  \A n \in DOMAIN nodes : nodes[n].Verified => n \in validated

(* A heartbeat or registration that was answered 200, and arrived no more   *)
(* than ConnectionTimeout ago, is still reflected in the table: its node is  *)
(* there and was active no longer ago than that request.  Neither the       *)
(* cleanup nor a slower handler for the same node may undo it.              *)
ServedIsConnected ==
  \A n \in Nodes : served[n] <= ConnectionTimeout =>
    n \in DOMAIN nodes /\ nodes[n].LastActive <= served[n]

(* Why the two invariants above hold: what each handler that is half way    *)
(* through may rely on.  A validated registration is in the history; a      *)
(* handler about to answer has put its node in the table, and no eviction    *)
(* can have removed it while the request itself is young.                    *)
HandlersRely ==
  \A h \in Handlers :
    LET n == request[h].node IN
    /\ pc[h] = "validated" => n \in validated
    /\ /\ pc[h] = "done"
       /\ request[h].kind # "metrics"
       /\ waited[h] <= ConnectionTimeout
       => n \in DOMAIN nodes /\ nodes[n].LastActive <= waited[h]

IInv == TypeOK /\ VerifiedWasValidated /\ ServedIsConnected /\ HandlersRely

(* No step but an eviction takes the verified mark from a node: a heartbeat *)
(* that found the node missing and registers it late must not overwrite the *)
(* registration that came in between.                                       *)
KeepsVerified ==
  \A n \in DOMAIN nodes :
    nodes[n].Verified => \/ n \in DOMAIN nodes' /\ nodes'[n].Verified
                         \/ n \notin DOMAIN nodes' /\ Expired(nodes[n])
VerifiedUntilEvicted == [][KeepsVerified]_vars

(* A node from which no request arrives any more leaves the table for good  *)
(* (cleanupExpiredConnections), verified or not.                            *)
Silent(n) == \A h \in Handlers : pc[h] = "idle" \/ request[h].node # n
IdleNodesAreEvicted ==
  \A n \in Nodes : <>[]Silent(n) => <>[](n \notin DOMAIN nodes)
-----------------------------------------------------------------------------
(* The refinement mapping onto NodeLeases.                                 *)
LeaseOf(n) == IF n \notin DOMAIN nodes THEN "absent"
              ELSE IF nodes[n].Verified THEN "verified" ELSE "unverified"
AgeOf(n) == IF n \in DOMAIN nodes THEN nodes[n].LastActive ELSE 0

Leases == INSTANCE NodeLeases WITH
            lease <- [n \in Nodes |-> LeaseOf(n)],
            age <- [n \in Nodes |-> AgeOf(n)],
            vouched <- validated

(* Seen through the mapping, the handlers' critical sections are atomic     *)
(* lease operations: splitting a heartbeat in two sections and validating    *)
(* outside the lock is invisible to readers of the table.                    *)
ImplementsLeases == Leases!Spec
=============================================================================
