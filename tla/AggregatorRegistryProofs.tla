---------------------- MODULE AggregatorRegistryProofs ----------------------
(* Proofs about the aggregator's connection table, for any set of nodes,    *)
(* any number of request goroutines and any timeout.                        *)
EXTENDS AggregatorRegistry, TLAPS

(* Ageing stays in range, never makes anything younger and keeps order.    *)
LEMMA AgeFacts ==
  /\ Ages = 0..Stale /\ Stale = ConnectionTimeout + 1
  /\ \A a \in Ages : Older(a) \in Ages /\ a <= Older(a)
  /\ \A a, b \in Ages : a <= b => Older(a) <= Older(b)
  /\ \A a, b \in Ages : Older(b) <= ConnectionTimeout /\ a <= b
                          => Older(a) <= Older(b) /\ b <= ConnectionTimeout
  /\ \A a, b \in Ages : /\ Younger(a, b) \in Ages
                        /\ Younger(a, b) = a \/ Younger(a, b) = b
                        /\ Younger(a, b) <= a /\ Younger(a, b) <= b
  /\ 0 \in Ages /\ Stale \in Ages /\ ~(Stale <= ConnectionTimeout)
BY RegistryAssumption DEF Ages, Stale, Older, Younger

(* The initial table, with no entries and no requests, has every part of    *)
(* the invariant.                                                           *)
LEMMA InitIInv == Init => IInv
<1> SUFFICES ASSUME Init PROVE IInv
  OBVIOUS
<1>1. DOMAIN nodes = {}
  BY DEF Init
<1>2. TypeOK
  BY <1>1, AgeFacts DEF Init, TypeOK, Positions, Kinds
<1>3. VerifiedWasValidated /\ ServedIsConnected /\ HandlersRely
  BY <1>1, AgeFacts DEF Init, VerifiedWasValidated, ServedIsConnected, HandlersRely
<1> QED
  BY <1>2, <1>3 DEF IInv
-----------------------------------------------------------------------------
(* What a critical section that stores or renews the entry of n does to the *)
(* map: it stays well formed, every old entry survives and is at least as    *)
(* fresh, n is fresh, and only n can gain the verified mark.                 *)
Refreshed(n, verified) ==
  /\ DOMAIN nodes' \subseteq Nodes
  /\ nodes' \in [DOMAIN nodes' -> NodeConnection]
  /\ \A m \in DOMAIN nodes : /\ m \in DOMAIN nodes'
                             /\ nodes'[m].LastActive <= nodes[m].LastActive
                             /\ nodes[m].Verified => nodes'[m].Verified
  /\ \A m \in DOMAIN nodes' :
       nodes'[m].Verified => \/ m \in DOMAIN nodes /\ nodes[m].Verified
                             \/ m = n /\ verified

LEMMA RegisterFacts ==
  ASSUME TypeOK, NEW n \in Nodes, NEW verified \in BOOLEAN,
         RegisterOrUpdateNode(n, verified)
  PROVE  /\ Refreshed(n, verified)
         /\ n \in DOMAIN nodes' /\ nodes'[n].LastActive = 0
<1> DEFINE entry(m) ==
      IF m # n THEN nodes[m]
      ELSE [Verified |-> verified \/ (n \in DOMAIN nodes /\ nodes[n].Verified),
            LastActive |-> 0]
<1>1. nodes' = [m \in DOMAIN nodes \union {n} |-> entry(m)]
  BY DEF RegisterOrUpdateNode
<1>2. /\ DOMAIN nodes' = DOMAIN nodes \union {n}
      /\ \A m \in DOMAIN nodes' : nodes'[m] = entry(m)
  BY <1>1
<1>3. \A m \in DOMAIN nodes : nodes[m] \in NodeConnection
  BY DEF TypeOK
<1>4. \A m \in DOMAIN nodes \union {n} : entry(m) \in NodeConnection
  BY <1>3, AgeFacts DEF NodeConnection
<1>5. nodes' \in [DOMAIN nodes' -> NodeConnection]
  BY <1>1, <1>2, <1>4
<1>6. \A m \in DOMAIN nodes :
        /\ m \in DOMAIN nodes'
        /\ nodes'[m].LastActive <= nodes[m].LastActive
        /\ nodes[m].Verified => nodes'[m].Verified
  BY <1>2, <1>3 DEF NodeConnection, Ages
<1>7. \A m \in DOMAIN nodes' :
        nodes'[m].Verified => \/ m \in DOMAIN nodes /\ nodes[m].Verified
                              \/ m = n /\ verified
  BY <1>2
<1>8. n \in DOMAIN nodes' /\ nodes'[n].LastActive = 0
  BY <1>2
<1>9. DOMAIN nodes' \subseteq Nodes
  BY <1>2 DEF TypeOK
<1> HIDE DEF entry
<1> QED
  BY <1>5, <1>6, <1>7, <1>8, <1>9 DEF Refreshed

LEMMA RenewFacts ==
  ASSUME TypeOK, NEW n \in DOMAIN nodes, UpdateNodeActivity(n)
  PROVE  /\ Refreshed(n, FALSE)
         /\ DOMAIN nodes' = DOMAIN nodes
         /\ nodes'[n].LastActive = 0
         /\ \A m \in DOMAIN nodes : /\ nodes'[m].Verified = nodes[m].Verified
                                    /\ m # n => nodes'[m] = nodes[m]
<1>1. \A m \in DOMAIN nodes : nodes[m] \in NodeConnection
  BY DEF TypeOK
<1>2. /\ DOMAIN nodes' = DOMAIN nodes
      /\ \A m \in DOMAIN nodes :
           nodes'[m] = IF m = n THEN [nodes[n] EXCEPT !.LastActive = 0] ELSE nodes[m]
  BY DEF UpdateNodeActivity, TypeOK
<1>3. nodes' \in [DOMAIN nodes -> NodeConnection]
  <2>1. \A m \in DOMAIN nodes : nodes'[m] \in NodeConnection
    BY <1>1, <1>2, AgeFacts DEF NodeConnection
  <2> QED
    BY <1>2, <2>1, RegistryAssumption DEF UpdateNodeActivity, TypeOK
<1>4. \A m \in DOMAIN nodes :
        /\ nodes'[m].LastActive <= nodes[m].LastActive
        /\ nodes'[m].Verified = nodes[m].Verified
  BY <1>1, <1>2 DEF NodeConnection, Ages
<1>5. nodes'[n].LastActive = 0
  BY <1>1, <1>2 DEF NodeConnection
<1> QED
  BY <1>2, <1>3, <1>4, <1>5 DEF Refreshed, TypeOK
-----------------------------------------------------------------------------
(* The parts of the invariant that speak about the map survive any step     *)
(* that only refreshes it, for handlers that do not move and for the history. *)
LEMMA RefreshKeeps ==
  ASSUME IInv, NEW n \in Nodes, NEW verified \in BOOLEAN, Refreshed(n, verified),
         verified => n \in validated,
         UNCHANGED <<validated, served>>
  PROVE  /\ VerifiedWasValidated'
         /\ ServedIsConnected'
         /\ \A h \in Handlers :
              /\ pc[h] = "done"
              /\ request[h].kind # "metrics"
              /\ waited[h] <= ConnectionTimeout
              => /\ request[h].node \in DOMAIN nodes'
                 /\ nodes'[request[h].node].LastActive <= waited[h]
<1> USE DEF IInv
<1>1. VerifiedWasValidated'
  BY DEF VerifiedWasValidated, Refreshed
<1>2. \A m \in DOMAIN nodes : /\ nodes[m].LastActive \in Nat
                             /\ m \in DOMAIN nodes'
                             /\ nodes'[m].LastActive \in Nat
                             /\ nodes'[m].LastActive <= nodes[m].LastActive
  <2>1. \A m \in DOMAIN nodes : nodes[m] \in NodeConnection
    BY DEF TypeOK
  <2>2. \A m \in DOMAIN nodes' : nodes'[m] \in NodeConnection
    BY DEF Refreshed
  <2> QED
    BY <2>1, <2>2 DEF Refreshed, NodeConnection, Ages
<1>3. /\ \A m \in Nodes : served[m] \in Nat
      /\ \A h \in Handlers : waited[h] \in Nat /\ request[h].node \in Nodes
  BY DEF TypeOK, Ages
<1>4. ServedIsConnected'
  BY <1>2, <1>3 DEF ServedIsConnected
<1>5. \A h \in Handlers :
        /\ pc[h] = "done"
        /\ request[h].kind # "metrics"
        /\ waited[h] <= ConnectionTimeout
        => /\ request[h].node \in DOMAIN nodes'
           /\ nodes'[request[h].node].LastActive <= waited[h]
  BY <1>2, <1>3 DEF HandlersRely
<1> QED
  BY <1>1, <1>4, <1>5

(* A handler that stored or renewed its own node and is now done may rely    *)
(* on the fresh entry; every other handler is where it was.                  *)
LEMMA StoreStep ==
  ASSUME IInv, NEW h \in Handlers, NEW verified \in BOOLEAN,
         Refreshed(request[h].node, verified),
         verified => request[h].node \in validated,
         \/ request[h].kind = "metrics"
         \/ /\ request[h].node \in DOMAIN nodes'
            /\ nodes'[request[h].node].LastActive = 0,
         pc' = [pc EXCEPT ![h] = "done"],
         UNCHANGED <<request, waited, validated, served>>
  PROVE  IInv'
<1> USE DEF IInv
<1>1. request[h].node \in Nodes /\ waited[h] \in Nat
  BY DEF TypeOK, Ages
<1>2. TypeOK'
  BY DEF TypeOK, Refreshed, Positions
<1>3. VerifiedWasValidated' /\ ServedIsConnected'
  BY <1>1, RefreshKeeps
<1>4. HandlersRely'
  <2> SUFFICES ASSUME NEW g \in Handlers
               PROVE  LET n == request[g].node IN
                      /\ pc'[g] = "validated" => n \in validated
                      /\ /\ pc'[g] = "done"
                         /\ request[g].kind # "metrics"
                         /\ waited[g] <= ConnectionTimeout
                         => n \in DOMAIN nodes' /\ nodes'[n].LastActive <= waited[g]
    BY DEF HandlersRely
  <2>1. CASE g = h
    BY <1>1, <2>1 DEF TypeOK
  <2>2. CASE g # h
    <3>1. pc'[g] = pc[g]
      BY <2>2 DEF TypeOK
    <3>2. /\ pc[g] = "done"
          /\ request[g].kind # "metrics"
          /\ waited[g] <= ConnectionTimeout
          => /\ request[g].node \in DOMAIN nodes'
             /\ nodes'[request[g].node].LastActive <= waited[g]
      BY <1>1, RefreshKeeps
    <3> QED
      BY <3>1, <3>2 DEF HandlersRely
  <2> QED
    BY <2>1, <2>2
<1> QED
  BY <1>2, <1>3, <1>4
-----------------------------------------------------------------------------
(* Every step preserves the invariant: one step of the proof per action.   *)
LEMMA StepIInv == IInv /\ [Next]_vars => IInv'
<1> SUFFICES ASSUME IInv, [Next]_vars PROVE IInv'
  OBVIOUS
<1> USE DEF IInv
<1>1. ASSUME NEW h \in Handlers, Arrive(h) PROVE IInv'
  <2>1. TypeOK'
    <3> PICK k \in Kinds, n \in Nodes :
          request' = [request EXCEPT ![h] = [kind |-> k, node |-> n]]
      BY <1>1 DEF Arrive
    <3>1. request' \in [Handlers -> [kind : Kinds, node : Nodes]]
      BY DEF TypeOK
    <3>2. waited' \in [Handlers -> Ages]
      BY <1>1, AgeFacts DEF Arrive, TypeOK
    <3> QED
      BY <1>1, <3>1, <3>2 DEF Arrive, TypeOK, Positions
  <2>2. VerifiedWasValidated' /\ ServedIsConnected'
    BY <1>1 DEF Arrive, VerifiedWasValidated, ServedIsConnected
  <2>3. HandlersRely'
    BY <1>1 DEF Arrive, HandlersRely, TypeOK
  <2> QED
    BY <2>1, <2>2, <2>3
<1>2. ASSUME NEW h \in Handlers, HeartbeatRenew(h) PROVE IInv'
  <2>1. /\ Refreshed(request[h].node, FALSE)
        /\ request[h].node \in DOMAIN nodes'
        /\ nodes'[request[h].node].LastActive = 0
    BY <1>2, RenewFacts DEF HeartbeatRenew
  <2> QED
    BY <1>2, <2>1, StoreStep DEF HeartbeatRenew
<1>3. ASSUME NEW h \in Handlers, HeartbeatMiss(h) PROVE IInv'
  <2>1. TypeOK'
    <3>1. /\ pc' \in [Handlers -> Positions]
          /\ \A g \in Handlers : pc'[g] = "missed" => g = h \/ pc[g] = "missed"
          /\ \A g \in Handlers : pc'[g] = "validated" => pc[g] = "validated"
      BY <1>3 DEF HeartbeatMiss, TypeOK, Positions
    <3> QED
      BY <1>3, <3>1 DEF HeartbeatMiss, Serving, TypeOK
  <2>2. VerifiedWasValidated' /\ ServedIsConnected'
    BY <1>3 DEF HeartbeatMiss, VerifiedWasValidated, ServedIsConnected
  <2>3. HandlersRely'
    BY <1>3 DEF HeartbeatMiss, HandlersRely, TypeOK
  <2> QED
    BY <2>1, <2>2, <2>3
<1>4. ASSUME NEW h \in Handlers, HeartbeatRegister(h) PROVE IInv'
  <2>1. request[h].node \in Nodes
    BY DEF TypeOK
  <2>2. /\ Refreshed(request[h].node, FALSE)
        /\ request[h].node \in DOMAIN nodes'
        /\ nodes'[request[h].node].LastActive = 0
    BY <1>4, <2>1, RegisterFacts DEF HeartbeatRegister
  <2> QED
    BY <1>4, <2>2, StoreStep DEF HeartbeatRegister
<1>5. ASSUME NEW h \in Handlers, MetricsRenew(h) PROVE IInv'
  <2>1. Refreshed(request[h].node, FALSE)
    <3>1. CASE request[h].node \in DOMAIN nodes
      BY <1>5, <3>1, RenewFacts DEF MetricsRenew
    <3>2. CASE request[h].node \notin DOMAIN nodes
      <4>1. \A m \in DOMAIN nodes : nodes[m].LastActive \in Nat
        BY DEF TypeOK, NodeConnection, Ages
      <4> QED
        BY <1>5, <3>2, <4>1 DEF MetricsRenew, Refreshed, TypeOK
    <3> QED
      BY <3>1, <3>2
  <2>2. request[h].kind = "metrics"
    BY <1>5 DEF MetricsRenew, Serving
  <2> QED
    BY <1>5, <2>1, <2>2, StoreStep DEF MetricsRenew
<1>6. ASSUME NEW h \in Handlers, RegisterValidated(h) PROVE IInv'
  <2>1. TypeOK'
    <3>1. /\ pc' \in [Handlers -> Positions]
          /\ \A g \in Handlers : pc'[g] = "missed" => pc[g] = "missed"
          /\ \A g \in Handlers : pc'[g] = "validated" => g = h \/ pc[g] = "validated"
      BY <1>6 DEF RegisterValidated, TypeOK, Positions
    <3> QED
      BY <1>6, <3>1 DEF RegisterValidated, Serving, TypeOK
  <2>2. VerifiedWasValidated' /\ ServedIsConnected'
    BY <1>6 DEF RegisterValidated, VerifiedWasValidated, ServedIsConnected
  <2>3. HandlersRely'
    BY <1>6 DEF RegisterValidated, HandlersRely, TypeOK
  <2> QED
    BY <2>1, <2>2, <2>3
<1>7. ASSUME NEW h \in Handlers, RegisterRefused(h) PROVE IInv'
  <2>1. TypeOK'
    BY <1>7 DEF RegisterRefused, TypeOK, Positions
  <2>2. VerifiedWasValidated' /\ ServedIsConnected'
    BY <1>7 DEF RegisterRefused, VerifiedWasValidated, ServedIsConnected
  <2>3. HandlersRely'
    BY <1>7 DEF RegisterRefused, HandlersRely, TypeOK
  <2> QED
    BY <2>1, <2>2, <2>3
<1>8. ASSUME NEW h \in Handlers, RegisterStore(h) PROVE IInv'
  <2>1. request[h].node \in Nodes /\ request[h].node \in validated
    BY <1>8 DEF RegisterStore, Serving, TypeOK, HandlersRely
  <2>2. /\ Refreshed(request[h].node, TRUE)
        /\ request[h].node \in DOMAIN nodes'
        /\ nodes'[request[h].node].LastActive = 0
    BY <1>8, <2>1, RegisterFacts DEF RegisterStore
  <2> QED
    BY <1>8, <2>1, <2>2, StoreStep DEF RegisterStore
<1>9. ASSUME NEW h \in Handlers, Answer(h) PROVE IInv'
  <2> DEFINE n == request[h].node
  <2>1. n \in Nodes /\ waited[h] \in Ages /\ \A m \in Nodes : served[m] \in Ages
    BY DEF TypeOK
  <2>2. TypeOK'
    BY <1>9, <2>1, AgeFacts DEF Answer, TypeOK, Positions
  <2>3. VerifiedWasValidated'
    BY <1>9 DEF Answer, VerifiedWasValidated
  <2>4. ServedIsConnected'
    <3>1. CASE request[h].kind = "metrics"
      BY <1>9, <3>1 DEF Answer, ServedIsConnected
    <3>2. CASE request[h].kind # "metrics"
      <4>1. served' = [served EXCEPT ![n] = Younger(served[n], waited[h])]
        BY <1>9, <3>2 DEF Answer
      <4>2. waited[h] <= ConnectionTimeout
              => n \in DOMAIN nodes /\ nodes[n].LastActive <= waited[h]
        BY <1>9, <3>2 DEF Answer, HandlersRely
      <4>3. Younger(served[n], waited[h]) = served[n] \/ Younger(served[n], waited[h]) = waited[h]
        BY DEF Younger
      <4>4. nodes' = nodes
        BY <1>9 DEF Answer
      <4>5. served[n] <= ConnectionTimeout
              => n \in DOMAIN nodes /\ nodes[n].LastActive <= served[n]
        BY <2>1 DEF ServedIsConnected
      <4> HIDE DEF n
      <4>6. served'[n] <= ConnectionTimeout
              => n \in DOMAIN nodes' /\ nodes'[n].LastActive <= served'[n]
        BY <2>1, <4>1, <4>2, <4>3, <4>4, <4>5 DEF TypeOK
      <4>7. \A m \in Nodes : m # n => served'[m] = served[m]
        BY <4>1 DEF TypeOK
      <4> QED
        BY <4>4, <4>6, <4>7 DEF ServedIsConnected
    <3> QED
      BY <3>1, <3>2
  <2>5. HandlersRely'
    BY <1>9 DEF Answer, HandlersRely, TypeOK
  <2> QED
    BY <2>2, <2>3, <2>4, <2>5
<1>10. CASE CleanupConnections
  <2>1. /\ DOMAIN nodes' \subseteq DOMAIN nodes
        /\ \A m \in DOMAIN nodes' : nodes'[m] = nodes[m]
        /\ \A m \in DOMAIN nodes :
             nodes[m].LastActive <= ConnectionTimeout => m \in DOMAIN nodes'
        /\ nodes' \in [DOMAIN nodes' -> NodeConnection]
    BY <1>10, RegistryAssumption
    DEF CleanupConnections, Expired, TypeOK, NodeConnection, Ages
  <2>2. UNCHANGED <<pc, request, waited, validated, served>>
    BY <1>10 DEF CleanupConnections
  <2>3. TypeOK'
    BY <2>1, <2>2 DEF TypeOK
  <2>4. VerifiedWasValidated'
    BY <2>1, <2>2 DEF VerifiedWasValidated
  <2>5. \A m \in DOMAIN nodes : nodes[m].LastActive \in Nat
    BY DEF TypeOK, NodeConnection, Ages
  <2>6. ServedIsConnected'
    <3>1. \A m \in Nodes : served[m] \in Nat
      BY DEF TypeOK, Ages
    <3> QED
      BY <2>1, <2>2, <2>5, <3>1, RegistryAssumption DEF ServedIsConnected
  <2>7. HandlersRely'
    <3>1. \A h \in Handlers : waited[h] \in Nat
      BY DEF TypeOK, Ages
    <3> QED
      BY <2>1, <2>2, <2>5, <3>1, RegistryAssumption DEF HandlersRely
  <2> QED
    BY <2>3, <2>4, <2>6, <2>7
<1>11. CASE Tick
  <2>1. \A m \in DOMAIN nodes : nodes[m] \in NodeConnection
    BY DEF TypeOK
  <2>2. /\ DOMAIN nodes' = DOMAIN nodes
        /\ \A m \in DOMAIN nodes : /\ nodes'[m].LastActive = Older(nodes[m].LastActive)
                                   /\ nodes'[m].Verified = nodes[m].Verified
                                   /\ nodes'[m] \in NodeConnection
        /\ nodes' \in [DOMAIN nodes' -> NodeConnection]
    BY <1>11, <2>1, AgeFacts DEF Tick, NodeConnection
  <2>3. /\ UNCHANGED <<pc, request, validated>>
        /\ \A h \in Handlers : waited'[h] = Older(waited[h])
        /\ \A m \in Nodes : served'[m] = Older(served[m])
    BY <1>11 DEF Tick
  <2>4. TypeOK'
    BY <1>11, <2>2, AgeFacts DEF Tick, TypeOK
  <2>5. VerifiedWasValidated'
    BY <2>2, <2>3 DEF VerifiedWasValidated
  <2>6. \A m \in DOMAIN nodes : nodes[m].LastActive \in Ages
    BY <2>1 DEF NodeConnection
  <2>7. ServedIsConnected'
    <3>1. \A m \in Nodes : served[m] \in Ages
      BY DEF TypeOK
    <3> QED
      BY <2>2, <2>3, <2>6, <3>1, AgeFacts DEF ServedIsConnected
  <2>8. HandlersRely'
    <3>1. \A h \in Handlers : waited[h] \in Ages
      BY DEF TypeOK
    <3> QED
      BY <2>2, <2>3, <2>6, <3>1, AgeFacts DEF HandlersRely
  <2> QED
    BY <2>4, <2>5, <2>7, <2>8
<1>12. CASE UNCHANGED vars
  BY <1>12 DEF vars, TypeOK, VerifiedWasValidated, ServedIsConnected, HandlersRely
<1> QED
  BY <1>1, <1>2, <1>3, <1>4, <1>5, <1>6, <1>7, <1>8, <1>9, <1>10, <1>11, <1>12
  DEF Next, Handle

(* The inductive invariant holds in every reachable state.                 *)
THEOREM InvariantHolds == Spec => []IInv
<1> QED
  BY InitIInv, StepIInv, PTL DEF Spec

(* The table, the handlers and the history keep their types.               *)
THEOREM TypeCorrect == Spec => []TypeOK
<1>1. IInv => TypeOK
  BY DEF IInv
<1> QED
  BY <1>1, InvariantHolds, PTL

(* However heartbeats, registrations and evictions interleave, an entry is  *)
(* verified only if the control plane confirmed its node.                   *)
THEOREM VerifiedOnlyIfValidated == Spec => []VerifiedWasValidated
<1>1. IInv => VerifiedWasValidated
  BY DEF IInv
<1> QED
  BY <1>1, InvariantHolds, PTL

(* A heartbeat or registration answered 200 stays visible in the table for  *)
(* ConnectionTimeout, against the cleanup and every other handler.          *)
THEOREM ServedStaysConnected == Spec => []ServedIsConnected
<1>1. IInv => ServedIsConnected
  BY DEF IInv
<1> QED
  BY <1>1, InvariantHolds, PTL
-----------------------------------------------------------------------------
(* Only the cleanup, and only on an expired entry, takes a verified mark.   *)
THEOREM VerifiedIsSticky == Spec => VerifiedUntilEvicted
<1>1. IInv /\ [Next]_vars => [KeepsVerified]_vars
  <2> SUFFICES ASSUME IInv, Next PROVE KeepsVerified
    OBVIOUS
  <2> USE DEF IInv
  <2>1. ASSUME NEW n \in Nodes, NEW verified \in BOOLEAN, Refreshed(n, verified)
        PROVE  KeepsVerified
    BY <2>1 DEF Refreshed, KeepsVerified
  <2>2. ASSUME nodes' = nodes PROVE KeepsVerified
    BY <2>2 DEF KeepsVerified
  <2>3. ASSUME NEW h \in Handlers, Handle(h) PROVE KeepsVerified
    <3>1. request[h].node \in Nodes
      BY DEF TypeOK
    <3>2. CASE HeartbeatRenew(h)
      BY <2>1, <3>1, <3>2, RenewFacts DEF HeartbeatRenew
    <3>3. CASE MetricsRenew(h)
      BY <2>1, <2>2, <3>1, <3>3, RenewFacts DEF MetricsRenew
    <3>4. CASE HeartbeatRegister(h)
      BY <2>1, <3>1, <3>4, RegisterFacts DEF HeartbeatRegister
    <3>5. CASE RegisterStore(h)
      BY <2>1, <3>1, <3>5, RegisterFacts DEF RegisterStore
    <3>6. CASE HeartbeatMiss(h) \/ RegisterValidated(h) \/ RegisterRefused(h) \/ Answer(h)
      BY <2>2, <3>6 DEF HeartbeatMiss, RegisterValidated, RegisterRefused, Answer
    <3> QED
      BY <2>3, <3>2, <3>3, <3>4, <3>5, <3>6 DEF Handle
  <2>4. ASSUME NEW h \in Handlers, Arrive(h) PROVE KeepsVerified
    BY <2>2, <2>4 DEF Arrive
  <2>5. CASE CleanupConnections
    BY <2>5 DEF CleanupConnections, KeepsVerified
  <2>6. CASE Tick
    <3>1. \A m \in DOMAIN nodes : nodes[m] \in NodeConnection
      BY DEF TypeOK
    <3> QED
      BY <2>6, <3>1 DEF Tick, KeepsVerified, NodeConnection
  <2> QED
    BY <2>3, <2>4, <2>5, <2>6 DEF Next
<1> QED
  BY <1>1, InvariantHolds, PTL DEF Spec, VerifiedUntilEvicted
-----------------------------------------------------------------------------
(* How the mapped lease table follows the map of connections.              *)
LEMMA MapTypes ==
  ASSUME TypeOK
  PROVE  /\ \A n \in Nodes : LeaseOf(n) \in {"absent", "unverified", "verified"}
         /\ \A n \in Nodes : (LeaseOf(n) = "absent") <=> (n \notin DOMAIN nodes)
BY DEF LeaseOf, TypeOK

(* What a handler concludes under one lock still holds when it acts on it    *)
(* under the next, whatever the others and the eviction did in between.      *)
THEOREM HandlersMayRely == Spec => []HandlersRely
BY InvariantHolds, PTL DEF IInv

(* Storing or renewing the entry of n moves the lease of n alone.          *)
LEMMA MapRegister ==
  ASSUME TypeOK, NEW n \in Nodes, NEW verified \in BOOLEAN,
         RegisterOrUpdateNode(n, verified)
  PROVE  /\ \A m \in Nodes : m # n => /\ LeaseOf(m)' = LeaseOf(m)
                                      /\ AgeOf(m)' = AgeOf(m)
         /\ AgeOf(n)' = 0
         /\ verified => LeaseOf(n)' = "verified"
         /\ ~verified /\ n \in DOMAIN nodes => LeaseOf(n)' = LeaseOf(n)
         /\ ~verified /\ n \notin DOMAIN nodes => LeaseOf(n)' = "unverified"
BY DEF RegisterOrUpdateNode, LeaseOf, AgeOf, TypeOK

LEMMA MapRenew ==
  ASSUME TypeOK, NEW n \in DOMAIN nodes, UpdateNodeActivity(n)
  PROVE  /\ \A m \in Nodes : LeaseOf(m)' = LeaseOf(m)
         /\ \A m \in Nodes : m # n => AgeOf(m)' = AgeOf(m)
         /\ AgeOf(n)' = 0
BY RenewFacts DEF LeaseOf, AgeOf

(* Each of the two functions that write entries is one lease operation.    *)
LEMMA RenewRefines ==
  ASSUME TypeOK, NEW n \in Nodes, n \in DOMAIN nodes, UpdateNodeActivity(n),
         UNCHANGED validated
  PROVE  Leases!Renew(n)
<1>1. /\ \A m \in Nodes : LeaseOf(m)' = LeaseOf(m)
      /\ \A m \in Nodes : m # n => AgeOf(m)' = AgeOf(m)
      /\ AgeOf(n)' = 0
      /\ LeaseOf(n) # "absent"
  BY MapRenew, MapTypes
<1> QED
  BY <1>1 DEF Leases!Renew

LEMMA RegisterRefines ==
  ASSUME TypeOK, NEW n \in Nodes, NEW verified \in BOOLEAN,
         RegisterOrUpdateNode(n, verified), UNCHANGED validated
  PROVE  /\ verified /\ n \in validated => Leases!Verify(n)
         /\ ~verified => Leases!Renew(n) \/ Leases!Grant(n)
<1>1. /\ \A m \in Nodes : m # n => /\ LeaseOf(m)' = LeaseOf(m)
                                   /\ AgeOf(m)' = AgeOf(m)
      /\ AgeOf(n)' = 0
      /\ verified => LeaseOf(n)' = "verified"
      /\ ~verified /\ n \in DOMAIN nodes => LeaseOf(n)' = LeaseOf(n)
      /\ ~verified /\ n \notin DOMAIN nodes => LeaseOf(n)' = "unverified"
  BY MapRegister
<1>2. (LeaseOf(n) = "absent") <=> (n \notin DOMAIN nodes)
  BY MapTypes
<1>3. ASSUME verified, n \in validated PROVE Leases!Verify(n)
  BY <1>1, <1>3 DEF Leases!Verify
<1>4. ASSUME ~verified, n \in DOMAIN nodes PROVE Leases!Renew(n)
  BY <1>1, <1>2, <1>4 DEF Leases!Renew
<1>5. ASSUME ~verified, n \notin DOMAIN nodes PROVE Leases!Grant(n)
  BY <1>1, <1>2, <1>5 DEF Leases!Grant
<1> QED
  BY <1>3, <1>4, <1>5

(* One step of a handler is one lease operation on its node, or a stutter. *)
LEMMA HandleRefines ==
  ASSUME IInv, NEW h \in Handlers, Handle(h)
  PROVE  \/ \E n \in Nodes : \/ Leases!Renew(n) \/ Leases!Grant(n)
                             \/ Leases!Vouch(n) \/ Leases!Verify(n)
         \/ UNCHANGED Leases!leaseVars
<1> USE DEF IInv
<1> PICK n \in Nodes : n = request[h].node
  BY DEF TypeOK
<1>1. ASSUME UNCHANGED <<nodes, validated>> PROVE UNCHANGED Leases!leaseVars
  BY <1>1 DEF Leases!leaseVars, LeaseOf, AgeOf
<1>2. CASE HeartbeatRenew(h)
  BY <1>2, RenewRefines DEF HeartbeatRenew
<1>3. CASE MetricsRenew(h)
  BY <1>1, <1>3, RenewRefines DEF MetricsRenew
<1>4. CASE HeartbeatRegister(h)
  BY <1>4, RegisterRefines DEF HeartbeatRegister
<1>5. CASE RegisterStore(h)
  <2>1. n \in validated
    BY <1>5 DEF RegisterStore, Serving, HandlersRely
  <2> QED
    BY <1>5, <2>1, RegisterRefines DEF RegisterStore
<1>6. CASE RegisterValidated(h)
  <2>1. Leases!Vouch(n)
    BY <1>6 DEF RegisterValidated, Leases!Vouch, LeaseOf, AgeOf
  <2> QED
    BY <2>1
<1>7. CASE HeartbeatMiss(h) \/ RegisterRefused(h) \/ Answer(h)
  BY <1>1, <1>7 DEF HeartbeatMiss, RegisterRefused, Answer
<1> QED
  BY <1>2, <1>3, <1>4, <1>5, <1>6, <1>7 DEF Handle

(* The connection table with its handlers, locks and two-step heartbeats    *)
(* implements the lease table: every behaviour of the aggregator is one of   *)
(* NodeLeases.                                                              *)
THEOREM RegistryImplementsLeases == Spec => ImplementsLeases
<1>1. Init => Leases!Init
  BY DEF Init, Leases!Init, LeaseOf, AgeOf
<1>2. IInv /\ [Next]_vars => [Leases!Next]_(Leases!leaseVars)
  <2> SUFFICES ASSUME IInv, [Next]_vars PROVE [Leases!Next]_(Leases!leaseVars)
    OBVIOUS
  <2>1. ASSUME NEW h \in Handlers, Arrive(h) PROVE UNCHANGED Leases!leaseVars
    BY <2>1 DEF Arrive, Leases!leaseVars, LeaseOf, AgeOf
  <2>2. CASE \E h \in Handlers : Handle(h)
    BY <2>2, HandleRefines DEF Leases!Next
  <2>3. CASE CleanupConnections
    <3> DEFINE gone(n) == n \in DOMAIN nodes /\ Expired(nodes[n])
    <3>1. /\ \A n \in Nodes : LeaseOf(n)' = IF gone(n) THEN "absent" ELSE LeaseOf(n)
          /\ \A n \in Nodes : AgeOf(n)' = IF gone(n) THEN 0 ELSE AgeOf(n)
      BY <2>3 DEF CleanupConnections, LeaseOf, AgeOf
    <3>2. \A n \in Nodes : gone(n) <=> (LeaseOf(n) # "absent" /\ AgeOf(n) > ConnectionTimeout)
      BY DEF LeaseOf, AgeOf, Expired
    <3> HIDE DEF gone
    <3>3. Leases!Sweep
      BY <2>3, <3>1, <3>2 DEF CleanupConnections, Leases!Sweep, Leases!Lapsed
    <3> QED
      BY <3>3 DEF Leases!Next
  <2>4. CASE Tick
    <3>1. \A n \in DOMAIN nodes : nodes[n] \in NodeConnection
      BY DEF IInv, TypeOK
    <3>2. /\ DOMAIN nodes' = DOMAIN nodes
          /\ \A n \in DOMAIN nodes : /\ nodes'[n].Verified = nodes[n].Verified
                                     /\ nodes'[n].LastActive = Older(nodes[n].LastActive)
      BY <2>4, <3>1 DEF Tick, NodeConnection
    <3>3. /\ \A n \in Nodes : LeaseOf(n)' = LeaseOf(n)
          /\ \A n \in Nodes :
               AgeOf(n)' = IF LeaseOf(n) = "absent" THEN 0 ELSE Older(AgeOf(n))
      BY <3>2 DEF LeaseOf, AgeOf
    <3>4. Leases!Tick
      BY <2>4, <3>3 DEF Tick, Leases!Tick, Leases!Older, Leases!Stale, Older, Stale
    <3> QED
      BY <3>4 DEF Leases!Next
  <2>5. CASE UNCHANGED vars
    BY <2>5 DEF vars, Leases!leaseVars, LeaseOf, AgeOf
  <2> QED
    BY <2>1, <2>2, <2>3, <2>4, <2>5 DEF Next
<1> QED
  BY <1>1, <1>2, InvariantHolds, PTL DEF Spec, ImplementsLeases, Leases!Spec
=============================================================================
