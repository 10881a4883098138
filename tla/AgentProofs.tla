------------------------------ MODULE AgentProofs ------------------------------
(***************************************************************************)
(* Proofs about the agent's process: first the parallel collection alone,    *)
(* for any mount points and sizes, then the way to the loop, for any number  *)
(* of attempts and any timeouts and retry counts a file may give, and last   *)
(* the process, which implements both.                                      *)
(***************************************************************************)
EXTENDS Agent, TLAPS

(* A field of the stats value that is replaced leaves it a stats value.      *)
Shape ==
  stats = [cpu |-> stats.cpu, memory |-> stats.memory, disk |-> stats.disk,
           network |-> stats.network, memoryTotal |-> stats.memoryTotal,
           diskTotal |-> stats.diskTotal]

(* Every goroutine is counted; those of the mount points and of the network  *)
(* run only while their parent, itself counted, waits for them; and none     *)
(* runs outside a collection.                                               *)
Nested ==
  /\ counted = running /\ waiting \subseteq running
  /\ phase # "collecting" => running = {}
  /\ running \cap Mounts # {} => "disk" \in waiting
  /\ running \cap NetworkTasks # {} => "network" \in waiting

CollectInv == TypeOK /\ Shape /\ Nested /\ TotalsMatchParts

LEMMA CollectInvInit == Init => CollectInv
BY DEF Init, Empty, CollectInv, TypeOK, Shape, Nested, TotalsMatchParts

(* What a part may make of the stats value.                                  *)
Filled(filled) ==
  /\ filled = [cpu |-> filled.cpu, memory |-> filled.memory, disk |-> filled.disk,
               network |-> filled.network, memoryTotal |-> filled.memoryTotal,
               diskTotal |-> filled.diskTotal]
  /\ filled.cpu \in BOOLEAN /\ filled.network \subseteq NetworkTasks
  /\ filled.memory \in Sizes \cup {0} /\ filled.memoryTotal \in Sizes \cup {0}
  /\ DOMAIN filled.disk \subseteq Mounts
  /\ \A m \in DOMAIN filled.disk : filled.disk[m] \in Sizes

(* A goroutine that others do not wait in ends with its part filled in.      *)
LEMMA EndsStep ==
  ASSUME CollectInv, NEW g \in Goroutine \ {"disk", "network"}, NEW filled,
         Filled(filled), Ends(g, filled)
  PROVE  CollectInv'
<1> USE DEF CollectInv
<1>1. phase = "collecting" /\ phase' = phase
  BY DEF Ends, Nested
<1>2. TypeOK' /\ Shape'
  BY DEF Ends, End, Filled, TypeOK, Shape
<1>3. Nested'
  BY <1>1 DEF Ends, End, Nested, TypeOK
<1>4. TotalsMatchParts'
  BY <1>1 DEF TotalsMatchParts
<1> QED
  BY <1>2, <1>3, <1>4

(* A step that starts or ends goroutines and leaves the value alone.         *)
LEMMA QuietStep ==
  ASSUME CollectInv, phase' = phase, stats' = stats, phase = "collecting",
         mountPoints' \subseteq Mounts, Nested',
         running' \subseteq Goroutine, waiting' \subseteq {"disk", "network"}
  PROVE  CollectInv'
<1>1. TypeOK' /\ Shape'
  BY DEF CollectInv, TypeOK, Shape, Nested
<1>2. TotalsMatchParts'
  BY DEF TotalsMatchParts
<1> QED
  BY <1>1, <1>2 DEF CollectInv

(* CollectInv is inductive.                                                       *)
LEMMA CollectInvStep == CollectInv /\ [Next]_vars => CollectInv'
<1> SUFFICES ASSUME CollectInv, [Next]_vars PROVE CollectInv'
  OBVIOUS
<1> USE DEF CollectInv
<1>1. CASE Collect
  <2>1. counted = {} /\ running = {} /\ waiting = {}
    BY <1>1 DEF Collect, Nested
  <2>2. running' = Tasks /\ counted' = Tasks /\ waiting' = {} /\ phase' = "collecting"
    BY <1>1, <2>1 DEF Collect, Begin
  <2>3. Nested'
    BY <2>2, CollectorAssumption DEF Nested, Tasks, NetworkTasks
  <2>4. TypeOK' /\ Shape'
    BY <1>1, <2>2 DEF Collect, TypeOK, Shape, Empty, Goroutine
  <2> QED
    BY <2>2, <2>3, <2>4 DEF TotalsMatchParts
<1>2. CASE CollectCPU
  <2>1. PICK found \in BOOLEAN : Ends("cpu", [stats EXCEPT !.cpu = found])
    BY <1>2 DEF CollectCPU
  <2>2. Filled([stats EXCEPT !.cpu = found])
    BY DEF Filled, Shape, TypeOK
  <2> QED
    BY <2>1, <2>2, EndsStep DEF Goroutine, Tasks
<1>3. CASE CollectMemory
  <2>1. PICK size \in Sizes \cup {0} : Ends("memory", [stats EXCEPT !.memory = size])
    BY <1>3 DEF CollectMemory
  <2>2. Filled([stats EXCEPT !.memory = size])
    BY DEF Filled, Shape, TypeOK
  <2> QED
    BY <2>1, <2>2, EndsStep DEF Goroutine, Tasks
<1>4. ASSUME NEW m \in Mounts, CollectMount(m) PROVE CollectInv'
  <2>1. m \in Goroutine \ {"disk", "network"}
    BY CollectorAssumption DEF Goroutine, Tasks
  <2>2. Filled(stats)
    BY DEF Filled, Shape, TypeOK
  <2>3. ASSUME NEW size \in Sizes PROVE Filled(AddDisk(m, size))
    BY DEF AddDisk, Filled, Shape, TypeOK
  <2> QED
    BY <1>4, <2>1, <2>2, <2>3, EndsStep DEF CollectMount
<1>5. CASE CollectInterfaces \/ CollectAddresses \/ CollectConnections
  <2>1. NetworkTasks \subseteq Goroutine \ {"disk", "network"}
    BY DEF Goroutine, NetworkTasks
  <2>2. Filled(stats)
    BY DEF Filled, Shape, TypeOK
  <2>3. ASSUME NEW g \in NetworkTasks
        PROVE  Filled([stats EXCEPT !.network = @ \cup {g}])
    BY DEF Filled, Shape, TypeOK
  <2>4. PICK g \in NetworkTasks :
          \/ Ends(g, [stats EXCEPT !.network = @ \cup {g}])
          \/ Ends(g, stats)
    BY <1>5 DEF CollectInterfaces, CollectAddresses, CollectConnections, NetworkTasks
  <2> QED
    BY <2>1, <2>2, <2>3, <2>4, EndsStep
<1>6. CASE CollectDisk
  <2>1. mountPoints' \subseteq Mounts /\ "disk" \in running
    BY <1>6, CollectorAssumption DEF CollectDisk, TypeOK
  <2>2. /\ running' = running \cup mountPoints' /\ counted' = counted \cup mountPoints'
        /\ waiting' = waiting \cup {"disk"} /\ phase' = phase /\ stats' = stats
    BY <1>6 DEF CollectDisk, Begin
  <2>3. Nested' /\ phase = "collecting"
    BY <2>1, <2>2, CollectorAssumption DEF Nested
  <2>4. running' \subseteq Goroutine /\ waiting' \subseteq {"disk", "network"}
    BY <2>1, <2>2 DEF TypeOK, Goroutine
  <2> QED
    BY <2>1, <2>2, <2>3, <2>4, QuietStep
<1>7. CASE CollectNetwork
  <2>1. /\ running' = running \cup NetworkTasks /\ counted' = counted \cup NetworkTasks
        /\ waiting' = waiting \cup {"network"} /\ UNCHANGED <<phase, stats, mountPoints>>
        /\ "network" \in running
    BY <1>7 DEF CollectNetwork, Begin
  <2>2. Nested' /\ phase = "collecting"
    BY <2>1, CollectorAssumption DEF Nested
  <2>3. /\ running' \subseteq Goroutine /\ waiting' \subseteq {"disk", "network"}
        /\ mountPoints' \subseteq Mounts
    BY <2>1 DEF TypeOK, Goroutine
  <2> QED
    BY <2>1, <2>2, <2>3, QuietStep
<1>8. CASE DiskDone
  <2>1. /\ running' = running \ {"disk"} /\ counted' = counted \ {"disk"}
        /\ waiting' = waiting \ {"disk"} /\ UNCHANGED <<phase, stats, mountPoints>>
        /\ "disk" \in waiting /\ counted \cap Mounts = {}
    BY <1>8 DEF DiskDone, End
  <2>2. Nested' /\ phase = "collecting"
    BY <2>1 DEF Nested
  <2>3. /\ running' \subseteq Goroutine /\ waiting' \subseteq {"disk", "network"}
        /\ mountPoints' \subseteq Mounts
    BY <2>1 DEF TypeOK
  <2> QED
    BY <2>1, <2>2, <2>3, QuietStep
<1>9. CASE NetworkDone
  <2>1. /\ running' = running \ {"network"} /\ counted' = counted \ {"network"}
        /\ waiting' = waiting \ {"network"} /\ UNCHANGED <<phase, stats, mountPoints>>
        /\ "network" \in waiting /\ counted \cap NetworkTasks = {}
    BY <1>9 DEF NetworkDone, End
  <2>2. Nested' /\ phase = "collecting"
    BY <2>1 DEF Nested
  <2>3. /\ running' \subseteq Goroutine /\ waiting' \subseteq {"disk", "network"}
        /\ mountPoints' \subseteq Mounts
    BY <2>1 DEF TypeOK
  <2> QED
    BY <2>1, <2>2, <2>3, QuietStep
<1>10. CASE Return
  <2>1. running = {}
    <3>1. running \cap Tasks = {} /\ waiting = {}
      BY <1>10 DEF Return, Nested, TypeOK, Tasks
    <3> QED
      BY <3>1 DEF Nested, TypeOK, Goroutine
  <2>2. UNCHANGED <<mountPoints, running, counted, waiting>> /\ phase' = "returned"
    BY <1>10 DEF Return
  <2>3. Nested'
    BY <2>1, <2>2 DEF Nested
  <2>4. /\ stats' = [cpu |-> stats.cpu, memory |-> stats.memory, disk |-> stats.disk,
                     network |-> stats.network, memoryTotal |-> stats.memory,
                     diskTotal |-> TotalDiskSpace(stats.disk)]
    BY <1>10 DEF Return, Shape
  <2>5. TypeOK' /\ Shape'
    BY <2>2, <2>4 DEF TypeOK, Shape
  <2>6. TotalsMatchParts'
    BY <2>4 DEF TotalsMatchParts
  <2> QED
    BY <2>3, <2>5, <2>6
<1>11. CASE UNCHANGED vars
  BY <1>11 DEF vars, TypeOK, Shape, Nested, TotalsMatchParts
<1> QED
  BY <1>1, <1>2, <1>3, <1>4, <1>5, <1>6, <1>7, <1>8, <1>9, <1>10, <1>11
  DEF Next, Readings

LEMMA CollectInvariant == Spec => []CollectInv
BY CollectInvInit, CollectInvStep, PTL DEF Spec

(* The value and the sets of goroutines keep their types.                    *)
THEOREM CollectorTypes == Spec => []TypeOK
BY CollectInvariant, PTL DEF CollectInv

(* Whatever mount points there are and whichever readings fail, a value that *)
(* was handed out has the totals of the parts it lists.                      *)
THEOREM TotalsStayMatched == Spec => []TotalsMatchParts
BY CollectInvariant, PTL DEF CollectInv

(* No goroutine outlives the collection it writes for.                       *)
THEOREM HandedOutStaysFinal == Spec => HandedOutIsFinal
<1>1. ASSUME CollectInv, Next
      PROVE  phase = "returned" => phase' = "collecting" \/ UNCHANGED stats
  <2> SUFFICES ASSUME phase = "returned" PROVE phase' = "collecting"
    OBVIOUS
  <2>1. running = {} /\ waiting = {}
    BY <1>1 DEF CollectInv, Nested
  <2>2. ~Readings /\ \A m \in Mounts : ~CollectMount(m)
    BY <2>1 DEF Readings, CollectCPU, CollectMemory, CollectDisk, CollectMount,
       DiskDone, CollectNetwork, CollectInterfaces, CollectAddresses,
       CollectConnections, NetworkDone, Ends
  <2> QED
    BY <1>1, <2>2 DEF Next, Collect, Return
<1>2. CollectInv /\ [Next]_vars =>
        [phase = "returned" => phase' = "collecting" \/ UNCHANGED stats]_vars
  BY <1>1
<1> QED
  BY <1>2, CollectInvariant, PTL DEF Spec, HandedOutIsFinal
-----------------------------------------------------------------------------
(* An answer under way that says 200 was sent after the node was verified;   *)
(* the rest is what the process promises.                                    *)
OkIsVerified == \A r \in requests : r.state = "ok" => verified

StartupInv ==
  Startup!TypeOK /\ OkIsVerified /\ SuccessIsVerified /\ SettingsAreSensible

LEMMA StartupInvInit == Startup!Init => StartupInv
<1> SUFFICES ASSUME Startup!Init PROVE StartupInv
  OBVIOUS
<1>1. settings \in Startup!Settings
  BY DEF Startup!Init, Startup!Unset, Startup!Settings
<1>2. attempt \in 0..MaxRegisterRetries /\ requests \subseteq Startup!Request
  BY AgentAssumption DEF Startup!Init
<1>3. Startup!TypeOK
  BY <1>1, <1>2 DEF Startup!Init, Startup!TypeOK
<1> QED
  BY <1>3 DEF Startup!Init, Startup!Unset, StartupInv, OkIsVerified,
     SuccessIsVerified, SettingsAreSensible

(* A configuration's values are timeouts and counts, and one that asks for   *)
(* an aggregator has been loaded.                                           *)
LEMMA FileTypes ==
  ASSUME NEW file \in {f \in Startup!File : f.loaded} \cup {Startup!NoFile},
         NEW named \in Startup!Named
  PROVE  /\ file.enabled \in BOOLEAN
         /\ Startup!AgentToken(named, file) \in BOOLEAN
         /\ Startup!AppropriateTimeout(named, file) \in Nat
         /\ Startup!Defaulted(file).retryCount \in Nat
         /\ Startup!Defaulted(file).retryInterval \in Nat
         /\ file.loaded \in BOOLEAN /\ Startup!Defaulted(file).interval \in BOOLEAN
         /\ file.enabled => Startup!Defaulted(file).retryCount > 0
         /\ file.loaded => Startup!Defaulted(file).interval
<1>1. CASE file = Startup!NoFile
  BY <1>1 DEF Startup!NoFile, Startup!AgentToken, Startup!ToAggregator,
     Startup!AppropriateTimeout, Startup!Defaulted
<1>2. CASE file \in Startup!File /\ file.loaded
  <2>1. /\ file.enabled \in BOOLEAN /\ file.authToken \in BOOLEAN
        /\ file.aggregatorURL \in BOOLEAN
        /\ file.aggregatorTimeout \in Nat /\ file.serverTimeout \in Nat
        /\ file.retryCount \in Nat /\ file.retryInterval \in Nat
        /\ file.loaded = TRUE
    BY <1>2, AgentAssumption DEF Startup!File
  <2>2. /\ Startup!Defaulted(file).serverTimeout \in Nat
        /\ Startup!Defaulted(file).retryCount \in Nat \ {0}
        /\ Startup!Defaulted(file).retryInterval \in Nat
        /\ Startup!Defaulted(file).interval = TRUE
    BY <1>2, <2>1 DEF Startup!Defaulted, Startup!File
  <2>3. Startup!AgentToken(named, file) \in BOOLEAN
    BY <2>1 DEF Startup!AgentToken, Startup!ToAggregator
  <2>4. Startup!AppropriateTimeout(named, file) \in Nat
    BY <2>1, <2>2 DEF Startup!AppropriateTimeout
  <2>5. /\ file.loaded \in BOOLEAN /\ Startup!Defaulted(file).interval \in BOOLEAN
        /\ file.loaded => Startup!Defaulted(file).interval
    BY <2>1, <2>2, Zenon
  <2>6. Startup!Defaulted(file).retryCount \in Nat /\ Startup!Defaulted(file).retryCount > 0
    BY <2>2
  <2> QED
    BY <2>1, <2>2, <2>3, <2>4, <2>5, <2>6, Zenon
<1> QED
  BY <1>1, <1>2

(* StartupInv is inductive: the aggregator verifies a node before it answers *)
(* 200, and nothing takes a verification back.                               *)
LEMMA StartupInvStep == StartupInv /\ [Startup!Next]_startupVars => StartupInv'
<1> SUFFICES ASSUME StartupInv, [Startup!Next]_startupVars PROVE StartupInv'
  OBVIOUS
<1> USE AgentAssumption
        DEF StartupInv, Startup!TypeOK, OkIsVerified, SuccessIsVerified,
            SettingsAreSensible
<1>1. CASE Startup!Configure
  <2>1. PICK named \in Startup!Named, debug \in BOOLEAN, interval \in BOOLEAN,
             file \in {f \in Startup!File : f.loaded} \cup {Startup!NoFile} :
          /\ settings' =
               [(IF debug THEN Startup!Unset ELSE Startup!ReportSettings(named, file))
                  EXCEPT !.loaded = file.loaded,
                         !.interval = interval \/ Startup!Defaulted(file).interval]
          /\ registered' = (~debug /\ ~file.enabled)
    BY <1>1 DEF Startup!Configure
  <2>2. /\ UNCHANGED <<attempt, requests, verified>>
        /\ pc' \in {"register", "running", "panicked"}
    BY <1>1 DEF Startup!Configure, Startup!StartCollecting
  <2>3. /\ settings' \in Startup!Settings /\ SettingsAreSensible'
        /\ settings'.enabled => ~debug /\ file.enabled
    <3>1. CASE debug
      BY <2>1, <3>1, FileTypes DEF Startup!Unset, Startup!Settings
    <3>2. CASE ~debug
      <4> DEFINE timeout == Startup!WithTimeout(Startup!AppropriateTimeout(named, file))
                 pause == Startup!WithRetryInterval(
                            Startup!Defaulted(file).retryInterval)
      <4>1. timeout \in Nat \ {0} /\ pause \in Nat \ {0}
        BY FileTypes DEF Startup!WithTimeout, Startup!WithRetryInterval
      <4>2. settings' = [loaded |-> file.loaded,
                         interval |-> interval \/ Startup!Defaulted(file).interval,
                         reports |-> TRUE, enabled |-> file.enabled,
                         token |-> Startup!AgentToken(named, file),
                         timeout |-> timeout,
                         retryCount |-> Startup!Defaulted(file).retryCount,
                         retryInterval |-> pause]
        BY <2>1, <3>2 DEF Startup!ReportSettings, Startup!Unset
      <4> HIDE DEF timeout, pause
      <4> QED
        BY <3>2, <4>1, <4>2, FileTypes DEF Startup!Settings
    <3> QED
      BY <3>1, <3>2
  <2>4. SuccessIsVerified'
    BY <2>1, <2>3
  <2> QED
    BY <2>1, <2>2, <2>3, <2>4
<1>2. CASE Startup!Register
  BY <1>2 DEF Startup!Register, Startup!Request
<1>3. CASE Startup!ReceiveOk
  BY <1>3 DEF Startup!ReceiveOk, Startup!StartCollecting
<1>4. CASE Startup!ReceiveRefusal \/ Startup!GiveUp
  BY <1>4 DEF Startup!ReceiveRefusal, Startup!GiveUp, Startup!AttemptFailed,
     Startup!StartCollecting
<1>5. CASE Startup!Resume
  BY <1>5 DEF Startup!Resume
<1>6. ASSUME NEW r \in requests,
             Startup!HandleRegister(r) \/ Startup!LoseRequest(r)
      PROVE  StartupInv'
  BY <1>6 DEF Startup!HandleRegister, Startup!LoseRequest, Startup!Request
<1>7. ASSUME NEW r \in requests, Startup!Validated(r) PROVE StartupInv'
  BY <1>7 DEF Startup!Validated, Startup!AnswerRegister, Startup!Request
<1>8. ASSUME NEW r \in requests, Startup!NotValidated(r) PROVE StartupInv'
  BY <1>8 DEF Startup!NotValidated, Startup!AnswerRegister, Startup!Request
<1>9. CASE UNCHANGED startupVars
  BY <1>9 DEF startupVars
<1> QED
  BY <1>1, <1>2, <1>3, <1>4, <1>5, <1>6, <1>7, <1>8, <1>9
  DEF Startup!Next, Startup!Agent
-----------------------------------------------------------------------------
(* A step of the process is a step of one part, the other standing still.    *)
LEMMA PartsStep ==
  [AgentNext]_agentVars => [Next]_vars /\ [Startup!Next]_startupVars
BY DEF AgentNext, StartupStep, Collecting, agentVars

(* The process is a collection loop: what main does before and beside it     *)
(* changes nothing the collector keeps.                                     *)
THEOREM ImplementsCollector == AgentSpec => Spec
BY PartsStep, PTL DEF AgentSpec, AgentInit, Spec

(* The process goes through the start-up as it is specified alone.           *)
THEOREM ImplementsStartup == AgentSpec => Startup!Spec
<1>1. [Startup!Next]_startupVars => [Startup!Next]_(Startup!vars)
  BY DEF startupVars, Startup!vars
<1> QED
  BY <1>1, PartsStep, PTL DEF AgentSpec, AgentInit, Startup!Spec

LEMMA StartupInvariant == AgentSpec => []StartupInv
BY StartupInvInit, StartupInvStep, PartsStep, PTL DEF AgentSpec, AgentInit

(* All variables of the process keep their types.                            *)
THEOREM AgentTypes == AgentSpec => []AgentTypeOK
BY StartupInvariant, ImplementsCollector, CollectorTypes, PTL
DEF AgentTypeOK, StartupInv

(* However many attempts are lost, given up or answered late, an agent that  *)
(* was told it is registered has been verified.                              *)
THEOREM RegisteredIsVerified == AgentSpec => []SuccessIsVerified
BY StartupInvariant, PTL DEF StartupInv

(* Whatever flags and file say or leave out, a report has time to succeed    *)
(* in and, where an aggregator is used, a retry.                             *)
THEOREM SettingsStaySensible == AgentSpec => []SettingsAreSensible
BY StartupInvariant, PTL DEF StartupInv

(* In the process, too, nobody writes to a value that was handed out.        *)
THEOREM AgentHandsOutFinal == AgentSpec => HandedOutIsFinal
BY ImplementsCollector, HandedOutStaysFinal, PTL
=============================================================================
